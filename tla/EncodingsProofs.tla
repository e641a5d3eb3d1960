-------------------------- MODULE EncodingsProofs --------------------------
(***************************************************************************)
(* Machine-checked proofs about what is serialized.                        *)
(*                                                                         *)
(* The opened columns of a Ligero proof are read as they were written      *)
(* (ligero/prover.rs), for every mix of elements and every maximum of a    *)
(* run's length.  Circuits are read as they were written (circuit.rs), and *)
(* those of an artifact of nym_auth as it describes them (lfc2.rs), for    *)
(* all circuits and artifacts and every limit of sizes and words.          *)
(***************************************************************************)
EXTENDS ProofRuns, CircuitLoading, FiniteSetTheorems, WellFoundedInduction, TLAPS

-----------------------------------------------------------------------------
(* The invariant.                                                          *)

Run == [in_subfield : BOOLEAN, length : 0..MAX_RUN_LENGTH, first : Nat]

\* Runs rs hold the elements from first to last, one after another, and are of the two
\* kinds by turns.  Each begins at an element that there is.
Cover(rs, first, last, size) ==
    /\ rs \in Seq(Run) /\ first \in Nat /\ last \in Nat /\ size \in Nat
    /\ \A k \in 1..Len(rs) : rs[k].first + rs[k].length <= last + 1 /\ rs[k].first <= size
    /\ \A j, k \in 1..Len(rs) : j <= k => rs[j].first <= rs[k].first
    /\ \A j, k \in 1..Len(rs) : k = j + 1 =>
          /\ rs[k].first = rs[j].first + rs[j].length
          /\ rs[k].in_subfield = ~rs[j].in_subfield
    /\ rs = <<>> => first = last + 1
    /\ rs # <<>> =>
          rs[1].first = first /\ rs[Len(rs)].first + rs[Len(rs)].length = last + 1

\* What is written so far; the kind of the next run is not that of the last.
EncodingInv ==
    /\ ~cut /\ decoded = <<>>
    /\ Cover(runs, 1, written, Count)
    /\ runs = <<>> => is_subfield_run = FALSE
    /\ runs # <<>> =>
          runs[1].in_subfield = FALSE /\ is_subfield_run = ~runs[Len(runs)].in_subfield

\* What is still to be read: up to the last element, or not, if the end was cut off.
DecodingInv ==
    /\ \E last \in 0..Count : /\ Cover(runs, Len(decoded) + 1, last, Count)
                              /\ cut <=> last < Count
    /\ runs # <<>> => runs[1].in_subfield = is_subfield_run

RunsInv ==
    /\ column_elements \in Seq(BOOLEAN) /\ written \in 0..Count
    /\ is_subfield_run \in BOOLEAN /\ cut \in BOOLEAN
    /\ decoded \in Seq(Nat) /\ \A n \in 1..Len(decoded) : decoded[n] = n
    /\ result \in {"encoding", "encode error", "decoding", "decode error", "decoded"}
    /\ result = "encoding" => EncodingInv
    /\ result = "decoding" => DecodingInv
    /\ result = "decode error" => cut
    /\ result = "decoded" => ~cut /\ Len(decoded) = Count

-----------------------------------------------------------------------------
(* Runs.                                                                   *)

\* A run is no longer than what is left, nor than the maximum.
LEMMA RunLength ==
    ASSUME column_elements \in Seq(BOOLEAN), written \in 0..Count
    PROVE  run_length \in 0..MAX_RUN_LENGTH /\ run_length <= Count - written
<1> DEFINE left == (written + 1)..Count
           alike == {i \in left : column_elements[i] = is_subfield_run}
<1>1. Count \in Nat
  BY DEF Count
<1>2. IsFiniteSet(left) /\ Cardinality(left) = Count - written
  <2>1. written + 1 \in Int /\ Count \in Int
    BY <1>1
  <2>2. IsFiniteSet((written + 1)..Count)
    BY <2>1, FS_Interval
  <2>3. Cardinality((written + 1)..Count) =
          IF written + 1 > Count THEN 0 ELSE Count - (written + 1) + 1
    BY <2>1, FS_Interval
  <2> QED
    BY <1>1, <2>2, <2>3
<1>3. IsFiniteSet(alike) /\ Cardinality(alike) <= Cardinality(left)
  BY <1>2, FS_Subset
<1>4. Cardinality(alike) \in Nat
  BY <1>3, FS_CardinalityType
<1>5. run_length = AtMost(MAX_RUN_LENGTH, Cardinality(alike))
  BY DEF run_length
<1> HIDE DEF alike
<1> QED
  BY <1>1, <1>2, <1>3, <1>4, <1>5, ProofRunsAssumption DEF AtMost

\* A run of the other kind is written behind the others.
LEMMA CoverAppended ==
    ASSUME NEW rs, NEW first, NEW last, NEW size, Cover(rs, first, last, size),
           NEW r \in Run, r.first = last + 1, last < size,
           rs # <<>> => r.in_subfield = ~rs[Len(rs)].in_subfield
    PROVE  /\ Cover(Append(rs, r), first, last + r.length, size)
           /\ Append(rs, r) # <<>> /\ Append(rs, r)[Len(Append(rs, r))] = r
           /\ Append(rs, r)[1] = IF rs = <<>> THEN r ELSE rs[1]
<1>1. PICK n : n = Len(rs)
  OBVIOUS
<1>2. PICK l : l = Append(rs, r)
  OBVIOUS
<1>3. rs \in Seq(Run) /\ n \in Nat /\ first \in Nat /\ last \in Nat /\ size \in Nat
  BY <1>1 DEF Cover
<1>4. /\ l \in Seq(Run) /\ Len(l) = n + 1 /\ l[n + 1] = r
      /\ \A k \in 1..n : l[k] = rs[k] /\ rs[k] \in Run
  BY <1>1, <1>2, <1>3
<1>5. /\ r.length \in Nat /\ r.first \in Nat
      /\ \A k \in 1..n : rs[k].length \in Nat /\ rs[k].first \in Nat
  BY <1>4, ProofRunsAssumption DEF Run
<1>6. rs = <<>> <=> n = 0
  BY <1>1, <1>3
<1>7. /\ \A k \in 1..n : rs[k].first + rs[k].length <= last + 1 /\ rs[k].first <= size
      /\ \A j, k \in 1..n : j <= k => rs[j].first <= rs[k].first
      /\ \A j, k \in 1..n : k = j + 1 =>
            rs[k].first = rs[j].first + rs[j].length /\ rs[k].in_subfield = ~rs[j].in_subfield
      /\ n = 0 => first = last + 1
      /\ n # 0 => rs[1].first = first /\ rs[n].first + rs[n].length = last + 1
  BY <1>1, <1>6 DEF Cover
<1>8. ASSUME NEW k \in 1..(n + 1)
      PROVE  l[k].first + l[k].length <= last + r.length + 1 /\ l[k].first <= size
  <2>1. CASE k = n + 1
    <3>1. l[k] = r /\ r.first = last + 1 /\ r.first <= size
      BY <1>3, <1>4, <1>5, <2>1
    <3>2. r.first + r.length <= last + r.length + 1
      BY <1>3, <1>5
    <3> QED
      BY <3>1, <3>2
  <2>2. CASE k \in 1..n
    <3>1. l[k] = rs[k] /\ rs[k].first \in Nat /\ rs[k].length \in Nat
      BY <1>4, <1>5, <2>2
    <3>2. rs[k].first + rs[k].length <= last + 1 /\ rs[k].first <= size
      BY <1>7, <2>2
    <3>3. PICK end \in Nat : end = rs[k].first + rs[k].length
      BY <3>1
    <3>4. PICK len \in Nat : len = r.length
      BY <1>5
    <3>5. end <= last + len + 1
      BY ONLY <1>3, <3>2, <3>3, <3>4
    <3> QED
      BY <3>1, <3>2, <3>3, <3>4, <3>5
  <2> QED
    BY <1>3, <2>1, <2>2
<1>9. ASSUME NEW j \in 1..(n + 1), NEW k \in 1..(n + 1), j <= k
      PROVE  l[j].first <= l[k].first
  <2>1. CASE k \in 1..n
    <3>1. j \in 1..n
      BY <1>3, <1>9, <2>1
    <3>2. l[j] = rs[j] /\ l[k] = rs[k] /\ rs[j].first <= rs[k].first
      BY <1>4, <1>7, <1>9, <2>1, <3>1
    <3> QED
      BY <3>2
  <2>2. CASE k = n + 1 /\ j \in 1..n
    <3>1. l[j] = rs[j] /\ rs[j].first \in Nat /\ rs[j].length \in Nat /\ l[k] = r
      BY <1>4, <1>5, <2>2
    <3>2. rs[j].first + rs[j].length <= last + 1
      BY <1>7, <2>2
    <3>3. rs[j].first <= r.first
      BY <1>3, <3>1, <3>2
    <3> QED
      BY <3>1, <3>3
  <2>3. CASE k = n + 1 /\ j = n + 1
    BY <1>4, <1>5, <2>3
  <2> QED
    BY <1>3, <1>9, <2>1, <2>2, <2>3
<1>10. ASSUME NEW j \in 1..(n + 1), NEW k \in 1..(n + 1), k = j + 1
       PROVE  l[k].first = l[j].first + l[j].length /\ l[k].in_subfield = ~l[j].in_subfield
  <2>1. CASE k \in 1..n
    <3>1. j \in 1..n
      BY <1>3, <1>10, <2>1
    <3> QED
      BY <1>4, <1>7, <1>10, <2>1, <3>1
  <2>2. CASE k = n + 1
    <3>1. j = n /\ n # 0 /\ n \in 1..n
      BY <1>3, <1>10, <2>2
    <3>2. l[k] = r /\ l[j] = rs[n]
      BY <1>4, <2>2, <3>1
    <3>3. r.in_subfield = ~rs[n].in_subfield
      BY <1>1, <1>6, <3>1
    <3> QED
      BY <1>7, <3>1, <3>2, <3>3
  <2> QED
    BY <1>3, <2>1, <2>2
<1>11. l # <<>> /\ l[1] = IF n = 0 THEN r ELSE rs[1]
  BY <1>3, <1>4
<1>12. l[1].first = first
  BY <1>3, <1>7, <1>11
<1>13. Cover(l, first, last + r.length, size)
  <2>1. last + r.length \in Nat /\ r.first + r.length = last + r.length + 1
    BY <1>3, <1>5
  <2> QED
    BY <1>3, <1>4, <1>8, <1>9, <1>10, <1>11, <1>12, <2>1 DEF Cover
<1> QED
  BY <1>2, <1>4, <1>6, <1>11, <1>13

\* Without the last run, less is there: a run begins at an element that there is.
LEMMA CoverCutShort ==
    ASSUME NEW rs, NEW first, NEW last, NEW size, Cover(rs, first, last, size),
           rs # <<>>, first > 0
    PROVE  \E less \in Nat :
             /\ less < size /\ Cover(SubSeq(rs, 1, Len(rs) - 1), first, less, size)
             /\ SubSeq(rs, 1, Len(rs) - 1) # <<>> => SubSeq(rs, 1, Len(rs) - 1)[1] = rs[1]
<1>1. PICK n : n = Len(rs)
  OBVIOUS
<1>2. PICK l : l = SubSeq(rs, 1, n - 1)
  OBVIOUS
<1>3. rs \in Seq(Run) /\ n \in Nat \ {0} /\ first \in Nat /\ last \in Nat
  BY <1>1 DEF Cover
<1>4. /\ l \in Seq(Run) /\ Len(l) = n - 1
      /\ \A k \in 1..(n - 1) : l[k] = rs[k]
      /\ \A k \in 1..n : rs[k] \in Run
  BY <1>1, <1>2, <1>3
<1>5. \A k \in 1..n : rs[k].length \in Nat /\ rs[k].first \in Nat
  BY <1>4, ProofRunsAssumption DEF Run
<1>6. /\ \A k \in 1..n : rs[k].first <= size
      /\ \A j, k \in 1..n : j <= k => rs[j].first <= rs[k].first
      /\ \A j, k \in 1..n : k = j + 1 =>
            rs[k].first = rs[j].first + rs[j].length /\ rs[k].in_subfield = ~rs[j].in_subfield
      /\ rs[1].first = first
  BY <1>1, <1>3 DEF Cover
<1>7. PICK less : less = rs[n].first - 1
  OBVIOUS
<1>8. 1 \in 1..n /\ n \in 1..n
  BY <1>3
<1>9. size \in Int
  BY DEF Cover
<1>10. less \in Nat /\ less < size /\ less + 1 = rs[n].first
  <2>1. rs[n].first >= first /\ rs[n].first <= size /\ rs[n].first \in Nat
    BY <1>3, <1>5, <1>6, <1>8
  <2> QED
    BY <1>3, <1>7, <1>9, <2>1
<1>11. ASSUME NEW k \in 1..(n - 1)
       PROVE  l[k].first + l[k].length <= less + 1 /\ l[k].first <= size
  <2>1. k \in 1..n /\ k + 1 \in 1..n /\ l[k] = rs[k]
    BY <1>3, <1>4
  <2>2. rs[k + 1].first = rs[k].first + rs[k].length /\ rs[k + 1].first <= rs[n].first
    BY <1>3, <1>6, <1>8, <2>1
  <2> QED
    BY <1>6, <1>10, <2>1, <2>2
<1>12. /\ \A j, k \in 1..(n - 1) : j <= k => l[j].first <= l[k].first
       /\ \A j, k \in 1..(n - 1) : k = j + 1 =>
             l[k].first = l[j].first + l[j].length /\ l[k].in_subfield = ~l[j].in_subfield
  <2>1. \A k \in 1..(n - 1) : k \in 1..n /\ l[k] = rs[k]
    BY <1>3, <1>4
  <2> QED
    BY <1>6, <2>1
<1>13. l = <<>> => first = less + 1
  BY <1>3, <1>4, <1>6, <1>10
<1>14. l # <<>> => l[1] = rs[1] /\ l[n - 1].first + l[n - 1].length = less + 1
  <2>1. l # <<>> => n - 1 \in 1..(n - 1) /\ 1 \in 1..(n - 1) /\ n - 1 \in 1..n
    BY <1>3, <1>4
  <2>2. l # <<>> => rs[n].first = rs[n - 1].first + rs[n - 1].length
    BY <1>3, <1>6, <1>8, <2>1
  <2> QED
    BY <1>4, <1>10, <2>1, <2>2
<1>15. Cover(l, first, less, size)
  BY <1>3, <1>4, <1>6, <1>10, <1>11, <1>12, <1>13, <1>14 DEF Cover
<1> QED
  BY <1>1, <1>2, <1>10, <1>14, <1>15

\* When the first run is read, the others hold what comes after it.
LEMMA CoverRead ==
    ASSUME NEW rs, NEW first, NEW last, NEW size, Cover(rs, first, last, size), rs # <<>>
    PROVE  /\ Head(rs) \in Run /\ Head(rs) = rs[1] /\ Head(rs).first = first
           /\ first + Head(rs).length <= last + 1
           /\ Cover(Tail(rs), first + Head(rs).length, last, size)
           /\ Tail(rs) # <<>> => Tail(rs)[1].in_subfield = ~Head(rs).in_subfield
<1>1. PICK n : n = Len(rs)
  OBVIOUS
<1>2. PICK l, h : l = Tail(rs) /\ h = Head(rs)
  OBVIOUS
<1>3. rs \in Seq(Run) /\ n \in Nat \ {0} /\ first \in Nat /\ last \in Nat
  BY <1>1 DEF Cover
<1>4. /\ l \in Seq(Run) /\ Len(l) = n - 1 /\ h = rs[1]
      /\ \A k \in 1..(n - 1) : l[k] = rs[k + 1]
      /\ \A k \in 1..n : rs[k] \in Run
  BY <1>1, <1>2, <1>3
<1>5. \A k \in 1..n : rs[k].length \in Nat /\ rs[k].first \in Nat
  BY <1>4, ProofRunsAssumption DEF Run
<1>6. /\ \A k \in 1..n : rs[k].first + rs[k].length <= last + 1 /\ rs[k].first <= size
      /\ \A j, k \in 1..n : j <= k => rs[j].first <= rs[k].first
      /\ \A j, k \in 1..n : k = j + 1 =>
            rs[k].first = rs[j].first + rs[j].length /\ rs[k].in_subfield = ~rs[j].in_subfield
      /\ rs[1].first = first /\ rs[n].first + rs[n].length = last + 1
  BY <1>1, <1>3 DEF Cover
<1>7. 1 \in 1..n /\ n \in 1..n /\ h \in Run /\ h.first = first /\ h.length \in Nat
  BY <1>3, <1>4, <1>5, <1>6
<1>8. \A k \in 1..(n - 1) : k + 1 \in 1..n /\ l[k] = rs[k + 1]
  BY <1>3, <1>4
<1>9. \A k \in 1..(n - 1) : l[k].first + l[k].length <= last + 1 /\ l[k].first <= size
  BY <1>6, <1>8
<1>10. ASSUME NEW j \in 1..(n - 1), NEW k \in 1..(n - 1)
       PROVE  /\ j <= k => l[j].first <= l[k].first
              /\ k = j + 1 =>
                   l[k].first = l[j].first + l[j].length /\ l[k].in_subfield = ~l[j].in_subfield
  <2>1. /\ j + 1 \in 1..n /\ k + 1 \in 1..n /\ l[j] = rs[j + 1] /\ l[k] = rs[k + 1]
        /\ j <= k => j + 1 <= k + 1
        /\ k = j + 1 => k + 1 = (j + 1) + 1
    BY <1>3, <1>8
  <2> QED
    BY <1>6, <2>1
<1>11. n # 1 => /\ l[1].first = first + h.length /\ l[1].in_subfield = ~h.in_subfield
                /\ l[n - 1] = rs[n]
  <2>1. n # 1 => /\ 1 \in 1..(n - 1) /\ n - 1 \in 1..(n - 1)
                 /\ 2 \in 1..n /\ 2 = 1 + 1 /\ n - 1 + 1 = n
    BY <1>3
  <2>2. n # 1 => l[1] = rs[2] /\ l[n - 1] = rs[n]
    BY <1>8, <2>1
  <2> QED
    BY <1>4, <1>6, <1>7, <2>1, <2>2
<1>12. l = <<>> <=> n = 1
  BY <1>3, <1>4
<1>13. n = 1 => first + h.length = last + 1
  BY <1>4, <1>6
<1>14. first + h.length \in Nat /\ first + h.length <= last + 1
  BY <1>3, <1>4, <1>6, <1>7
<1>15. Cover(l, first + h.length, last, size)
  BY <1>3, <1>4, <1>6, <1>9, <1>10, <1>11, <1>12, <1>13, <1>14 DEF Cover
<1> QED
  BY <1>2, <1>4, <1>7, <1>11, <1>12, <1>14, <1>15

-----------------------------------------------------------------------------
(* The steps.                                                              *)

\* A run is written: it begins where the last one ended.
LEMMA EncodeRunKeeps == ASSUME RunsInv, encode_run PROVE RunsInv'
<1>1. /\ result = "encoding" /\ written < Count /\ result' = result
      /\ column_elements' = column_elements /\ cut' = cut /\ decoded' = decoded
      /\ written' = written + run_length /\ is_subfield_run' = ~is_subfield_run
  BY DEF encode_run
<1>2. PICK r : r = [in_subfield |-> is_subfield_run, length |-> run_length, first |-> written + 1]
  OBVIOUS
<1>3. runs' = Append(runs, r)
  BY <1>2 DEF encode_run
<1>4. /\ column_elements \in Seq(BOOLEAN) /\ written \in 0..Count /\ is_subfield_run \in BOOLEAN
      /\ EncodingInv
  BY <1>1 DEF RunsInv
<1>5. Count \in Nat /\ written \in Nat /\ Count' = Count
  BY <1>1, <1>4 DEF Count
<1>6. run_length \in 0..MAX_RUN_LENGTH /\ run_length <= Count - written
  BY <1>4, RunLength
<1>7. /\ r \in Run /\ r.first = written + 1 /\ r.length = run_length
      /\ r.in_subfield = is_subfield_run
  BY <1>2, <1>4, <1>5, <1>6 DEF Run
<1>8. /\ Cover(runs, 1, written, Count)
      /\ runs = <<>> => is_subfield_run = FALSE
      /\ runs # <<>> =>
            runs[1].in_subfield = FALSE /\ is_subfield_run = ~runs[Len(runs)].in_subfield
      /\ ~cut /\ decoded = <<>>
  BY <1>4 DEF EncodingInv
<1>9. /\ Cover(Append(runs, r), 1, written + r.length, Count)
      /\ Append(runs, r) # <<>> /\ Append(runs, r)[Len(Append(runs, r))] = r
      /\ Append(runs, r)[1] = IF runs = <<>> THEN r ELSE runs[1]
  BY <1>1, <1>5, <1>7, <1>8, CoverAppended
<1>10. PICK l : l = Append(runs, r)
  OBVIOUS
<1>11. Cover(l, 1, written + run_length, Count) /\ l # <<>>
  BY <1>7, <1>9, <1>10
<1>12. l[1].in_subfield = FALSE /\ ~is_subfield_run = ~l[Len(l)].in_subfield
  <2>1. r.in_subfield = is_subfield_run /\ l[Len(l)] = r
    BY <1>7, <1>9, <1>10
  <2>2. CASE runs = <<>>
    BY <1>7, <1>8, <1>9, <1>10, <2>1, <2>2
  <2>3. CASE runs # <<>>
    BY <1>8, <1>9, <1>10, <2>1, <2>3
  <2> QED
    BY <2>2, <2>3
<1>13. EncodingInv'
  <2>1. runs' = l
    BY <1>3, <1>10
  <2> QED
    BY <1>1, <1>5, <1>8, <1>11, <1>12, <2>1 DEF EncodingInv
<1>14. written + run_length \in 0..Count
  BY <1>5, <1>6
<1> QED
  BY <1>1, <1>4, <1>5, <1>13, <1>14 DEF RunsInv

\* Reading starts with all elements written, and with a run of field elements.
LEMMA EncodeEndsKeeps == ASSUME RunsInv, encode_ends PROVE RunsInv'
<1>1. /\ result = "encoding" /\ written = Count /\ result' = "decoding"
      /\ is_subfield_run' = FALSE /\ column_elements' = column_elements /\ written' = written
      /\ runs' = runs /\ cut' = cut /\ decoded' = decoded
  BY DEF encode_ends
<1>2. EncodingInv /\ Count \in Nat /\ Count' = Count
  BY <1>1 DEF RunsInv, Count
<1>3. Cover(runs, Len(decoded) + 1, Count, Count) /\ ~cut
  <2>1. Len(decoded) + 1 = 1
    BY <1>2 DEF EncodingInv
  <2> QED
    BY <1>1, <1>2, <2>1 DEF EncodingInv
<1>4. runs # <<>> => runs[1].in_subfield = FALSE
  BY <1>2 DEF EncodingInv
<1>5. DecodingInv'
  <2>1. Count \in 0..Count /\ ~(Count < Count)
    BY <1>2
  <2> QED
    BY <1>1, <1>2, <1>3, <1>4, <2>1 DEF DecodingInv
<1> QED
  BY <1>1, <1>2, <1>5 DEF RunsInv

\* The last run is lost, with an element at least.
LEMMA LoseEndKeeps == ASSUME RunsInv, lose_end PROVE RunsInv'
<1>1. /\ result = "decoding" /\ decoded = <<>> /\ ~cut /\ runs # <<>> /\ cut' = TRUE
      /\ runs' = SubSeq(runs, 1, Len(runs) - 1) /\ result' = result
      /\ column_elements' = column_elements /\ written' = written
      /\ is_subfield_run' = is_subfield_run /\ decoded' = decoded
  BY DEF lose_end
<1>2. DecodingInv /\ Count \in Nat /\ Count' = Count
  BY <1>1 DEF RunsInv, Count
<1>3. PICK last \in 0..Count : Cover(runs, Len(decoded) + 1, last, Count)
  BY <1>2 DEF DecodingInv
<1>4. PICK less \in Nat :
        /\ less < Count /\ Cover(runs', Len(decoded) + 1, less, Count)
        /\ runs' # <<>> => runs'[1] = runs[1]
  <2>1. Len(decoded) + 1 > 0
    BY <1>1
  <2> QED
    BY <1>1, <1>3, <2>1, CoverCutShort
<1>5. runs' # <<>> => runs'[1].in_subfield = is_subfield_run
  BY <1>1, <1>2, <1>4 DEF DecodingInv
<1>6. DecodingInv'
  <2>1. less \in 0..Count
    BY <1>2, <1>4
  <2> QED
    BY <1>1, <1>2, <1>4, <1>5, <2>1 DEF DecodingInv
<1> QED
  BY <1>1, <1>2, <1>6 DEF RunsInv

\* A run is read: its elements come after those that were read before.
LEMMA DecodeRunKeeps == ASSUME RunsInv, decode_run PROVE RunsInv'
<1>1. /\ result = "decoding" /\ runs # <<>> /\ result' = result /\ runs' = Tail(runs)
      /\ Head(runs).length + Len(decoded) <= Count /\ Head(runs).in_subfield = is_subfield_run
      /\ is_subfield_run' = ~is_subfield_run /\ column_elements' = column_elements
      /\ written' = written /\ cut' = cut
  BY DEF decode_run
<1>2. PICK h, d : h = Head(runs) /\ d = decoded
  OBVIOUS
<1>3. PICK more : more = [i \in 1..h.length |-> h.first + i - 1]
  OBVIOUS
<1>4. decoded' = d \o more
  BY <1>2, <1>3 DEF decode_run
<1>5. /\ DecodingInv /\ Count \in Nat /\ Count' = Count /\ d \in Seq(Nat)
      /\ \A n \in 1..Len(d) : d[n] = n
      /\ is_subfield_run \in BOOLEAN
  BY <1>1, <1>2 DEF RunsInv, Count
<1>6. PICK last \in 0..Count : Cover(runs, Len(d) + 1, last, Count) /\ (cut <=> last < Count)
  BY <1>2, <1>5 DEF DecodingInv
<1>7. /\ h \in Run /\ h.first = Len(d) + 1
      /\ Cover(Tail(runs), Len(d) + 1 + h.length, last, Count)
      /\ Tail(runs) # <<>> => Tail(runs)[1].in_subfield = ~h.in_subfield
  BY <1>1, <1>2, <1>6, CoverRead
<1>8. h.length \in Nat /\ h.first \in Nat /\ h.in_subfield \in BOOLEAN
  BY <1>7, ProofRunsAssumption DEF Run
<1>9. more \in Seq(Nat) /\ Len(more) = h.length /\ \A k \in 1..h.length : more[k] = Len(d) + k
  <2>1. more \in [1..h.length -> Nat]
    <3>1. \A i \in 1..h.length : h.first + i - 1 \in Nat
      BY <1>8
    <3> QED
      BY <1>3, <3>1
  <2>2. more \in Seq(Nat) /\ Len(more) = h.length
    BY <1>8, <2>1
  <2>3. ASSUME NEW k \in 1..h.length PROVE more[k] = Len(d) + k
    <3>1. more[k] = h.first + k - 1 /\ h.first = Len(d) + 1 /\ Len(d) \in Nat
      BY <1>3, <1>5, <1>7
    <3> QED
      BY <1>8, <3>1
  <2> QED
    BY <2>2, <2>3
<1>10. PICK e : e = d \o more
  OBVIOUS
<1>11. /\ e \in Seq(Nat) /\ Len(e) = Len(d) + Len(more)
       /\ \A k \in 1..Len(d) : e[k] = d[k]
       /\ \A k \in 1..Len(more) : e[Len(d) + k] = more[k]
  <2>1. d \in Seq(Nat) /\ more \in Seq(Nat)
    BY <1>5, <1>9
  <2> QED
    BY ONLY <1>10, <2>1
<1>12. ASSUME NEW n \in 1..Len(e) PROVE e[n] = n
  <2>1. CASE n \in 1..Len(d)
    BY <1>5, <1>11, <2>1
  <2>2. CASE n > Len(d)
    <3>1. n - Len(d) \in 1..h.length /\ Len(d) + (n - Len(d)) = n
      BY <1>5, <1>8, <1>9, <1>11, <2>2
    <3> QED
      BY <1>9, <1>11, <3>1
  <2> QED
    BY <1>5, <2>1, <2>2
<1>13. DecodingInv'
  <2>1. Len(e) + 1 = Len(d) + 1 + h.length
    <3>1. Len(d) \in Nat /\ Len(e) = Len(d) + h.length
      BY <1>5, <1>9, <1>11
    <3> QED
      BY <1>8, <3>1
  <2>2. decoded' = e
    BY <1>4, <1>10
  <2>3. Tail(runs) # <<>> => Tail(runs)[1].in_subfield = ~is_subfield_run
    BY <1>1, <1>2, <1>7
  <2> QED
    BY <1>1, <1>5, <1>6, <1>7, <2>1, <2>2, <2>3 DEF DecodingInv
<1> QED
  BY <1>1, <1>4, <1>5, <1>10, <1>11, <1>12, <1>13 DEF RunsInv

\* Nothing but the end that is lost makes decoding fail.
LEMMA DecodeFailsKeeps == ASSUME RunsInv, decode_fails PROVE RunsInv'
<1>1. /\ result = "decoding" /\ Len(decoded) < Count /\ result' = "decode error"
      /\ UNCHANGED <<column_elements, written, is_subfield_run, runs, cut, decoded>>
  BY DEF decode_fails
<1>2. DecodingInv /\ Count \in Nat /\ decoded \in Seq(Nat) /\ Count' = Count
  <2>1. DecodingInv /\ decoded \in Seq(Nat) /\ column_elements \in Seq(BOOLEAN)
    BY <1>1 DEF RunsInv
  <2>2. Count \in Nat
    BY <2>1 DEF Count
  <2>3. Count' = Count
    BY <1>1 DEF Count
  <2> QED
    BY <2>1, <2>2, <2>3
<1>3. PICK last \in 0..Count :
        Cover(runs, Len(decoded) + 1, last, Count) /\ (cut <=> last < Count)
  BY <1>2 DEF DecodingInv
<1>4. runs = <<>>
  <2> SUFFICES ASSUME runs # <<>> PROVE FALSE
    OBVIOUS
  <2>1. /\ Head(runs) \in Run /\ Head(runs) = runs[1]
        /\ Len(decoded) + 1 + Head(runs).length <= last + 1
    BY <1>3, CoverRead
  <2>2. Head(runs).in_subfield = is_subfield_run
    BY <1>2, <2>1 DEF DecodingInv
  <2>3. Head(runs).length \in Nat /\ Head(runs).length <= MAX_RUN_LENGTH
    BY <2>1, ProofRunsAssumption DEF Run
  <2>4. Head(runs).length + Len(decoded) <= Count
    BY <1>2, <1>3, <2>1, <2>3
  <2>5. \/ Head(runs).length > MAX_RUN_LENGTH
        \/ Head(runs).length + Len(decoded) > Count
        \/ Head(runs).in_subfield # is_subfield_run
    BY DEF decode_fails
  <2> QED
    BY <1>2, <2>2, <2>3, <2>4, <2>5, ProofRunsAssumption
<1>5. cut
  <2>1. Len(decoded) + 1 = last + 1
    BY <1>3, <1>4 DEF Cover
  <2>2. Len(decoded) \in Nat
    BY <1>2
  <2>3. last \in Nat
    BY <1>2, <1>3
  <2>4. last = Len(decoded)
    BY ONLY <2>1, <2>2, <2>3
  <2>5. Len(decoded) < Count
    BY <1>1
  <2> QED
    BY <1>3, <2>4, <2>5
<1> QED
  BY <1>1, <1>2, <1>5 DEF RunsInv

\* When all elements are there, none was lost.
LEMMA DecodeEndsKeeps == ASSUME RunsInv, decode_ends PROVE RunsInv'
<1>1. /\ result = "decoding" /\ Len(decoded) = Count /\ result' = "decoded"
      /\ UNCHANGED <<column_elements, written, is_subfield_run, runs, cut, decoded>>
  BY DEF decode_ends
<1>2. DecodingInv /\ Count \in Nat /\ Count' = Count
  BY <1>1 DEF RunsInv, Count
<1>3. PICK last \in 0..Count :
        Cover(runs, Len(decoded) + 1, last, Count) /\ (cut <=> last < Count)
  BY <1>2 DEF DecodingInv
<1>4. Len(decoded) <= last
  <2>1. CASE runs = <<>>
    BY <1>1, <1>2, <1>3, <2>1 DEF Cover
  <2>2. CASE runs # <<>>
    <3>1. Head(runs) \in Run /\ Len(decoded) + 1 + Head(runs).length <= last + 1
      BY <1>3, <2>2, CoverRead
    <3>2. Head(runs).length \in Nat
      BY <3>1, ProofRunsAssumption DEF Run
    <3> QED
      BY <1>1, <1>2, <1>3, <3>1, <3>2
  <2> QED
    BY <2>1, <2>2
<1>5. ~cut
  BY <1>1, <1>2, <1>3, <1>4
<1> QED
  BY <1>1, <1>2, <1>5 DEF RunsInv

\* Opened columns that are decoded are those that were encoded, whatever the mix of elements
\* and the longest run, although a run of the encoder is as long as there are elements of its
\* kind further on; and decoding fails just where the end is missing.
THEOREM ColumnsRoundTrip == Spec => []RoundTrip
<1>1. Init => RunsInv
  <2> SUFFICES ASSUME Init PROVE RunsInv
    OBVIOUS
  <2>1. PICK n \in 0..MaxElements : column_elements \in [1..n -> BOOLEAN]
    BY DEF Init
  <2>2. n \in Nat
    BY ProofRunsAssumption
  <2>3. column_elements \in Seq(BOOLEAN) /\ Count = n
    BY <2>1, <2>2 DEF Count
  <2>4. Cover(<<>>, 1, 0, Count)
    BY <2>2, <2>3 DEF Cover
  <2>5. EncodingInv
    BY <2>4 DEF Init, EncodingInv
  <2> QED
    <3>1. /\ written = 0 /\ is_subfield_run = FALSE /\ cut = FALSE /\ decoded = <<>>
          /\ result = "encoding"
      BY DEF Init
    <3>2. decoded \in Seq(Nat) /\ Len(decoded) = 0
      BY <3>1
    <3> QED
      <4>1. written \in 0..Count /\ \A k \in 1..Len(decoded) : decoded[k] = k
        BY <2>2, <2>3, <3>1, <3>2
      <4> QED
        BY <2>3, <2>5, <3>1, <3>2, <4>1 DEF RunsInv
<1>2. RunsInv /\ [Next]_vars => RunsInv'
  <2> SUFFICES ASSUME RunsInv, [Next]_vars PROVE RunsInv'
    OBVIOUS
  <2>1. CASE encode_fails
    BY <2>1 DEF encode_fails, RunsInv, Count
  <2>2. CASE UNCHANGED vars
    BY <2>2 DEF vars, RunsInv, Count, EncodingInv, DecodingInv
  <2> QED
    BY <2>1, <2>2, EncodeRunKeeps, EncodeEndsKeeps, LoseEndKeeps, DecodeRunKeeps,
       DecodeFailsKeeps, DecodeEndsKeeps DEF Next
<1>3. RunsInv => RoundTrip
  <2> SUFFICES ASSUME RunsInv PROVE RoundTrip
    OBVIOUS
  <2>1. result = "decoded" => decoded = [i \in 1..Count |-> i]
    <3> SUFFICES ASSUME result = "decoded" PROVE decoded = [i \in 1..Count |-> i]
      OBVIOUS
    <3>1. decoded \in Seq(Nat) /\ Len(decoded) = Count /\ \A n \in 1..Count : decoded[n] = n
      BY DEF RunsInv
    <3>2. decoded = [i \in 1..Len(decoded) |-> decoded[i]]
      BY <3>1
    <3> QED
      BY <3>1, <3>2
  <2>2. /\ result = "decoded" => ~cut
        /\ result = "decode error" => cut
    BY DEF RunsInv
  <2> QED
    BY <2>1, <2>2 DEF RoundTrip
<1> QED
  BY <1>1, <1>2, <1>3, PTL DEF Spec

-----------------------------------------------------------------------------
(* Circuit files and their loading.                                        *)

\* Induction, as the provers can use it: the least of a set of counterexamples.
LEMMA LeastElement ==
    ASSUME NEW T \in SUBSET Nat, T # {}
    PROVE  \E x \in T : \A y \in T : x <= y
<1> DEFINE R == {ss \in Nat \X Nat : ss[1] < ss[2]}
<1>1. IsWellFoundedOn(R, Nat)
  BY NatLessThanWellFounded, Zenon DEF OpToRel
<1>2. IsWellFoundedOn(R, Nat) => \E x \in T : \A y \in T : ~(<<y, x>> \in R)
  BY WFMin
<1>3. PICK x \in T : \A y \in T : ~(<<y, x>> \in R)
  BY <1>1, <1>2
<1>4. ASSUME NEW y \in T PROVE x <= y
  <2>1. x \in Nat /\ y \in Nat
    OBVIOUS
  <2>2. y < x => <<y, x>> \in R
    BY <2>1
  <2>. QED
    BY <1>3, <2>1, <2>2
<1>. QED
  BY <1>4

-----------------------------------------------------------------------------
(* Sums and concatenations: what the provers must be told of recursion.    *)

\* f are the sums of the first numbers of s.
Sums(f, s, n) == f = [k \in 0..n |-> IF k = 0 THEN 0 ELSE f[k - 1] + s[k]]

\* There are such sums.
LEMMA SumsExist == ASSUME NEW n \in Nat, NEW s PROVE \E f : Sums(f, s, n)
<1> DEFINE Without == {m \in Nat : ~\E f : Sums(f, s, m)}
<1>1. Without = {}
  <2> SUFFICES ASSUME Without # {} PROVE FALSE
    OBVIOUS
  <2>1. PICK m \in Without : \A l \in Without : m <= l
    <3> HIDE DEF Without
    <3>1. Without \in SUBSET Nat
      BY DEF Without
    <3> QED
      BY <3>1, LeastElement
  <2>2. m # 0
    <3> SUFFICES ASSUME m = 0 PROVE FALSE
      OBVIOUS
    <3>1. Sums([k \in 0..m |-> 0], s, m)
      BY DEF Sums
    <3> QED
      BY <2>1, <3>1
  <2>3. m - 1 \in Nat /\ m - 1 \notin Without
    BY <2>1, <2>2
  <2>4. PICK g : Sums(g, s, m - 1)
    BY <2>3
  <2> DEFINE f == [k \in 0..m |-> IF k = m THEN g[m - 1] + s[m] ELSE g[k]]
  <2>5. ASSUME NEW k \in 0..m
        PROVE  f[k] = IF k = 0 THEN 0 ELSE f[k - 1] + s[k]
    <3>1. CASE k = m
      <4>1. f[k] = g[m - 1] + s[m] /\ f[k - 1] = g[k - 1]
        BY <2>2, <2>3, <3>1
      <4> QED
        BY <2>2, <3>1, <4>1
    <3>2. CASE k # m
      <4>1. k \in 0..(m - 1) /\ f[k] = g[k]
        BY <2>3, <3>2
      <4>2. k # 0 => f[k - 1] = g[k - 1]
        BY <2>3, <3>2
      <4>3. g[k] = IF k = 0 THEN 0 ELSE g[k - 1] + s[k]
        BY <2>4, <4>1 DEF Sums
      <4> QED
        BY <4>1, <4>2, <4>3
    <3> QED
      BY <3>1, <3>2
  <2>6. Sums(f, s, m)
    <3>1. f = [k \in 0..m |-> f[k]]
      OBVIOUS
    <3> HIDE DEF f
    <3> QED
      BY <2>5, <3>1 DEF Sums
  <2> QED
    BY <2>1, <2>6
<1> QED
  BY <1>1

\* And SumTo is the last of them.
LEMMA SumIsLast ==
    ASSUME NEW n \in Nat, NEW s
    PROVE  \E f : Sums(f, s, n) /\ SumTo(s, n) = f[n]
<1> DEFINE f == CHOOSE g : Sums(g, s, n)
<1>1. Sums(f, s, n)
  BY SumsExist
<1>2. SumTo(s, n) = f[n]
  BY DEF SumTo, Sums
<1> QED
  BY <1>1, <1>2

\* Sums of the same numbers are the same, as far as both go.
LEMMA SumsAgree ==
    ASSUME NEW n \in Nat, NEW m \in Nat, NEW s, NEW t, NEW f, NEW g,
           Sums(f, s, n), Sums(g, t, m), \A k \in 1..m : k <= n => s[k] = t[k]
    PROVE  \A k \in 0..n : k <= m => f[k] = g[k]
<1> DEFINE Differ == {k \in 0..n : k <= m /\ f[k] # g[k]}
<1> SUFFICES ASSUME Differ # {} PROVE FALSE
  OBVIOUS
<1>1. PICK k \in Differ : \A j \in Differ : k <= j
  <2>1. Differ \in SUBSET Nat
    OBVIOUS
  <2> HIDE DEF Differ
  <2> QED
    BY <2>1, LeastElement
<1>2. /\ f[k] = IF k = 0 THEN 0 ELSE f[k - 1] + s[k]
      /\ g[k] = IF k = 0 THEN 0 ELSE g[k - 1] + t[k]
  BY <1>1 DEF Sums
<1>3. k # 0 => k - 1 \in 0..n /\ k - 1 <= m /\ k - 1 \notin Differ /\ k \in 1..m /\ k <= n
  BY <1>1
<1>4. k # 0 => f[k - 1] = g[k - 1] /\ s[k] = t[k]
  BY <1>3
<1> QED
  BY <1>1, <1>2, <1>4

\* The equation of a sum.
LEMMA SumStep ==
    ASSUME NEW n \in Nat, NEW s
    PROVE  SumTo(s, 0) = 0 /\ SumTo(s, n + 1) = SumTo(s, n) + s[n + 1]
<1>1. SumTo(s, 0) = 0
  <2>1. PICK f : Sums(f, s, 0) /\ SumTo(s, 0) = f[0]
    BY SumIsLast
  <2> QED
    BY <2>1 DEF Sums
<1>2. PICK f : Sums(f, s, n) /\ SumTo(s, n) = f[n]
  BY SumIsLast
<1>3. PICK m \in Nat : m = n + 1
  OBVIOUS
<1>4. PICK g : Sums(g, s, m) /\ SumTo(s, m) = g[m]
  BY SumIsLast
<1>5. f[n] = g[n]
  <2>1. n \in 0..n /\ n <= m
    BY <1>3
  <2> QED
    BY <1>2, <1>4, <2>1, SumsAgree
<1>6. g[m] = g[m - 1] + s[m] /\ m - 1 = n
  BY <1>3, <1>4 DEF Sums
<1> QED
  BY <1>1, <1>2, <1>3, <1>4, <1>5, <1>6

\* A sum is of its numbers only.
LEMMA SumAlike ==
    ASSUME NEW n \in Nat, NEW s, NEW t, \A k \in 1..n : s[k] = t[k]
    PROVE  SumTo(s, n) = SumTo(t, n)
<1>1. PICK f : Sums(f, s, n) /\ SumTo(s, n) = f[n]
  BY SumIsLast
<1>2. PICK g : Sums(g, t, n) /\ SumTo(t, n) = g[n]
  BY SumIsLast
<1> QED
  BY <1>1, <1>2, SumsAgree

\* A sum of integers is one.
LEMMA SumIsInt ==
    ASSUME NEW n \in Nat, NEW s, \A k \in 1..n : s[k] \in Int
    PROVE  SumTo(s, n) \in Int
<1>1. PICK f : Sums(f, s, n) /\ SumTo(s, n) = f[n]
  BY SumIsLast
<1> DEFINE Other == {k \in 0..n : f[k] \notin Int}
<1> SUFFICES ASSUME Other # {} PROVE FALSE
  BY <1>1
<1>2. PICK k \in Other : \A j \in Other : k <= j
  <2>1. Other \in SUBSET Nat
    OBVIOUS
  <2> HIDE DEF Other
  <2> QED
    BY <2>1, LeastElement
<1>3. f[k] = IF k = 0 THEN 0 ELSE f[k - 1] + s[k]
  BY <1>1, <1>2 DEF Sums
<1>4. k # 0 => k - 1 \in 0..n /\ k - 1 \notin Other /\ k \in 1..n
  BY <1>2
<1>5. k # 0 => f[k - 1] \in Int /\ s[k] \in Int
  BY <1>4
<1> QED
  BY <1>2, <1>3, <1>5

\* f are the concatenations of the first sequences of s.
Flattens(f, s, n) == f = [i \in 1..n |-> IF i = 1 THEN s[i] ELSE f[i - 1] \o s[i]]

\* There are such concatenations.
LEMMA FlattensExist == ASSUME NEW n \in Nat, NEW s PROVE \E f : Flattens(f, s, n)
<1> DEFINE Without == {m \in Nat : ~\E f : Flattens(f, s, m)}
<1>1. Without = {}
  <2> SUFFICES ASSUME Without # {} PROVE FALSE
    OBVIOUS
  <2>1. PICK m \in Without : \A l \in Without : m <= l
    <3> HIDE DEF Without
    <3>1. Without \in SUBSET Nat
      BY DEF Without
    <3> QED
      BY <3>1, LeastElement
  <2>2. m # 0
    <3> SUFFICES ASSUME m = 0 PROVE FALSE
      OBVIOUS
    <3>1. Flattens([k \in 1..m |-> s[k]], s, m)
      BY DEF Flattens
    <3> QED
      BY <2>1, <3>1
  <2>3. m - 1 \in Nat /\ m - 1 \notin Without
    BY <2>1, <2>2
  <2>4. PICK g : Flattens(g, s, m - 1)
    BY <2>3
  <2> DEFINE last == IF m = 1 THEN s[m] ELSE g[m - 1] \o s[m]
             f == [k \in 1..m |-> IF k = m THEN last ELSE g[k]]
  <2>5. ASSUME NEW k \in 1..m
        PROVE  f[k] = IF k = 1 THEN s[k] ELSE f[k - 1] \o s[k]
    <3>1. CASE k = m
      <4>1. f[k] = last /\ (k # 1 => f[k - 1] = g[k - 1])
        BY <2>2, <2>3, <3>1
      <4> QED
        BY <2>2, <3>1, <4>1
    <3>2. CASE k # m
      <4>1. k \in 1..(m - 1) /\ f[k] = g[k]
        BY <2>3, <3>2
      <4>2. k # 1 => f[k - 1] = g[k - 1]
        BY <2>3, <3>2
      <4>3. g[k] = IF k = 1 THEN s[k] ELSE g[k - 1] \o s[k]
        BY <2>4, <4>1 DEF Flattens
      <4> QED
        BY <4>1, <4>2, <4>3
    <3> QED
      BY <3>1, <3>2
  <2>6. Flattens(f, s, m)
    <3>1. f = [k \in 1..m |-> f[k]]
      OBVIOUS
    <3> HIDE DEF f
    <3> QED
      BY <2>5, <3>1 DEF Flattens
  <2> QED
    BY <2>1, <2>6
<1> QED
  BY <1>1

\* And FlattenSeq is the last of them.
LEMMA FlattenIsLast ==
    ASSUME NEW s, Len(s) \in Nat \ {0}
    PROVE  \E f : Flattens(f, s, Len(s)) /\ FlattenSeq(s) = f[Len(s)]
<1> DEFINE f == CHOOSE g : Flattens(g, s, Len(s))
<1>1. Flattens(f, s, Len(s))
  BY FlattensExist
<1>2. FlattenSeq(s) = f[Len(s)]
  BY DEF FlattenSeq, Flattens
<1> QED
  BY <1>1, <1>2

\* Sequences one after another are a sequence of what they hold.
LEMMA FlattenIsSeq ==
    ASSUME NEW T, NEW s \in Seq(Seq(T))
    PROVE  FlattenSeq(s) \in Seq(T)
<1>1. CASE Len(s) = 0
  <2>1. s = <<>> /\ FlattenSeq(s) = s
    BY <1>1 DEF FlattenSeq
  <2>2. <<>> \in Seq(T)
    BY ONLY TRUE
  <2> QED
    BY <2>1, <2>2
<1>2. CASE Len(s) # 0
  <2>1. PICK n \in Nat : n = Len(s) /\ n # 0 /\ \A k \in 1..n : s[k] \in Seq(T)
    BY <1>2
  <2>2. PICK f : Flattens(f, s, n) /\ FlattenSeq(s) = f[n]
    BY <2>1, FlattenIsLast
  <2> DEFINE Other == {k \in 1..n : f[k] \notin Seq(T)}
  <2> SUFFICES ASSUME Other # {} PROVE FALSE
    BY <2>1, <2>2
  <2>3. PICK k \in Other : \A j \in Other : k <= j
    <3>1. Other \in SUBSET Nat
      OBVIOUS
    <3> HIDE DEF Other
    <3> QED
      BY <3>1, LeastElement
  <2>4. f[k] = IF k = 1 THEN s[k] ELSE f[k - 1] \o s[k]
    BY <2>2, <2>3 DEF Flattens
  <2>5. k # 1 => k - 1 \in 1..n /\ k - 1 \notin Other
    BY <2>3
  <2>6. k # 1 => f[k - 1] \in Seq(T)
    BY <2>5
  <2>7. s[k] \in Seq(T)
    BY <2>1, <2>3
  <2>8. f[k] \in Seq(T)
    BY <2>4, <2>6, <2>7
  <2> QED
    BY <2>3, <2>8
<1> QED
  BY <1>1, <1>2

-----------------------------------------------------------------------------
(* Sequences, and what an assignment to a part of one leaves alone.        *)

IsSeq(s) == Len(s) \in Nat /\ s = [k \in 1..Len(s) |-> s[k]]

\* A function on 1..n is a sequence of n.
LEMMA FunctionIsSeq ==
    ASSUME NEW n \in Nat, NEW s, s = [k \in 1..n |-> s[k]]
    PROVE  IsSeq(s) /\ Len(s) = n /\ DOMAIN s = 1..n
<1>1. Len([k \in 1..n |-> s[k]]) = n /\ DOMAIN [k \in 1..n |-> s[k]] = 1..n
  OBVIOUS
<1>2. Len(s) = n /\ DOMAIN s = 1..n
  BY <1>1
<1> QED
  BY <1>2 DEF IsSeq

\* A sequence of a set is one.
LEMMA SeqIsSeq ==
    ASSUME NEW T, NEW s \in Seq(T)
    PROVE  IsSeq(s) /\ \A k \in 1..Len(s) : s[k] \in T
BY DEF IsSeq

\* What Append makes of a sequence.
LEMMA AppendIs ==
    ASSUME NEW s, IsSeq(s), NEW y
    PROVE  /\ IsSeq(Append(s, y)) /\ Len(Append(s, y)) = Len(s) + 1
           /\ Append(s, y)[Len(s) + 1] = y
           /\ \A k \in 1..Len(s) : Append(s, y)[k] = s[k]
<1> DEFINE T == {s[k] : k \in 1..Len(s)} \cup {y}
<1>1. s \in Seq(T) /\ y \in T
  <2>1. PICK n \in Nat : n = Len(s)
    BY DEF IsSeq
  <2>2. [k \in 1..n |-> s[k]] \in Seq(T)
    BY <2>1
  <2> QED
    BY <2>1, <2>2 DEF IsSeq
<1> HIDE DEF T
<1>2. Append(s, y) \in Seq(T)
  BY <1>1
<1>3. /\ Len(Append(s, y)) = Len(s) + 1 /\ Append(s, y)[Len(s) + 1] = y
      /\ \A k \in 1..Len(s) : Append(s, y)[k] = s[k]
  BY <1>1
<1>4. IsSeq(Append(s, y))
  BY <1>2, SeqIsSeq
<1> QED
  BY <1>3, <1>4

\* The shortest ones.
LEMMA ShortSeqs ==
    /\ IsSeq(<<>>) /\ Len(<<>>) = 0
    /\ \A x : IsSeq(<<x>>) /\ Len(<<x>>) = 1 /\ <<x>>[1] = x
<1>1. IsSeq(<<>>) /\ Len(<<>>) = 0
  BY DEF IsSeq
<1>2. ASSUME NEW x PROVE IsSeq(<<x>>) /\ Len(<<x>>) = 1 /\ <<x>>[1] = x
  <2>1. Len(<<x>>) = 1 /\ <<x>>[1] = x
    OBVIOUS
  <2>2. <<x>> = [k \in 1..1 |-> <<x>>[k]]
    OBVIOUS
  <2> QED
    BY <2>1, <2>2 DEF IsSeq
<1> QED
  BY <1>1, <1>2

\* A function of the fields of a circuit.
IsCircuit(c) == c = [k \in CircuitFields |-> c[k]]

\* t is s with a quad more in a layer, or a layer more in a file.
AddsQuad(t, s, f, l, y) == t = [s EXCEPT ![f].layers[l].quads = Append(@, y)]
QuadMore(layer, y) == [layer EXCEPT !.quads = Append(layer.quads, y)]
AddsLayer(t, s, f, y) == t = [s EXCEPT ![f].layers = Append(@, y)]

\* A quad more in a layer: all else is as it was.
LEMMA QuadAdded ==
    ASSUME NEW s, IsSeq(s), NEW f \in 1..Len(s), NEW l, NEW y, NEW t,
           DOMAIN s[f] = CircuitFields, IsSeq(s[f].layers), l \in 1..Len(s[f].layers),
           DOMAIN s[f].layers[l] = {"logw", "wires", "quads"},
           AddsQuad(t, s, f, l, y)
    PROVE  /\ IsSeq(t) /\ Len(t) = Len(s) /\ \A n \in 1..Len(s) : n # f => t[n] = s[n]
           /\ DOMAIN t[f] = CircuitFields /\ IsCircuit(t[f])
           /\ \A k \in CircuitFields \ {"layers"} : t[f][k] = s[f][k]
           /\ IsSeq(t[f].layers) /\ Len(t[f].layers) = Len(s[f].layers)
           /\ \A k \in 1..Len(s[f].layers) : k # l => t[f].layers[k] = s[f].layers[k]
           /\ t[f].layers[l] = QuadMore(s[f].layers[l], y)
<1> DEFINE layer == QuadMore(s[f].layers[l], y)
           layers == [s[f].layers EXCEPT ![l] = layer]
           file == [s[f] EXCEPT !.layers = layers]
<1>1. t = [s EXCEPT ![f] = file]
  BY DEF AddsQuad, QuadMore
<1> HIDE DEF file
<1>2. PICK m \in Nat : m = Len(s) /\ DOMAIN s = 1..m
  BY FunctionIsSeq DEF IsSeq
<1>3. t = [n \in 1..m |-> IF n = f THEN file ELSE s[n]]
  BY <1>1, <1>2
<1>4. /\ IsSeq(t) /\ Len(t) = m /\ t[f] = file /\ \A n \in 1..m : n # f => t[n] = s[n]
  <2>1. t = [n \in 1..m |-> t[n]]
    BY <1>3
  <2>2. IsSeq(t) /\ Len(t) = m
    BY <2>1, FunctionIsSeq
  <2> QED
    BY <1>2, <1>3, <2>2
<1> HIDE DEF layers
<1>5. /\ DOMAIN file = CircuitFields /\ file.layers = layers
      /\ \A k \in CircuitFields \ {"layers"} : file[k] = s[f][k]
  BY DEF file, CircuitFields
<1>6. PICK j \in Nat : j = Len(s[f].layers) /\ DOMAIN s[f].layers = 1..j
  BY FunctionIsSeq DEF IsSeq
<1> HIDE DEF layer
<1>7. layers = [k \in 1..j |-> IF k = l THEN layer ELSE s[f].layers[k]]
  BY <1>6 DEF layers
<1>8. /\ IsSeq(layers) /\ Len(layers) = j /\ layers[l] = layer
      /\ \A k \in 1..j : k # l => layers[k] = s[f].layers[k]
  <2>1. layers = [k \in 1..j |-> layers[k]]
    BY <1>7
  <2>2. IsSeq(layers) /\ Len(layers) = j
    BY <2>1, FunctionIsSeq
  <2> QED
    BY <1>6, <1>7, <2>2
<1>9. IsCircuit(file)
  BY DEF file, IsCircuit
<1> QED
  BY <1>2, <1>4, <1>5, <1>6, <1>8, <1>9 DEF layer

\* A layer more in a file: all else is as it was.
LEMMA LayerAdded ==
    ASSUME NEW s, IsSeq(s), NEW f \in 1..Len(s), NEW y, NEW t,
           DOMAIN s[f] = CircuitFields, IsSeq(s[f].layers),
           AddsLayer(t, s, f, y)
    PROVE  /\ IsSeq(t) /\ Len(t) = Len(s) /\ \A n \in 1..Len(s) : n # f => t[n] = s[n]
           /\ DOMAIN t[f] = CircuitFields /\ IsCircuit(t[f])
           /\ \A k \in CircuitFields \ {"layers"} : t[f][k] = s[f][k]
           /\ IsSeq(t[f].layers) /\ Len(t[f].layers) = Len(s[f].layers) + 1
           /\ \A k \in 1..Len(s[f].layers) : t[f].layers[k] = s[f].layers[k]
           /\ t[f].layers[Len(s[f].layers) + 1] = y
<1> DEFINE layers == Append(s[f].layers, y)
           file == [s[f] EXCEPT !.layers = layers]
<1>1. t = [s EXCEPT ![f] = file]
  BY DEF AddsLayer
<1> HIDE DEF file, layers
<1>2. PICK m \in Nat : m = Len(s) /\ DOMAIN s = 1..m
  BY FunctionIsSeq DEF IsSeq
<1>3. t = [n \in 1..m |-> IF n = f THEN file ELSE s[n]]
  BY <1>1, <1>2
<1>4. /\ IsSeq(t) /\ Len(t) = m /\ t[f] = file /\ \A n \in 1..m : n # f => t[n] = s[n]
  <2>1. t = [n \in 1..m |-> t[n]]
    BY <1>3
  <2>2. IsSeq(t) /\ Len(t) = m
    BY <2>1, FunctionIsSeq
  <2> QED
    BY <1>2, <1>3, <2>2
<1>5. /\ DOMAIN file = CircuitFields /\ file.layers = layers
      /\ \A k \in CircuitFields \ {"layers"} : file[k] = s[f][k]
  BY DEF file, CircuitFields
<1>6. /\ IsSeq(layers) /\ Len(layers) = Len(s[f].layers) + 1 /\ layers[Len(s[f].layers) + 1] = y
      /\ \A k \in 1..Len(s[f].layers) : layers[k] = s[f].layers[k]
  BY AppendIs DEF layers
<1>7. IsCircuit(file)
  BY DEF file, IsCircuit
<1> QED
  BY <1>2, <1>4, <1>5, <1>6, <1>7

-----------------------------------------------------------------------------
(* Quads, and their jumps.                                                 *)

Words == 0..(WordLimit - 1)
Sizes == 0..(SizeLimit - 1)

\* Quads of integers, of words, and as they stand in a file.
IntQuads == [gate : Int, left : Int, right : Int, const : Int]
WordQuads == [gate : Words, left : Words, right : Words, const : Words]
SizeQuads == [gate : Sizes, left : Sizes, right : Sizes, const : Sizes]

\* The quad before the qth of Q, or what stands for it.
Before(Q, q) == IF q = 1 THEN DefaultQuad ELSE Q[q - 1]

\* What a quad of a file decodes to behind another, and what a word holds of that.
Decoded(quad, previous) ==
    [gate |-> decode_delta(previous.gate, quad.gate),
     left |-> decode_delta(previous.left, quad.left),
     right |-> decode_delta(previous.right, quad.right), const |-> quad.const]
Wrapped(quad) ==
    [gate |-> quad.gate % WordLimit, left |-> quad.left % WordLimit,
     right |-> quad.right % WordLimit, const |-> quad.const % WordLimit]

\* That a quad behind another can be written.
Fits(quad, previous) ==
    /\ quad \in WordQuads
    /\ QuadAgainst(quad, previous) \in SizeQuads

\* Limits are numbers.
LEMMA Limits ==
    /\ SizeLimit \in Nat \ {0} /\ WordLimit \in Nat \ {0} /\ SizeLimit < WordLimit
    /\ \E half \in Nat : SizeLimit = 2 * half /\ SizeLimit \div 2 = half
    /\ Alterations \subseteq Sizes /\ Sizes \subseteq Words
BY CircuitFileAssumption DEF Sizes, Words

\* The encoding of a jump is a number, and decodes to the index it led to.
LEMMA DeltaDecodes ==
    ASSUME NEW v \in Int, NEW p \in Int
    PROVE  EncodedDelta(v, p) \in Nat /\ decode_delta(p, EncodedDelta(v, p)) = v
<1>1. CASE v >= p
  <2>1. PICK d \in Nat : v = p + d
    <3>1. v - p \in Nat /\ v = p + (v - p)
      BY <1>1
    <3> QED
      BY <3>1
  <2>2. EncodedDelta(v, p) = 2 * d
    BY <1>1, <2>1 DEF EncodedDelta
  <2>3. (2 * d) % 2 = 0 /\ (2 * d) \div 2 = d
    OBVIOUS
  <2> QED
    BY <2>1, <2>2, <2>3 DEF decode_delta
<1>2. CASE ~(v >= p)
  <2>1. PICK d \in Nat : p = v + d
    <3>1. p - v \in Nat /\ p = v + (p - v)
      BY <1>2
    <3> QED
      BY <3>1
  <2>2. EncodedDelta(v, p) = 2 * d + 1
    BY <1>2, <2>1 DEF EncodedDelta
  <2>3. (2 * d + 1) % 2 = 1 /\ (2 * d + 1) \div 2 = d
    OBVIOUS
  <2> QED
    BY <2>1, <2>2, <2>3 DEF decode_delta
<1> QED
  BY <1>1, <1>2

\* An encoded jump is of a size just if the jump is of less than half of that.
LEMMA DeltaSize ==
    ASSUME NEW v \in Int, NEW p \in Int
    PROVE  EncodedDelta(v, p) \in Sizes <=> 2 * (v - p) < SizeLimit /\ -2 * (v - p) < SizeLimit
<1>1. PICK half \in Nat : SizeLimit = 2 * half
  BY Limits
<1>2. CASE v >= p
  BY <1>1, <1>2 DEF EncodedDelta, Sizes
<1>3. CASE ~(v >= p)
  BY <1>1, <1>3 DEF EncodedDelta, Sizes
<1> QED
  BY <1>2, <1>3

\* Numbers decode to integers.
LEMMA DecodedIsInt ==
    ASSUME NEW p \in Int, NEW e \in Nat
    PROVE  decode_delta(p, e) \in Int
BY DEF decode_delta

\* A quad of integers is itself, number by number.
LEMMA QuadIs ==
    ASSUME NEW T, NEW quad \in [gate : T, left : T, right : T, const : T]
    PROVE  /\ quad = [gate |-> quad.gate, left |-> quad.left, right |-> quad.right,
                      const |-> quad.const]
           /\ quad.gate \in T /\ quad.left \in T /\ quad.right \in T /\ quad.const \in T
           /\ DOMAIN quad = {"gate", "left", "right", "const"}
OBVIOUS

\* What is written of a quad decodes to it.
LEMMA QuadDecodes ==
    ASSUME NEW quad \in IntQuads, NEW p \in IntQuads
    PROVE  Decoded(QuadAgainst(quad, p), p) = quad
<1>1. /\ quad = [gate |-> quad.gate, left |-> quad.left, right |-> quad.right, const |-> quad.const]
      /\ quad.gate \in Int /\ quad.left \in Int /\ quad.right \in Int /\ quad.const \in Int
  BY QuadIs DEF IntQuads
<1>2. p.gate \in Int /\ p.left \in Int /\ p.right \in Int
  BY QuadIs DEF IntQuads
<1>3. /\ decode_delta(p.gate, EncodedDelta(quad.gate, p.gate)) = quad.gate
      /\ decode_delta(p.left, EncodedDelta(quad.left, p.left)) = quad.left
      /\ decode_delta(p.right, EncodedDelta(quad.right, p.right)) = quad.right
  BY <1>1, <1>2, DeltaDecodes
<1> QED
  BY <1>1, <1>3 DEF Decoded, QuadAgainst

\* Words are integers, and a word holds them.
LEMMA WordsAreInts ==
    ASSUME NEW quad \in WordQuads
    PROVE  quad \in IntQuads /\ Wrapped(quad) = quad
<1>1. /\ quad = [gate |-> quad.gate, left |-> quad.left, right |-> quad.right, const |-> quad.const]
      /\ quad.gate \in Words /\ quad.left \in Words /\ quad.right \in Words /\ quad.const \in Words
  BY QuadIs DEF WordQuads
<1>2. \A w \in Words : w \in Int /\ w % WordLimit = w
  BY Limits DEF Words
<1>3. quad \in IntQuads
  BY <1>1, <1>2 DEF IntQuads
<1> QED
  BY <1>1, <1>2, <1>3 DEF Wrapped

\* Sizes are words.
LEMMA SizesAreWords == SizeQuads \subseteq WordQuads /\ DefaultQuad \in WordQuads
BY Limits DEF SizeQuads, WordQuads, Sizes, Words, DefaultQuad

\* What is decoded are integers, of which words are held; and all of them are words if each
\* is what is held of it.
LEMMA DecodedQuads ==
    ASSUME NEW quad \in WordQuads, NEW p \in WordQuads
    PROVE  /\ Decoded(quad, p) \in IntQuads
           /\ Wrapped(Decoded(quad, p)) \in WordQuads
           /\ Wrapped(Decoded(quad, p))
                = [k \in DOMAIN Decoded(quad, p) |-> Decoded(quad, p)[k] % WordLimit]
<1>1. quad.gate \in Nat /\ quad.left \in Nat /\ quad.right \in Nat /\ quad.const \in Nat
  BY QuadIs, Limits DEF WordQuads, Words
<1>2. p.gate \in Int /\ p.left \in Int /\ p.right \in Int
  BY QuadIs, Limits DEF WordQuads, Words
<1> DEFINE d == Decoded(quad, p)
<1>3. d \in IntQuads
  <2>1. /\ decode_delta(p.gate, quad.gate) \in Int /\ decode_delta(p.left, quad.left) \in Int
        /\ decode_delta(p.right, quad.right) \in Int
    BY <1>1, <1>2, DecodedIsInt, Zenon
  <2> QED
    BY <1>1, <2>1 DEF Decoded, IntQuads
<1> HIDE DEF d
<1>4. /\ d.gate \in Int /\ d.left \in Int /\ d.right \in Int /\ d.const \in Int
      /\ DOMAIN d = {"gate", "left", "right", "const"}
  BY <1>3, QuadIs DEF IntQuads
<1>5. \A i \in Int : i % WordLimit \in Words
  BY Limits DEF Words
<1>6. Wrapped(d) \in WordQuads
  BY <1>4, <1>5 DEF Wrapped, WordQuads
<1>7. Wrapped(d) = [k \in DOMAIN d |-> d[k] % WordLimit]
  BY <1>4 DEF Wrapped
<1> QED
  BY <1>3, <1>6, <1>7 DEF d

\* The guard of both writers is Fits.
LEMMA QuadFitsIs ==
    ASSUME NEW quad \in IntQuads, prev_quad \in IntQuads
    PROVE  QuadFits(quad) <=> Fits(quad, prev_quad)
<1>1. /\ quad.gate \in Int /\ quad.left \in Int /\ quad.right \in Int /\ quad.const \in Int
      /\ prev_quad.gate \in Int /\ prev_quad.left \in Int /\ prev_quad.right \in Int
      /\ DOMAIN quad = {"gate", "left", "right", "const"}
  BY QuadIs DEF IntQuads
<1>2. quad \in WordQuads <=> /\ quad.gate \in Words /\ quad.left \in Words /\ quad.right \in Words
                             /\ quad.const \in Words
  BY QuadIs DEF IntQuads, WordQuads
<1>3. \A i \in Int : i \in Words <=> InWord(i)
  BY Limits DEF Words, InWord
<1>4. \A i \in Nat : i \in Sizes <=> FitsSize(i)
  BY Limits DEF Sizes, FitsSize
<1> DEFINE gate == EncodedDelta(quad.gate, prev_quad.gate)
           left == EncodedDelta(quad.left, prev_quad.left)
           right == EncodedDelta(quad.right, prev_quad.right)
<1>5. gate \in Nat /\ left \in Nat /\ right \in Nat
  BY <1>1, DeltaDecodes
<1> HIDE DEF gate, left, right
<1>6. Encoded(quad) = [gate |-> gate, left |-> left, right |-> right, const |-> quad.const]
  BY DEF Encoded, QuadAgainst, gate, left, right
<1>7. QuadAgainst(quad, prev_quad) \in SizeQuads
        <=> gate \in Sizes /\ left \in Sizes /\ right \in Sizes /\ quad.const \in Sizes
  BY DEF QuadAgainst, SizeQuads, gate, left, right
<1>8. QuadFits(quad) <=>
         /\ InWord(quad.gate) /\ FitsSize(gate) /\ InWord(quad.left) /\ FitsSize(left)
         /\ InWord(quad.right) /\ FitsSize(right) /\ InWord(quad.const) /\ FitsSize(quad.const)
  BY <1>1, <1>6 DEF QuadFits
<1>9. quad.const \in Words => quad.const \in Nat
  BY Limits DEF Words
<1> QED
  BY <1>1, <1>2, <1>3, <1>4, <1>5, <1>7, <1>8, <1>9 DEF Fits

\* What the first n quads of Q are in a file, and a layer with them.
FileQuads(Q, n) == [q \in 1..n |-> QuadAgainst(Q[q], Before(Q, q))]
FileLayer(layer, n) ==
    [logw |-> layer.logw, wires |-> layer.wires, quads |-> FileQuads(layer.quads, n)]

\* A layer starts without quads, and one is added behind the others.
LEMMA FileLayerGrows ==
    ASSUME NEW layer
    PROVE  /\ FileLayer(layer, 0) = [logw |-> layer.logw, wires |-> layer.wires, quads |-> <<>>]
           /\ \A n \in Nat :
                 [FileLayer(layer, n) EXCEPT !.quads = Append(FileLayer(layer, n).quads,
                      QuadAgainst(layer.quads[n + 1], Before(layer.quads, n + 1)))]
                   = FileLayer(layer, n + 1)
<1> DEFINE Q == layer.quads
<1> HIDE DEF Q
<1>1. FileQuads(Q, 0) = <<>>
  BY DEF FileQuads
<1>2. ASSUME NEW n \in Nat
      PROVE  Append(FileQuads(Q, n), QuadAgainst(Q[n + 1], Before(Q, n + 1))) = FileQuads(Q, n + 1)
  <2> DEFINE y == QuadAgainst(Q[n + 1], Before(Q, n + 1))
             s == FileQuads(Q, n)
  <2>1. s = [q \in 1..n |-> s[q]] /\ \A q \in 1..n : s[q] = QuadAgainst(Q[q], Before(Q, q))
    BY DEF FileQuads
  <2> HIDE DEF s
  <2>2. IsSeq(s) /\ Len(s) = n
    BY <2>1, FunctionIsSeq
  <2> HIDE DEF y
  <2>3. PICK m \in Nat : m = n + 1
    OBVIOUS
  <2>4. /\ IsSeq(Append(s, y)) /\ Len(Append(s, y)) = m /\ Append(s, y)[m] = y
        /\ \A q \in 1..n : Append(s, y)[q] = s[q]
    BY <2>2, <2>3, AppendIs
  <2>5. Append(s, y) = [q \in 1..m |-> Append(s, y)[q]]
    BY <2>4 DEF IsSeq
  <2>6. \A q \in 1..m : Append(s, y)[q] = QuadAgainst(Q[q], Before(Q, q))
    BY <2>1, <2>3, <2>4 DEF y
  <2>7. Append(s, y) = FileQuads(Q, m)
    BY <2>5, <2>6 DEF FileQuads
  <2> QED
    BY <2>3, <2>7 DEF s, y
<1>3. FileLayer(layer, 0) = [logw |-> layer.logw, wires |-> layer.wires, quads |-> <<>>]
  BY <1>1 DEF FileLayer, Q
<1>4. ASSUME NEW n \in Nat
      PROVE  [FileLayer(layer, n) EXCEPT !.quads = Append(FileLayer(layer, n).quads,
                   QuadAgainst(layer.quads[n + 1], Before(layer.quads, n + 1)))]
               = FileLayer(layer, n + 1)
  <2>1. FileLayer(layer, n).quads = FileQuads(Q, n)
    BY DEF FileLayer, Q
  <2>2. Append(FileLayer(layer, n).quads, QuadAgainst(Q[n + 1], Before(Q, n + 1)))
          = FileQuads(Q, n + 1)
    BY <1>2, <2>1
  <2> QED
    BY <2>2 DEF FileLayer, Q
<1> QED
  BY <1>3, <1>4

\* That the qth quad of D is read of that of L, by a build that checks or one that does not.
QuadRead(checks, D, L, q) ==
    /\ D[q] = Wrapped(Decoded(L[q], Before(D, q)))
    /\ checks => D[q] = Decoded(L[q], Before(D, q))

\* What is read of a written layer are the quads that were to be written.
LEMMA ReadIsWritten ==
    ASSUME NEW m \in Nat, NEW Q, \A q \in 1..m : Fits(Q[q], Before(Q, q)),
           NEW n \in Nat, n <= m, NEW D, NEW checks,
           \A q \in 1..n : QuadRead(checks, D, FileQuads(Q, m), q)
    PROVE  /\ \A q \in 1..n : D[q] = Q[q]
           /\ Before(D, n + 1) = Before(Q, n + 1)
<1>1. \A q \in 1..m : Q[q] \in WordQuads
  BY DEF Fits
<1>2. \A q \in 1..m : Before(Q, q) \in WordQuads
  BY <1>1, SizesAreWords DEF Before
<1> DEFINE Differ == {q \in 1..n : D[q] # Q[q]}
<1>3. Differ = {}
  <2> SUFFICES ASSUME Differ # {} PROVE FALSE
    OBVIOUS
  <2>1. PICK q \in Differ : \A j \in Differ : q <= j
    <3>1. Differ \in SUBSET Nat
      OBVIOUS
    <3> HIDE DEF Differ
    <3> QED
      BY <3>1, LeastElement
  <2>2. q \in 1..n /\ q \in 1..m
    BY <2>1
  <2>3. q # 1 => q - 1 \in 1..n /\ q - 1 \notin Differ
    BY <2>1
  <2>4. Before(D, q) = Before(Q, q)
    BY <2>3 DEF Before
  <2>5. D[q] = Wrapped(Decoded(FileQuads(Q, m)[q], Before(Q, q)))
    BY <2>2, <2>4 DEF QuadRead
  <2>6. FileQuads(Q, m)[q] = QuadAgainst(Q[q], Before(Q, q))
    BY <2>2 DEF FileQuads
  <2>7. Q[q] \in IntQuads /\ Before(Q, q) \in IntQuads /\ Wrapped(Q[q]) = Q[q]
    BY <1>1, <1>2, <2>2, WordsAreInts
  <2>8. D[q] = Q[q]
    BY <2>5, <2>6, <2>7, QuadDecodes
  <2> QED
    BY <2>1, <2>8
<1>4. \A q \in 1..n : D[q] = Q[q]
  BY <1>3
<1>5. n + 1 # 1 => n \in 1..n /\ (n + 1) - 1 = n
  OBVIOUS
<1> QED
  BY <1>4, <1>5 DEF Before

\* The jump that a number of a file stands for.
JumpOf(e) == IF e % 2 = 1 THEN -(e \div 2) ELSE e \div 2

\* A jump is an integer, and added to the index before.
LEMMA JumpIs ==
    ASSUME NEW e \in Nat, NEW p \in Int
    PROVE  JumpOf(e) \in Int /\ decode_delta(p, e) = p + JumpOf(e)
<1>1. e \div 2 \in Int
  OBVIOUS
<1> QED
  BY <1>1 DEF JumpOf, decode_delta

\* Division with a remainder.
LEMMA Division ==
    ASSUME NEW W \in Nat \ {0}, NEW a \in Int
    PROVE  \E q \in Int, r \in 0..(W - 1) : a = W * q + r /\ a % W = r
<1>1. a \div W \in Int
  OBVIOUS
<1>2. a % W \in 0..(W - 1)
  OBVIOUS
<1>3. a % W = a - W * (a \div W)
  OBVIOUS
<1>4. PICK q \in Int, r \in 0..(W - 1), p \in Int : r = a % W /\ p = W * q /\ r = a - p
  <2>1. W * (a \div W) \in Int
    BY <1>1
  <2> QED
    BY <1>1, <1>2, <1>3, <2>1
<1> QED
  BY <1>4

\* And back.
LEMMA Remainder ==
    ASSUME NEW W \in Nat \ {0}, NEW q \in Int, NEW r \in 0..(W - 1)
    PROVE  (W * q + r) % W = r
OBVIOUS

\* Remainders of sums.
LEMMA ModOfSum ==
    ASSUME NEW W \in Nat \ {0}, NEW a \in Int, NEW b \in Int, NEW c \in Int, a % W = b % W
    PROVE  (a + c) % W = (b + c) % W
<1>1. PICK i \in Int, r \in 0..(W - 1) : a = W * i + r /\ a % W = r
  BY Division
<1>2. PICK j \in Int, u \in 0..(W - 1) : b = W * j + u /\ b % W = u
  BY Division
<1>3. PICK k \in Int, t \in 0..(W - 1) : r + c = W * k + t
  <2>1. r + c \in Int
    OBVIOUS
  <2> QED
    BY <2>1, Division
<1>4. a + c = W * (i + k) + t /\ b + c = W * (j + k) + t
  BY <1>1, <1>2, <1>3
<1>5. (W * (i + k) + t) % W = t /\ (W * (j + k) + t) % W = t
  <2>1. i + k \in Int /\ j + k \in Int
    OBVIOUS
  <2> QED
    BY <2>1, Remainder
<1> QED
  BY <1>4, <1>5

\* A remainder is its own.
LEMMA ModOfMod ==
    ASSUME NEW W \in Nat \ {0}, NEW a \in Int
    PROVE  (a % W) % W = a % W
<1>1. PICK r \in 0..(W - 1) : r = a % W
  OBVIOUS
<1>2. r % W = r
  OBVIOUS
<1> QED
  BY <1>1, <1>2

\* Equal in a build that checks.
IfChecked(checks, a, b) == checks => a = b

\* An index read, modulo the width of a word or, with checks, exactly, is the sum of jumps.
LEMMA IndexIsSum ==
    ASSUME NEW m \in Nat, NEW d, NEW e, \A q \in 1..m : d[q] \in Int /\ e[q] \in Nat,
           NEW s, \A q \in 1..m : s[q] = JumpOf(e[q]),
           NEW checks,
           \A q \in 1..m : LET p == IF q = 1 THEN 0 ELSE d[q - 1]
                           IN  /\ d[q] = decode_delta(p, e[q]) % WordLimit
                               /\ IfChecked(checks, d[q], decode_delta(p, e[q]))
    PROVE  \A q \in 1..m : /\ d[q] % WordLimit = SumTo(s, q) % WordLimit
                           /\ IfChecked(checks, d[q], SumTo(s, q))
<1> DEFINE Right(q) == /\ d[q] % WordLimit = SumTo(s, q) % WordLimit
                       /\ IfChecked(checks, d[q], SumTo(s, q))
           Wrong == {q \in 1..m : ~Right(q)}
<1>1. \A q \in 1..m : s[q] = JumpOf(e[q]) /\ s[q] \in Int
  BY JumpIs
<1>2. \A q \in 0..m : SumTo(s, q) \in Int
  BY <1>1, SumIsInt
<1>3. Wrong = {}
  <2> SUFFICES ASSUME Wrong # {} PROVE FALSE
    OBVIOUS
  <2>1. PICK q \in Wrong : \A j \in Wrong : q <= j
    <3>1. Wrong \in SUBSET Nat
      OBVIOUS
    <3> HIDE DEF Wrong
    <3> QED
      BY <3>1, LeastElement
  <2>2. q \in 1..m /\ ~Right(q)
    BY <2>1
  <2>3. PICK k \in Nat : k + 1 = q /\ k = q - 1 /\ k \in 0..m
    <3>1. q - 1 \in Nat /\ (q - 1) + 1 = q /\ q - 1 \in 0..m
      BY <2>2
    <3> QED
      BY <3>1
  <2>4. SumTo(s, 0) = 0 /\ SumTo(s, q) = SumTo(s, k) + JumpOf(e[q])
    BY <1>1, <2>2, <2>3, SumStep
  <2> DEFINE p == IF q = 1 THEN 0 ELSE d[q - 1]
  <2>5. /\ p \in Int /\ p % WordLimit = SumTo(s, k) % WordLimit
        /\ checks => p = SumTo(s, k)
    <3>1. CASE q = 1
      BY <2>3, <2>4, <3>1
    <3>2. CASE q # 1
      <4>1. k \in 1..m /\ k \notin Wrong /\ p = d[k]
        BY <2>1, <2>3, <3>2
      <4>2. Right(k)
        BY <4>1
      <4> QED
        BY <4>1, <4>2 DEF IfChecked
    <3> QED
      BY <3>1, <3>2
  <2>6. d[q] = decode_delta(p, e[q]) % WordLimit /\ (checks => d[q] = decode_delta(p, e[q]))
    BY <2>2 DEF IfChecked
  <2> HIDE DEF p
  <2>7. e[q] \in Nat /\ JumpOf(e[q]) \in Int /\ decode_delta(p, e[q]) = p + JumpOf(e[q])
    BY <2>2, <2>5, JumpIs
  <2>8. (p + JumpOf(e[q])) % WordLimit = (SumTo(s, k) + JumpOf(e[q])) % WordLimit
    <3>1. SumTo(s, k) \in Int /\ WordLimit \in Nat \ {0}
      BY <1>2, <2>3, Limits
    <3> QED
      BY <2>5, <2>7, <3>1, ModOfSum
  <2>9. d[q] % WordLimit = d[q]
    <3>1. p + JumpOf(e[q]) \in Int
      BY <2>5, <2>7
    <3> QED
      BY <2>6, <2>7, <3>1, ModOfMod, Limits
  <2>10. Right(q)
    BY <2>4, <2>5, <2>6, <2>7, <2>8, <2>9 DEF IfChecked
  <2> QED
    BY <2>2, <2>10
<1> QED
  BY <1>3

\* An index modulo the width of a word, and exactly for a build that checks.
SameIndex(checks, a, b) == a % WordLimit = b % WordLimit /\ (checks => a = b)

\* The quads of a layer that was read, and the numbers they were read from.
LEMMA IndicesAreRead ==
    ASSUME NEW L, IsSeq(L), NEW D, NEW checks,
           \A q \in 1..Len(L) :
              L[q] \in SizeQuads /\ D[q] \in WordQuads /\ QuadRead(checks, D, L, q)
    PROVE  \A q \in 1..Len(L) : \A i \in DOMAIN DefaultQuad :
              SameIndex(checks, D[q][i], IndicesOf(L)[q][i])
<1>1. PICK m \in Nat : m = Len(L) /\ DOMAIN L = 1..m
  BY FunctionIsSeq DEF IsSeq
<1>2. \A q \in 1..m : L[q] \in WordQuads /\ D[q] \in WordQuads /\ Before(D, q) \in WordQuads
  <2>1. \A q \in 1..m : L[q] \in WordQuads /\ D[q] \in WordQuads
    BY <1>1, SizesAreWords
  <2>2. ASSUME NEW q \in 1..m PROVE Before(D, q) \in WordQuads
    <3>1. q # 1 => q - 1 \in 1..m
      OBVIOUS
    <3> QED
      BY <2>1, <3>1, SizesAreWords DEF Before
  <2> QED
    BY <2>1, <2>2
<1> DEFINE Index(i) == [n \in 1..m |-> D[n][i]]
           Number(i) == [n \in 1..m |-> L[n][i]]
           Sum(i, q) == SumTo([n \in 1..m |-> JumpOf(Number(i)[n])], q)
<1>3. ASSUME NEW i \in {"gate", "left", "right"}, NEW q \in 1..m
      PROVE  /\ Index(i)[q] % WordLimit = Sum(i, q) % WordLimit
             /\ checks => Index(i)[q] = Sum(i, q)
  <2>1. \A n \in 1..m : Index(i)[n] \in Int /\ Number(i)[n] \in Nat
    <3>1. \A n \in 1..m : D[n][i] \in Words /\ L[n][i] \in Words
      BY <1>2, QuadIs DEF WordQuads
    <3> QED
      BY <3>1, Limits DEF Words
  <2>2. ASSUME NEW n \in 1..m
        PROVE  LET p == IF n = 1 THEN 0 ELSE Index(i)[n - 1]
               IN  /\ Index(i)[n] = decode_delta(p, Number(i)[n]) % WordLimit
                   /\ checks => Index(i)[n] = decode_delta(p, Number(i)[n])
    <3> DEFINE p == IF n = 1 THEN 0 ELSE Index(i)[n - 1]
    <3>1. p = Before(D, n)[i]
      <4>1. n # 1 => n - 1 \in 1..m
        OBVIOUS
      <4> QED
        BY <4>1 DEF Before, DefaultQuad
    <3> HIDE DEF p
    <3>2. Decoded(L[n], Before(D, n))[i] = decode_delta(p, Number(i)[n])
      BY <3>1 DEF Decoded
    <3>3. Wrapped(Decoded(L[n], Before(D, n)))[i] = decode_delta(p, Number(i)[n]) % WordLimit
      BY <3>2 DEF Wrapped
    <3>4. QuadRead(checks, D, L, n) /\ Index(i)[n] = D[n][i]
      BY <1>1
    <3>5. /\ Index(i)[n] = decode_delta(p, Number(i)[n]) % WordLimit
          /\ checks => Index(i)[n] = decode_delta(p, Number(i)[n])
      BY <3>2, <3>3, <3>4 DEF QuadRead
    <3> QED
      BY <3>5 DEF p
  <2> HIDE DEF Index, Number
  <2>3. /\ Index(i)[q] % WordLimit = SumTo([n \in 1..m |-> JumpOf(Number(i)[n])], q) % WordLimit
        /\ checks => Index(i)[q] = SumTo([n \in 1..m |-> JumpOf(Number(i)[n])], q)
    <3>1. PICK d, e, s :
             /\ d = Index(i) /\ e = Number(i) /\ s = [n \in 1..m |-> JumpOf(Number(i)[n])]
      OBVIOUS
    <3>2. /\ \A n \in 1..m : d[n] \in Int /\ e[n] \in Nat
          /\ \A n \in 1..m : s[n] = JumpOf(e[n])
      BY <2>1, <3>1
    <3>3. \A n \in 1..m : LET p == IF n = 1 THEN 0 ELSE d[n - 1]
                          IN  /\ d[n] = decode_delta(p, e[n]) % WordLimit
                              /\ IfChecked(checks, d[n], decode_delta(p, e[n]))
      BY <2>2, <3>1 DEF IfChecked
    <3>4. \A n \in 1..m : /\ d[n] % WordLimit = SumTo(s, n) % WordLimit
                          /\ IfChecked(checks, d[n], SumTo(s, n))
      BY ONLY m \in Nat, <3>2, <3>3, IndexIsSum
    <3> QED
      BY <3>1, <3>4 DEF IfChecked
  <2> QED
    BY <2>3
<1>4. ASSUME NEW i \in {"gate", "left", "right"}, NEW q \in 1..m
      PROVE  IndicesOf(L)[q][i] = Sum(i, q)
  <2>1. [n \in DOMAIN L |-> JumpOf(L[n][i])] = [n \in 1..m |-> JumpOf(Number(i)[n])]
    BY <1>1
  <2>2. IndicesOf(L)[q][i] = SumTo([n \in DOMAIN L |-> JumpOf(L[n][i])], q)
    BY <1>1 DEF IndicesOf, JumpOf, DefaultQuad
  <2> QED
    BY <2>1, <2>2
<1>5. ASSUME NEW q \in 1..m
      PROVE  D[q]["const"] = L[q]["const"] /\ IndicesOf(L)[q]["const"] = L[q]["const"]
  <2>1. IndicesOf(L)[q]["const"] = L[q]["const"]
    BY <1>1 DEF IndicesOf, DefaultQuad
  <2>2. D[q] = Wrapped(Decoded(L[q], Before(D, q)))
    BY <1>1 DEF QuadRead
  <2>3. D[q]["const"] = L[q]["const"] % WordLimit
    BY <2>2 DEF Wrapped, Decoded
  <2>4. L[q]["const"] \in Words
    BY <1>2, QuadIs DEF WordQuads
  <2>5. \A w \in Words : w % WordLimit = w
    BY Limits DEF Words
  <2> QED
    BY <2>1, <2>3, <2>4, <2>5
<1>6. ASSUME NEW q \in 1..m, NEW i \in DOMAIN DefaultQuad
      PROVE  /\ D[q][i] % WordLimit = IndicesOf(L)[q][i] % WordLimit
             /\ checks => D[q][i] = IndicesOf(L)[q][i]
  <2>1. CASE i = "const"
    BY <1>5, <2>1
  <2>2. CASE i # "const"
    <3>1. i \in {"gate", "left", "right"}
      BY <2>2 DEF DefaultQuad
    <3>2. Index(i)[q] = D[q][i]
      OBVIOUS
    <3> HIDE DEF Index, Sum
    <3> QED
      BY <1>3, <1>4, <3>1, <3>2
  <2> QED
    BY <2>1, <2>2
<1>7. ASSUME NEW q \in 1..m, NEW i \in DOMAIN DefaultQuad
      PROVE  SameIndex(checks, D[q][i], IndicesOf(L)[q][i])
  BY <1>6 DEF SameIndex
<1> QED
  BY <1>1, <1>7

-----------------------------------------------------------------------------
(* What an artifact describes.                                             *)

\* The terms of a layer as quads, and a circuit with them.
Meant(layer) ==
    [logw |-> layer.logw, wires |-> layer.wires,
     quads |-> [q \in DOMAIN Terms(layer) |->
        [gate |-> IndicesIn(layer)[q].gate, left |-> IndicesIn(layer)[q].left,
         right |-> IndicesIn(layer)[q].right, const |-> layer.deltas[Terms(layer)[q] + 1].const]]]

FromLfc2(c) ==
    [version |-> 1, field |-> c.field, outputs |-> c.outputs, copies |-> c.copies,
     public |-> c.public,
     boundary |-> c.boundary, inputs |-> c.inputs, num_layers |-> Len(c.layers),
     constants |-> c.constants, layers |-> [k \in DOMAIN c.layers |-> Meant(c.layers[k])],
     id |-> c.id]

\* What a number of a dictionary stands for is an integer.
LEMMA SignedIs ==
    ASSUME NEW v \in Nat
    PROVE  Signed(v) \in Int
<1>1. v \div 2 \in Int
  OBVIOUS
<1> QED
  BY <1>1 DEF Signed

\* A jump that wraps around does not fit a size: the index behind one that does is the one
\* that the number leads to.
LEMMA JumpFits ==
    ASSUME NEW v \in Words, NEW p \in Words, NEW x, x = (p + unzigzag(v)) % WordLimit
    PROVE  /\ x \in Words
           /\ EncodedDelta(x, p) \in Sizes => x = p + Signed(v)
           /\ EncodedDelta(x, p) \in Sizes
                <=> /\ p + Signed(v) \in Words
                    /\ Signed(v) \in (1 - SizeLimit \div 2)..(SizeLimit \div 2 - 1)
<1>1. PICK W \in Nat \ {0}, S \in Nat \ {0}, half \in Nat :
         /\ W = WordLimit /\ S = SizeLimit /\ S < W /\ S = 2 * half /\ SizeLimit \div 2 = half
  BY Limits
<1>2. v \in Nat /\ v < W /\ p \in Nat /\ p < W
  BY <1>1 DEF Words
<1>3. PICK h \in Nat : \/ v = 2 * h /\ unzigzag(v) = h /\ Signed(v) = h
                       \/ v = 2 * h + 1 /\ unzigzag(v) = W - 1 - h /\ Signed(v) = -h - 1
  <2>1. /\ v \div 2 \in Nat /\ (v % 2 = 0 => v = 2 * (v \div 2))
        /\ v % 2 # 0 => v = 2 * (v \div 2) + 1
    BY <1>2
  <2> QED
    BY <1>1, <2>1 DEF unzigzag, Signed
<1>4. \A r \in 0..(W - 1) : r % W = r /\ (W + r) % W = r
  <2>1. ASSUME NEW r \in 0..(W - 1) PROVE r % W = r /\ (W + r) % W = r
    <3>1. (W * 1 + r) % W = r /\ (W * 0 + r) % W = r
      BY Remainder
    <3>2. W * 1 + r = W + r /\ W * 0 + r = r
      OBVIOUS
    <3> QED
      BY <3>1, <3>2
  <2> QED
    BY <2>1
<1>5. x \in 0..(W - 1) /\ (x = p + Signed(v) \/ x = p + Signed(v) - W \/ x = p + Signed(v) + W)
  <2>1. CASE v = 2 * h /\ unzigzag(v) = h /\ Signed(v) = h
    <3>1. CASE p + h < W
      <4>1. p + h \in 0..(W - 1)
        BY <1>2, <3>1
      <4> QED
        BY <1>1, <1>4, <2>1, <4>1
    <3>2. CASE p + h >= W
      <4>1. p + h - W \in 0..(W - 1) /\ W + (p + h - W) = p + h
        BY <1>2, <2>1, <3>2
      <4>2. (W + (p + h - W)) % W = p + h - W
        BY <1>4, <4>1
      <4> QED
        BY <1>1, <2>1, <4>1, <4>2
    <3> QED
      BY <1>2, <3>1, <3>2
  <2>2. CASE v = 2 * h + 1 /\ unzigzag(v) = W - 1 - h /\ Signed(v) = -h - 1
    <3>1. CASE p - h - 1 >= 0
      <4>1. p - h - 1 \in 0..(W - 1) /\ W + (p - h - 1) = p + (W - 1 - h)
        BY <1>2, <3>1
      <4>2. (W + (p - h - 1)) % W = p - h - 1
        BY <1>4, <4>1
      <4>3. x = p - h - 1
        BY <1>1, <2>2, <4>1, <4>2
      <4> QED
        BY <2>2, <4>1, <4>3
    <3>2. CASE p - h - 1 < 0
      <4>1. p + (W - 1 - h) \in 0..(W - 1)
        BY <1>2, <2>2, <3>2
      <4>2. x = p + (W - 1 - h)
        BY <1>1, <1>4, <2>2, <4>1
      <4> QED
        BY <1>2, <2>2, <4>1, <4>2
    <3> QED
      BY <1>2, <3>1, <3>2
  <2> QED
    BY <1>3, <2>1, <2>2
<1>6. PICK s \in Int : s = Signed(v) /\ 2 * s < W /\ -2 * s <= W
  BY <1>2, <1>3
<1>7. EncodedDelta(x, p) \in Sizes <=> 2 * (x - p) < S /\ -2 * (x - p) < S
  BY <1>1, <1>2, <1>5, DeltaSize
<1>8. p + s \in Words <=> x = p + s
  BY <1>1, <1>2, <1>5, <1>6 DEF Words
<1>9. EncodedDelta(x, p) \in Sizes => x = p + s
  BY <1>1, <1>2, <1>5, <1>6, <1>7
<1>10. x = p + s => (EncodedDelta(x, p) \in Sizes <=> s \in (1 - half)..(half - 1))
  BY <1>1, <1>2, <1>6, <1>7
<1> QED
  BY <1>1, <1>5, <1>6, <1>8, <1>9, <1>10 DEF Words

\* The quad of the dictionary that a term refers to.
DeltaOf(layer, q) == layer.deltas[Terms(layer)[q] + 1]

\* What a layer refers to, it has.
RefersWithin(c, layer) ==
    /\ \A d \in DOMAIN layer.deltas : layer.deltas[d].const < Len(c.constants)
    /\ \A s \in DOMAIN layer.segments : \A n \in DOMAIN layer.segments[s] :
          layer.segments[s][n] < Len(layer.deltas)
    /\ \A t \in DOMAIN layer.tokens : layer.tokens[t] < Len(layer.segments)

\* A layer of a file, part by part.
LEMMA Lfc2LayerIs ==
    ASSUME NEW layer \in Lfc2Layers
    PROVE  /\ layer.logw \in Nat /\ layer.wires \in Nat /\ layer.deltas \in Seq(Deltas)
           /\ layer.segments \in Seq(Seq(Nat)) /\ layer.tokens \in Seq(Nat)
BY DEF Lfc2Layers

\* The terms of a layer that refers to what it has are of its dictionary.
LEMMA TermsAre ==
    ASSUME NEW layer \in Lfc2Layers, NEW c, RefersWithin(c, layer)
    PROVE  /\ IsSeq(Terms(layer)) /\ DOMAIN Terms(layer) = 1..Len(Terms(layer))
           /\ Len(Terms(layer)) \in Nat
           /\ \A q \in 1..Len(Terms(layer)) :
                 /\ Terms(layer)[q] \in Nat /\ Terms(layer)[q] < Len(layer.deltas)
                 /\ DeltaOf(layer, q) \in Deltas /\ DeltaOf(layer, q).const < Len(c.constants)
<1>1. PICK n \in Nat, m \in Nat, j \in Nat :
         /\ n = Len(layer.deltas) /\ DOMAIN layer.deltas = 1..n
         /\ \A d \in 1..n : layer.deltas[d] \in Deltas
         /\ m = Len(layer.segments) /\ DOMAIN layer.segments = 1..m
         /\ \A s \in 1..m : layer.segments[s] \in Seq(Nat)
         /\ j = Len(layer.tokens) /\ DOMAIN layer.tokens = 1..j
         /\ \A t \in 1..j : layer.tokens[t] \in Nat
  <2>1. \A U : \A s \in Seq(U) : /\ Len(s) \in Nat /\ DOMAIN s = 1..Len(s)
                                  /\ \A k \in 1..Len(s) : s[k] \in U
    OBVIOUS
  <2>2. /\ layer.deltas \in Seq(Deltas) /\ layer.segments \in Seq(Seq(Nat))
        /\ layer.tokens \in Seq(Nat)
    BY Lfc2LayerIs
  <2> QED
    BY <2>1, <2>2
<1> DEFINE T == 0..(n - 1)
<1>2. ASSUME NEW s \in 1..m PROVE layer.segments[s] \in Seq(T)
  <2>1. PICK segment : segment = layer.segments[s]
    OBVIOUS
  <2>2. segment \in Seq(Nat)
    BY <1>1, <2>1
  <2>3. \A i \in 1..Len(segment) : segment[i] < n
    <3>1. DOMAIN segment = 1..Len(segment) /\ s \in DOMAIN layer.segments
      BY <1>1, <2>2
    <3> QED
      BY <1>1, <2>1, <3>1 DEF RefersWithin
  <2>4. \A i \in 1..Len(segment) : segment[i] \in T
    BY <2>2, <2>3
  <2> HIDE DEF T
  <2>5. segment \in Seq(T)
    BY <2>2, <2>4
  <2> QED
    BY <2>1, <2>5
<1> DEFINE s == [t \in 1..j |-> layer.segments[layer.tokens[t] + 1]]
<1>3. s \in Seq(Seq(T))
  <2>1. \A t \in 1..j : layer.tokens[t] + 1 \in 1..m
    BY <1>1 DEF RefersWithin
  <2> HIDE DEF T
  <2>2. \A t \in 1..j : s[t] \in Seq(T)
    BY <1>2, <2>1
  <2> QED
    BY <2>2
<1>4. Terms(layer) = FlattenSeq(s)
  BY <1>1 DEF Terms
<1> HIDE DEF T, s
<1>5. Terms(layer) \in Seq(T)
  BY <1>3, <1>4, FlattenIsSeq
<1>6. /\ IsSeq(Terms(layer)) /\ DOMAIN Terms(layer) = 1..Len(Terms(layer))
      /\ Len(Terms(layer)) \in Nat
  BY <1>5, SeqIsSeq
<1>7. ASSUME NEW q \in 1..Len(Terms(layer))
      PROVE  /\ Terms(layer)[q] \in Nat /\ Terms(layer)[q] < Len(layer.deltas)
             /\ DeltaOf(layer, q) \in Deltas /\ DeltaOf(layer, q).const < Len(c.constants)
  <2>1. Terms(layer)[q] \in T
    BY <1>5, SeqIsSeq
  <2>2. Terms(layer)[q] \in Nat /\ Terms(layer)[q] + 1 \in 1..n
    BY <2>1 DEF T
  <2> QED
    BY <1>1, <2>2 DEF DeltaOf, RefersWithin
<1> QED
  BY <1>6, <1>7

\* Quads that one leads to from another.
Led(delta, previous) ==
    [gate |-> previous.gate + Signed(delta.gate), left |-> previous.left + Signed(delta.left),
     right |-> previous.right + Signed(delta.right), const |-> delta.const]

\* The terms of a layer, each from the one before.
LEMMA MeantIs ==
    ASSUME NEW layer \in Lfc2Layers, NEW c, RefersWithin(c, layer)
    PROVE  /\ IsSeq(Meant(layer).quads) /\ Len(Meant(layer).quads) = Len(Terms(layer))
           /\ DOMAIN Meant(layer).quads = 1..Len(Terms(layer))
           /\ \A q \in 1..Len(Terms(layer)) :
                 /\ Meant(layer).quads[q]
                      = Led(DeltaOf(layer, q), Before(Meant(layer).quads, q))
                 /\ Meant(layer).quads[q] \in IntQuads
                 /\ \A i \in {"gate", "left", "right"} :
                       IndicesIn(layer)[q][i] = Meant(layer).quads[q][i]
           /\ DOMAIN IndicesIn(layer) = 1..Len(Terms(layer))
<1>1. PICK m \in Nat : m = Len(Terms(layer)) /\ DOMAIN Terms(layer) = 1..m
  BY TermsAre
<1>2. \A q \in 1..m : DeltaOf(layer, q) \in Deltas
  BY <1>1, TermsAre
<1>3. \A q \in 1..m : \A i \in {"gate", "left", "right"} : DeltaOf(layer, q)[i] \in Nat
  <2>1. \A delta \in Deltas : \A i \in {"gate", "left", "right"} : delta[i] \in Nat
    BY Limits DEF Deltas
  <2> QED
    BY <1>2, <2>1
<1> DEFINE Q == Meant(layer).quads
           Jumps(i) == [t \in 1..m |-> Signed(DeltaOf(layer, t)[i])]
<1>4. ASSUME NEW q \in 1..m, NEW i \in {"gate", "left", "right"}
      PROVE  IndicesIn(layer)[q][i] = SumTo(Jumps(i), q)
  <2> DEFINE delta == [t \in DOMAIN Terms(layer) |-> layer.deltas[Terms(layer)[t] + 1]]
  <2>1. IndicesIn(layer)[q][i] = SumTo([t \in DOMAIN delta |-> Signed(delta[t][i])], q)
    BY <1>1 DEF IndicesIn
  <2>2. [t \in DOMAIN delta |-> Signed(delta[t][i])] = Jumps(i)
    BY <1>1 DEF DeltaOf
  <2> QED
    BY <2>1, <2>2
<1>5. DOMAIN IndicesIn(layer) = 1..m
  BY <1>1 DEF IndicesIn
<1>6. \A i \in {"gate", "left", "right"} : \A q \in 1..m :
         Jumps(i)[q] = Signed(DeltaOf(layer, q)[i]) /\ Jumps(i)[q] \in Int
  BY <1>3, SignedIs
<1> HIDE DEF Jumps
<1>7. ASSUME NEW i \in {"gate", "left", "right"}, NEW q \in 0..m
      PROVE  SumTo(Jumps(i), q) \in Int
  <2>1. q \in Nat /\ \A k \in 1..q : Jumps(i)[k] \in Int
    BY <1>6
  <2> QED
    BY <2>1, SumIsInt
<1>8. Q = [q \in 1..m |->
              [gate |-> IndicesIn(layer)[q].gate, left |-> IndicesIn(layer)[q].left,
               right |-> IndicesIn(layer)[q].right, const |-> DeltaOf(layer, q).const]]
  BY <1>1 DEF Meant, DeltaOf
<1> HIDE DEF Q
<1>9. IsSeq(Q) /\ Len(Q) = m /\ DOMAIN Q = 1..m
  <2>1. Q = [q \in 1..m |-> Q[q]]
    BY <1>8
  <2> QED
    BY <2>1, FunctionIsSeq
<1>10. ASSUME NEW q \in 1..m
       PROVE  /\ Q[q] = Led(DeltaOf(layer, q), Before(Q, q))
              /\ Q[q] \in IntQuads
              /\ \A i \in {"gate", "left", "right"} : IndicesIn(layer)[q][i] = Q[q][i]
  <2>1. /\ Q[q] = [gate |-> SumTo(Jumps("gate"), q), left |-> SumTo(Jumps("left"), q),
                   right |-> SumTo(Jumps("right"), q), const |-> DeltaOf(layer, q).const]
        /\ \A i \in {"gate", "left", "right"} : Q[q][i] = SumTo(Jumps(i), q)
    <3>1. Q[q] = [gate |-> IndicesIn(layer)[q].gate, left |-> IndicesIn(layer)[q].left,
               right |-> IndicesIn(layer)[q].right, const |-> DeltaOf(layer, q).const]
      BY <1>8
    <3> QED
      BY <1>4, <3>1
  <2>2. Q[q] \in IntQuads
    <3>1. DeltaOf(layer, q).const \in Int
      BY <1>2 DEF Deltas
    <3> QED
      BY <1>7, <2>1, <3>1 DEF IntQuads
  <2>3. PICK k \in Nat : k + 1 = q /\ k = q - 1 /\ k \in 0..m
    <3>1. q - 1 \in Nat /\ (q - 1) + 1 = q /\ q - 1 \in 0..m
      OBVIOUS
    <3> QED
      BY <3>1
  <2>4. ASSUME NEW i \in {"gate", "left", "right"}
        PROVE  SumTo(Jumps(i), q) = Before(Q, q)[i] + Signed(DeltaOf(layer, q)[i])
    <3>1. SumTo(Jumps(i), 0) = 0 /\ SumTo(Jumps(i), q) = SumTo(Jumps(i), k) + Jumps(i)[q]
      BY <2>3, SumStep
    <3>2. Before(Q, q)[i] = SumTo(Jumps(i), k)
      <4>1. CASE q = 1
        BY <2>3, <3>1, <4>1 DEF Before, DefaultQuad
      <4>2. CASE q # 1
        <5>1. k \in 1..m /\ Before(Q, q) = Q[k]
          BY <2>3, <4>2 DEF Before
        <5>2. Q[k] = [gate |-> IndicesIn(layer)[k].gate, left |-> IndicesIn(layer)[k].left,
                 right |-> IndicesIn(layer)[k].right, const |-> DeltaOf(layer, k).const]
          BY <1>8, <5>1
        <5>3. Q[k][i] = IndicesIn(layer)[k][i]
          BY <5>2
        <5> QED
          BY <1>4, <5>1, <5>3
      <4> QED
        BY <4>1, <4>2
    <3> QED
      BY <1>6, <3>1, <3>2
  <2>5. Q[q] = Led(DeltaOf(layer, q), Before(Q, q))
    BY <2>1, <2>4 DEF Led
  <2>6. \A i \in {"gate", "left", "right"} : IndicesIn(layer)[q][i] = Q[q][i]
    BY <1>4, <2>1
  <2> QED
    BY <2>2, <2>5, <2>6
<1> QED
  BY <1>1, <1>5, <1>9, <1>10 DEF Q

\* The quad that the converter makes of a term: it fits just if the indices that are meant
\* are words and the jumps are short, and then it is the one that is meant.
LEMMA ExpandedIs ==
    ASSUME NEW delta \in Deltas, prev_quad \in WordQuads
    PROVE  /\ Expanded(delta) \in IntQuads
           /\ Fits(Expanded(delta), prev_quad) => Expanded(delta) = Led(delta, prev_quad)
           /\ Fits(Expanded(delta), prev_quad)
                <=> /\ delta.const \in Sizes
                    /\ \A i \in {"gate", "left", "right"} :
                          /\ Led(delta, prev_quad)[i] \in Words
                          /\ Signed(delta[i])
                               \in (1 - SizeLimit \div 2)..(SizeLimit \div 2 - 1)
<1> DEFINE X(i) == (prev_quad[i] + unzigzag(delta[i])) % WordLimit
           Y(i) == EncodedDelta(X(i), prev_quad[i])
           Meets(i) == /\ Led(delta, prev_quad)[i] \in Words
                       /\ Signed(delta[i]) \in (1 - SizeLimit \div 2)..(SizeLimit \div 2 - 1)
<1>1. ASSUME NEW i \in {"gate", "left", "right"}
      PROVE  /\ X(i) \in Words /\ (Y(i) \in Sizes <=> Meets(i))
             /\ Y(i) \in Sizes => X(i) = Led(delta, prev_quad)[i]
  <2>1. delta[i] \in Words /\ prev_quad[i] \in Words
    BY QuadIs DEF Deltas, WordQuads, Words
  <2>2. Led(delta, prev_quad)[i] = prev_quad[i] + Signed(delta[i])
    BY DEF Led
  <2> QED
    BY <2>1, <2>2, JumpFits
<1>2. delta.const \in Nat
  BY DEF Deltas
<1>3. Expanded(delta) = [gate |-> X("gate"), left |-> X("left"), right |-> X("right"),
                         const |-> delta.const]
  BY DEF Expanded
<1>4. QuadAgainst(Expanded(delta), prev_quad)
        = [gate |-> Y("gate"), left |-> Y("left"), right |-> Y("right"), const |-> delta.const]
  BY <1>3 DEF QuadAgainst
<1>5. Led(delta, prev_quad)
        = [gate |-> Led(delta, prev_quad)["gate"], left |-> Led(delta, prev_quad)["left"],
           right |-> Led(delta, prev_quad)["right"], const |-> delta.const]
  BY DEF Led
<1> HIDE DEF X, Y, Meets
<1>6. Expanded(delta) \in IntQuads
  <2>1. \A w \in Words : w \in Int
    BY Limits DEF Words
  <2> QED
    BY <1>1, <1>2, <1>3, <2>1 DEF IntQuads
<1>7. Expanded(delta) \in WordQuads <=> delta.const \in Words
  BY <1>1, <1>3 DEF WordQuads
<1>8. QuadAgainst(Expanded(delta), prev_quad) \in SizeQuads
        <=> /\ Y("gate") \in Sizes /\ Y("left") \in Sizes /\ Y("right") \in Sizes
            /\ delta.const \in Sizes
  BY <1>4 DEF SizeQuads
<1>9. Fits(Expanded(delta), prev_quad)
        <=> delta.const \in Sizes /\ \A i \in {"gate", "left", "right"} : Y(i) \in Sizes
  BY <1>7, <1>8, Limits DEF Fits
<1>10. Fits(Expanded(delta), prev_quad) => Expanded(delta) = Led(delta, prev_quad)
  BY <1>1, <1>3, <1>5, <1>9
<1> QED
  BY <1>1, <1>6, <1>9, <1>10 DEF Meets

-----------------------------------------------------------------------------
(* Files and circuits, as far as they are written and read.                *)

\* The circuit that file n is to hold.
Intended(j, n) == IF j.call = "encode" THEN j.circuit ELSE FromLfc2(j.artifact.circuits[n])

\* The fields of a circuit but for its layers.
SameHeader(f, c) ==
    /\ DOMAIN f = CircuitFields /\ IsCircuit(f)
    /\ \A k \in CircuitFields \ {"layers"} : f[k] = c[k]

\* The first n quads of a layer fit.
LayerUpTo(layer, n) ==
    /\ layer = [logw |-> layer.logw, wires |-> layer.wires, quads |-> layer.quads]
    /\ {layer.logw, layer.wires} \subseteq Sizes
    /\ IsSeq(layer.quads) /\ Len(layer.quads) \in Sizes /\ n <= Len(layer.quads)
    /\ \A q \in 1..Len(layer.quads) : layer.quads[q] \in IntQuads
    /\ \A q \in 1..n : Fits(layer.quads[q], Before(layer.quads, q))

\* The header of a circuit fits.
HeaderFits(c) ==
    /\ DOMAIN c = CircuitFields /\ IsSeq(c.layers) /\ c.num_layers = Len(c.layers)
    /\ HeaderNumbers(c) \subseteq Sizes

\* A file has the first n layers of a circuit, and all of them.
HasLayers(f, c, n) ==
    /\ SameHeader(f, c) /\ HeaderFits(c) /\ IsSeq(f.layers) /\ n <= Len(c.layers)
    /\ \A k \in 1..n :
          /\ LayerUpTo(c.layers[k], Len(c.layers[k].quads))
          /\ f.layers[k] = FileLayer(c.layers[k], Len(c.layers[k].quads))
WholeFile(f, c) == HasLayers(f, c, Len(c.layers)) /\ Len(f.layers) = Len(c.layers)

\* And n quads of the layer after its first m.
HasQuads(f, c, m, n) ==
    /\ HasLayers(f, c, m) /\ m < Len(c.layers) /\ Len(f.layers) = m + 1
    /\ LayerUpTo(c.layers[m + 1], n)
    /\ f.layers[m + 1] = FileLayer(c.layers[m + 1], n)

\* What can be read, if not always to what was meant.
ReadableLayer(layer) ==
    /\ layer = [logw |-> layer.logw, wires |-> layer.wires, quads |-> layer.quads]
    /\ IsSeq(layer.quads) /\ \A q \in 1..Len(layer.quads) : layer.quads[q] \in SizeQuads
Readable(f, c) ==
    /\ SameHeader(f, c) /\ HeaderFits(c) /\ IsSeq(f.layers) /\ Len(f.layers) = Len(c.layers)
    /\ \A k \in 1..Len(f.layers) : ReadableLayer(f.layers[k])

\* A circuit has the first m quads read of a layer of a file.
LayerRead(checks, layer, of, m) ==
    /\ layer = [logw |-> of.logw, wires |-> of.wires, quads |-> layer.quads]
    /\ IsSeq(layer.quads) /\ Len(layer.quads) = m /\ m <= Len(of.quads)
    /\ \A q \in 1..m : /\ layer.quads[q] \in WordQuads
                       /\ QuadRead(checks, layer.quads, of.quads, q)

\* The first n layers of a file, and all of them.
LayersRead(checks, c, f, n) ==
    /\ SameHeader(c, f) /\ IsSeq(c.layers) /\ n <= Len(f.layers)
    /\ \A k \in 1..n : LayerRead(checks, c.layers[k], f.layers[k], Len(f.layers[k].quads))
WholeRead(checks, c, f) == LayersRead(checks, c, f, Len(f.layers)) /\ Len(c.layers) = Len(f.layers)

\* And m quads of the layer after the first n.
QuadsRead(checks, c, f, n, m) ==
    /\ LayersRead(checks, c, f, n) /\ n < Len(f.layers) /\ Len(c.layers) = n + 1
    /\ LayerRead(checks, c.layers[n + 1], f.layers[n + 1], m)

-----------------------------------------------------------------------------
(* The invariant.                                                          *)

Between == {"encode layer", "convert layer"}
Inside == {"encode quad", "convert term"}
Writing == Between \cup Inside \cup {"encode", "load", "profile", "convert"}
Reading == {"decode", "decode layer", "decode quad", "decoded", "loaded"}

EncodeSteps == {"encode", "encode layer", "encode quad", "encode error", "decode", "decode layer",
                "decode quad", "decoded", "decode error", "panic"}
LoadSteps == {"load", "profile", "convert", "convert layer", "convert term", "refused", "decode",
              "decode layer", "decode quad", "decoded", "decode error", "loaded"}

Places == [file : Nat \ {0}, layer : Nat \ {0}, quad : Nat \ {0}]

\* Which steps a call takes, and that only what was encoded is altered.
CallInv ==
    /\ \/ job.call = "encode" /\ job.circuit \in Written /\ step \in EncodeSteps
       \/ job.call = "load" /\ job \in Loads /\ step \in LoadSteps /\ ~altered
    /\ at \in Places
    /\ IsSeq(legacy) /\ IsSeq(circuits) /\ total_terms \in Nat
    /\ step \in Writing => ~altered /\ circuits = <<>>
    /\ step \in {"encode", "encode layer", "encode quad"} => at.file = 1
    /\ step = "panic" => altered /\ overflow_checks

\* What is written is of the circuits that are meant, and fits.
WritingInv ==
    /\ step \in {"encode", "load", "profile"} => legacy = <<>> /\ at = Start
    /\ step = "convert" => Len(legacy) = at.file - 1 /\ at.layer = 1 /\ at.quad = 1
    /\ step \in Between =>
          /\ Len(legacy) = at.file /\ at.quad = 1
          /\ HasLayers(legacy[at.file], Intended(job, at.file), at.layer - 1)
          /\ Len(legacy[at.file].layers) = at.layer - 1
    /\ step \in Inside =>
          /\ Len(legacy) = at.file
          /\ HasQuads(legacy[at.file], Intended(job, at.file), at.layer - 1, at.quad - 1)
          /\ prev_quad = Before(Intended(job, at.file).layers[at.layer].quads, at.quad)
    /\ step \in Writing =>
          \A n \in 1..(at.file - 1) : WholeFile(legacy[n], Intended(job, n))
    /\ step \in {"convert layer", "convert term"} =>
          /\ at.file \in 1..2 /\ at.file <= Len(job.artifact.circuits)
          /\ Len(Source.constants) < SizeLimit
    /\ step = "convert term" => RefersWithin(Source, Source.layers[at.layer])

\* What is read is of the files, and what was not altered is what is meant.
FilesReadable ==
    /\ Len(legacy) = IF job.call = "encode" THEN 1 ELSE 2
    /\ \A n \in 1..Len(legacy) :
          /\ Readable(legacy[n], Intended(job, n))
          /\ ~altered => WholeFile(legacy[n], Intended(job, n))
ReadingInv ==
    /\ step \in Reading =>
          /\ FilesReadable
          /\ \A n \in 1..(at.file - 1) : WholeRead(overflow_checks, circuits[n], legacy[n])
    /\ step = "decode" =>
          Len(circuits) = at.file - 1 /\ at.file <= Len(legacy) /\ at.layer = 1 /\ at.quad = 1
    /\ step \in {"decode layer", "decode quad"} => Len(circuits) = at.file /\ at.file <= Len(legacy)
    /\ step = "decode layer" =>
          /\ at.quad = 1
          /\ LayersRead(overflow_checks, circuits[at.file], legacy[at.file], at.layer - 1)
          /\ Len(circuits[at.file].layers) = at.layer - 1
    /\ step = "decode quad" =>
          /\ QuadsRead(overflow_checks, circuits[at.file], legacy[at.file],
                        at.layer - 1, at.quad - 1)
          /\ prev_quad = Before(circuits[at.file].layers[at.layer].quads, at.quad)
    /\ step \in {"decoded", "loaded"} =>
          Len(circuits) = at.file - 1 /\ at.file = Len(legacy) + 1

\* Why a circuit cannot be encoded.
Inexpressible(c) ==
    \/ c.num_layers # Len(c.layers)
    \/ \E n \in HeaderNumbers(c) : n >= SizeLimit
    \/ \E k \in DOMAIN c.layers :
          LET layer == c.layers[k]
              At(q, i) == IF q = 1 THEN 0 ELSE layer.quads[q - 1][i]
          IN  \/ layer.logw >= SizeLimit \/ layer.wires >= SizeLimit
              \/ Len(layer.quads) >= SizeLimit
              \/ \E q \in DOMAIN layer.quads :
                    \/ layer.quads[q].const >= SizeLimit
                    \/ \E i \in DOMAIN DefaultQuad : layer.quads[q][i] >= WordLimit
                    \/ \E i \in {"gate", "left", "right"} :
                          LET jump == layer.quads[q][i] - At(q, i)
                          IN  2 * jump >= SizeLimit \/ -2 * jump >= SizeLimit

\* Encoding fails for these only, and never goes on with one.
VerdictInv ==
    /\ step = "encode error" => Inexpressible(job.circuit)
    /\ job.call = "encode" /\ step \in Reading \cup {"decode error", "panic"} =>
          ~Inexpressible(job.circuit)

FilesInv == CallInv /\ WritingInv /\ ReadingInv /\ VerdictInv

\* Circuits in memory.
LEMMA WrittenIs ==
    ASSUME NEW c \in Written
    PROVE  /\ DOMAIN c = CircuitFields /\ IsSeq(c.layers) /\ DOMAIN c.layers = 1..Len(c.layers)
           /\ HeaderNumbers(c) \subseteq Nat
           /\ \A k \in 1..Len(c.layers) :
                 LET layer == c.layers[k]
                 IN  /\ layer = [logw |-> layer.logw, wires |-> layer.wires, quads |-> layer.quads]
                     /\ layer.logw \in Nat /\ layer.wires \in Nat
                     /\ IsSeq(layer.quads) /\ DOMAIN layer.quads = 1..Len(layer.quads)
                     /\ \A q \in 1..Len(layer.quads) :
                           layer.quads[q] \in Quads /\ layer.quads[q] \in IntQuads
<1>1. /\ c = [k \in CircuitFields |-> c[k]]
      /\ {c.outputs, c.copies, c.public, c.boundary, c.inputs, c.num_layers} \subseteq Nat
      /\ c.layers \in Seq(Layers) /\ c.constants \in Seq(Nat)
  BY WrittenAssumption
<1>2. DOMAIN c = CircuitFields
  BY <1>1
<1>3. /\ IsSeq(c.layers) /\ DOMAIN c.layers = 1..Len(c.layers)
      /\ \A k \in 1..Len(c.layers) : c.layers[k] \in Layers
  <2>1. PICK s \in Seq(Layers) : s = c.layers
    BY ONLY <1>1
  <2>2. IsSeq(s) /\ \A k \in 1..Len(s) : s[k] \in Layers
    BY ONLY s \in Seq(Layers), SeqIsSeq
  <2>3. DOMAIN s = 1..Len(s)
    BY ONLY s \in Seq(Layers)
  <2> QED
    BY ONLY <2>1, <2>2, <2>3
<1>4. HeaderNumbers(c) \subseteq Nat
  <2>1. Len(c.constants) \in Nat
    BY <1>1
  <2> QED
    BY <1>1, <2>1 DEF HeaderNumbers
<1>5. ASSUME NEW layer \in Layers
      PROVE  /\ layer = [logw |-> layer.logw, wires |-> layer.wires, quads |-> layer.quads]
             /\ layer.logw \in Nat /\ layer.wires \in Nat
             /\ IsSeq(layer.quads) /\ DOMAIN layer.quads = 1..Len(layer.quads)
             /\ \A q \in 1..Len(layer.quads) :
                   layer.quads[q] \in Quads /\ layer.quads[q] \in IntQuads
  <2>1. /\ layer = [logw |-> layer.logw, wires |-> layer.wires, quads |-> layer.quads]
        /\ layer.logw \in Nat /\ layer.wires \in Nat /\ layer.quads \in Seq(Quads)
    BY DEF Layers
  <2>2. \A quad \in Quads : quad \in IntQuads
    BY DEF Quads, IntQuads
  <2>3. /\ IsSeq(layer.quads) /\ DOMAIN layer.quads = 1..Len(layer.quads)
        /\ \A q \in 1..Len(layer.quads) : layer.quads[q] \in Quads
    <3>1. PICK s \in Seq(Quads) : s = layer.quads
      BY ONLY <2>1
    <3>2. IsSeq(s) /\ \A q \in 1..Len(s) : s[q] \in Quads
      BY ONLY s \in Seq(Quads), SeqIsSeq
    <3>3. DOMAIN s = 1..Len(s)
      BY ONLY s \in Seq(Quads)
    <3> QED
      BY ONLY <3>1, <3>2, <3>3
  <2> QED
    BY <2>1, <2>2, <2>3
<1> QED
  BY <1>2, <1>3, <1>4, <1>5

\* Where a call can be, and go.
LEMMA PlacesAre ==
    /\ Start \in Places /\ Start.file = 1 /\ Start.layer = 1 /\ Start.quad = 1
    /\ at \in Places =>
          /\ at.file \in Nat \ {0} /\ at.layer \in Nat \ {0} /\ at.quad \in Nat \ {0}
          /\ NextLayer \in Places /\ NextLayer.file = at.file /\ NextLayer.quad = 1
          /\ NextLayer.layer = at.layer + 1
          /\ [at EXCEPT !.quad = @ + 1] \in Places
          /\ [at EXCEPT !.quad = @ + 1].file = at.file
          /\ [at EXCEPT !.quad = @ + 1].layer = at.layer
          /\ [at EXCEPT !.quad = @ + 1].quad = at.quad + 1
          /\ [Start EXCEPT !.file = at.file + 1] \in Places
          /\ [Start EXCEPT !.file = at.file + 1].file = at.file + 1
          /\ [Start EXCEPT !.file = at.file + 1].layer = 1
          /\ [Start EXCEPT !.file = at.file + 1].quad = 1
<1>1. /\ Start \in Places /\ Start.file = 1 /\ Start.layer = 1 /\ Start.quad = 1
  BY DEF Start, Places
<1> SUFFICES ASSUME at \in Places
             PROVE  /\ at.file \in Nat \ {0} /\ at.layer \in Nat \ {0} /\ at.quad \in Nat \ {0}
                    /\ NextLayer \in Places /\ NextLayer.file = at.file /\ NextLayer.quad = 1
                    /\ NextLayer.layer = at.layer + 1
                    /\ [at EXCEPT !.quad = @ + 1] \in Places
                    /\ [at EXCEPT !.quad = @ + 1].file = at.file
                    /\ [at EXCEPT !.quad = @ + 1].layer = at.layer
                    /\ [at EXCEPT !.quad = @ + 1].quad = at.quad + 1
                    /\ [Start EXCEPT !.file = at.file + 1] \in Places
                    /\ [Start EXCEPT !.file = at.file + 1].file = at.file + 1
                    /\ [Start EXCEPT !.file = at.file + 1].layer = 1
                    /\ [Start EXCEPT !.file = at.file + 1].quad = 1
  BY <1>1
<1>2. at.file \in Nat \ {0} /\ at.layer \in Nat \ {0} /\ at.quad \in Nat \ {0}
  BY DEF Places
<1>3. /\ NextLayer \in Places /\ NextLayer.file = at.file /\ NextLayer.quad = 1
      /\ NextLayer.layer = at.layer + 1
  <2> DEFINE b == [at EXCEPT !.layer = at.layer + 1]
  <2>1. b \in Places /\ b.file = at.file /\ b.layer = at.layer + 1
    BY <1>2 DEF Places
  <2>2. NextLayer = [b EXCEPT !.quad = 1]
    BY DEF NextLayer
  <2> HIDE DEF b
  <2> QED
    BY <2>1, <2>2 DEF Places
<1>4. /\ [at EXCEPT !.quad = @ + 1] \in Places
      /\ [at EXCEPT !.quad = @ + 1].file = at.file
      /\ [at EXCEPT !.quad = @ + 1].layer = at.layer
      /\ [at EXCEPT !.quad = @ + 1].quad = at.quad + 1
  BY <1>2 DEF Places
<1>5. /\ [Start EXCEPT !.file = at.file + 1] \in Places
      /\ [Start EXCEPT !.file = at.file + 1].file = at.file + 1
      /\ [Start EXCEPT !.file = at.file + 1].layer = 1
      /\ [Start EXCEPT !.file = at.file + 1].quad = 1
  BY <1>2 DEF Start, Places
<1> QED
  BY <1>2, <1>3, <1>4, <1>5

\* What a step must see to for CallInv.
LEMMA CallKept ==
    ASSUME CallInv, job' = job,
           \/ job.call = "encode" /\ step' \in EncodeSteps
           \/ job.call = "load" /\ step' \in LoadSteps /\ altered' = altered,
           at' \in Places, IsSeq(legacy'), IsSeq(circuits'), total_terms' \in Nat,
           step' \in Writing => ~altered' /\ circuits' = <<>>,
           step' \in {"encode", "encode layer", "encode quad"} => at'.file = 1,
           step' = "panic" => altered' /\ overflow_checks'
    PROVE  CallInv'
<1>1. \/ job.call = "encode" /\ job.circuit \in Written
      \/ job.call = "load" /\ job \in Loads /\ ~altered
  BY DEF CallInv
<1>2. \/ job'.call = "encode" /\ job'.circuit \in Written /\ step' \in EncodeSteps
      \/ job'.call = "load" /\ job' \in Loads /\ step' \in LoadSteps /\ ~altered'
  BY <1>1
<1> QED
  BY <1>2 DEF CallInv

\* Nothing is to be seen to at the end of a call but CallInv and VerdictInv.
LEMMA EndKept ==
    ASSUME step' \in {"encode error", "refused", "decode error", "panic"}
    PROVE  WritingInv' /\ ReadingInv'
<1>1. step' \notin Writing /\ step' \notin Reading /\ step' \notin Between /\ step' \notin Inside
  BY DEF Writing, Reading, Between, Inside
<1>2. /\ step' \notin {"encode", "load", "profile"} /\ step' # "convert"
      /\ step' \notin {"convert layer", "convert term"} /\ step' # "convert term"
  OBVIOUS
<1>3. /\ step' # "decode" /\ step' \notin {"decode layer", "decode quad"} /\ step' # "decode layer"
      /\ step' # "decode quad" /\ step' \notin {"decoded", "loaded"}
  OBVIOUS
<1>4. WritingInv'
  BY <1>1, <1>2 DEF WritingInv
<1>5. ReadingInv'
  BY <1>1, <1>3 DEF ReadingInv
<1> QED
  BY <1>4, <1>5

\* Nor while a file is written but the parts of WritingInv.
LEMMA WritingKept ==
    ASSUME step' \in Writing
    PROVE  ReadingInv' /\ VerdictInv'
<1>1. /\ step' \notin Reading /\ step' \notin Reading \cup {"decode error", "panic"}
      /\ step' # "encode error" /\ step' # "decode" /\ step' # "decode layer"
      /\ step' \notin {"decode layer", "decode quad"}
      /\ step' # "decode quad" /\ step' \notin {"decoded", "loaded"}
  BY DEF Writing, Reading, Between, Inside
<1>2. ReadingInv'
  BY <1>1 DEF ReadingInv
<1>3. VerdictInv'
  BY <1>1 DEF VerdictInv
<1> QED
  BY <1>2, <1>3

\* And while one is read, the parts of ReadingInv.
LEMMA ReadingKept ==
    ASSUME step' \in Reading
    PROVE  WritingInv'
<1>1. /\ step' \notin Writing /\ step' \notin Between /\ step' \notin Inside
      /\ step' \notin {"encode", "load", "profile"} /\ step' # "convert"
      /\ step' \notin {"convert layer", "convert term"} /\ step' # "convert term"
  BY DEF Writing, Reading, Between, Inside
<1> QED
  BY <1>1 DEF WritingInv

\* A call starts with no file.
LEMMA InitFiles == LoadingInit => FilesInv
<1> SUFFICES ASSUME LoadingInit PROVE FilesInv
  OBVIOUS
<1>1. \/ step = "encode" /\ job.call = "encode" /\ job.circuit \in Written
      \/ step = "load" /\ job \in Loads /\ job.call = "load"
  BY LoadsAssumption DEF LoadingInit
<1>2. /\ legacy = <<>> /\ at = Start /\ altered = FALSE /\ circuits = <<>> /\ total_terms = 0
  BY DEF LoadingInit
<1>3. IsSeq(<<>>)
  BY DEF IsSeq
<1>4. CallInv
  <2>1. at \in Places /\ at.file = 1
    BY <1>2, PlacesAre
  <2>2. step = "encode" => step \in EncodeSteps /\ step \in Writing
    BY DEF EncodeSteps, Writing
  <2>3. step = "load" => step \in LoadSteps /\ step \in Writing
    BY DEF LoadSteps, Writing
  <2>4. IsSeq(legacy) /\ IsSeq(circuits)
    BY <1>2, <1>3
  <2>5. step # "panic"
    BY <1>1
  <2> QED
    BY <1>1, <1>2, <2>1, <2>2, <2>3, <2>4, <2>5 DEF CallInv
<1>5. WritingInv
  <2>1. step \notin Between \cup Inside \cup {"convert", "convert layer", "convert term"}
    BY <1>1 DEF Between, Inside
  <2>2. \A n \in 1..(at.file - 1) : FALSE
    BY <1>2 DEF Start
  <2> QED
    BY <1>2, <2>1, <2>2 DEF WritingInv
<1>6. ReadingInv
  BY <1>1 DEF ReadingInv, Reading
<1>7. VerdictInv
  BY <1>1 DEF VerdictInv, Reading
<1> QED
  BY <1>4, <1>5, <1>6, <1>7 DEF FilesInv

\* encode_header starts a file.
LEMMA EncodeHeaderKeeps == FilesInv /\ encode_header /\ UNCHANGED total_terms => FilesInv'
<1> SUFFICES ASSUME FilesInv, encode_header, UNCHANGED total_terms PROVE FilesInv'
  OBVIOUS
<1>1. /\ step = "encode" /\ job.call = "encode" /\ job.circuit \in Written /\ ~altered
      /\ at = Start /\ circuits = <<>> /\ legacy = <<>> /\ total_terms \in Nat /\ CallInv
  BY DEF FilesInv, CallInv, WritingInv, encode_header, LoadSteps, Writing
<1>2. UNCHANGED <<overflow_checks, job, at, prev_quad, altered, circuits, total_terms>>
  BY DEF encode_header
<1>3. at' \in Places /\ at.file = 1 /\ at.layer = 1 /\ at.quad = 1 /\ IsSeq(circuits')
  BY <1>1, <1>2, PlacesAre, ShortSeqs
<1> DEFINE c == job.circuit
           f == [c EXCEPT !.layers = <<>>]
           Good == (\A n \in HeaderNumbers(c) : FitsSize(n)) /\ c.num_layers = Len(c.layers)
<1>4. HeaderNumbers(c) \subseteq Nat /\ DOMAIN c = CircuitFields /\ IsSeq(c.layers)
  BY <1>1, WrittenIs
<1>5. CASE Good
  <2>1. legacy' = <<f>> /\ step' = "encode layer"
    BY <1>5 DEF encode_header
  <2>2. IsSeq(legacy') /\ Len(legacy') = 1 /\ legacy'[1] = f
    <3> HIDE DEF f
    <3> QED
      BY <2>1, ShortSeqs
  <2>3. HeaderFits(c)
    <3>1. HeaderNumbers(c) \subseteq Sizes
      BY <1>4, <1>5, Limits DEF FitsSize, Sizes
    <3> QED
      BY <1>4, <1>5, <3>1 DEF HeaderFits
  <2>4. SameHeader(f, c) /\ f.layers = <<>>
    BY <1>4 DEF SameHeader, CircuitFields, IsCircuit
  <2>5. HasLayers(f, c, 0) /\ Len(f.layers) = 0
    <3>1. 0 <= Len(c.layers)
      BY <1>4 DEF IsSeq
    <3> HIDE DEF f, c
    <3> QED
      BY <2>3, <2>4, <3>1, ShortSeqs DEF HasLayers
  <2> HIDE DEF f, Good
  <2>6. step' \in EncodeSteps /\ step' \in Writing
    BY <2>1 DEF EncodeSteps, Writing, Between
  <2>7. CallInv'
    BY <1>1, <1>2, <1>3, <2>1, <2>2, <2>6, CallKept
  <2>8. WritingInv'
    <3>1. /\ step' \notin {"encode", "load", "profile"} /\ step' # "convert"
          /\ step' \notin Inside /\ step' \notin {"convert layer", "convert term"}
          /\ step' # "convert term"
      BY <2>1 DEF Inside
    <3>2. Intended(job', 1) = c /\ at.layer - 1 = 0 /\ \A n \in 1..(at.file - 1) : FALSE
      BY <1>1, <1>2, <1>3 DEF Intended
    <3> HIDE DEF c
    <3> QED
      BY <1>2, <1>3, <2>2, <2>5, <3>1, <3>2 DEF WritingInv
  <2> QED
    BY <2>6, <2>7, <2>8, WritingKept DEF FilesInv
<1>6. CASE ~Good
  <2>1. legacy' = legacy /\ step' = "encode error"
    BY <1>6 DEF encode_header
  <2>2. Inexpressible(c)
    <3>1. (\E n \in HeaderNumbers(c) : ~FitsSize(n)) \/ c.num_layers # Len(c.layers)
      BY <1>6
    <3>2. \A n \in HeaderNumbers(c) : ~FitsSize(n) => n >= SizeLimit
      BY <1>4, Limits DEF FitsSize
    <3> QED
      BY <3>1, <3>2 DEF Inexpressible
  <2> HIDE DEF c, Good
  <2>3. step' \in EncodeSteps /\ step' \notin Writing
    BY <2>1 DEF EncodeSteps, Writing, Between, Inside
  <2>4. CallInv'
    BY <1>1, <1>2, <1>3, <2>1, <2>3, CallKept, ShortSeqs
  <2>5. VerdictInv'
    BY <1>2, <2>1, <2>2 DEF VerdictInv, Reading, c
  <2> QED
    BY <2>1, <2>4, <2>5, EndKept DEF FilesInv
<1> QED
  BY <1>5, <1>6

\* What a writer does to a file: it opens a layer, adds a quad, and closes the layer.
LEMMA LayerOpened ==
    ASSUME NEW s, IsSeq(s), NEW f \in 1..Len(s), NEW c, NEW l \in Nat, NEW t,
           HasLayers(s[f], c, l), Len(s[f].layers) = l, l + 1 <= Len(c.layers),
           LayerUpTo(c.layers[l + 1], 0),
           AddsLayer(t, s, f, FileLayer(c.layers[l + 1], 0))
    PROVE  /\ IsSeq(t) /\ Len(t) = Len(s) /\ \A n \in 1..Len(s) : n # f => t[n] = s[n]
           /\ HasQuads(t[f], c, l, 0)
<1>1. DOMAIN s[f] = CircuitFields /\ IsSeq(s[f].layers)
  BY DEF HasLayers, SameHeader
<1> DEFINE y == FileLayer(c.layers[l + 1], 0)
<1> HIDE DEF y
<1>2. /\ IsSeq(t) /\ Len(t) = Len(s) /\ \A n \in 1..Len(s) : n # f => t[n] = s[n]
      /\ DOMAIN t[f] = CircuitFields /\ IsCircuit(t[f])
      /\ \A k \in CircuitFields \ {"layers"} : t[f][k] = s[f][k]
      /\ IsSeq(t[f].layers) /\ Len(t[f].layers) = l + 1
      /\ \A k \in 1..l : t[f].layers[k] = s[f].layers[k]
      /\ t[f].layers[l + 1] = y
  <2>1. AddsLayer(t, s, f, y)
    BY DEF y
  <2>2. IsSeq(s) /\ f \in 1..Len(s)
    OBVIOUS
  <2>3. /\ IsSeq(t) /\ Len(t) = Len(s) /\ \A n \in 1..Len(s) : n # f => t[n] = s[n]
        /\ DOMAIN t[f] = CircuitFields /\ IsCircuit(t[f])
        /\ \A k \in CircuitFields \ {"layers"} : t[f][k] = s[f][k]
        /\ IsSeq(t[f].layers) /\ Len(t[f].layers) = Len(s[f].layers) + 1
        /\ \A k \in 1..Len(s[f].layers) : t[f].layers[k] = s[f].layers[k]
        /\ t[f].layers[Len(s[f].layers) + 1] = y
    BY ONLY <1>1, <2>1, <2>2, LayerAdded
  <2> QED
    BY <2>3
<1>3. SameHeader(t[f], c)
  BY <1>2 DEF HasLayers, SameHeader
<1>4. HasLayers(t[f], c, l)
  BY <1>2, <1>3 DEF HasLayers
<1>5. l < Len(c.layers)
  BY DEF HasLayers, HeaderFits, IsSeq
<1> QED
  BY <1>2, <1>4, <1>5 DEF HasQuads, y

\* A number and its successor.
Follows(k, l) == k = l + 1

\* A quad is added.
LEMMA QuadWritten ==
    ASSUME NEW s, IsSeq(s), NEW f \in 1..Len(s), NEW c, NEW l \in Nat, NEW n \in Nat, NEW t,
           NEW k, NEW j, Follows(k, l), Follows(j, n),
           HasQuads(s[f], c, l, n), j <= Len(c.layers[k].quads),
           Fits(c.layers[k].quads[j], Before(c.layers[k].quads, j)),
           AddsQuad(t, s, f, k, QuadAgainst(c.layers[k].quads[j], Before(c.layers[k].quads, j)))
    PROVE  /\ IsSeq(t) /\ Len(t) = Len(s) /\ \A m \in 1..Len(s) : m # f => t[m] = s[m]
           /\ HasQuads(t[f], c, l, j)
<1>0. k = l + 1 /\ j = n + 1
  BY DEF Follows
<1> DEFINE layer == c.layers[l + 1]
           y == QuadAgainst(layer.quads[n + 1], Before(layer.quads, n + 1))
<1>1. /\ HasLayers(s[f], c, l) /\ l < Len(c.layers) /\ Len(s[f].layers) = l + 1
      /\ LayerUpTo(layer, n) /\ s[f].layers[l + 1] = FileLayer(layer, n)
  BY <1>0 DEF HasQuads
<1>2. DOMAIN s[f] = CircuitFields /\ IsSeq(s[f].layers)
  BY <1>1 DEF HasLayers, SameHeader
<1>3. DOMAIN s[f].layers[l + 1] = {"logw", "wires", "quads"}
  BY <1>1 DEF FileLayer
<1>4. AddsQuad(t, s, f, l + 1, y)
  BY <1>0
<1>5. QuadMore(FileLayer(layer, n), y) = FileLayer(layer, n + 1)
  BY FileLayerGrows DEF QuadMore
<1>6. Fits(layer.quads[n + 1], Before(layer.quads, n + 1)) /\ n + 1 <= Len(layer.quads)
  BY <1>0
<1> HIDE DEF layer, y
<1>7. /\ IsSeq(t) /\ Len(t) = Len(s) /\ \A m \in 1..Len(s) : m # f => t[m] = s[m]
      /\ DOMAIN t[f] = CircuitFields /\ IsCircuit(t[f])
      /\ \A i \in CircuitFields \ {"layers"} : t[f][i] = s[f][i]
      /\ IsSeq(t[f].layers) /\ Len(t[f].layers) = l + 1
      /\ \A i \in 1..l : t[f].layers[i] = s[f].layers[i]
      /\ t[f].layers[l + 1] = FileLayer(layer, n + 1)
  <2>1. PICK m : m = l + 1 /\ m \in 1..Len(s[f].layers)
    BY <1>1
  <2>2. AddsQuad(t, s, f, m, y)
    BY <1>4, <2>1
  <2>3. DOMAIN s[f].layers[m] = {"logw", "wires", "quads"}
    BY <1>3, <2>1
  <2>4. /\ IsSeq(t) /\ Len(t) = Len(s) /\ \A i \in 1..Len(s) : i # f => t[i] = s[i]
        /\ DOMAIN t[f] = CircuitFields /\ IsCircuit(t[f])
        /\ \A i \in CircuitFields \ {"layers"} : t[f][i] = s[f][i]
        /\ IsSeq(t[f].layers) /\ Len(t[f].layers) = Len(s[f].layers)
        /\ \A i \in 1..Len(s[f].layers) : i # m => t[f].layers[i] = s[f].layers[i]
        /\ t[f].layers[m] = QuadMore(s[f].layers[m], y)
    <3>1. IsSeq(s) /\ f \in 1..Len(s)
      OBVIOUS
    <3> QED
      BY ONLY <1>2, <2>1, <2>2, <2>3, <3>1, QuadAdded
  <2>5. t[f].layers[m] = FileLayer(layer, n + 1)
    BY <1>1, <1>5, <2>1, <2>4
  <2>6. \A i \in 1..l : i \in 1..Len(s[f].layers) /\ i # m
    BY <1>1, <2>1
  <2> QED
    BY <1>1, <2>1, <2>4, <2>5, <2>6
<1>8. SameHeader(t[f], c)
  BY <1>1, <1>7 DEF HasLayers, SameHeader
<1>9. HasLayers(t[f], c, l)
  BY <1>1, <1>7, <1>8 DEF HasLayers
<1>10. LayerUpTo(layer, n + 1)
  <2>1. \A q \in 1..(n + 1) : q \in 1..n \/ q = n + 1
    OBVIOUS
  <2> QED
    BY <1>1, <1>6, <2>1 DEF LayerUpTo
<1> QED
  BY <1>0, <1>1, <1>7, <1>9, <1>10 DEF HasQuads, layer

\* A quad that fits is added behind the first n of layer k of file f.
WritesQuad(t, s, f, c, l, n, k, j) ==
    /\ IsSeq(s) /\ f \in 1..Len(s) /\ l \in Nat /\ n \in Nat /\ k = l + 1 /\ j = n + 1
    /\ HasQuads(s[f], c, l, n) /\ j <= Len(c.layers[k].quads)
    /\ Fits(c.layers[k].quads[j], Before(c.layers[k].quads, j))
    /\ AddsQuad(t, s, f, k, QuadAgainst(c.layers[k].quads[j], Before(c.layers[k].quads, j)))

\* The same, of names that need not be known to be numbers.
LEMMA WritesOneQuad ==
    ASSUME NEW s, NEW f, NEW c, NEW l, NEW n, NEW t, NEW k, NEW j,
           WritesQuad(t, s, f, c, l, n, k, j)
    PROVE  /\ IsSeq(t) /\ Len(t) = Len(s) /\ \A m \in 1..Len(s) : m # f => t[m] = s[m]
           /\ HasQuads(t[f], c, l, j)
<1>1. IsSeq(s) /\ f \in 1..Len(s) /\ l \in Nat /\ n \in Nat /\ Follows(k, l) /\ Follows(j, n)
  BY DEF WritesQuad, Follows
<1>2. /\ HasQuads(s[f], c, l, n) /\ j <= Len(c.layers[k].quads)
      /\ Fits(c.layers[k].quads[j], Before(c.layers[k].quads, j))
      /\ AddsQuad(t, s, f, k, QuadAgainst(c.layers[k].quads[j], Before(c.layers[k].quads, j)))
  BY DEF WritesQuad
<1> QED
  BY <1>1, <1>2, QuadWritten

\* The layer is closed.
LEMMA LayerClosed ==
    ASSUME NEW f, NEW c, NEW l \in Nat, NEW n \in Nat, HasQuads(f, c, l, n),
           ~(n + 1 <= Len(c.layers[l + 1].quads))
    PROVE  HasLayers(f, c, l + 1) /\ Len(f.layers) = l + 1
<1> DEFINE layer == c.layers[l + 1]
<1>1. /\ HasLayers(f, c, l) /\ l < Len(c.layers) /\ Len(f.layers) = l + 1
      /\ LayerUpTo(layer, n) /\ f.layers[l + 1] = FileLayer(layer, n)
  BY DEF HasQuads
<1>2. n = Len(layer.quads)
  BY <1>1, Limits DEF LayerUpTo, Sizes
<1> HIDE DEF layer
<1>3. l + 1 <= Len(c.layers)
  BY <1>1 DEF HasLayers, HeaderFits, IsSeq
<1>4. ASSUME NEW k \in 1..(l + 1)
      PROVE  /\ LayerUpTo(c.layers[k], Len(c.layers[k].quads))
             /\ f.layers[k] = FileLayer(c.layers[k], Len(c.layers[k].quads))
  <2>1. CASE k = l + 1
    BY <1>1, <1>2, <2>1 DEF layer
  <2>2. CASE k # l + 1
    <3>1. k \in 1..l
      BY <2>2
    <3> QED
      BY <1>1, <3>1 DEF HasLayers
  <2> QED
    BY <2>1, <2>2
<1> QED
  BY <1>1, <1>3, <1>4 DEF HasLayers

\* encode_layer opens a layer.
LEMMA EncodeLayerKeeps == FilesInv /\ encode_layer /\ UNCHANGED total_terms => FilesInv'
<1> SUFFICES ASSUME FilesInv, encode_layer, UNCHANGED total_terms PROVE FilesInv'
  OBVIOUS
<1>1. step = "encode layer" /\ step \in Writing /\ step \in Between /\ step \notin LoadSteps
  BY DEF encode_layer, Writing, Between, LoadSteps
<1>2. /\ job.call = "encode" /\ job.circuit \in Written /\ ~altered /\ circuits = <<>>
      /\ at \in Places /\ at.file = 1 /\ total_terms \in Nat /\ CallInv /\ IsSeq(legacy)
      /\ IsSeq(circuits)
  BY <1>1 DEF FilesInv, CallInv
<1>3. UNCHANGED <<overflow_checks, job, at, altered, circuits, total_terms>>
  BY DEF encode_layer
<1> DEFINE c == job.circuit
<1>4. PICK l \in Nat : l = at.layer - 1 /\ at.layer = l + 1
  <2>1. at.layer - 1 \in Nat /\ at.layer = (at.layer - 1) + 1
    BY <1>2, PlacesAre
  <2> DEFINE m == at.layer - 1
  <2>2. m \in Nat /\ at.layer = m + 1 /\ m = at.layer - 1
    BY <2>1
  <2> HIDE DEF m
  <2> QED
    BY <2>2
<1>12. c = job.circuit
  OBVIOUS
<1> HIDE DEF c
<1>5. Intended(job, 1) = c /\ Intended(job', 1) = c
  BY <1>2, <1>3, <1>4, <1>12 DEF Intended
<1>6. /\ Len(legacy) = 1 /\ at.quad = 1 /\ HasLayers(legacy[1], c, l)
      /\ Len(legacy[1].layers) = l
  BY <1>1, <1>2, <1>4, <1>12, <1>5 DEF FilesInv, WritingInv
<1>7. l + 1 <= Len(c.layers)
  BY <1>4, <1>12 DEF encode_layer
<1>8. PICK layer : layer = c.layers[l + 1]
  OBVIOUS
<1>9. /\ layer = [logw |-> layer.logw, wires |-> layer.wires, quads |-> layer.quads]
      /\ layer.logw \in Nat /\ layer.wires \in Nat
      /\ IsSeq(layer.quads) /\ DOMAIN layer.quads = 1..Len(layer.quads) /\ Len(layer.quads) \in Nat
      /\ \A q \in 1..Len(layer.quads) : layer.quads[q] \in Quads /\ layer.quads[q] \in IntQuads
      /\ l + 1 \in DOMAIN c.layers /\ IsSeq(c.layers)
  <2>1. /\ DOMAIN c.layers = 1..Len(c.layers) /\ IsSeq(c.layers)
        /\ \A k \in 1..Len(c.layers) :
                 LET L == c.layers[k]
                 IN  /\ L = [logw |-> L.logw, wires |-> L.wires, quads |-> L.quads]
                     /\ L.logw \in Nat /\ L.wires \in Nat
                     /\ IsSeq(L.quads) /\ DOMAIN L.quads = 1..Len(L.quads)
                     /\ \A q \in 1..Len(L.quads) :
                           L.quads[q] \in Quads /\ L.quads[q] \in IntQuads
    BY <1>2, <1>4, <1>12, WrittenIs
  <2>2. l + 1 \in 1..Len(c.layers)
    BY <1>7, <2>1 DEF IsSeq
  <2> QED
    BY <1>8, <2>1, <2>2 DEF IsSeq
<1> DEFINE Good == FitsSize(layer.logw) /\ FitsSize(layer.wires) /\ FitsSize(Len(layer.quads))
<1>10. CASE Good
  <2>1. step' = "encode quad" /\ prev_quad' = DefaultQuad
    BY <1>4, <1>12, <1>8, <1>10 DEF encode_layer
  <2>2. legacy' = [legacy EXCEPT ![1].layers = Append(@, [layer EXCEPT !.quads = <<>>])]
    BY <1>4, <1>12, <1>8, <1>10 DEF encode_layer
  <2>3. [layer EXCEPT !.quads = <<>>] = FileLayer(layer, 0)
    <3>1. [layer EXCEPT !.quads = <<>>]
            = [logw |-> layer.logw, wires |-> layer.wires, quads |-> <<>>]
      BY <1>9
    <3> QED
      BY <3>1, FileLayerGrows
  <2>4. LayerUpTo(layer, 0)
    <3>1. {layer.logw, layer.wires} \subseteq Sizes /\ Len(layer.quads) \in Sizes
      BY <1>9, <1>10, Limits DEF FitsSize, Sizes
    <3> QED
      BY <1>9, <3>1 DEF LayerUpTo
  <2>5. IsSeq(legacy') /\ Len(legacy') = 1 /\ HasQuads(legacy'[1], c, l, 0)
    <3>1. legacy' = [legacy EXCEPT ![1].layers = Append(@, FileLayer(layer, 0))]
      BY <2>2, <2>3
    <3>2. HasQuads(legacy'[1], c, l, 0) /\ IsSeq(legacy') /\ Len(legacy') = 1
      <4>1. 1 \in 1..Len(legacy)
        BY <1>6
      <4>2. LayerUpTo(c.layers[l + 1], 0)
        BY <1>8, <2>4
      <4>3. AddsLayer(legacy', legacy, 1, FileLayer(c.layers[l + 1], 0))
        BY <1>8, <3>1 DEF AddsLayer
      <4> QED
        BY ONLY <1>2, <1>6, <1>7, <4>1, <4>2, <4>3, l \in Nat, LayerOpened
    <3> QED
      BY <3>2
  <2>6. step' \in EncodeSteps /\ step' \in Writing /\ step' \in Inside
    BY <2>1 DEF EncodeSteps, Writing, Inside
  <2>7. CallInv'
    BY <1>2, <1>3, <2>1, <2>5, <2>6, CallKept
  <2>8. WritingInv'
    <3>1. /\ step' \notin {"encode", "load", "profile"} /\ step' # "convert"
          /\ step' \notin Between /\ step' \notin {"convert layer", "convert term"}
          /\ step' # "convert term"
      BY <2>1 DEF Between
    <3>2. /\ at.quad - 1 = 0 /\ \A n \in 1..(at.file - 1) : FALSE
          /\ Before(c.layers[at.layer].quads, at.quad) = DefaultQuad
      BY <1>2, <1>6 DEF Before
    <3> QED
      BY <1>2, <1>3, <1>4, <1>12, <1>5, <2>1, <2>5, <3>1, <3>2 DEF WritingInv
  <2> QED
    BY <2>6, <2>7, <2>8, WritingKept DEF FilesInv
<1>11. CASE ~Good
  <2>1. step' = "encode error" /\ legacy' = legacy
    BY <1>4, <1>12, <1>8, <1>11 DEF encode_layer
  <2>2. Inexpressible(c)
    <3>1. CASE layer.logw >= SizeLimit \/ layer.wires >= SizeLimit
      BY <1>8, <1>9, <3>1 DEF Inexpressible
    <3>2. CASE Len(layer.quads) >= SizeLimit
      BY <1>8, <1>9, <3>2 DEF Inexpressible
    <3> QED
      BY <1>9, <1>11, <3>1, <3>2, Limits DEF FitsSize
  <2>3. step' \in EncodeSteps /\ step' \notin Writing
    BY <2>1 DEF EncodeSteps, Writing, Between, Inside
  <2>4. CallInv'
    BY <1>2, <1>3, <2>1, <2>3, CallKept
  <2>5. VerdictInv'
    BY <1>3, <1>4, <1>12, <2>1, <2>2 DEF VerdictInv, Reading
  <2> QED
    BY <2>1, <2>4, <2>5, EndKept DEF FilesInv
<1> QED
  BY <1>10, <1>11

\* When a quad fits, number by number.
LEMMA FitsIs ==
    ASSUME NEW quad \in Quads, NEW p \in IntQuads
    PROVE  Fits(quad, p)
             <=> /\ quad.const < SizeLimit /\ \A i \in DOMAIN DefaultQuad : quad[i] < WordLimit
                 /\ \A i \in {"gate", "left", "right"} :
                       2 * (quad[i] - p[i]) < SizeLimit /\ -2 * (quad[i] - p[i]) < SizeLimit
<1>1. /\ quad.gate \in Nat /\ quad.left \in Nat /\ quad.right \in Nat /\ quad.const \in Nat
      /\ quad = [gate |-> quad.gate, left |-> quad.left, right |-> quad.right, const |-> quad.const]
      /\ p.gate \in Int /\ p.left \in Int /\ p.right \in Int
  BY QuadIs DEF Quads, IntQuads
<1>2. DOMAIN DefaultQuad = {"gate", "left", "right", "const"}
  BY DEF DefaultQuad
<1>3. \A w \in Nat : w \in Words <=> w < WordLimit
  BY Limits DEF Words
<1>4. quad \in WordQuads <=> \A i \in DOMAIN DefaultQuad : quad[i] < WordLimit
  <2>1. quad \in WordQuads <=> /\ quad.gate \in Words /\ quad.left \in Words
                               /\ quad.right \in Words /\ quad.const \in Words
    BY <1>1 DEF WordQuads
  <2> QED
    BY <1>1, <1>2, <1>3, <2>1
<1>5. quad.const \in Sizes <=> quad.const < SizeLimit
  BY <1>1, Limits DEF Sizes
<1>6. QuadAgainst(quad, p) \in SizeQuads
        <=> /\ EncodedDelta(quad.gate, p.gate) \in Sizes
            /\ EncodedDelta(quad.left, p.left) \in Sizes
            /\ EncodedDelta(quad.right, p.right) \in Sizes
            /\ quad.const \in Sizes
  BY DEF QuadAgainst, SizeQuads
<1>7. \A i \in {"gate", "left", "right"} :
         EncodedDelta(quad[i], p[i]) \in Sizes
           <=> 2 * (quad[i] - p[i]) < SizeLimit /\ -2 * (quad[i] - p[i]) < SizeLimit
  <2>1. \A i \in {"gate", "left", "right"} : quad[i] \in Int /\ p[i] \in Int
    BY <1>1
  <2> QED
    BY <2>1, DeltaSize
<1> QED
  BY <1>4, <1>5, <1>6, <1>7 DEF Fits

\* A circuit with a quad that does not fit cannot be expressed.
LEMMA MisfitInexpressible ==
    ASSUME NEW c \in Written, NEW k \in 1..Len(c.layers), NEW q \in 1..Len(c.layers[k].quads),
           Before(c.layers[k].quads, q) \in IntQuads,
           ~Fits(c.layers[k].quads[q], Before(c.layers[k].quads, q))
    PROVE  Inexpressible(c)
<1> DEFINE quads == c.layers[k].quads
<1>1. /\ k \in DOMAIN c.layers /\ q \in DOMAIN quads /\ quads[q] \in Quads
  BY WrittenIs
<1>2. \A i \in {"gate", "left", "right"} :
         Before(quads, q)[i] = IF q = 1 THEN 0 ELSE quads[q - 1][i]
  BY DEF Before, DefaultQuad
<1>3. \A i \in {"gate", "left", "right"} : quads[q][i] \in Int /\ Before(quads, q)[i] \in Int
  BY <1>1, QuadIs DEF Quads, IntQuads
<1>4. \A i \in DOMAIN DefaultQuad : quads[q][i] \in Int
  BY <1>1, QuadIs DEF Quads, DefaultQuad
<1>5. quads[q].const \in Int
  BY <1>4 DEF DefaultQuad
<1> DEFINE At(i) == IF q = 1 THEN 0 ELSE quads[q - 1][i]
<1>6. \/ quads[q].const >= SizeLimit
      \/ \E i \in DOMAIN DefaultQuad : quads[q][i] >= WordLimit
      \/ \E i \in {"gate", "left", "right"} :
            2 * (quads[q][i] - At(i)) >= SizeLimit \/ -2 * (quads[q][i] - At(i)) >= SizeLimit
  <2>1. \/ ~(quads[q].const < SizeLimit)
        \/ \E i \in DOMAIN DefaultQuad : ~(quads[q][i] < WordLimit)
        \/ \E i \in {"gate", "left", "right"} :
              \/ ~(2 * (quads[q][i] - Before(quads, q)[i]) < SizeLimit)
              \/ ~(-2 * (quads[q][i] - Before(quads, q)[i]) < SizeLimit)
    BY <1>1, FitsIs
  <2>2. quads[q].const < SizeLimit \/ quads[q].const >= SizeLimit
    BY <1>5, Limits
  <2>3. ASSUME NEW i \in DOMAIN DefaultQuad
        PROVE  quads[q][i] < WordLimit \/ quads[q][i] >= WordLimit
    <3>1. PICK v \in Int : v = quads[q][i]
      BY <1>4
    <3>2. WordLimit \in Int
      BY Limits
    <3> HIDE DEF quads
    <3> QED
      BY <3>1, <3>2
  <2>4. ASSUME NEW i \in {"gate", "left", "right"}
        PROVE  /\ At(i) = Before(quads, q)[i]
               /\ 2 * (quads[q][i] - At(i)) < SizeLimit \/ 2 * (quads[q][i] - At(i)) >= SizeLimit
               /\ -2 * (quads[q][i] - At(i)) < SizeLimit \/ -2 * (quads[q][i] - At(i)) >= SizeLimit
    <3>1. At(i) = Before(quads, q)[i]
      BY <1>2
    <3> HIDE DEF At, quads
    <3>2. PICK a \in Int, b \in Int : a = quads[q][i] /\ b = At(i)
      BY <1>3, <3>1
    <3> QED
      BY <3>1, <3>2, Limits
  <2> HIDE DEF At, quads
  <2> QED
    BY <2>1, <2>2, <2>3, <2>4
<1> QED
  BY <1>1, <1>6 DEF Inexpressible

\* One that is in a file whole can.
LEMMA WholeExpressible ==
    ASSUME NEW c \in Written, NEW f, WholeFile(f, c)
    PROVE  ~Inexpressible(c)
<1>1. /\ HeaderFits(c)
      /\ \A k \in 1..Len(c.layers) : LayerUpTo(c.layers[k], Len(c.layers[k].quads))
  BY DEF WholeFile, HasLayers
<1>2. c.num_layers = Len(c.layers) /\ \A n \in HeaderNumbers(c) : ~(n >= SizeLimit)
  BY <1>1, Limits DEF HeaderFits, Sizes
<1>3. DOMAIN c.layers = 1..Len(c.layers)
  BY WrittenIs
<1>4. ASSUME NEW k \in 1..Len(c.layers)
      PROVE  LET layer == c.layers[k]
             IN  /\ ~(layer.logw >= SizeLimit) /\ ~(layer.wires >= SizeLimit)
                 /\ ~(Len(layer.quads) >= SizeLimit)
  <2>1. \A x \in Sizes : ~(x >= SizeLimit)
    BY Limits DEF Sizes
  <2> QED
    BY <1>1, <2>1 DEF LayerUpTo
<1>5. ASSUME NEW k \in 1..Len(c.layers), NEW q \in DOMAIN c.layers[k].quads
      PROVE  LET quads == c.layers[k].quads
                 At(i) == IF q = 1 THEN 0 ELSE quads[q - 1][i]
             IN  /\ ~(quads[q].const >= SizeLimit)
                 /\ \A i \in DOMAIN DefaultQuad : ~(quads[q][i] >= WordLimit)
                 /\ \A i \in {"gate", "left", "right"} :
                       /\ ~(2 * (quads[q][i] - At(i)) >= SizeLimit)
                       /\ ~(-2 * (quads[q][i] - At(i)) >= SizeLimit)
  <2> DEFINE quads == c.layers[k].quads
             At(i) == IF q = 1 THEN 0 ELSE quads[q - 1][i]
  <2>1. q \in 1..Len(quads) /\ Len(quads) \in Nat
    BY WrittenIs DEF IsSeq
  <2>2. quads[q] \in Quads
    BY <2>1, WrittenIs
  <2>3. Fits(quads[q], Before(quads, q))
    BY <1>1, <2>1 DEF LayerUpTo
  <2>4. Before(quads, q) \in IntQuads
    <3>1. CASE q = 1
      BY <3>1, SizesAreWords, WordsAreInts DEF Before
    <3>2. CASE q # 1
      <4>1. q - 1 \in 1..Len(quads)
        BY <2>1, <3>2
      <4>2. quads[q - 1] \in IntQuads
        BY <1>1, <4>1 DEF LayerUpTo
      <4> QED
        BY <3>2, <4>2 DEF Before
    <3> QED
      BY <3>1, <3>2
  <2>5. /\ quads[q].const < SizeLimit /\ \A i \in DOMAIN DefaultQuad : quads[q][i] < WordLimit
        /\ \A i \in {"gate", "left", "right"} :
              /\ 2 * (quads[q][i] - Before(quads, q)[i]) < SizeLimit
              /\ -2 * (quads[q][i] - Before(quads, q)[i]) < SizeLimit
    BY <2>2, <2>3, <2>4, FitsIs
  <2>6. \A i \in DOMAIN DefaultQuad : quads[q][i] \in Int
    BY <2>2, QuadIs DEF Quads, DefaultQuad
  <2>7. ASSUME NEW i \in {"gate", "left", "right"}
        PROVE  At(i) = Before(quads, q)[i] /\ At(i) \in Int /\ quads[q][i] \in Int
    <3>1. At(i) = Before(quads, q)[i]
      BY DEF Before, DefaultQuad
    <3>2. Before(quads, q)[i] \in Int
      BY <2>4, QuadIs DEF IntQuads
    <3>3. i \in DOMAIN DefaultQuad
      BY DEF DefaultQuad
    <3> HIDE DEF At, quads
    <3> QED
      BY <2>6, <3>1, <3>2, <3>3
  <2>8. quads[q].const \in Int
    BY <2>6 DEF DefaultQuad
  <2> HIDE DEF At, quads
  <2>9. /\ ~(quads[q].const >= SizeLimit)
        /\ \A i \in DOMAIN DefaultQuad : ~(quads[q][i] >= WordLimit)
    BY <2>5, <2>6, <2>8, Limits
  <2>10. ASSUME NEW i \in {"gate", "left", "right"}
         PROVE  /\ ~(2 * (quads[q][i] - At(i)) >= SizeLimit)
                /\ ~(-2 * (quads[q][i] - At(i)) >= SizeLimit)
    <3>1. PICK a \in Int, b \in Int : a = quads[q][i] /\ b = At(i)
      BY <2>7
    <3>2. 2 * (a - b) < SizeLimit /\ -2 * (a - b) < SizeLimit
      BY <2>5, <2>7, <3>1
    <3> QED
      BY <3>1, <3>2, Limits
  <2> QED
    BY <2>9, <2>10 DEF At, quads
<1> QED
  BY <1>2, <1>3, <1>4, <1>5 DEF Inexpressible

\* What precedes a quad whose predecessors fit is one of words.
LEMMA BeforeIsWords ==
    ASSUME NEW Q, NEW n \in Nat, \A q \in 1..n : Fits(Q[q], Before(Q, q))
    PROVE  Before(Q, n + 1) \in WordQuads
<1>1. CASE n = 0
  BY <1>1, SizesAreWords DEF Before
<1>2. CASE n # 0
  <2>1. n \in 1..n /\ n + 1 # 1 /\ (n + 1) - 1 = n
    BY <1>2
  <2>2. Q[n] \in WordQuads
    BY <2>1 DEF Fits
  <2> QED
    BY <2>1, <2>2 DEF Before
<1> QED
  BY <1>1, <1>2

\* encode_quad adds a quad.
LEMMA EncodeQuadKeeps == FilesInv /\ encode_quad /\ UNCHANGED total_terms => FilesInv'
<1> SUFFICES ASSUME FilesInv, encode_quad, UNCHANGED total_terms PROVE FilesInv'
  OBVIOUS
<1>1. step = "encode quad" /\ step \in Writing /\ step \in Inside /\ step \notin LoadSteps
  BY DEF encode_quad, Writing, Inside, LoadSteps
<1>2. /\ job.call = "encode" /\ job.circuit \in Written /\ ~altered /\ circuits = <<>>
      /\ at \in Places /\ at.file = 1 /\ total_terms \in Nat /\ CallInv /\ IsSeq(legacy)
      /\ IsSeq(circuits)
  BY <1>1 DEF FilesInv, CallInv
<1>3. UNCHANGED <<overflow_checks, job, altered, circuits, total_terms>>
  BY DEF encode_quad
<1>4. PICK l \in Nat, n \in Nat :
         l = at.layer - 1 /\ at.layer = l + 1 /\ n = at.quad - 1 /\ at.quad = n + 1
  <2> DEFINE m == at.layer - 1
             j == at.quad - 1
  <2>1. /\ m \in Nat /\ at.layer = m + 1 /\ m = at.layer - 1
        /\ j \in Nat /\ at.quad = j + 1 /\ j = at.quad - 1
    BY <1>2, PlacesAre
  <2> HIDE DEF m, j
  <2> QED
    BY <2>1
<1> DEFINE c == job.circuit
           Q == c.layers[l + 1].quads
<1>5. c \in Written /\ Intended(job, 1) = c /\ Intended(job', 1) = c /\ c = job.circuit
  BY <1>2, <1>3 DEF Intended
<1>6. Q = c.layers[l + 1].quads
  OBVIOUS
<1> HIDE DEF c, Q
<1>7. /\ Len(legacy) = 1 /\ HasQuads(legacy[1], c, l, n) /\ prev_quad = Before(Q, n + 1)
  BY <1>1, <1>2, <1>4, <1>5, <1>6 DEF FilesInv, WritingInv
<1>8. n + 1 <= Len(Q)
  BY <1>4, <1>5, <1>6 DEF encode_quad
<1>9. PICK k : k = l + 1 /\ k \in 1..Len(c.layers)
  BY <1>7 DEF HasQuads, HasLayers, HeaderFits, IsSeq
<1>10. LayerUpTo(c.layers[l + 1], n)
  BY <1>7 DEF HasQuads
<1>11. PICK q : q = n + 1 /\ q \in 1..Len(Q) /\ Q[q] \in Quads /\ Q[q] \in IntQuads
  <2>1. n + 1 \in 1..Len(Q)
    BY <1>6, <1>8, <1>10 DEF LayerUpTo, IsSeq
  <2> QED
    BY <1>5, <1>6, <1>9, <2>1, WrittenIs
<1>12. prev_quad \in WordQuads /\ prev_quad \in IntQuads
  <2>1. \A j \in 1..n : Fits(Q[j], Before(Q, j))
    BY <1>6, <1>10 DEF LayerUpTo
  <2> QED
    BY <1>7, <2>1, BeforeIsWords, WordsAreInts
<1>13. QuadFits(Q[q]) <=> Fits(Q[q], Before(Q, q))
  BY <1>7, <1>11, <1>12, QuadFitsIs
<1>14. CASE QuadFits(Q[q])
  <2>1. /\ legacy' = WithQuad(1, Q[q]) /\ prev_quad' = Q[q] /\ step' = step
        /\ at' = [at EXCEPT !.quad = @ + 1]
    BY <1>4, <1>5, <1>6, <1>11, <1>14 DEF encode_quad
  <2>2. AddsQuad(legacy', legacy, 1, l + 1, QuadAgainst(Q[n + 1], Before(Q, n + 1)))
    BY <1>4, <1>7, <1>11, <2>1 DEF WithQuad, Encoded, AddsQuad
  <2>3. /\ IsSeq(legacy') /\ Len(legacy') = 1 /\ HasQuads(legacy'[1], c, l, n + 1)
    <3>1. 1 \in 1..Len(legacy) /\ Len(legacy) = 1 /\ IsSeq(legacy)
      BY <1>2, <1>7
    <3>2. Fits(Q[n + 1], Before(Q, n + 1))
      BY <1>11, <1>13, <1>14
    <3>3. WritesQuad(legacy', legacy, 1, c, l, n, k, q)
      BY <1>6, <1>7, <1>8, <1>9, <1>11, <2>2, <3>1, <3>2 DEF WritesQuad
    <3> QED
      BY <1>11, <3>1, <3>3, WritesOneQuad
  <2>4. at' \in Places /\ at'.file = 1 /\ at'.layer = l + 1 /\ at'.quad = (n + 1) + 1
    BY <1>2, <1>4, <2>1, PlacesAre
  <2>5. step' \in EncodeSteps /\ step' \in Writing /\ step' \in Inside /\ step' = "encode quad"
    BY <1>1, <2>1 DEF EncodeSteps
  <2>6. CallInv'
    BY <1>2, <1>3, <2>3, <2>4, <2>5, CallKept
  <2>7. prev_quad' = Before(Q, (n + 1) + 1)
    BY <1>11, <2>1 DEF Before
  <2>8. WritingInv'
    <3>1. /\ step' \notin {"encode", "load", "profile"} /\ step' # "convert"
          /\ step' \notin Between /\ step' \notin {"convert layer", "convert term"}
          /\ step' # "convert term"
      BY <2>5 DEF Between
    <3>2. /\ at'.quad - 1 = n + 1 /\ at'.layer - 1 = l /\ \A m \in 1..(at'.file - 1) : FALSE
      BY <2>4
    <3> QED
      BY <1>5, <1>6, <2>3, <2>4, <2>7, <3>1, <3>2 DEF WritingInv
  <2> QED
    BY <2>5, <2>6, <2>8, WritingKept DEF FilesInv
<1>15. CASE ~QuadFits(Q[q])
  <2>1. step' = "encode error" /\ legacy' = legacy /\ at' = at
    BY <1>4, <1>5, <1>6, <1>11, <1>15 DEF encode_quad
  <2>2. Inexpressible(c)
    <3>1. ~Fits(Q[q], Before(Q, q)) /\ Before(Q, q) \in IntQuads
      BY <1>7, <1>11, <1>12, <1>13, <1>15
    <3> QED
      BY <1>5, <1>6, <1>9, <1>11, <3>1, MisfitInexpressible
  <2>3. step' \in EncodeSteps /\ step' \notin Writing
    BY <2>1 DEF EncodeSteps, Writing, Between, Inside
  <2>4. CallInv'
    BY <1>2, <1>3, <2>1, <2>3, CallKept
  <2>5. VerdictInv'
    BY <1>3, <1>5, <2>1, <2>2 DEF VerdictInv, Reading
  <2> QED
    BY <2>1, <2>4, <2>5, EndKept DEF FilesInv
<1> QED
  BY <1>14, <1>15

\* encode_layer_ends closes the layer.
LEMMA EncodeLayerEndsKeeps == FilesInv /\ encode_layer_ends /\ UNCHANGED total_terms => FilesInv'
<1> SUFFICES ASSUME FilesInv, encode_layer_ends, UNCHANGED total_terms PROVE FilesInv'
  OBVIOUS
<1>1. step = "encode quad" /\ step \in Writing /\ step \in Inside /\ step \notin LoadSteps
  BY DEF encode_layer_ends, Writing, Inside, LoadSteps
<1>2. /\ job.call = "encode" /\ job.circuit \in Written /\ ~altered /\ circuits = <<>>
      /\ at \in Places /\ at.file = 1 /\ total_terms \in Nat /\ CallInv /\ IsSeq(legacy)
      /\ IsSeq(circuits)
  BY <1>1 DEF FilesInv, CallInv
<1>3. /\ UNCHANGED <<overflow_checks, job, legacy, prev_quad, altered, circuits, total_terms>>
      /\ at' = NextLayer /\ step' = "encode layer"
  BY DEF encode_layer_ends
<1>4. PICK l \in Nat, n \in Nat :
         l = at.layer - 1 /\ at.layer = l + 1 /\ n = at.quad - 1 /\ at.quad = n + 1
  <2> DEFINE m == at.layer - 1
             j == at.quad - 1
  <2>1. /\ m \in Nat /\ at.layer = m + 1 /\ m = at.layer - 1
        /\ j \in Nat /\ at.quad = j + 1 /\ j = at.quad - 1
    BY <1>2, PlacesAre
  <2> HIDE DEF m, j
  <2> QED
    BY <2>1
<1> DEFINE c == job.circuit
<1>5. c \in Written /\ Intended(job, 1) = c /\ Intended(job', 1) = c /\ c = job.circuit
  BY <1>2, <1>3 DEF Intended
<1> HIDE DEF c
<1>6. Len(legacy) = 1 /\ HasQuads(legacy[1], c, l, n)
  BY <1>1, <1>2, <1>4, <1>5 DEF FilesInv, WritingInv
<1>7. ~(n + 1 <= Len(c.layers[l + 1].quads))
  <2>1. at.quad > Len(c.layers[l + 1].quads)
    BY <1>4, <1>5 DEF encode_layer_ends
  <2>2. Len(c.layers[l + 1].quads) \in Nat
    BY <1>6 DEF HasQuads, LayerUpTo, IsSeq
  <2> QED
    BY <1>4, <2>1, <2>2
<1>8. HasLayers(legacy[1], c, l + 1) /\ Len(legacy[1].layers) = l + 1
  BY <1>6, <1>7, LayerClosed
<1>9. at' \in Places /\ at'.file = 1 /\ at'.layer = (l + 1) + 1 /\ at'.quad = 1
  BY <1>2, <1>3, <1>4, PlacesAre
<1>10. step' \in EncodeSteps /\ step' \in Writing /\ step' \in Between
  BY <1>3 DEF EncodeSteps, Writing, Between
<1>11. CallInv'
  BY <1>2, <1>3, <1>9, <1>10, CallKept
<1>12. WritingInv'
  <2>1. /\ step' \notin {"encode", "load", "profile"} /\ step' # "convert"
        /\ step' \notin Inside /\ step' \notin {"convert layer", "convert term"}
        /\ step' # "convert term"
    BY <1>3 DEF Inside
  <2>2. at'.layer - 1 = l + 1 /\ \A m \in 1..(at'.file - 1) : FALSE
    BY <1>9
  <2> QED
    BY <1>3, <1>5, <1>6, <1>8, <1>9, <2>1, <2>2 DEF WritingInv
<1> QED
  BY <1>10, <1>11, <1>12, WritingKept DEF FilesInv

\* A file that was written can be read.
LEMMA WholeIsReadable ==
    ASSUME NEW f, NEW c, WholeFile(f, c)
    PROVE  Readable(f, c)
<1>1. /\ SameHeader(f, c) /\ HeaderFits(c) /\ IsSeq(f.layers) /\ Len(f.layers) = Len(c.layers)
      /\ \A k \in 1..Len(f.layers) :
            /\ LayerUpTo(c.layers[k], Len(c.layers[k].quads))
            /\ f.layers[k] = FileLayer(c.layers[k], Len(c.layers[k].quads))
  BY DEF WholeFile, HasLayers
<1>2. ASSUME NEW layer, LayerUpTo(layer, Len(layer.quads))
      PROVE  ReadableLayer(FileLayer(layer, Len(layer.quads)))
  <2>1. /\ Len(layer.quads) \in Nat
        /\ \A q \in 1..Len(layer.quads) : Fits(layer.quads[q], Before(layer.quads, q))
    BY <1>2 DEF LayerUpTo, IsSeq
  <2> DEFINE s == FileQuads(layer.quads, Len(layer.quads))
  <2>2. /\ IsSeq(s) /\ Len(s) = Len(layer.quads)
        /\ \A q \in 1..Len(layer.quads) : s[q] \in SizeQuads
    <3>1. s = [q \in 1..Len(layer.quads) |-> s[q]]
      BY DEF FileQuads
    <3>2. \A q \in 1..Len(layer.quads) : s[q] \in SizeQuads
      BY <2>1 DEF FileQuads, Fits
    <3> HIDE DEF s
    <3> QED
      BY <2>1, <3>1, <3>2, FunctionIsSeq
  <2>3. FileLayer(layer, Len(layer.quads))
          = [logw |-> layer.logw, wires |-> layer.wires, quads |-> s]
    BY DEF FileLayer
  <2> HIDE DEF s
  <2> QED
    BY <2>2, <2>3 DEF ReadableLayer
<1>3. \A k \in 1..Len(f.layers) : ReadableLayer(f.layers[k])
  BY <1>1, <1>2
<1> QED
  BY <1>1, <1>3 DEF Readable

\* encode_id ends the file.
LEMMA EncodeIdKeeps == FilesInv /\ encode_id /\ UNCHANGED total_terms => FilesInv'
<1> SUFFICES ASSUME FilesInv, encode_id, UNCHANGED total_terms PROVE FilesInv'
  OBVIOUS
<1>1. step = "encode layer" /\ step \in Writing /\ step \in Between /\ step \notin LoadSteps
  BY DEF encode_id, Writing, Between, LoadSteps
<1>2. /\ job.call = "encode" /\ job.circuit \in Written /\ ~altered /\ circuits = <<>>
      /\ at \in Places /\ at.file = 1 /\ total_terms \in Nat /\ CallInv /\ IsSeq(legacy)
      /\ IsSeq(circuits)
  BY <1>1 DEF FilesInv, CallInv
<1>3. /\ UNCHANGED <<overflow_checks, job, legacy, prev_quad, altered, circuits, total_terms>>
      /\ at' = Start /\ step' = "decode" /\ at.layer > Len(job.circuit.layers)
  BY DEF encode_id
<1> DEFINE c == job.circuit
<1>5. c \in Written /\ Intended(job, 1) = c /\ Intended(job', 1) = c /\ c = job.circuit
  BY <1>2, <1>3 DEF Intended
<1> HIDE DEF c
<1>6. /\ Len(legacy) = 1 /\ HasLayers(legacy[1], c, at.layer - 1)
      /\ Len(legacy[1].layers) = at.layer - 1
  BY <1>1, <1>2, <1>5 DEF FilesInv, WritingInv
<1>7. WholeFile(legacy[1], c)
  <2>1. Len(c.layers) \in Nat /\ at.layer - 1 <= Len(c.layers) /\ at.layer > Len(c.layers)
    BY <1>3, <1>5, <1>6 DEF HasLayers, HeaderFits, IsSeq
  <2>2. at.layer - 1 = Len(c.layers)
    BY <1>2, <2>1, PlacesAre
  <2> QED
    BY <1>6, <2>2 DEF WholeFile
<1>8. Readable(legacy[1], c)
  BY <1>7, WholeIsReadable
<1>9. at' \in Places /\ at'.file = 1 /\ at'.layer = 1 /\ at'.quad = 1
  BY <1>3, PlacesAre
<1>10. step' \in EncodeSteps /\ step' \in Reading /\ step' \notin Writing
  BY <1>3 DEF EncodeSteps, Reading, Writing, Between, Inside
<1>11. CallInv'
  BY <1>2, <1>3, <1>9, <1>10, CallKept
<1>12. ReadingInv'
  <2>1. /\ step' \notin {"decode layer", "decode quad"} /\ step' # "decode layer"
        /\ step' # "decode quad" /\ step' \notin {"decoded", "loaded"}
    BY <1>3
  <2>2. /\ Len(legacy') = 1 /\ job'.call = "encode" /\ Len(circuits') = 0
        /\ \A n \in 1..1 : Readable(legacy'[n], Intended(job', n))
                           /\ WholeFile(legacy'[n], Intended(job', n))
        /\ \A n \in 1..(at'.file - 1) : FALSE
        /\ Len(circuits') = at'.file - 1 /\ at'.file <= Len(legacy')
    BY <1>2, <1>3, <1>5, <1>6, <1>7, <1>8, <1>9, ShortSeqs
  <2> QED
    BY <1>9, <2>1, <2>2 DEF ReadingInv, FilesReadable
<1>13. VerdictInv'
  <2>1. ~Inexpressible(job'.circuit) /\ step' # "encode error"
    BY <1>3, <1>5, <1>7, WholeExpressible
  <2> QED
    BY <2>1 DEF VerdictInv
<1> QED
  BY <1>10, <1>11, <1>12, <1>13, ReadingKept DEF FilesInv

\* A number of a quad of the file is another.
AltersQuad(t, s, k, q, number, n) == t = [s EXCEPT ![1].layers[k].quads[q][number] = n]

\* A file of which one number was altered can still be read.
LEMMA AlteredIsReadable ==
    ASSUME NEW s, IsSeq(s), Len(s) = 1, NEW c, Readable(s[1], c), NEW t,
           NEW k \in DOMAIN s[1].layers, NEW q \in DOMAIN s[1].layers[k].quads,
           NEW number \in DOMAIN DefaultQuad, NEW n \in Sizes,
           AltersQuad(t, s, k, q, number, n)
    PROVE  IsSeq(t) /\ Len(t) = 1 /\ Readable(t[1], c)
<1> DEFINE quad == [s[1].layers[k].quads[q] EXCEPT ![number] = n]
           quads == [s[1].layers[k].quads EXCEPT ![q] = quad]
           layer == [s[1].layers[k] EXCEPT !.quads = quads]
           layers == [s[1].layers EXCEPT ![k] = layer]
           file == [s[1] EXCEPT !.layers = layers]
<1>1. t = [s EXCEPT ![1] = file]
  BY DEF AltersQuad
<1>2. /\ SameHeader(s[1], c) /\ HeaderFits(c) /\ IsSeq(s[1].layers)
      /\ Len(s[1].layers) = Len(c.layers)
      /\ \A l \in 1..Len(s[1].layers) : ReadableLayer(s[1].layers[l])
  BY DEF Readable
<1>3. PICK m \in Nat : m = Len(s[1].layers) /\ DOMAIN s[1].layers = 1..m
  BY <1>2, FunctionIsSeq DEF IsSeq
<1>4. /\ s[1].layers[k] = [logw |-> s[1].layers[k].logw, wires |-> s[1].layers[k].wires,
                          quads |-> s[1].layers[k].quads]
      /\ IsSeq(s[1].layers[k].quads)
      /\ \A i \in 1..Len(s[1].layers[k].quads) : s[1].layers[k].quads[i] \in SizeQuads
  BY <1>2, <1>3 DEF ReadableLayer
<1>5. PICK j \in Nat : j = Len(s[1].layers[k].quads) /\ DOMAIN s[1].layers[k].quads = 1..j
  BY <1>4, FunctionIsSeq DEF IsSeq
<1>6. quad \in SizeQuads
  <2>1. s[1].layers[k].quads[q] \in SizeQuads
    BY <1>4, <1>5
  <2>2. number \in {"gate", "left", "right", "const"}
    BY DEF DefaultQuad
  <2> QED
    BY <2>1, <2>2 DEF SizeQuads
<1> HIDE DEF quad
<1>7. IsSeq(quads) /\ \A i \in 1..Len(quads) : quads[i] \in SizeQuads
  <2>1. quads = [i \in 1..j |-> IF i = q THEN quad ELSE s[1].layers[k].quads[i]]
    BY <1>5
  <2>2. quads = [i \in 1..j |-> quads[i]] /\ \A i \in 1..j : quads[i] \in SizeQuads
    BY <1>4, <1>5, <1>6, <2>1
  <2> HIDE DEF quads
  <2> QED
    BY <2>2, FunctionIsSeq
<1> HIDE DEF quads
<1>8. ReadableLayer(layer)
  <2>1. layer = [logw |-> s[1].layers[k].logw, wires |-> s[1].layers[k].wires, quads |-> quads]
    BY <1>4
  <2> HIDE DEF layer
  <2> QED
    BY <1>7, <2>1 DEF ReadableLayer
<1> HIDE DEF layer
<1>9. IsSeq(layers) /\ Len(layers) = m /\ \A l \in 1..m : ReadableLayer(layers[l])
  <2>1. layers = [l \in 1..m |-> IF l = k THEN layer ELSE s[1].layers[l]]
    BY <1>3
  <2>2. layers = [l \in 1..m |-> layers[l]] /\ \A l \in 1..m : ReadableLayer(layers[l])
    BY <1>2, <1>3, <1>8, <2>1
  <2> HIDE DEF layers
  <2> QED
    BY <2>2, FunctionIsSeq
<1> HIDE DEF layers
<1>10. SameHeader(file, c) /\ file.layers = layers
  BY <1>2 DEF SameHeader, CircuitFields, IsCircuit
<1> HIDE DEF file
<1>11. IsSeq(t) /\ Len(t) = 1 /\ t[1] = file
  <2>1. DOMAIN s = 1..1
    BY FunctionIsSeq DEF IsSeq
  <2>2. t = [l \in 1..1 |-> IF l = 1 THEN file ELSE s[l]]
    BY <1>1, <2>1
  <2>3. t = [l \in 1..1 |-> t[l]] /\ t[1] = file
    BY <2>2
  <2> QED
    BY <2>3, FunctionIsSeq
<1> QED
  BY <1>2, <1>3, <1>9, <1>10, <1>11 DEF Readable

\* alter leaves a file that can be read.
LEMMA AlterKeeps == FilesInv /\ alter /\ UNCHANGED total_terms => FilesInv'
<1> SUFFICES ASSUME FilesInv, alter, UNCHANGED total_terms PROVE FilesInv'
  OBVIOUS
<1>1. step = "decode" /\ step \in Reading /\ step \in EncodeSteps /\ step \notin Writing
  BY DEF alter, Reading, EncodeSteps, Writing, Between, Inside
<1>2. /\ job.call = "encode" /\ job.circuit \in Written /\ circuits = <<>>
      /\ at \in Places /\ total_terms \in Nat /\ CallInv /\ IsSeq(legacy) /\ IsSeq(circuits)
  BY <1>1 DEF alter, FilesInv, CallInv
<1>3. /\ UNCHANGED <<step, overflow_checks, job, at, prev_quad, circuits, total_terms>>
      /\ altered' = TRUE
  BY DEF alter
<1> DEFINE c == job.circuit
<1>4. Intended(job, 1) = c /\ Intended(job', 1) = c /\ c = job.circuit
  BY <1>2, <1>3 DEF Intended
<1> HIDE DEF c
<1>5. /\ Len(legacy) = 1 /\ Readable(legacy[1], c)
      /\ Len(circuits) = at.file - 1 /\ at.file <= Len(legacy) /\ at.layer = 1 /\ at.quad = 1
  BY <1>1, <1>2, <1>4 DEF FilesInv, ReadingInv, FilesReadable
<1>6. at.file = 1
  BY <1>2, <1>5, PlacesAre
<1>7. PICK k \in DOMAIN legacy[1].layers, number \in DOMAIN DefaultQuad, n \in Alterations :
         /\ legacy[1].layers[k].quads # <<>>
         /\ \E q \in DOMAIN legacy[1].layers[k].quads :
              /\ legacy[1].layers[k].quads[q][number] # n
              /\ legacy' = [legacy EXCEPT ![1].layers[k].quads[q][number] = n]
  BY Zenon DEF alter
<1>12. PICK q \in DOMAIN legacy[1].layers[k].quads : AltersQuad(legacy', legacy, k, q, number, n)
  BY <1>7, Zenon DEF AltersQuad
<1>8. IsSeq(legacy') /\ Len(legacy') = 1 /\ Readable(legacy'[1], c)
  <2>2. n \in Sizes
    BY <1>7, Limits
  <2> QED
    BY <1>2, <1>5, <1>7, <1>12, <2>2, AlteredIsReadable
<1>9. CallInv'
  BY <1>1, <1>2, <1>3, <1>6, <1>8, CallKept
<1>10. ReadingInv'
  <2>1. /\ step' \notin {"decode layer", "decode quad"} /\ step' # "decode layer"
        /\ step' # "decode quad" /\ step' \notin {"decoded", "loaded"} /\ step' = "decode"
    BY <1>1, <1>3
  <2>2. /\ job'.call = "encode"
        /\ \A i \in 1..1 : Readable(legacy'[i], Intended(job', i))
        /\ \A i \in 1..(at'.file - 1) : FALSE
        /\ Len(circuits') = at'.file - 1 /\ at'.file <= Len(legacy') /\ at'.layer = 1
        /\ at'.quad = 1
    BY <1>2, <1>3, <1>4, <1>5, <1>6, <1>8
  <2> QED
    BY <1>3, <1>8, <2>1, <2>2 DEF ReadingInv, FilesReadable
<1>11. VerdictInv'
  <2>1. ~Inexpressible(job'.circuit) /\ step' # "encode error"
    BY <1>1, <1>2, <1>3 DEF FilesInv, VerdictInv
  <2> QED
    BY <2>1 DEF VerdictInv
<1> QED
  BY <1>1, <1>3, <1>9, <1>10, <1>11, ReadingKept DEF FilesInv

\* What a reader does to a circuit.  A layer of which a quad more is read.
LEMMA LayerReadGrows ==
    ASSUME NEW checks, NEW layer, NEW of, NEW m \in Nat, LayerRead(checks, layer, of, m),
           m + 1 <= Len(of.quads), NEW y \in WordQuads,
           y = Wrapped(Decoded(of.quads[m + 1], Before(layer.quads, m + 1))),
           IfChecked(checks, y, Decoded(of.quads[m + 1], Before(layer.quads, m + 1)))
    PROVE  LayerRead(checks, QuadMore(layer, y), of, m + 1)
<1> DEFINE s == layer.quads
           t == Append(s, y)
<1>1. /\ layer = [logw |-> of.logw, wires |-> of.wires, quads |-> s]
      /\ IsSeq(s) /\ Len(s) = m
      /\ \A q \in 1..m : s[q] \in WordQuads /\ QuadRead(checks, s, of.quads, q)
  BY DEF LayerRead
<1>2. IsSeq(t) /\ Len(t) = m + 1 /\ t[m + 1] = y /\ \A q \in 1..m : t[q] = s[q]
  <2> HIDE DEF s
  <2> QED
    BY <1>1, AppendIs
<1>3. QuadMore(layer, y) = [logw |-> of.logw, wires |-> of.wires, quads |-> t]
  <2>1. QuadMore(layer, y) = [layer EXCEPT !.quads = t]
    BY DEF QuadMore
  <2> HIDE DEF s, t
  <2> QED
    BY <1>1, <2>1
<1>4. y = Wrapped(Decoded(of.quads[m + 1], Before(s, m + 1)))
  OBVIOUS
<1>5. checks => y = Decoded(of.quads[m + 1], Before(s, m + 1))
  BY DEF IfChecked
<1> HIDE DEF s, t
<1>6. ASSUME NEW q \in 1..(m + 1) PROVE t[q] \in WordQuads /\ QuadRead(checks, t, of.quads, q)
  <2>1. Before(t, q) = Before(s, q)
    <3>1. q # 1 => q - 1 \in 1..m
      OBVIOUS
    <3> QED
      BY <1>2, <3>1 DEF Before
  <2>2. CASE q = m + 1
    BY <1>2, <1>4, <1>5, <2>1, <2>2 DEF QuadRead
  <2>3. CASE q # m + 1
    <3>1. q \in 1..m
      BY <2>3
    <3> QED
      BY <1>1, <1>2, <2>1, <3>1 DEF QuadRead
  <2> QED
    BY <2>2, <2>3
<1>7. PICK layer2 : layer2 = QuadMore(layer, y)
  OBVIOUS
<1>8. LayerRead(checks, layer2, of, m + 1)
  BY <1>2, <1>3, <1>6, <1>7 DEF LayerRead
<1> QED
  BY <1>7, <1>8

\* A quad is read behind the first m of layer k of file f, of which g is what was written.
ReadsQuad(t, s, f, g, checks, n, m, k, j, y) ==
    /\ IsSeq(s) /\ f \in 1..Len(s) /\ n \in Nat /\ m \in Nat /\ k = n + 1 /\ j = m + 1
    /\ QuadsRead(checks, s[f], g, n, m) /\ DOMAIN g = CircuitFields
    /\ j <= Len(g.layers[k].quads) /\ y \in WordQuads
    /\ y = Wrapped(Decoded(g.layers[k].quads[j], Before(s[f].layers[k].quads, j)))
    /\ IfChecked(checks, y, Decoded(g.layers[k].quads[j], Before(s[f].layers[k].quads, j)))
    /\ AddsQuad(t, s, f, k, y)

\* It leaves the other circuits and is the next of its own.
LEMMA ReadsOneQuad ==
    ASSUME NEW t, NEW s, NEW f, NEW g, NEW checks, NEW n, NEW m, NEW k, NEW j, NEW y,
           ReadsQuad(t, s, f, g, checks, n, m, k, j, y)
    PROVE  /\ IsSeq(t) /\ Len(t) = Len(s) /\ \A i \in 1..Len(s) : i # f => t[i] = s[i]
           /\ QuadsRead(checks, t[f], g, n, j)
           /\ Before(t[f].layers[k].quads, j + 1) = y
<1>1. /\ IsSeq(s) /\ f \in 1..Len(s) /\ n \in Nat /\ m \in Nat /\ k = n + 1 /\ j = m + 1
      /\ y \in WordQuads /\ AddsQuad(t, s, f, k, y)
  BY DEF ReadsQuad
<1>2. /\ LayersRead(checks, s[f], g, n) /\ n < Len(g.layers) /\ Len(s[f].layers) = n + 1
      /\ LayerRead(checks, s[f].layers[k], g.layers[k], m)
      /\ DOMAIN s[f] = CircuitFields /\ IsSeq(s[f].layers)
  BY <1>1 DEF ReadsQuad, QuadsRead, LayersRead, SameHeader
<1>3. DOMAIN s[f].layers[k] = {"logw", "wires", "quads"}
  BY <1>2 DEF LayerRead
<1>4. LayerRead(checks, QuadMore(s[f].layers[k], y), g.layers[k], m + 1)
  <2>1. PICK layer, of : layer = s[f].layers[k] /\ of = g.layers[k]
    OBVIOUS
  <2>2. /\ m + 1 <= Len(of.quads)
        /\ y = Wrapped(Decoded(of.quads[m + 1], Before(layer.quads, m + 1)))
        /\ IfChecked(checks, y, Decoded(of.quads[m + 1], Before(layer.quads, m + 1)))
    BY <1>1, <2>1 DEF ReadsQuad
  <2>3. LayerRead(checks, layer, of, m)
    BY <1>2, <2>1
  <2>4. LayerRead(checks, QuadMore(layer, y), of, m + 1)
    BY ONLY <1>1, <2>2, <2>3, LayerReadGrows
  <2> QED
    BY <2>1, <2>4
<1>5. k \in 1..Len(s[f].layers)
  BY <1>1, <1>2
<1>6. /\ IsSeq(t) /\ Len(t) = Len(s) /\ \A i \in 1..Len(s) : i # f => t[i] = s[i]
      /\ DOMAIN t[f] = CircuitFields /\ IsCircuit(t[f])
      /\ \A i \in CircuitFields \ {"layers"} : t[f][i] = s[f][i]
      /\ IsSeq(t[f].layers) /\ Len(t[f].layers) = Len(s[f].layers)
      /\ \A i \in 1..Len(s[f].layers) : i # k => t[f].layers[i] = s[f].layers[i]
      /\ t[f].layers[k] = QuadMore(s[f].layers[k], y)
  <2>1. DOMAIN s[f] = CircuitFields /\ IsSeq(s[f].layers)
    BY <1>2
  <2>2. IsSeq(s) /\ f \in 1..Len(s) /\ AddsQuad(t, s, f, k, y)
    BY <1>1
  <2> QED
    BY ONLY <1>3, <1>5, <2>1, <2>2, QuadAdded
<1>7. LayerRead(checks, t[f].layers[n + 1], g.layers[n + 1], m + 1)
  BY <1>1, <1>4, <1>6
<1>8. \A i \in 1..n : t[f].layers[i] = s[f].layers[i]
  <2>1. \A i \in 1..n : i \in 1..Len(s[f].layers) /\ i # k
    BY <1>1, <1>2
  <2> QED
    BY <1>6, <2>1
<1>9. SameHeader(t[f], g)
  BY <1>2, <1>6 DEF LayersRead, SameHeader
<1>10. LayersRead(checks, t[f], g, n)
  BY <1>2, <1>6, <1>8, <1>9 DEF LayersRead
<1>11. QuadsRead(checks, t[f], g, n, j)
  BY <1>1, <1>2, <1>6, <1>7, <1>10 DEF QuadsRead
<1>12. Before(t[f].layers[k].quads, j + 1) = y
  <2>1. PICK old : old = s[f].layers[k].quads
    OBVIOUS
  <2>2. IsSeq(old) /\ Len(old) = m
    BY <1>2, <2>1 DEF LayerRead
  <2>3. Append(old, y)[m + 1] = y
    BY <2>2, AppendIs
  <2>4. t[f].layers[k].quads = Append(old, y)
    <3>1. PICK layer : layer = s[f].layers[k]
      OBVIOUS
    <3>2. DOMAIN layer = {"logw", "wires", "quads"}
      BY <1>3, <3>1
    <3>3. QuadMore(layer, y).quads = Append(layer.quads, y)
      BY <3>2 DEF QuadMore
    <3> QED
      BY <1>6, <2>1, <3>1, <3>3
  <2>5. j + 1 # 1 /\ (j + 1) - 1 = m + 1
    BY <1>1
  <2> QED
    BY <2>3, <2>4, <2>5 DEF Before
<1> QED
  BY <1>6, <1>11, <1>12

\* What is known while a file is read.
LEMMA ReadingFacts ==
    ASSUME FilesInv, step \in {"decode", "decode layer", "decode quad"}
    PROVE  /\ CallInv /\ at \in Places /\ IsSeq(legacy) /\ IsSeq(circuits) /\ total_terms \in Nat
           /\ job.call = "encode" \/ (job.call = "load" /\ ~altered)
           /\ step \in Reading /\ FilesReadable /\ at.file \in 1..Len(legacy)
           /\ at.file <= Len(legacy)
           /\ \A n \in 1..(at.file - 1) : WholeRead(overflow_checks, circuits[n], legacy[n])
           /\ Readable(legacy[at.file], Intended(job, at.file))
           /\ ~altered => WholeFile(legacy[at.file], Intended(job, at.file))
           /\ DOMAIN legacy[at.file] = CircuitFields /\ IsSeq(legacy[at.file].layers)
           /\ legacy[at.file].num_layers = Len(legacy[at.file].layers)
           /\ \A k \in 1..Len(legacy[at.file].layers) : ReadableLayer(legacy[at.file].layers[k])
<1>1. /\ CallInv /\ at \in Places /\ IsSeq(legacy) /\ IsSeq(circuits) /\ total_terms \in Nat
      /\ job.call = "encode" \/ (job.call = "load" /\ ~altered)
  <2>1. CallInv
    BY DEF FilesInv
  <2>2. /\ at \in Places /\ IsSeq(legacy) /\ IsSeq(circuits) /\ total_terms \in Nat
    BY <2>1 DEF CallInv
  <2>3. job.call = "encode" \/ (job.call = "load" /\ ~altered)
    BY <2>1 DEF CallInv
  <2> QED
    BY <2>1, <2>2, <2>3
<1>2. step \in Reading
  BY DEF Reading
<1>3. /\ FilesReadable /\ at.file <= Len(legacy)
      /\ \A n \in 1..(at.file - 1) : WholeRead(overflow_checks, circuits[n], legacy[n])
  BY <1>2 DEF FilesInv, ReadingInv
<1>4. at.file \in 1..Len(legacy)
  <2>1. at.file \in Nat \ {0}
    BY <1>1, PlacesAre
  <2>2. at.file \in Nat /\ Len(legacy) \in Nat /\ at.file # 0
    BY <1>1, <2>1 DEF IsSeq
  <2>3. PICK a \in Nat, m \in Nat : a = at.file /\ m = Len(legacy)
    BY ONLY <2>2
  <2>4. a # 0 /\ a <= m
    BY ONLY <1>3, <2>2, <2>3
  <2>5. a \in 1..m
    BY ONLY <2>4, a \in Nat, m \in Nat
  <2> QED
    BY ONLY <2>3, <2>5
<1>5. PICK f, g : f = at.file /\ g = legacy[f]
  OBVIOUS
<1>6. Readable(g, Intended(job, f)) /\ (~altered => WholeFile(g, Intended(job, f)))
  BY <1>3, <1>4, <1>5 DEF FilesReadable
<1>7. /\ DOMAIN g = CircuitFields /\ IsSeq(g.layers) /\ g.num_layers = Len(g.layers)
      /\ \A k \in 1..Len(g.layers) : ReadableLayer(g.layers[k])
  <2>1. PICK c : c = Intended(job, f)
    OBVIOUS
  <2>2. /\ SameHeader(g, c) /\ HeaderFits(c) /\ IsSeq(g.layers) /\ Len(g.layers) = Len(c.layers)
        /\ \A k \in 1..Len(g.layers) : ReadableLayer(g.layers[k])
    BY <1>6, <2>1 DEF Readable
  <2>3. g.num_layers = c.num_layers /\ c.num_layers = Len(c.layers)
    BY <2>2 DEF SameHeader, HeaderFits, CircuitFields
  <2> QED
    BY <2>2, <2>3 DEF SameHeader
<1> QED
  BY <1>1, <1>2, <1>3, <1>4, <1>5, <1>6, <1>7

\* What a step within a file must see to.
LEMMA ReadingOn ==
    ASSUME FilesInv, step \in {"decode", "decode layer", "decode quad"},
           UNCHANGED <<overflow_checks, job, legacy, altered, total_terms>>,
           step' \in {"decode layer", "decode quad"},
           at' \in Places, at'.file = at.file, IsSeq(circuits'), Len(circuits') = at.file,
           \A n \in 1..(at.file - 1) : circuits'[n] = circuits[n],
           step' = "decode layer" =>
              /\ at'.quad = 1
              /\ LayersRead(overflow_checks, circuits'[at.file], legacy[at.file], at'.layer - 1)
              /\ Len(circuits'[at.file].layers) = at'.layer - 1,
           step' = "decode quad" =>
              /\ QuadsRead(overflow_checks, circuits'[at.file], legacy[at.file],
                           at'.layer - 1, at'.quad - 1)
              /\ prev_quad' = Before(circuits'[at.file].layers[at'.layer].quads, at'.quad)
    PROVE  FilesInv'
<1>1. /\ CallInv /\ IsSeq(legacy) /\ total_terms \in Nat
      /\ job.call = "encode" \/ (job.call = "load" /\ ~altered)
      /\ step \in Reading /\ FilesReadable /\ at.file \in 1..Len(legacy)
      /\ at.file <= Len(legacy)
      /\ \A n \in 1..(at.file - 1) : WholeRead(overflow_checks, circuits[n], legacy[n])
  BY ReadingFacts
<1>2. /\ step' \in EncodeSteps /\ step' \in LoadSteps /\ step' \in Reading /\ step' \notin Writing
      /\ step' \notin {"encode", "encode layer", "encode quad"} /\ step' # "panic"
      /\ step' # "decode" /\ step' \notin {"decoded", "loaded"} /\ step' # "encode error"
  BY DEF EncodeSteps, LoadSteps, Reading, Writing, Between, Inside
<1>3. CallInv'
  BY <1>1, <1>2, CallKept
<1>4. FilesReadable'
  BY <1>1 DEF FilesReadable
<1>5. ReadingInv'
  <2>1. \A n \in 1..(at'.file - 1) : WholeRead(overflow_checks', circuits'[n], legacy'[n])
    <3>1. ASSUME NEW n \in 1..(at.file - 1)
          PROVE  WholeRead(overflow_checks', circuits'[n], legacy'[n])
      <4>1. /\ circuits'[n] = circuits[n] /\ legacy'[n] = legacy[n]
            /\ overflow_checks' = overflow_checks
        OBVIOUS
      <4>2. WholeRead(overflow_checks, circuits[n], legacy[n])
        BY <1>1
      <4> QED
        BY <4>1, <4>2
    <3>2. at'.file - 1 = at.file - 1
      OBVIOUS
    <3> QED
      BY <3>1, <3>2
  <2>2. Len(circuits') = at'.file /\ at'.file <= Len(legacy')
    BY <1>1
  <2> QED
    BY <1>2, <1>4, <2>1, <2>2 DEF ReadingInv
<1>6. VerdictInv'
  BY <1>1, <1>2 DEF FilesInv, VerdictInv
<1> QED
  BY <1>2, <1>3, <1>5, <1>6, ReadingKept DEF FilesInv

\* And one that ends the call.
LEMMA ReadingEnds ==
    ASSUME FilesInv, step \in {"decode", "decode layer", "decode quad"},
           UNCHANGED <<overflow_checks, job, legacy, altered, total_terms, at, circuits>>,
           \/ step' = "decode error"
           \/ step' = "panic" /\ altered /\ overflow_checks
    PROVE  FilesInv'
<1>1. /\ CallInv /\ at \in Places /\ IsSeq(legacy) /\ IsSeq(circuits) /\ total_terms \in Nat
      /\ job.call = "encode" \/ (job.call = "load" /\ ~altered)
      /\ step \in Reading
  BY ReadingFacts
<1>2. /\ step' \in EncodeSteps /\ step' \notin Writing
      /\ step' \notin {"encode", "encode layer", "encode quad"} /\ step' # "encode error"
      /\ step' = "decode error" => step' \in LoadSteps
  BY DEF EncodeSteps, LoadSteps, Writing, Between, Inside
<1>3. CallInv'
  BY <1>1, <1>2, CallKept
<1>4. VerdictInv'
  BY <1>1, <1>2 DEF FilesInv, VerdictInv
<1> QED
  BY <1>3, <1>4, EndKept DEF FilesInv

\* decode_header starts a circuit.
LEMMA DecodeHeaderKeeps == FilesInv /\ decode_header /\ UNCHANGED total_terms => FilesInv'
<1> SUFFICES ASSUME FilesInv, decode_header, UNCHANGED total_terms PROVE FilesInv'
  OBVIOUS
<1>1. step = "decode" /\ step \in {"decode", "decode layer", "decode quad"}
  BY DEF decode_header
<1>2. UNCHANGED <<overflow_checks, job, legacy, at, prev_quad, altered, total_terms>>
  BY DEF decode_header
<1>3. /\ at \in Places /\ IsSeq(circuits) /\ at.file \in 1..Len(legacy)
      /\ DOMAIN legacy[at.file] = CircuitFields /\ IsSeq(legacy[at.file].layers)
  BY <1>1, ReadingFacts
<1>4. Len(circuits) = at.file - 1 /\ at.layer = 1 /\ at.quad = 1
  BY <1>1 DEF FilesInv, ReadingInv
<1>5. CASE legacy[at.file].field = Expected
  <2> DEFINE h == [legacy[at.file] EXCEPT !.layers = <<>>]
  <2>1. circuits' = Append(circuits, h) /\ step' = "decode layer"
    BY <1>5 DEF decode_header
  <2>2. LayersRead(overflow_checks, h, legacy[at.file], 0) /\ Len(h.layers) = 0
    <3>1. SameHeader(h, legacy[at.file]) /\ h.layers = <<>>
      BY <1>3 DEF SameHeader, CircuitFields, IsCircuit
    <3>2. 0 <= Len(legacy[at.file].layers)
      BY <1>3 DEF IsSeq
    <3> HIDE DEF h
    <3> QED
      BY <3>1, <3>2, ShortSeqs DEF LayersRead
  <2> HIDE DEF h
  <2>3. PICK f \in Nat : f = at.file /\ Len(circuits) = f - 1
    BY <1>3, <1>4, PlacesAre
  <2>4. /\ IsSeq(circuits') /\ Len(circuits') = f /\ circuits'[f] = h
        /\ \A n \in 1..(f - 1) : circuits'[n] = circuits[n]
    <3>1. /\ IsSeq(circuits') /\ Len(circuits') = Len(circuits) + 1
          /\ circuits'[Len(circuits) + 1] = h
          /\ \A n \in 1..Len(circuits) : circuits'[n] = circuits[n]
      BY <1>3, <2>1, AppendIs
    <3>2. Len(circuits) + 1 = f
      BY <2>3
    <3> QED
      BY <2>3, <3>1, <3>2
  <2>5. at'.layer - 1 = 0 /\ at'.quad = 1 /\ at' \in Places /\ at'.file = at.file
    BY <1>2, <1>3, <1>4
  <2> QED
    BY <1>1, <1>2, <2>1, <2>2, <2>3, <2>4, <2>5, ReadingOn
<1>6. CASE legacy[at.file].field # Expected
  BY <1>1, <1>2, <1>6, ReadingEnds DEF decode_header
<1> QED
  BY <1>5, <1>6

\* A layer more is read of the file of which the first n are.
OpensLayer(t, s, f, g, checks, n, y) ==
    /\ IsSeq(s) /\ f \in 1..Len(s) /\ n \in Nat
    /\ LayersRead(checks, s[f], g, n) /\ Len(s[f].layers) = n
    /\ n + 1 <= Len(g.layers) /\ IsSeq(g.layers) /\ ReadableLayer(g.layers[n + 1])
    /\ y = [g.layers[n + 1] EXCEPT !.quads = <<>>]
    /\ AddsLayer(t, s, f, y)

\* The other circuits are left, and there is no quad in it yet.
LEMMA OpensOneLayer ==
    ASSUME NEW t, NEW s, NEW f, NEW g, NEW checks, NEW n, NEW y,
           OpensLayer(t, s, f, g, checks, n, y)
    PROVE  /\ IsSeq(t) /\ Len(t) = Len(s) /\ \A i \in 1..Len(s) : i # f => t[i] = s[i]
           /\ QuadsRead(checks, t[f], g, n, 0)
<1>1. /\ IsSeq(s) /\ f \in 1..Len(s) /\ n \in Nat
      /\ LayersRead(checks, s[f], g, n) /\ Len(s[f].layers) = n
      /\ n + 1 <= Len(g.layers) /\ IsSeq(g.layers) /\ ReadableLayer(g.layers[n + 1])
      /\ y = [g.layers[n + 1] EXCEPT !.quads = <<>>]
      /\ AddsLayer(t, s, f, y)
  BY DEF OpensLayer
<1>2. DOMAIN s[f] = CircuitFields /\ IsSeq(s[f].layers)
  BY <1>1 DEF LayersRead, SameHeader
<1>3. /\ IsSeq(t) /\ Len(t) = Len(s) /\ \A i \in 1..Len(s) : i # f => t[i] = s[i]
      /\ DOMAIN t[f] = CircuitFields /\ IsCircuit(t[f])
      /\ \A k \in CircuitFields \ {"layers"} : t[f][k] = s[f][k]
      /\ IsSeq(t[f].layers) /\ Len(t[f].layers) = n + 1
      /\ \A k \in 1..n : t[f].layers[k] = s[f].layers[k]
      /\ t[f].layers[n + 1] = y
  <2>1. /\ IsSeq(t) /\ Len(t) = Len(s) /\ \A i \in 1..Len(s) : i # f => t[i] = s[i]
        /\ DOMAIN t[f] = CircuitFields /\ IsCircuit(t[f])
        /\ \A k \in CircuitFields \ {"layers"} : t[f][k] = s[f][k]
        /\ IsSeq(t[f].layers) /\ Len(t[f].layers) = Len(s[f].layers) + 1
        /\ \A k \in 1..Len(s[f].layers) : t[f].layers[k] = s[f].layers[k]
        /\ t[f].layers[Len(s[f].layers) + 1] = y
    <3>1. IsSeq(s) /\ f \in 1..Len(s) /\ AddsLayer(t, s, f, y)
      BY <1>1
    <3> QED
      BY ONLY <1>2, <3>1, LayerAdded
  <2> QED
    BY <1>1, <2>1
<1>4. LayerRead(checks, y, g.layers[n + 1], 0)
  <2>1. PICK of : of = g.layers[n + 1]
    OBVIOUS
  <2>2. /\ of = [logw |-> of.logw, wires |-> of.wires, quads |-> of.quads] /\ IsSeq(of.quads)
        /\ y = [of EXCEPT !.quads = <<>>]
    BY <1>1, <2>1 DEF ReadableLayer
  <2>3. y = [logw |-> of.logw, wires |-> of.wires, quads |-> <<>>]
    BY <2>2
  <2>4. y.quads = <<>> /\ y = [logw |-> of.logw, wires |-> of.wires, quads |-> y.quads]
    BY <2>3
  <2>5. IsSeq(y.quads) /\ Len(y.quads) = 0 /\ 0 <= Len(of.quads)
    BY <2>2, <2>4, ShortSeqs DEF IsSeq
  <2> QED
    BY <2>1, <2>4, <2>5 DEF LayerRead
<1>5. SameHeader(t[f], g)
  BY <1>1, <1>3 DEF LayersRead, SameHeader
<1>6. LayersRead(checks, t[f], g, n)
  BY <1>1, <1>3, <1>5 DEF LayersRead
<1>7. n < Len(g.layers)
  BY <1>1 DEF IsSeq
<1> QED
  BY <1>3, <1>4, <1>6, <1>7 DEF QuadsRead

\* A layer of which all quads are read.
LEMMA LayerReadClosed ==
    ASSUME NEW checks, NEW c, NEW g, NEW n \in Nat, NEW m \in Nat, QuadsRead(checks, c, g, n, m),
           IsSeq(g.layers), IsSeq(g.layers[n + 1].quads), ~(m + 1 <= Len(g.layers[n + 1].quads))
    PROVE  LayersRead(checks, c, g, n + 1) /\ Len(c.layers) = n + 1
<1>1. /\ LayersRead(checks, c, g, n) /\ n < Len(g.layers) /\ Len(c.layers) = n + 1
      /\ LayerRead(checks, c.layers[n + 1], g.layers[n + 1], m)
  BY DEF QuadsRead
<1>2. m = Len(g.layers[n + 1].quads)
  <2>1. m <= Len(g.layers[n + 1].quads) /\ Len(g.layers[n + 1].quads) \in Nat
    BY <1>1 DEF LayerRead, IsSeq
  <2> QED
    BY <2>1
<1>3. n + 1 <= Len(g.layers)
  BY <1>1 DEF IsSeq
<1>4. ASSUME NEW k \in 1..(n + 1)
      PROVE  LayerRead(checks, c.layers[k], g.layers[k], Len(g.layers[k].quads))
  <2>1. CASE k = n + 1
    BY <1>1, <1>2, <2>1
  <2>2. CASE k # n + 1
    <3>1. k \in 1..n
      BY <2>2
    <3> QED
      BY <1>1, <3>1 DEF LayersRead
  <2> QED
    BY <2>1, <2>2
<1> QED
  BY <1>1, <1>3, <1>4 DEF LayersRead

\* Of what was written and not altered, the next quad that is read is the one written.
LEMMA NextIsReadBack ==
    ASSUME NEW checks, NEW layer, NEW of, NEW meant, NEW n \in Nat,
           LayerUpTo(meant, Len(meant.quads)), of = FileLayer(meant, Len(meant.quads)),
           LayerRead(checks, layer, of, n), n + 1 <= Len(of.quads)
    PROVE  LET quad == Decoded(of.quads[n + 1], Before(layer.quads, n + 1))
           IN  quad \in WordQuads /\ Wrapped(quad) = quad
<1> DEFINE Q == meant.quads
           D == layer.quads
<1>1. PICK m \in Nat : m = Len(Q)
  BY DEF LayerUpTo, IsSeq
<1>2. \A q \in 1..m : Fits(Q[q], Before(Q, q))
  BY <1>1 DEF LayerUpTo
<1>3. of.quads = FileQuads(Q, m)
  BY <1>1 DEF FileLayer
<1>4. \A q \in 1..n : QuadRead(checks, D, FileQuads(Q, m), q)
  BY <1>3 DEF LayerRead
<1>5. Len(of.quads) = m
  <2>1. FileQuads(Q, m) = [q \in 1..m |-> FileQuads(Q, m)[q]]
    BY DEF FileQuads
  <2> HIDE DEF Q
  <2> QED
    BY <1>3, <2>1, FunctionIsSeq
<1> HIDE DEF Q, D
<1>6. n + 1 \in 1..m /\ n <= m
  BY <1>5
<1>7. Before(D, n + 1) = Before(Q, n + 1)
  BY <1>2, <1>4, <1>6, ReadIsWritten
<1>8. Fits(Q[n + 1], Before(Q, n + 1))
  BY <1>2, <1>6
<1>9. Q[n + 1] \in WordQuads /\ Q[n + 1] \in IntQuads /\ Wrapped(Q[n + 1]) = Q[n + 1]
  BY <1>8, WordsAreInts DEF Fits
<1>10. Before(Q, n + 1) \in IntQuads
  <2>1. \A q \in 1..n : Fits(Q[q], Before(Q, q))
    <3>1. \A q \in 1..n : q \in 1..m
      BY <1>6
    <3> QED
      BY <1>2, <3>1
  <2> QED
    BY <2>1, BeforeIsWords, WordsAreInts
<1>11. of.quads[n + 1] = QuadAgainst(Q[n + 1], Before(Q, n + 1))
  BY <1>3, <1>6 DEF FileQuads
<1>12. Decoded(of.quads[n + 1], Before(D, n + 1)) = Q[n + 1]
  BY <1>7, <1>9, <1>10, <1>11, QuadDecodes
<1> QED
  BY <1>9, <1>12 DEF D

\* A place, with the number of layers and of quads before it.
LEMMA PlaceBefore ==
    ASSUME at \in Places
    PROVE  \E n \in Nat, m \in Nat :
              n = at.layer - 1 /\ at.layer = n + 1 /\ m = at.quad - 1 /\ at.quad = m + 1
<1> DEFINE n == at.layer - 1
           m == at.quad - 1
<1>1. /\ n \in Nat /\ at.layer = n + 1 /\ n = at.layer - 1
      /\ m \in Nat /\ at.quad = m + 1 /\ m = at.quad - 1
  BY PlacesAre
<1> HIDE DEF n, m
<1> QED
  BY <1>1

\* decode_layer opens a layer.
LEMMA DecodeLayerKeeps == FilesInv /\ decode_layer /\ UNCHANGED total_terms => FilesInv'
<1> SUFFICES ASSUME FilesInv, decode_layer, UNCHANGED total_terms PROVE FilesInv'
  OBVIOUS
<1>1. step = "decode layer" /\ step \in {"decode", "decode layer", "decode quad"}
  BY DEF decode_layer
<1>2. /\ UNCHANGED <<overflow_checks, job, legacy, at, altered, total_terms>>
      /\ prev_quad' = DefaultQuad /\ step' = "decode quad"
  BY DEF decode_layer
<1>3. /\ at \in Places /\ IsSeq(circuits) /\ at.file \in 1..Len(legacy) /\ IsSeq(legacy)
      /\ DOMAIN legacy[at.file] = CircuitFields /\ IsSeq(legacy[at.file].layers)
      /\ legacy[at.file].num_layers = Len(legacy[at.file].layers)
      /\ \A k \in 1..Len(legacy[at.file].layers) : ReadableLayer(legacy[at.file].layers[k])
  BY <1>1, ReadingFacts
<1>4. /\ Len(circuits) = at.file /\ at.quad = 1
      /\ LayersRead(overflow_checks, circuits[at.file], legacy[at.file], at.layer - 1)
      /\ Len(circuits[at.file].layers) = at.layer - 1
  BY <1>1 DEF FilesInv, ReadingInv
<1>5. PICK f \in Nat : f = at.file /\ f \in 1..Len(circuits)
  BY <1>3, <1>4, PlacesAre
<1>6. PICK n \in Nat : n = at.layer - 1 /\ at.layer = n + 1
  BY <1>3, PlaceBefore
<1>7. PICK g : g = legacy[f]
  OBVIOUS
<1> DEFINE y == [g.layers[n + 1] EXCEPT !.quads = <<>>]
<1>8. AddsLayer(circuits', circuits, f, y)
  BY <1>5, <1>6, <1>7 DEF decode_layer, AddsLayer
<1>9. y = [g.layers[n + 1] EXCEPT !.quads = <<>>]
  OBVIOUS
<1> HIDE DEF y
<1>10. OpensLayer(circuits', circuits, f, g, overflow_checks, n, y)
  <2>1. n + 1 <= Len(g.layers)
    BY <1>3, <1>5, <1>6, <1>7 DEF decode_layer
  <2>2. ReadableLayer(g.layers[n + 1])
    <3>1. n + 1 \in 1..Len(g.layers)
      BY <1>3, <1>5, <1>7, <2>1 DEF IsSeq
    <3> QED
      BY <1>3, <1>5, <1>7, <3>1
  <2> QED
    BY <1>3, <1>4, <1>5, <1>6, <1>7, <1>8, <1>9, <2>1, <2>2 DEF OpensLayer
<1>11. /\ IsSeq(circuits') /\ Len(circuits') = Len(circuits)
       /\ \A i \in 1..Len(circuits) : i # f => circuits'[i] = circuits[i]
       /\ QuadsRead(overflow_checks, circuits'[f], g, n, 0)
  BY <1>10, OpensOneLayer
<1>12. \A i \in 1..(at.file - 1) : circuits'[i] = circuits[i]
  <2>1. \A i \in 1..(f - 1) : i \in 1..Len(circuits) /\ i # f
    BY <1>4, <1>5
  <2> QED
    BY <1>5, <1>11, <2>1
<1>13. /\ QuadsRead(overflow_checks, circuits'[at.file], legacy[at.file],
                   at'.layer - 1, at'.quad - 1)
       /\ prev_quad' = Before(circuits'[at.file].layers[at'.layer].quads, at'.quad)
  <2>1. at'.quad = 1 /\ at'.quad - 1 = 0 /\ at'.layer - 1 = n
    <3>1. at' = at
      BY <1>2
    <3>2. at.quad = 1 /\ at.layer - 1 = n
      BY <1>4, <1>6
    <3> QED
      BY ONLY <3>1, <3>2
  <2> QED
    BY <1>2, <1>5, <1>7, <1>11, <2>1 DEF Before
<1>14. at' \in Places /\ at'.file = at.file /\ Len(circuits') = at.file
  BY <1>2, <1>3, <1>4, <1>11
<1> QED
  BY <1>1, <1>2, <1>11, <1>12, <1>13, <1>14, ReadingOn

\* decode_quad reads a quad, and panics for altered files only.
LEMMA DecodeQuadKeeps == FilesInv /\ decode_quad /\ UNCHANGED total_terms => FilesInv'
<1> SUFFICES ASSUME FilesInv, decode_quad, UNCHANGED total_terms PROVE FilesInv'
  OBVIOUS
<1>1. step = "decode quad" /\ step \in {"decode", "decode layer", "decode quad"}
  BY DEF decode_quad
<1>2. UNCHANGED <<overflow_checks, job, legacy, altered, total_terms>>
  BY DEF decode_quad
<1>3. /\ at \in Places /\ IsSeq(circuits) /\ at.file \in 1..Len(legacy)
      /\ DOMAIN legacy[at.file] = CircuitFields /\ IsSeq(legacy[at.file].layers)
      /\ ~altered => WholeFile(legacy[at.file], Intended(job, at.file))
      /\ \A k \in 1..Len(legacy[at.file].layers) : ReadableLayer(legacy[at.file].layers[k])
  BY <1>1, ReadingFacts
<1>4. /\ Len(circuits) = at.file
      /\ QuadsRead(overflow_checks, circuits[at.file], legacy[at.file], at.layer - 1, at.quad - 1)
      /\ prev_quad = Before(circuits[at.file].layers[at.layer].quads, at.quad)
  BY <1>1 DEF FilesInv, ReadingInv
<1>5. PICK f \in Nat : f = at.file /\ f \in 1..Len(circuits)
  BY <1>3, <1>4, PlacesAre
<1>6. PICK n \in Nat, m \in Nat :
         n = at.layer - 1 /\ at.layer = n + 1 /\ m = at.quad - 1 /\ at.quad = m + 1
  BY <1>3, PlaceBefore
<1>7. PICK g, k, j : g = legacy[f] /\ k = n + 1 /\ j = m + 1
  OBVIOUS
<1>8. PICK layer, of : layer = circuits[f].layers[k] /\ of = g.layers[k]
  OBVIOUS
<1>9. /\ LayerRead(overflow_checks, layer, of, m) /\ n < Len(g.layers)
      /\ j <= Len(of.quads) /\ prev_quad = Before(layer.quads, j)
      /\ QuadsRead(overflow_checks, circuits[f], g, n, m)
  <2>1. QuadsRead(overflow_checks, circuits[f], g, n, m) /\ prev_quad = Before(layer.quads, j)
    BY <1>4, <1>5, <1>6, <1>7, <1>8
  <2>2. LayerRead(overflow_checks, layer, of, m) /\ n < Len(g.layers)
    BY <1>7, <1>8, <2>1 DEF QuadsRead
  <2>3. j <= Len(of.quads)
    BY <1>5, <1>6, <1>7, <1>8 DEF decode_quad
  <2> QED
    BY <2>1, <2>2, <2>3
<1>10. of.quads[j] \in SizeQuads /\ of.quads[j] \in WordQuads /\ prev_quad \in WordQuads
  <2>1. ReadableLayer(of)
    <3>1. n + 1 \in 1..Len(g.layers)
      BY <1>3, <1>5, <1>7, <1>9 DEF IsSeq
    <3> QED
      BY <1>3, <1>5, <1>7, <1>8, <3>1
  <2>2. of.quads[j] \in SizeQuads
    <3>1. m + 1 \in 1..Len(of.quads)
      BY <1>7, <1>9, <2>1 DEF ReadableLayer, IsSeq
    <3> QED
      BY <1>7, <2>1, <3>1 DEF ReadableLayer
  <2>3. prev_quad \in WordQuads
    <3>1. CASE m = 0
      BY <1>7, <1>9, <3>1, SizesAreWords DEF Before
    <3>2. CASE m # 0
      <4>1. m \in 1..m /\ m + 1 # 1 /\ (m + 1) - 1 = m
        BY <3>2
      <4>2. layer.quads[m] \in WordQuads
        BY <1>9, <4>1 DEF LayerRead
      <4> QED
        BY <1>7, <1>9, <4>1, <4>2 DEF Before
    <3> QED
      BY <3>1, <3>2
  <2> QED
    BY <2>2, <2>3, SizesAreWords
<1> DEFINE quad == Decoded(of.quads[j], prev_quad)
           word == Wrapped(quad)
<1>11. /\ DecodedQuad(legacy[at.file].layers[at.layer].quads[at.quad]) = quad
       /\ [i \in DOMAIN quad |-> quad[i] % WordLimit] = word
       /\ word \in WordQuads
  <2>1. legacy[at.file].layers[at.layer].quads[at.quad] = of.quads[j]
    BY <1>5, <1>6, <1>7, <1>8
  <2>2. DecodedQuad(of.quads[j]) = quad
    BY DEF DecodedQuad, Decoded
  <2> QED
    BY <1>10, <2>1, <2>2, DecodedQuads
<1> HIDE DEF quad, word
<1>12. CASE overflow_checks /\ quad # word
  <2>1. /\ step' = "panic" /\ UNCHANGED <<at, prev_quad, circuits>>
    BY <1>11, <1>12 DEF decode_quad
  <2>2. altered
    <3> SUFFICES ASSUME ~altered PROVE FALSE
      OBVIOUS
    <3>1. PICK c : c = Intended(job, f)
      OBVIOUS
    <3>2. WholeFile(g, c)
      BY <1>3, <1>5, <1>7, <3>1
    <3>3. n + 1 \in 1..Len(c.layers)
      BY <1>9, <3>2 DEF WholeFile, HasLayers, IsSeq
    <3>4. PICK meant : meant = c.layers[n + 1]
      OBVIOUS
    <3>5. LayerUpTo(meant, Len(meant.quads)) /\ of = FileLayer(meant, Len(meant.quads))
      BY <1>7, <1>8, <3>2, <3>3, <3>4 DEF WholeFile, HasLayers
    <3>6. m + 1 <= Len(of.quads)
      BY <1>7, <1>9
    <3>7. Wrapped(Decoded(of.quads[m + 1], Before(layer.quads, m + 1)))
            = Decoded(of.quads[m + 1], Before(layer.quads, m + 1))
      BY <1>9, <3>5, <3>6, NextIsReadBack
    <3>8. word = quad
      BY <1>7, <1>9, <3>7 DEF word, quad
    <3> QED
      BY <1>12, <3>8
  <2> QED
    BY <1>1, <1>2, <1>12, <2>1, <2>2, ReadingEnds
<1>13. CASE ~(overflow_checks /\ quad # word)
  <2>1. /\ circuits' = [circuits EXCEPT ![at.file].layers[at.layer].quads = Append(@, word)]
        /\ prev_quad' = word /\ at' = [at EXCEPT !.quad = @ + 1] /\ step' = step
    BY <1>11, <1>13 DEF decode_quad
  <2>2. AddsQuad(circuits', circuits, f, k, word)
    BY <1>5, <1>6, <1>7, <2>1 DEF AddsQuad
  <2>3. ReadsQuad(circuits', circuits, f, g, overflow_checks, n, m, k, j, word)
    <3>1. /\ word = Wrapped(Decoded(g.layers[k].quads[j], Before(circuits[f].layers[k].quads, j)))
          /\ IfChecked(overflow_checks, word,
                       Decoded(g.layers[k].quads[j], Before(circuits[f].layers[k].quads, j)))
      <4>1. prev_quad = Before(circuits[f].layers[k].quads, j)
        BY <1>8, <1>9
      <4>2. quad = Decoded(g.layers[k].quads[j], Before(circuits[f].layers[k].quads, j))
        BY <1>8, <4>1 DEF quad
      <4>3. word = Wrapped(quad) /\ IfChecked(overflow_checks, word, quad)
        BY <1>13 DEF word, IfChecked
      <4> QED
        BY <4>2, <4>3
    <3>2. DOMAIN g = CircuitFields /\ j <= Len(g.layers[k].quads)
      BY <1>3, <1>5, <1>7, <1>8, <1>9
    <3> QED
      BY <1>3, <1>5, <1>7, <1>9, <1>11, <2>2, <3>1, <3>2 DEF ReadsQuad
  <2>4. /\ IsSeq(circuits') /\ Len(circuits') = Len(circuits)
        /\ \A i \in 1..Len(circuits) : i # f => circuits'[i] = circuits[i]
        /\ QuadsRead(overflow_checks, circuits'[f], g, n, j)
        /\ Before(circuits'[f].layers[k].quads, j + 1) = word
    BY <2>3, ReadsOneQuad
  <2>5. /\ at' \in Places /\ at'.file = at.file /\ at'.layer = at.layer
        /\ at'.quad = (m + 1) + 1
    BY <1>3, <1>6, <2>1, PlacesAre
  <2>6. \A i \in 1..(at.file - 1) : circuits'[i] = circuits[i]
    <3>1. \A i \in 1..(f - 1) : i \in 1..Len(circuits) /\ i # f
      BY <1>4, <1>5
    <3> QED
      BY <1>5, <2>4, <3>1
  <2>7. /\ QuadsRead(overflow_checks, circuits'[at.file], legacy[at.file], at'.layer - 1,
                     at'.quad - 1)
        /\ prev_quad' = Before(circuits'[at.file].layers[at'.layer].quads, at'.quad)
    <3>1. at'.quad - 1 = j /\ at'.layer - 1 = n /\ at'.layer = k /\ at'.quad = j + 1
      BY <1>6, <1>7, <2>5
    <3> QED
      BY <1>5, <1>7, <2>1, <2>4, <3>1
  <2>8. step' = "decode quad" /\ Len(circuits') = at.file
    BY <1>1, <1>4, <2>1, <2>4
  <2> QED
    BY <1>1, <1>2, <2>4, <2>5, <2>6, <2>7, <2>8, ReadingOn
<1> QED
  BY <1>12, <1>13

\* decode_layer_ends closes a layer.
LEMMA DecodeLayerEndsKeeps == FilesInv /\ decode_layer_ends /\ UNCHANGED total_terms => FilesInv'
<1> SUFFICES ASSUME FilesInv, decode_layer_ends, UNCHANGED total_terms PROVE FilesInv'
  OBVIOUS
<1>1. step = "decode quad" /\ step \in {"decode", "decode layer", "decode quad"}
  BY DEF decode_layer_ends
<1>2. /\ UNCHANGED <<overflow_checks, job, legacy, prev_quad, altered, circuits, total_terms>>
      /\ at' = NextLayer /\ step' = "decode layer"
      /\ at.quad > Len(legacy[at.file].layers[at.layer].quads)
  BY DEF decode_layer_ends
<1>3. /\ at \in Places /\ IsSeq(circuits) /\ at.file \in 1..Len(legacy)
      /\ IsSeq(legacy[at.file].layers)
      /\ \A k \in 1..Len(legacy[at.file].layers) : ReadableLayer(legacy[at.file].layers[k])
  BY <1>1, ReadingFacts
<1>4. /\ Len(circuits) = at.file
      /\ QuadsRead(overflow_checks, circuits[at.file], legacy[at.file], at.layer - 1, at.quad - 1)
  BY <1>1 DEF FilesInv, ReadingInv
<1>5. PICK n \in Nat, m \in Nat :
         n = at.layer - 1 /\ at.layer = n + 1 /\ m = at.quad - 1 /\ at.quad = m + 1
  BY <1>3, PlaceBefore
<1>6. PICK c, g : c = circuits[at.file] /\ g = legacy[at.file]
  OBVIOUS
<1>7. QuadsRead(overflow_checks, c, g, n, m) /\ IsSeq(g.layers)
  BY <1>3, <1>4, <1>5, <1>6
<1>8. IsSeq(g.layers[n + 1].quads)
  <2>1. n + 1 \in 1..Len(g.layers)
    BY <1>7 DEF QuadsRead, IsSeq
  <2> QED
    BY <1>3, <1>6, <2>1 DEF ReadableLayer
<1>9. ~(m + 1 <= Len(g.layers[n + 1].quads))
  <2>1. PICK l \in Nat : l = Len(g.layers[n + 1].quads)
    BY <1>8 DEF IsSeq
  <2>2. m + 1 > l
    BY <1>2, <1>5, <1>6, <2>1
  <2> QED
    BY <2>1, <2>2
<1>10. LayersRead(overflow_checks, c, g, n + 1) /\ Len(c.layers) = n + 1
  BY <1>7, <1>8, <1>9, LayerReadClosed
<1>11. /\ at' \in Places /\ at'.file = at.file /\ at'.quad = 1 /\ at'.layer = (n + 1) + 1
  BY <1>2, <1>3, <1>5, PlacesAre
<1>12. at'.layer - 1 = n + 1
  BY <1>11
<1>13. /\ LayersRead(overflow_checks, circuits'[at.file], legacy[at.file], at'.layer - 1)
       /\ Len(circuits'[at.file].layers) = at'.layer - 1
  BY <1>2, <1>6, <1>10, <1>12
<1>14. /\ IsSeq(circuits') /\ Len(circuits') = at.file
       /\ \A i \in 1..(at.file - 1) : circuits'[i] = circuits[i]
       /\ step' \in {"decode layer", "decode quad"} /\ step' # "decode quad"
  BY <1>2, <1>3, <1>4
<1>15. UNCHANGED <<overflow_checks, job, legacy, altered, total_terms>>
  BY <1>2
<1> QED
  BY <1>1, <1>11, <1>13, <1>14, <1>15, ReadingOn

\* decode_id ends a circuit.
LEMMA DecodeIdKeeps == FilesInv /\ decode_id /\ UNCHANGED total_terms => FilesInv'
<1> SUFFICES ASSUME FilesInv, decode_id, UNCHANGED total_terms PROVE FilesInv'
  OBVIOUS
<1>1. step = "decode layer" /\ step \in {"decode", "decode layer", "decode quad"}
  BY DEF decode_id
<1>2. /\ UNCHANGED <<overflow_checks, job, legacy, prev_quad, altered, circuits, total_terms>>
      /\ at' = [Start EXCEPT !.file = at.file + 1] /\ at.layer > legacy[at.file].num_layers
      /\ step' = IF at.file = Len(legacy) THEN "decoded" ELSE "decode"
  BY DEF decode_id
<1>3. /\ CallInv /\ at \in Places /\ IsSeq(legacy) /\ IsSeq(circuits) /\ total_terms \in Nat
      /\ job.call = "encode" \/ (job.call = "load" /\ ~altered)
      /\ step \in Reading /\ FilesReadable /\ at.file \in 1..Len(legacy)
      /\ at.file <= Len(legacy)
      /\ \A n \in 1..(at.file - 1) : WholeRead(overflow_checks, circuits[n], legacy[n])
      /\ IsSeq(legacy[at.file].layers)
      /\ legacy[at.file].num_layers = Len(legacy[at.file].layers)
  BY <1>1, ReadingFacts
<1>4. /\ Len(circuits) = at.file
      /\ LayersRead(overflow_checks, circuits[at.file], legacy[at.file], at.layer - 1)
      /\ Len(circuits[at.file].layers) = at.layer - 1
  BY <1>1 DEF FilesInv, ReadingInv
<1>5. PICK f \in Nat, m \in Nat : f = at.file /\ m = Len(legacy) /\ f <= m /\ f # 0
  BY <1>3, PlacesAre DEF IsSeq
<1>6. PICK c, g : c = circuits[f] /\ g = legacy[f]
  OBVIOUS
<1>7. PICK n \in Nat : n = at.layer - 1 /\ at.layer = n + 1
  BY <1>3, PlaceBefore
<1>8. WholeRead(overflow_checks, c, g)
  <2>1. LayersRead(overflow_checks, c, g, n) /\ Len(c.layers) = n
    BY <1>4, <1>5, <1>6, <1>7
  <2>2. PICK l \in Nat : l = Len(g.layers)
    BY <1>3, <1>5, <1>6 DEF IsSeq
  <2>3. n + 1 > l
    BY <1>2, <1>3, <1>5, <1>6, <1>7, <2>2
  <2>4. n <= l
    BY <2>1, <2>2 DEF LayersRead
  <2>5. n = Len(g.layers)
    BY <2>2, <2>3, <2>4
  <2> QED
    BY <2>1, <2>5 DEF WholeRead
<1>9. /\ at' \in Places /\ at'.file = f + 1 /\ at'.layer = 1 /\ at'.quad = 1
  BY <1>2, <1>3, <1>5, PlacesAre
<1>10. /\ step' \in EncodeSteps /\ step' \in LoadSteps /\ step' \in Reading /\ step' \notin Writing
       /\ step' \notin {"encode", "encode layer", "encode quad"} /\ step' # "panic"
       /\ step' \notin {"decode layer", "decode quad"} /\ step' # "decode layer"
       /\ step' # "decode quad" /\ step' # "encode error"
  BY <1>2 DEF EncodeSteps, LoadSteps, Reading, Writing, Between, Inside
<1>11. CallInv'
  <2>1. IsSeq(legacy') /\ IsSeq(circuits') /\ job' = job /\ total_terms' \in Nat
        /\ altered' = altered
    BY <1>2, <1>3
  <2> QED
    BY <1>3, <1>9, <1>10, <2>1, CallKept
<1>12. ReadingInv'
  <2>1. FilesReadable'
    BY <1>2, <1>3 DEF FilesReadable
  <2>2. \A i \in 1..(at'.file - 1) : WholeRead(overflow_checks', circuits'[i], legacy'[i])
    <3>1. ASSUME NEW i \in 1..f PROVE WholeRead(overflow_checks', circuits'[i], legacy'[i])
      <4>1. /\ circuits'[i] = circuits[i] /\ legacy'[i] = legacy[i]
            /\ overflow_checks' = overflow_checks
        BY <1>2
      <4>2. CASE i = f
        BY <1>6, <1>8, <4>1, <4>2
      <4>3. CASE i # f
        <5>1. i \in 1..(f - 1)
          BY <4>3
        <5> QED
          BY <1>3, <1>5, <4>1, <5>1
      <4> QED
        BY <4>2, <4>3
    <3>2. at'.file - 1 = f
      BY <1>9
    <3> QED
      BY <3>1, <3>2
  <2>3. Len(circuits') = at'.file - 1
    BY <1>2, <1>4, <1>5, <1>9
  <2>4. CASE f = m
    <3>1. step' = "decoded" /\ step' # "decode" /\ at'.file = Len(legacy') + 1
      BY <1>2, <1>5, <1>9, <2>4
    <3> QED
      BY <1>10, <2>1, <2>2, <2>3, <3>1 DEF ReadingInv
  <2>5. CASE f # m
    <3>1. step' = "decode" /\ step' \notin {"decoded", "loaded"}
      BY <1>2, <1>5, <2>5
    <3>2. at'.file <= Len(legacy')
      <4>1. f + 1 <= m
        BY <1>5, <2>5
      <4> QED
        BY <1>2, <1>5, <1>9, <4>1
    <3> QED
      BY <1>9, <1>10, <2>1, <2>2, <2>3, <3>1, <3>2 DEF ReadingInv
  <2> QED
    BY <2>4, <2>5
<1>13. VerdictInv'
  BY <1>2, <1>3, <1>10 DEF FilesInv, VerdictInv
<1> QED
  BY <1>10, <1>11, <1>12, <1>13, ReadingKept DEF FilesInv

\* What is known while an artifact is authenticated and converted.
LEMMA LoadingFacts ==
    ASSUME FilesInv, step \in {"load", "profile", "convert", "convert layer", "convert term"}
    PROVE  /\ CallInv /\ job \in Loads /\ job.call = "load" /\ ~altered /\ circuits = <<>>
           /\ at \in Places /\ IsSeq(legacy) /\ IsSeq(circuits) /\ total_terms \in Nat
           /\ \A n \in 1..(at.file - 1) : WholeFile(legacy[n], Intended(job, n))
<1>1. step \in Writing /\ step \notin EncodeSteps
  BY DEF Writing, Between, EncodeSteps, Inside
<1>2. CallInv
  BY DEF FilesInv
<1>3. /\ job \in Loads /\ job.call = "load" /\ ~altered /\ circuits = <<>>
      /\ at \in Places /\ IsSeq(legacy) /\ IsSeq(circuits) /\ total_terms \in Nat
  BY <1>1, <1>2 DEF CallInv
<1>4. \A n \in 1..(at.file - 1) : WholeFile(legacy[n], Intended(job, n))
  BY <1>1 DEF FilesInv, WritingInv
<1> QED
  BY <1>2, <1>3, <1>4

\* What the refusal of a load must see to.
LEMMA Refusal ==
    ASSUME CallInv, job.call = "load", ~altered, at \in Places, IsSeq(legacy), IsSeq(circuits),
           total_terms \in Nat, step' = "refused",
           UNCHANGED <<overflow_checks, job, legacy, at, altered, circuits, total_terms>>
    PROVE  FilesInv'
<1>1. /\ step' \in LoadSteps /\ step' \notin Writing
      /\ step' \notin {"encode", "encode layer", "encode quad"} /\ step' # "encode error"
      /\ step' # "panic"
  BY DEF LoadSteps, Writing, Between, Inside
<1>2. CallInv'
  BY <1>1, CallKept
<1>3. VerdictInv'
  BY <1>1 DEF VerdictInv
<1> QED
  BY <1>2, <1>3, EndKept DEF FilesInv

\* What a step of a load that goes on must see to.
LEMMA LoadingOn ==
    ASSUME CallInv, job.call = "load", ~altered, circuits = <<>>, IsSeq(circuits),
           UNCHANGED <<overflow_checks, job, altered, circuits>>,
           at' \in Places, IsSeq(legacy'), total_terms' \in Nat,
           step' \in {"profile", "convert", "convert layer", "convert term"},
           WritingInv'
    PROVE  FilesInv'
<1>1. /\ step' \in LoadSteps /\ step' \in Writing
      /\ step' \notin {"encode", "encode layer", "encode quad"} /\ step' # "panic"
  BY DEF LoadSteps, Writing, Between, Inside
<1>2. CallInv'
  BY <1>1, CallKept
<1> QED
  BY <1>1, <1>2, WritingKept DEF FilesInv

\* for_hash_circuit and authenticate convert nothing.
LEMMA ForHashCircuitKeeps == FilesInv /\ for_hash_circuit => FilesInv'
<1> SUFFICES ASSUME FilesInv, for_hash_circuit PROVE FilesInv'
  OBVIOUS
<1>1. /\ step = "load" /\ step' \in {"profile", "refused"}
      /\ UNCHANGED <<overflow_checks, job, legacy, at, prev_quad, altered, circuits, total_terms>>
  BY DEF for_hash_circuit
<1>2. /\ CallInv /\ job.call = "load" /\ ~altered /\ circuits = <<>>
      /\ at \in Places /\ IsSeq(legacy) /\ IsSeq(circuits) /\ total_terms \in Nat
  BY <1>1, LoadingFacts
<1>3. CASE step' = "refused"
  BY <1>1, <1>2, <1>3, Refusal
<1>4. CASE step' = "profile"
  <2>1. legacy = <<>> /\ at = Start
    BY <1>1 DEF FilesInv, WritingInv
  <2>2. WritingInv'
    <3>1. /\ step' # "convert" /\ step' \notin Between /\ step' \notin Inside
          /\ step' \notin {"convert layer", "convert term"} /\ step' # "convert term"
      BY <1>4 DEF Between, Inside
    <3>2. \A n \in 1..(at'.file - 1) : FALSE
      BY <1>1, <2>1, PlacesAre
    <3> QED
      BY <1>1, <2>1, <3>1, <3>2 DEF WritingInv
  <2> QED
    BY <1>1, <1>2, <1>4, <2>2, LoadingOn
<1> QED
  BY <1>1, <1>3, <1>4

\* The same of authenticate.
LEMMA AuthenticateKeeps == FilesInv /\ authenticate => FilesInv'
<1> SUFFICES ASSUME FilesInv, authenticate PROVE FilesInv'
  OBVIOUS
<1>1. /\ step = "profile" /\ step' \in {"convert", "refused"}
      /\ UNCHANGED <<overflow_checks, job, legacy, at, prev_quad, altered, circuits, total_terms>>
  BY DEF authenticate
<1>2. /\ CallInv /\ job.call = "load" /\ ~altered /\ circuits = <<>>
      /\ at \in Places /\ IsSeq(legacy) /\ IsSeq(circuits) /\ total_terms \in Nat
  BY <1>1, LoadingFacts
<1>3. CASE step' = "refused"
  BY <1>1, <1>2, <1>3, Refusal
<1>4. CASE step' = "convert"
  <2>1. legacy = <<>> /\ at = Start
    BY <1>1 DEF FilesInv, WritingInv
  <2>2. WritingInv'
    <3>1. /\ step' \notin {"encode", "load", "profile"} /\ step' \notin Between
          /\ step' \notin Inside
          /\ step' \notin {"convert layer", "convert term"} /\ step' # "convert term"
      BY <1>4 DEF Between, Inside
    <3>2. /\ \A n \in 1..(at'.file - 1) : FALSE
          /\ Len(legacy') = at'.file - 1 /\ at'.layer = 1 /\ at'.quad = 1
      BY <1>1, <2>1, PlacesAre, ShortSeqs
    <3> QED
      BY <3>1, <3>2 DEF WritingInv
  <2> QED
    BY <1>1, <1>2, <1>4, <2>2, LoadingOn
<1> QED
  BY <1>1, <1>3, <1>4

\* A circuit of an artifact, and what its file is to hold.
LEMMA SourceIs ==
    ASSUME job \in Loads, NEW n \in Nat \ {0}, n <= Len(job.artifact.circuits), NEW c,
           c = job.artifact.circuits[n]
    PROVE  /\ {c.outputs, c.copies, c.public, c.boundary, c.inputs} \subseteq Nat
           /\ IsSeq(c.layers) /\ \A k \in 1..Len(c.layers) : c.layers[k] \in Lfc2Layers
           /\ Len(c.constants) \in Nat
           /\ DOMAIN FromLfc2(c) = CircuitFields
           /\ IsSeq(FromLfc2(c).layers) /\ Len(FromLfc2(c).layers) = Len(c.layers)
           /\ \A k \in 1..Len(c.layers) : FromLfc2(c).layers[k] = Meant(c.layers[k])
<1>1. /\ Len(job.artifact.circuits) \in Nat
      /\ DOMAIN job.artifact.circuits = 1..Len(job.artifact.circuits)
  BY LoadsAssumption
<1>2. n \in DOMAIN job.artifact.circuits
  BY <1>1
<1>3. /\ {c.outputs, c.copies, c.public, c.boundary, c.inputs} \subseteq Nat
      /\ c.layers \in Seq(Lfc2Layers) /\ c.constants \in Seq(Nat)
  BY <1>2, LoadsAssumption
<1>4. PICK m \in Nat : m = Len(c.layers) /\ DOMAIN c.layers = 1..m
  BY <1>3
<1>5. IsSeq(c.layers) /\ \A k \in 1..Len(c.layers) : c.layers[k] \in Lfc2Layers
  BY <1>3, SeqIsSeq
<1> DEFINE s == [k \in DOMAIN c.layers |-> Meant(c.layers[k])]
<1>6. FromLfc2(c).layers = s /\ DOMAIN FromLfc2(c) = CircuitFields
  BY DEF FromLfc2, CircuitFields
<1>7. IsSeq(s) /\ Len(s) = m /\ \A k \in 1..m : s[k] = Meant(c.layers[k])
  <2>1. s = [k \in 1..m |-> s[k]] /\ \A k \in 1..m : s[k] = Meant(c.layers[k])
    BY <1>4
  <2> HIDE DEF s
  <2> QED
    BY <2>1, FunctionIsSeq
<1> HIDE DEF s
<1>8. /\ IsSeq(FromLfc2(c).layers) /\ Len(FromLfc2(c).layers) = Len(c.layers)
      /\ \A k \in 1..Len(c.layers) : FromLfc2(c).layers[k] = Meant(c.layers[k])
  BY <1>4, <1>6, <1>7
<1>9. Len(c.constants) \in Nat
  BY <1>3
<1> QED
  BY <1>3, <1>5, <1>6, <1>8, <1>9

\* What is at most a size is one.
LEMMA SmallIsSize ==
    ASSUME NEW n \in Nat, NEW m \in Sizes, n <= m
    PROVE  n \in Sizes /\ n < SizeLimit
BY Limits DEF Sizes

\* convert_header starts the file of a circuit.
LEMMA ConvertHeaderKeeps == FilesInv /\ convert_header => FilesInv'
<1> SUFFICES ASSUME FilesInv, convert_header PROVE FilesInv'
  OBVIOUS
<1>1. /\ step = "convert"
      /\ step \in {"load", "profile", "convert", "convert layer", "convert term"}
      /\ at.file <= 2
      /\ UNCHANGED <<overflow_checks, job, at, prev_quad, altered, circuits, total_terms>>
  BY DEF convert_header
<1>2. /\ CallInv /\ job \in Loads /\ job.call = "load" /\ ~altered /\ circuits = <<>>
      /\ at \in Places /\ IsSeq(legacy) /\ IsSeq(circuits) /\ total_terms \in Nat
      /\ \A n \in 1..(at.file - 1) : WholeFile(legacy[n], Intended(job, n))
  BY <1>1, LoadingFacts
<1>3. Len(legacy) = at.file - 1 /\ at.layer = 1 /\ at.quad = 1
  BY <1>1 DEF FilesInv, WritingInv
<1> DEFINE Good ==
             /\ at.file <= Len(job.artifact.circuits)
             /\ Source.header = "LFC2" /\ Source.field \in FieldIds
             /\ Source.copies = 1 /\ Source.public <= Source.inputs
             /\ \A n \in {Source.outputs, Source.public, Source.boundary, Source.inputs} :
                   n <= MAX_WIRES
             /\ Len(Source.layers) <= MAX_LAYERS /\ Len(Source.constants) <= MAX_CONSTANTS
<1>4. CASE ~Good
  <2>1. step' = "refused" /\ legacy' = legacy
    BY <1>4 DEF convert_header
  <2> QED
    BY <1>1, <1>2, <2>1, Refusal
<1>5. CASE Good
  <2> DEFINE h == [version |-> 1, field |-> Source.field, outputs |-> Source.outputs, copies |-> 1,
                   public |-> Source.public, boundary |-> Source.boundary,
                   inputs |-> Source.inputs, num_layers |-> Len(Source.layers),
                   constants |-> Source.constants, layers |-> <<>>, id |-> Source.id]
  <2>1. legacy' = Append(legacy, h) /\ step' = "convert layer"
    BY <1>5 DEF convert_header
  <2>2. PICK c : c = Source
    OBVIOUS
  <2>3. h = [version |-> 1, field |-> c.field, outputs |-> c.outputs, copies |-> 1,
             public |-> c.public, boundary |-> c.boundary,
             inputs |-> c.inputs, num_layers |-> Len(c.layers),
             constants |-> c.constants, layers |-> <<>>, id |-> c.id]
    BY <2>2
  <2> HIDE DEF h
  <2>4. PICK f \in Nat \ {0} : f = at.file /\ f <= 2 /\ f <= Len(job.artifact.circuits)
    BY <1>1, <1>2, <1>5, PlacesAre
  <2>5. /\ {c.outputs, c.copies, c.public, c.boundary, c.inputs} \subseteq Nat
        /\ IsSeq(c.layers) /\ Len(c.constants) \in Nat
        /\ DOMAIN FromLfc2(c) = CircuitFields
        /\ IsSeq(FromLfc2(c).layers) /\ Len(FromLfc2(c).layers) = Len(c.layers)
    <3>1. c = job.artifact.circuits[f]
      BY <2>2, <2>4 DEF Source
    <3> QED
      BY <1>2, <2>4, <3>1, SourceIs
  <2>6. /\ c.outputs <= MAX_WIRES /\ c.public <= MAX_WIRES /\ c.boundary <= MAX_WIRES
        /\ c.inputs <= MAX_WIRES /\ c.copies = 1
        /\ Len(c.layers) <= MAX_LAYERS /\ Len(c.constants) <= MAX_CONSTANTS
    BY <1>5, <2>2
  <2>7. SameHeader(h, FromLfc2(c)) /\ h.layers = <<>>
    <3>1. DOMAIN h = CircuitFields /\ h.layers = <<>> /\ IsCircuit(h)
      BY <2>3 DEF CircuitFields, IsCircuit
    <3>2. \A k \in CircuitFields \ {"layers"} : h[k] = FromLfc2(c)[k]
      BY <2>3, <2>6 DEF FromLfc2, CircuitFields
    <3> QED
      BY <3>1, <3>2 DEF SameHeader
  <2>8. MAX_WIRES \in Sizes /\ MAX_LAYERS \in Sizes /\ MAX_CONSTANTS \in Sizes /\ 1 \in Sizes
    BY LoadsAssumption, Limits DEF Sizes
  <2>9. HeaderFits(FromLfc2(c))
    <3>1. /\ FromLfc2(c).outputs = c.outputs /\ FromLfc2(c).copies = 1
          /\ FromLfc2(c).public = c.public /\ FromLfc2(c).boundary = c.boundary
          /\ FromLfc2(c).inputs = c.inputs /\ FromLfc2(c).num_layers = Len(c.layers)
          /\ FromLfc2(c).constants = c.constants
      BY <2>6 DEF FromLfc2
    <3>2. /\ c.outputs \in Sizes /\ c.public \in Sizes /\ c.boundary \in Sizes
          /\ c.inputs \in Sizes /\ Len(c.layers) \in Sizes /\ Len(c.constants) \in Sizes
      <4>1. /\ c.outputs \in Nat /\ c.public \in Nat /\ c.boundary \in Nat /\ c.inputs \in Nat
            /\ Len(c.layers) \in Nat /\ Len(c.constants) \in Nat
        BY <2>5 DEF IsSeq
      <4> QED
        BY <2>6, <2>8, <4>1, SmallIsSize
    <3>3. HeaderNumbers(FromLfc2(c)) \subseteq Sizes
      BY <2>8, <3>1, <3>2 DEF HeaderNumbers
    <3> QED
      BY <2>5, <3>1, <3>3 DEF HeaderFits
  <2>10. HasLayers(h, FromLfc2(c), 0) /\ Len(h.layers) = 0
    <3>1. 0 <= Len(FromLfc2(c).layers)
      BY <2>5 DEF IsSeq
    <3> QED
      BY <2>7, <2>9, <3>1, ShortSeqs DEF HasLayers
  <2>11. /\ IsSeq(legacy') /\ Len(legacy') = f /\ legacy'[f] = h
         /\ \A n \in 1..(f - 1) : legacy'[n] = legacy[n]
    <3>1. /\ IsSeq(legacy') /\ Len(legacy') = Len(legacy) + 1
          /\ legacy'[Len(legacy) + 1] = h
          /\ \A n \in 1..Len(legacy) : legacy'[n] = legacy[n]
      BY <1>2, <2>1, AppendIs
    <3>2. Len(legacy) = f - 1 /\ Len(legacy) + 1 = f
      BY <1>3, <2>4
    <3> QED
      BY <3>1, <3>2
  <2>12. Intended(job', f) = FromLfc2(c)
    BY <1>1, <1>2, <2>2, <2>4 DEF Intended, Source
  <2>13. WritingInv'
    <3>1. /\ step' \notin {"encode", "load", "profile"} /\ step' # "convert"
          /\ step' \notin Inside /\ step' # "convert term"
      BY <2>1 DEF Inside
    <3>2. /\ at' = at /\ job' = job /\ at'.file = f /\ at'.quad = 1 /\ at'.layer - 1 = 0
          /\ Source' = Source
      <4>1. at' = at /\ job' = job /\ at.layer = 1 /\ at.quad = 1
        BY <1>1, <1>3
      <4> QED
        BY ONLY <2>4, <4>1 DEF Source
    <3>3. HasLayers(legacy'[f], FromLfc2(c), 0) /\ Len(legacy'[f].layers) = 0
      BY <2>10, <2>11
    <3>4. \A n \in 1..(f - 1) : WholeFile(legacy'[n], Intended(job', n))
      BY <1>2, <2>4, <2>11, <3>2
    <3>5. f \in 1..2 /\ Len(Source.constants) < SizeLimit
      <4>1. Len(c.constants) < SizeLimit
        BY <2>5, <2>6, <2>8, SmallIsSize
      <4> QED
        BY <2>2, <2>4, <4>1
    <3> QED
      BY <2>1, <2>4, <2>11, <2>12, <3>1, <3>2, <3>3, <3>4, <3>5 DEF WritingInv
  <2> QED
    BY <1>1, <1>2, <2>1, <2>11, <2>13, LoadingOn
<1> QED
  BY <1>4, <1>5

\* convert_layer opens a layer, of terms that refer to what exists.
LEMMA ConvertLayerKeeps == FilesInv /\ convert_layer => FilesInv'
<1> SUFFICES ASSUME FilesInv, convert_layer PROVE FilesInv'
  OBVIOUS
<1>1. /\ step = "convert layer"
      /\ step \in {"load", "profile", "convert", "convert layer", "convert term"}
      /\ step \in Between /\ step \in Writing
      /\ at.layer <= Len(Source.layers) /\ prev_quad' = DefaultQuad
      /\ UNCHANGED <<overflow_checks, job, at, altered, circuits>>
  BY DEF convert_layer, Between, Writing
<1>2. /\ CallInv /\ job \in Loads /\ job.call = "load" /\ ~altered /\ circuits = <<>>
      /\ at \in Places /\ IsSeq(legacy) /\ IsSeq(circuits) /\ total_terms \in Nat
      /\ \A n \in 1..(at.file - 1) : WholeFile(legacy[n], Intended(job, n))
  BY <1>1, LoadingFacts
<1>3. PICK f \in Nat \ {0}, l \in Nat :
         f = at.file /\ l = at.layer - 1 /\ at.layer = l + 1
  BY <1>2, PlaceBefore, PlacesAre
<1>4. PICK c, d, layer : c = Source /\ d = FromLfc2(c) /\ layer = c.layers[l + 1]
  OBVIOUS
<1>5. /\ f \in 1..2 /\ f <= Len(job.artifact.circuits) /\ Len(c.constants) < SizeLimit
      /\ Len(legacy) = f /\ at.quad = 1
      /\ HasLayers(legacy[f], Intended(job, f), l) /\ Len(legacy[f].layers) = l
  BY <1>1, <1>3, <1>4 DEF FilesInv, WritingInv
<1>6. Intended(job, f) = d /\ Intended(job', f) = d
  BY <1>1, <1>2, <1>3, <1>4 DEF Intended, Source
<1>7. /\ IsSeq(c.layers) /\ \A k \in 1..Len(c.layers) : c.layers[k] \in Lfc2Layers
      /\ Len(c.constants) \in Nat /\ IsSeq(d.layers) /\ Len(d.layers) = Len(c.layers)
      /\ \A k \in 1..Len(c.layers) : d.layers[k] = Meant(c.layers[k])
  <2>1. c = job.artifact.circuits[f]
    BY <1>3, <1>4 DEF Source
  <2> QED
    BY <1>2, <1>3, <1>4, <1>5, <2>1, SourceIs
<1>8. l + 1 \in 1..Len(c.layers) /\ layer \in Lfc2Layers /\ d.layers[l + 1] = Meant(layer)
  <2>1. l + 1 \in 1..Len(c.layers)
    <3>1. PICK m \in Nat : m = Len(c.layers)
      BY <1>7 DEF IsSeq
    <3>2. l + 1 <= m
      BY <1>1, <1>3, <1>4, <3>1
    <3> QED
      BY <3>1, <3>2
  <2> QED
    BY <1>4, <1>7, <2>1
<1>9. CASE ~LayerFits(layer)
  <2>1. step' = "refused" /\ legacy' = legacy /\ total_terms' = total_terms
    BY <1>3, <1>4, <1>9 DEF convert_layer
  <2> QED
    BY <1>1, <1>2, <2>1, Refusal
<1>10. CASE LayerFits(layer)
  <2>1. /\ step' = "convert term" /\ total_terms' = total_terms + Len(Terms(layer))
        /\ legacy' = [legacy EXCEPT ![f].layers =
              Append(@, [logw |-> layer.logw, wires |-> layer.wires, quads |-> <<>>])]
    BY <1>3, <1>4, <1>10 DEF convert_layer
  <2>2. RefersWithin(c, layer) /\ layer.logw <= 63 /\ layer.wires <= MAX_WIRES
        /\ total_terms + Len(Terms(layer)) <= MAX_TERMS
    BY <1>4, <1>10 DEF LayerFits, RefersWithin
  <2>3. /\ IsSeq(Meant(layer).quads) /\ Len(Meant(layer).quads) = Len(Terms(layer))
        /\ \A q \in 1..Len(Terms(layer)) : Meant(layer).quads[q] \in IntQuads
        /\ Len(Terms(layer)) \in Nat
    BY <1>8, <2>2, MeantIs, TermsAre
  <2>4. Meant(layer).logw = layer.logw /\ Meant(layer).wires = layer.wires
        /\ Meant(layer) = [logw |-> Meant(layer).logw, wires |-> Meant(layer).wires,
                           quads |-> Meant(layer).quads]
    BY DEF Meant
  <2>5. LayerUpTo(Meant(layer), 0)
    <3>1. /\ layer.logw \in Nat /\ layer.wires \in Nat
      BY <1>8, Lfc2LayerIs
    <3>2. /\ MAX_WIRES \in Sizes /\ 63 \in Sizes /\ MAX_TERMS \in Sizes
      BY LoadsAssumption DEF Sizes
    <3>3. /\ layer.logw \in Sizes /\ layer.wires \in Sizes /\ Len(Terms(layer)) \in Sizes
      BY <1>2, <2>2, <2>3, <3>1, <3>2, Limits DEF Sizes
    <3> QED
      BY <2>3, <2>4, <3>3 DEF LayerUpTo
  <2>6. AddsLayer(legacy', legacy, f, FileLayer(d.layers[l + 1], 0))
    <3>1. FileLayer(Meant(layer), 0)
            = [logw |-> layer.logw, wires |-> layer.wires, quads |-> <<>>]
      BY <2>4, FileLayerGrows
    <3> QED
      BY <1>8, <2>1, <3>1 DEF AddsLayer
  <2>7. /\ IsSeq(legacy') /\ Len(legacy') = Len(legacy)
        /\ \A n \in 1..Len(legacy) : n # f => legacy'[n] = legacy[n]
        /\ HasQuads(legacy'[f], d, l, 0)
    <3>1. f \in 1..Len(legacy) /\ HasLayers(legacy[f], d, l) /\ Len(legacy[f].layers) = l
      BY <1>5, <1>6
    <3>2. l + 1 <= Len(d.layers) /\ LayerUpTo(d.layers[l + 1], 0)
      BY <1>7, <1>8, <2>5
    <3> QED
      BY ONLY <1>2, <2>6, <3>1, <3>2, l \in Nat, LayerOpened
  <2>8. WritingInv'
    <3>1. /\ step' \notin {"encode", "load", "profile"} /\ step' # "convert"
          /\ step' \notin Between
      BY <2>1 DEF Between
    <3>2. /\ at' = at /\ job' = job /\ at'.file = f /\ at'.quad - 1 = 0 /\ at'.layer - 1 = l
          /\ Source' = c /\ at'.layer = l + 1 /\ at'.quad = 1
      <4>1. at' = at /\ job' = job /\ Source' = Source
        BY <1>1 DEF Source
      <4>2. at.file = f /\ at.layer - 1 = l /\ at.layer = l + 1 /\ at.quad = 1
        BY <1>3, <1>5
      <4> QED
        BY ONLY <1>4, <4>1, <4>2
    <3>3. \A n \in 1..(f - 1) : WholeFile(legacy'[n], Intended(job', n))
      <4>1. \A n \in 1..(f - 1) : n \in 1..Len(legacy) /\ n # f
        BY <1>5
      <4> QED
        BY <1>2, <1>3, <2>7, <3>2, <4>1
    <3>4. prev_quad' = Before(Intended(job', f).layers[l + 1].quads, 1)
      BY <1>1 DEF Before
    <3>5. RefersWithin(c, c.layers[l + 1])
      BY <1>4, <2>2
    <3> QED
      BY <1>5, <1>6, <2>1, <2>7, <3>1, <3>2, <3>3, <3>4, <3>5 DEF WritingInv
  <2>9. at' \in Places /\ total_terms' \in Nat
    <3>1. PICK a \in Nat, b \in Nat : a = total_terms /\ b = Len(Terms(layer))
      BY <1>2, <2>3
    <3>2. total_terms' = total_terms + Len(Terms(layer))
      BY <2>1
    <3>4. total_terms' = a + b /\ a + b \in Nat
      BY ONLY <3>1, <3>2, a \in Nat, b \in Nat
    <3>3. at' \in Places
      BY <1>1, <1>2
    <3> QED
      BY ONLY <3>3, <3>4
  <2> QED
    BY <1>1, <1>2, <2>1, <2>7, <2>8, <2>9, LoadingOn
<1> QED
  BY <1>9, <1>10

\* convert_term adds the quad that the next term leads to.
LEMMA ConvertTermKeeps == FilesInv /\ convert_term => FilesInv'
<1> SUFFICES ASSUME FilesInv, convert_term PROVE FilesInv'
  OBVIOUS
<1>1. /\ step = "convert term"
      /\ step \in {"load", "profile", "convert", "convert layer", "convert term"}
      /\ step \in Inside /\ step \in Writing /\ step \in {"convert layer", "convert term"}
      /\ at.quad <= Len(Terms(Source.layers[at.layer]))
      /\ UNCHANGED <<overflow_checks, job, altered, circuits, total_terms>>
  BY DEF convert_term, Inside, Writing
<1>2. /\ CallInv /\ job \in Loads /\ job.call = "load" /\ ~altered /\ circuits = <<>>
      /\ at \in Places /\ IsSeq(legacy) /\ IsSeq(circuits) /\ total_terms \in Nat
      /\ \A n \in 1..(at.file - 1) : WholeFile(legacy[n], Intended(job, n))
  BY <1>1, LoadingFacts
<1>3. PICK f \in Nat \ {0} : f = at.file
  BY <1>2, PlacesAre
<1>4. PICK l \in Nat, n \in Nat :
         l = at.layer - 1 /\ at.layer = l + 1 /\ n = at.quad - 1 /\ at.quad = n + 1
  BY <1>2, PlaceBefore
<1>5. PICK c, d, layer, k, q : c = Source /\ d = FromLfc2(c) /\ layer = c.layers[k]
                               /\ k = l + 1 /\ q = n + 1
  OBVIOUS
<1>6. Intended(job, f) = d /\ Intended(job', f) = d
  BY <1>1, <1>2, <1>3, <1>5 DEF Intended, Source
<1>7. /\ f \in 1..2 /\ f <= Len(job.artifact.circuits) /\ Len(c.constants) < SizeLimit
      /\ Len(legacy) = f /\ HasQuads(legacy[f], d, l, n)
      /\ prev_quad = Before(d.layers[k].quads, q) /\ RefersWithin(c, layer)
  BY <1>1, <1>3, <1>4, <1>5, <1>6 DEF FilesInv, WritingInv
<1>8. /\ IsSeq(c.layers) /\ \A i \in 1..Len(c.layers) : c.layers[i] \in Lfc2Layers
      /\ Len(c.constants) \in Nat /\ IsSeq(d.layers) /\ Len(d.layers) = Len(c.layers)
      /\ \A i \in 1..Len(c.layers) : d.layers[i] = Meant(c.layers[i])
  <2>1. c = job.artifact.circuits[f]
    BY <1>3, <1>5 DEF Source
  <2> QED
    BY <1>2, <1>3, <1>5, <1>7, <2>1, SourceIs
<1>9. k \in 1..Len(c.layers) /\ layer \in Lfc2Layers /\ d.layers[k] = Meant(layer)
  <2>1. l + 1 \in 1..Len(c.layers)
    BY <1>7, <1>8 DEF HasQuads, IsSeq
  <2> QED
    BY <1>5, <1>8, <2>1
<1> DEFINE Q == Meant(layer).quads
           delta == DeltaOf(layer, q)
           quad == Expanded(delta)
<1>10. /\ Len(Terms(layer)) \in Nat /\ Len(Q) = Len(Terms(layer)) /\ q \in 1..Len(Q)
       /\ delta \in Deltas /\ Q[q] = Led(delta, Before(Q, q))
       /\ prev_quad = Before(Q, q) /\ d.layers[k].quads = Q
  <2>1. Len(Terms(layer)) \in Nat /\ Len(Q) = Len(Terms(layer))
    BY <1>7, <1>9, TermsAre, MeantIs
  <2>2. n + 1 \in 1..Len(Terms(layer))
    <3>1. PICK m \in Nat : m = Len(Terms(layer))
      BY <2>1
    <3>2. n + 1 <= m
      BY <1>1, <1>4, <1>5, <3>1
    <3> QED
      BY <3>1, <3>2
  <2>3. q \in 1..Len(Terms(layer))
    BY <1>5, <2>2
  <2>4. delta \in Deltas /\ Q[q] = Led(delta, Before(Q, q))
    BY <1>7, <1>9, <2>3, TermsAre, MeantIs
  <2> QED
    BY <1>7, <1>9, <2>1, <2>3, <2>4
<1>11. quad = Expanded(layer.deltas[Terms(layer)[q] + 1])
  BY DEF DeltaOf
<1> HIDE DEF Q, delta, quad
<1>12. prev_quad \in WordQuads /\ prev_quad \in IntQuads
  <2>1. LayerUpTo(d.layers[l + 1], n)
    BY <1>7 DEF HasQuads
  <2>2. \A i \in 1..n : Fits(Q[i], Before(Q, i))
    BY <1>5, <1>10, <2>1 DEF LayerUpTo
  <2>3. Before(Q, n + 1) \in WordQuads
    BY <2>2, BeforeIsWords
  <2> QED
    BY <1>5, <1>10, <2>3, WordsAreInts
<1>13. /\ quad \in IntQuads
       /\ Fits(quad, prev_quad) => quad = Q[q]
       /\ QuadFits(quad) <=> Fits(quad, prev_quad)
  <2>1. /\ quad \in IntQuads
        /\ Fits(quad, prev_quad) => quad = Led(delta, prev_quad)
    BY <1>10, <1>12, ExpandedIs DEF quad
  <2> QED
    BY <1>10, <1>12, <2>1, QuadFitsIs
<1>14. CASE ~QuadFits(quad)
  <2>1. step' = "refused" /\ legacy' = legacy /\ at' = at
    BY <1>4, <1>5, <1>11, <1>14 DEF convert_term
  <2> QED
    BY <1>1, <1>2, <2>1, Refusal
<1>15. CASE QuadFits(quad)
  <2>1. /\ legacy' = WithQuad(f, quad) /\ prev_quad' = quad /\ step' = step
        /\ at' = [at EXCEPT !.quad = @ + 1]
    BY <1>3, <1>4, <1>5, <1>11, <1>15 DEF convert_term
  <2>2. quad = Q[q] /\ Fits(Q[q], Before(Q, q))
    BY <1>10, <1>13, <1>15
  <2>3. AddsQuad(legacy', legacy, f, k, QuadAgainst(Q[q], Before(Q, q)))
    BY <1>4, <1>5, <1>10, <2>1, <2>2 DEF WithQuad, Encoded, AddsQuad
  <2>4. WritesQuad(legacy', legacy, f, d, l, n, k, q)
    <3>1. q <= Len(Q) /\ f \in 1..Len(legacy)
      BY <1>3, <1>5, <1>7, <1>10
    <3>2. /\ Fits(d.layers[k].quads[q], Before(d.layers[k].quads, q))
          /\ AddsQuad(legacy', legacy, f, k, QuadAgainst(d.layers[k].quads[q],
                                                         Before(d.layers[k].quads, q)))
          /\ q <= Len(d.layers[k].quads)
      BY <1>10, <2>2, <2>3, <3>1
    <3> QED
      BY <1>2, <1>5, <1>7, <3>1, <3>2 DEF WritesQuad
  <2>5. /\ IsSeq(legacy') /\ Len(legacy') = Len(legacy)
        /\ \A m \in 1..Len(legacy) : m # f => legacy'[m] = legacy[m]
        /\ HasQuads(legacy'[f], d, l, q)
    BY <2>4, WritesOneQuad
  <2>6. /\ at' \in Places /\ at'.file = f /\ at'.layer = l + 1 /\ at'.quad = (n + 1) + 1
    BY <1>2, <1>3, <1>4, <2>1, PlacesAre
  <2>7. WritingInv'
    <3>1. /\ step' \notin {"encode", "load", "profile"} /\ step' # "convert"
          /\ step' \notin Between
      BY <1>1, <2>1 DEF Between
    <3>2. /\ at'.quad - 1 = q /\ at'.layer - 1 = l /\ at'.quad = q + 1 /\ at'.layer = k
      BY <1>5, <2>6
    <3>3. \A m \in 1..(f - 1) : WholeFile(legacy'[m], Intended(job', m))
      <4>1. \A m \in 1..(f - 1) : m \in 1..Len(legacy) /\ m # f
        BY <1>3, <1>7
      <4>2. job' = job
        BY <1>1
      <4> QED
        BY <1>2, <1>3, <2>5, <4>1, <4>2
    <3>4. prev_quad' = Before(Intended(job', f).layers[k].quads, q + 1)
      <4>1. Before(Q, q + 1) = Q[q]
        <5>1. q + 1 # 1 /\ (q + 1) - 1 = q
          BY <1>10
        <5> QED
          BY <5>1 DEF Before
      <4> QED
        BY <1>6, <1>10, <2>1, <2>2, <4>1
    <3>5. Source' = c /\ job' = job
      BY <1>1, <1>3, <1>5, <2>6 DEF Source
    <3>6. RefersWithin(c, c.layers[k])
      BY <1>5, <1>7
    <3> QED
      BY <1>6, <1>7, <2>5, <2>6, <3>1, <3>2, <3>3, <3>4, <3>5, <3>6 DEF WritingInv
  <2>8. step' \in {"profile", "convert", "convert layer", "convert term"} /\ total_terms' \in Nat
    BY <1>1, <1>2, <2>1
  <2> QED
    BY <1>1, <1>2, <2>5, <2>6, <2>7, <2>8, LoadingOn
<1> QED
  BY <1>14, <1>15

\* convert_layer_ends closes a layer.
LEMMA ConvertLayerEndsKeeps == FilesInv /\ convert_layer_ends => FilesInv'
<1> SUFFICES ASSUME FilesInv, convert_layer_ends PROVE FilesInv'
  OBVIOUS
<1>1. /\ step = "convert term"
      /\ step \in {"load", "profile", "convert", "convert layer", "convert term"}
      /\ step \in Inside /\ step \in Writing /\ step \in {"convert layer", "convert term"}
      /\ at.quad > Len(Terms(Source.layers[at.layer])) /\ at' = NextLayer
      /\ step' = "convert layer"
      /\ UNCHANGED <<overflow_checks, job, legacy, prev_quad, altered, circuits, total_terms>>
  BY DEF convert_layer_ends, Inside, Writing
<1>2. /\ CallInv /\ job \in Loads /\ job.call = "load" /\ ~altered /\ circuits = <<>>
      /\ at \in Places /\ IsSeq(legacy) /\ IsSeq(circuits) /\ total_terms \in Nat
      /\ \A n \in 1..(at.file - 1) : WholeFile(legacy[n], Intended(job, n))
  BY <1>1, LoadingFacts
<1>3. PICK f \in Nat \ {0} : f = at.file
  BY <1>2, PlacesAre
<1>4. PICK l \in Nat, n \in Nat :
         l = at.layer - 1 /\ at.layer = l + 1 /\ n = at.quad - 1 /\ at.quad = n + 1
  BY <1>2, PlaceBefore
<1>5. PICK c, d, layer : c = Source /\ d = FromLfc2(c) /\ layer = c.layers[l + 1]
  OBVIOUS
<1>6. Intended(job, f) = d /\ Intended(job', f) = d
  BY <1>1, <1>2, <1>3, <1>5 DEF Intended, Source
<1>7. /\ f \in 1..2 /\ f <= Len(job.artifact.circuits) /\ Len(c.constants) < SizeLimit
      /\ Len(legacy) = f /\ HasQuads(legacy[f], d, l, n) /\ RefersWithin(c, layer)
  BY <1>1, <1>3, <1>4, <1>5, <1>6 DEF FilesInv, WritingInv
<1>8. /\ IsSeq(c.layers) /\ \A i \in 1..Len(c.layers) : c.layers[i] \in Lfc2Layers
      /\ Len(c.constants) \in Nat /\ IsSeq(d.layers) /\ Len(d.layers) = Len(c.layers)
      /\ \A i \in 1..Len(c.layers) : d.layers[i] = Meant(c.layers[i])
  <2>1. c = job.artifact.circuits[f]
    BY <1>3, <1>5 DEF Source
  <2> QED
    BY <1>2, <1>3, <1>5, <1>7, <2>1, SourceIs
<1>9. layer \in Lfc2Layers /\ d.layers[l + 1] = Meant(layer)
  <2>1. l + 1 \in 1..Len(c.layers)
    BY <1>7, <1>8 DEF HasQuads, IsSeq
  <2> QED
    BY <1>5, <1>8, <2>1
<1>10. ~(n + 1 <= Len(d.layers[l + 1].quads))
  <2>1. Len(Terms(layer)) \in Nat /\ Len(Meant(layer).quads) = Len(Terms(layer))
    BY <1>7, <1>9, TermsAre, MeantIs
  <2>2. PICK m \in Nat : m = Len(Terms(layer))
    BY <2>1
  <2>3. n + 1 > m
    BY <1>1, <1>4, <1>5, <2>2
  <2>4. Len(d.layers[l + 1].quads) = m
    BY <1>9, <2>1, <2>2
  <2> QED
    BY <2>2, <2>3, <2>4
<1>11. HasLayers(legacy[f], d, l + 1) /\ Len(legacy[f].layers) = l + 1
  BY <1>7, <1>10, LayerClosed
<1>12. /\ at' \in Places /\ at'.file = f /\ at'.layer = (l + 1) + 1 /\ at'.quad = 1
  BY <1>1, <1>2, <1>3, <1>4, PlacesAre
<1>13. WritingInv'
  <2>1. /\ step' \notin {"encode", "load", "profile"} /\ step' # "convert"
        /\ step' \notin Inside /\ step' # "convert term"
    BY <1>1 DEF Inside
  <2>2. at'.layer - 1 = l + 1
    BY <1>12
  <2>3. \A m \in 1..(f - 1) : WholeFile(legacy'[m], Intended(job', m))
    <3>1. legacy' = legacy /\ job' = job
      BY <1>1
    <3> QED
      BY <1>2, <1>3, <3>1
  <2>4. Source' = c /\ job' = job /\ legacy' = legacy
    BY <1>1, <1>3, <1>5, <1>12 DEF Source
  <2> QED
    BY <1>6, <1>7, <1>11, <1>12, <2>1, <2>2, <2>3, <2>4 DEF WritingInv
<1>14. IsSeq(legacy') /\ total_terms' \in Nat
  BY <1>1, <1>2
<1> QED
  BY <1>1, <1>2, <1>12, <1>13, <1>14, LoadingOn

\* convert_id ends the file.
LEMMA ConvertIdKeeps == FilesInv /\ convert_id => FilesInv'
<1> SUFFICES ASSUME FilesInv, convert_id PROVE FilesInv'
  OBVIOUS
<1>1. /\ step = "convert layer"
      /\ step \in {"load", "profile", "convert", "convert layer", "convert term"}
      /\ step \in Between /\ step \in Writing /\ step \in {"convert layer", "convert term"}
      /\ at.layer > Len(Source.layers) /\ at' = [Start EXCEPT !.file = at.file + 1]
      /\ step' = "convert" /\ total_terms' = 0
      /\ UNCHANGED <<overflow_checks, job, legacy, prev_quad, altered, circuits>>
  BY DEF convert_id, Between, Writing
<1>2. /\ CallInv /\ job \in Loads /\ job.call = "load" /\ ~altered /\ circuits = <<>>
      /\ at \in Places /\ IsSeq(legacy) /\ IsSeq(circuits) /\ total_terms \in Nat
      /\ \A n \in 1..(at.file - 1) : WholeFile(legacy[n], Intended(job, n))
  BY <1>1, LoadingFacts
<1>3. PICK f \in Nat \ {0} : f = at.file
  BY <1>2, PlacesAre
<1>4. PICK l \in Nat : l = at.layer - 1 /\ at.layer = l + 1
  BY <1>2, PlaceBefore
<1>5. PICK c, d : c = Source /\ d = FromLfc2(c)
  OBVIOUS
<1>6. Intended(job, f) = d /\ Intended(job', f) = d
  BY <1>1, <1>2, <1>3, <1>5 DEF Intended, Source
<1>7. /\ f \in 1..2 /\ f <= Len(job.artifact.circuits) /\ Len(legacy) = f
      /\ HasLayers(legacy[f], d, l) /\ Len(legacy[f].layers) = l
  BY <1>1, <1>3, <1>4, <1>5, <1>6 DEF FilesInv, WritingInv
<1>8. IsSeq(c.layers) /\ Len(d.layers) = Len(c.layers)
  <2>1. c = job.artifact.circuits[f]
    BY <1>3, <1>5 DEF Source
  <2> QED
    BY <1>2, <1>3, <1>5, <1>7, <2>1, SourceIs
<1>9. WholeFile(legacy[f], d)
  <2>1. PICK m \in Nat : m = Len(c.layers)
    BY <1>8 DEF IsSeq
  <2>2. l + 1 > m
    BY <1>1, <1>4, <1>5, <2>1
  <2>3. l <= m
    BY <1>7, <1>8, <2>1 DEF HasLayers
  <2>4. l = Len(d.layers)
    BY <1>8, <2>1, <2>2, <2>3
  <2> QED
    BY <1>7, <2>4 DEF WholeFile
<1>10. at' \in Places /\ at'.file = f + 1 /\ at'.layer = 1 /\ at'.quad = 1
  BY <1>1, <1>2, <1>3, PlacesAre
<1>11. WritingInv'
  <2>1. /\ step' \notin {"encode", "load", "profile"} /\ step' \notin Between
        /\ step' \notin Inside
        /\ step' \notin {"convert layer", "convert term"} /\ step' # "convert term"
    BY <1>1 DEF Between, Inside
  <2>2. at'.file - 1 = f /\ Len(legacy') = at'.file - 1
    <3>1. Len(legacy') = f
      BY <1>1, <1>7
    <3> QED
      BY <1>10, <3>1
  <2>3. \A n \in 1..f : WholeFile(legacy'[n], Intended(job', n))
    <3>1. legacy' = legacy /\ job' = job
      BY <1>1
    <3>2. ASSUME NEW n \in 1..f PROVE WholeFile(legacy[n], Intended(job, n))
      <4>1. CASE n = f
        BY <1>6, <1>9, <4>1
      <4>2. CASE n # f
        <5>1. n \in 1..(f - 1)
          BY <4>2
        <5> QED
          BY <1>2, <1>3, <5>1
      <4> QED
        BY <4>1, <4>2
    <3> QED
      BY <3>1, <3>2
  <2> QED
    BY <1>10, <2>1, <2>2, <2>3 DEF WritingInv
<1>12. /\ IsSeq(legacy') /\ total_terms' \in Nat
       /\ step' \in {"profile", "convert", "convert layer", "convert term"}
       /\ UNCHANGED <<overflow_checks, job, altered, circuits>>
  BY <1>1, <1>2
<1> QED
  BY <1>2, <1>10, <1>11, <1>12, LoadingOn

\* to_legacy_pair has two files.
LEMMA ToLegacyPairKeeps == FilesInv /\ to_legacy_pair => FilesInv'
<1> SUFFICES ASSUME FilesInv, to_legacy_pair PROVE FilesInv'
  OBVIOUS
<1>1. /\ step = "convert"
      /\ step \in {"load", "profile", "convert", "convert layer", "convert term"}
      /\ at.file = 3
      /\ (step' = "decode" /\ at' = Start) \/ (step' = "refused" /\ at' = at)
      /\ UNCHANGED <<overflow_checks, job, legacy, prev_quad, altered, circuits, total_terms>>
  BY DEF to_legacy_pair
<1>2. /\ CallInv /\ job \in Loads /\ job.call = "load" /\ ~altered /\ circuits = <<>>
      /\ at \in Places /\ IsSeq(legacy) /\ IsSeq(circuits) /\ total_terms \in Nat
      /\ \A n \in 1..(at.file - 1) : WholeFile(legacy[n], Intended(job, n))
  BY <1>1, LoadingFacts
<1>3. Len(legacy) = at.file - 1
  BY <1>1 DEF FilesInv, WritingInv
<1>4. CASE step' = "refused"
  BY <1>1, <1>2, <1>4, Refusal
<1>5. CASE step' = "decode"
  <2>1. at' \in Places /\ at'.file = 1 /\ at'.layer = 1 /\ at'.quad = 1
    BY <1>1, <1>5, PlacesAre
  <2>2. /\ step' \in LoadSteps /\ step' \in Reading /\ step' \notin Writing
        /\ step' \notin {"encode", "encode layer", "encode quad"} /\ step' # "panic"
        /\ step' \notin {"decode layer", "decode quad"} /\ step' # "decode layer"
        /\ step' # "decode quad" /\ step' \notin {"decoded", "loaded"}
        /\ step' # "encode error"
    BY <1>5 DEF LoadSteps, Reading, Writing, Between, Inside
  <2>3. CallInv'
    BY <1>1, <1>2, <2>1, <2>2, CallKept
  <2>4. Len(legacy) = 2 /\ \A n \in 1..2 : WholeFile(legacy[n], Intended(job, n))
    <3>1. at.file - 1 = 2
      BY <1>1
    <3> QED
      BY <1>2, <1>3, <3>1
  <2>5. FilesReadable'
    <3>1. legacy' = legacy /\ job' = job /\ job.call # "encode"
      BY <1>1, <1>2
    <3>2. \A n \in 1..2 : Readable(legacy[n], Intended(job, n))
      BY <2>4, WholeIsReadable
    <3> QED
      BY <2>4, <3>1, <3>2 DEF FilesReadable
  <2>6. ReadingInv'
    <3>1. /\ \A n \in 1..(at'.file - 1) : FALSE
          /\ Len(circuits') = at'.file - 1 /\ at'.file <= Len(legacy')
      BY <1>1, <1>2, <2>1, <2>4, ShortSeqs
    <3> QED
      BY <2>1, <2>2, <2>5, <3>1 DEF ReadingInv
  <2>7. VerdictInv'
    BY <1>1, <1>2, <2>2 DEF VerdictInv
  <2> QED
    BY <2>2, <2>3, <2>6, <2>7, ReadingKept DEF FilesInv
<1> QED
  BY <1>1, <1>4, <1>5

\* decode_pair changes nothing.
LEMMA DecodePairKeeps == FilesInv /\ decode_pair => FilesInv'
<1> SUFFICES ASSUME FilesInv, decode_pair PROVE FilesInv'
  OBVIOUS
<1>1. /\ step = "decoded" /\ job.call = "load" /\ step' \in {"loaded", "refused"}
      /\ UNCHANGED <<overflow_checks, job, legacy, at, prev_quad, altered, circuits, total_terms>>
  BY DEF decode_pair
<1>2. CallInv
  BY DEF FilesInv
<1>3. /\ ~altered /\ at \in Places /\ IsSeq(legacy) /\ IsSeq(circuits) /\ total_terms \in Nat
  BY <1>1, <1>2 DEF CallInv
<1>4. CASE step' = "refused"
  BY <1>1, <1>2, <1>3, <1>4, Refusal
<1>5. CASE step' = "loaded"
  <2>1. step \in Reading /\ step \in {"decoded", "loaded"}
    BY <1>1 DEF Reading
  <2>2. /\ FilesReadable
        /\ \A n \in 1..(at.file - 1) : WholeRead(overflow_checks, circuits[n], legacy[n])
        /\ Len(circuits) = at.file - 1 /\ at.file = Len(legacy) + 1
    BY <2>1 DEF FilesInv, ReadingInv
  <2>3. /\ step' \in LoadSteps /\ step' \in Reading /\ step' \notin Writing
        /\ step' \notin {"encode", "encode layer", "encode quad"} /\ step' # "panic"
        /\ step' \notin {"decode layer", "decode quad"} /\ step' # "decode layer"
        /\ step' # "decode quad" /\ step' # "decode" /\ step' # "encode error"
    BY <1>5 DEF LoadSteps, Reading, Writing, Between, Inside
  <2>4. CallInv'
    BY <1>1, <1>2, <1>3, <2>3, CallKept
  <2>5. ReadingInv'
    <3>1. FilesReadable'
      BY <1>1, <2>2 DEF FilesReadable
    <3>2. /\ \A n \in 1..(at'.file - 1) : WholeRead(overflow_checks', circuits'[n], legacy'[n])
          /\ Len(circuits') = at'.file - 1 /\ at'.file = Len(legacy') + 1
      BY <1>1, <2>2
    <3> QED
      BY <2>3, <3>1, <3>2 DEF ReadingInv
  <2>6. VerdictInv'
    BY <1>1, <2>3 DEF VerdictInv
  <2> QED
    BY <2>3, <2>4, <2>5, <2>6, ReadingKept DEF FilesInv
<1> QED
  BY <1>1, <1>4, <1>5

\* Nothing changes.
LEMMA StutterKeeps == FilesInv /\ UNCHANGED loading_vars => FilesInv'
<1> SUFFICES ASSUME FilesInv, UNCHANGED loading_vars PROVE FilesInv'
  OBVIOUS
<1>1. UNCHANGED <<step, overflow_checks, job, legacy, at, prev_quad, altered, circuits,
                  total_terms>>
  BY DEF loading_vars, file_vars
<1>2. CallInv'
  BY <1>1 DEF FilesInv, CallInv
<1>3. WritingInv'
  BY <1>1 DEF FilesInv, WritingInv, Source
<1>4. ReadingInv'
  BY <1>1 DEF FilesInv, ReadingInv, FilesReadable
<1>5. VerdictInv'
  BY <1>1 DEF FilesInv, VerdictInv
<1> QED
  BY <1>2, <1>3, <1>4, <1>5 DEF FilesInv

\* The files that are written, read, converted and altered satisfy the invariant.
THEOREM FilesSafe == LoadingSpec => []FilesInv
<1>1. LoadingInit => FilesInv
  BY InitFiles
<1>2. FilesInv /\ [LoadingNext]_loading_vars => FilesInv'
  <2> SUFFICES ASSUME FilesInv, [LoadingNext]_loading_vars PROVE FilesInv'
    OBVIOUS
  <2>1. CASE FileNext /\ UNCHANGED total_terms
    BY <2>1, EncodeHeaderKeeps, EncodeLayerKeeps, EncodeQuadKeeps, EncodeLayerEndsKeeps,
       EncodeIdKeeps, AlterKeeps, DecodeHeaderKeeps, DecodeLayerKeeps, DecodeQuadKeeps,
       DecodeLayerEndsKeeps, DecodeIdKeeps DEF FileNext
  <2>2. CASE \/ for_hash_circuit \/ authenticate \/ convert_header \/ convert_layer
             \/ convert_term \/ convert_layer_ends \/ convert_id \/ to_legacy_pair \/ decode_pair
    BY <2>2, ForHashCircuitKeeps, AuthenticateKeeps, ConvertHeaderKeeps, ConvertLayerKeeps,
       ConvertTermKeeps, ConvertLayerEndsKeeps, ConvertIdKeeps, ToLegacyPairKeeps, DecodePairKeeps
  <2>3. CASE UNCHANGED loading_vars
    BY <2>3, StutterKeeps
  <2> QED
    BY <2>1, <2>2, <2>3 DEF LoadingNext
<1> QED
  BY <1>1, <1>2, PTL DEF LoadingSpec

-----------------------------------------------------------------------------
(* What the invariant says of the properties.                              *)

\* What was written and is read whole is what was meant.
LEMMA WholeReadIsMeant ==
    ASSUME NEW checks, NEW c, NEW f, NEW d, WholeRead(checks, d, f), WholeFile(f, c), IsCircuit(c)
    PROVE  d = c
<1>1. /\ SameHeader(d, f) /\ IsSeq(d.layers) /\ Len(d.layers) = Len(f.layers)
      /\ \A k \in 1..Len(f.layers) :
            LayerRead(checks, d.layers[k], f.layers[k], Len(f.layers[k].quads))
  BY DEF WholeRead, LayersRead
<1>2. /\ SameHeader(f, c) /\ IsSeq(c.layers) /\ Len(f.layers) = Len(c.layers)
      /\ \A k \in 1..Len(c.layers) :
            /\ LayerUpTo(c.layers[k], Len(c.layers[k].quads))
            /\ f.layers[k] = FileLayer(c.layers[k], Len(c.layers[k].quads))
  BY DEF WholeFile, HasLayers, HeaderFits
<1>3. ASSUME NEW layer, NEW meant, NEW of, LayerUpTo(meant, Len(meant.quads)),
             of = FileLayer(meant, Len(meant.quads)), LayerRead(checks, layer, of, Len(of.quads))
      PROVE  layer = meant
  <2> DEFINE Q == meant.quads
             D == layer.quads
  <2>1. PICK m \in Nat : m = Len(Q)
    BY <1>3 DEF LayerUpTo, IsSeq
  <2>2. \A q \in 1..m : Fits(Q[q], Before(Q, q))
    BY <1>3, <2>1 DEF LayerUpTo
  <2>3. of.quads = FileQuads(Q, m) /\ of.logw = meant.logw /\ of.wires = meant.wires
    BY <1>3, <2>1 DEF FileLayer
  <2>4. Len(of.quads) = m
    <3>1. FileQuads(Q, m) = [q \in 1..m |-> FileQuads(Q, m)[q]]
      BY DEF FileQuads
    <3> HIDE DEF Q
    <3> QED
      BY <2>3, <3>1, FunctionIsSeq
  <2>5. \A q \in 1..m : QuadRead(checks, D, FileQuads(Q, m), q)
    BY <1>3, <2>3, <2>4 DEF LayerRead
  <2>6. /\ IsSeq(D) /\ Len(D) = m
        /\ layer = [logw |-> of.logw, wires |-> of.wires, quads |-> D]
    BY <1>3, <2>4 DEF LayerRead
  <2>7. IsSeq(Q) /\ meant = [logw |-> meant.logw, wires |-> meant.wires, quads |-> Q]
    BY <1>3 DEF LayerUpTo
  <2> HIDE DEF Q, D
  <2>8. \A q \in 1..m : D[q] = Q[q]
    <3>1. m <= m
      OBVIOUS
    <3> QED
      BY ONLY <2>2, <2>5, <3>1, m \in Nat, ReadIsWritten
  <2>9. D = Q
    <3>1. D = [q \in 1..m |-> D[q]] /\ Q = [q \in 1..m |-> Q[q]]
      BY <2>1, <2>6, <2>7 DEF IsSeq
    <3> QED
      BY <2>8, <3>1
  <2> QED
    BY <2>3, <2>6, <2>7, <2>9
<1>4. PICK n \in Nat : n = Len(c.layers)
  BY <1>2 DEF IsSeq
<1>5. \A k \in 1..n : d.layers[k] = c.layers[k]
  BY <1>1, <1>2, <1>3, <1>4
<1>6. d.layers = c.layers
  <2>1. d.layers = [k \in 1..n |-> d.layers[k]] /\ c.layers = [k \in 1..n |-> c.layers[k]]
    BY <1>1, <1>2, <1>4 DEF IsSeq
  <2> QED
    BY <1>5, <2>1
<1>7. \A k \in CircuitFields : d[k] = c[k]
  BY <1>1, <1>2, <1>6 DEF SameHeader
<1>8. d = [k \in CircuitFields |-> d[k]] /\ c = [k \in CircuitFields |-> c[k]]
  BY <1>1 DEF SameHeader, IsCircuit
<1> QED
  BY <1>7, <1>8

\* What is read are the indices that the jumps of the file lead to.
LEMMA WholeReadIndices ==
    ASSUME NEW checks, NEW c, NEW f, NEW d, WholeRead(checks, d, f), Readable(f, c),
           NEW k \in DOMAIN d.layers, NEW q \in DOMAIN d.layers[k].quads,
           NEW i \in DOMAIN DefaultQuad
    PROVE  SameIndex(checks, d.layers[k].quads[q][i], IndicesOf(f.layers[k].quads)[q][i])
<1>1. k \in 1..Len(f.layers)
  BY FunctionIsSeq DEF WholeRead, LayersRead, IsSeq
<1>2. PICK L, D : L = f.layers[k].quads /\ D = d.layers[k].quads
  OBVIOUS
<1>3. IsSeq(L) /\ \A j \in 1..Len(L) : L[j] \in SizeQuads
  BY <1>1, <1>2 DEF Readable, ReadableLayer
<1>4. LayerRead(checks, d.layers[k], f.layers[k], Len(L))
  BY <1>1, <1>2 DEF WholeRead, LayersRead
<1>5. /\ IsSeq(D) /\ Len(D) = Len(L)
      /\ \A j \in 1..Len(L) : D[j] \in WordQuads /\ QuadRead(checks, D, L, j)
  BY <1>2, <1>4 DEF LayerRead
<1>6. q \in 1..Len(L)
  BY <1>2, <1>5, FunctionIsSeq DEF IsSeq
<1>7. \A j \in 1..Len(L) : \A n \in DOMAIN DefaultQuad :
         SameIndex(checks, D[j][n], IndicesOf(L)[j][n])
  <2>1. \A j \in 1..Len(L) :
           L[j] \in SizeQuads /\ D[j] \in WordQuads /\ QuadRead(checks, D, L, j)
    BY <1>3, <1>5
  <2> QED
    BY ONLY <1>3, <2>1, IndicesAreRead
<1> QED
  BY <1>2, <1>6, <1>7

\* CircuitRoundTrip in a state of the invariant.
LEMMA FilesRoundTrip == FilesInv => CircuitRoundTrip
<1> SUFFICES ASSUME FilesInv PROVE CircuitRoundTrip
  OBVIOUS
<1>1. CallInv /\ ReadingInv /\ VerdictInv
  BY DEF FilesInv
<1>2. ASSUME step = "decoded"
      PROVE  /\ FilesReadable
             /\ \A n \in 1..Len(circuits) : WholeRead(overflow_checks, circuits[n], legacy[n])
             /\ IsSeq(circuits) /\ Len(circuits) = Len(legacy)
  <2>1. step \in Reading /\ step \in {"decoded", "loaded"}
    BY <1>2 DEF Reading
  <2>2. /\ FilesReadable
        /\ \A n \in 1..(at.file - 1) : WholeRead(overflow_checks, circuits[n], legacy[n])
        /\ Len(circuits) = at.file - 1 /\ at.file = Len(legacy) + 1
    BY <1>1, <2>1 DEF ReadingInv
  <2>3. IsSeq(circuits) /\ IsSeq(legacy)
    BY <1>1 DEF CallInv
  <2>4. PICK m \in Nat : m = Len(legacy)
    BY <2>3 DEF IsSeq
  <2>5. at.file - 1 = m
    BY <2>2, <2>4
  <2> QED
    BY <2>2, <2>3, <2>4, <2>5
<1>3. ASSUME step = "decoded", job.call = "encode", ~altered PROVE circuits = <<job.circuit>>
  <2>1. job.circuit \in Written
    BY <1>1, <1>3, LoadsAssumption DEF CallInv
  <2>2. Len(legacy) = 1 /\ WholeFile(legacy[1], job.circuit)
    <3>1. Intended(job, 1) = job.circuit
      BY <1>3 DEF Intended
    <3> QED
      BY <1>2, <1>3, <3>1 DEF FilesReadable
  <2>3. WholeRead(overflow_checks, circuits[1], legacy[1]) /\ IsSeq(circuits) /\ Len(circuits) = 1
    <3>1. IsSeq(circuits) /\ Len(circuits) = 1
      BY <1>2, <1>3, <2>2
    <3>2. 1 \in 1..Len(circuits)
      BY <3>1
    <3> QED
      BY <1>2, <1>3, <3>1, <3>2
  <2>4. IsCircuit(job.circuit)
    BY <2>1, WrittenAssumption DEF IsCircuit
  <2>5. circuits[1] = job.circuit
    BY <2>2, <2>3, <2>4, WholeReadIsMeant
  <2>6. circuits = [k \in 1..1 |-> circuits[k]]
    BY <2>3 DEF IsSeq
  <2>7. <<job.circuit>> = [k \in 1..1 |-> job.circuit]
    OBVIOUS
  <2> QED
    BY <2>5, <2>6, <2>7
<1>4. step = "panic" /\ job.call = "encode" => altered /\ overflow_checks
  BY <1>1 DEF CallInv
<1>5. ASSUME step = "decoded",
             NEW n \in DOMAIN circuits, NEW k \in DOMAIN circuits[n].layers,
             NEW q \in DOMAIN circuits[n].layers[k].quads, NEW i \in DOMAIN DefaultQuad
      PROVE  SameIndex(overflow_checks, circuits[n].layers[k].quads[q][i],
                       IndicesOf(legacy[n].layers[k].quads)[q][i])
  <2>1. n \in 1..Len(legacy) /\ n \in 1..Len(circuits)
    BY <1>2, <1>5, FunctionIsSeq DEF IsSeq
  <2>2. PICK d, f, c : d = circuits[n] /\ f = legacy[n] /\ c = Intended(job, n)
    OBVIOUS
  <2>3. WholeRead(overflow_checks, d, f) /\ Readable(f, c)
    BY <1>2, <1>5, <2>1, <2>2 DEF FilesReadable
  <2>4. k \in DOMAIN d.layers /\ q \in DOMAIN d.layers[k].quads
    BY <2>2
  <2>5. SameIndex(overflow_checks, d.layers[k].quads[q][i], IndicesOf(f.layers[k].quads)[q][i])
    BY ONLY <2>3, <2>4, i \in DOMAIN DefaultQuad, WholeReadIndices
  <2> QED
    BY <2>2, <2>5
<1> DEFINE Late == job.call = "encode" /\ step \notin {"encode", "encode layer", "encode quad"}
<1>6. step = "encode error" <=> Late /\ Inexpressible(job.circuit)
  <2>1. step = "encode error" => Late /\ Inexpressible(job.circuit)
    BY <1>1 DEF CallInv, VerdictInv, LoadSteps
  <2>2. ASSUME Late, Inexpressible(job.circuit) PROVE step = "encode error"
    <3>1. step \in EncodeSteps
      BY <1>1, <2>2, LoadsAssumption DEF CallInv
    <3>2. step \notin Reading \cup {"decode error", "panic"}
      BY <1>1, <2>2 DEF VerdictInv
    <3> QED
      BY <2>2, <3>1, <3>2 DEF EncodeSteps, Reading
  <2> QED
    BY <2>1, <2>2
<1>7. step = "encode error" <=>
          /\ job.call = "encode" /\ step \notin {"encode", "encode layer", "encode quad"}
          /\ \/ job.circuit.num_layers # Len(job.circuit.layers)
             \/ \E n \in HeaderNumbers(job.circuit) : n >= SizeLimit
             \/ \E k \in DOMAIN job.circuit.layers :
                   LET layer == job.circuit.layers[k]
                       At(q, i) == IF q = 1 THEN 0 ELSE layer.quads[q - 1][i]
                   IN  \/ layer.logw >= SizeLimit \/ layer.wires >= SizeLimit
                       \/ Len(layer.quads) >= SizeLimit
                       \/ \E q \in DOMAIN layer.quads :
                             \/ layer.quads[q].const >= SizeLimit
                             \/ \E i \in DOMAIN DefaultQuad : layer.quads[q][i] >= WordLimit
                             \/ \E i \in {"gate", "left", "right"} :
                                   LET jump == layer.quads[q][i] - At(q, i)
                                   IN  2 * jump >= SizeLimit \/ -2 * jump >= SizeLimit
  BY <1>6, Zenon DEF Inexpressible
<1>8. step = "decoded" =>
         \A n \in DOMAIN circuits : \A k \in DOMAIN circuits[n].layers :
             LET quads == circuits[n].layers[k].quads
                 indices == IndicesOf(legacy[n].layers[k].quads)
             IN  \A q \in DOMAIN quads : \A i \in DOMAIN DefaultQuad :
                     /\ quads[q][i] % WordLimit = indices[q][i] % WordLimit
                     /\ overflow_checks => quads[q][i] = indices[q][i]
  BY <1>5, Zenon DEF SameIndex
<1> QED
  BY <1>3, <1>4, <1>7, <1>8, Zenon DEF CircuitRoundTrip

\* What Circuit::encode writes is what Circuit::decode reads, or it fails for a circuit that the
\* format cannot hold; what was altered is read as the jumps lead, or not without a panic.
THEOREM CircuitFilesAreRead == LoadingSpec => []CircuitRoundTrip
BY FilesSafe, FilesRoundTrip, PTL

\* A layer as the digest of a circuit has it, and as an artifact describes it.
DigestLayer(layer, constants) ==
    [wires |-> layer.wires, logw |-> layer.logw,
     quads |-> [q \in DOMAIN layer.quads |->
        LET quad == layer.quads[q]
        IN  <<quad.gate, quad.left, quad.right, constants[quad.const + 1]>>]]
DescribedLayer(layer, constants) ==
    LET indices == IndicesIn(layer)
    IN  [wires |-> layer.wires, logw |-> layer.logw,
         quads |-> [n \in DOMAIN indices |->
            <<indices[n].gate, indices[n].left, indices[n].right,
              constants[layer.deltas[Terms(layer)[n] + 1].const + 1]>>]]

\* The digest of what is meant by an LFC2 circuit is of what it describes.
LEMMA MeaningIsDigest ==
    ASSUME NEW c
    PROVE  circuit_id(FromLfc2(c)) = Meaning(c) /\ FromLfc2(c).id = c.id /\ IsCircuit(FromLfc2(c))
<1> DEFINE d == FromLfc2(c)
<1>1. /\ d.field = c.field /\ d.outputs = c.outputs
      /\ d.copies = c.copies /\ d.num_layers = Len(c.layers)
      /\ d.inputs = c.inputs /\ d.public = c.public
      /\ d.boundary = c.boundary /\ d.constants = c.constants /\ d.id = c.id
      /\ d.layers = [k \in DOMAIN c.layers |-> Meant(c.layers[k])]
  BY DEF FromLfc2
<1>2. IsCircuit(d)
  BY DEF FromLfc2, IsCircuit, CircuitFields
<1> HIDE DEF d
<1>3. ASSUME NEW layer, NEW constants
      PROVE  DigestLayer(Meant(layer), constants) = DescribedLayer(layer, constants)
  <2>1. DOMAIN IndicesIn(layer) = DOMAIN Terms(layer)
    BY DEF IndicesIn
  <2>2. /\ Meant(layer).wires = layer.wires /\ Meant(layer).logw = layer.logw
        /\ DOMAIN Meant(layer).quads = DOMAIN Terms(layer)
        /\ \A q \in DOMAIN Terms(layer) :
              /\ Meant(layer).quads[q].gate = IndicesIn(layer)[q].gate
              /\ Meant(layer).quads[q].left = IndicesIn(layer)[q].left
              /\ Meant(layer).quads[q].right = IndicesIn(layer)[q].right
              /\ Meant(layer).quads[q].const = layer.deltas[Terms(layer)[q] + 1].const
    BY DEF Meant
  <2> QED
    BY <2>1, <2>2 DEF DigestLayer, DescribedLayer
<1>4. circuit_id(d) = Meaning(c)
  <2>1. circuit_id(d) =
          [field |-> d.field, outputs |-> d.outputs, copies |-> d.copies,
           num_layers |-> d.num_layers, inputs |-> d.inputs, public |-> d.public,
           boundary |-> d.boundary,
           layers |-> [k \in DOMAIN d.layers |-> DigestLayer(d.layers[k], d.constants)]]
    BY DEF circuit_id, DigestLayer
  <2>2. Meaning(c) =
          [field |-> c.field, outputs |-> c.outputs, copies |-> c.copies,
           num_layers |-> Len(c.layers), inputs |-> c.inputs, public |-> c.public,
           boundary |-> c.boundary,
           layers |-> [k \in DOMAIN c.layers |-> DescribedLayer(c.layers[k], c.constants)]]
    BY DEF Meaning, DescribedLayer
  <2>3. [k \in DOMAIN d.layers |-> DigestLayer(d.layers[k], d.constants)]
          = [k \in DOMAIN c.layers |-> DescribedLayer(c.layers[k], c.constants)]
    BY <1>1, <1>3
  <2> QED
    BY <1>1, <2>1, <2>2, <2>3
<1> QED
  BY <1>1, <1>2, <1>4 DEF d

\* ConversionIsExact in a state of the invariant.
LEMMA FilesConverted == FilesInv => ConversionIsExact
<1> SUFFICES ASSUME FilesInv, job.call = "load" PROVE ConversionIsExact
  BY DEF ConversionIsExact
<1>1. job \in Loads /\ step \in LoadSteps /\ ~altered /\ IsSeq(legacy) /\ step # "panic"
  BY DEF FilesInv, CallInv, LoadSteps
<1>2. ASSUME step \in {"decoded", "loaded"}, NEW n \in 1..2
      PROVE  /\ circuit_id(circuits[n]) = Meaning(job.artifact.circuits[n])
             /\ circuits[n].id = job.artifact.circuits[n].id
  <2>1. step \in Reading
    BY <1>2 DEF Reading
  <2>2. /\ FilesReadable
        /\ \A i \in 1..(at.file - 1) : WholeRead(overflow_checks, circuits[i], legacy[i])
        /\ at.file = Len(legacy) + 1
    BY <1>2, <2>1 DEF FilesInv, ReadingInv
  <2>3. Len(legacy) = 2 /\ WholeFile(legacy[n], Intended(job, n))
    BY <1>1, <2>2 DEF FilesReadable
  <2>4. WholeRead(overflow_checks, circuits[n], legacy[n])
    <3>1. at.file - 1 = 2
      BY <2>2, <2>3
    <3> QED
      BY <2>2, <3>1
  <2>5. Intended(job, n) = FromLfc2(job.artifact.circuits[n])
    BY DEF Intended
  <2>6. PICK c : c = job.artifact.circuits[n]
    OBVIOUS
  <2>7. circuits[n] = FromLfc2(c)
    BY <2>3, <2>4, <2>5, <2>6, MeaningIsDigest, WholeReadIsMeant
  <2> QED
    BY <2>6, <2>7, MeaningIsDigest
<1> QED
  BY <1>1, <1>2 DEF ConversionIsExact

\* The circuits that are decoded are those that the artifact describes, and nothing panics.
THEOREM ConversionsAreExact == LoadingSpec => []ConversionIsExact
BY FilesSafe, FilesConverted, PTL
-----------------------------------------------------------------------------
(* Slot maps.                                                              *)

\* g says of which sequence of s, and of which place in it, each element of F is.
Enumerates(g, s, F, m) ==
    /\ \A i \in 1..Len(F) :
          /\ g[i] \in Nat \X Nat /\ g[i][1] \in 1..m /\ g[i][2] \in 1..Len(s[g[i][1]])
          /\ F[i] = s[g[i][1]][g[i][2]]
    /\ \A i, j \in 1..Len(F) : g[i] = g[j] => i = j
    /\ \A k \in 1..m : \A n \in 1..Len(s[k]) : \E i \in 1..Len(F) : g[i] = <<k, n>>

\* One sequence more behind others.
LEMMA EnumeratesMore ==
    ASSUME NEW T, NEW s \in Seq(Seq(T)), NEW m \in Nat, m + 1 <= Len(s), NEW F \in Seq(T), NEW g,
           Enumerates(g, s, F, m)
    PROVE  \E h : Enumerates(h, s, F \o s[m + 1], m + 1)
<1>1. PICK b \in Seq(T), l \in Nat, r \in Nat :
         /\ b = s[m + 1] /\ l = Len(F) /\ r = Len(b)
         /\ \A k \in 1..(m + 1) : Len(s[k]) \in Nat
  <2>1. m + 1 \in 1..Len(s) /\ \A k \in 1..(m + 1) : k \in 1..Len(s)
    OBVIOUS
  <2>2. \A k \in 1..Len(s) : s[k] \in Seq(T)
    OBVIOUS
  <2>3. \A x \in Seq(T) : Len(x) \in Nat
    OBVIOUS
  <2>4. s[m + 1] \in Seq(T) /\ Len(s[m + 1]) \in Nat /\ Len(F) \in Nat
    BY <2>1, <2>2, <2>3
  <2>5. \A k \in 1..(m + 1) : Len(s[k]) \in Nat
    BY <2>1, <2>2, <2>3
  <2> QED
    BY ONLY <2>4, <2>5
<1>2. /\ F \o b \in Seq(T) /\ Len(F \o b) = l + r
      /\ \A i \in 1..l : (F \o b)[i] = F[i]
      /\ \A i \in (l + 1)..(l + r) : (F \o b)[i] = b[i - l]
  BY <1>1
<1> DEFINE h == [i \in 1..(l + r) |-> IF i <= l THEN g[i] ELSE <<m + 1, i - l>>]
<1>3. \A i \in 1..l : h[i] = g[i]
  OBVIOUS
<1>4. \A i \in (l + 1)..(l + r) : h[i] = <<m + 1, i - l>>
  OBVIOUS
<1>5. \A i \in 1..(l + r) : i \in 1..l \/ i \in (l + 1)..(l + r)
  BY <1>1
<1> HIDE DEF h
<1>6. ASSUME NEW i \in 1..(l + r)
      PROVE  /\ h[i] \in Nat \X Nat /\ h[i][1] \in 1..(m + 1) /\ h[i][2] \in 1..Len(s[h[i][1]])
             /\ (F \o b)[i] = s[h[i][1]][h[i][2]]
  <2>1. CASE i \in 1..l
    <3>1. /\ g[i] \in Nat \X Nat /\ g[i][1] \in 1..m /\ g[i][2] \in 1..Len(s[g[i][1]])
          /\ F[i] = s[g[i][1]][g[i][2]]
      BY <1>1, <2>1 DEF Enumerates
    <3>2. g[i][1] \in 1..(m + 1)
      BY <3>1
    <3> QED
      BY <1>2, <1>3, <2>1, <3>1, <3>2
  <2>2. CASE i \in (l + 1)..(l + r)
    <3>1. m + 1 \in Nat /\ i - l \in Nat /\ m + 1 \in 1..(m + 1) /\ i - l \in 1..r
      BY <2>2
    <3>2. h[i] = <<m + 1, i - l>> /\ h[i][1] = m + 1 /\ h[i][2] = i - l
      BY <1>4, <2>2
    <3> QED
      BY <1>1, <1>2, <2>2, <3>1, <3>2
  <2> QED
    BY <1>5, <2>1, <2>2
<1>7. ASSUME NEW i \in 1..(l + r), NEW j \in 1..(l + r), h[i] = h[j]
      PROVE  i = j
  <2>1. \A n \in 1..l : h[n] = g[n] /\ g[n][1] \in 1..m
    BY <1>1, <1>3 DEF Enumerates
  <2>2. \A n \in (l + 1)..(l + r) : h[n][1] = m + 1 /\ h[n][2] = n - l
    BY <1>4
  <2>3. CASE i \in 1..l /\ j \in 1..l
    BY <1>1, <1>7, <2>1, <2>3 DEF Enumerates
  <2> m + 1 \notin 1..m
    OBVIOUS
  <2>4. CASE i \in 1..l /\ j \in (l + 1)..(l + r)
    <3>1. h[i][1] \in 1..m /\ h[j][1] = m + 1
      BY <2>1, <2>2, <2>4
    <3> QED
      BY <1>7, <3>1
  <2>5. CASE i \in (l + 1)..(l + r) /\ j \in 1..l
    <3>1. h[j][1] \in 1..m /\ h[i][1] = m + 1
      BY <2>1, <2>2, <2>5
    <3> QED
      BY <1>7, <3>1
  <2>6. CASE i \in (l + 1)..(l + r) /\ j \in (l + 1)..(l + r)
    <3>1. i - l = j - l
      BY <1>7, <2>2, <2>6
    <3> QED
      BY <3>1
  <2> QED
    BY <1>5, <2>3, <2>4, <2>5, <2>6
<1>8. ASSUME NEW k \in 1..(m + 1), NEW n \in 1..Len(s[k])
      PROVE  \E i \in 1..(l + r) : h[i] = <<k, n>>
  <2>1. CASE k \in 1..m
    <3>1. PICK i \in 1..l : g[i] = <<k, n>>
      BY <1>1, <2>1 DEF Enumerates
    <3>2. i \in 1..(l + r)
      BY <1>1
    <3> QED
      BY <1>3, <3>1, <3>2
  <2>2. CASE k = m + 1
    <3>1. n \in 1..r
      BY <1>1, <2>2
    <3>2. l + n \in (l + 1)..(l + r) /\ l + n \in 1..(l + r) /\ (l + n) - l = n
      BY <3>1
    <3> QED
      BY <1>4, <2>2, <3>2
  <2>3. k \in 1..m \/ k = m + 1
    OBVIOUS
  <2> QED
    BY <2>1, <2>2, <2>3
<1>9. Enumerates(h, s, F \o b, m + 1)
  <2>1. PICK G : G = F \o b /\ Len(G) = l + r
    BY <1>2
  <2>2. \A i \in 1..(l + r) :
           /\ h[i] \in Nat \X Nat /\ h[i][1] \in 1..(m + 1) /\ h[i][2] \in 1..Len(s[h[i][1]])
           /\ G[i] = s[h[i][1]][h[i][2]]
    BY ONLY <1>6, <2>1
  <2>3. \A i, j \in 1..(l + r) : h[i] = h[j] => i = j
    BY ONLY <1>7
  <2>4. \A k \in 1..(m + 1) : \A n \in 1..Len(s[k]) : \E i \in 1..(l + r) : h[i] = <<k, n>>
    BY ONLY <1>8
  <2>5. PICK e, f : e = l + r /\ f = m + 1 /\ Len(G) = e
    BY ONLY <2>1
  <2>6. Enumerates(h, s, G, f)
    <3>1. \A i \in 1..Len(G) :
             /\ h[i] \in Nat \X Nat /\ h[i][1] \in 1..f /\ h[i][2] \in 1..Len(s[h[i][1]])
             /\ G[i] = s[h[i][1]][h[i][2]]
      BY ONLY <2>2, <2>5, Zenon
    <3>2. \A i, j \in 1..Len(G) : h[i] = h[j] => i = j
      BY ONLY <2>3, <2>5, Zenon
    <3>3. \A k \in 1..f : \A n \in 1..Len(s[k]) : \E i \in 1..Len(G) : h[i] = <<k, n>>
      BY ONLY <2>4, <2>5, Zenon
    <3> QED
      BY ONLY <3>1, <3>2, <3>3, Zenon DEF Enumerates
  <2> QED
    BY ONLY <2>1, <2>5, <2>6
<1> QED
  BY <1>1, <1>9

\* Every place of every sequence is once in their concatenation.
LEMMA FlattenEnumerates ==
    ASSUME NEW T, NEW s \in Seq(Seq(T))
    PROVE  \E g : Enumerates(g, s, FlattenSeq(s), Len(s))
<1>1. CASE Len(s) = 0
  <2>1. s = <<>> /\ FlattenSeq(s) = s
    BY <1>1 DEF FlattenSeq
  <2>2. Len(FlattenSeq(s)) = 0
    BY <1>1, <2>1
  <2>3. 1..0 = {}
    OBVIOUS
  <2> QED
    BY <1>1, <2>2, <2>3 DEF Enumerates
<1>2. CASE Len(s) # 0
  <2>1. PICK n \in Nat : n = Len(s) /\ n # 0 /\ \A k \in 1..n : s[k] \in Seq(T)
    BY <1>2
  <2>2. PICK f : Flattens(f, s, n) /\ FlattenSeq(s) = f[n]
    BY <2>1, FlattenIsLast
  <2> DEFINE Other == {k \in 1..n : ~(f[k] \in Seq(T) /\ \E g : Enumerates(g, s, f[k], k))}
  <2> SUFFICES ASSUME Other # {} PROVE FALSE
    BY <2>1, <2>2
  <2>3. PICK k \in Other : \A j \in Other : k <= j
    <3>1. Other \in SUBSET Nat
      OBVIOUS
    <3> HIDE DEF Other
    <3> QED
      BY <3>1, LeastElement
  <2>4. f[k] = IF k = 1 THEN s[k] ELSE f[k - 1] \o s[k]
    BY <2>2, <2>3 DEF Flattens
  <2>5. PICK m \in Nat : k = m + 1 /\ m = k - 1 /\ m + 1 <= Len(s)
    BY <2>1, <2>3
  <2>6. \E F \in Seq(T) : \E g : Enumerates(g, s, F, m) /\ f[k] = F \o s[k]
    <3>1. CASE m = 0
      <4>1. <<>> \in Seq(T) /\ Len(<<>>) = 0 /\ 1..0 = {}
        BY ONLY TRUE
      <4>2. Enumerates(<<>>, s, <<>>, m)
        BY <3>1, <4>1 DEF Enumerates
      <4>3. f[k] = <<>> \o s[k]
        <5>1. s[k] \in Seq(T)
          BY <2>1, <2>3
        <5>2. <<>> \o s[k] = s[k]
          BY <5>1
        <5> QED
          BY <2>4, <2>5, <3>1, <5>2
      <4> QED
        BY <4>1, <4>2, <4>3
    <3>2. CASE m # 0
      <4>1. m \in 1..n /\ m \notin Other /\ k # 1
        BY <2>1, <2>3, <2>5, <3>2
      <4>2. f[m] \in Seq(T) /\ \E g : Enumerates(g, s, f[m], m)
        BY <4>1
      <4> QED
        BY <2>4, <2>5, <4>1, <4>2
    <3> QED
      BY <3>1, <3>2
  <2>7. PICK F \in Seq(T) : \E g : Enumerates(g, s, F, m) /\ f[k] = F \o s[k]
    BY <2>6
  <2>8. \E h : Enumerates(h, s, F \o s[m + 1], m + 1)
    BY <2>5, <2>7, EnumeratesMore
  <2>9. f[k] \in Seq(T)
    <3>1. s[k] \in Seq(T)
      BY <2>1, <2>3
    <3> QED
      BY <2>7, <3>1
  <2> QED
    BY <2>3, <2>5, <2>7, <2>8, <2>9
<1> QED
  BY <1>1, <1>2

\* The places of a slot map: a run, and how far into it.
Tiles(tiling) == {p \in (DOMAIN tiling) \X Nat : p[2] < tiling[p[1]].len}

\* What a place is mapped to, by where the runs start.
TileAt(start, p) == start[p[1]] + p[2]

\* F are the positions that runs lead to, one after another.
Leads(F, tiling, start) ==
    /\ tiling \in Seq(Runs) /\ \A k \in DOMAIN tiling : start[k] \in Nat
    /\ F = FlattenSeq([k \in DOMAIN tiling |-> [n \in 1..tiling[k].len |-> start[k] + n - 1]])

\* They are those of the places.
LEMMA TilesInOrder ==
    ASSUME NEW tiling, NEW start, NEW F, Leads(F, tiling, start)
    PROVE  /\ DOMAIN F = 1..Len(F) /\ Len(F) \in Nat
           /\ \E b \in Bijection(1..Len(F), Tiles(tiling)) :
                 \A i \in 1..Len(F) : F[i] = TileAt(start, b[i])
<1> /\ tiling \in Seq(Runs) /\ \A k \in DOMAIN tiling : start[k] \in Nat
    /\ F = FlattenSeq([k \in DOMAIN tiling |-> [n \in 1..tiling[k].len |-> start[k] + n - 1]])
  BY DEF Leads
<1>1. PICK m \in Nat : /\ m = Len(tiling) /\ DOMAIN tiling = 1..m
                       /\ \A k \in 1..m : tiling[k] \in Runs /\ tiling[k].len \in Nat
  <2>1. \A r \in Runs : r.len \in Nat
    BY DEF Runs
  <2> QED
    BY <2>1
<1> DEFINE s == [k \in 1..m |-> [n \in 1..tiling[k].len |-> start[k] + n - 1]]
<1>2. /\ s \in Seq(Seq(Nat)) /\ Len(s) = m
      /\ \A k \in 1..m : /\ Len(s[k]) = tiling[k].len
                         /\ \A n \in 1..tiling[k].len : s[k][n] = start[k] + n - 1
  <2>1. ASSUME NEW k \in 1..m
        PROVE  /\ s[k] \in Seq(Nat) /\ Len(s[k]) = tiling[k].len
               /\ \A n \in 1..tiling[k].len : s[k][n] = start[k] + n - 1
    <3>1. PICK l \in Nat, a \in Nat : l = tiling[k].len /\ a = start[k]
      BY <1>1
    <3>2. s[k] = [n \in 1..l |-> a + n - 1]
      BY <3>1
    <3>3. \A n \in 1..l : a + n - 1 \in Nat
      OBVIOUS
    <3>4. [n \in 1..l |-> a + n - 1] \in Seq(Nat) /\ Len([n \in 1..l |-> a + n - 1]) = l
      BY <3>3
    <3> QED
      BY <3>1, <3>2, <3>4
  <2> HIDE DEF s
  <2>2. s = [k \in 1..m |-> s[k]]
    BY DEF s
  <2>3. IsSeq(s) /\ Len(s) = m /\ DOMAIN s = 1..m
    BY <2>2, FunctionIsSeq
  <2>4. [k \in 1..m |-> s[k]] \in Seq(Seq(Nat))
    BY <2>1
  <2> QED
    BY <2>1, <2>2, <2>3, <2>4
<1>3. F = FlattenSeq(s)
  BY <1>1
<1> HIDE DEF s
<1>4. F \in Seq(Nat)
  BY <1>2, <1>3, FlattenIsSeq
<1>5. PICK l \in Nat : l = Len(F) /\ DOMAIN F = 1..l
  <2>1. Len(F) \in Nat /\ F = [k \in 1..Len(F) |-> F[k]]
    BY <1>4, SeqIsSeq DEF IsSeq
  <2> QED
    BY <2>1, FunctionIsSeq
<1>6. PICK g : Enumerates(g, s, F, m)
  BY <1>2, <1>3, FlattenEnumerates
<1> DEFINE b == [i \in 1..l |-> <<g[i][1], g[i][2] - 1>>]
<1>7. ASSUME NEW i \in 1..l
      PROVE  /\ g[i] \in Nat \X Nat /\ g[i][1] \in 1..m /\ g[i][2] \in 1..tiling[g[i][1]].len
             /\ F[i] = s[g[i][1]][g[i][2]]
             /\ b[i] \in Tiles(tiling) /\ F[i] = TileAt(start, b[i])
  <2>1. /\ g[i] \in Nat \X Nat /\ g[i][1] \in 1..m /\ g[i][2] \in 1..Len(s[g[i][1]])
        /\ F[i] = s[g[i][1]][g[i][2]]
    BY <1>5, <1>6 DEF Enumerates
  <2>2. PICK k \in 1..m, n \in Nat, len \in Nat, a \in Nat :
           k = g[i][1] /\ n = g[i][2] /\ len = tiling[k].len /\ a = start[k] /\ Len(s[k]) = len
    BY <1>1, <1>2, <2>1
  <2>3. n \in 1..len /\ F[i] = a + n - 1
    BY <1>2, <2>1, <2>2
  <2>4. b[i] = <<k, n - 1>> /\ n - 1 \in Nat /\ n - 1 < len /\ a + n - 1 = a + (n - 1)
    <3>1. b[i] = <<g[i][1], g[i][2] - 1>>
      OBVIOUS
    <3>2. n - 1 \in Nat /\ n - 1 < len /\ a + n - 1 = a + (n - 1)
      BY ONLY <2>3, n \in Nat, len \in Nat, a \in Nat
    <3> QED
      BY ONLY <2>2, <3>1, <3>2
  <2>5. b[i] \in Tiles(tiling)
    BY <1>1, <2>2, <2>4 DEF Tiles
  <2>6. F[i] = TileAt(start, b[i])
    BY <2>2, <2>3, <2>4 DEF TileAt
  <2> QED
    BY <2>1, <2>2, <2>3, <2>5, <2>6
<1>8. ASSUME NEW i \in 1..l, NEW j \in 1..l, b[i] = b[j] PROVE i = j
  <2>1. g[i] \in Nat \X Nat /\ g[j] \in Nat \X Nat
    BY <1>7
  <2>2. b[i] = <<g[i][1], g[i][2] - 1>> /\ b[j] = <<g[j][1], g[j][2] - 1>>
    OBVIOUS
  <2>3. g[i] = g[j]
    <3>1. PICK x \in Nat, y \in Nat, z \in Nat, w \in Nat : g[i] = <<x, y>> /\ g[j] = <<z, w>>
      <4>1. \A t \in Nat \X Nat : t[1] \in Nat /\ t[2] \in Nat /\ t = <<t[1], t[2]>>
        OBVIOUS
      <4>2. /\ g[i] = <<g[i][1], g[i][2]>> /\ g[j] = <<g[j][1], g[j][2]>>
            /\ g[i][1] \in Nat /\ g[i][2] \in Nat /\ g[j][1] \in Nat /\ g[j][2] \in Nat
        BY ONLY <2>1, <4>1
      <4> QED
        BY ONLY <4>2
    <3>2. <<x, y - 1>> = <<z, w - 1>>
      BY ONLY <1>8, <2>2, <3>1
    <3>3. x = z /\ y - 1 = w - 1
      BY ONLY <3>2
    <3> QED
      BY <3>1, <3>3
  <2> QED
    BY <1>5, <1>6, <2>3 DEF Enumerates
<1>9. ASSUME NEW p \in Tiles(tiling) PROVE \E i \in 1..l : b[i] = p
  <2>1. PICK k \in 1..m, n \in Nat, len \in Nat :
           p = <<k, n>> /\ len = tiling[k].len /\ n < len /\ Len(s[k]) = len
    <3>1. p \in (1..m) \X Nat /\ p[2] < tiling[p[1]].len
      BY <1>1 DEF Tiles
    <3>2. PICK k \in 1..m, n \in Nat : p = <<k, n>>
      <4>1. p = <<p[1], p[2]>> /\ p[1] \in 1..m /\ p[2] \in Nat
        BY <3>1
      <4> QED
        BY ONLY <4>1
    <3> QED
      BY <1>1, <1>2, <3>1, <3>2
  <2>2. n + 1 \in 1..Len(s[k]) /\ (n + 1) - 1 = n
    BY <2>1
  <2>3. PICK i \in 1..l : g[i] = <<k, n + 1>>
    BY <1>5, <1>6, <2>2 DEF Enumerates
  <2>4. b[i] = <<k, n>>
    <3>1. b[i] = <<g[i][1], g[i][2] - 1>>
      OBVIOUS
    <3> QED
      BY ONLY <2>2, <2>3, <3>1
  <2> QED
    BY <2>1, <2>4
<1>10. b = [i \in 1..l |-> b[i]]
  OBVIOUS
<1> HIDE DEF b
<1>11. b \in [1..l -> Tiles(tiling)]
  BY <1>7, <1>10
<1>12. b \in Bijection(1..l, Tiles(tiling))
  BY <1>8, <1>9, <1>11 DEF Bijection, Injection, Surjection, IsInjective
<1> QED
  BY <1>5, <1>7, <1>12

\* Different places have different positions, and each position is that of one place.
Different(S, T) == \A p, q \in T : S[p] = S[q] => p = q
OneForEach(S, T, P) == \A v \in P : \E p \in T : {q \in T : S[q] = v} = {p}

\* Places have different positions below their number just if each of these is that of one.
LEMMA OnePlaceForEach ==
    ASSUME NEW T, IsFiniteSet(T), NEW N, N = Cardinality(T), NEW B \in [T -> Nat]
    PROVE  Different(B, T) /\ (\A p \in T : B[p] < N) <=> OneForEach(B, T, 0..(N - 1))
<1>1. N \in Nat /\ IsFiniteSet(0..(N - 1)) /\ Cardinality(0..(N - 1)) = N
  <2>1. N \in Nat
    BY FS_CardinalityType
  <2>2. /\ IsFiniteSet(0..(N - 1))
        /\ Cardinality(0..(N - 1)) = IF 0 > N - 1 THEN 0 ELSE (N - 1) - 0 + 1
    <3>1. 0 \in Int /\ N - 1 \in Int
      BY <2>1
    <3> QED
      BY ONLY <3>1, FS_Interval
  <2> QED
    BY <2>1, <2>2
<1>2. ASSUME \A p, q \in T : B[p] = B[q] => p = q, \A p \in T : B[p] < N,
             NEW b \in 0..(N - 1)
      PROVE  \E p \in T : {q \in T : B[q] = b} = {p}
  <2>1. \A p \in T : B[p] \in 0..(N - 1)
    <3>1. ASSUME NEW p \in T PROVE B[p] \in 0..(N - 1)
      <4>1. B[p] \in Nat /\ B[p] < N
        BY <1>2
      <4> QED
        BY <1>1, <4>1
    <3> QED
      BY <3>1
  <2>2. B \in Injection(T, 0..(N - 1))
    BY <1>2, <2>1 DEF Injection, IsInjective
  <2>3. B \in Surjection(T, 0..(N - 1))
    BY <1>1, <2>2, FS_Injection
  <2>4. PICK p \in T : B[p] = b
    BY <2>3 DEF Surjection
  <2>5. {q \in T : B[q] = b} = {p}
    BY <1>2, <2>4
  <2> QED
    BY <2>5
<1>3. ASSUME \A b \in 0..(N - 1) : \E p \in T : {q \in T : B[q] = b} = {p}
      PROVE  (\A p, q \in T : B[p] = B[q] => p = q) /\ (\A p \in T : B[p] < N)
  <2> DEFINE h == [b \in 0..(N - 1) |-> CHOOSE p \in T : {q \in T : B[q] = b} = {p}]
  <2>1. ASSUME NEW b \in 0..(N - 1)
        PROVE  h[b] \in T /\ {q \in T : B[q] = b} = {h[b]} /\ B[h[b]] = b
    <3>1. h[b] \in T /\ {q \in T : B[q] = b} = {h[b]}
      BY <1>3
    <3> HIDE DEF h
    <3>2. h[b] \in {q \in T : B[q] = b}
      BY <3>1
    <3> QED
      BY <3>1, <3>2
  <2>2. h \in [0..(N - 1) -> T]
    <3>1. h = [b \in 0..(N - 1) |-> h[b]]
      OBVIOUS
    <3> HIDE DEF h
    <3> QED
      BY <2>1, <3>1
  <2> HIDE DEF h
  <2>3. h \in Injection(0..(N - 1), T)
    <3>1. \A a, b \in 0..(N - 1) : h[a] = h[b] => a = b
      BY <2>1
    <3> QED
      BY <2>2, <3>1 DEF Injection, IsInjective
  <2>4. h \in Surjection(0..(N - 1), T)
    BY <1>1, <2>3, FS_Injection
  <2>5. \A p \in T : \E b \in 0..(N - 1) : h[b] = p
    BY <2>4 DEF Surjection
  <2>6. ASSUME NEW p \in T PROVE B[p] < N
    <3>1. PICK b \in 0..(N - 1) : h[b] = p
      BY <2>5
    <3> QED
      BY <1>1, <2>1, <3>1
  <2>7. ASSUME NEW p \in T, NEW q \in T, B[p] = B[q] PROVE p = q
    <3>1. PICK a \in 0..(N - 1), b \in 0..(N - 1) : h[a] = p /\ h[b] = q
      BY <2>5
    <3> QED
      BY <2>1, <2>7, <3>1
  <2> QED
    BY <2>6, <2>7
<1> QED
  BY <1>2, <1>3 DEF Different, OneForEach

\* The same of places with the positions of a set.
LEMMA OnePlaceForEachOf ==
    ASSUME NEW T, NEW P, NEW S
    PROVE  Different(S, T) /\ {S[p] : p \in T} = P
             <=> (\A p \in T : S[p] \in P) /\ OneForEach(S, T, P)
<1>1. ASSUME \A p, q \in T : S[p] = S[q] => p = q, {S[p] : p \in T} = P
      PROVE  /\ \A p \in T : S[p] \in P
             /\ \A v \in P : \E p \in T : {q \in T : S[q] = v} = {p}
  <2>1. ASSUME NEW v \in P PROVE \E p \in T : {q \in T : S[q] = v} = {p}
    <3>1. PICK p \in T : S[p] = v
      BY <1>1
    <3>2. {q \in T : S[q] = v} = {p}
      BY <1>1, <3>1
    <3> QED
      BY <3>2
  <2> QED
    BY <1>1, <2>1
<1>2. ASSUME \A p \in T : S[p] \in P,
             \A v \in P : \E p \in T : {q \in T : S[q] = v} = {p}
      PROVE  (\A p, q \in T : S[p] = S[q] => p = q) /\ {S[p] : p \in T} = P
  <2>1. ASSUME NEW p \in T, NEW q \in T, S[p] = S[q] PROVE p = q
    <3>1. PICK v \in P : v = S[p]
      BY <1>2
    <3>2. PICK r \in T : {x \in T : S[x] = v} = {r}
      BY <1>2
    <3>3. p \in {x \in T : S[x] = v} /\ q \in {x \in T : S[x] = v}
      BY <2>1, <3>1
    <3> QED
      BY <3>2, <3>3
  <2>2. ASSUME NEW v \in P PROVE \E p \in T : S[p] = v
    <3>1. PICK r \in T : {x \in T : S[x] = v} = {r}
      BY <1>2
    <3>2. r \in {x \in T : S[x] = v}
      BY <3>1
    <3> QED
      BY <3>2
  <2> QED
    BY <1>2, <2>1, <2>2
<1> QED
  BY <1>1, <1>2 DEF Different, OneForEach

\* What holds of the positions holds of the places.
LEMMA TilesMapped ==
    ASSUME NEW tiling, NEW start, NEW F, Leads(F, tiling, start), NEW V,
           V = [p \in Tiles(tiling) |-> TileAt(start, p)]
    PROVE  /\ IsFiniteSet(Tiles(tiling)) /\ Cardinality(Tiles(tiling)) = Len(F)
           /\ V \in [Tiles(tiling) -> Nat]
           /\ IsInjective(F) <=> Different(V, Tiles(tiling))
           /\ ToSet(F) = {V[p] : p \in Tiles(tiling)}
<1>1. PICK l \in Nat : l = Len(F) /\ DOMAIN F = 1..l
  BY TilesInOrder
<1>2. PICK T : T = Tiles(tiling)
  OBVIOUS
<1>3. PICK b \in Bijection(1..l, T) : \A i \in 1..l : F[i] = TileAt(start, b[i])
  BY <1>1, <1>2, TilesInOrder
<1>4. /\ b \in [1..l -> T] /\ \A i, j \in 1..l : b[i] = b[j] => i = j
      /\ \A p \in T : \E i \in 1..l : b[i] = p
  BY <1>3 DEF Bijection, Injection, Surjection, IsInjective
<1>5. IsFiniteSet(T) /\ Cardinality(T) = l
  <2>1. IsFiniteSet(1..l) /\ Cardinality(1..l) = IF 1 > l THEN 0 ELSE l - 1 + 1
    <3>1. 1 \in Int /\ l \in Int
      OBVIOUS
    <3> QED
      BY ONLY <3>1, FS_Interval
  <2>2. Cardinality(1..l) = l
    BY <2>1
  <2>3. ExistsBijection(1..l, T)
    BY <1>3 DEF ExistsBijection
  <2> QED
    BY <2>1, <2>2, <2>3, FS_Bijection
<1>6. V \in [T -> Nat]
  <2>1. ASSUME NEW p \in T PROVE TileAt(start, p) \in Nat
    <3>1. p[1] \in DOMAIN tiling /\ p[2] \in Nat
      BY <1>2 DEF Tiles
    <3>2. PICK x \in Nat, y \in Nat : x = start[p[1]] /\ y = p[2]
      BY <3>1 DEF Leads
    <3> QED
      BY <3>2 DEF TileAt
  <2> QED
    BY <1>2, <2>1
<1>7. \A i \in 1..l : b[i] \in T /\ F[i] = V[b[i]]
  BY <1>2, <1>3, <1>4
<1>8. IsInjective(F) <=> Different(V, T)
  <2>1. ASSUME IsInjective(F), NEW p \in T, NEW q \in T, V[p] = V[q] PROVE p = q
    <3>1. PICK i \in 1..l, j \in 1..l : b[i] = p /\ b[j] = q
      BY <1>4
    <3>2. F[i] = F[j]
      BY <1>7, <2>1, <3>1
    <3>3. i = j
      BY <1>1, <2>1, <3>2 DEF IsInjective
    <3> QED
      BY <3>1, <3>3
  <2>2. ASSUME \A p, q \in T : V[p] = V[q] => p = q, NEW i \in 1..l, NEW j \in 1..l, F[i] = F[j]
        PROVE  i = j
    <3>1. b[i] = b[j]
      BY <1>7, <2>2
    <3> QED
      BY <1>4, <3>1
  <2> QED
    BY <1>1, <2>1, <2>2 DEF IsInjective, Different
<1>9. ToSet(F) = {V[p] : p \in T}
  <2>1. ToSet(F) = {F[i] : i \in 1..l}
    BY <1>1 DEF ToSet
  <2>2. ASSUME NEW i \in 1..l PROVE F[i] \in {V[p] : p \in T}
    BY <1>7
  <2>3. ASSUME NEW p \in T PROVE V[p] \in {F[i] : i \in 1..l}
    <3>1. PICK i \in 1..l : b[i] = p
      BY <1>4
    <3> QED
      BY <1>7, <3>1
  <2> QED
    BY <2>1, <2>2, <2>3
<1> QED
  BY <1>1, <1>2, <1>5, <1>6, <1>8, <1>9

\* What the builder of the slot map accepts is what gives every private slot its bit.
LEMMA BuildIs ==
    ASSUME NEW entry, entry.runs \in Seq(Runs), {entry.hash_ninputs, entry.hash_npub} \subseteq Nat
    PROVE  build(entry) <=> EverySlotHasItsBit(entry)
<1>1. PICK tiling \in Seq(Runs), max \in Nat, min \in Nat :
         tiling = entry.runs /\ max = entry.hash_ninputs /\ min = entry.hash_npub
  OBVIOUS
<1>2. PICK T : T = Tiles(tiling)
  OBVIOUS
<1> DEFINE slot == [k \in DOMAIN tiling |-> tiling[k].slot]
           from == [k \in DOMAIN tiling |-> tiling[k].from]
           S == [p \in T |-> TileAt(slot, p)]
           B == [p \in T |-> TileAt(from, p)]
           Private == min..(max - 7)
<1>3. \A k \in DOMAIN tiling : /\ tiling[k].slot \in Nat /\ tiling[k].from \in Nat
                               /\ tiling[k].len \in Nat
  <2>1. \A r \in Runs : r.slot \in Nat /\ r.from \in Nat /\ r.len \in Nat
    BY DEF Runs
  <2>2. \A k \in DOMAIN tiling : tiling[k] \in Runs
    OBVIOUS
  <2> QED
    BY <2>1, <2>2
<1>4. \A p \in T : /\ p[1] \in DOMAIN tiling /\ p[2] \in Nat /\ p = <<p[1], p[2]>>
                   /\ p[2] < tiling[p[1]].len
                   /\ S[p] = tiling[p[1]].slot + p[2] /\ B[p] = tiling[p[1]].from + p[2]
  <2>1. ASSUME NEW p \in T
        PROVE  /\ p[1] \in DOMAIN tiling /\ p[2] \in Nat /\ p = <<p[1], p[2]>>
               /\ p[2] < tiling[p[1]].len
    BY <1>2 DEF Tiles
  <2>2. ASSUME NEW p \in T
        PROVE  S[p] = tiling[p[1]].slot + p[2] /\ B[p] = tiling[p[1]].from + p[2]
    BY <2>1 DEF TileAt
  <2> QED
    BY <2>1, <2>2
<1>5. /\ IsFiniteSet(T) /\ Cardinality(T) = Len(SemanticBits(tiling)) /\ B \in [T -> Nat]
      /\ IsInjective(SemanticBits(tiling)) <=> Different(B, T)
      /\ ToSet(SemanticBits(tiling)) = {B[p] : p \in T}
  <2>1. SemanticBits(tiling)
          = FlattenSeq([k \in DOMAIN tiling |-> [n \in 1..tiling[k].len |-> from[k] + n - 1]])
    BY DEF SemanticBits
  <2>2. \A k \in DOMAIN tiling : from[k] \in Nat
    BY <1>3
  <2>3. B = [p \in Tiles(tiling) |-> TileAt(from, p)]
    BY <1>2
  <2> HIDE DEF from, B
  <2>4. Leads(SemanticBits(tiling), tiling, from)
    BY <2>1, <2>2 DEF Leads
  <2> QED
    BY <1>2, <2>3, <2>4, TilesMapped
<1>6. /\ S \in [T -> Nat]
      /\ IsInjective(Slots(tiling)) <=> Different(S, T)
      /\ ToSet(Slots(tiling)) = {S[p] : p \in T}
  <2>1. Slots(tiling)
          = FlattenSeq([k \in DOMAIN tiling |-> [n \in 1..tiling[k].len |-> slot[k] + n - 1]])
    BY DEF Slots
  <2>2. \A k \in DOMAIN tiling : slot[k] \in Nat
    BY <1>3
  <2>3. S = [p \in Tiles(tiling) |-> TileAt(slot, p)]
    BY <1>2
  <2> HIDE DEF slot, S
  <2>4. Leads(Slots(tiling), tiling, slot)
    BY <2>1, <2>2 DEF Leads
  <2> QED
    BY <1>2, <2>3, <2>4, TilesMapped
<1> DEFINE Places_ == {<<k, n>> : k \in DOMAIN tiling, n \in 0..max}
           Used == {p \in Places_ : p[2] < tiling[p[1]].len}
           Covered(U) == /\ \A p \in U : tiling[p[1]].slot + p[2] \in Private
                         /\ \A v \in Private : \E p \in U :
                               {q \in U : tiling[q[1]].slot + q[2] = v} = {p}
           Read(U) == \A bit \in 0..(Cardinality(U) - 1) : \E p \in U :
                         {q \in U : tiling[q[1]].from + q[2] = bit} = {p}
<1>7. EverySlotHasItsBit(entry) <=> Covered(Used) /\ Read(Used)
  BY <1>1 DEF EverySlotHasItsBit
<1>8. Used = {p \in T : p[2] <= max}
  <2>1. ASSUME NEW p \in Used PROVE p \in T /\ p[2] <= max
    <3>1. PICK k \in DOMAIN tiling, n \in 0..max : p = <<k, n>>
      OBVIOUS
    <3>2. n < tiling[k].len
      BY <3>1
    <3> QED
      BY <1>2, <3>1, <3>2 DEF Tiles
  <2>2. ASSUME NEW p \in T, p[2] <= max PROVE p \in Used
    <3>1. p[2] \in Nat /\ p = <<p[1], p[2]>> /\ p[1] \in DOMAIN tiling /\ p[2] < tiling[p[1]].len
      BY <1>4
    <3>2. p \in Places_
      <4>1. PICK n \in Nat : n = p[2]
        BY <3>1
      <4>2. p[2] \in 0..max
        BY <2>2, <4>1
      <4> QED
        BY <3>1, <4>2
    <3> QED
      BY <3>1, <3>2
  <2> HIDE DEF Used
  <2> QED
    BY <2>1, <2>2
<1> HIDE DEF Places_, Used
<1>9. build(entry) <=> /\ Different(B, T) /\ \A p \in T : B[p] < Cardinality(T)
                       /\ Different(S, T)
                       /\ {S[p] : p \in T} = Private
  <2>1. (\A bit \in ToSet(SemanticBits(tiling)) : bit < Len(SemanticBits(tiling)))
          <=> \A p \in T : B[p] < Cardinality(T)
    BY <1>5
  <2> HIDE DEF S, B
  <2> QED
    BY <1>1, <1>5, <1>6, <2>1 DEF build
<1>10. Covered(T) <=> (\A p \in T : S[p] \in Private) /\ OneForEach(S, T, Private)
  <2> HIDE DEF S, B, Private
  <2>1. \A v : {q \in T : tiling[q[1]].slot + q[2] = v} = {q \in T : S[q] = v}
    BY <1>4
  <2> QED
    BY <1>4, <2>1 DEF OneForEach
<1>11. Read(T) <=> OneForEach(B, T, 0..(Cardinality(T) - 1))
  <2> HIDE DEF S, B, Private
  <2>1. \A v : {q \in T : tiling[q[1]].from + q[2] = v} = {q \in T : B[q] = v}
    BY <1>4
  <2> QED
    BY <2>1 DEF OneForEach
<1> HIDE DEF S, B, Covered, Read
<1>12. build(entry) <=> Covered(T) /\ Read(T)
  <2>1. PICK N : N = Cardinality(T)
    OBVIOUS
  <2>2. Different(B, T) /\ (\A p \in T : B[p] < N) <=> OneForEach(B, T, 0..(N - 1))
    BY ONLY <1>5, <2>1, OnePlaceForEach
  <2> HIDE DEF Private
  <2>3. Different(S, T) /\ {S[p] : p \in T} = Private
             <=> (\A p \in T : S[p] \in Private) /\ OneForEach(S, T, Private)
    BY ONLY OnePlaceForEachOf
  <2> QED
    BY ONLY <1>9, <1>10, <1>11, <2>1, <2>2, <2>3
<1>13. ASSUME Covered(T) PROVE Used = T
  <2>1. ASSUME NEW p \in T PROVE p[2] <= max
    <3>1. PICK a \in Nat, n \in Nat : a = tiling[p[1]].slot /\ n = p[2]
      BY <1>3, <1>4
    <3>2. a + n \in min..(max - 7)
      BY <1>13, <3>1 DEF Covered
    <3>3. n <= max
      BY ONLY <3>2, a \in Nat, n \in Nat, max \in Nat, min \in Nat
    <3> QED
      BY <3>1, <3>3
  <2> QED
    BY <1>8, <2>1
<1>14. ASSUME Covered(Used) PROVE Used = T
  <2>1. ASSUME NEW p \in T, ~(p[2] <= max) PROVE FALSE
    <3>1. PICK k \in DOMAIN tiling, n \in Nat, a \in Nat, l \in Nat :
             p = <<k, n>> /\ p[2] = n /\ a = tiling[k].slot /\ l = tiling[k].len /\ n < l
      <4>1. /\ p[1] \in DOMAIN tiling /\ p[2] \in Nat /\ p = <<p[1], p[2]>>
            /\ p[2] < tiling[p[1]].len
        BY <1>4
      <4> QED
        BY ONLY <1>3, <4>1
    <3>2. max < l /\ max <= max
      BY <2>1, <3>1
    <3>3. <<k, max>> \in Used
      <4>1. <<k, max>> \in T
        BY <1>2, <3>1, <3>2 DEF Tiles
      <4> QED
        BY <1>8, <3>2, <4>1
    <3>4. a + max \in min..(max - 7)
      <4>1. <<k, max>>[1] = k /\ <<k, max>>[2] = max
        OBVIOUS
      <4>2. tiling[<<k, max>>[1]].slot + <<k, max>>[2] \in Private
        BY <1>14, <3>3 DEF Covered
      <4> QED
        BY <3>1, <4>1, <4>2
    <3> QED
      BY ONLY <3>4, a \in Nat, max \in Nat, min \in Nat
  <2> QED
    BY <1>8, <2>1
<1> QED
  BY ONLY <1>7, <1>12, <1>13, <1>14

-----------------------------------------------------------------------------
(* What is known of an artifact as it is loaded.                           *)

\* The header of a circuit is within the limits, and so is a layer.
HeaderWithin(c) ==
    /\ c.header = "LFC2" /\ c.copies = 1 /\ c.public <= c.inputs
    /\ \A n \in {c.outputs, c.boundary, c.inputs} : n <= MAX_WIRES
    /\ Len(c.layers) <= MAX_LAYERS /\ Len(c.constants) <= MAX_CONSTANTS
LayerWithin(c, layer) ==
    /\ layer.logw <= 63 /\ layer.wires <= MAX_WIRES /\ Len(layer.deltas) <= MAX_DELTAS
    /\ RefersWithin(c, layer)

\* A circuit is, as far as its first m layers.
Checked(c, m) ==
    /\ HeaderWithin(c) /\ m <= Len(c.layers) /\ \A k \in 1..m : LayerWithin(c, c.layers[k])

\* Its terms lead to words, by jumps that are short.
Short(layer) ==
    \A n \in DOMAIN Terms(layer) : \A i \in {"gate", "left", "right"} :
        /\ IndicesIn(layer)[n][i] \in Words
        /\ Signed(DeltaOf(layer, n)[i]) \in (1 - SizeLimit \div 2)..(SizeLimit \div 2 - 1)

\* The terms of its first m layers.
TermsUpTo(c, m) == SumTo([k \in DOMAIN c.layers |-> Len(Terms(c.layers[k]))], m)

\* The field of a circuit of a pair.
FieldOf(n) == IF n = 1 THEN "P256" ELSE "GF2_128"

\* The descriptor names a usable entry.
Listed(entry, params) ==
    /\ \A k \in DOMAIN params : params[k] = entry[k]
    /\ build(entry) /\ check_layout(entry)

\* Both circuits were converted.
Converted(artifact) ==
    /\ artifact.rest = 0 /\ Len(artifact.circuits) = 2
    /\ \A n \in 1..2 : Checked(artifact.circuits[n], Len(artifact.circuits[n].layers))
    /\ TermsOf(artifact.circuits[1]) + TermsOf(artifact.circuits[2]) <= MAX_TERMS

Converting == {"convert", "convert layer", "convert term"}
Decoding == {"decode", "decode layer", "decode quad", "decoded"}

\* What each step of a load knows of the entry, of the artifact, and of the answer.
EntryInv ==
    /\ step \in Converting \cup Decoding \cup {"profile"} => Listed(job.entry, job.params)
    /\ step \in Converting \cup Decoding => job.artifact = job.entry.artifact
    /\ legacy # <<>> => job.artifact = job.entry.artifact
ConvertInv ==
    /\ step \in {"load", "profile", "convert"} => total_terms = 0
    /\ step = "convert layer" =>
          Checked(Source, at.layer - 1) /\ total_terms = TermsUpTo(Source, at.layer - 1)
    /\ step = "convert term" =>
          Checked(Source, at.layer) /\ total_terms = TermsUpTo(Source, at.layer)
    /\ step \in Converting =>
          \A n \in 1..(at.file - 1) :
             /\ n <= Len(job.artifact.circuits)
             /\ Checked(job.artifact.circuits[n], Len(job.artifact.circuits[n].layers))
DecodeInv ==
    /\ step \in Decoding => Converted(job.artifact)
    /\ step \in {"decode", "decoded"} =>
          \A n \in 1..(at.file - 1) : job.artifact.circuits[n].field = FieldOf(n)
    /\ step \in {"decode layer", "decode quad"} =>
          \A n \in 1..at.file : job.artifact.circuits[n].field = FieldOf(n)
OutcomeInv ==
    /\ step = "loaded" => Described(job.entry, job.params, job.artifact)
    /\ step \in {"refused", "decode error"} => ~Described(job.entry, job.params, job.artifact)

LoadInv == job.call = "load" => EntryInv /\ ConvertInv /\ DecodeInv /\ OutcomeInv

\* The entry and the circuits of a load.
LEMMA LoadIs ==
    ASSUME job \in Loads
    PROVE  /\ DOMAIN job.params = Descriptors
           /\ build(job.entry) <=> EverySlotHasItsBit(job.entry)
           /\ Len(job.artifact.circuits) \in Nat
<1>1. /\ DOMAIN job.params = Descriptors /\ job.entry.runs \in Seq(Runs)
      /\ {job.entry.hash_ninputs, job.entry.hash_npub} \subseteq Nat
      /\ Len(job.artifact.circuits) \in Nat
  BY LoadsAssumption
<1> QED
  BY <1>1, BuildIs

\* What is not described is so whatever it is called.
LEMMA ListedIs ==
    ASSUME job \in Loads
    PROVE  Described(job.entry, job.params, job.artifact)
             => Listed(job.entry, job.params) /\ job.artifact = job.entry.artifact
                /\ job.artifact.rest = 0 /\ Len(job.artifact.circuits) = 2
BY LoadIs DEF Described, Listed

\* A circuit of an artifact that is described.
DescribedCircuit(n) ==
    /\ job.artifact.circuits[n].field = FieldOf(n) /\ Expressible(job.artifact.circuits[n])
    /\ job.artifact.circuits[n].id = Meaning(job.artifact.circuits[n])

\* Both are.
LEMMA DescribedIs ==
    ASSUME Described(job.entry, job.params, job.artifact)
    PROVE  /\ \A n \in 1..2 : DescribedCircuit(n)
           /\ TermsOf(job.artifact.circuits[1]) + TermsOf(job.artifact.circuits[2]) <= MAX_TERMS
<1>1. DescribedCircuit(1) /\ DescribedCircuit(2)
  BY DEF Described, DescribedCircuit, FieldOf
<1>2. TermsOf(job.artifact.circuits[1]) + TermsOf(job.artifact.circuits[2]) <= MAX_TERMS
  BY DEF Described
<1>3. \A n \in 1..2 : n = 1 \/ n = 2
  OBVIOUS
<1> QED
  BY <1>1, <1>2, <1>3

\* To refer to what exists is to refer to an index below a number.
LEMMA RefersIs ==
    ASSUME NEW c, c.constants \in Seq(Nat), NEW layer \in Lfc2Layers
    PROVE  RefersToWhatExists(c, layer) <=> RefersWithin(c, layer)
<1>1. PICK n \in Nat, m \in Nat, j \in Nat, l \in Nat :
         /\ n = Len(layer.deltas) /\ DOMAIN layer.deltas = 1..n
         /\ \A d \in 1..n : layer.deltas[d] \in Deltas
         /\ m = Len(layer.segments) /\ DOMAIN layer.segments = 1..m
         /\ \A s \in 1..m : layer.segments[s] \in Seq(Nat)
         /\ j = Len(layer.tokens) /\ DOMAIN layer.tokens = 1..j
         /\ \A t \in 1..j : layer.tokens[t] \in Nat
         /\ l = Len(c.constants) /\ DOMAIN c.constants = 1..l
  <2>1. \A U : \A s \in Seq(U) : /\ Len(s) \in Nat /\ DOMAIN s = 1..Len(s)
                                  /\ \A k \in 1..Len(s) : s[k] \in U
    OBVIOUS
  <2>2. /\ layer.deltas \in Seq(Deltas) /\ layer.segments \in Seq(Seq(Nat))
        /\ layer.tokens \in Seq(Nat)
    BY Lfc2LayerIs
  <2> QED
    BY <2>1, <2>2
<1>2. \A x \in Nat, y \in Nat : x + 1 \in 1..y <=> x < y
  OBVIOUS
<1>3. (\A d \in DOMAIN layer.deltas : layer.deltas[d].const + 1 \in DOMAIN c.constants)
        <=> \A d \in DOMAIN layer.deltas : layer.deltas[d].const < Len(c.constants)
  <2>1. \A d \in 1..n : layer.deltas[d].const \in Nat
    <3>1. \A delta \in Deltas : delta.const \in Nat
      BY DEF Deltas
    <3> QED
      BY <1>1, <3>1
  <2> QED
    BY <1>1, <1>2, <2>1
<1>4. (\A s \in DOMAIN layer.segments : \A d \in ToSet(layer.segments[s]) :
          d + 1 \in DOMAIN layer.deltas)
        <=> \A s \in DOMAIN layer.segments : \A i \in DOMAIN layer.segments[s] :
               layer.segments[s][i] < Len(layer.deltas)
  <2>1. ASSUME NEW s \in 1..m
        PROVE  (\A d \in ToSet(layer.segments[s]) : d + 1 \in DOMAIN layer.deltas)
                 <=> \A i \in DOMAIN layer.segments[s] :
                        layer.segments[s][i] < Len(layer.deltas)
    <3>1. PICK segment \in Seq(Nat) : segment = layer.segments[s]
      BY <1>1
    <3>2. \A i \in DOMAIN segment : segment[i] \in Nat
      OBVIOUS
    <3>3. \A i \in DOMAIN segment : segment[i] + 1 \in 1..n <=> segment[i] < n
      BY <1>2, <3>2
    <3>4. (\A d \in ToSet(segment) : d + 1 \in 1..n)
            <=> \A i \in DOMAIN segment : segment[i] + 1 \in 1..n
      BY DEF ToSet
    <3> QED
      BY <1>1, <3>1, <3>3, <3>4
  <2> QED
    BY <1>1, <2>1
<1>5. (\A t \in ToSet(layer.tokens) : t + 1 \in DOMAIN layer.segments)
        <=> \A t \in DOMAIN layer.tokens : layer.tokens[t] < Len(layer.segments)
  <2>1. \A t \in DOMAIN layer.tokens : layer.tokens[t] + 1 \in 1..m <=> layer.tokens[t] < m
    BY <1>1, <1>2
  <2>2. (\A t \in ToSet(layer.tokens) : t + 1 \in 1..m)
          <=> \A t \in DOMAIN layer.tokens : layer.tokens[t] + 1 \in 1..m
    BY DEF ToSet
  <2> QED
    BY <1>1, <2>1, <2>2
<1> QED
  BY <1>3, <1>4, <1>5 DEF RefersToWhatExists, RefersWithin

\* What a circuit must be to be expressible.
LEMMA ExpressibleIs ==
    ASSUME job \in Loads, NEW n \in Nat \ {0}, n <= Len(job.artifact.circuits), NEW c,
           c = job.artifact.circuits[n]
    PROVE  Expressible(c) <=> /\ Checked(c, Len(c.layers))
                              /\ \A k \in 1..Len(c.layers) : Short(c.layers[k])
<1>1. /\ c.constants \in Seq(Nat) /\ IsSeq(c.layers) /\ DOMAIN c.layers = 1..Len(c.layers)
      /\ Len(c.layers) \in Nat
      /\ \A k \in 1..Len(c.layers) : c.layers[k] \in Lfc2Layers
  <2>1. n \in DOMAIN job.artifact.circuits
    BY LoadsAssumption
  <2>2. c.layers \in Seq(Lfc2Layers) /\ c.constants \in Seq(Nat)
    BY <2>1, LoadsAssumption
  <2>3. PICK s \in Seq(Lfc2Layers) : s = c.layers
    BY ONLY <2>2
  <2>4. /\ IsSeq(s) /\ DOMAIN s = 1..Len(s) /\ Len(s) \in Nat
        /\ \A k \in 1..Len(s) : s[k] \in Lfc2Layers
    BY ONLY s \in Seq(Lfc2Layers), SeqIsSeq
  <2> QED
    BY ONLY <2>2, <2>3, <2>4
<1>2. ASSUME NEW k \in 1..Len(c.layers)
      PROVE  RefersToWhatExists(c, c.layers[k]) <=> RefersWithin(c, c.layers[k])
  BY <1>1, RefersIs
<1>3. PICK m \in Nat : m = Len(c.layers) /\ m <= m
  BY <1>1
<1> DEFINE Fit(layer) ==
             layer.logw <= 63 /\ layer.wires <= MAX_WIRES /\ Len(layer.deltas) <= MAX_DELTAS
<1>4. Expressible(c) <=> /\ HeaderWithin(c)
                         /\ \A k \in 1..m :
                               /\ Fit(c.layers[k]) /\ RefersToWhatExists(c, c.layers[k])
                               /\ Short(c.layers[k])
  BY <1>1, <1>3 DEF Expressible, HeaderWithin, Short, DeltaOf, Words
<1>5. Checked(c, m) <=> /\ HeaderWithin(c)
                        /\ \A k \in 1..m : Fit(c.layers[k]) /\ RefersWithin(c, c.layers[k])
  BY <1>3 DEF Checked, LayerWithin
<1> QED
  BY <1>2, <1>3, <1>4, <1>5

\* The quads that fit are those of short jumps.
LEMMA FittingIsShort ==
    ASSUME NEW c, NEW layer \in Lfc2Layers, RefersWithin(c, layer),
           LayerUpTo(Meant(layer), Len(Meant(layer).quads))
    PROVE  Short(layer)
<1> DEFINE Q == Meant(layer).quads
<1>1. PICK m \in Nat : /\ m = Len(Terms(layer)) /\ DOMAIN Terms(layer) = 1..m /\ Len(Q) = m
  BY TermsAre, MeantIs
<1>2. \A q \in 1..m : Fits(Q[q], Before(Q, q)) /\ Q[q] \in IntQuads
  BY <1>1, MeantIs DEF LayerUpTo
<1>3. ASSUME NEW q \in 1..m
      PROVE  /\ Q[q] = Led(DeltaOf(layer, q), Before(Q, q)) /\ DeltaOf(layer, q) \in Deltas
             /\ \A i \in {"gate", "left", "right"} : IndicesIn(layer)[q][i] = Q[q][i]
  BY <1>1, MeantIs, TermsAre
<1> HIDE DEF Q
<1>4. ASSUME NEW q \in 1..m, NEW i \in {"gate", "left", "right"}
      PROVE  /\ IndicesIn(layer)[q][i] \in Words
             /\ Signed(DeltaOf(layer, q)[i]) \in (1 - SizeLimit \div 2)..(SizeLimit \div 2 - 1)
  <2>1. PICK p, delta : p = Before(Q, q) /\ delta = DeltaOf(layer, q)
    OBVIOUS
  <2>2. /\ Q[q] = Led(delta, p) /\ IndicesIn(layer)[q][i] = Q[q][i] /\ delta \in Deltas
    BY <1>3, <2>1
  <2>3. p \in WordQuads /\ p \in IntQuads
    <3>1. PICK k \in Nat : q = k + 1
      <4>1. q - 1 \in Nat /\ q = (q - 1) + 1
        OBVIOUS
      <4> QED
        BY <4>1
    <3>2. \A j \in 1..k : Fits(Q[j], Before(Q, j))
      BY <1>2, <3>1
    <3> QED
      BY <2>1, <3>1, <3>2, BeforeIsWords, WordsAreInts
  <2>4. Q[q] \in WordQuads /\ QuadAgainst(Q[q], p) \in SizeQuads
    BY <1>2, <2>1 DEF Fits
  <2>5. Q[q][i] \in Words /\ EncodedDelta(Q[q][i], p[i]) \in Sizes
    <3>1. Q[q][i] \in Words
      BY <2>4, QuadIs DEF WordQuads
    <3>2. QuadAgainst(Q[q], p)[i] = EncodedDelta(Q[q][i], p[i])
      BY DEF QuadAgainst
    <3>3. QuadAgainst(Q[q], p)[i] \in Sizes
      BY <2>4, QuadIs DEF SizeQuads
    <3> QED
      BY <3>1, <3>2, <3>3
  <2>6. PICK x \in Int, y \in Int, s \in Int :
           x = Q[q][i] /\ y = p[i] /\ s = Signed(delta[i]) /\ x = y + s
    <3>1. delta[i] \in Nat
      <4>1. \A d \in Deltas : \A j \in {"gate", "left", "right"} : d[j] \in Nat
        BY Limits DEF Deltas
      <4> QED
        BY <2>2, <4>1
    <3>2. Q[q][i] \in Int /\ p[i] \in Int
      BY <1>2, <2>3, QuadIs DEF IntQuads
    <3>3. Q[q][i] = p[i] + Signed(delta[i])
      BY <2>2 DEF Led
    <3> QED
      BY <3>1, <3>2, <3>3, SignedIs
  <2>7. 2 * (x - y) < SizeLimit /\ -2 * (x - y) < SizeLimit
    BY <2>5, <2>6, DeltaSize
  <2>8. PICK half \in Nat, S \in Nat : S = SizeLimit /\ S = 2 * half /\ S \div 2 = half
    BY Limits
  <2>9. s \in (1 - half)..(half - 1)
    <3>1. 2 * s < 2 * half /\ -2 * s < 2 * half
      BY ONLY <2>6, <2>7, <2>8, x \in Int, y \in Int, s \in Int, half \in Nat, S \in Nat
    <3> QED
      BY ONLY <3>1, s \in Int, half \in Nat
  <2> QED
    BY <2>1, <2>2, <2>5, <2>6, <2>8, <2>9
<1> QED
  BY <1>1, <1>4 DEF Short

\* And a term with a short jump makes a quad that fits.
LEMMA ShortFits ==
    ASSUME NEW c, NEW layer \in Lfc2Layers, RefersWithin(c, layer), Short(layer),
           Len(c.constants) \in Nat, Len(c.constants) < SizeLimit,
           NEW q \in 1..Len(Terms(layer)),
           prev_quad = Before(Meant(layer).quads, q), prev_quad \in WordQuads
    PROVE  QuadFits(Expanded(DeltaOf(layer, q)))
<1>1. PICK delta, Q : delta = DeltaOf(layer, q) /\ Q = Meant(layer).quads
  OBVIOUS
<1>2. /\ delta \in Deltas /\ delta.const < Len(c.constants)
      /\ Q[q] = Led(delta, prev_quad)
      /\ \A i \in {"gate", "left", "right"} : IndicesIn(layer)[q][i] = Q[q][i]
      /\ q \in DOMAIN Terms(layer)
  BY <1>1, TermsAre, MeantIs
<1>3. \A i \in {"gate", "left", "right"} :
         /\ Led(delta, prev_quad)[i] \in Words
         /\ Signed(delta[i]) \in (1 - SizeLimit \div 2)..(SizeLimit \div 2 - 1)
  BY <1>1, <1>2 DEF Short
<1>4. delta.const \in Sizes
  <2>1. delta.const \in Nat
    BY <1>2 DEF Deltas
  <2>2. PICK x \in Nat, y \in Nat, S \in Nat :
           x = delta.const /\ y = Len(c.constants) /\ S = SizeLimit
    BY <2>1, Limits
  <2>3. x < S
    BY <1>2, <2>2
  <2> QED
    BY <2>2, <2>3 DEF Sizes
<1>5. Fits(Expanded(delta), prev_quad) /\ Expanded(delta) \in IntQuads
  BY <1>2, <1>3, <1>4, ExpandedIs
<1> QED
  BY <1>1, <1>5, QuadFitsIs, WordsAreInts

-----------------------------------------------------------------------------
(* The terms of circuits.                                                  *)

\* Partial sums of natural numbers do not exceed the whole.
LEMMA SumGrows ==
    ASSUME NEW n \in Nat, NEW s, \A k \in 1..n : s[k] \in Nat, NEW m \in 0..n
    PROVE  SumTo(s, m) \in Nat /\ SumTo(s, n) \in Nat /\ SumTo(s, m) <= SumTo(s, n)
<1> DEFINE Wrong == {k \in 0..n : ~(SumTo(s, k) \in Nat /\ (m <= k => SumTo(s, m) <= SumTo(s, k)))}
<1>1. Wrong = {}
  <2> SUFFICES ASSUME Wrong # {} PROVE FALSE
    OBVIOUS
  <2>1. PICK k \in Wrong : \A j \in Wrong : k <= j
    <3>1. Wrong \in SUBSET Nat
      OBVIOUS
    <3> HIDE DEF Wrong
    <3> QED
      BY <3>1, LeastElement
  <2>2. k \in 0..n /\ SumTo(s, 0) = 0
    BY SumStep
  <2>3. k # 0
    <3> SUFFICES ASSUME k = 0 PROVE FALSE
      OBVIOUS
    <3>1. m <= k => m = 0
      BY <2>2
    <3> QED
      BY <2>1, <2>2, <3>1
  <2>4. PICK j \in Nat : k = j + 1 /\ j \in 0..n /\ j \notin Wrong /\ k \in 1..n
    <3>1. k - 1 \in Nat /\ k = (k - 1) + 1 /\ k - 1 \in 0..n /\ ~(k <= k - 1) /\ k \in 1..n
      BY <2>2, <2>3
    <3>2. k - 1 \notin Wrong
      BY <2>1, <3>1
    <3> QED
      BY ONLY <3>1, <3>2
  <2>5. SumTo(s, k) = SumTo(s, j) + s[k]
    BY <2>4, SumStep
  <2>6. PICK x \in Nat, y \in Nat : x = SumTo(s, j) /\ y = s[k]
    BY <2>4
  <2>7. SumTo(s, k) = x + y /\ x + y \in Nat
    BY <2>5, <2>6
  <2>8. m <= k => SumTo(s, m) <= SumTo(s, k)
    <3>1. CASE m = k
      <4>1. x + y <= x + y
        OBVIOUS
      <4> QED
        BY <2>7, <3>1, <4>1
    <3>2. CASE m # k
      <4>1. m <= k => m <= j
        BY <2>2, <2>4, <3>2
      <4>2. m <= k => SumTo(s, m) <= x
        BY <2>4, <2>6, <4>1
      <4>3. m <= k => m \in 0..j
        BY <2>4, <4>1
      <4>4. SumTo(s, m) \in Int
        <5>1. \A i \in 1..m : s[i] \in Int
          BY <2>2
        <5> QED
          BY <5>1, SumIsInt
      <4> QED
        BY <2>7, <4>2, <4>4
    <3> QED
      BY <3>1, <3>2
  <2> QED
    BY <2>1, <2>7, <2>8
<1>2. m \notin Wrong /\ n \notin Wrong
  BY <1>1
<1>3. m \in 0..n /\ n \in 0..n /\ m <= n
  OBVIOUS
<1> QED
  BY <1>2, <1>3

\* The terms of one layer more.
LEMMA TermsStep ==
    ASSUME NEW c, IsSeq(c.layers), NEW m \in Nat
    PROVE  /\ TermsUpTo(c, 0) = 0 /\ TermsOf(c) = TermsUpTo(c, Len(c.layers))
           /\ m + 1 <= Len(c.layers) =>
                 TermsUpTo(c, m + 1) = TermsUpTo(c, m) + Len(Terms(c.layers[m + 1]))
<1> DEFINE s == [k \in DOMAIN c.layers |-> Len(Terms(c.layers[k]))]
<1>1. TermsUpTo(c, 0) = 0 /\ TermsUpTo(c, m + 1) = TermsUpTo(c, m) + s[m + 1]
  <2> HIDE DEF s
  <2>1. \A i : TermsUpTo(c, i) = SumTo(s, i)
    BY DEF TermsUpTo, s
  <2> QED
    BY <2>1, SumStep
<1>2. TermsOf(c) = TermsUpTo(c, Len(c.layers))
  BY DEF TermsOf, TermsUpTo
<1>3. ASSUME m + 1 <= Len(c.layers) PROVE s[m + 1] = Len(Terms(c.layers[m + 1]))
  <2>1. m + 1 \in DOMAIN c.layers
    <3>1. PICK n \in Nat : n = Len(c.layers) /\ c.layers = [k \in 1..n |-> c.layers[k]]
      BY DEF IsSeq
    <3>2. DOMAIN c.layers = 1..n
      BY <3>1
    <3> QED
      BY <1>3, <3>1, <3>2
  <2> QED
    BY <2>1
<1> QED
  BY <1>1, <1>2, <1>3

\* The terms of a circuit are at least those of its first layers.
LEMMA TermsGrow ==
    ASSUME NEW c, IsSeq(c.layers), NEW m \in 0..Len(c.layers),
           \A k \in 1..Len(c.layers) :
              c.layers[k] \in Lfc2Layers /\ RefersWithin(c, c.layers[k])
    PROVE  TermsUpTo(c, m) \in Nat /\ TermsOf(c) \in Nat /\ TermsUpTo(c, m) <= TermsOf(c)
<1> DEFINE s == [k \in DOMAIN c.layers |-> Len(Terms(c.layers[k]))]
<1>1. PICK n \in Nat : n = Len(c.layers) /\ DOMAIN c.layers = 1..n
  <2>1. PICK n \in Nat : n = Len(c.layers) /\ c.layers = [k \in 1..n |-> c.layers[k]]
    BY DEF IsSeq
  <2>2. DOMAIN c.layers = 1..n
    BY <2>1
  <2> QED
    BY <2>1, <2>2
<1>2. \A k \in 1..n : s[k] \in Nat
  BY <1>1, TermsAre
<1>3. TermsUpTo(c, m) = SumTo(s, m) /\ TermsOf(c) = SumTo(s, n)
  BY <1>1 DEF TermsUpTo, TermsOf
<1> HIDE DEF s
<1> QED
  BY <1>1, <1>2, <1>3, SumGrows

\* A whole file has a quad for each term.
LEMMA QuadsAreTerms ==
    ASSUME NEW c, NEW f, WholeFile(f, FromLfc2(c)), IsSeq(c.layers),
           Len(FromLfc2(c).layers) = Len(c.layers),
           \A k \in 1..Len(c.layers) :
              /\ c.layers[k] \in Lfc2Layers /\ RefersWithin(c, c.layers[k])
              /\ FromLfc2(c).layers[k] = Meant(c.layers[k])
    PROVE  QuadsOf(f) = TermsOf(c)
<1>1. PICK n \in Nat : n = Len(c.layers) /\ DOMAIN c.layers = 1..n /\ Len(f.layers) = n
                       /\ DOMAIN f.layers = 1..n
  <2>1. PICK n \in Nat : n = Len(c.layers) /\ c.layers = [k \in 1..n |-> c.layers[k]]
    BY DEF IsSeq
  <2>2. Len(f.layers) = n /\ f.layers = [k \in 1..n |-> f.layers[k]]
    BY <2>1 DEF WholeFile, HasLayers, IsSeq
  <2>3. DOMAIN c.layers = 1..n /\ DOMAIN f.layers = 1..n
    BY ONLY <2>1, <2>2
  <2> QED
    BY ONLY <2>1, <2>2, <2>3, n \in Nat
<1>2. ASSUME NEW k \in 1..n PROVE Len(f.layers[k].quads) = Len(Terms(c.layers[k]))
  <2>1. PICK layer, Q : layer = c.layers[k] /\ Q = Meant(layer).quads
    OBVIOUS
  <2>2. f.layers[k] = FileLayer(Meant(layer), Len(Q))
    BY <1>1, <2>1 DEF WholeFile, HasLayers
  <2>3. Len(Q) = Len(Terms(layer)) /\ Len(Terms(layer)) \in Nat
    BY <1>1, <2>1, MeantIs, TermsAre
  <2>4. f.layers[k].quads = FileQuads(Q, Len(Q))
    BY <2>1, <2>2 DEF FileLayer
  <2>5. PICK m \in Nat : m = Len(Q)
    BY <2>3
  <2> DEFINE q == FileQuads(Q, m)
  <2>6. q = [i \in 1..m |-> q[i]]
    BY DEF FileQuads
  <2> HIDE DEF q
  <2>7. Len(q) = m
    BY <2>6, FunctionIsSeq
  <2> QED
    BY <2>1, <2>3, <2>4, <2>5, <2>7 DEF q
<1> DEFINE s == [k \in DOMAIN f.layers |-> Len(f.layers[k].quads)]
           t == [k \in DOMAIN c.layers |-> Len(Terms(c.layers[k]))]
<1>3. \A k \in 1..n : s[k] = t[k]
  BY <1>1, <1>2
<1>4. QuadsOf(f) = SumTo(s, n) /\ TermsOf(c) = SumTo(t, n)
  BY <1>1 DEF QuadsOf, TermsOf
<1> HIDE DEF s, t
<1> QED
  BY <1>3, <1>4, SumAlike

-----------------------------------------------------------------------------
(* The steps of a load.                                                    *)

\* The steps that a phase is not.
LEMMA PhasesAre ==
    /\ \A s \in Converting : /\ s \notin Decoding /\ s # "profile" /\ s # "loaded"
                             /\ s \notin {"refused", "decode error"}
                             /\ s \notin {"decode", "decoded", "decode layer", "decode quad"}
    /\ \A s \in Decoding : /\ s \notin Converting /\ s # "profile" /\ s # "loaded"
                           /\ s \notin {"refused", "decode error"}
                           /\ s \notin {"convert", "convert layer", "convert term"}
                           /\ s \notin {"load", "profile", "convert"}
    /\ \A s \in {"refused", "decode error", "loaded"} : s \notin {"load", "profile", "convert"}
    /\ \A s \in {"refused", "decode error", "loaded", "profile"} :
          /\ s \notin Converting /\ s \notin Decoding
          /\ s \notin {"convert", "convert layer", "convert term"}
          /\ s \notin {"decode", "decoded", "decode layer", "decode quad"}
BY DEF Converting, Decoding

\* What a refusal, or an error, must see to.
LEMMA LoadEnds ==
    ASSUME LoadInv, job.call = "load", UNCHANGED <<job, legacy>>,
           step' \in {"refused", "decode error"},
           ~Described(job.entry, job.params, job.artifact)
    PROVE  LoadInv'
<1>1. /\ step' \notin Converting /\ step' \notin Decoding /\ step' # "profile" /\ step' # "loaded"
      /\ step' \notin {"load", "profile", "convert"}
      /\ step' \notin {"convert", "convert layer", "convert term"}
      /\ step' \notin {"decode", "decoded", "decode layer", "decode quad"}
  BY PhasesAre
<1>2. legacy # <<>> => job.artifact = job.entry.artifact
  BY DEF LoadInv, EntryInv
<1>3. EntryInv'
  BY <1>1, <1>2 DEF EntryInv
<1>4. ConvertInv' /\ DecodeInv'
  BY <1>1 DEF ConvertInv, DecodeInv
<1>5. OutcomeInv'
  BY <1>1 DEF OutcomeInv
<1> QED
  BY <1>3, <1>4, <1>5 DEF LoadInv

\* What a step of the conversion must see to.
LEMMA ConvertingOn ==
    ASSUME LoadInv, job.call = "load", job' = job, step \in Converting, step' \in Converting,
           ConvertInv'
    PROVE  LoadInv'
<1>1. Listed(job.entry, job.params) /\ job.artifact = job.entry.artifact
  BY DEF LoadInv, EntryInv
<1>2. EntryInv'
  BY <1>1 DEF EntryInv
<1>3. DecodeInv' /\ OutcomeInv'
  BY PhasesAre DEF DecodeInv, OutcomeInv
<1> QED
  BY <1>2, <1>3 DEF LoadInv

\* And one of the decoder.
LEMMA DecodingOn ==
    ASSUME LoadInv, job.call = "load", job' = job, step \in Converting \cup Decoding,
           step' \in Decoding, DecodeInv'
    PROVE  LoadInv'
<1>1. Listed(job.entry, job.params) /\ job.artifact = job.entry.artifact
  BY DEF LoadInv, EntryInv
<1>2. EntryInv'
  BY <1>1 DEF EntryInv
<1>3. ConvertInv' /\ OutcomeInv'
  BY PhasesAre DEF ConvertInv, OutcomeInv
<1> QED
  BY <1>2, <1>3 DEF LoadInv

\* for_hash_circuit refuses what is not of a usable entry.
LEMMA ForHashCircuitLoads ==
    ASSUME FilesInv, LoadInv, job.call = "load", for_hash_circuit
    PROVE  LoadInv'
<1>1. /\ step = "load" /\ UNCHANGED <<job, legacy, total_terms>>
      /\ step \in {"load", "profile", "convert", "convert layer", "convert term"}
  BY DEF for_hash_circuit
<1>2. job \in Loads /\ legacy = <<>>
  BY <1>1, LoadingFacts DEF FilesInv, WritingInv
<1> DEFINE Good ==
             /\ job.params.hash_circuit_id = job.entry.hash_circuit_id
             /\ build(job.entry) /\ check_layout(job.entry)
             /\ job.params.sig_circuit_id = job.entry.sig_circuit_id
             /\ job.params.block_enc_hash = job.entry.block_enc_hash
             /\ job.params.block_enc_sig = job.entry.block_enc_sig
<1>3. Good <=> Listed(job.entry, job.params)
  <2>1. DOMAIN job.params = {"hash_circuit_id", "sig_circuit_id", "block_enc_hash", "block_enc_sig"}
    BY <1>2, LoadIs DEF Descriptors
  <2> QED
    BY <2>1 DEF Listed
<1>4. step' = IF Good THEN "profile" ELSE "refused"
  BY DEF for_hash_circuit
<1> HIDE DEF Good
<1>5. CASE Good
  <2>1. step' = "profile" /\ Listed(job.entry, job.params)
    BY <1>3, <1>4, <1>5
  <2>2. /\ step' \notin Converting /\ step' \notin Decoding
        /\ step' \notin {"convert", "convert layer", "convert term"}
        /\ step' \notin {"decode", "decoded", "decode layer", "decode quad"}
    BY <2>1, PhasesAre
  <2>3. EntryInv'
    BY <1>1, <1>2, <2>1, <2>2 DEF EntryInv
  <2>4. total_terms' = 0
    BY <1>1 DEF LoadInv, ConvertInv
  <2>5. ConvertInv' /\ DecodeInv' /\ OutcomeInv'
    BY <2>1, <2>2, <2>4 DEF ConvertInv, DecodeInv, OutcomeInv
  <2> QED
    BY <2>3, <2>5 DEF LoadInv
<1>6. CASE ~Good
  BY <1>1, <1>2, <1>3, <1>4, <1>6, ListedIs, LoadEnds
<1> QED
  BY <1>5, <1>6

\* authenticate refuses what is not the artifact of the entry.
LEMMA AuthenticateLoads ==
    ASSUME FilesInv, LoadInv, job.call = "load", authenticate
    PROVE  LoadInv'
<1>1. /\ step = "profile" /\ UNCHANGED <<job, legacy, at, total_terms>>
      /\ step \in {"load", "profile", "convert", "convert layer", "convert term"}
      /\ step' = IF job.artifact = job.entry.artifact THEN "convert" ELSE "refused"
  BY DEF authenticate
<1>2. job \in Loads /\ legacy = <<>> /\ at = Start
  BY <1>1, LoadingFacts DEF FilesInv, WritingInv
<1>3. CASE job.artifact = job.entry.artifact
  <2>1. step' = "convert" /\ step' \in Converting
    BY <1>1, <1>3 DEF Converting
  <2>2. Listed(job.entry, job.params)
    BY <1>1 DEF LoadInv, EntryInv
  <2>3. EntryInv'
    BY <1>1, <1>3, <2>2 DEF EntryInv
  <2>4. ConvertInv'
    <3>1. total_terms = 0
      BY <1>1 DEF LoadInv, ConvertInv
    <3>2. \A n \in 1..(at'.file - 1) : FALSE
      BY <1>1, <1>2, PlacesAre
    <3> QED
      BY <1>1, <2>1, <3>1, <3>2 DEF ConvertInv
  <2>5. DecodeInv' /\ OutcomeInv'
    BY <2>1, PhasesAre DEF DecodeInv, OutcomeInv
  <2> QED
    BY <2>3, <2>4, <2>5 DEF LoadInv
<1>4. CASE job.artifact # job.entry.artifact
  BY <1>1, <1>2, <1>4, ListedIs, LoadEnds
<1> QED
  BY <1>3, <1>4

-----------------------------------------------------------------------------
(* The conversion, of what is expressible.                                 *)

\* The circuit being converted.
LEMMA ConvertingFacts ==
    ASSUME FilesInv, LoadInv, job.call = "load", step \in Converting
    PROVE  /\ job \in Loads /\ at \in Places /\ IsSeq(legacy) /\ total_terms \in Nat
           /\ Listed(job.entry, job.params) /\ job.artifact = job.entry.artifact
           /\ \A n \in 1..(at.file - 1) :
                 /\ n <= Len(job.artifact.circuits) /\ WholeFile(legacy[n], Intended(job, n))
                 /\ Checked(job.artifact.circuits[n], Len(job.artifact.circuits[n].layers))
<1>1. step \in {"load", "profile", "convert", "convert layer", "convert term"}
  BY DEF Converting
<1>2. EntryInv /\ ConvertInv
  BY DEF LoadInv
<1>3. \A n \in 1..(at.file - 1) :
         /\ n <= Len(job.artifact.circuits)
         /\ Checked(job.artifact.circuits[n], Len(job.artifact.circuits[n].layers))
  BY <1>2 DEF ConvertInv
<1>4. \A n \in 1..(at.file - 1) : WholeFile(legacy[n], Intended(job, n))
  BY <1>1, LoadingFacts
<1>5. Listed(job.entry, job.params) /\ job.artifact = job.entry.artifact
  BY <1>2 DEF EntryInv
<1> QED
  BY <1>1, <1>3, <1>4, <1>5, LoadingFacts

\* And the layers of it.
LEMMA SourceFacts ==
    ASSUME FilesInv, job \in Loads, job.call = "load", at \in Places,
           step \in {"convert layer", "convert term"}
    PROVE  /\ at.file \in 1..2 /\ at.file <= Len(job.artifact.circuits)
           /\ IsSeq(Source.layers) /\ Len(Source.layers) \in Nat
           /\ \A k \in 1..Len(Source.layers) : Source.layers[k] \in Lfc2Layers
           /\ Len(Source.constants) \in Nat /\ Len(Source.constants) < SizeLimit
           /\ \A k \in 1..Len(Source.layers) : FromLfc2(Source).layers[k] = Meant(Source.layers[k])
           /\ Len(FromLfc2(Source).layers) = Len(Source.layers)
           /\ Intended(job, at.file) = FromLfc2(Source)
<1>1. /\ at.file \in 1..2 /\ at.file <= Len(job.artifact.circuits)
      /\ Len(Source.constants) < SizeLimit
  BY DEF FilesInv, WritingInv
<1>2. PICK f \in Nat \ {0} : f = at.file
  BY PlacesAre
<1>3. PICK c : c = Source /\ c = job.artifact.circuits[f]
  BY <1>2 DEF Source
<1>4. /\ IsSeq(c.layers) /\ \A k \in 1..Len(c.layers) : c.layers[k] \in Lfc2Layers
      /\ Len(c.constants) \in Nat /\ Len(FromLfc2(c).layers) = Len(c.layers)
      /\ \A k \in 1..Len(c.layers) : FromLfc2(c).layers[k] = Meant(c.layers[k])
  BY <1>1, <1>2, <1>3, SourceIs
<1>5. Intended(job, at.file) = FromLfc2(c)
  BY <1>2, <1>3 DEF Intended
<1>6. Len(c.layers) \in Nat
  BY <1>4 DEF IsSeq
<1> QED
  BY <1>1, <1>3, <1>4, <1>5, <1>6

\* Of an artifact that is described, the circuit is expressible.
LEMMA SourceExpressible ==
    ASSUME job \in Loads, NEW f \in Nat \ {0}, f <= 2, NEW c, c = job.artifact.circuits[f],
           Described(job.entry, job.params, job.artifact)
    PROVE  /\ Len(job.artifact.circuits) = 2 /\ c.field = FieldOf(f)
           /\ Checked(c, Len(c.layers)) /\ \A k \in 1..Len(c.layers) : Short(c.layers[k])
           /\ TermsOf(c) \in Nat /\ TermsOf(c) <= MAX_TERMS
<1>1. Len(job.artifact.circuits) = 2
  BY ListedIs
<1>2. ASSUME NEW n \in 1..2, NEW d, d = job.artifact.circuits[n]
      PROVE  /\ d.field = FieldOf(n) /\ Checked(d, Len(d.layers))
             /\ \A k \in 1..Len(d.layers) : Short(d.layers[k])
             /\ TermsOf(d) \in Nat
  <2>1. DescribedCircuit(n)
    BY DescribedIs
  <2>2. d.field = FieldOf(n) /\ Expressible(d)
    BY <1>2, <2>1 DEF DescribedCircuit
  <2>3. n \in Nat \ {0} /\ n <= Len(job.artifact.circuits)
    BY <1>1
  <2>4. Checked(d, Len(d.layers)) /\ \A k \in 1..Len(d.layers) : Short(d.layers[k])
    BY <1>2, <2>2, <2>3, ExpressibleIs
  <2>5. IsSeq(d.layers) /\ \A k \in 1..Len(d.layers) : d.layers[k] \in Lfc2Layers
    BY <1>2, <2>3, SourceIs
  <2>6. \A k \in 1..Len(d.layers) : RefersWithin(d, d.layers[k])
    BY <2>4 DEF Checked, LayerWithin
  <2>7. 0 \in 0..Len(d.layers)
    BY <2>5 DEF IsSeq
  <2>8. TermsOf(d) \in Nat
    BY <2>5, <2>6, <2>7, TermsGrow
  <2> QED
    BY <2>2, <2>4, <2>8
<1>3. PICK t, u : t = TermsOf(job.artifact.circuits[1]) /\ u = TermsOf(job.artifact.circuits[2])
  OBVIOUS
<1>4. t \in Nat /\ u \in Nat
  <2>1. 1 \in 1..2 /\ 2 \in 1..2
    OBVIOUS
  <2> QED
    BY <1>2, <1>3, <2>1
<1>5. MAX_TERMS \in Nat
  BY LoadsAssumption, Limits
<1>6. t + u <= MAX_TERMS
  BY <1>3, DescribedIs
<1>7. t <= MAX_TERMS /\ u <= MAX_TERMS
  BY ONLY <1>4, <1>5, <1>6
<1>8. f \in 1..2 /\ (f = 1 \/ f = 2)
  OBVIOUS
<1>9. TermsOf(c) = t \/ TermsOf(c) = u
  BY <1>3, <1>8
<1> QED
  BY <1>1, <1>2, <1>7, <1>8, <1>9

\* convert_header goes on with a header that is within the limits.
LEMMA ConvertHeaderLoads ==
    ASSUME FilesInv, LoadInv, job.call = "load", convert_header
    PROVE  LoadInv'
<1>1. /\ step = "convert" /\ step \in Converting /\ at.file <= 2
      /\ UNCHANGED <<job, at, total_terms>>
  BY DEF convert_header, Converting
<1>2. /\ job \in Loads /\ at \in Places /\ total_terms = 0 /\ at.layer = 1
      /\ Listed(job.entry, job.params) /\ job.artifact = job.entry.artifact
  BY <1>1, ConvertingFacts DEF LoadInv, ConvertInv, FilesInv, WritingInv
<1>3. PICK f \in Nat \ {0} : f = at.file /\ f <= 2
  BY <1>1, <1>2, PlacesAre
<1>4. PICK c : c = Source /\ c = job.artifact.circuits[f] /\ c = Source'
  BY <1>1, <1>3 DEF Source
<1> DEFINE Good ==
             /\ at.file <= Len(job.artifact.circuits)
             /\ Source.header = "LFC2" /\ Source.field \in FieldIds
             /\ Source.copies = 1 /\ Source.public <= Source.inputs
             /\ \A n \in {Source.outputs, Source.public, Source.boundary, Source.inputs} :
                   n <= MAX_WIRES
             /\ Len(Source.layers) <= MAX_LAYERS /\ Len(Source.constants) <= MAX_CONSTANTS
<1>5. CASE Good
  <2>1. step' = "convert layer" /\ step' \in Converting
    BY <1>5 DEF convert_header, Converting
  <2>2. f <= Len(job.artifact.circuits)
    BY <1>3, <1>5
  <2>3. HeaderWithin(c)
    BY <1>4, <1>5 DEF HeaderWithin
  <2>4. IsSeq(c.layers) /\ 0 <= Len(c.layers)
    <3>1. IsSeq(c.layers)
      BY <1>2, <1>3, <1>4, <2>2, SourceIs
    <3> QED
      BY <3>1 DEF IsSeq
  <2>5. Checked(c, 0) /\ TermsUpTo(c, 0) = 0
    BY <2>3, <2>4, TermsStep DEF Checked
  <2>6. at'.layer - 1 = 0
    BY <1>1, <1>2
  <2>7. \A n \in 1..(at'.file - 1) :
           /\ n <= Len(job'.artifact.circuits)
           /\ Checked(job'.artifact.circuits[n], Len(job'.artifact.circuits[n].layers))
    BY <1>1, ConvertingFacts
  <2>8. ConvertInv'
    BY <1>1, <1>2, <1>4, <2>1, <2>5, <2>6, <2>7 DEF ConvertInv
  <2> QED
    BY <1>1, <2>1, <2>8, ConvertingOn
<1>6. CASE ~Good
  <2>1. step' = "refused" /\ legacy' = legacy
    BY <1>6 DEF convert_header
  <2>2. ~Described(job.entry, job.params, job.artifact)
    <3> SUFFICES ASSUME Described(job.entry, job.params, job.artifact) PROVE FALSE
      OBVIOUS
    <3>1. /\ Len(job.artifact.circuits) = 2 /\ c.field = FieldOf(f) /\ HeaderWithin(c)
      BY <1>2, <1>3, <1>4, SourceExpressible DEF Checked
    <3>2. c.field \in FieldIds
      BY <3>1 DEF FieldOf, FieldIds
    <3>3. c.public <= MAX_WIRES
      <4>1. {c.outputs, c.copies, c.public, c.boundary, c.inputs} \subseteq Nat
        BY <1>2, <1>3, <1>4, <3>1, SourceIs
      <4>2. MAX_WIRES \in Nat
        BY LoadsAssumption, Limits
      <4>3. c.public \in Nat /\ c.inputs \in Nat
        BY ONLY <4>1
      <4>4. c.public <= c.inputs /\ c.inputs <= MAX_WIRES
        BY <3>1 DEF HeaderWithin
      <4>5. \A x, y, z \in Nat : x <= y /\ y <= z => x <= z
        OBVIOUS
      <4> QED
        BY <4>2, <4>3, <4>4, <4>5
    <3> QED
      BY <1>3, <1>4, <1>6, <3>1, <3>2, <3>3 DEF HeaderWithin
  <2> QED
    BY <1>1, <2>1, <2>2, LoadEnds
<1> QED
  BY <1>5, <1>6

\* convert_layer goes on with a layer that is, while the terms are not too many.
LEMMA ConvertLayerLoads ==
    ASSUME FilesInv, LoadInv, job.call = "load", convert_layer
    PROVE  LoadInv'
<1>1. /\ step = "convert layer" /\ step \in Converting /\ step \in {"convert layer", "convert term"}
      /\ at.layer <= Len(Source.layers) /\ UNCHANGED <<job, at>>
  BY DEF convert_layer, Converting
<1>2. /\ job \in Loads /\ at \in Places /\ total_terms \in Nat
      /\ Listed(job.entry, job.params) /\ job.artifact = job.entry.artifact
  BY <1>1, ConvertingFacts
<1>3. PICK f \in Nat \ {0}, l \in Nat : f = at.file /\ l = at.layer - 1 /\ at.layer = l + 1
  BY <1>2, PlaceBefore, PlacesAre
<1>4. PICK c : c = Source /\ c = job.artifact.circuits[f] /\ c = Source'
  BY <1>1, <1>3 DEF Source
<1>5. PICK layer : layer = c.layers[l + 1]
  OBVIOUS
<1>6. /\ f \in 1..2 /\ f <= Len(job.artifact.circuits) /\ IsSeq(c.layers) /\ Len(c.layers) \in Nat
      /\ \A k \in 1..Len(c.layers) : c.layers[k] \in Lfc2Layers
  BY <1>1, <1>2, <1>3, <1>4, SourceFacts
<1>7. l + 1 \in 1..Len(c.layers) /\ l + 1 <= Len(c.layers)
  <2>1. PICK m \in Nat : m = Len(c.layers)
    BY <1>6
  <2>2. l + 1 <= m
    BY <1>1, <1>3, <1>4, <2>1
  <2>3. l + 1 \in 1..m
    BY ONLY <2>2, l \in Nat, m \in Nat
  <2> QED
    BY <2>1, <2>2, <2>3
<1>8. Checked(c, l) /\ total_terms = TermsUpTo(c, l)
  BY <1>1, <1>3, <1>4 DEF LoadInv, ConvertInv
<1>9. TermsUpTo(c, l + 1) = total_terms + Len(Terms(layer))
  BY <1>5, <1>6, <1>7, <1>8, TermsStep
<1>10. LayerFits(layer) <=> LayerWithin(c, layer) /\ total_terms + Len(Terms(layer)) <= MAX_TERMS
  BY <1>4 DEF LayerFits, LayerWithin, RefersWithin
<1>11. CASE LayerFits(layer)
  <2>1. /\ step' = "convert term" /\ step' \in Converting
        /\ total_terms' = total_terms + Len(Terms(layer))
    BY <1>3, <1>4, <1>5, <1>11 DEF convert_layer, Converting
  <2>2. Checked(c, l + 1)
    <3>1. LayerWithin(c, c.layers[l + 1])
      BY <1>5, <1>10, <1>11
    <3>2. \A k \in 1..(l + 1) : k \in 1..l \/ k = l + 1
      OBVIOUS
    <3> QED
      BY <1>7, <1>8, <3>1, <3>2 DEF Checked
  <2>3. \A n \in 1..(at'.file - 1) :
           /\ n <= Len(job'.artifact.circuits)
           /\ Checked(job'.artifact.circuits[n], Len(job'.artifact.circuits[n].layers))
    BY <1>1, ConvertingFacts
  <2>4. at'.layer = l + 1
    BY <1>1, <1>3
  <2>5. ConvertInv'
    BY <1>4, <1>9, <2>1, <2>2, <2>3, <2>4 DEF ConvertInv
  <2> QED
    BY <1>1, <2>1, <2>5, ConvertingOn
<1>12. CASE ~LayerFits(layer)
  <2>1. step' = "refused" /\ legacy' = legacy
    BY <1>3, <1>4, <1>5, <1>12 DEF convert_layer
  <2>2. ~Described(job.entry, job.params, job.artifact)
    <3> SUFFICES ASSUME Described(job.entry, job.params, job.artifact) PROVE FALSE
      OBVIOUS
    <3>0. f <= 2
      BY <1>6
    <3>1. Checked(c, Len(c.layers)) /\ TermsOf(c) \in Nat /\ TermsOf(c) <= MAX_TERMS
      BY <1>2, <1>4, <3>0, SourceExpressible
    <3>2. \A k \in 1..Len(c.layers) : LayerWithin(c, c.layers[k])
      BY <3>1 DEF Checked
    <3>3. LayerWithin(c, layer)
      BY <1>5, <1>7, <3>2
    <3>4. TermsUpTo(c, l + 1) \in Nat /\ TermsUpTo(c, l + 1) <= TermsOf(c)
      <4>1. \A k \in 1..Len(c.layers) : c.layers[k] \in Lfc2Layers /\ RefersWithin(c, c.layers[k])
        BY <1>6, <3>2 DEF LayerWithin
      <4>2. l + 1 \in 0..Len(c.layers)
        BY <1>7
      <4> QED
        BY <1>6, <4>1, <4>2, TermsGrow
    <3>5. MAX_TERMS \in Nat
      BY LoadsAssumption, Limits
    <3>6. TermsUpTo(c, l + 1) <= MAX_TERMS
      BY ONLY <3>1, <3>4, <3>5
    <3> QED
      BY <1>9, <1>10, <1>12, <3>3, <3>6
  <2> QED
    BY <1>1, <2>1, <2>2, LoadEnds
<1> QED
  BY <1>11, <1>12

\* convert_term goes on with a quad that fits.
LEMMA ConvertTermLoads ==
    ASSUME FilesInv, LoadInv, job.call = "load", convert_term
    PROVE  LoadInv'
<1>1. /\ step = "convert term" /\ step \in Converting /\ step \in {"convert layer", "convert term"}
      /\ at.quad <= Len(Terms(Source.layers[at.layer])) /\ UNCHANGED <<job, total_terms>>
  BY DEF convert_term, Converting
<1>2. /\ job \in Loads /\ at \in Places /\ total_terms \in Nat
      /\ Listed(job.entry, job.params) /\ job.artifact = job.entry.artifact
  BY <1>1, ConvertingFacts
<1>3. PICK f \in Nat \ {0} : f = at.file
  BY <1>2, PlacesAre
<1>4. PICK l \in Nat, n \in Nat :
         l = at.layer - 1 /\ at.layer = l + 1 /\ n = at.quad - 1 /\ at.quad = n + 1
  BY <1>2, PlaceBefore
<1>5. PICK c : c = Source /\ c = job.artifact.circuits[f]
  BY <1>3 DEF Source
<1>6. PICK k, q, layer, d : k = l + 1 /\ q = n + 1 /\ layer = c.layers[k] /\ d = FromLfc2(c)
  OBVIOUS
<1>7. /\ f \in 1..2 /\ f <= Len(job.artifact.circuits) /\ IsSeq(c.layers) /\ Len(c.layers) \in Nat
      /\ \A i \in 1..Len(c.layers) : c.layers[i] \in Lfc2Layers
      /\ Len(c.constants) \in Nat /\ Len(c.constants) < SizeLimit
      /\ \A i \in 1..Len(c.layers) : d.layers[i] = Meant(c.layers[i])
      /\ Len(d.layers) = Len(c.layers) /\ Intended(job, f) = d
  BY <1>1, <1>2, <1>3, <1>5, <1>6, SourceFacts
<1>8. /\ HasQuads(legacy[f], d, l, n) /\ prev_quad = Before(d.layers[k].quads, q)
      /\ RefersWithin(c, layer)
  BY <1>1, <1>3, <1>4, <1>5, <1>6, <1>7 DEF FilesInv, WritingInv, Inside
<1>9. k \in 1..Len(c.layers) /\ layer \in Lfc2Layers /\ d.layers[k] = Meant(layer)
  <2>1. l < Len(c.layers)
    BY <1>7, <1>8 DEF HasQuads
  <2>2. l + 1 \in 1..Len(c.layers)
    BY <1>7, <2>1
  <2> QED
    BY <1>6, <1>7, <2>2
<1>10. PICK Q, quad : Q = Meant(layer).quads /\ quad = Expanded(DeltaOf(layer, q))
  OBVIOUS
<1>11. quad = Expanded(Source.layers[at.layer].deltas[Terms(Source.layers[at.layer])[at.quad] + 1])
  BY <1>4, <1>5, <1>6, <1>10 DEF DeltaOf
<1>12. CASE QuadFits(quad)
  <2>1. step' = step /\ at' = [at EXCEPT !.quad = @ + 1]
    BY <1>11, <1>12 DEF convert_term
  <2>2. at'.file = at.file /\ at'.layer = at.layer
    BY <1>2, <2>1, PlacesAre
  <2>3. Source' = Source
    BY <1>1, <2>2 DEF Source
  <2>4. ConvertInv'
    BY <1>1, <2>1, <2>2, <2>3 DEF LoadInv, ConvertInv
  <2> QED
    BY <1>1, <2>1, <2>4, ConvertingOn
<1>13. CASE ~QuadFits(quad)
  <2>1. step' = "refused" /\ legacy' = legacy
    BY <1>11, <1>13 DEF convert_term
  <2>2. ~Described(job.entry, job.params, job.artifact)
    <3> SUFFICES ASSUME Described(job.entry, job.params, job.artifact) PROVE FALSE
      OBVIOUS
    <3>1. f <= 2
      BY <1>7
    <3>2. Short(layer)
      <4>1. \A i \in 1..Len(c.layers) : Short(c.layers[i])
        BY <1>2, <1>5, <3>1, SourceExpressible
      <4> QED
        BY <1>6, <1>9, <4>1
    <3>3. q \in 1..Len(Terms(layer))
      <4>1. PICK m \in Nat : m = Len(Terms(layer))
        BY <1>8, <1>9, TermsAre
      <4>2. n + 1 <= m
        BY <1>1, <1>4, <1>5, <1>6, <4>1
      <4> QED
        BY <1>6, <4>1, <4>2
    <3>4. prev_quad = Before(Q, q) /\ prev_quad \in WordQuads
      <4>1. LayerUpTo(d.layers[l + 1], n)
        BY <1>8 DEF HasQuads
      <4>2. \A i \in 1..n : Fits(Q[i], Before(Q, i))
        BY <1>6, <1>9, <1>10, <4>1 DEF LayerUpTo
      <4>3. Before(Q, n + 1) \in WordQuads
        BY <4>2, BeforeIsWords
      <4> QED
        BY <1>6, <1>8, <1>9, <1>10, <4>3
    <3> QED
      BY <1>7, <1>8, <1>9, <1>10, <1>13, <3>2, <3>3, <3>4, ShortFits
  <2> QED
    BY <1>1, <2>1, <2>2, LoadEnds
<1> QED
  BY <1>12, <1>13

\* convert_layer_ends and convert_id go on to what comes next.
LEMMA ConvertLayerEndsLoads ==
    ASSUME FilesInv, LoadInv, job.call = "load", convert_layer_ends
    PROVE  LoadInv'
<1>1. /\ step = "convert term" /\ step \in Converting /\ at' = NextLayer
      /\ step' = "convert layer" /\ step' \in Converting /\ UNCHANGED <<job, total_terms>>
  BY DEF convert_layer_ends, Converting
<1>2. at \in Places
  BY <1>1, ConvertingFacts
<1>3. at'.file = at.file /\ at'.layer - 1 = at.layer
  <2>1. at'.file = at.file /\ at'.layer = at.layer + 1 /\ at.layer \in Nat \ {0}
    BY <1>1, <1>2, PlacesAre
  <2>2. PICK l \in Nat : l = at.layer
    BY <2>1
  <2>3. at'.layer - 1 = l
    BY <2>1, <2>2
  <2> QED
    BY <2>1, <2>2, <2>3
<1>4. Source' = Source
  BY <1>1, <1>3 DEF Source
<1>5. ConvertInv'
  BY <1>1, <1>3, <1>4 DEF LoadInv, ConvertInv
<1> QED
  BY <1>1, <1>5, ConvertingOn

\* The same of convert_id.
LEMMA ConvertIdLoads ==
    ASSUME FilesInv, LoadInv, job.call = "load", convert_id
    PROVE  LoadInv'
<1>1. /\ step = "convert layer" /\ step \in Converting /\ step \in {"convert layer", "convert term"}
      /\ at.layer > Len(Source.layers) /\ at' = [Start EXCEPT !.file = at.file + 1]
      /\ step' = "convert" /\ step' \in Converting /\ total_terms' = 0 /\ job' = job
  BY DEF convert_id, Converting
<1>2. job \in Loads /\ at \in Places
  BY <1>1, ConvertingFacts
<1>3. PICK f \in Nat \ {0}, l \in Nat : f = at.file /\ l = at.layer - 1 /\ at.layer = l + 1
  BY <1>2, PlaceBefore, PlacesAre
<1>4. PICK c : c = Source /\ c = job.artifact.circuits[f]
  BY <1>3 DEF Source
<1>5. f <= Len(job.artifact.circuits) /\ Len(c.layers) \in Nat
  BY <1>1, <1>2, <1>3, <1>4, SourceFacts
<1>6. Checked(c, Len(c.layers))
  <2>1. Checked(c, l)
    BY <1>1, <1>3, <1>4 DEF LoadInv, ConvertInv
  <2>2. l <= Len(c.layers)
    BY <2>1 DEF Checked
  <2>3. PICK m \in Nat : m = Len(c.layers)
    BY <1>5
  <2>4. l + 1 > m
    BY <1>1, <1>3, <1>4, <2>3
  <2>5. l = m
    BY ONLY <2>2, <2>3, <2>4, l \in Nat, m \in Nat
  <2> QED
    BY <2>1, <2>3, <2>5
<1>7. at'.file - 1 = f
  <2>1. at'.file = f + 1
    BY <1>1, <1>2, <1>3, PlacesAre
  <2> QED
    BY <2>1
<1>8. \A n \in 1..f : /\ n <= Len(job.artifact.circuits)
                      /\ Checked(job.artifact.circuits[n], Len(job.artifact.circuits[n].layers))
  <2>1. \A n \in 1..(f - 1) :
           /\ n <= Len(job.artifact.circuits)
           /\ Checked(job.artifact.circuits[n], Len(job.artifact.circuits[n].layers))
    BY <1>1, <1>3, ConvertingFacts
  <2>2. \A n \in 1..f : n \in 1..(f - 1) \/ n = f
    OBVIOUS
  <2> QED
    BY <1>4, <1>5, <1>6, <2>1, <2>2
<1>9. ConvertInv'
  BY <1>1, <1>7, <1>8 DEF ConvertInv
<1> QED
  BY <1>1, <1>9, ConvertingOn

\* What a whole file of a circuit that was checked holds.
LEMMA WholeFileIs ==
    ASSUME job \in Loads, NEW n \in 1..2, n <= Len(job.artifact.circuits), NEW c,
           c = job.artifact.circuits[n], Checked(c, Len(c.layers)), NEW f,
           WholeFile(f, FromLfc2(c))
    PROVE  /\ QuadsOf(f) = TermsOf(c) /\ f.field = c.field
           /\ \A k \in 1..Len(c.layers) : Short(c.layers[k])
<1>1. n \in Nat \ {0}
  OBVIOUS
<1>2. /\ IsSeq(c.layers) /\ Len(FromLfc2(c).layers) = Len(c.layers)
      /\ \A k \in 1..Len(c.layers) :
            c.layers[k] \in Lfc2Layers /\ FromLfc2(c).layers[k] = Meant(c.layers[k])
  BY <1>1, SourceIs
<1>3. \A k \in 1..Len(c.layers) : RefersWithin(c, c.layers[k])
  BY DEF Checked, LayerWithin
<1>4. QuadsOf(f) = TermsOf(c)
  BY <1>2, <1>3, QuadsAreTerms
<1>5. f.field = c.field
  <2>1. SameHeader(f, FromLfc2(c))
    BY DEF WholeFile, HasLayers
  <2> QED
    BY <2>1 DEF SameHeader, CircuitFields, FromLfc2
<1>6. ASSUME NEW k \in 1..Len(c.layers)
      PROVE  Short(c.layers[k])
  <2>1. LayerUpTo(FromLfc2(c).layers[k], Len(FromLfc2(c).layers[k].quads))
    BY <1>2 DEF WholeFile, HasLayers
  <2> QED
    BY <1>2, <1>3, <2>1, FittingIsShort
<1> QED
  BY <1>4, <1>5, <1>6

\* to_legacy_pair goes on with two circuits, and with their terms.
LEMMA ToLegacyPairLoads ==
    ASSUME FilesInv, LoadInv, job.call = "load", to_legacy_pair
    PROVE  LoadInv'
<1>1. /\ step = "convert" /\ step \in Converting /\ at.file = 3 /\ UNCHANGED <<job, legacy>>
  BY DEF to_legacy_pair, Converting
<1>2. /\ job \in Loads /\ Listed(job.entry, job.params) /\ job.artifact = job.entry.artifact
      /\ \A n \in 1..2 :
            /\ n <= Len(job.artifact.circuits) /\ WholeFile(legacy[n], Intended(job, n))
            /\ Checked(job.artifact.circuits[n], Len(job.artifact.circuits[n].layers))
  <2>1. at.file - 1 = 2
    BY <1>1
  <2> QED
    BY <1>1, <2>1, ConvertingFacts
<1>3. ASSUME NEW n \in 1..2 PROVE QuadsOf(legacy[n]) = TermsOf(job.artifact.circuits[n])
  <2>1. Intended(job, n) = FromLfc2(job.artifact.circuits[n])
    BY DEF Intended
  <2> QED
    BY <1>2, <2>1, WholeFileIs
<1>4. 1 \in 1..2 /\ 2 \in 1..2
  OBVIOUS
<1> DEFINE Good ==
             /\ job.artifact.rest = 0 /\ Len(job.artifact.circuits) = 2
             /\ QuadsOf(legacy[1]) + QuadsOf(legacy[2]) <= MAX_TERMS
<1>5. Good <=> /\ job.artifact.rest = 0 /\ Len(job.artifact.circuits) = 2
               /\ TermsOf(job.artifact.circuits[1]) + TermsOf(job.artifact.circuits[2]) <= MAX_TERMS
  <2>1. /\ QuadsOf(legacy[1]) = TermsOf(job.artifact.circuits[1])
        /\ QuadsOf(legacy[2]) = TermsOf(job.artifact.circuits[2])
    BY <1>3, <1>4
  <2> QED
    BY <2>1
<1>6. /\ Good => step' = "decode" /\ at' = Start
      /\ ~Good => step' = "refused"
  BY DEF to_legacy_pair
<1> HIDE DEF Good
<1>7. CASE Good
  <2>1. step' = "decode" /\ step' \in Decoding /\ step' \in {"decode", "decoded"}
        /\ step' \notin {"decode layer", "decode quad"}
    BY <1>6, <1>7 DEF Decoding
  <2>2. Converted(job.artifact)
    BY <1>2, <1>5, <1>7 DEF Converted
  <2>3. \A n \in 1..(at'.file - 1) : FALSE
    BY <1>6, <1>7, PlacesAre
  <2>4. DecodeInv'
    BY <1>1, <2>1, <2>2, <2>3 DEF DecodeInv
  <2>5. step \in Converting \cup Decoding
    BY <1>1
  <2> QED
    BY <1>1, <2>1, <2>4, <2>5, DecodingOn
<1>8. CASE ~Good
  BY <1>1, <1>2, <1>5, <1>6, <1>8, DescribedIs, ListedIs, LoadEnds
<1> QED
  BY <1>7, <1>8

-----------------------------------------------------------------------------
(* The decoder, of the circuits that were converted.                       *)

\* The files being decoded.
LEMMA DecodedFacts ==
    ASSUME FilesInv, LoadInv, job.call = "load", step \in Decoding
    PROVE  /\ job \in Loads /\ at \in Places /\ Listed(job.entry, job.params)
           /\ job.artifact = job.entry.artifact /\ Converted(job.artifact) /\ ~altered
           /\ Len(legacy) = 2
           /\ \A n \in 1..2 : LET c == job.artifact.circuits[n]
                              IN  /\ WholeFile(legacy[n], FromLfc2(c)) /\ legacy[n].field = c.field
                                  /\ \A k \in 1..Len(c.layers) : Short(c.layers[k])
<1>1. step \in Reading
  BY DEF Decoding, Reading
<1>2. job \in Loads /\ at \in Places /\ ~altered
  BY DEF FilesInv, CallInv
<1>3. Listed(job.entry, job.params) /\ job.artifact = job.entry.artifact
  BY DEF LoadInv, EntryInv
<1>4. Converted(job.artifact)
  BY DEF LoadInv, DecodeInv
<1>5. Len(legacy) = 2 /\ \A n \in 1..2 : WholeFile(legacy[n], Intended(job, n))
  <2>1. FilesReadable
    BY <1>1 DEF FilesInv, ReadingInv
  <2> QED
    BY <1>2, <2>1 DEF FilesReadable
<1>6. ASSUME NEW n \in 1..2, NEW c, c = job.artifact.circuits[n]
      PROVE  /\ WholeFile(legacy[n], FromLfc2(c)) /\ legacy[n].field = c.field
             /\ \A k \in 1..Len(c.layers) : Short(c.layers[k])
  <2>1. WholeFile(legacy[n], FromLfc2(c))
    BY <1>5, <1>6 DEF Intended
  <2>2. Checked(c, Len(c.layers)) /\ n <= Len(job.artifact.circuits)
    BY <1>4, <1>6 DEF Converted
  <2> QED
    BY <1>2, <1>6, <2>1, <2>2, WholeFileIs
<1> QED
  BY <1>2, <1>3, <1>4, <1>5, <1>6

\* decode_header goes on with the field that is expected.
LEMMA DecodeHeaderLoads ==
    ASSUME FilesInv, LoadInv, job.call = "load", decode_header
    PROVE  LoadInv'
<1>1. /\ step = "decode" /\ step \in Decoding /\ step \in {"decode", "decode layer", "decode quad"}
      /\ step \in {"decode", "decoded"} /\ UNCHANGED <<job, legacy, at>>
  BY DEF decode_header, Decoding
<1>2. /\ job \in Loads /\ Converted(job.artifact) /\ Len(legacy) = 2
      /\ \A n \in 1..2 : legacy[n].field = job.artifact.circuits[n].field
  BY <1>1, DecodedFacts
<1>3. PICK f \in 1..2 : f = at.file
  <2>1. at.file \in 1..Len(legacy)
    BY <1>1, ReadingFacts
  <2> QED
    BY <1>2, <2>1
<1>4. Expected = FieldOf(f)
  BY <1>3 DEF Expected, FieldOf
<1>5. legacy[at.file].field = job.artifact.circuits[f].field
  BY <1>2, <1>3
<1>6. CASE legacy[at.file].field = Expected
  <2>1. step' = "decode layer" /\ step' \in Decoding /\ step' \in {"decode layer", "decode quad"}
        /\ step' \notin {"decode", "decoded"}
    BY <1>6 DEF decode_header, Decoding
  <2>2. \A n \in 1..f : job.artifact.circuits[n].field = FieldOf(n)
    <3>1. \A n \in 1..(f - 1) : job.artifact.circuits[n].field = FieldOf(n)
      BY <1>1, <1>3 DEF LoadInv, DecodeInv
    <3>2. \A n \in 1..f : n \in 1..(f - 1) \/ n = f
      OBVIOUS
    <3> QED
      BY <1>4, <1>5, <1>6, <3>1, <3>2
  <2>3. DecodeInv'
    BY <1>1, <1>2, <1>3, <2>1, <2>2 DEF DecodeInv
  <2>4. step \in Converting \cup Decoding
    BY <1>1
  <2> QED
    BY <1>1, <2>1, <2>3, <2>4, DecodingOn
<1>7. CASE legacy[at.file].field # Expected
  <2>1. step' = "decode error"
    BY <1>7 DEF decode_header
  <2>2. ~Described(job.entry, job.params, job.artifact)
    BY <1>3, <1>4, <1>5, <1>7, DescribedIs DEF DescribedCircuit
  <2> QED
    BY <1>1, <2>1, <2>2, LoadEnds
<1> QED
  BY <1>6, <1>7

\* The layers and quads of a circuit are decoded whatever they are.
LEMMA DecodeLayerLoads ==
    ASSUME FilesInv, LoadInv, job.call = "load",
           decode_layer \/ decode_quad \/ decode_layer_ends, UNCHANGED total_terms
    PROVE  LoadInv'
<1>1. /\ step \in {"decode layer", "decode quad"} /\ step \in Decoding /\ job' = job
      /\ step' \in {"decode layer", "decode quad", "panic"}
  BY DEF decode_layer, decode_quad, decode_layer_ends, Decoding
<1>2. step' # "panic"
  <2>1. FilesInv'
    BY DecodeLayerKeeps, DecodeQuadKeeps, DecodeLayerEndsKeeps
  <2>2. job'.call = "load" => step' \in LoadSteps
    BY <2>1 DEF FilesInv, CallInv
  <2> QED
    BY <1>1, <2>2 DEF LoadSteps
<1>3. at'.file = at.file
  <2>1. at \in Places
    BY <1>1, DecodedFacts
  <2> QED
    BY <2>1, PlacesAre DEF decode_layer, decode_quad, decode_layer_ends
<1>4. /\ step' \in {"decode layer", "decode quad"} /\ step' \in Decoding
      /\ step' \notin {"decode", "decoded"}
  BY <1>1, <1>2 DEF Decoding
<1>5. DecodeInv'
  BY <1>1, <1>3, <1>4 DEF LoadInv, DecodeInv
<1>6. step \in Converting \cup Decoding
  BY <1>1
<1> QED
  BY <1>1, <1>4, <1>5, <1>6, DecodingOn

\* decode_id goes on to the next circuit, or to the pair.
LEMMA DecodeIdLoads ==
    ASSUME FilesInv, LoadInv, job.call = "load", decode_id, UNCHANGED total_terms
    PROVE  LoadInv'
<1>1. /\ step = "decode layer" /\ step \in {"decode layer", "decode quad"} /\ step \in Decoding
      /\ job' = job /\ step' \in {"decode", "decoded"} /\ step' \in Decoding
      /\ step' \notin {"decode layer", "decode quad"}
      /\ at' = [Start EXCEPT !.file = at.file + 1]
  BY DEF decode_id, Decoding
<1>2. at \in Places
  BY <1>1, DecodedFacts
<1>3. at'.file - 1 = at.file
  <2>1. PICK f \in Nat : f = at.file
    BY <1>2, PlacesAre
  <2>2. at'.file = f + 1
    BY <1>1, <1>2, <2>1, PlacesAre
  <2> QED
    BY <2>1, <2>2
<1>4. DecodeInv'
  BY <1>1, <1>3 DEF LoadInv, DecodeInv
<1>5. step \in Converting \cup Decoding
  BY <1>1
<1> QED
  BY <1>1, <1>4, <1>5, DecodingOn

\* The circuit in memory is the one that is meant, with the field of its place.
DecodedCircuit(n) ==
    LET c == job.artifact.circuits[n]
    IN  /\ circuits[n] = FromLfc2(c) /\ HasConstants(circuits[n])
        /\ c.field = FieldOf(n) /\ Expressible(c)

\* Both are, once they are decoded.
LEMMA DecodedPair ==
    ASSUME FilesInv, LoadInv, job.call = "load", step = "decoded"
    PROVE  \A n \in 1..2 : DecodedCircuit(n)
<1>1. step \in Decoding /\ step \in {"decode", "decoded"} /\ step \in {"decoded", "loaded"}
      /\ step \in Reading
  BY DEF Decoding, Reading
<1>2. /\ job \in Loads /\ Converted(job.artifact) /\ Len(legacy) = 2
      /\ \A n \in 1..2 : LET c == job.artifact.circuits[n]
                         IN  /\ WholeFile(legacy[n], FromLfc2(c))
                             /\ \A k \in 1..Len(c.layers) : Short(c.layers[k])
  BY <1>1, DecodedFacts
<1>3. /\ \A n \in 1..(at.file - 1) : WholeRead(overflow_checks, circuits[n], legacy[n])
      /\ at.file = Len(legacy) + 1
  BY <1>1 DEF FilesInv, ReadingInv
<1>4. at.file - 1 = 2
  BY <1>2, <1>3
<1>5. \A n \in 1..2 : job.artifact.circuits[n].field = FieldOf(n)
  BY <1>1, <1>4 DEF LoadInv, DecodeInv
<1>6. ASSUME NEW n \in 1..2 PROVE DecodedCircuit(n)
  <2>1. PICK c : c = job.artifact.circuits[n]
    OBVIOUS
  <2>2. /\ WholeFile(legacy[n], FromLfc2(c)) /\ \A k \in 1..Len(c.layers) : Short(c.layers[k])
        /\ c.field = FieldOf(n)
    BY <1>2, <1>5, <2>1
  <2>3. n \in Nat \ {0} /\ n <= Len(job.artifact.circuits) /\ Checked(c, Len(c.layers))
    BY <1>2, <2>1 DEF Converted
  <2>4. circuits[n] = FromLfc2(c)
    <3>1. WholeRead(overflow_checks, circuits[n], legacy[n])
      BY <1>3, <1>4
    <3> QED
      BY <2>2, <3>1, MeaningIsDigest, WholeReadIsMeant
  <2>5. Expressible(c)
    BY <1>2, <2>1, <2>2, <2>3, ExpressibleIs
  <2>6. HasConstants(FromLfc2(c))
    <3>1. /\ IsSeq(c.layers) /\ IsSeq(FromLfc2(c).layers)
          /\ Len(FromLfc2(c).layers) = Len(c.layers)
          /\ \A k \in 1..Len(c.layers) :
                c.layers[k] \in Lfc2Layers /\ FromLfc2(c).layers[k] = Meant(c.layers[k])
      BY <1>2, <2>1, <2>3, SourceIs
    <3>2. DOMAIN FromLfc2(c).layers = 1..Len(c.layers)
      <4>1. PICK s, m : s = FromLfc2(c).layers /\ m = Len(c.layers)
        OBVIOUS
      <4>2. s = [k \in 1..m |-> s[k]]
        BY <3>1, <4>1 DEF IsSeq
      <4> QED
        BY <4>1, <4>2
    <3>3. FromLfc2(c).constants = c.constants
      BY DEF FromLfc2
    <3>4. ASSUME NEW k \in 1..Len(c.layers), NEW q \in DOMAIN Meant(c.layers[k]).quads
          PROVE  Meant(c.layers[k]).quads[q].const < Len(c.constants)
      <4>1. c.layers[k] \in Lfc2Layers /\ RefersWithin(c, c.layers[k])
        BY <2>3, <3>1 DEF Checked, LayerWithin
      <4>2. PICK layer : layer = c.layers[k]
        OBVIOUS
      <4>3. layer \in Lfc2Layers /\ RefersWithin(c, layer) /\ q \in DOMAIN Meant(layer).quads
        BY <4>1, <4>2
      <4>4. q \in 1..Len(Terms(layer))
        BY <4>3, MeantIs
      <4>5. Meant(layer).quads[q] = Led(DeltaOf(layer, q), Before(Meant(layer).quads, q))
        BY <4>3, <4>4, MeantIs
      <4>6. DeltaOf(layer, q).const < Len(c.constants)
        BY <4>3, <4>4, TermsAre
      <4>7. Meant(layer).quads[q].const = DeltaOf(layer, q).const
        BY <4>5 DEF Led
      <4> QED
        BY <4>2, <4>6, <4>7
    <3> QED
      BY <3>1, <3>2, <3>3, <3>4 DEF HasConstants
  <2> QED
    BY <2>1, <2>2, <2>4, <2>5, <2>6 DEF DecodedCircuit
<1> QED
  BY <1>6

\* decode_pair compares what the descriptor says of them.
LEMMA DecodePairLoads ==
    ASSUME FilesInv, LoadInv, job.call = "load", decode_pair
    PROVE  LoadInv'
<1>1. step = "decoded" /\ step \in Decoding /\ UNCHANGED <<job, legacy>>
  BY DEF decode_pair, Decoding
<1>2. /\ job \in Loads /\ Listed(job.entry, job.params) /\ job.artifact = job.entry.artifact
      /\ Converted(job.artifact)
  BY <1>1, DecodedFacts
<1>3. DecodedCircuit(1) /\ DecodedCircuit(2)
  BY <1>1, DecodedPair
<1> DEFINE Good ==
             /\ SameIds(circuits[1], circuits[2])
             /\ circuits[1].inputs = job.entry.sig_ninputs
             /\ circuits[1].public = job.entry.sig_npub
             /\ circuits[2].inputs = job.entry.hash_ninputs
             /\ circuits[2].public = job.entry.hash_npub
             /\ ligero_parameters_exist(job.entry.block_enc_hash)
             /\ ligero_parameters_exist(job.entry.block_enc_sig)
<1>4. step' = IF Good THEN "loaded" ELSE "refused"
  BY DEF decode_pair
<1>5. PICK sig, hash : sig = job.artifact.circuits[1] /\ hash = job.artifact.circuits[2]
  OBVIOUS
<1>6. /\ circuits[1] = FromLfc2(sig) /\ HasConstants(circuits[1])
      /\ sig.field = "P256" /\ Expressible(sig)
      /\ circuits[2] = FromLfc2(hash) /\ HasConstants(circuits[2])
      /\ hash.field = "GF2_128" /\ Expressible(hash)
  BY <1>3, <1>5 DEF DecodedCircuit, FieldOf
<1>7. /\ circuit_id(circuits[1]) = Meaning(sig) /\ circuits[1].id = sig.id
      /\ circuits[1].inputs = sig.inputs /\ circuits[1].public = sig.public
      /\ circuit_id(circuits[2]) = Meaning(hash) /\ circuits[2].id = hash.id
      /\ circuits[2].inputs = hash.inputs /\ circuits[2].public = hash.public
  <2>1. \A c : FromLfc2(c).inputs = c.inputs /\ FromLfc2(c).public = c.public
    BY DEF FromLfc2
  <2> QED
    BY <1>6, <2>1, MeaningIsDigest
<1> DEFINE Same ==
             /\ sig.id = Meaning(sig) /\ sig.id = job.params.sig_circuit_id
             /\ hash.id = Meaning(hash) /\ hash.id = job.params.hash_circuit_id
             /\ <<sig.inputs, sig.public>> = <<job.entry.sig_ninputs, job.entry.sig_npub>>
             /\ <<hash.inputs, hash.public>> = <<job.entry.hash_ninputs, job.entry.hash_npub>>
             /\ ligero_parameters_exist(job.entry.block_enc_hash)
             /\ ligero_parameters_exist(job.entry.block_enc_sig)
<1>8. Good <=> Same
  BY <1>6, <1>7 DEF SameIds
<1>9. Described(job.entry, job.params, job.artifact) <=> Same
  <2>1. /\ job.params.block_enc_hash = job.entry.block_enc_hash
        /\ job.params.block_enc_sig = job.entry.block_enc_sig
        /\ \A k \in DOMAIN job.params : job.params[k] = job.entry[k]
    <3>1. {"block_enc_hash", "block_enc_sig"} \subseteq DOMAIN job.params
      BY <1>2, LoadIs DEF Descriptors
    <3> QED
      BY <1>2, <3>1 DEF Listed
  <2>2. EverySlotHasItsBit(job.entry) /\ check_layout(job.entry)
    BY <1>2, LoadIs DEF Listed
  <2>3. /\ job.artifact.rest = 0 /\ Len(job.artifact.circuits) = 2
        /\ TermsOf(sig) + TermsOf(hash) <= MAX_TERMS
    BY <1>2, <1>5 DEF Converted
  <2> HIDE DEF Good
  <2> QED
    BY <1>2, <1>5, <1>6, <2>1, <2>2, <2>3 DEF Described
<1> HIDE DEF Good, Same
<1>10. CASE Good
  <2>1. step' = "loaded" /\ Described(job.entry, job.params, job.artifact)
    BY <1>4, <1>8, <1>9, <1>10
  <2>2. /\ step' \notin Converting /\ step' \notin Decoding /\ step' # "profile"
        /\ step' \notin {"convert", "convert layer", "convert term"}
        /\ step' \notin {"decode", "decoded", "decode layer", "decode quad"}
        /\ step' \notin {"load", "profile", "convert"} /\ step' \notin {"refused", "decode error"}
    BY <2>1, PhasesAre
  <2>3. EntryInv'
    BY <1>1, <1>2, <2>2 DEF EntryInv
  <2>4. ConvertInv' /\ DecodeInv'
    BY <2>2 DEF ConvertInv, DecodeInv
  <2>5. OutcomeInv'
    BY <1>1, <2>1, <2>2 DEF OutcomeInv
  <2> QED
    BY <2>3, <2>4, <2>5 DEF LoadInv
<1>11. CASE ~Good
  BY <1>1, <1>4, <1>8, <1>9, <1>11, LoadEnds
<1> QED
  BY <1>10, <1>11

-----------------------------------------------------------------------------
(* What is loaded is what is described.                                    *)

\* A load starts with nothing known.
LEMMA InitLoads == LoadingInit => LoadInv
<1> SUFFICES ASSUME LoadingInit, job.call = "load" PROVE LoadInv
  BY DEF LoadInv
<1>1. step = "load" /\ legacy = <<>> /\ total_terms = 0
  BY LoadsAssumption DEF LoadingInit
<1>2. EntryInv
  BY <1>1 DEF EntryInv, Converting, Decoding
<1>3. ConvertInv
  BY <1>1 DEF ConvertInv, Converting
<1>4. DecodeInv /\ OutcomeInv
  BY <1>1 DEF DecodeInv, OutcomeInv, Decoding
<1> QED
  BY <1>2, <1>3, <1>4 DEF LoadInv

\* No step makes a load of another call.
LEMMA CallStays == [LoadingNext]_loading_vars => job' = job
BY DEF LoadingNext, FileNext, loading_vars, file_vars, encode_header, encode_layer, encode_quad,
       encode_layer_ends, encode_id, alter, decode_header, decode_layer, decode_quad,
       decode_layer_ends, decode_id, for_hash_circuit, authenticate, convert_header, convert_layer,
       convert_term, convert_layer_ends, convert_id, to_legacy_pair, decode_pair

\* Every step keeps what is known of the load.
LEMMA LoadKeeps == FilesInv /\ LoadInv /\ [LoadingNext]_loading_vars => LoadInv'
<1> SUFFICES ASSUME FilesInv, LoadInv, [LoadingNext]_loading_vars, job.call = "load"
             PROVE  LoadInv'
  BY CallStays DEF LoadInv
<1>1. CASE FileNext /\ UNCHANGED total_terms
  <2>1. step \in LoadSteps
    BY DEF FilesInv, CallInv
  <2>2. ~(encode_header \/ encode_layer \/ encode_quad \/ encode_layer_ends \/ encode_id \/ alter)
    BY <2>1 DEF LoadSteps, encode_header, encode_layer, encode_quad, encode_layer_ends, encode_id,
                alter
  <2> QED
    BY <1>1, <2>2, DecodeHeaderLoads, DecodeLayerLoads, DecodeIdLoads DEF FileNext
<1>2. CASE \/ for_hash_circuit \/ authenticate \/ convert_header \/ convert_layer
           \/ convert_term \/ convert_layer_ends \/ convert_id \/ to_legacy_pair \/ decode_pair
  BY <1>2, ForHashCircuitLoads, AuthenticateLoads, ConvertHeaderLoads, ConvertLayerLoads,
     ConvertTermLoads, ConvertLayerEndsLoads, ConvertIdLoads, ToLegacyPairLoads, DecodePairLoads
<1>3. CASE UNCHANGED loading_vars
  <2>1. UNCHANGED <<step, job, legacy, at, total_terms>>
    BY <1>3 DEF loading_vars, file_vars
  <2>2. EntryInv'
    BY <2>1 DEF LoadInv, EntryInv
  <2>3. Source' = Source
    BY <2>1 DEF Source
  <2>4. ConvertInv'
    BY <2>1, <2>3 DEF LoadInv, ConvertInv
  <2>5. DecodeInv' /\ OutcomeInv'
    BY <2>1 DEF LoadInv, DecodeInv, OutcomeInv
  <2> QED
    BY <2>2, <2>4, <2>5 DEF LoadInv
<1> QED
  BY <1>1, <1>2, <1>3 DEF LoadingNext

\* load returns just what its caller described, and converts nothing before it has compared the
\* artifact with the entry's.
THEOREM LoadsAreDescribed == LoadingSpec => []LoadedIsDescribed
<1>1. LoadingInit => LoadInv
  BY InitLoads
<1>2. FilesInv /\ LoadInv /\ [LoadingNext]_loading_vars => LoadInv'
  BY LoadKeeps
<1>3. LoadInv => LoadedIsDescribed
  BY DEF LoadInv, EntryInv, OutcomeInv, LoadedIsDescribed
<1> QED
  BY <1>1, <1>2, <1>3, FilesSafe, PTL DEF LoadingSpec
=============================================================================
