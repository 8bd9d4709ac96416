------------------------- MODULE FilePipelineProofs -------------------------
(***************************************************************************)
(* The reader of capture files and the programs that loop over it, for     *)
(* captures of any length cut anywhere: where the reader stands in the     *)
(* file says which frames it has returned, and the counts of the loops are *)
(* numbers of frames.                                                      *)
(***************************************************************************)
EXTENDS FilePipeline, SequenceTheorems, FiniteSetTheorems, TLAPS

----------------------------------------------------------------------------
(* Offsets *)

Bytes(f, k) == UNION {{j} \X (1..(2 + f[j])) : j \in 1..k}

(* The first k frames have finitely many bytes. *)
LEMMA BytesFinite ==
    ASSUME NEW f \in Seq(Nat), NEW k \in 0..Len(f)
    PROVE  IsFiniteSet(Bytes(f, k))
<1> DEFINE part == [j \in 1..k |-> {j} \X (1..(2 + f[j]))]
           parts == {{j} \X (1..(2 + f[j])) : j \in 1..k}
<1>1. IsFiniteSet(1..k)  BY FS_Interval
<1>2. part \in Surjection(1..k, parts)  BY DEF Surjection
<1>3. IsFiniteSet(parts)  BY <1>1, <1>2, FS_Surjection DEF ExistsSurjection
<1>4. \A T \in parts : IsFiniteSet(T)
  <2> TAKE T \in parts
  <2>1. PICK j \in 1..k : T = {j} \X (1..(2 + f[j]))  OBVIOUS
  <2>2. f[j] \in Nat  BY ElementOfSeq, LenProperties
  <2>3. IsFiniteSet({j})  BY FS_Singleton
  <2>4. IsFiniteSet(1..(2 + f[j]))
    <3>1. 2 + f[j] \in Int  BY <2>2
    <3> QED  BY <3>1, FS_Interval
  <2> QED  BY <2>1, <2>3, <2>4, FS_Product
<1> QED  BY <1>3, <1>4, FS_UNION DEF Bytes

(* A frame takes its length and the two bytes of its prefix. *)
LEMMA OffsetStep ==
    ASSUME NEW f \in Seq(Nat), NEW k \in 1..Len(f)
    PROVE  Offset(f)[k] = Offset(f)[k - 1] + 2 + f[k]
<1> DEFINE frame == {k} \X (1..(2 + f[k]))
<1>1. f[k] \in Nat /\ k - 1 \in 0..Len(f) /\ k \in 0..Len(f)  BY ElementOfSeq, LenProperties
<1>2. IsFiniteSet({k}) /\ Cardinality({k}) = 1  BY FS_Singleton
<1>3. IsFiniteSet(1..(2 + f[k])) /\ Cardinality(1..(2 + f[k])) = 2 + f[k]
  <2>1. PICK n \in Nat : n = 2 + f[k]  BY <1>1
  <2>2. IsFiniteSet(1..n) /\ Cardinality(1..n) = IF 1 > n THEN 0 ELSE n - 1 + 1
        BY FS_Interval
  <2> QED  BY <1>1, <2>1, <2>2
<1>4. IsFiniteSet(frame) /\ Cardinality(frame) = 2 + f[k]
  <2>1. IsFiniteSet(frame) /\ Cardinality(frame) = 1 * (2 + f[k])  BY <1>2, <1>3, FS_Product
  <2> QED  BY <1>1, <2>1
<1>5. Bytes(f, k) = Bytes(f, k - 1) \cup frame
  <2>1. 1..k = (1..(k - 1)) \cup {k}  OBVIOUS
  <2> QED  BY <2>1, Zenon DEF Bytes
<1>6. Bytes(f, k - 1) \cap frame = {}
  <2> SUFFICES ASSUME NEW x \in Bytes(f, k - 1), x \in frame  PROVE FALSE  OBVIOUS
  <2>1. PICK j \in 1..(k - 1) : x \in {j} \X (1..(2 + f[j]))  BY DEF Bytes
  <2>2. x[1] = j /\ x[1] = k  BY <2>1
  <2> QED  BY <1>1, <2>1, <2>2
<1>7. IsFiniteSet(Bytes(f, k - 1)) /\ Cardinality(Bytes(f, k - 1)) \in Nat
      BY <1>1, BytesFinite, FS_CardinalityType
<1>8. Cardinality(Bytes(f, k)) = Cardinality(Bytes(f, k - 1)) + Cardinality(frame)
                                   - Cardinality(Bytes(f, k - 1) \cap frame)
      BY <1>4, <1>5, <1>7, FS_Union, Zenon
<1>9. Cardinality(Bytes(f, k - 1) \cap frame) = 0  BY <1>6, FS_EmptySet
<1>10. Offset(f) = [n \in 0..Len(f) |-> Cardinality(Bytes(f, n))]  BY DEF Offset, Bytes
<1> HIDE DEF frame
<1>11. Cardinality(Bytes(f, k)) = Cardinality(Bytes(f, k - 1)) + 2 + f[k]
  <2>1. PICK a \in Nat : a = Cardinality(Bytes(f, k - 1))  BY <1>7
  <2>2. Cardinality(Bytes(f, k)) = a + (2 + f[k]) - 0  BY <1>4, <1>8, <1>9, <2>1
  <2>3. PICK m \in Nat : m = f[k]  BY <1>1
  <2>4. a + (2 + m) - 0 = a + 2 + m  OBVIOUS
  <2> QED  BY <2>1, <2>2, <2>3, <2>4, Zenon
<1> QED  BY <1>1, <1>10, <1>11

(* Offsets are numbers, begin at 0 and grow by a prefix at least. *)
LEMMA OffsetOrder ==
    ASSUME NEW f \in Seq(Nat)
    PROVE  /\ Offset(f) \in [0..Len(f) -> Nat]
           /\ Offset(f)[0] = 0
           /\ \A j, k \in 0..Len(f) : j <= k => Offset(f)[j] <= Offset(f)[k]
           /\ \A j, k \in 0..Len(f) : j < k => Offset(f)[j + 1] <= Offset(f)[k]
           /\ \A k \in 1..Len(f) : Offset(f)[k] = Offset(f)[k - 1] + 2 + f[k]
<1>0. Offset(f) = [k \in 0..Len(f) |-> Cardinality(Bytes(f, k))]  BY DEF Offset, Bytes
<1>1. \A k \in 0..Len(f) : Cardinality(Bytes(f, k)) \in Nat
      BY BytesFinite, FS_CardinalityType
<1>2. Bytes(f, 0) = {}  BY DEF Bytes
<1>3. ASSUME NEW j \in 0..Len(f), NEW k \in 0..Len(f), j <= k
      PROVE  Offset(f)[j] <= Offset(f)[k]
  <2>1. Bytes(f, j) \subseteq Bytes(f, k)
    <3>1. 1..j \subseteq 1..k  BY <1>3
    <3> QED  BY <3>1, Zenon DEF Bytes
  <2> QED  BY <1>0, <2>1, BytesFinite, FS_Subset
<1>4. Offset(f)[0] = 0  BY <1>0, <1>2, FS_EmptySet
<1>5. \A j, k \in 0..Len(f) : j < k => Offset(f)[j + 1] <= Offset(f)[k]
  <2> TAKE j, k \in 0..Len(f)
  <2> HAVE j < k
  <2>1. j + 1 \in 0..Len(f) /\ j + 1 <= k  OBVIOUS
  <2> QED  BY <2>1, <1>3
<1> QED  BY <1>0, <1>1, <1>3, <1>4, <1>5, OffsetStep

----------------------------------------------------------------------------
(* The reader *)

ReaderTyped ==
    /\ file \in Seq(Nat)
    /\ size \in Nat /\ size <= Offset(file)[Len(file)]
    /\ pos \in Nat /\ pos <= size /\ total \in Nat
    /\ returned \in Seq([len : Nat, got : Nat]) /\ Len(returned) <= Len(file)

(* The buffers returned: a frame that is not whole left its buffer empty. *)
Delivered ==
    \A k \in 1..Len(returned) :
        /\ file[k] > 0
        /\ returned[k].len = file[k]
        /\ returned[k].got = IF Whole(k) THEN file[k] ELSE 0

(* The file ends right after the prefix of frame n. *)
EndsInPrefix(n) == n > 0 /\ file[n] > 0 /\ size = Offset(file)[n - 1] + 2

(* Where the reader stands: behind the frames returned and what it has of  *)
(* the present one, or at the end of a file that ends after a prefix.      *)
Stands ==
    LET n == Len(returned)
    IN  /\ pc = "open" => pos = 0 /\ total = 0 /\ n = 0
        /\ pc = "prefix" => \/ total < 2 /\ pos = Offset(file)[n] + total
                            \/ total = 0 /\ pos = size /\ EndsInPrefix(n)
        /\ pc = "body" => /\ n < Len(file) /\ total < file[n + 1]
                          /\ pos = Offset(file)[n] + 2 + total
        /\ pc = "complete" => size = Offset(file)[n] \/ EndsInPrefix(n)

Explained ==
    /\ cause.reason \in {"none", "open", "zero length", "read error", "truncated"}
    /\ cause.reason \in {"none", "open", "zero length"} => cause.message = cause.reason
    /\ cause.reason = "truncated" => size \notin Boundaries

ReaderInv == ReaderTyped /\ Delivered /\ Stands /\ Explained

(* A length strictly between two boundaries is none. *)
LEMMA Between ==
    ASSUME NEW f \in Seq(Nat), NEW n \in 0..(Len(f) - 1), NEW s \in Nat,
           Offset(f)[n] < s, s < Offset(f)[n + 1]
    PROVE  s \notin {Offset(f)[k] : k \in 0..Len(f)}
<1> SUFFICES ASSUME NEW k \in 0..Len(f), s = Offset(f)[k]  PROVE FALSE  OBVIOUS
<1>1. Len(f) \in Nat  BY LenProperties
<1>2. n \in 0..Len(f) /\ n + 1 \in 0..Len(f)  BY <1>1
<1>3. Offset(f)[n] \in Nat /\ Offset(f)[n + 1] \in Nat /\ Offset(f)[k] \in Nat
      BY <1>2, OffsetOrder
<1>4. k <= n => Offset(f)[k] <= Offset(f)[n]  BY <1>2, OffsetOrder
<1>5. n < k => Offset(f)[n + 1] <= Offset(f)[k]  BY <1>2, OffsetOrder
<1>6. k <= n \/ n < k  BY <1>1
<1> QED  BY <1>3, <1>4, <1>5, <1>6

(* A length below the end of the file that frame n ends at leaves a frame  *)
(* after it.                                                               *)
LEMMA MoreFrames ==
    ASSUME ReaderTyped, Offset(file)[Len(returned)] < size
    PROVE  /\ Len(returned) < Len(file)
           /\ Len(returned) \in 0..(Len(file) - 1)
           /\ file[Len(returned) + 1] \in Nat
           /\ Offset(file)[Len(returned)] \in Nat
           /\ Offset(file)[Len(returned) + 1]
                = Offset(file)[Len(returned)] + 2 + file[Len(returned) + 1]
<1>1. Len(file) \in Nat /\ Len(returned) \in Nat  BY LenProperties DEF ReaderTyped
<1>2. PICK n \in Nat : n = Len(returned)  BY <1>1
<1>3. n <= Len(file) /\ Offset(file)[n] < size /\ size <= Offset(file)[Len(file)] /\ size \in Nat
      BY <1>2 DEF ReaderTyped
<1>4. n \in 0..Len(file) /\ Len(file) \in 0..Len(file)  BY <1>1, <1>3
<1>5. Offset(file)[n] \in Nat /\ Offset(file)[Len(file)] \in Nat
      BY <1>4, OffsetOrder DEF ReaderTyped
<1>6. n < Len(file)
  <2> SUFFICES ASSUME n = Len(file)  PROVE FALSE  BY <1>1, <1>3
  <2> QED  BY <1>3, <1>5
<1>7. n + 1 \in 1..Len(file) /\ n \in 0..(Len(file) - 1) /\ (n + 1) - 1 = n  BY <1>1, <1>6
<1>8. file[n + 1] \in Nat  BY <1>7, ElementOfSeq DEF ReaderTyped
<1>9. Offset(file)[n + 1] = Offset(file)[(n + 1) - 1] + 2 + file[n + 1]
      BY <1>7, OffsetOrder DEF ReaderTyped
<1> QED  BY <1>2, <1>5, <1>6, <1>7, <1>8, <1>9

(* A body is always of a frame of the capture. *)
LEMMA InBody ==
    ASSUME ReaderInv, pc = "body"
    PROVE  /\ Len(returned) < Len(file) /\ Len(returned) \in 0..(Len(file) - 1)
           /\ file[Len(returned) + 1] \in Nat /\ total < file[Len(returned) + 1]
           /\ pos = Offset(file)[Len(returned)] + 2 + total
           /\ Offset(file)[Len(returned)] \in Nat
           /\ Offset(file)[Len(returned) + 1]
                = Offset(file)[Len(returned)] + 2 + file[Len(returned) + 1]
<1>1. /\ total < file[Len(returned) + 1]
      /\ pos = Offset(file)[Len(returned)] + 2 + total
      /\ Len(returned) < Len(file)
      BY DEF ReaderInv, Stands
<1>2. Len(file) \in Nat /\ Len(returned) \in Nat  BY LenProperties DEF ReaderInv, ReaderTyped
<1>3. Len(returned) \in 0..Len(file)  BY <1>1, <1>2
<1>4. Offset(file)[Len(returned)] \in Nat  BY <1>3, OffsetOrder DEF ReaderInv, ReaderTyped
<1>5. Offset(file)[Len(returned)] < size  BY <1>1, <1>4 DEF ReaderInv, ReaderTyped
<1> QED  BY <1>1, <1>5, MoreFrames DEF ReaderInv

(* next_message returns a filled buffer, or an empty one where the file    *)
(* ends after the prefix.                                                  *)
LEMMA ReturnStep ==
    ASSUME ReaderInv, pc = "body", UNCHANGED <<file, size>>, NEW got \in Nat, Return(got),
           pos' \in Nat, pos' <= size,
           \/ got = file[Len(returned) + 1] /\ pos' = Offset(file)[Len(returned) + 1]
           \/ got = 0 /\ pos' = size /\ size = Offset(file)[Len(returned)] + 2
    PROVE  ReaderInv'
<1> DEFINE n == Len(returned)
<1>1. /\ n < Len(file) /\ n \in 0..(Len(file) - 1)
      /\ file[n + 1] \in Nat /\ total < file[n + 1]
      /\ Offset(file)[n] \in Nat
      /\ Offset(file)[n + 1] = Offset(file)[n] + 2 + file[n + 1]
      BY InBody
<1>2. Len(file) \in Nat /\ n \in Nat /\ total \in Nat /\ size \in Nat
      BY LenProperties DEF ReaderInv, ReaderTyped
<1>3. file[n + 1] > 0  BY <1>1, <1>2
<1>4. got = IF Whole(n + 1) THEN file[n + 1] ELSE 0
      BY <1>1, <1>2, <1>3 DEF Whole
<1>5. /\ returned' = Append(returned, [len |-> file[n + 1], got |-> got])
      /\ pc' = "prefix" /\ total' = 0 /\ cause' = cause /\ file' = file /\ size' = size
      BY DEF Return, MsgLen
<1>6. returned' \in Seq([len : Nat, got : Nat])
  <2>1. [len |-> file[n + 1], got |-> got] \in [len : Nat, got : Nat]  BY <1>1
  <2> QED  BY <1>5, <2>1, AppendProperties DEF ReaderInv, ReaderTyped
<1>7. /\ Len(returned') = n + 1
      /\ returned'[n + 1] = [len |-> file[n + 1], got |-> got]
      /\ \A k \in 1..n : returned'[k] = returned[k]
      BY <1>5, AppendProperties DEF ReaderInv, ReaderTyped
<1>8. ReaderTyped'
      BY <1>1, <1>2, <1>5, <1>6, <1>7 DEF ReaderInv, ReaderTyped
<1>9. Delivered'
  <2> SUFFICES ASSUME NEW k \in 1..(n + 1)
               PROVE  /\ file[k] > 0 /\ returned'[k].len = file[k]
                      /\ returned'[k].got = IF Whole(k) THEN file[k] ELSE 0
      BY <1>5, <1>7 DEF Delivered, Whole
  <2>1. CASE k = n + 1  BY <2>1, <1>3, <1>4, <1>7
  <2>2. CASE k \in 1..n  BY <2>2, <1>7 DEF ReaderInv, Delivered
  <2> QED  BY <2>1, <2>2, <1>2
<1>10. Stands'
  <2>1. CASE pos' = Offset(file)[n + 1]
    <3>1. total' < 2 /\ pos' = Offset(file)[n + 1] + total'  BY <2>1, <1>1, <1>5
    <3> QED  BY <3>1, <1>5, <1>7 DEF Stands
  <2>2. CASE pos' = size /\ size = Offset(file)[n] + 2
    <3>1. (n + 1) - 1 = n /\ n + 1 > 0  BY <1>2
    <3>2. EndsInPrefix(n + 1)  BY <2>2, <3>1, <1>3 DEF EndsInPrefix
    <3>3. EndsInPrefix(Len(returned))'  BY <3>2, <1>5, <1>7 DEF EndsInPrefix
    <3> QED  BY <2>2, <3>3, <1>5, <1>7 DEF Stands
  <2> QED  BY <2>1, <2>2
<1>11. Explained'  BY <1>5 DEF ReaderInv, Explained, Boundaries
<1> QED  BY <1>8, <1>9, <1>10, <1>11 DEF ReaderInv

(* Anything else that happens leaves the buffers alone. *)
LEMMA StaysDelivered ==
    ASSUME ReaderInv, UNCHANGED <<file, size, returned>>
    PROVE  Delivered'
BY DEF ReaderInv, Delivered, Whole

(* An exception: the explanation has to be true, the position is final. *)
LEMMA FailStep ==
    ASSUME ReaderInv, NEW why \in {"open", "zero length", "read error", "truncated"}, Fail(why),
           UNCHANGED <<file, size, returned>>,
           pos' \in Nat, pos' <= size, total' \in Nat,
           why \in {"open", "zero length"} => pc # "body",
           why = "truncated" => size \notin Boundaries
    PROVE  ReaderInv'
<1>1. pc' = "failed" /\ cause'.reason = why  BY DEF Fail
<1>2. pc # "body" => cause'.message = why  BY DEF Fail
<1>3. ReaderTyped'  BY DEF ReaderInv, ReaderTyped
<1>4. Stands'  BY <1>1 DEF Stands
<1>5. Explained'  BY <1>1, <1>2 DEF Explained, Boundaries
<1> QED  BY <1>3, <1>4, <1>5, StaysDelivered DEF ReaderInv

LEMMA OpenStep ==
    ASSUME ReaderInv, Open
    PROVE  ReaderInv'
<1>1. pc = "open" /\ UNCHANGED <<file, size, pos, total, returned>>  BY DEF Open
<1>2. CASE Fail("open")  BY <1>1, <1>2, FailStep DEF ReaderInv, ReaderTyped
<1>3. CASE pc' = "prefix" /\ UNCHANGED cause
  <2>1. ReaderTyped'  BY <1>1 DEF ReaderInv, ReaderTyped
  <2>2. Offset(file)[0] = 0  BY OffsetOrder DEF ReaderInv, ReaderTyped
  <2>3. pos = 0 /\ total = 0 /\ Len(returned) = 0  BY <1>1 DEF ReaderInv, Stands
  <2>4. total' < 2 /\ pos' = Offset(file')[Len(returned')] + total'  BY <1>1, <2>2, <2>3
  <2>5. Stands'  BY <1>3, <2>4 DEF Stands
  <2>6. Explained'  BY <1>1, <1>3 DEF ReaderInv, Explained, Boundaries
  <2> QED  BY <1>1, <2>1, <2>5, <2>6, StaysDelivered DEF ReaderInv
<1> QED  BY <1>2, <1>3 DEF Open

(* Some bytes of a prefix. *)
LEMMA ReadPrefixStep ==
    ASSUME ReaderInv, pc = "prefix", Read
    PROVE  ReaderInv'
<1>1. PICK r \in 1..Least(2 - total, size - pos) : Advance(r)  BY DEF Read, Wanted
<1>2. total \in Nat /\ size \in Nat /\ pos \in Nat /\ pos <= size
      BY DEF ReaderInv, ReaderTyped
<1>3. r \in Nat /\ r >= 1 /\ r <= 2 - total /\ r <= size - pos  BY <1>2 DEF Least
<1>4. total < 2 /\ pos = Offset(file)[Len(returned)] + total
  <2>1. pos # size  BY <1>2, <1>3
  <2> QED  BY <2>1 DEF ReaderInv, Stands
<1>5. Offset(file)[Len(returned)] \in Nat
  <2>1. Len(returned) \in 0..Len(file)  BY LenProperties DEF ReaderInv, ReaderTyped
  <2> QED  BY <2>1, OffsetOrder DEF ReaderInv, ReaderTyped
<1>6. Offset(file)[Len(returned)] < size  BY <1>2, <1>3, <1>4, <1>5
<1>7. Len(returned) < Len(file) /\ file[Len(returned) + 1] \in Nat
      BY <1>6, MoreFrames DEF ReaderInv
<1>8. UNCHANGED <<file, size>> /\ pos' = pos + r  BY <1>1 DEF Read, Advance
<1>9. pos' \in Nat /\ pos' <= size  BY <1>2, <1>3, <1>8
<1>10. CASE total + r = 2
  <2>1. Filled  BY <1>1, <1>10 DEF Advance, Wanted
  <2>2. total' = 0 /\ UNCHANGED returned  BY <2>1 DEF Filled
  <2>3. CASE MsgLen = 0
    <3>1. Fail("zero length")  BY <2>1, <2>3 DEF Filled
    <3> QED  BY <1>8, <1>9, <2>2, <3>1, FailStep
  <2>4. CASE MsgLen # 0
    <3>1. pc' = "body" /\ UNCHANGED cause  BY <2>1, <2>4 DEF Filled
    <3>2. ReaderTyped'  BY <1>8, <1>9, <2>2 DEF ReaderInv, ReaderTyped
    <3>3. 0 < file[Len(returned) + 1]  BY <1>7, <2>4 DEF MsgLen
    <3>4. pos' = Offset(file)[Len(returned)] + 2 + 0
      <4>1. PICK a \in Nat : a = Offset(file)[Len(returned)]  BY <1>5
      <4>2. pos = a + total /\ pos' = pos + r /\ total + r = 2  BY <1>4, <1>8, <1>10, <4>1
      <4>3. pos' = a + 2 + 0  BY <1>2, <1>3, <4>2
      <4> QED  BY <4>1, <4>3, Zenon
    <3>5. Stands'  BY <1>7, <1>8, <2>2, <3>1, <3>3, <3>4 DEF Stands
    <3>6. Explained'  BY <1>8, <3>1 DEF ReaderInv, Explained, Boundaries
    <3> QED  BY <1>8, <2>2, <3>2, <3>5, <3>6, StaysDelivered DEF ReaderInv
  <2> QED  BY <2>3, <2>4
<1>11. CASE total + r # 2
  <2>1. total' = total + r /\ UNCHANGED <<returned, pc, cause>>
        BY <1>1, <1>11 DEF Advance, Wanted
  <2>2. ReaderTyped'  BY <1>2, <1>3, <1>8, <1>9, <2>1 DEF ReaderInv, ReaderTyped
  <2>3. total' < 2 /\ pos' = Offset(file)[Len(returned)] + total'
    <3>1. PICK a \in Nat : a = Offset(file)[Len(returned)]  BY <1>5
    <3>2. pos = a + total /\ pos' = pos + r /\ total' = total + r  BY <1>4, <1>8, <2>1, <3>1
    <3>3. total' < 2 /\ pos' = a + total'  BY <1>2, <1>3, <1>4, <1>11, <3>2
    <3> QED  BY <3>1, <3>3, Zenon
  <2>4. Stands'  BY <1>8, <2>1, <2>3 DEF Stands
  <2>5. Explained'  BY <1>8, <2>1 DEF ReaderInv, Explained, Boundaries
  <2> QED  BY <1>8, <2>1, <2>2, <2>4, <2>5, StaysDelivered DEF ReaderInv
<1> QED  BY <1>10, <1>11

(* Some bytes of a body. *)
LEMMA ReadBodyStep ==
    ASSUME ReaderInv, pc = "body", Read
    PROVE  ReaderInv'
<1> DEFINE n == Len(returned)
<1>1. PICK r \in 1..Least(file[n + 1] - total, size - pos) : Advance(r)
      BY DEF Read, Wanted, MsgLen
<1>2. total \in Nat /\ size \in Nat /\ pos \in Nat /\ pos <= size
      BY DEF ReaderInv, ReaderTyped
<1>3. /\ n < Len(file) /\ file[n + 1] \in Nat /\ total < file[n + 1]
      /\ pos = Offset(file)[n] + 2 + total
      /\ Offset(file)[n] \in Nat
      /\ Offset(file)[n + 1] = Offset(file)[n] + 2 + file[n + 1]
      BY InBody
<1>m. PICK m \in Nat : m = file[n + 1]  BY <1>3
<1>o. PICK o \in Nat : o = Offset(file)[n]  BY <1>3
<1>4. r \in Nat /\ r >= 1 /\ r <= m - total /\ r <= size - pos
  <2>1. r \in 1..Least(m - total, size - pos)  BY <1>m
  <2>2. total < m /\ pos = o + 2 + total  BY <1>3, <1>m, <1>o
  <2> QED  BY <1>2, <2>1, <2>2 DEF Least
<1>5. UNCHANGED <<file, size>> /\ pos' = pos + r  BY <1>1 DEF Read, Advance
<1>6. pos' \in Nat /\ pos' <= size  BY <1>2, <1>4, <1>5
<1>7. CASE total + r = file[n + 1]
  <2>1. PICK got \in Nat : got = MsgLen  BY <1>3 DEF MsgLen
  <2>2. Return(got)  BY <1>1, <1>7, <2>1 DEF Advance, Wanted, MsgLen, Filled
  <2>3. pos' = Offset(file)[n + 1]
    <3>1. pos = o + 2 + total /\ total + r = m /\ Offset(file)[n + 1] = o + 2 + m
          BY <1>3, <1>7, <1>m, <1>o
    <3> QED  BY <3>1, <1>2, <1>4, <1>5
  <2>4. got = file[n + 1]  BY <2>1 DEF MsgLen
  <2> QED  BY <1>5, <1>6, <2>2, <2>3, <2>4, ReturnStep
<1>8. CASE total + r # file[n + 1]
  <2>1. total' = total + r /\ UNCHANGED <<returned, pc, cause>>
        BY <1>1, <1>8 DEF Advance, Wanted, MsgLen
  <2>2. ReaderTyped'  BY <1>2, <1>4, <1>5, <1>6, <2>1 DEF ReaderInv, ReaderTyped
  <2>3. total' < file[n + 1] /\ pos' = Offset(file)[n] + 2 + total'
    <3>1. pos = o + 2 + total /\ total + r # m  BY <1>3, <1>8, <1>m, <1>o
    <3>2. total + r < m /\ pos + r = o + 2 + (total + r)  BY <3>1, <1>2, <1>4
    <3> QED  BY <3>2, <1>5, <1>m, <1>o, <2>1
  <2>4. Stands'  BY <1>3, <1>5, <2>1, <2>3 DEF Stands
  <2>5. Explained'  BY <1>5, <2>1 DEF ReaderInv, Explained, Boundaries
  <2> QED  BY <1>5, <2>1, <2>2, <2>4, <2>5, StaysDelivered DEF ReaderInv
<1> QED  BY <1>7, <1>8

(* The end of the file: inside a frame it is no boundary. *)
LEMMA EofStep ==
    ASSUME ReaderInv, ReadEof
    PROVE  ReaderInv'
<1> DEFINE n == Len(returned)
<1>1. /\ pc \in {"prefix", "body"} /\ pos = size /\ AtEof
      /\ UNCHANGED <<file, size, pos>>
      BY DEF ReadEof
<1>2. total \in Nat /\ size \in Nat /\ pos \in Nat /\ pos <= size /\ n \in 0..Len(file)
      BY LenProperties DEF ReaderInv, ReaderTyped
<1>3. Offset(file)[n] \in Nat  BY <1>2, OffsetOrder DEF ReaderInv, ReaderTyped
<1>4. CASE total > 0
  <2>1. Fail("truncated") /\ UNCHANGED <<returned, total>>  BY <1>1, <1>4 DEF AtEof
  <2>2. Offset(file)[n] < size /\ size < Offset(file)[n + 1] /\ n \in 0..(Len(file) - 1)
    <3>1. CASE pc = "body"
      <4>1. /\ n \in 0..(Len(file) - 1) /\ file[n + 1] \in Nat /\ total < file[n + 1]
            /\ size = Offset(file)[n] + 2 + total
            /\ Offset(file)[n + 1] = Offset(file)[n] + 2 + file[n + 1]
            BY <3>1, <1>1, InBody
      <4> QED  BY <4>1, <1>2, <1>3
    <3>2. CASE pc = "prefix"
      <4>1. total < 2 /\ size = Offset(file)[n] + total
            BY <3>2, <1>1, <1>2, <1>4 DEF ReaderInv, Stands
      <4>2. Offset(file)[n] < size  BY <4>1, <1>2, <1>3, <1>4
      <4>3. /\ n \in 0..(Len(file) - 1) /\ file[n + 1] \in Nat
            /\ Offset(file)[n + 1] = Offset(file)[n] + 2 + file[n + 1]
            BY <4>2, MoreFrames DEF ReaderInv
      <4> QED  BY <4>1, <4>2, <4>3, <1>2, <1>3
    <3> QED  BY <1>1, <3>1, <3>2
  <2>3. size \notin Boundaries  BY <1>2, <2>2, Between DEF Boundaries, ReaderInv, ReaderTyped
  <2> QED  BY <1>1, <1>2, <2>1, <2>3, FailStep
<1>5. CASE total = 0 /\ pc = "body"
  <2>1. Return(0)  BY <1>1, <1>5 DEF AtEof
  <2>2. size = Offset(file)[n] + 2  BY <1>1, <1>3, <1>5, InBody
  <2> QED  BY <1>1, <1>2, <1>5, <2>1, <2>2, ReturnStep
<1>6. CASE total = 0 /\ pc = "prefix"
  <2>1. pc' = "complete" /\ UNCHANGED <<returned, total, cause>>  BY <1>1, <1>6 DEF AtEof
  <2>2. size = Offset(file)[n] \/ EndsInPrefix(n)
        BY <1>1, <1>3, <1>6 DEF ReaderInv, Stands
  <2>3. Stands'  BY <1>1, <2>1, <2>2 DEF Stands, EndsInPrefix
  <2>4. ReaderTyped'  BY <1>1, <2>1 DEF ReaderInv, ReaderTyped
  <2>5. Explained'  BY <1>1, <2>1 DEF ReaderInv, Explained, Boundaries
  <2> QED  BY <1>1, <2>1, <2>3, <2>4, <2>5, StaysDelivered DEF ReaderInv
<1> QED  BY <1>1, <1>2, <1>4, <1>5, <1>6

(* Every step of the reader keeps the invariant, and takes no buffer back. *)
LEMMA ReaderStep ==
    ASSUME ReaderInv, Open \/ Read \/ ReadEof \/ ReadError
    PROVE  /\ ReaderInv'
           /\ file' = file /\ size' = size
           /\ Len(returned') \in {Len(returned), Len(returned) + 1}
<1>1. ReaderInv'
  <2>1. CASE Read
    <3>1. pc \in {"prefix", "body"}  BY <2>1 DEF Read
    <3> QED  BY <2>1, <3>1, ReadPrefixStep, ReadBodyStep
  <2>2. CASE ReadError
    <3>1. Fail("read error") /\ UNCHANGED <<file, size, pos, total, returned>>
          BY <2>2 DEF ReadError
    <3> QED  BY <3>1, FailStep DEF ReaderInv, ReaderTyped
  <2> QED  BY <2>1, <2>2, OpenStep, EofStep
<1>2. file' = file /\ size' = size  BY DEF Open, Read, ReadEof, ReadError
<1>3. returned \in Seq([len : Nat, got : Nat]) /\ returned' \in Seq([len : Nat, got : Nat])
      BY <1>1 DEF ReaderInv, ReaderTyped
<1>4. returned' = returned \/ \E e : returned' = Append(returned, e)
      BY DEF Open, Read, ReadEof, ReadError, Advance, Filled, AtEof, Return
<1>5. Len(returned') = Len(returned) \/ Len(returned') = Len(returned) + 1
      BY <1>3, <1>4
<1> QED  BY <1>1, <1>2, <1>3, <1>5, LenProperties

LEMMA InitReader ==
    ASSUME Init
    PROVE  ReaderInv
<1>1. file \in Seq(Nat)
  <2>1. PICK n \in 0..MaxFrames : file \in [1..n -> Lengths]  BY DEF Init, Files
  <2>2. n \in Nat  BY FileAssumption
  <2>4. [1..n -> Lengths] \subseteq [1..n -> Nat]  BY FileAssumption, Zenon
  <2>3. file \in UNION {[1..m -> Nat] : m \in Nat}  BY <2>1, <2>2, <2>4
  <2> QED  BY <2>3, SeqDef
<1>2. Len(file) \in 0..Len(file)  BY <1>1, LenProperties
<1>3. Offset(file)[Len(file)] \in Nat  BY <1>1, <1>2, OffsetOrder
<1>4. ReaderTyped  BY <1>1, <1>2, <1>3, EmptySeq DEF Init, ReaderTyped
<1>5. Delivered  BY EmptySeq DEF Init, Delivered
<1>6. Stands  BY EmptySeq DEF Init, Stands
<1>7. Explained  BY DEF Init, Explained
<1> QED  BY <1>4, <1>5, <1>6, <1>7 DEF ReaderInv

(* When the loop is complete no whole frame is left. *)
LEMMA NothingLeft ==
    ASSUME ReaderInv, pc = "complete", NEW k \in 1..Len(file), Whole(k)
    PROVE  k <= Len(returned)
<1> DEFINE n == Len(returned)
<1> SUFFICES ASSUME n < k  PROVE FALSE
    BY LenProperties DEF ReaderInv, ReaderTyped
<1>1. file \in Seq(Nat) /\ n \in Nat /\ Len(file) \in Nat /\ size \in Nat
      BY LenProperties DEF ReaderInv, ReaderTyped
<1>2. Offset(file)[k] <= size  BY DEF Whole
<1>3. ASSUME NEW m \in 0..Len(file), m < k  PROVE Offset(file)[m] + 2 <= Offset(file)[k]
  <2>1. m + 1 \in 1..Len(file) /\ m + 1 \in 0..Len(file) /\ k \in 0..Len(file) /\ (m + 1) - 1 = m
        BY <1>1, <1>3
  <2>2. PICK j \in Nat : j = file[m + 1]  BY <1>1, <2>1, ElementOfSeq
  <2>3. Offset(file)[m + 1] = Offset(file)[m] + 2 + j  BY <1>1, <2>1, <2>2, OffsetOrder
  <2>4. Offset(file)[m + 1] <= Offset(file)[k]  BY <1>1, <1>3, <2>1, OffsetOrder
  <2>5. Offset(file)[m] \in Nat /\ Offset(file)[k] \in Nat  BY <1>1, <2>1, OffsetOrder
  <2>6. PICK a \in Nat, b \in Nat : a = Offset(file)[m] /\ b = Offset(file)[k]  BY <2>5
  <2>7. a + 2 + j <= b  BY <2>3, <2>4, <2>6
  <2>8. a + 2 <= b  BY <2>7
  <2> QED  BY <2>6, <2>8
<1>4. CASE size = Offset(file)[n]
  <2>1. n \in 0..Len(file)  BY <1>1
  <2>2. Offset(file)[n] + 2 <= Offset(file)[k]  BY <2>1, <1>3
  <2>3. size + 2 <= Offset(file)[k]  BY <1>4, <2>2
  <2>4. k \in 0..Len(file)  BY <1>1
  <2>5. Offset(file)[k] \in Nat  BY <1>1, <2>4, OffsetOrder
  <2> QED  BY <1>1, <1>2, <2>3, <2>5
<1>5. CASE EndsInPrefix(n)
  <2>1. n > 0 /\ file[n] > 0 /\ size = Offset(file)[n - 1] + 2  BY <1>5 DEF EndsInPrefix
  <2>2. n \in 1..Len(file) /\ n \in 0..Len(file)  BY <1>1, <2>1
  <2>3. PICK j \in Nat : j = file[n]  BY <1>1, <2>2, ElementOfSeq
  <2>4. Offset(file)[n] = Offset(file)[n - 1] + 2 + j  BY <1>1, <2>2, <2>3, OffsetOrder
  <2>5. Offset(file)[n] + 2 <= Offset(file)[k]  BY <1>3, <2>2
  <2>6. n - 1 \in 0..Len(file) /\ k \in 0..Len(file)  BY <1>1, <2>2
  <2>7. Offset(file)[n] \in Nat /\ Offset(file)[n - 1] \in Nat /\ Offset(file)[k] \in Nat
        BY <1>1, <2>2, <2>6, OffsetOrder
  <2>8. PICK a \in Nat, b \in Nat : a = Offset(file)[n - 1] /\ b = Offset(file)[k]  BY <2>7
  <2>9. a + 2 + j + 2 <= b /\ b <= a + 2  BY <1>2, <2>1, <2>4, <2>5, <2>8
  <2> QED  BY <2>9
<1> QED  BY <1>4, <1>5 DEF ReaderInv, Stands

LEMMA ReaderInvImplies ==
    ASSUME ReaderInv
    PROVE  FramesInOrder /\ NoFalseTruncation
<1>1. file \in Seq(Nat) /\ Len(returned) \in Nat /\ Len(file) \in Nat /\ size \in Nat
      BY LenProperties DEF ReaderInv, ReaderTyped
<1>2. DOMAIN returned = 1..Len(returned) /\ DOMAIN file = 1..Len(file)
      BY LenProperties DEF ReaderInv, ReaderTyped
<1>3. Len(returned) <= Len(file)  BY DEF ReaderInv, ReaderTyped
<1>4. ASSUME NEW k \in DOMAIN returned
      PROVE  /\ returned[k].len = file[k]
             /\ returned[k].got \in IF Whole(k) THEN {file[k]} ELSE {0}
      BY <1>2 DEF ReaderInv, Delivered
<1>5. ASSUME pc = "complete", NEW k \in DOMAIN file, Whole(k)
      PROVE  k <= Len(returned)
      BY <1>2, <1>5, NothingLeft
<1>6. ASSUME pc = "complete"
      PROVE  {size, size - 2} \cap Boundaries # {}
  <2>1. CASE size = Offset(file)[Len(returned)]
    <3>1. Len(returned) \in 0..Len(file)  BY <1>1, <1>3
    <3> QED  BY <2>1, <3>1 DEF Boundaries
  <2>2. CASE EndsInPrefix(Len(returned))
    <3>1. Len(returned) - 1 \in 0..Len(file)  BY <1>1, <1>3, <2>2 DEF EndsInPrefix
    <3>2. Offset(file)[Len(returned) - 1] \in Nat  BY <1>1, <3>1, OffsetOrder
    <3>3. size - 2 = Offset(file)[Len(returned) - 1]  BY <3>2, <1>1, <2>2 DEF EndsInPrefix
    <3> QED  BY <3>1, <3>3 DEF Boundaries
  <2> QED  BY <1>6, <2>1, <2>2 DEF ReaderInv, Stands
<1>7. NoFalseTruncation  BY DEF ReaderInv, Explained, NoFalseTruncation
<1> QED  BY <1>3, <1>4, <1>5, <1>6, <1>7 DEF FramesInOrder

----------------------------------------------------------------------------
(* The loops *)

(* Whole frames of one content among those the loop is done with. *)
Handled(what) == {k \in 1..handled : Whole(k) /\ content[k] = what}

LoopTyped ==
    /\ handled \in Nat /\ Len(returned) \in {handled, handled + 1}
    /\ messages_processed \in Nat /\ interval \in Nat
    /\ published \in [messages_processed : Nat, complete : BOOLEAN]
    /\ stage \in {"loop", "replaying", "paused", "exited", "crashed"}
    /\ out \in Seq(Nat) /\ idx \in Nat

Counted ==
    /\ program # "load_capture" => messages_processed = Cardinality(Handled("message"))
    /\ program = "bench_replay" =>
          /\ parse_errors = Cardinality(Handled("malformed"))
          /\ stage # "crashed" => messages = messages_processed

(* What load_capture has collected. *)
Collected ==
    program = "load_capture" =>
        /\ interval # 0
        /\ {out[i] : i \in 1..Len(out)} = Handled("message")
        /\ \A i, j \in 1..Len(out) : i < j => out[i] < out[j]
        /\ Len(out) = Cardinality(Handled("message"))
        /\ Len(out) <= MaxLoaded
        /\ handled < Len(returned) => Len(out) < MaxLoaded
        /\ stage = "loop" => idx = 0
        /\ stage = "replaying" => idx < Len(out)

Endings ==
    /\ published.complete =>
          /\ pc = "complete" /\ handled = Len(returned)
          /\ stage \in {"paused", "exited"} /\ program # "load_capture"
          /\ published.messages_processed = messages_processed
    /\ stage = "paused" => published.complete
    /\ stage = "replaying" => program = "load_capture" /\ handled = Len(returned)

PipeInv == ReaderInv /\ LoopTyped /\ Counted /\ Collected /\ Endings

LEMMA InitPipe ==
    ASSUME PipeInit
    PROVE  PipeInv
<1>0. /\ stage = "loop" /\ handled = 0 /\ parse_errors = 0 /\ messages = 0
      /\ out = <<>> /\ idx = 0 /\ messages_processed = 0 /\ published = NoSnapshot
      BY DEF PipeInit
<1>1. ReaderInv /\ returned = <<>>  BY InitReader DEF PipeInit, Init
<1>2. Len(returned) = 0 /\ Len(out) = 0 /\ out \in Seq(Nat)  BY <1>0, <1>1, EmptySeq
<1>3. interval \in Nat /\ (program = "load_capture" => interval # 0)
  <2>1. interval \in IF program = "load_capture" THEN {MaxApplied + 1} ELSE Intervals
        BY DEF PipeInit
  <2> QED  BY <2>1, FilePipelineAssumption
<1>4. LoopTyped  BY <1>0, <1>2, <1>3 DEF LoopTyped, NoSnapshot
<1>5. 1..handled = {} /\ 1..Len(out) = {}  BY <1>0, <1>2
<1>6. \A what : Handled(what) = {} /\ Cardinality(Handled(what)) = 0
      BY <1>5, FS_EmptySet DEF Handled
<1>7. Counted  BY <1>0, <1>6 DEF Counted
<1>8. Collected
  <2>1. {out[i] : i \in 1..Len(out)} = {}  BY <1>5
  <2>2. 0 <= MaxLoaded  BY FilePipelineAssumption
  <2> QED  BY <1>0, <1>2, <1>3, <1>5, <1>6, <2>1, <2>2 DEF Collected
<1>9. Endings  BY <1>0 DEF Endings, NoSnapshot
<1> QED  BY <1>1, <1>4, <1>7, <1>8, <1>9 DEF PipeInv

(* While the reader runs the loop stands still. *)
LEMMA ReadStep ==
    ASSUME PipeInv, ReadBuffer \/ ReadFails
    PROVE  PipeInv'
<1>1. /\ Reading
      /\ Open \/ Read \/ ReadEof \/ ReadError
      /\ UNCHANGED <<program, content, interval, loopVars, engineVars>>
      BY DEF ReadBuffer, ReadFails
<1>2. /\ ReaderInv' /\ file' = file /\ size' = size
      /\ Len(returned') \in {Len(returned), Len(returned) + 1}
      BY <1>1, ReaderStep DEF PipeInv
<1>3. stage = "loop" /\ handled = Len(returned) /\ handled \in Nat
      BY <1>1 DEF Reading, PipeInv, LoopTyped
<1>4. UNCHANGED <<program, content, interval, stage, handled, parse_errors, messages, out, idx,
                  messages_processed, published>>
      BY <1>1 DEF loopVars, engineVars
<1>5. \A what : Handled(what)' = Handled(what)  BY <1>2, <1>4 DEF Handled, Whole
<1>6. program = "load_capture" => Len(out) < MaxLoaded
  <2>1. Len(out) \in Nat  BY LenProperties DEF PipeInv, LoopTyped
  <2> QED  BY <1>1, <2>1, FilePipelineAssumption DEF Reading, LoadedEnough
<1>7. LoopTyped'  BY <1>2, <1>3, <1>4 DEF PipeInv, LoopTyped
<1>8. Counted'  BY <1>4, <1>5 DEF PipeInv, Counted
<1>9. Collected'  BY <1>3, <1>4, <1>5, <1>6 DEF PipeInv, Collected
<1>10. ~published.complete
  <2>1. published.complete \in BOOLEAN  BY DEF PipeInv, LoopTyped
  <2> QED  BY <1>3, <2>1 DEF PipeInv, Endings
<1>11. Endings'  BY <1>3, <1>4, <1>10 DEF Endings
<1> QED  BY <1>2, <1>7, <1>8, <1>9, <1>11 DEF PipeInv

(* parse tells the content of the whole frames, and only of those. *)
LEMMA ParsedIs ==
    ASSUME PipeInv, handled < Len(returned), NEW what \in {"message", "malformed"}
    PROVE  Parsed = what <=> Whole(handled + 1) /\ content[handled + 1] = what
<1>1. handled + 1 \in 1..Len(returned)  BY LenProperties DEF PipeInv, LoopTyped, ReaderInv, ReaderTyped
<1>2. PICK m : m = file[handled + 1]  OBVIOUS
<1>3. m > 0 /\ returned[handled + 1].got = IF Whole(handled + 1) THEN m ELSE 0
      BY <1>1, <1>2 DEF PipeInv, ReaderInv, Delivered
<1>4. returned[handled + 1].got = 0 <=> ~Whole(handled + 1)
  <2>1. m # 0  BY <1>3
  <2> QED  BY <1>3, <2>1, Zenon
<1> QED  BY <1>4 DEF Parsed

(* One more frame handled. *)
LEMMA HandledNext ==
    ASSUME PipeInv, handled' = handled + 1, UNCHANGED <<file, size, content>>, NEW what
    PROVE  /\ Cardinality(Handled(what)) \in Nat
           /\ Whole(handled + 1) /\ content[handled + 1] = what =>
                 /\ Handled(what)' = Handled(what) \cup {handled + 1}
                 /\ Cardinality(Handled(what)') = Cardinality(Handled(what)) + 1
           /\ ~(Whole(handled + 1) /\ content[handled + 1] = what) =>
                 Handled(what)' = Handled(what)
<1>1. handled \in Nat  BY DEF PipeInv, LoopTyped
<1>2. IsFiniteSet(1..handled)  BY <1>1, FS_Interval
<1>3. IsFiniteSet(Handled(what)) /\ Cardinality(Handled(what)) \in Nat
      BY <1>2, FS_Subset, FS_CardinalityType DEF Handled
<1>4. Handled(what)' = {k \in 1..(handled + 1) : Whole(k) /\ content[k] = what}
      BY DEF Handled, Whole
<1>5. 1..(handled + 1) = (1..handled) \cup {handled + 1} /\ handled + 1 \notin 1..handled
      BY <1>1
<1>6. CASE Whole(handled + 1) /\ content[handled + 1] = what
  <2>1. Handled(what)' = Handled(what) \cup {handled + 1}
        BY <1>4, <1>5, <1>6, Zenon DEF Handled
  <2>2. handled + 1 \notin Handled(what)  BY <1>5 DEF Handled
  <2> QED  BY <1>3, <1>6, <2>1, <2>2, FS_AddElement
<1>7. CASE ~(Whole(handled + 1) /\ content[handled + 1] = what)
  <2>1. Handled(what)' = Handled(what)  BY <1>4, <1>5, <1>7, Zenon DEF Handled
  <2> QED  BY <1>3, <1>7, <2>1
<1> QED  BY <1>6, <1>7

(* engine.apply counts; while it runs nothing has been called complete. *)
LEMMA ApplyStep ==
    ASSUME PipeInv, Apply, stage \in {"loop", "replaying"}
    PROVE  /\ messages_processed' = messages_processed + 1
           /\ published' \in [messages_processed : Nat, complete : BOOLEAN]
           /\ ~published'.complete
           /\ stage' = stage \/ (interval = 0 /\ stage' = "crashed")
<1>1. messages_processed \in Nat
      /\ published \in [messages_processed : Nat, complete : BOOLEAN]
      BY DEF PipeInv, LoopTyped
<1>2. ~published.complete
  <2>1. published.complete \in BOOLEAN  BY <1>1
  <2> QED  BY <2>1 DEF PipeInv, Endings
<1>3. messages_processed' = messages_processed + 1  BY DEF Apply
<1>4. stage' = stage \/ (interval = 0 /\ stage' = "crashed")  BY DEF Apply
<1>5. \/ published' = [messages_processed |-> messages_processed + 1, complete |-> FALSE]
      \/ published' = published
      BY DEF Apply
<1>6. published' \in [messages_processed : Nat, complete : BOOLEAN] /\ ~published'.complete
  <2>1. messages_processed + 1 \in Nat  BY <1>1
  <2>2. CASE published' = published  BY <1>1, <1>2, <2>2
  <2>3. CASE published' = [messages_processed |-> messages_processed + 1, complete |-> FALSE]
        BY <2>1, <2>3
  <2> QED  BY <1>5, <2>2, <2>3
<1> QED  BY <1>3, <1>4, <1>6

(* The body of the loop. *)
LEMMA HandleStep ==
    ASSUME PipeInv, HandleBuffer
    PROVE  PipeInv'
<1> DEFINE msg == Whole(handled + 1) /\ content[handled + 1] = "message"
           bad == Whole(handled + 1) /\ content[handled + 1] = "malformed"
           M == Handled("message")
           B == Handled("malformed")
<1>1. /\ stage = "loop" /\ handled < Len(returned) /\ handled' = handled + 1
      /\ UNCHANGED <<fileVars, program, content, interval, idx>>
      BY DEF HandleBuffer
<1>2. UNCHANGED <<file, size, pos, total, returned, pc, cause>>  BY <1>1 DEF fileVars
<1>3. /\ Parsed = "message" <=> msg
      /\ Parsed = "malformed" <=> bad
      BY <1>1, ParsedIs
<1>4. /\ Cardinality(M) \in Nat
      /\ msg => M' = M \cup {handled + 1} /\ Cardinality(M') = Cardinality(M) + 1
      /\ ~msg => M' = M
      BY <1>1, <1>2, HandledNext
<1>5. /\ Cardinality(B) \in Nat
      /\ bad => Cardinality(B') = Cardinality(B) + 1
      /\ ~bad => B' = B
      BY <1>1, <1>2, HandledNext
<1>6. ReaderInv'
      BY <1>2 DEF PipeInv, ReaderInv, ReaderTyped, Delivered, Stands, Explained, Whole,
                  Boundaries, EndsInPrefix
<1>7. ~published.complete
  <2>1. published.complete \in BOOLEAN  BY DEF PipeInv, LoopTyped
  <2> QED  BY <1>1, <2>1 DEF PipeInv, Endings
<1>8. program = "bench_replay" => parse_errors' = Cardinality(B')
      BY <1>3, <1>5 DEF HandleBuffer, PipeInv, Counted
<1>9. handled' \in Nat /\ handled' = Len(returned')
      BY <1>1, <1>2, LenProperties DEF PipeInv, LoopTyped, ReaderInv, ReaderTyped
<1> HIDE DEF msg, bad
<1>10. CASE ~msg
  <2>1. UNCHANGED <<stage, messages, out, messages_processed, published>>
        BY <1>3, <1>10 DEF HandleBuffer, engineVars
  <2>2. LoopTyped'  BY <1>1, <1>9, <2>1 DEF PipeInv, LoopTyped
  <2>3. Counted'  BY <1>1, <1>4, <1>8, <1>10, <2>1 DEF PipeInv, Counted
  <2>4. program = "load_capture" => Len(out) < MaxLoaded  BY <1>1 DEF PipeInv, Collected
  <2>5. Collected'  BY <1>1, <1>4, <1>10, <2>1, <2>4 DEF PipeInv, Collected
  <2>6. Endings'  BY <1>1, <1>7, <2>1 DEF Endings
  <2> QED  BY <1>6, <2>2, <2>3, <2>5, <2>6 DEF PipeInv
<1>11. CASE msg /\ program # "load_capture"
  <2>1. /\ Apply /\ UNCHANGED out
        /\ messages' = IF program = "bench_replay" /\ stage' # "crashed"
                       THEN messages + 1 ELSE messages
        BY <1>3, <1>11 DEF HandleBuffer
  <2>2. /\ messages_processed' = messages_processed + 1
        /\ published' \in [messages_processed : Nat, complete : BOOLEAN]
        /\ ~published'.complete
        /\ stage' = stage \/ stage' = "crashed"
        BY <1>1, <2>1, ApplyStep
  <2>3. LoopTyped'
    <3>1. messages_processed' \in Nat  BY <2>2 DEF PipeInv, LoopTyped
    <3> QED  BY <1>1, <1>9, <2>1, <2>2, <3>1 DEF PipeInv, LoopTyped
  <2>4. Counted'
    <3>1. messages_processed' = Cardinality(M')
          BY <1>4, <1>11, <2>2 DEF PipeInv, Counted
    <3>2. program = "bench_replay" /\ stage' # "crashed" => messages' = messages_processed'
          BY <1>1, <2>1, <2>2 DEF PipeInv, Counted
    <3> QED  BY <1>1, <1>8, <3>1, <3>2 DEF Counted
  <2>5. Collected'  BY <1>1, <1>11 DEF Collected
  <2>6. Endings'  BY <1>1, <2>2 DEF Endings
  <2> QED  BY <1>6, <2>3, <2>4, <2>5, <2>6 DEF PipeInv
<1>12. CASE msg /\ program = "load_capture"
  <2>1. /\ out' = Append(out, handled + 1)
        /\ UNCHANGED <<stage, messages, messages_processed, published>>
        BY <1>3, <1>12 DEF HandleBuffer, engineVars
  <2>2. handled \in Nat /\ out \in Seq(Nat) /\ Len(out) \in Nat
        BY LenProperties DEF PipeInv, LoopTyped
  <2>3. /\ out' \in Seq(Nat) /\ Len(out') = Len(out) + 1 /\ out'[Len(out) + 1] = handled + 1
        /\ \A i \in 1..Len(out) : out'[i] = out[i]
        BY <2>1, <2>2, AppendProperties
  <2>4. LoopTyped'  BY <1>1, <1>9, <2>1, <2>3 DEF PipeInv, LoopTyped
  <2>5. Counted'  BY <1>1, <1>12 DEF Counted
  <2>6. /\ {out[i] : i \in 1..Len(out)} = M /\ Len(out) = Cardinality(M)
        /\ \A i, j \in 1..Len(out) : i < j => out[i] < out[j]
        /\ Len(out) < MaxLoaded /\ interval # 0 /\ idx = 0
        BY <1>1, <1>12 DEF PipeInv, Collected
  <2>7. 1..Len(out') = (1..Len(out)) \cup {Len(out) + 1}  BY <2>2, <2>3
  <2>8. {out'[i] : i \in 1..Len(out')} = M'
    <3>1. {out'[i] : i \in 1..Len(out')} = {out[i] : i \in 1..Len(out)} \cup {handled + 1}
          BY <2>3, <2>7, Zenon
    <3> QED  BY <1>4, <1>12, <2>6, <3>1
  <2>9. ASSUME NEW i \in 1..Len(out'), NEW j \in 1..Len(out'), i < j
        PROVE  out'[i] < out'[j]
    <3>1. i \in 1..Len(out) /\ (j \in 1..Len(out) \/ j = Len(out) + 1)  BY <2>2, <2>3, <2>9
    <3>2. CASE j \in 1..Len(out)  BY <2>3, <2>6, <2>9, <3>1, <3>2
    <3>3. CASE j = Len(out) + 1
      <4>1. out[i] \in M  BY <2>6, <3>1
      <4>2. out[i] \in 1..handled  BY <4>1 DEF Handled
      <4> QED  BY <2>2, <2>3, <3>1, <3>3, <4>2
    <3> QED  BY <3>1, <3>2, <3>3
  <2>10. Len(out') = Cardinality(M') /\ Len(out') <= MaxLoaded
        BY <1>4, <1>12, <2>2, <2>3, <2>6, FilePipelineAssumption
  <2>11. ~(handled' < Len(returned'))  BY <1>9
  <2>12. Collected'
        BY <1>1, <2>1, <2>6, <2>8, <2>9, <2>10, <2>11 DEF Collected
  <2>13. Endings'  BY <1>1, <1>7, <2>1 DEF Endings
  <2> QED  BY <1>6, <2>4, <2>5, <2>12, <2>13 DEF PipeInv
<1> QED  BY <1>10, <1>11, <1>12

(* What no step outside the loop's body touches. *)
LEMMA Untouched ==
    ASSUME PipeInv, UNCHANGED <<fileVars, program, content, interval, handled, parse_errors,
                                messages, out>>
    PROVE  /\ ReaderInv'
           /\ UNCHANGED <<pc, returned>>
           /\ \A what : Handled(what)' = Handled(what)
<1>1. UNCHANGED <<file, size, pos, total, returned, pc, cause>>  BY DEF fileVars
<1>2. ReaderInv'
      BY <1>1 DEF PipeInv, ReaderInv, ReaderTyped, Delivered, Stands, Explained, Whole,
                  Boundaries, EndsInPrefix
<1>3. \A what : Handled(what)' = Handled(what)  BY <1>1 DEF Handled, Whole
<1> QED  BY <1>1, <1>2, <1>3

LEMMA FinishStep ==
    ASSUME PipeInv, Finish
    PROVE  PipeInv'
<1>1. /\ stage = "loop" /\ program # "load_capture" /\ pc = "complete" /\ handled = Len(returned)
      /\ published' = [messages_processed |-> messages_processed, complete |-> TRUE]
      /\ stage' \in {"paused", "exited"}
      /\ UNCHANGED <<fileVars, program, content, interval, handled, parse_errors, messages,
                     out, idx, messages_processed>>
      BY DEF Finish
<1>2. ReaderInv' /\ UNCHANGED <<pc, returned>> /\ \A what : Handled(what)' = Handled(what)
      BY <1>1, Untouched
<1>3. LoopTyped'  BY <1>1, <1>2 DEF PipeInv, LoopTyped
<1>4. Counted'  BY <1>1, <1>2 DEF PipeInv, Counted
<1>5. Collected'  BY <1>1 DEF Collected
<1>6. Endings'  BY <1>1, <1>2 DEF Endings
<1> QED  BY <1>2, <1>3, <1>4, <1>5, <1>6 DEF PipeInv

(* Leaving a loop without completion: an exception, a capture loaded, a    *)
(* benchmark that has enough.                                              *)
LEMMA LeaveStep ==
    ASSUME PipeInv, GiveUp \/ Loaded \/ ReplayEnds
    PROVE  PipeInv'
<1>1. /\ stage \in {"loop", "replaying"}
      /\ stage' = "exited" \/ (stage' = "replaying" /\ Loaded /\ out # <<>>)
      /\ UNCHANGED <<fileVars, program, content, interval, handled, parse_errors, messages,
                     out, idx, messages_processed, published>>
      BY DEF GiveUp, Loaded, ReplayEnds, engineVars
<1>2. ReaderInv' /\ UNCHANGED <<pc, returned>> /\ \A what : Handled(what)' = Handled(what)
      BY <1>1, Untouched
<1>3. LoopTyped'  BY <1>1, <1>2 DEF PipeInv, LoopTyped
<1>4. Counted'  BY <1>1, <1>2 DEF PipeInv, Counted
<1>5. stage' = "replaying" =>
         /\ stage = "loop" /\ program = "load_capture" /\ handled = Len(returned)
         /\ Len(out) > 0
  <2>1. out # <<>> => Len(out) > 0  BY EmptySeq, LenProperties DEF PipeInv, LoopTyped
  <2> QED  BY <1>1, <2>1 DEF Loaded
<1>6. Collected'
  <2>1. stage' = "replaying" => idx < Len(out)
        BY <1>5 DEF PipeInv, Collected
  <2> QED  BY <1>1, <1>2, <2>1 DEF PipeInv, Collected
<1>7. ~published.complete
  <2>1. published.complete \in BOOLEAN  BY DEF PipeInv, LoopTyped
  <2> QED  BY <1>1, <2>1 DEF PipeInv, Endings
<1>8. Endings'  BY <1>1, <1>2, <1>5, <1>7 DEF Endings
<1> QED  BY <1>2, <1>3, <1>4, <1>6, <1>8 DEF PipeInv

(* The replay loop applies a message and goes round. *)
LEMMA ReplayStep ==
    ASSUME PipeInv, Replay
    PROVE  PipeInv'
<1>1. /\ stage = "replaying" /\ Apply
      /\ idx' = IF idx + 1 = Len(out) THEN 0 ELSE idx + 1
      /\ UNCHANGED <<fileVars, program, content, interval, handled, parse_errors, messages, out>>
      BY DEF Replay
<1>2. ReaderInv' /\ UNCHANGED <<pc, returned>> /\ \A what : Handled(what)' = Handled(what)
      BY <1>1, Untouched
<1>3. /\ messages_processed' = messages_processed + 1
      /\ published' \in [messages_processed : Nat, complete : BOOLEAN]
      /\ ~published'.complete
      /\ interval # 0 => stage' = stage
      BY <1>1, ApplyStep
<1>4. program = "load_capture" /\ handled = Len(returned)  BY <1>1 DEF PipeInv, Endings
<1>5. interval # 0 /\ idx < Len(out)  BY <1>1, <1>4 DEF PipeInv, Collected
<1>6. idx \in Nat /\ Len(out) \in Nat /\ messages_processed \in Nat
      BY LenProperties DEF PipeInv, LoopTyped
<1>7. idx' \in Nat /\ idx' < Len(out)  BY <1>1, <1>5, <1>6
<1>8. messages_processed' \in Nat  BY <1>3, <1>6
<1>9. LoopTyped'  BY <1>1, <1>2, <1>3, <1>5, <1>7, <1>8 DEF PipeInv, LoopTyped
<1>10. Counted'  BY <1>1, <1>4 DEF Counted
<1>11. Collected'  BY <1>1, <1>2, <1>3, <1>5, <1>7 DEF PipeInv, Collected
<1>12. Endings'  BY <1>1, <1>2, <1>3, <1>4, <1>5 DEF Endings
<1> QED  BY <1>2, <1>9, <1>10, <1>11, <1>12 DEF PipeInv

LEMMA PipeStep ==
    ASSUME PipeInv, [PipeNext]_pipeVars
    PROVE  PipeInv'
<1>1. CASE UNCHANGED pipeVars
  <2>1. /\ UNCHANGED <<fileVars, program, content, interval, handled, parse_errors, messages, out>>
        /\ UNCHANGED <<stage, idx, messages_processed, published>>
        BY <1>1 DEF pipeVars, loopVars, engineVars
  <2>2. ReaderInv' /\ UNCHANGED <<pc, returned>> /\ \A what : Handled(what)' = Handled(what)
        BY <2>1, Untouched
  <2> QED  BY <2>1, <2>2 DEF PipeInv, LoopTyped, Counted, Collected, Endings
<1>2. CASE PipeNext
      BY <1>1, <1>2, ReadStep, HandleStep, FinishStep, LeaveStep, ReplayStep
      DEF PipeNext, PipeEnded
<1> QED  BY <1>1, <1>2

(* The invariant holds for any capture, cut anywhere, however read()       *)
(* splits it, in each of the three programs.                               *)
THEOREM PipeInvariance == PipeSpec => []PipeInv
BY InitPipe, PipeStep, PTL DEF PipeSpec

(* FramesInOrder: however read() splits the file and wherever it ends, the *)
(* buffers next_message returns are the frames in order, and the loop ends *)
(* without an error only after the last whole frame.                       *)
THEOREM FramesCorrect == PipeSpec => []FramesInOrder
<1>1. PipeInv => FramesInOrder  BY ReaderInvImplies DEF PipeInv
<1> QED  BY PipeInvariance, <1>1, PTL

(* NoFalseTruncation: read_exact never takes a short read or the end of a  *)
(* complete file for a truncated one.                                      *)
THEOREM TruncationCorrect == PipeSpec => []NoFalseTruncation
<1>1. PipeInv => NoFalseTruncation  BY ReaderInvImplies DEF PipeInv
<1> QED  BY PipeInvariance, <1>1, PTL

(* After the last buffer the loop has handled every whole frame. *)
LEMMA AllHandled ==
    ASSUME PipeInv, pc = "complete", handled = Len(returned), NEW what
    PROVE  Handled(what) = {k \in DOMAIN file : Whole(k) /\ content[k] = what}
<1>1. DOMAIN file = 1..Len(file) /\ Len(file) \in Nat /\ handled \in Nat /\ handled <= Len(file)
      BY LenProperties DEF PipeInv, LoopTyped, ReaderInv, ReaderTyped
<1>2. \A k \in 1..Len(file) : Whole(k) => k <= handled  BY NothingLeft DEF PipeInv
<1>3. \A k : k \in 1..handled <=> k \in 1..Len(file) /\ k <= handled  BY <1>1
<1> QED  BY <1>1, <1>2, <1>3 DEF Handled

(* CompleteCountsAll: a snapshot that says complete counts exactly the     *)
(* messages of the whole frames, and bench_replay's own counts agree.      *)
THEOREM CountsCorrect == PipeSpec => []CompleteCountsAll
<1>1. PipeInv => CompleteCountsAll
  <2> SUFFICES ASSUME PipeInv  PROVE CompleteCountsAll  OBVIOUS
  <2>1. published.complete => /\ pc = "complete" /\ handled = Len(returned)
                              /\ stage \in {"paused", "exited"} /\ program # "load_capture"
                              /\ published.messages_processed = messages_processed
        BY DEF PipeInv, Endings
  <2>2. published.complete => /\ Handled("message") = WholeMessages
                              /\ Handled("malformed") =
                                    {k \in DOMAIN file : Whole(k) /\ content[k] = "malformed"}
        BY <2>1, AllHandled DEF WholeMessages
  <2>3. published.complete => published.messages_processed = Cardinality(WholeMessages)
        BY <2>1, <2>2 DEF PipeInv, Counted
  <2>4. stage = "paused" => published.complete  BY DEF PipeInv, Endings
  <2> QED  BY <2>1, <2>2, <2>3, <2>4 DEF CompleteCountsAll, PipeInv, Counted
<1> QED  BY PipeInvariance, <1>1, PTL

(* CaptureIsPrefix: load_capture keeps the first messages in order, up to  *)
(* its limit, after an error too, and the replay stays inside them.        *)
THEOREM CaptureCorrect == PipeSpec => []CaptureIsPrefix
<1>1. PipeInv => CaptureIsPrefix
  <2> SUFFICES ASSUME PipeInv, program = "load_capture"  PROVE CaptureIsPrefix
      BY DEF CaptureIsPrefix
  <2>1. DOMAIN out = 1..Len(out)  BY LenProperties DEF PipeInv, LoopTyped
  <2>2. Handled("message") = {k \in WholeMessages : k <= handled}
    <3>1. DOMAIN file = 1..Len(file) /\ Len(file) \in Nat /\ handled \in Nat /\ handled <= Len(file)
          BY LenProperties DEF PipeInv, LoopTyped, ReaderInv, ReaderTyped
    <3>2. \A k : k \in 1..handled <=> k \in 1..Len(file) /\ k <= handled  BY <3>1
    <3> QED  BY <3>1, <3>2 DEF Handled, WholeMessages
  <2>3. stage = "replaying" /\ pc = "complete" => Handled("message") = WholeMessages
        BY AllHandled DEF WholeMessages, PipeInv, Endings
  <2>4. stage = "replaying" => handled = Len(returned)  BY DEF PipeInv, Endings
  <2> QED  BY <2>1, <2>2, <2>3, <2>4 DEF PipeInv, Collected, CaptureIsPrefix
<1> QED  BY PipeInvariance, <1>1, PTL

=============================================================================
