---------------------------- MODULE ParserProofs ----------------------------
(***************************************************************************)
(* The parser against the sender, for every base of a byte.  No            *)
(* deserializer reads past the end of its buffer: its offsets and widths   *)
(* are covered by the number of bytes it requires.  These are exactly the  *)
(* bytes of the message struct, each read takes the bytes of its own       *)
(* field, and the value that was put into them comes out again.            *)
(***************************************************************************)
EXTENDS Parser, SequenceTheorems, FiniteSetTheorems, TLAPS

----------------------------------------------------------------------------
(* Reads stay inside the buffer *)

(* Every read of every deserializer ends within the bytes it requires. *)
LEMMA ReadsCovered ==
    ASSUME NEW k \in Kinds, NEW r \in HeaderReads \cup Reads[k]
    PROVE  /\ r.offset \in Nat /\ r.width \in Nat
           /\ r.offset + r.width <= Needed[k] /\ Needed[k] \in Nat
<1>1. k \in {"R", "H", "A", "F", "E", "C", "X", "D", "U"}  BY DEF Kinds, Struct
<1>2. /\ Needed[k] \in Nat /\ Needed[k] >= 19
      BY <1>1 DEF Needed
<1>3. CASE r \in HeaderReads  BY <1>2, <1>3 DEF HeaderReads, At
<1>4. CASE r \in Reads[k]
  <2>1. CASE k = "R"  BY <1>4, <2>1 DEF Reads, Needed, parse_stock_directory, At
  <2>2. CASE k = "H"  BY <1>4, <2>2 DEF Reads, Needed, parse_trading_action, At
  <2>3. CASE k = "A"  BY <1>4, <2>3 DEF Reads, Needed, parse_add_order, OrderReads, At
  <2>4. CASE k = "F"  BY <1>4, <2>4 DEF Reads, Needed, parse_add_order_mpid, OrderReads, At
  <2>5. CASE k = "E"  BY <1>4, <2>5 DEF Reads, Needed, parse_order_executed, ExecutionReads, At
  <2>6. CASE k = "C"
        BY <1>4, <2>6 DEF Reads, Needed, parse_order_executed_price, ExecutionReads, At
  <2>7. CASE k = "X"  BY <1>4, <2>7 DEF Reads, Needed, parse_order_cancel, At
  <2>8. CASE k = "D"  BY <1>4, <2>8 DEF Reads, Needed, parse_order_delete, At
  <2>9. CASE k = "U"  BY <1>4, <2>9 DEF Reads, Needed, parse_order_replace, At
  <2> QED  BY <1>1, <2>1, <2>2, <2>3, <2>4, <2>5, <2>6, <2>7, <2>8, <2>9
<1> QED  BY <1>3, <1>4

(* The buffer is a sequence of bytes, of which the length is a number. *)
BufferInv == Len(buf) \in Nat /\ NoOverread

LEMMA BufferLength ==
    ASSUME NEW w, NEW n \in Nat
    PROVE  Len(SubSeq(w, 1, n)) \in Nat
OBVIOUS

LEMMA InitBuffer ==
    ASSUME Init
    PROVE  BufferInv
<1>1. PICK n \in 0..MaxBuffer : \E w : buf = SubSeq(w, 1, n)  BY DEF Init
<1>2. n \in Nat  BY DEF MaxBuffer
<1> QED  BY <1>1, <1>2, BufferLength DEF Init, BufferInv, NoOverread

LEMMA ParseStep ==
    ASSUME BufferInv, [Parse]_parserVars
    PROVE  BufferInv'
<1>1. buf' = buf  BY DEF Parse, parserVars
<1>2. CASE reads' = reads  BY <1>1, <1>2 DEF BufferInv, NoOverread
<1>3. CASE reads' # reads
  <2>1. PICK k \in Kinds :
            /\ require(k)
            /\ reads' = UNION {r.offset..(r.offset + r.width - 1) : r \in HeaderReads \cup Reads[k]}
        BY <1>3 DEF Parse, Throw, parserVars
  <2>2. ASSUME NEW offset \in reads'
        PROVE  offset < Len(buf)
    <3>1. PICK r \in HeaderReads \cup Reads[k] : offset \in r.offset..(r.offset + r.width - 1)
          BY <2>1, <2>2
    <3>2. /\ r.offset \in Nat /\ r.width \in Nat
          /\ r.offset + r.width <= Needed[k] /\ Needed[k] \in Nat
          BY <3>1, ReadsCovered
    <3>3. Len(buf) >= Needed[k] /\ Len(buf) \in Nat  BY <2>1 DEF require, BufferInv
    <3> QED  BY <3>1, <3>2, <3>3
  <2> QED  BY <1>1, <2>2 DEF BufferInv, NoOverread
<1> QED  BY <1>2, <1>3

(* NoOverread: whole, cut short or with bytes after it, no buffer is read  *)
(* past its end, whatever a byte can hold.                                 *)
THEOREM ReadsStayInside == Spec => []NoOverread
<1>1. BufferInv => NoOverread  BY DEF BufferInv
<1> QED  BY InitBuffer, ParseStep, <1>1, PTL DEF Spec

----------------------------------------------------------------------------
(* Integers: what the sender divides up the parser puts together again. *)

LEMMA Powers ==
    ASSUME NEW n \in 1..8
    PROVE  Power[n] \in Nat \ {0} /\ Power[n + 1] = Power[n] * Base
<1>1. Base \in Nat \ {0}  BY BaseAssumption
<1>2. PICK two \in Nat \ {0} : two = Base * Base  BY <1>1
<1>3. PICK three \in Nat \ {0} : three = two * Base  BY <1>1
<1>4. PICK four \in Nat \ {0} : four = two * two /\ four = three * Base
  <2>1. two * two = three * Base  BY <1>1, <1>2, <1>3
  <2> QED  BY <2>1
<1>5. PICK five \in Nat \ {0} : five = four * Base  BY <1>1
<1>6. PICK six \in Nat \ {0} : six = four * two /\ six = five * Base
  <2>1. four * two = five * Base  BY <1>1, <1>2, <1>5
  <2> QED  BY <2>1
<1>7. PICK seven \in Nat \ {0} : seven = six * Base  BY <1>1
<1>8. PICK eight \in Nat \ {0} : eight = four * four /\ eight = seven * Base
  <2>1. four * four = (four * two) * two  BY <1>2, <1>4
  <2>2. (six * Base) * Base = six * two  BY <1>1, <1>2
  <2> QED  BY <1>6, <1>7, <2>1, <2>2
<1>9. Power = <<1, Base, two, three, four, five, six, seven, eight>>
      BY <1>2, <1>3, <1>4, <1>5, <1>6, <1>7, <1>8, Zenon DEF Power
<1>10. 1 * Base = Base  BY <1>1
<1> QED  BY <1>1, <1>2, <1>3, <1>4, <1>5, <1>6, <1>7, <1>8, <1>9, <1>10

(* Dividing by p and by p * b: the quotients differ by a digit. *)
LEMMA NextDigit ==
    ASSUME NEW v \in Nat, NEW p \in Nat \ {0}, NEW b \in Nat \ {0}
    PROVE  v \div p = b * (v \div (p * b)) + ((v \div p) % b)
<1>1. PICK q \in Nat : q = v \div p  OBVIOUS
<1>2. PICK r \in Nat : r = v % p /\ r < p /\ v = p * q + r  BY <1>1
<1>3. PICK c \in Nat : c = q \div b  BY <1>1
<1>4. PICK d \in Nat : d = q % b /\ d < b /\ q = b * c + d  BY <1>3
<1>5. v = (p * b) * c + (p * d + r)  BY <1>2, <1>4
<1>6. p * d + r < p * b
  <2>1. d + 1 <= b  BY <1>4
  <2>2. p * (d + 1) <= p * b  BY <2>1
  <2> QED  BY <1>2, <2>2
<1>7. PICK m \in Nat \ {0} : m = p * b  OBVIOUS
<1>8. PICK e \in Nat : e = p * d + r  BY <1>2, <1>4
<1>9. v = m * c + e /\ e < m  BY <1>5, <1>6, <1>7, <1>8
<1>10. v \div m = c  BY <1>9
<1>11. v \div (p * b) = c  BY <1>7, <1>10
<1>12. (v \div p) % b = d  BY <1>1, <1>4
<1>13. v \div p = b * c + d  BY <1>1, <1>4
<1> QED  BY <1>11, <1>12, <1>13, Zenon

(* One more byte. *)
Shift(a, d) == a * Base + d

LEMMA ReadAsShifts ==
    ASSUME NEW p
    PROVE  /\ read_be16(p) = Shift(p[1], p[2])
           /\ read_be32(p) = Shift(Shift(read_be16(p), p[3]), p[4])
           /\ read_be48(p) = Shift(Shift(read_be32(p), p[5]), p[6])
           /\ read_be64(p) = Shift(Shift(read_be48(p), p[7]), p[8])
BY Zenon DEF Shift, read_be16, read_be32, read_be48, read_be64

(* Quotients each a byte longer than the one before. *)
Lengthening(q, p, w) == \A i \in 2..w : q[w - i + 1] = Shift(q[w - i + 2], p[i])

LEMMA ReadQuotients ==
    ASSUME NEW w \in {1, 2, 4, 6, 8}, NEW p, Len(p) = w, NEW q,
           q[w] = p[1], Lengthening(q, p, w)
    PROVE  read_be(p) = q[1]
<1>1. CASE w = 1  BY <1>1 DEF read_be
<1>2. CASE w = 2
  <2>1. q[1] = Shift(q[2], p[2])  BY <1>2 DEF Lengthening
  <2>2. read_be(p) = read_be16(p)  BY <1>2 DEF read_be
  <2> QED  BY <1>2, <2>1, <2>2, ReadAsShifts
<1>3. CASE w = 4
  <2>1. q[3] = Shift(q[4], p[2]) /\ q[2] = Shift(q[3], p[3]) /\ q[1] = Shift(q[2], p[4])
        BY <1>3 DEF Lengthening
  <2>2. read_be(p) = read_be32(p)  BY <1>3 DEF read_be
  <2> QED  BY <1>3, <2>1, <2>2, ReadAsShifts
<1>4. CASE w = 6
  <2>1. /\ q[5] = Shift(q[6], p[2]) /\ q[4] = Shift(q[5], p[3]) /\ q[3] = Shift(q[4], p[4])
        /\ q[2] = Shift(q[3], p[5]) /\ q[1] = Shift(q[2], p[6])
        BY <1>4 DEF Lengthening
  <2>2. read_be(p) = read_be48(p)  BY <1>4 DEF read_be
  <2> QED  BY <1>4, <2>1, <2>2, ReadAsShifts
<1>5. CASE w = 8
  <2>1. /\ q[7] = Shift(q[8], p[2]) /\ q[6] = Shift(q[7], p[3]) /\ q[5] = Shift(q[6], p[4])
        /\ q[4] = Shift(q[5], p[5]) /\ q[3] = Shift(q[4], p[6]) /\ q[2] = Shift(q[3], p[7])
        /\ q[1] = Shift(q[2], p[8])
        BY <1>5 DEF Lengthening
  <2>2. read_be(p) = read_be64(p)  BY <1>5 DEF read_be
  <2> QED  BY <1>5, <2>1, <2>2, ReadAsShifts
<1> QED  BY <1>1, <1>2, <1>3, <1>4, <1>5

LEMMA PowersPositive == \A n \in 1..9 : Power[n] \in Nat \ {0}
<1>1. \A n \in 1..8 : Power[n] \in Nat \ {0}  BY Powers
<1>2. PICK m \in Nat \ {0} : m = Power[8]  BY <1>1
<1>3. Power[9] = m * Base
  <2>1. Power[8 + 1] = Power[8] * Base  BY Powers
  <2> QED  BY <1>2, <2>1
<1>4. Base \in Nat \ {0}  BY BaseAssumption
<1>5. m * Base \in Nat \ {0}  BY <1>4
<1> QED  BY <1>1, <1>3, <1>5

(* A byte of a value, and what is above it. *)
Quotient(v, n) == v \div Power[n]
Digit(v, n) == Quotient(v, n) % Base

LEMMA QuotientStep ==
    ASSUME NEW v \in Nat, NEW n \in 1..8
    PROVE  /\ Quotient(v, n) = Shift(Quotient(v, n + 1), Digit(v, n))
           /\ Quotient(v, n) \in Nat /\ Digit(v, n) \in Nat
<1>1. PICK a \in Nat \ {0} : a = Power[n]  BY PowersPositive
<1>2. PICK b \in Nat \ {0} : b = Base  BY BaseAssumption
<1>3. Power[n + 1] = a * b  BY <1>1, <1>2, Powers
<1>4. v \div a = b * (v \div (a * b)) + ((v \div a) % b)  BY NextDigit
<1>5. PICK c \in Nat \ {0} : c = a * b  OBVIOUS
<1>6. PICK x \in Nat : x = v \div a  OBVIOUS
<1>7. PICK y \in Nat : y = v \div c  BY <1>5
<1>8. PICK d \in Nat : d = x % b  BY <1>6
<1>9. x = y * b + d
  <2>1. x = b * y + d  BY <1>4, <1>5, <1>6, <1>7, <1>8
  <2>2. b * y = y * b  OBVIOUS
  <2> QED  BY <2>1, <2>2
<1>10. Quotient(v, n) = x /\ Quotient(v, n + 1) = y /\ Digit(v, n) = d
       BY <1>1, <1>2, <1>3, <1>5, <1>6, <1>7, <1>8, Zenon DEF Quotient, Digit
<1> QED  BY <1>2, <1>9, <1>10, Zenon DEF Shift

LEMMA QuotientEnds ==
    ASSUME NEW n \in 1..9, NEW v \in 0..(Power[n] - 1)
    PROVE  v \in Nat /\ Quotient(v, 1) = v /\ Quotient(v, n) = 0
<1>1. PICK m \in Nat \ {0} : m = Power[n]  BY PowersPositive
<1>2. v \in Nat /\ v < m  BY <1>1
<1>3. v \div m = 0  BY <1>2
<1>4. Power[1] = 1  BY DEF Power
<1>5. v \div 1 = v  BY <1>2
<1> QED  BY <1>1, <1>2, <1>3, <1>4, <1>5, Zenon DEF Quotient

(* A value that fits its bytes is read back from them. *)
LEMMA ReadBack ==
    ASSUME NEW w \in {1, 2, 4, 6, 8}, NEW v \in 0..(Power[w + 1] - 1)
    PROVE  read_be([i \in 1..w |-> Digit(v, w - i + 1)]) = v
<1> DEFINE q == [n \in 1..9 |-> Quotient(v, n)]
           p == [i \in 1..w |-> Digit(v, w - i + 1)]
<1>1. w + 1 \in 1..9 /\ w \in 1..8 /\ 1 \in 1..9  OBVIOUS
<1>2. v \in Nat /\ Quotient(v, 1) = v /\ Quotient(v, w + 1) = 0  BY <1>1, QuotientEnds
<1>3. \A i \in 1..w : q[w - i + 1] = Shift(q[w - i + 2], p[i])
  <2> TAKE i \in 1..w
  <2>1. PICK n \in 1..8 : n = w - i + 1 /\ n + 1 = w - i + 2 /\ n + 1 \in 1..9  OBVIOUS
  <2>2. Quotient(v, n) = Shift(Quotient(v, n + 1), Digit(v, n))  BY <1>2, QuotientStep
  <2> QED  BY <2>1, <2>2
<1>4. q[w] = p[1]
  <2>1. Quotient(v, w) = Shift(0, Digit(v, w)) /\ Digit(v, w) \in Nat
        BY <1>1, <1>2, QuotientStep
  <2>2. PICK d \in Nat : d = Digit(v, w)  BY <2>1
  <2>3. 0 * Base + d = d  BY BaseAssumption
  <2>4. Quotient(v, w) = Digit(v, w)  BY <2>1, <2>2, <2>3 DEF Shift
  <2>5. p[1] = Digit(v, w)
    <3>1. 1 \in 1..w /\ w - 1 + 1 = w  OBVIOUS
    <3> QED  BY <3>1
  <2> QED  BY <1>1, <2>4, <2>5
<1>5. Len(p) = w
  <2>1. w \in Nat  OBVIOUS
  <2>2. DOMAIN p = 1..w  OBVIOUS
  <2> HIDE DEF p
  <2> QED  BY <2>1, <2>2
<1> HIDE DEF q, p
<1>6. Lengthening(q, p, w)
  <2>1. \A i \in 2..w : i \in 1..w  OBVIOUS
  <2> QED  BY <1>3, <2>1 DEF Lengthening
<1>7. read_be(p) = q[1]  BY <1>4, <1>5, <1>6, ReadQuotients
<1> QED  BY <1>1, <1>2, <1>7 DEF p, q

(* Alpha fields: exactly the padding is removed, from text that does not   *)
(* end in a space.                                                         *)
LEMMA Unpadded ==
    ASSUME NEW w \in Nat, NEW v \in Seq(Nat), Len(v) <= w, Len(v) > 0 => v[Len(v)] # Space,
           NEW p, p = [i \in 1..w |-> IF i <= Len(v) THEN v[i] ELSE Space]
    PROVE  read_alpha(p) = v
<1>1. PICK n \in 0..w : n = Len(v)  BY LenProperties
<1> DEFINE last == {i \in 1..w : \A j \in i..w : p[j] = Space}
<1>2. last = (n + 1)..w
  <2>1. ASSUME NEW i \in last  PROVE i \in (n + 1)..w
    <3>1. CASE i <= n
      <4>1. n \in i..w /\ n > 0 /\ n \in 1..w  BY <2>1, <3>1
      <4>2. p[n] = Space  BY <2>1, <4>1
      <4>3. p[n] = v[n]  BY <1>1, <4>1
      <4> QED  BY <1>1, <4>1, <4>2, <4>3
    <3>2. CASE i > n  BY <2>1, <3>2
    <3> QED  BY <2>1, <3>1, <3>2
  <2>2. ASSUME NEW i \in (n + 1)..w  PROVE i \in last
    <3>1. i \in 1..w /\ \A j \in i..w : j \in 1..w /\ ~(j <= n)  BY <2>2
    <3> QED  BY <1>1, <3>1
  <2> QED  BY <2>1, <2>2
<1>3. Cardinality(last) = w - n
  <2>1. n + 1 \in Int /\ w \in Int  OBVIOUS
  <2>2. Cardinality((n + 1)..w) = IF n + 1 > w THEN 0 ELSE w - (n + 1) + 1
        BY <2>1, FS_Interval
  <2>3. (IF n + 1 > w THEN 0 ELSE w - (n + 1) + 1) = w - n  OBVIOUS
  <2> QED  BY <1>2, <2>2, <2>3, Zenon
<1>4. Len(p) = w  OBVIOUS
<1>5. read_alpha(p) = SubSeq(p, 1, n)
  <2>1. w - Cardinality(last) = n  BY <1>3
  <2>2. read_alpha(p) = SubSeq(p, 1, w - Cardinality(last))  BY <1>4 DEF read_alpha
  <2> QED  BY <2>1, <2>2
<1>6. SubSeq(p, 1, n) = [i \in 1..n |-> v[i]]
  <2>1. SubSeq(p, 1, n) = [i \in 1..n |-> p[i]]  OBVIOUS
  <2>2. \A i \in 1..n : p[i] = v[i]  BY <1>1
  <2> QED  BY <2>1, <2>2
<1>7. v = [i \in 1..n |-> v[i]]  BY <1>1, LenProperties
<1> QED  BY <1>5, <1>6, <1>7

----------------------------------------------------------------------------
(* Where the fields of a message are *)

(* The fields of a struct have bytes, and no others. *)
LEMMA Widths ==
    ASSUME NEW f
    PROVE  /\ Width(f) \in {1, 2, 4, 6, 8}
           /\ IsAlpha(f) <=> f \in {"stock", "issue_sub_type", "reason", "attribution"}
BY DEF Width, IsAlpha, AlphaWidth, IntWidth

FirstFields(k, j) == UNION {{i} \X (1..Width(Struct[k][i])) : i \in 1..j}

LEMMA FirstFieldsFinite ==
    ASSUME NEW k, NEW j \in Nat
    PROVE  IsFiniteSet(FirstFields(k, j))
<1> DEFINE part == [i \in 1..j |-> {i} \X (1..Width(Struct[k][i]))]
           parts == {{i} \X (1..Width(Struct[k][i])) : i \in 1..j}
<1>1. IsFiniteSet(1..j)  BY FS_Interval
<1>2. part \in Surjection(1..j, parts)  BY DEF Surjection
<1>3. IsFiniteSet(parts)  BY <1>1, <1>2, FS_Surjection DEF ExistsSurjection
<1>4. \A T \in parts : IsFiniteSet(T)
  <2> TAKE T \in parts
  <2>1. PICK i \in 1..j : T = {i} \X (1..Width(Struct[k][i]))  OBVIOUS
  <2>2. PICK w \in Nat : w = Width(Struct[k][i])  BY Widths
  <2>3. IsFiniteSet({i})  BY FS_Singleton
  <2>4. IsFiniteSet(1..w)
    <3>1. 1 \in Int /\ w \in Int  OBVIOUS
    <3> QED  BY <3>1, FS_Interval
  <2> QED  BY <2>1, <2>2, <2>3, <2>4, FS_Product
<1> QED  BY <1>3, <1>4, FS_UNION DEF FirstFields

(* A field begins where the one before it ends. *)
Consecutive(k) ==
    /\ Ends[k][0] = 0
    /\ \A j \in 1..Len(Struct[k]) : Ends[k][j] = Ends[k][j - 1] + Width(Struct[k][j])

LEMMA EndsStep ==
    ASSUME NEW k \in Kinds, Len(Struct[k]) \in Nat
    PROVE  Consecutive(k)
<1>1. \A j \in 0..Len(Struct[k]) : Ends[k][j] = Cardinality(FirstFields(k, j))
      BY DEF Ends, FirstFields
<1>2. Ends[k][0] = 0
  <2>1. FirstFields(k, 0) = {}  BY DEF FirstFields
  <2>2. 0 \in 0..Len(Struct[k])  OBVIOUS
  <2> QED  BY <1>1, <2>1, <2>2, FS_EmptySet
<1>3. ASSUME NEW j \in 1..Len(Struct[k])
      PROVE  Ends[k][j] = Ends[k][j - 1] + Width(Struct[k][j])
  <2>1. PICK w \in Nat : w = Width(Struct[k][j])  BY Widths
  <2>2. PICK before : before = FirstFields(k, j - 1)  OBVIOUS
  <2>3. PICK field : field = {j} \X (1..w)  OBVIOUS
  <2>4. IsFiniteSet(before) /\ Cardinality(before) \in Nat
    <3>1. j - 1 \in Nat  OBVIOUS
    <3> QED  BY <2>2, <3>1, FirstFieldsFinite, FS_CardinalityType
  <2>5. IsFiniteSet(field) /\ Cardinality(field) = w
    <3>1. IsFiniteSet({j}) /\ Cardinality({j}) = 1  BY FS_Singleton
    <3>2. IsFiniteSet(1..w) /\ Cardinality(1..w) = w
      <4>1. IsFiniteSet(1..w) /\ Cardinality(1..w) = IF 1 > w THEN 0 ELSE w - 1 + 1
        <5>1. 1 \in Int /\ w \in Int  OBVIOUS
        <5> QED  BY <5>1, FS_Interval
      <4> QED  BY <4>1
    <3>3. IsFiniteSet(field) /\ Cardinality(field) = 1 * w  BY <2>3, <3>1, <3>2, FS_Product
    <3> QED  BY <3>3
  <2>6. FirstFields(k, j) = before \cup field
    <3>1. 1..j = (1..(j - 1)) \cup {j}  OBVIOUS
    <3> QED  BY <2>1, <2>2, <2>3, <3>1, Zenon DEF FirstFields
  <2>7. before \cap field = {}
    <3> SUFFICES ASSUME NEW x \in before, x \in field  PROVE FALSE  OBVIOUS
    <3>1. PICK i \in 1..(j - 1) : x \in {i} \X (1..Width(Struct[k][i]))
          BY <2>2 DEF FirstFields
    <3>2. x[1] = i /\ x[1] = j  BY <2>3, <3>1
    <3> QED  BY <3>1, <3>2
  <2>8. Cardinality(before \cup field)
          = Cardinality(before) + Cardinality(field) - Cardinality(before \cap field)
        BY <2>4, <2>5, FS_Union
  <2>9. Cardinality(before \cap field) = 0  BY <2>7, FS_EmptySet
  <2>10. PICK a \in Nat : a = Cardinality(before)  BY <2>4
  <2>11. Cardinality(before \cup field) = a + w  BY <2>5, <2>8, <2>9, <2>10
  <2>12. Ends[k][j] = a + w
    <3>1. j \in 0..Len(Struct[k])  OBVIOUS
    <3> QED  BY <1>1, <2>6, <2>11, <3>1
  <2>13. Ends[k][j - 1] = a
    <3>1. j - 1 \in 0..Len(Struct[k])  OBVIOUS
    <3> QED  BY <1>1, <2>2, <2>10, <3>1
  <2> QED  BY <2>1, <2>12, <2>13
<1> QED  BY <1>2, <1>3 DEF Consecutive

(* Field j of k is f, in w bytes from offset o on. *)
Place(k, j, f, o, w) ==
    /\ j \in 1..Len(Struct[k]) /\ Struct[k][j] = f
    /\ Ends[k][j - 1] + 1 = o /\ Ends[k][j] + 1 = o + w /\ Width(f) = w

IsRead(k, f) == \E r \in HeaderReads \cup Reads[k] : r.field = f

(* All fields of k are where its deserializer reads them. *)
Placed(k) ==
    /\ Len(Struct[k]) \in Nat
    /\ Ends[k][Len(Struct[k])] + 1 = Needed[k]
    /\ \A j \in 1..Len(Struct[k]) : IsRead(k, Struct[k][j])
    /\ \A r \in HeaderReads \cup Reads[k] :
          \E j \in 1..Len(Struct[k]) : Place(k, j, r.field, r.offset, r.width)

(* Field by field, for each kind of message. *)
LEMMA PlacedR == Placed("R")
<1>1. /\ "R" \in Kinds /\ Len(Struct["R"]) = 17
      /\ Struct["R"][1] = "stock_locate" /\ Struct["R"][2] = "tracking_number"
      /\ Struct["R"][3] = "timestamp" /\ Struct["R"][4] = "stock"
      /\ Struct["R"][5] = "market_category" /\ Struct["R"][6] = "financial_status"
      /\ Struct["R"][7] = "round_lot_size" /\ Struct["R"][8] = "round_lots_only"
      /\ Struct["R"][9] = "issue_classification" /\ Struct["R"][10] = "issue_sub_type"
      /\ Struct["R"][11] = "authenticity" /\ Struct["R"][12] = "short_sale_threshold"
      /\ Struct["R"][13] = "ipo_flag" /\ Struct["R"][14] = "luld_ref_price_tier"
      /\ Struct["R"][15] = "etp_flag" /\ Struct["R"][16] = "etp_leverage_factor"
      /\ Struct["R"][17] = "inverse_indicator"
      BY DEF Kinds, Struct, Header
<1>2. /\ Width("stock_locate") = 2 /\ Width("tracking_number") = 2 /\ Width("timestamp") = 6
      /\ Width("stock") = 8 /\ Width("market_category") = 1 /\ Width("financial_status") = 1
      /\ Width("round_lot_size") = 4 /\ Width("round_lots_only") = 1
      /\ Width("issue_classification") = 1 /\ Width("issue_sub_type") = 2
      /\ Width("authenticity") = 1 /\ Width("short_sale_threshold") = 1 /\ Width("ipo_flag") = 1
      /\ Width("luld_ref_price_tier") = 1 /\ Width("etp_flag") = 1
      /\ Width("etp_leverage_factor") = 4 /\ Width("inverse_indicator") = 1
      BY DEF Width, IsAlpha, AlphaWidth, IntWidth
<1>3. Ends["R"][0] = 0 /\ \A j \in 1..17 : Ends["R"][j] = Ends["R"][j - 1] + Width(Struct["R"][j])
  <2>1. Consecutive("R")  BY <1>1, EndsStep
  <2> QED  BY <1>1, <2>1 DEF Consecutive
<1>4. /\ Ends["R"][1] = 2 /\ Ends["R"][2] = 4 /\ Ends["R"][3] = 10 /\ Ends["R"][4] = 18
      /\ Ends["R"][5] = 19 /\ Ends["R"][6] = 20 /\ Ends["R"][7] = 24 /\ Ends["R"][8] = 25
      /\ Ends["R"][9] = 26 /\ Ends["R"][10] = 28 /\ Ends["R"][11] = 29 /\ Ends["R"][12] = 30
      /\ Ends["R"][13] = 31 /\ Ends["R"][14] = 32 /\ Ends["R"][15] = 33 /\ Ends["R"][16] = 37
      /\ Ends["R"][17] = 38
      BY <1>1, <1>2, <1>3
<1>5. /\ Place("R", 1, "stock_locate", 1, 2) /\ Place("R", 2, "tracking_number", 3, 2)
      /\ Place("R", 3, "timestamp", 5, 6) /\ Place("R", 4, "stock", 11, 8)
      /\ Place("R", 5, "market_category", 19, 1) /\ Place("R", 6, "financial_status", 20, 1)
      /\ Place("R", 7, "round_lot_size", 21, 4) /\ Place("R", 8, "round_lots_only", 25, 1)
      /\ Place("R", 9, "issue_classification", 26, 1) /\ Place("R", 10, "issue_sub_type", 27, 2)
      /\ Place("R", 11, "authenticity", 29, 1) /\ Place("R", 12, "short_sale_threshold", 30, 1)
      /\ Place("R", 13, "ipo_flag", 31, 1) /\ Place("R", 14, "luld_ref_price_tier", 32, 1)
      /\ Place("R", 15, "etp_flag", 33, 1) /\ Place("R", 16, "etp_leverage_factor", 34, 4)
      /\ Place("R", 17, "inverse_indicator", 38, 1)
      BY <1>1, <1>2, <1>3, <1>4 DEF Place
<1>6. HeaderReads \cup Reads["R"] =
        {At("stock_locate", 1, 2), At("tracking_number", 3, 2), At("timestamp", 5, 6),
         At("stock", 11, 8), At("market_category", 19, 1), At("financial_status", 20, 1),
         At("round_lot_size", 21, 4), At("round_lots_only", 25, 1), At("issue_classification", 26, 1),
         At("issue_sub_type", 27, 2), At("authenticity", 29, 1), At("short_sale_threshold", 30, 1),
         At("ipo_flag", 31, 1), At("luld_ref_price_tier", 32, 1), At("etp_flag", 33, 1),
         At("etp_leverage_factor", 34, 4), At("inverse_indicator", 38, 1)}
      BY DEF HeaderReads, Reads, parse_stock_directory
<1>7. \A r \in HeaderReads \cup Reads["R"] :
         \E j \in 1..Len(Struct["R"]) : Place("R", j, r.field, r.offset, r.width)
      BY <1>1, <1>5, <1>6 DEF At
<1>8. \A j \in 1..17 : IsRead("R", Struct["R"][j])
  <2>1. /\ IsRead("R", "stock_locate") /\ IsRead("R", "tracking_number")
        /\ IsRead("R", "timestamp") /\ IsRead("R", "stock") /\ IsRead("R", "market_category")
        /\ IsRead("R", "financial_status") /\ IsRead("R", "round_lot_size")
        /\ IsRead("R", "round_lots_only") /\ IsRead("R", "issue_classification")
        /\ IsRead("R", "issue_sub_type") /\ IsRead("R", "authenticity")
        /\ IsRead("R", "short_sale_threshold") /\ IsRead("R", "ipo_flag")
        /\ IsRead("R", "luld_ref_price_tier") /\ IsRead("R", "etp_flag")
        /\ IsRead("R", "etp_leverage_factor") /\ IsRead("R", "inverse_indicator")
    <3>1. \A f, p, w : At(f, p, w).field = f  BY DEF At
    <3> QED  BY <1>6, <3>1 DEF IsRead
  <2> QED  BY <1>1, <2>1
<1>9. Needed["R"] = 39  BY DEF Needed
<1> QED  BY <1>1, <1>4, <1>7, <1>8, <1>9 DEF Placed

LEMMA PlacedH == Placed("H")
<1>1. /\ "H" \in Kinds /\ Len(Struct["H"]) = 7
      /\ Struct["H"][1] = "stock_locate" /\ Struct["H"][2] = "tracking_number"
      /\ Struct["H"][3] = "timestamp" /\ Struct["H"][4] = "stock"
      /\ Struct["H"][5] = "trading_state" /\ Struct["H"][6] = "reserved"
      /\ Struct["H"][7] = "reason"
      BY DEF Kinds, Struct, Header
<1>2. /\ Width("stock_locate") = 2 /\ Width("tracking_number") = 2 /\ Width("timestamp") = 6
      /\ Width("stock") = 8 /\ Width("trading_state") = 1 /\ Width("reserved") = 1
      /\ Width("reason") = 4
      BY DEF Width, IsAlpha, AlphaWidth, IntWidth
<1>3. Ends["H"][0] = 0 /\ \A j \in 1..7 : Ends["H"][j] = Ends["H"][j - 1] + Width(Struct["H"][j])
  <2>1. Consecutive("H")  BY <1>1, EndsStep
  <2> QED  BY <1>1, <2>1 DEF Consecutive
<1>4. /\ Ends["H"][1] = 2 /\ Ends["H"][2] = 4 /\ Ends["H"][3] = 10 /\ Ends["H"][4] = 18
      /\ Ends["H"][5] = 19 /\ Ends["H"][6] = 20 /\ Ends["H"][7] = 24
      BY <1>1, <1>2, <1>3
<1>5. /\ Place("H", 1, "stock_locate", 1, 2) /\ Place("H", 2, "tracking_number", 3, 2)
      /\ Place("H", 3, "timestamp", 5, 6) /\ Place("H", 4, "stock", 11, 8)
      /\ Place("H", 5, "trading_state", 19, 1) /\ Place("H", 6, "reserved", 20, 1)
      /\ Place("H", 7, "reason", 21, 4)
      BY <1>1, <1>2, <1>3, <1>4 DEF Place
<1>6. HeaderReads \cup Reads["H"] =
        {At("stock_locate", 1, 2), At("tracking_number", 3, 2), At("timestamp", 5, 6),
         At("stock", 11, 8), At("trading_state", 19, 1), At("reserved", 20, 1),
         At("reason", 21, 4)}
      BY DEF HeaderReads, Reads, parse_trading_action
<1>7. \A r \in HeaderReads \cup Reads["H"] :
         \E j \in 1..Len(Struct["H"]) : Place("H", j, r.field, r.offset, r.width)
      BY <1>1, <1>5, <1>6 DEF At
<1>8. \A j \in 1..7 : IsRead("H", Struct["H"][j])
  <2>1. /\ IsRead("H", "stock_locate") /\ IsRead("H", "tracking_number")
        /\ IsRead("H", "timestamp") /\ IsRead("H", "stock") /\ IsRead("H", "trading_state")
        /\ IsRead("H", "reserved") /\ IsRead("H", "reason")
    <3>1. \A f, p, w : At(f, p, w).field = f  BY DEF At
    <3> QED  BY <1>6, <3>1 DEF IsRead
  <2> QED  BY <1>1, <2>1
<1>9. Needed["H"] = 25  BY DEF Needed
<1> QED  BY <1>1, <1>4, <1>7, <1>8, <1>9 DEF Placed

LEMMA PlacedA == Placed("A")
<1>1. /\ "A" \in Kinds /\ Len(Struct["A"]) = 8
      /\ Struct["A"][1] = "stock_locate" /\ Struct["A"][2] = "tracking_number"
      /\ Struct["A"][3] = "timestamp" /\ Struct["A"][4] = "order_ref" /\ Struct["A"][5] = "side"
      /\ Struct["A"][6] = "shares" /\ Struct["A"][7] = "stock" /\ Struct["A"][8] = "price"
      BY DEF Kinds, Struct, Header, Order
<1>2. /\ Width("stock_locate") = 2 /\ Width("tracking_number") = 2 /\ Width("timestamp") = 6
      /\ Width("order_ref") = 8 /\ Width("side") = 1 /\ Width("shares") = 4 /\ Width("stock") = 8
      /\ Width("price") = 4
      BY DEF Width, IsAlpha, AlphaWidth, IntWidth
<1>3. Ends["A"][0] = 0 /\ \A j \in 1..8 : Ends["A"][j] = Ends["A"][j - 1] + Width(Struct["A"][j])
  <2>1. Consecutive("A")  BY <1>1, EndsStep
  <2> QED  BY <1>1, <2>1 DEF Consecutive
<1>4. /\ Ends["A"][1] = 2 /\ Ends["A"][2] = 4 /\ Ends["A"][3] = 10 /\ Ends["A"][4] = 18
      /\ Ends["A"][5] = 19 /\ Ends["A"][6] = 23 /\ Ends["A"][7] = 31 /\ Ends["A"][8] = 35
      BY <1>1, <1>2, <1>3
<1>5. /\ Place("A", 1, "stock_locate", 1, 2) /\ Place("A", 2, "tracking_number", 3, 2)
      /\ Place("A", 3, "timestamp", 5, 6) /\ Place("A", 4, "order_ref", 11, 8)
      /\ Place("A", 5, "side", 19, 1) /\ Place("A", 6, "shares", 20, 4)
      /\ Place("A", 7, "stock", 24, 8) /\ Place("A", 8, "price", 32, 4)
      BY <1>1, <1>2, <1>3, <1>4 DEF Place
<1>6. HeaderReads \cup Reads["A"] =
        {At("stock_locate", 1, 2), At("tracking_number", 3, 2), At("timestamp", 5, 6),
         At("order_ref", 11, 8), At("side", 19, 1), At("shares", 20, 4),
         At("stock", 24, 8), At("price", 32, 4)}
      BY DEF HeaderReads, Reads, parse_add_order, OrderReads
<1>7. \A r \in HeaderReads \cup Reads["A"] :
         \E j \in 1..Len(Struct["A"]) : Place("A", j, r.field, r.offset, r.width)
      BY <1>1, <1>5, <1>6 DEF At
<1>8. \A j \in 1..8 : IsRead("A", Struct["A"][j])
  <2>1. /\ IsRead("A", "stock_locate") /\ IsRead("A", "tracking_number")
        /\ IsRead("A", "timestamp") /\ IsRead("A", "order_ref") /\ IsRead("A", "side")
        /\ IsRead("A", "shares") /\ IsRead("A", "stock") /\ IsRead("A", "price")
    <3>1. \A f, p, w : At(f, p, w).field = f  BY DEF At
    <3> QED  BY <1>6, <3>1 DEF IsRead
  <2> QED  BY <1>1, <2>1
<1>9. Needed["A"] = 36  BY DEF Needed
<1> QED  BY <1>1, <1>4, <1>7, <1>8, <1>9 DEF Placed

LEMMA PlacedF == Placed("F")
<1>1. /\ "F" \in Kinds /\ Len(Struct["F"]) = 9
      /\ Struct["F"][1] = "stock_locate" /\ Struct["F"][2] = "tracking_number"
      /\ Struct["F"][3] = "timestamp" /\ Struct["F"][4] = "order_ref" /\ Struct["F"][5] = "side"
      /\ Struct["F"][6] = "shares" /\ Struct["F"][7] = "stock" /\ Struct["F"][8] = "price"
      /\ Struct["F"][9] = "attribution"
      BY DEF Kinds, Struct, Header, Order
<1>2. /\ Width("stock_locate") = 2 /\ Width("tracking_number") = 2 /\ Width("timestamp") = 6
      /\ Width("order_ref") = 8 /\ Width("side") = 1 /\ Width("shares") = 4 /\ Width("stock") = 8
      /\ Width("price") = 4 /\ Width("attribution") = 4
      BY DEF Width, IsAlpha, AlphaWidth, IntWidth
<1>3. Ends["F"][0] = 0 /\ \A j \in 1..9 : Ends["F"][j] = Ends["F"][j - 1] + Width(Struct["F"][j])
  <2>1. Consecutive("F")  BY <1>1, EndsStep
  <2> QED  BY <1>1, <2>1 DEF Consecutive
<1>4. /\ Ends["F"][1] = 2 /\ Ends["F"][2] = 4 /\ Ends["F"][3] = 10 /\ Ends["F"][4] = 18
      /\ Ends["F"][5] = 19 /\ Ends["F"][6] = 23 /\ Ends["F"][7] = 31 /\ Ends["F"][8] = 35
      /\ Ends["F"][9] = 39
      BY <1>1, <1>2, <1>3
<1>5. /\ Place("F", 1, "stock_locate", 1, 2) /\ Place("F", 2, "tracking_number", 3, 2)
      /\ Place("F", 3, "timestamp", 5, 6) /\ Place("F", 4, "order_ref", 11, 8)
      /\ Place("F", 5, "side", 19, 1) /\ Place("F", 6, "shares", 20, 4)
      /\ Place("F", 7, "stock", 24, 8) /\ Place("F", 8, "price", 32, 4)
      /\ Place("F", 9, "attribution", 36, 4)
      BY <1>1, <1>2, <1>3, <1>4 DEF Place
<1>6. HeaderReads \cup Reads["F"] =
        {At("stock_locate", 1, 2), At("tracking_number", 3, 2), At("timestamp", 5, 6),
         At("order_ref", 11, 8), At("side", 19, 1), At("shares", 20, 4),
         At("stock", 24, 8), At("price", 32, 4), At("attribution", 36, 4)}
      BY DEF HeaderReads, Reads, parse_add_order_mpid, OrderReads
<1>7. \A r \in HeaderReads \cup Reads["F"] :
         \E j \in 1..Len(Struct["F"]) : Place("F", j, r.field, r.offset, r.width)
      BY <1>1, <1>5, <1>6 DEF At
<1>8. \A j \in 1..9 : IsRead("F", Struct["F"][j])
  <2>1. /\ IsRead("F", "stock_locate") /\ IsRead("F", "tracking_number")
        /\ IsRead("F", "timestamp") /\ IsRead("F", "order_ref") /\ IsRead("F", "side")
        /\ IsRead("F", "shares") /\ IsRead("F", "stock") /\ IsRead("F", "price")
        /\ IsRead("F", "attribution")
    <3>1. \A f, p, w : At(f, p, w).field = f  BY DEF At
    <3> QED  BY <1>6, <3>1 DEF IsRead
  <2> QED  BY <1>1, <2>1
<1>9. Needed["F"] = 40  BY DEF Needed
<1> QED  BY <1>1, <1>4, <1>7, <1>8, <1>9 DEF Placed

LEMMA PlacedE == Placed("E")
<1>1. /\ "E" \in Kinds /\ Len(Struct["E"]) = 6
      /\ Struct["E"][1] = "stock_locate" /\ Struct["E"][2] = "tracking_number"
      /\ Struct["E"][3] = "timestamp" /\ Struct["E"][4] = "order_ref"
      /\ Struct["E"][5] = "executed_shares" /\ Struct["E"][6] = "match_number"
      BY DEF Kinds, Struct, Header, Execution
<1>2. /\ Width("stock_locate") = 2 /\ Width("tracking_number") = 2 /\ Width("timestamp") = 6
      /\ Width("order_ref") = 8 /\ Width("executed_shares") = 4 /\ Width("match_number") = 8
      BY DEF Width, IsAlpha, AlphaWidth, IntWidth
<1>3. Ends["E"][0] = 0 /\ \A j \in 1..6 : Ends["E"][j] = Ends["E"][j - 1] + Width(Struct["E"][j])
  <2>1. Consecutive("E")  BY <1>1, EndsStep
  <2> QED  BY <1>1, <2>1 DEF Consecutive
<1>4. /\ Ends["E"][1] = 2 /\ Ends["E"][2] = 4 /\ Ends["E"][3] = 10 /\ Ends["E"][4] = 18
      /\ Ends["E"][5] = 22 /\ Ends["E"][6] = 30
      BY <1>1, <1>2, <1>3
<1>5. /\ Place("E", 1, "stock_locate", 1, 2) /\ Place("E", 2, "tracking_number", 3, 2)
      /\ Place("E", 3, "timestamp", 5, 6) /\ Place("E", 4, "order_ref", 11, 8)
      /\ Place("E", 5, "executed_shares", 19, 4) /\ Place("E", 6, "match_number", 23, 8)
      BY <1>1, <1>2, <1>3, <1>4 DEF Place
<1>6. HeaderReads \cup Reads["E"] =
        {At("stock_locate", 1, 2), At("tracking_number", 3, 2), At("timestamp", 5, 6),
         At("order_ref", 11, 8), At("executed_shares", 19, 4), At("match_number", 23, 8)}
      BY DEF HeaderReads, Reads, parse_order_executed, ExecutionReads
<1>7. \A r \in HeaderReads \cup Reads["E"] :
         \E j \in 1..Len(Struct["E"]) : Place("E", j, r.field, r.offset, r.width)
      BY <1>1, <1>5, <1>6 DEF At
<1>8. \A j \in 1..6 : IsRead("E", Struct["E"][j])
  <2>1. /\ IsRead("E", "stock_locate") /\ IsRead("E", "tracking_number")
        /\ IsRead("E", "timestamp") /\ IsRead("E", "order_ref") /\ IsRead("E", "executed_shares")
        /\ IsRead("E", "match_number")
    <3>1. \A f, p, w : At(f, p, w).field = f  BY DEF At
    <3> QED  BY <1>6, <3>1 DEF IsRead
  <2> QED  BY <1>1, <2>1
<1>9. Needed["E"] = 31  BY DEF Needed
<1> QED  BY <1>1, <1>4, <1>7, <1>8, <1>9 DEF Placed

LEMMA PlacedC == Placed("C")
<1>1. /\ "C" \in Kinds /\ Len(Struct["C"]) = 8
      /\ Struct["C"][1] = "stock_locate" /\ Struct["C"][2] = "tracking_number"
      /\ Struct["C"][3] = "timestamp" /\ Struct["C"][4] = "order_ref"
      /\ Struct["C"][5] = "executed_shares" /\ Struct["C"][6] = "match_number"
      /\ Struct["C"][7] = "printable" /\ Struct["C"][8] = "execution_price"
      BY DEF Kinds, Struct, Header, Execution
<1>2. /\ Width("stock_locate") = 2 /\ Width("tracking_number") = 2 /\ Width("timestamp") = 6
      /\ Width("order_ref") = 8 /\ Width("executed_shares") = 4 /\ Width("match_number") = 8
      /\ Width("printable") = 1 /\ Width("execution_price") = 4
      BY DEF Width, IsAlpha, AlphaWidth, IntWidth
<1>3. Ends["C"][0] = 0 /\ \A j \in 1..8 : Ends["C"][j] = Ends["C"][j - 1] + Width(Struct["C"][j])
  <2>1. Consecutive("C")  BY <1>1, EndsStep
  <2> QED  BY <1>1, <2>1 DEF Consecutive
<1>4. /\ Ends["C"][1] = 2 /\ Ends["C"][2] = 4 /\ Ends["C"][3] = 10 /\ Ends["C"][4] = 18
      /\ Ends["C"][5] = 22 /\ Ends["C"][6] = 30 /\ Ends["C"][7] = 31 /\ Ends["C"][8] = 35
      BY <1>1, <1>2, <1>3
<1>5. /\ Place("C", 1, "stock_locate", 1, 2) /\ Place("C", 2, "tracking_number", 3, 2)
      /\ Place("C", 3, "timestamp", 5, 6) /\ Place("C", 4, "order_ref", 11, 8)
      /\ Place("C", 5, "executed_shares", 19, 4) /\ Place("C", 6, "match_number", 23, 8)
      /\ Place("C", 7, "printable", 31, 1) /\ Place("C", 8, "execution_price", 32, 4)
      BY <1>1, <1>2, <1>3, <1>4 DEF Place
<1>6. HeaderReads \cup Reads["C"] =
        {At("stock_locate", 1, 2), At("tracking_number", 3, 2), At("timestamp", 5, 6),
         At("order_ref", 11, 8), At("executed_shares", 19, 4), At("match_number", 23, 8),
         At("printable", 31, 1), At("execution_price", 32, 4)}
      BY DEF HeaderReads, Reads, parse_order_executed_price, ExecutionReads
<1>7. \A r \in HeaderReads \cup Reads["C"] :
         \E j \in 1..Len(Struct["C"]) : Place("C", j, r.field, r.offset, r.width)
      BY <1>1, <1>5, <1>6 DEF At
<1>8. \A j \in 1..8 : IsRead("C", Struct["C"][j])
  <2>1. /\ IsRead("C", "stock_locate") /\ IsRead("C", "tracking_number")
        /\ IsRead("C", "timestamp") /\ IsRead("C", "order_ref") /\ IsRead("C", "executed_shares")
        /\ IsRead("C", "match_number") /\ IsRead("C", "printable")
        /\ IsRead("C", "execution_price")
    <3>1. \A f, p, w : At(f, p, w).field = f  BY DEF At
    <3> QED  BY <1>6, <3>1 DEF IsRead
  <2> QED  BY <1>1, <2>1
<1>9. Needed["C"] = 36  BY DEF Needed
<1> QED  BY <1>1, <1>4, <1>7, <1>8, <1>9 DEF Placed

LEMMA PlacedX == Placed("X")
<1>1. /\ "X" \in Kinds /\ Len(Struct["X"]) = 5
      /\ Struct["X"][1] = "stock_locate" /\ Struct["X"][2] = "tracking_number"
      /\ Struct["X"][3] = "timestamp" /\ Struct["X"][4] = "order_ref"
      /\ Struct["X"][5] = "cancelled_shares"
      BY DEF Kinds, Struct, Header
<1>2. /\ Width("stock_locate") = 2 /\ Width("tracking_number") = 2 /\ Width("timestamp") = 6
      /\ Width("order_ref") = 8 /\ Width("cancelled_shares") = 4
      BY DEF Width, IsAlpha, AlphaWidth, IntWidth
<1>3. Ends["X"][0] = 0 /\ \A j \in 1..5 : Ends["X"][j] = Ends["X"][j - 1] + Width(Struct["X"][j])
  <2>1. Consecutive("X")  BY <1>1, EndsStep
  <2> QED  BY <1>1, <2>1 DEF Consecutive
<1>4. /\ Ends["X"][1] = 2 /\ Ends["X"][2] = 4 /\ Ends["X"][3] = 10 /\ Ends["X"][4] = 18
      /\ Ends["X"][5] = 22
      BY <1>1, <1>2, <1>3
<1>5. /\ Place("X", 1, "stock_locate", 1, 2) /\ Place("X", 2, "tracking_number", 3, 2)
      /\ Place("X", 3, "timestamp", 5, 6) /\ Place("X", 4, "order_ref", 11, 8)
      /\ Place("X", 5, "cancelled_shares", 19, 4)
      BY <1>1, <1>2, <1>3, <1>4 DEF Place
<1>6. HeaderReads \cup Reads["X"] =
        {At("stock_locate", 1, 2), At("tracking_number", 3, 2), At("timestamp", 5, 6),
         At("order_ref", 11, 8), At("cancelled_shares", 19, 4)}
      BY DEF HeaderReads, Reads, parse_order_cancel
<1>7. \A r \in HeaderReads \cup Reads["X"] :
         \E j \in 1..Len(Struct["X"]) : Place("X", j, r.field, r.offset, r.width)
      BY <1>1, <1>5, <1>6 DEF At
<1>8. \A j \in 1..5 : IsRead("X", Struct["X"][j])
  <2>1. /\ IsRead("X", "stock_locate") /\ IsRead("X", "tracking_number")
        /\ IsRead("X", "timestamp") /\ IsRead("X", "order_ref") /\ IsRead("X", "cancelled_shares")
    <3>1. \A f, p, w : At(f, p, w).field = f  BY DEF At
    <3> QED  BY <1>6, <3>1 DEF IsRead
  <2> QED  BY <1>1, <2>1
<1>9. Needed["X"] = 23  BY DEF Needed
<1> QED  BY <1>1, <1>4, <1>7, <1>8, <1>9 DEF Placed

LEMMA PlacedD == Placed("D")
<1>1. /\ "D" \in Kinds /\ Len(Struct["D"]) = 4
      /\ Struct["D"][1] = "stock_locate" /\ Struct["D"][2] = "tracking_number"
      /\ Struct["D"][3] = "timestamp" /\ Struct["D"][4] = "order_ref"
      BY DEF Kinds, Struct, Header
<1>2. /\ Width("stock_locate") = 2 /\ Width("tracking_number") = 2 /\ Width("timestamp") = 6
      /\ Width("order_ref") = 8
      BY DEF Width, IsAlpha, AlphaWidth, IntWidth
<1>3. Ends["D"][0] = 0 /\ \A j \in 1..4 : Ends["D"][j] = Ends["D"][j - 1] + Width(Struct["D"][j])
  <2>1. Consecutive("D")  BY <1>1, EndsStep
  <2> QED  BY <1>1, <2>1 DEF Consecutive
<1>4. /\ Ends["D"][1] = 2 /\ Ends["D"][2] = 4 /\ Ends["D"][3] = 10 /\ Ends["D"][4] = 18
      BY <1>1, <1>2, <1>3
<1>5. /\ Place("D", 1, "stock_locate", 1, 2) /\ Place("D", 2, "tracking_number", 3, 2)
      /\ Place("D", 3, "timestamp", 5, 6) /\ Place("D", 4, "order_ref", 11, 8)
      BY <1>1, <1>2, <1>3, <1>4 DEF Place
<1>6. HeaderReads \cup Reads["D"] =
        {At("stock_locate", 1, 2), At("tracking_number", 3, 2), At("timestamp", 5, 6),
         At("order_ref", 11, 8)}
      BY DEF HeaderReads, Reads, parse_order_delete
<1>7. \A r \in HeaderReads \cup Reads["D"] :
         \E j \in 1..Len(Struct["D"]) : Place("D", j, r.field, r.offset, r.width)
      BY <1>1, <1>5, <1>6 DEF At
<1>8. \A j \in 1..4 : IsRead("D", Struct["D"][j])
  <2>1. /\ IsRead("D", "stock_locate") /\ IsRead("D", "tracking_number")
        /\ IsRead("D", "timestamp") /\ IsRead("D", "order_ref")
    <3>1. \A f, p, w : At(f, p, w).field = f  BY DEF At
    <3> QED  BY <1>6, <3>1 DEF IsRead
  <2> QED  BY <1>1, <2>1
<1>9. Needed["D"] = 19  BY DEF Needed
<1> QED  BY <1>1, <1>4, <1>7, <1>8, <1>9 DEF Placed

LEMMA PlacedU == Placed("U")
<1>1. /\ "U" \in Kinds /\ Len(Struct["U"]) = 7
      /\ Struct["U"][1] = "stock_locate" /\ Struct["U"][2] = "tracking_number"
      /\ Struct["U"][3] = "timestamp" /\ Struct["U"][4] = "original_order_ref"
      /\ Struct["U"][5] = "new_order_ref" /\ Struct["U"][6] = "shares" /\ Struct["U"][7] = "price"
      BY DEF Kinds, Struct, Header
<1>2. /\ Width("stock_locate") = 2 /\ Width("tracking_number") = 2 /\ Width("timestamp") = 6
      /\ Width("original_order_ref") = 8 /\ Width("new_order_ref") = 8 /\ Width("shares") = 4
      /\ Width("price") = 4
      BY DEF Width, IsAlpha, AlphaWidth, IntWidth
<1>3. Ends["U"][0] = 0 /\ \A j \in 1..7 : Ends["U"][j] = Ends["U"][j - 1] + Width(Struct["U"][j])
  <2>1. Consecutive("U")  BY <1>1, EndsStep
  <2> QED  BY <1>1, <2>1 DEF Consecutive
<1>4. /\ Ends["U"][1] = 2 /\ Ends["U"][2] = 4 /\ Ends["U"][3] = 10 /\ Ends["U"][4] = 18
      /\ Ends["U"][5] = 26 /\ Ends["U"][6] = 30 /\ Ends["U"][7] = 34
      BY <1>1, <1>2, <1>3
<1>5. /\ Place("U", 1, "stock_locate", 1, 2) /\ Place("U", 2, "tracking_number", 3, 2)
      /\ Place("U", 3, "timestamp", 5, 6) /\ Place("U", 4, "original_order_ref", 11, 8)
      /\ Place("U", 5, "new_order_ref", 19, 8) /\ Place("U", 6, "shares", 27, 4)
      /\ Place("U", 7, "price", 31, 4)
      BY <1>1, <1>2, <1>3, <1>4 DEF Place
<1>6. HeaderReads \cup Reads["U"] =
        {At("stock_locate", 1, 2), At("tracking_number", 3, 2), At("timestamp", 5, 6),
         At("original_order_ref", 11, 8), At("new_order_ref", 19, 8), At("shares", 27, 4),
         At("price", 31, 4)}
      BY DEF HeaderReads, Reads, parse_order_replace
<1>7. \A r \in HeaderReads \cup Reads["U"] :
         \E j \in 1..Len(Struct["U"]) : Place("U", j, r.field, r.offset, r.width)
      BY <1>1, <1>5, <1>6 DEF At
<1>8. \A j \in 1..7 : IsRead("U", Struct["U"][j])
  <2>1. /\ IsRead("U", "stock_locate") /\ IsRead("U", "tracking_number")
        /\ IsRead("U", "timestamp") /\ IsRead("U", "original_order_ref")
        /\ IsRead("U", "new_order_ref") /\ IsRead("U", "shares") /\ IsRead("U", "price")
    <3>1. \A f, p, w : At(f, p, w).field = f  BY DEF At
    <3> QED  BY <1>6, <3>1 DEF IsRead
  <2> QED  BY <1>1, <2>1
<1>9. Needed["U"] = 35  BY DEF Needed
<1> QED  BY <1>1, <1>4, <1>7, <1>8, <1>9 DEF Placed

LEMMA FieldsPlaced ==
    ASSUME NEW k \in Kinds
    PROVE  Placed(k)
<1>1. k \in {"R", "H", "A", "F", "E", "C", "X", "D", "U"}  BY DEF Kinds, Struct
<1> QED  BY <1>1, PlacedR, PlacedH, PlacedA, PlacedF, PlacedE, PlacedC, PlacedX, PlacedD, PlacedU

LEMMA EndsOrder ==
    ASSUME NEW k \in Kinds, Len(Struct[k]) \in Nat
    PROVE  /\ \A j \in 0..Len(Struct[k]) : Ends[k][j] \in Nat
           /\ \A i, j \in 0..Len(Struct[k]) : i <= j => Ends[k][i] <= Ends[k][j]
<1>1. \A j \in 0..Len(Struct[k]) : Ends[k][j] = Cardinality(FirstFields(k, j))
      BY DEF Ends, FirstFields
<1>2. \A j \in 0..Len(Struct[k]) : Ends[k][j] \in Nat
      BY <1>1, FirstFieldsFinite, FS_CardinalityType
<1>3. ASSUME NEW i \in 0..Len(Struct[k]), NEW j \in 0..Len(Struct[k]), i <= j
      PROVE  Ends[k][i] <= Ends[k][j]
  <2>1. FirstFields(k, i) \subseteq FirstFields(k, j)
    <3>1. 1..i \subseteq 1..j  BY <1>3
    <3> QED  BY <3>1, Zenon DEF FirstFields
  <2>2. IsFiniteSet(FirstFields(k, j))  BY FirstFieldsFinite
  <2> QED  BY <1>1, <2>1, <2>2, FS_Subset
<1> QED  BY <1>2, <1>3

(* The byte n of a whole message is the byte i of field j. *)
ByteOf(k, m, j, i, n) ==
    /\ n \in 1..Ends[k][Len(Struct[k])]
    /\ Encode(k, m)[n] = Bytes(Struct[k][j], m[Struct[k][j]])[i]

LEMMA EncodeField ==
    ASSUME NEW k \in Kinds, Len(Struct[k]) \in Nat, NEW m, NEW j \in 1..Len(Struct[k]),
           NEW i \in 1..Width(Struct[k][j]), NEW n, n = Ends[k][j - 1] + i
    PROVE  ByteOf(k, m, j, i, n)
<1> DEFINE s == Len(Struct[k])
           e == Ends[k]
           In(h) == e[h - 1] < n /\ n <= e[h]
<1>1. PICK w \in Nat : w = Width(Struct[k][j])  BY Widths
<1>2. /\ \A h \in 0..s : e[h] \in Nat
      /\ \A g, h \in 0..s : g <= h => e[g] <= e[h]
      BY EndsOrder
<1>3. e[j] = e[j - 1] + w  BY <1>1, EndsStep DEF Consecutive
<1>4. j - 1 \in 0..s /\ j \in 0..s /\ s \in 0..s /\ j <= s  OBVIOUS
<1>5. e[j - 1] \in Nat /\ e[j] \in Nat /\ e[j] <= e[s]  BY <1>2, <1>4
<1>6. In(j) /\ n \in 1..e[s] /\ n - e[j - 1] = i /\ n \in Nat
  <2>1. PICK a \in Nat, b \in Nat : a = e[j - 1] /\ b = e[s]
    <3>1. e[s] \in Nat  BY <1>2, <1>4
    <3> QED  BY <1>5, <3>1
  <2>2. n = a + i /\ e[j] = a + w /\ a + w <= b /\ i \in 1..w
        BY <1>1, <1>3, <1>5, <2>1, Zenon
  <2>3. a < n /\ n <= a + w /\ n \in 1..b /\ n - a = i  BY <2>2
  <2> QED  BY <2>1, <2>2, <2>3
<1>7. \A h \in 1..s : In(h) => h = j
  <2> SUFFICES ASSUME NEW h \in 1..s, In(h), h # j  PROVE FALSE  OBVIOUS
  <2>1. h - 1 \in 0..s /\ h \in 0..s  OBVIOUS
  <2>2. e[h - 1] \in Nat /\ e[h] \in Nat  BY <1>2, <2>1
  <2>3. CASE h < j
    <3>1. h <= j - 1  BY <2>3
    <3>2. e[h] <= e[j - 1]  BY <1>2, <1>4, <2>1, <3>1
    <3>3. PICK a \in Nat, b \in Nat : a = e[j - 1] /\ b = e[h]  BY <1>5, <2>2
    <3>4. a < n /\ n <= b /\ b <= a /\ n \in Nat  BY <1>6, <3>2, <3>3, Zenon
    <3> QED  BY <3>4
  <2>4. CASE h > j
    <3>1. j <= h - 1  BY <2>4
    <3>2. e[j] <= e[h - 1]  BY <1>2, <1>4, <2>1, <3>1
    <3>3. PICK a \in Nat, b \in Nat : a = e[h - 1] /\ b = e[j]  BY <1>5, <2>2
    <3>4. a < n /\ n <= b /\ b <= a /\ n \in Nat  BY <1>6, <3>2, <3>3, Zenon
    <3> QED  BY <3>4
  <2> QED  BY <2>3, <2>4
<1>8. FieldOf(k, n) = j
  <2>1. FieldOf(k, n) = CHOOSE h \in 1..s : In(h)  BY DEF FieldOf
  <2> HIDE DEF In
  <2> QED  BY <1>6, <1>7, <2>1
<1>9. Encode(k, m)[n] =
        LET h == FieldOf(k, n)
        IN  Bytes(Struct[k][h], m[Struct[k][h]])[n - e[h - 1]]
      BY <1>6 DEF Encode
<1> QED  BY <1>6, <1>8, <1>9 DEF ByteOf

LEMMA EncodeLength ==
    ASSUME NEW k \in Kinds, NEW m
    PROVE  /\ Needed[k] \in Nat /\ Len(Encode(k, m)) = Needed[k] - 1
           /\ \E N \in Nat : N = Len(Encode(k, m)) /\ DOMAIN Encode(k, m) = 1..N
           /\ \E S : Encode(k, m) \in Seq(S)
<1>1. Len(Struct[k]) \in Nat /\ Ends[k][Len(Struct[k])] + 1 = Needed[k]
      BY FieldsPlaced DEF Placed
<1>2. PICK N \in Nat : N = Ends[k][Len(Struct[k])]  BY <1>1, EndsOrder
<1>3. PICK c : c = Encode(k, m)  OBVIOUS
<1>4. DOMAIN c = 1..N /\ c = [n \in 1..N |-> c[n]]  BY <1>2, <1>3 DEF Encode
<1>5. c \in Seq({c[n] : n \in 1..N})  BY <1>4
<1>6. Len(c) = N  BY <1>4, <1>5, LenProperties
<1>7. Needed[k] \in Nat /\ Needed[k] - 1 = N  BY <1>1, <1>2
<1> QED  BY <1>3, <1>4, <1>5, <1>6, <1>7

(* Values a field can carry: text without a space at its end, numbers that *)
(* fit.                                                                    *)
Value(f) == IF IsAlpha(f)
            THEN {v \in Seq(Nat) : Len(v) <= Width(f) /\ (Len(v) > 0 => v[Len(v)] # Space)}
            ELSE 0..(Power[Width(f) + 1] - 1)

ReadField(f, p) == IF IsAlpha(f) THEN read_alpha(p) ELSE read_be(p)

(* The parser undoes the encoding of every field. *)
LEMMA FieldBack ==
    ASSUME NEW f, NEW v \in Value(f)
    PROVE  ReadField(f, Bytes(f, v)) = v
<1>1. PICK w \in {1, 2, 4, 6, 8} : w = Width(f)  BY Widths
<1>2. CASE IsAlpha(f)
  <2>1. v \in Seq(Nat) /\ Len(v) <= w /\ (Len(v) > 0 => v[Len(v)] # Space)
        BY <1>1, <1>2 DEF Value
  <2>2. Bytes(f, v) = [i \in 1..w |-> IF i <= Len(v) THEN v[i] ELSE Space]
        BY <1>1, <1>2 DEF Bytes
  <2>3. w \in Nat  OBVIOUS
  <2>4. read_alpha(Bytes(f, v)) = v  BY <2>1, <2>2, <2>3, Unpadded
  <2> QED  BY <1>2, <2>4 DEF ReadField
<1>3. CASE ~IsAlpha(f)
  <2>1. v \in 0..(Power[w + 1] - 1)  BY <1>1, <1>3 DEF Value
  <2>2. Bytes(f, v) = [i \in 1..w |-> Digit(v, w - i + 1)]
        BY <1>1, <1>3 DEF Bytes, Digit, Quotient
  <2>3. read_be(Bytes(f, v)) = v  BY <2>1, <2>2, ReadBack
  <2> QED  BY <1>3, <2>3 DEF ReadField
<1> QED  BY <1>2, <1>3

(* The messages of the specification carry such values. *)
LEMMA ProbesFit ==
    ASSUME NEW f
    PROVE  Zero(f) \in Value(f) /\ Probes(f) \subseteq Value(f)
<1>1. PICK w \in {1, 2, 4, 6, 8} : w = Width(f)  BY Widths
<1>2. CASE IsAlpha(f)
  <2>1. PICK full : full = [i \in 1..w |-> Letter]  OBVIOUS
  <2>2. Letter \in Nat /\ Space \in Nat /\ Letter # Space  BY DEF Letter, Space
  <2>3. w >= 2
    <3>1. f \in {"stock", "issue_sub_type", "reason", "attribution"}  BY <1>2, Widths
    <3> QED  BY <1>1, <1>2, <3>1 DEF Width, AlphaWidth
  <2>4. full \in Seq(Nat) /\ Len(full) = w /\ full[w] # Space
    <3>1. w \in Nat /\ w \in 1..w  OBVIOUS
    <3> QED  BY <2>1, <2>2, <3>1
  <2>5. <<>> \in Seq(Nat) /\ Len(<<>>) = 0  OBVIOUS
  <2>6. <<Letter>> \in Seq(Nat) /\ Len(<<Letter>>) = 1 /\ <<Letter>>[1] # Space  BY <2>2
  <2>7. /\ <<Space, Letter>> \in Seq(Nat) /\ Len(<<Space, Letter>>) = 2
        /\ <<Space, Letter>>[2] # Space
        BY <2>2
  <2>8. <<>> \in Value(f)  BY <1>1, <1>2, <2>3, <2>5 DEF Value
  <2>9. <<Letter>> \in Value(f)  BY <1>1, <1>2, <2>3, <2>6 DEF Value
  <2>10. <<Space, Letter>> \in Value(f)  BY <1>1, <1>2, <2>3, <2>7 DEF Value
  <2>11. full \in Value(f)  BY <1>1, <1>2, <2>3, <2>4 DEF Value
  <2> QED  BY <1>1, <1>2, <2>1, <2>8, <2>9, <2>10, <2>11 DEF Zero, Probes
<1>3. CASE ~IsAlpha(f)
  <2>1. PICK a \in Nat \ {0} : a = Power[w]  BY PowersPositive
  <2>2. Power[w + 1] = a * Base  BY <2>1, Powers
  <2>3. Base \in Nat /\ Base >= 3  BY BaseAssumption
  <2>4. PICK b \in Nat : b = a * Base /\ b >= 3  BY <2>3
  <2>5. 0 \in 0..(b - 1) /\ 1 \in 0..(b - 1) /\ b - 1 \in 0..(b - 1)  BY <2>4
  <2>6. Power[Width(f) + 1] = b  BY <1>1, <2>2, <2>4
  <2> QED  BY <1>3, <2>5, <2>6 DEF Zero, Probes, Value
<1> QED  BY <1>2, <1>3

Fields(k) == {Struct[k][j] : j \in 1..Len(Struct[k])}

LEMMA MessagesFit ==
    ASSUME NEW k \in Kinds, NEW m \in Messages(k)
    PROVE  m = [f \in Fields(k) |-> m[f]] /\ \A f \in Fields(k) : m[f] \in Value(f)
<1>1. ToSet(Struct[k]) = Fields(k)
  <2>1. Len(Struct[k]) \in Nat /\ DOMAIN Struct[k] = 1..Len(Struct[k])
    <3>1. k \in {"R", "H", "A", "F", "E", "C", "X", "D", "U"}  BY DEF Kinds, Struct
    <3> QED  BY <3>1 DEF Struct, Header, Order, Execution
  <2> QED  BY <2>1 DEF ToSet, Fields
<1>2. PICK f \in Fields(k) : \E v \in Probes(f) :
         m = [g \in Fields(k) |-> IF g = f THEN v ELSE Zero(g)]
      BY <1>1 DEF Messages
<1>3. PICK v \in Probes(f) : m = [g \in Fields(k) |-> IF g = f THEN v ELSE Zero(g)]
      BY <1>2
<1> QED  BY <1>3, ProbesFit

----------------------------------------------------------------------------
(* The buffer *)

(* The buffer begins as the message that was sent. *)
Carries(k, m) == \A i \in 1..Len(Encode(k, m)) : i < Len(buf) => buf[i + 1] = Encode(k, m)[i]

WireInv ==
    /\ kind \in Kinds \cup {"unknown"}
    /\ Len(buf) \in Nat
    /\ buf = <<>> <=> Len(buf) = 0
    /\ buf # <<>> => buf[1] = kind
    /\ kind \in Kinds => sent \in Messages(kind) /\ Carries(kind, sent)

(* A sequence cut after n elements, with a byte before and after it. *)
CutShape(b, a, c, n) ==
    /\ Len(b) = n /\ (b = <<>> <=> n = 0)
    /\ n > 0 => b[1] = a
    /\ \A i \in 1..Len(c) : i < n => b[i + 1] = c[i]

LEMMA CutBuffer ==
    ASSUME NEW S, NEW c \in Seq(S), NEW a, NEW z, NEW n \in Nat,
           n <= Len(<<a>> \o c \o <<z>>), NEW b, b = SubSeq(<<a>> \o c \o <<z>>, 1, n)
    PROVE  CutShape(b, a, c, n)
<1> DEFINE T == S \cup {a, z}
           w == <<a>> \o c \o <<z>>
<1>1. PICK L \in Nat : L = Len(c)  BY LenProperties
<1>2. c \in Seq(T) /\ <<a>> \in Seq(T) /\ <<z>> \in Seq(T)
  <2>1. c = [i \in 1..L |-> c[i]] /\ \A i \in 1..L : c[i] \in S
        BY <1>1, LenProperties, ElementOfSeq
  <2>2. \A i \in 1..L : c[i] \in T  BY <2>1
  <2> QED  BY <2>1, <2>2
<1>3. /\ <<a>> \o c \in Seq(T) /\ Len(<<a>> \o c) = 1 + L
      /\ \A i \in 1..(1 + L) : (<<a>> \o c)[i] = IF i <= 1 THEN <<a>>[i] ELSE c[i - 1]
  <2>1. Len(<<a>>) = 1  OBVIOUS
  <2> HIDE DEF T
  <2> QED  BY <1>1, <1>2, <2>1, ConcatProperties
<1>4. PICK d : d = <<a>> \o c  OBVIOUS
<1>5. /\ w \in Seq(T) /\ Len(w) = L + 2
      /\ \A i \in 1..(L + 2) : w[i] = IF i <= 1 + L THEN d[i] ELSE <<z>>[i - (1 + L)]
  <2>1. Len(<<z>>) = 1 /\ Len(d) = 1 + L /\ d \in Seq(T)  BY <1>3, <1>4
  <2> HIDE DEF T
  <2>2. /\ d \o <<z>> \in Seq(T) /\ Len(d \o <<z>>) = Len(d) + Len(<<z>>)
        /\ \A i \in 1..(Len(d) + Len(<<z>>)) :
              (d \o <<z>>)[i] = IF i <= Len(d) THEN d[i] ELSE <<z>>[i - Len(d)]
        BY <1>2, <2>1, ConcatProperties
  <2>3. w = d \o <<z>>  BY <1>4
  <2>4. Len(d) + Len(<<z>>) = L + 2  BY <2>1
  <2> QED  BY <2>1, <2>2, <2>3, <2>4
<1>6. w[1] = a /\ \A i \in 1..L : w[i + 1] = c[i]
  <2>1. d[1] = a /\ \A i \in 1..L : d[i + 1] = c[i]  BY <1>3, <1>4
  <2> QED  BY <1>5, <2>1
<1> HIDE DEF w
<1>7. b \in Seq(T) /\ Len(b) = n /\ \A i \in 1..n : b[i] = w[i]
  <2>1. b = SubSeq(w, 1, n) /\ n <= Len(w)  BY DEF w
  <2>2. n \in 0..Len(w) /\ 1 \in 1..(Len(w) + 1)  BY <1>5, <2>1
  <2> HIDE DEF T
  <2> QED  BY <1>5, <2>1, <2>2, SubSeqProperties
<1>8. Len(b) = n  BY <1>7
<1>9. b = <<>> <=> n = 0
  <2> HIDE DEF T
  <2> QED  BY <1>7, EmptySeq
<1>10. ASSUME NEW i \in 1..Len(c), i < n  PROVE b[i + 1] = c[i]
  <2>1. i + 1 \in 1..n /\ i \in 1..L  BY <1>1, <1>10
  <2> QED  BY <1>6, <1>7, <2>1
<1>11. n > 0 => b[1] = a  BY <1>6, <1>7
<1> QED  BY <1>8, <1>9, <1>10, <1>11 DEF CutShape

LEMMA InitWire ==
    ASSUME Init
    PROVE  WireInv
<1>1. kind \in Kinds \cup {"unknown"}  BY DEF Init
<1>2. PICK c : c = IF kind \in Kinds THEN Encode(kind, sent) ELSE <<0>>  OBVIOUS
<1>3. PICK n \in Nat : n <= Len(<<kind>> \o c \o <<Letter>>)
                       /\ buf = SubSeq(<<kind>> \o c \o <<Letter>>, 1, n)
      BY <1>2 DEF Init, MaxBuffer
<1>4. PICK S : c \in Seq(S)
  <2>1. CASE kind \in Kinds  BY <1>2, <2>1, EncodeLength
  <2>2. CASE kind \notin Kinds
    <3>1. <<0>> \in Seq({0})  OBVIOUS
    <3> QED  BY <1>2, <2>2, <3>1
  <2> QED  BY <2>1, <2>2
<1>5. /\ Len(buf) = n /\ (buf = <<>> <=> n = 0)
      /\ n > 0 => buf[1] = kind
      /\ \A i \in 1..Len(c) : i < n => buf[i + 1] = c[i]
  <2>1. CutShape(buf, kind, c, n)  BY <1>3, <1>4, CutBuffer
  <2> QED  BY <2>1 DEF CutShape
<1>6. kind \in Kinds => sent \in Messages(kind)  BY DEF Init
<1>7. kind \in Kinds => Carries(kind, sent)  BY <1>2, <1>5 DEF Carries
<1>8. buf # <<>> => buf[1] = kind  BY <1>5
<1> QED  BY <1>1, <1>5, <1>6, <1>7, <1>8 DEF WireInv

(* A read of a whole message takes the bytes of its field and no others. *)
LEMMA SliceIsField ==
    ASSUME WireInv, Whole, NEW r \in HeaderReads \cup Reads[kind]
    PROVE  Slice(r) = Bytes(r.field, sent[r.field]) /\ r.field \in Fields(kind)
<1>1. kind \in Kinds /\ Len(buf) > Len(Encode(kind, sent)) /\ Len(buf) \in Nat /\ Carries(kind, sent)
      BY DEF Whole, WireInv
<1>2. Placed(kind)  BY <1>1, FieldsPlaced
<1>3. PICK j \in 1..Len(Struct[kind]) : Place(kind, j, r.field, r.offset, r.width)
      BY <1>2 DEF Placed
<1>4. PICK w \in {1, 2, 4, 6, 8} : w = Width(Struct[kind][j])  BY Widths
<1>5. /\ Struct[kind][j] = r.field /\ r.width = w /\ Len(Struct[kind]) \in Nat
      /\ Ends[kind][j - 1] + 1 = r.offset
      BY <1>2, <1>3, <1>4 DEF Place, Placed
<1>6. PICK N \in Nat : /\ N = Len(Encode(kind, sent)) /\ DOMAIN Encode(kind, sent) = 1..N
                       /\ N = Ends[kind][Len(Struct[kind])]
  <2>1. PICK N \in Nat : N = Len(Encode(kind, sent)) /\ DOMAIN Encode(kind, sent) = 1..N
        BY <1>1, EncodeLength
  <2>2. Needed[kind] \in Nat /\ N = Needed[kind] - 1  BY <1>1, <2>1, EncodeLength
  <2>3. Ends[kind][Len(Struct[kind])] \in Nat
    <3>1. Len(Struct[kind]) \in 0..Len(Struct[kind])  BY <1>5
    <3> QED  BY <1>1, <1>5, <3>1, EndsOrder
  <2>4. Ends[kind][Len(Struct[kind])] + 1 = Needed[kind]  BY <1>2 DEF Placed
  <2> QED  BY <2>1, <2>2, <2>3, <2>4
<1>7. ASSUME NEW i \in 1..w
      PROVE  /\ r.offset + i <= Len(buf)
             /\ buf[r.offset + i] = Bytes(r.field, sent[r.field])[i]
  <2>0. i \in 1..Width(Struct[kind][j])  BY <1>4, <1>7
  <2>1. PICK n : n = Ends[kind][j - 1] + i  OBVIOUS
  <2>2. /\ n \in 1..Ends[kind][Len(Struct[kind])]
        /\ Encode(kind, sent)[n] = Bytes(Struct[kind][j], sent[Struct[kind][j]])[i]
    <3>1. ByteOf(kind, sent, j, i, n)  BY <1>1, <1>5, <2>0, <2>1, EncodeField
    <3> QED  BY <3>1 DEF ByteOf
  <2>3. Ends[kind][j - 1] \in Nat
    <3>1. j - 1 \in 0..Len(Struct[kind])  BY <1>5
    <3> QED  BY <1>1, <1>5, <3>1, EndsOrder
  <2>4. r.offset + i = n + 1
    <3>1. PICK a \in Nat : a = Ends[kind][j - 1]  BY <2>3
    <3>2. n = a + i /\ r.offset = a + 1  BY <1>5, <2>1, <3>1, Zenon
    <3>3. i \in Nat  OBVIOUS
    <3> QED  BY <3>2, <3>3
  <2>5. n \in 1..N /\ n < Len(buf)
    <3>1. n \in 1..N  BY <1>6, <2>2, Zenon
    <3>2. PICK size \in Nat : size = Len(buf) /\ size > N  BY <1>1, <1>6
    <3> QED  BY <3>1, <3>2
  <2>6. buf[n + 1] = Encode(kind, sent)[n]  BY <1>1, <1>6, <2>5 DEF Carries
  <2> QED  BY <1>1, <1>5, <2>2, <2>4, <2>5, <2>6
<1>8. Slice(r) = [i \in 1..w |-> Bytes(r.field, sent[r.field])[i]]
      BY <1>5, <1>7 DEF Slice
<1>9. Bytes(r.field, sent[r.field]) = [i \in 1..w |-> Bytes(r.field, sent[r.field])[i]]
      BY <1>4, <1>5 DEF Bytes
<1> QED  BY <1>5, <1>8, <1>9 DEF Fields

(* Decoding a whole message gives what was sent. *)
LEMMA DecodeWhole ==
    ASSUME WireInv, Whole
    PROVE  Decode(kind) = sent
<1> DEFINE all == HeaderReads \cup Reads[kind]
           Of(f) == CHOOSE r \in all : r.field = f
<1>1. kind \in Kinds /\ sent \in Messages(kind)  BY DEF Whole, WireInv
<1>2. sent = [f \in Fields(kind) |-> sent[f]] /\ \A f \in Fields(kind) : sent[f] \in Value(f)
      BY <1>1, MessagesFit
<1>3. {r.field : r \in all} = Fields(kind)
  <2>1. \A r \in all : r.field \in Fields(kind)  BY SliceIsField
  <2>2. \A f \in Fields(kind) : \E r \in all : r.field = f
    <3>1. \A j \in 1..Len(Struct[kind]) : IsRead(kind, Struct[kind][j])
          BY <1>1, FieldsPlaced DEF Placed
    <3> QED  BY <3>1 DEF Fields, IsRead
  <2> QED  BY <2>1, <2>2
<1>4. ASSUME NEW f \in Fields(kind)
      PROVE  ReadField(f, Slice(Of(f))) = sent[f]
  <2>1. Of(f) \in all /\ Of(f).field = f
    <3>1. \E r \in all : r.field = f  BY <1>3, <1>4
    <3> QED  BY <3>1
  <2>2. PICK r \in all : r = Of(f) /\ r.field = f  BY <2>1
  <2>3. Slice(r) = Bytes(f, sent[f])  BY <2>2, SliceIsField
  <2>4. ReadField(f, Bytes(f, sent[f])) = sent[f]  BY <1>2, <1>4, FieldBack
  <2> QED  BY <2>2, <2>3, <2>4
<1>5. Decode(kind) = [f \in {r.field : r \in all} |-> ReadField(f, Slice(Of(f)))]
      BY DEF Decode, ReadField
<1> HIDE DEF all, Of
<1>6. Decode(kind) = [f \in Fields(kind) |-> ReadField(f, Slice(Of(f)))]  BY <1>3, <1>5
<1> QED  BY <1>2, <1>4, <1>6

(* What parse has made of the buffer. *)
Answered == RoundTrip /\ CutIsRejected

ParserInv == WireInv /\ Answered

LEMMA AnswerStep ==
    ASSUME ParserInv, [Parse]_parserVars
    PROVE  ParserInv'
<1>1. buf' = buf /\ kind' = kind /\ sent' = sent  BY DEF Parse, parserVars
<1>2. WireInv'  BY <1>1 DEF ParserInv, WireInv, Carries
<1>3. Whole' = Whole  BY <1>1 DEF Whole
<1>4. CASE UNCHANGED parserVars
  <2>1. outcome' = outcome  BY <1>4 DEF parserVars
  <2> QED  BY <1>1, <1>2, <1>3, <2>1 DEF ParserInv, Answered, RoundTrip, CutIsRejected, Parsed
<1>5. CASE Parse
  <2>1. WireInv /\ kind \in Kinds \cup {"unknown"} /\ Len(buf) \in Nat
        BY DEF ParserInv, WireInv
  <2>2. Whole <=> kind \in Kinds /\ Len(buf) >= Needed[kind]
    <3>1. CASE kind \in Kinds
      <4>1. Needed[kind] \in Nat /\ Len(Encode(kind, sent)) = Needed[kind] - 1
            BY <3>1, EncodeLength
      <4> QED  BY <2>1, <3>1, <4>1 DEF Whole
    <3> QED  BY <3>1 DEF Whole
  <2>3. (buf # <<>> => buf[1] = kind) /\ (buf = <<>> <=> Len(buf) = 0)  BY <2>1 DEF WireInv
  <2>4. Whole => buf # <<>>
    <3>1. kind \in Kinds => Needed[kind] \in Nat /\ Needed[kind] > 0
      <4>1. kind \in Kinds => kind \in {"R", "H", "A", "F", "E", "C", "X", "D", "U"}
            BY DEF Kinds, Struct
      <4> QED  BY <4>1 DEF Needed
    <3> QED  BY <2>1, <2>2, <2>3, <3>1
  <2>5. Whole => outcome' = Result("message", sent)
    <3> SUFFICES ASSUME Whole  PROVE outcome' = Result("message", sent)  OBVIOUS
    <3>1. buf # <<>> /\ buf[1] = kind /\ kind \in Kinds /\ require(kind)
          BY <2>2, <2>3, <2>4 DEF require
    <3>2. outcome' = Result("message", Decode(kind))  BY <1>5, <3>1 DEF Parse
    <3> QED  BY <2>1, <3>2, DecodeWhole
  <2>6. ~Whole => outcome'.what = IF buf = <<>> \/ kind \in Kinds THEN "throws" ELSE "discarded"
    <3>1. CASE buf = <<>>  BY <1>5, <3>1 DEF Parse, Throw, Result
    <3>2. CASE buf # <<>> /\ kind \notin Kinds  BY <1>5, <2>3, <3>2 DEF Parse, Result
    <3>3. CASE buf # <<>> /\ kind \in Kinds /\ ~Whole
      <4>1. ~require(kind) /\ buf[1] = kind  BY <2>2, <2>3, <3>3 DEF require
      <4> QED  BY <1>5, <3>3, <4>1 DEF Parse, Throw, Result
    <3> QED  BY <3>1, <3>2, <3>3
  <2> QED
    BY <1>1, <1>2, <1>3, <2>5, <2>6 DEF ParserInv, Answered, RoundTrip, CutIsRejected
<1> QED  BY <1>4, <1>5

LEMMA InitParser ==
    ASSUME Init
    PROVE  ParserInv
<1>1. ~Parsed  BY DEF Init, Parsed, Result
<1> QED  BY <1>1, InitWire DEF ParserInv, Answered, RoundTrip, CutIsRejected

(* The buffer is a message or its beginning, and what parse says of it is  *)
(* right.                                                                  *)
THEOREM ParserInvariance == Spec => []ParserInv
BY InitParser, AnswerStep, PTL DEF Spec

(* RoundTrip: every field of a whole message has the sender's value. *)
THEOREM FieldsSurvive == Spec => []RoundTrip
<1>1. ParserInv => RoundTrip  BY DEF ParserInv, Answered
<1> QED  BY ParserInvariance, <1>1, PTL

(* CutIsRejected: a message cut at any byte is answered with an exception, *)
(* and a type the parser does not know is discarded without one.           *)
THEOREM CutsAreRejected == Spec => []CutIsRejected
<1>1. ParserInv => CutIsRejected  BY DEF ParserInv, Answered
<1> QED  BY ParserInvariance, <1>1, PTL

=============================================================================
