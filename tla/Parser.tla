------------------------------- MODULE Parser -------------------------------
(***************************************************************************)
(* MessageParser (src/src/parser.cpp): a buffer in, a message, nothing or  *)
(* an exception out.  The parser is given whatever the readers return:     *)
(* whole messages, messages cut short, messages with bytes after them,     *)
(* types it does not know.  What the sender encodes is built from the      *)
(* fields of the message structs in their order, each as wide as its type; *)
(* the parser goes by absolute offsets.                                    *)
(***************************************************************************)
EXTENDS Integers, SequencesExt

CONSTANT Base   \* values of a byte; 256 scaled down
ASSUME BaseAssumption == Base \in Nat /\ Base >= 3

Letter == 1
Space == 2

VARIABLES
    buf,       \* the buffer, its type byte first
    kind,      \* what the sender sent: the type,
    sent,      \* the fields,
    outcome,   \* what parse did
    reads      \* the offsets it read after the type byte

parserVars == <<buf, kind, sent, outcome, reads>>

----------------------------------------------------------------------------
(* The sender *)

(* The message structs: their fields in order. *)
Header == <<"stock_locate", "tracking_number", "timestamp">>
Order == Header \o <<"order_ref", "side", "shares", "stock", "price">>
Execution == Header \o <<"order_ref", "executed_shares", "match_number">>
Struct ==
    [R |-> Header \o <<"stock", "market_category", "financial_status", "round_lot_size",
                       "round_lots_only", "issue_classification", "issue_sub_type",
                       "authenticity", "short_sale_threshold", "ipo_flag",
                       "luld_ref_price_tier", "etp_flag", "etp_leverage_factor",
                       "inverse_indicator">>,
     H |-> Header \o <<"stock", "trading_state", "reserved", "reason">>,
     A |-> Order,
     F |-> Order \o <<"attribution">>,
     E |-> Execution,
     C |-> Execution \o <<"printable", "execution_price">>,
     X |-> Header \o <<"order_ref", "cancelled_shares">>,
     D |-> Header \o <<"order_ref">>,
     U |-> Header \o <<"original_order_ref", "new_order_ref", "shares", "price">>]
Kinds == DOMAIN Struct

AlphaWidth == [stock |-> 8, issue_sub_type |-> 2, reason |-> 4, attribution |-> 4]
IsAlpha(f) == f \in DOMAIN AlphaWidth

(* Integers and prices; every other field is a single character. *)
IntWidth ==
    [stock_locate |-> 2, tracking_number |-> 2, timestamp |-> 6,
     order_ref |-> 8, original_order_ref |-> 8, new_order_ref |-> 8, match_number |-> 8,
     shares |-> 4, executed_shares |-> 4, cancelled_shares |-> 4, price |-> 4,
     execution_price |-> 4, round_lot_size |-> 4, etp_leverage_factor |-> 4]
Width(f) == IF IsAlpha(f) THEN AlphaWidth[f]
            ELSE IF f \in DOMAIN IntWidth THEN IntWidth[f] ELSE 1

(* Power[n + 1] is the weight of a byte with n bytes after it. *)
Power == LET two == Base * Base
             four == two * two
         IN  <<1, Base, two, two * Base, four, four * Base, four * two, four * two * Base,
               four * four>>

(* An alpha field is padded with spaces, an integer is big-endian. *)
Bytes(f, v) ==
    [i \in 1..Width(f) |->
        IF IsAlpha(f) THEN IF i <= Len(v) THEN v[i] ELSE Space
        ELSE (v \div Power[Width(f) - i + 1]) % Base]

(* Ends[k][j]: how many bytes the first j fields of k have. *)
Ends == [k \in Kinds |-> [j \in 0..Len(Struct[k]) |->
            Cardinality(UNION {{i} \X (1..Width(Struct[k][i])) : i \in 1..j})]]
(* The field the byte n of a message belongs to. *)
FieldOf(k, n) == CHOOSE j \in 1..Len(Struct[k]) : Ends[k][j - 1] < n /\ n <= Ends[k][j]

(* The fields one after the other. *)
Encode(k, m) ==
    [n \in 1..Ends[k][Len(Struct[k])] |->
        LET j == FieldOf(k, n)
        IN  Bytes(Struct[k][j], m[Struct[k][j]])[n - Ends[k][j - 1]]]

(* Messages that show where each field comes from: one field has a small,  *)
(* the largest or an odd value, the others are zero or empty.              *)
Zero(f) == IF IsAlpha(f) THEN <<>> ELSE 0
Probes(f) ==
    IF IsAlpha(f) THEN {<<Letter>>, <<Space, Letter>>, [i \in 1..Width(f) |-> Letter]}
    ELSE {1, Power[Width(f) + 1] - 1}
Messages(k) ==
    LET fields == ToSet(Struct[k])
        Only(f, v) == [g \in fields |-> IF g = f THEN v ELSE Zero(g)]
    IN  UNION {{Only(f, v) : v \in Probes(f)} : f \in fields}

----------------------------------------------------------------------------
(* The parser *)

(* The reads of one deserializer: field, offset, width. *)
At(field, offset, width) == [field |-> field, offset |-> offset, width |-> width]
HeaderReads == {At("stock_locate", 1, 2), At("tracking_number", 3, 2), At("timestamp", 5, 6)}
OrderReads == {At("order_ref", 11, 8), At("side", 19, 1), At("shares", 20, 4),
               At("stock", 24, 8), At("price", 32, 4)}
ExecutionReads == {At("order_ref", 11, 8), At("executed_shares", 19, 4),
                   At("match_number", 23, 8)}
parse_stock_directory ==
    {At("stock", 11, 8), At("market_category", 19, 1), At("financial_status", 20, 1),
     At("round_lot_size", 21, 4), At("round_lots_only", 25, 1),
     At("issue_classification", 26, 1), At("issue_sub_type", 27, 2),
     At("authenticity", 29, 1), At("short_sale_threshold", 30, 1), At("ipo_flag", 31, 1),
     At("luld_ref_price_tier", 32, 1), At("etp_flag", 33, 1),
     At("etp_leverage_factor", 34, 4), At("inverse_indicator", 38, 1)}
parse_trading_action ==
    {At("stock", 11, 8), At("trading_state", 19, 1), At("reserved", 20, 1), At("reason", 21, 4)}
parse_add_order == OrderReads
parse_add_order_mpid == OrderReads \cup {At("attribution", 36, 4)}
parse_order_executed == ExecutionReads
parse_order_executed_price ==
    ExecutionReads \cup {At("printable", 31, 1), At("execution_price", 32, 4)}
parse_order_cancel == {At("order_ref", 11, 8), At("cancelled_shares", 19, 4)}
parse_order_delete == {At("order_ref", 11, 8)}

(* Fault *)
ReplaceRefsSwapped ==
    {At("new_order_ref", 11, 8), At("original_order_ref", 19, 8),
     At("shares", 27, 4), At("price", 31, 4)}

parse_order_replace ==
    {At("original_order_ref", 11, 8), At("new_order_ref", 19, 8),
     At("shares", 27, 4), At("price", 31, 4)}

(* The switch of parse. *)
Reads == [R |-> parse_stock_directory, H |-> parse_trading_action,
          A |-> parse_add_order, F |-> parse_add_order_mpid,
          E |-> parse_order_executed, C |-> parse_order_executed_price,
          X |-> parse_order_cancel, D |-> parse_order_delete, U |-> parse_order_replace]

Needed == [R |-> 39, H |-> 25, A |-> 36, F |-> 40, E |-> 31, C |-> 36, X |-> 23, D |-> 19,
           U |-> 35]

(* Fault *)
LastByteOptional(k) == Len(buf) + 1 >= Needed[k]

require(k) == Len(buf) >= Needed[k]

read_be16(p) == p[1] * Base + p[2]
read_be32(p) == (read_be16(p) * Base + p[3]) * Base + p[4]
read_be48(p) == (read_be32(p) * Base + p[5]) * Base + p[6]
read_be64(p) == (read_be48(p) * Base + p[7]) * Base + p[8]
read_be(p) ==
    CASE Len(p) = 1 -> p[1]
      [] Len(p) = 2 -> read_be16(p)
      [] Len(p) = 4 -> read_be32(p)
      [] Len(p) = 6 -> read_be48(p)
      [] Len(p) = 8 -> read_be64(p)

read_alpha(bytes) ==
    LET last == {i \in 1..Len(bytes) : \A j \in i..Len(bytes) : bytes[j] = Space}
    IN  SubSeq(bytes, 1, Len(bytes) - Cardinality(last))

(* What a byte past the end holds does not matter: reads has the access. *)
Slice(r) == [i \in 1..r.width |->
                IF r.offset + i <= Len(buf) THEN buf[r.offset + i] ELSE 0]
Decode(k) ==
    LET all == HeaderReads \cup Reads[k]
        Of(f) == CHOOSE r \in all : r.field = f
    IN  [f \in {r.field : r \in all} |->
            IF IsAlpha(f) THEN read_alpha(Slice(Of(f))) ELSE read_be(Slice(Of(f)))]

Nothing == [x \in {} |-> x]
Result(what, message) == [what |-> what, message |-> message]

Throw == outcome' = Result("throws", Nothing) /\ UNCHANGED reads

Parse ==
    /\ outcome.what = "none"
    /\ \/ buf = <<>> /\ Throw
       \/ /\ buf # <<>> /\ buf[1] \notin Kinds
          /\ outcome' = Result("discarded", Nothing)
          /\ UNCHANGED reads
       \/ /\ buf # <<>> /\ buf[1] \in Kinds
          /\ ~require(buf[1])
          /\ Throw
       \/ /\ buf # <<>> /\ buf[1] \in Kinds
          /\ require(buf[1])
          /\ outcome' = Result("message", Decode(buf[1]))
          /\ reads' = UNION {r.offset..(r.offset + r.width - 1) :
                               r \in HeaderReads \cup Reads[buf[1]]}
    /\ UNCHANGED <<buf, kind, sent>>

(* The longest buffer: an F message and a byte after it. *)
MaxBuffer == 41

Init ==
    /\ kind \in Kinds \cup {"unknown"}
    /\ sent \in IF kind \in Kinds THEN Messages(kind) ELSE {Nothing}
    /\ LET whole == <<kind>> \o (IF kind \in Kinds THEN Encode(kind, sent) ELSE <<0>>) \o <<Letter>>
       IN  \E n \in 0..MaxBuffer : n <= Len(whole) /\ buf = SubSeq(whole, 1, n)
    /\ outcome = Result("none", Nothing)
    /\ reads = {}

Spec == Init /\ [][Parse]_parserVars

----------------------------------------------------------------------------
(* Properties *)

Parsed == outcome.what # "none"
Whole == kind \in Kinds /\ Len(buf) > Len(Encode(kind, sent))

(* No deserializer reads past the end of its buffer, whatever the type and *)
(* the length: the byte count each passes to require() covers its reads.   *)
NoOverread == \A offset \in reads : offset < Len(buf)

(* A whole message, also one with bytes after it, is parsed, and every     *)
(* field has the sender's value: no field is read from another's bytes,    *)
(* and of alpha fields exactly the padding is removed.                     *)
RoundTrip ==
    Parsed /\ Whole => outcome = Result("message", sent)

(* A message cut short is rejected with an exception, never taken for a    *)
(* message and never silently discarded; a type the parser does not know   *)
(* is discarded without one.                                               *)
CutIsRejected ==
    Parsed /\ ~Whole =>
        outcome.what = IF buf = <<>> \/ kind \in Kinds THEN "throws" ELSE "discarded"

=============================================================================
