------------------------- MODULE LivePipelineProofs -------------------------
(***************************************************************************)
(* Theorems about UDPFeedReader and the two threads of live mode, for      *)
(* sessions, packets and snapshot intervals of any size.                   *)
(***************************************************************************)
EXTENDS LivePipeline, SequenceTheorems, FiniteSetTheorems, TLAPS

(* Numbers of messages. *)
Messages == Nat \ {0}

(* The reader's inductive invariant.  That a packet's messages come out in *)
(* order needs the order inside the packet, and that they come after all   *)
(* earlier ones needs expected_seq beyond everything accepted.             *)
ReaderTypes ==
    /\ expected_seq \in Nat \ {0}
    /\ gaps_detected \in Nat /\ cut_off \in Nat
    /\ pending \in Seq(Messages) /\ pending_idx \in 0..Len(pending)
    /\ delivered \in Seq(Messages)

PendingSorted == \A i, j \in DOMAIN pending : i < j => pending[i] < pending[j]

ReaderInv == ReaderTypes /\ PendingSorted /\ InOrderOnce /\ DeficitCounted

----------------------------------------------------------------------------
(* The n numbers from a on. *)
LEMMA IntervalSize ==
    ASSUME NEW a \in Int, NEW b \in Int, NEW n \in Nat, b = a + n - 1
    PROVE  IsFiniteSet(a..b) /\ Cardinality(a..b) = n
<1>1. IsFiniteSet(a..b) /\ Cardinality(a..b) = IF a > b THEN 0 ELSE b - a + 1
  BY FS_Interval
<1>2. QED
  BY <1>1

(* Disjoint finite sets have as many elements together as each adds. *)
LEMMA DisjointUnion ==
    ASSUME NEW S, NEW T, IsFiniteSet(S), IsFiniteSet(T), S \cap T = {}
    PROVE  IsFiniteSet(S \cup T) /\ Cardinality(S \cup T) = Cardinality(S) + Cardinality(T)
<1>1. Cardinality(S) \in Nat /\ Cardinality(T) \in Nat
  BY FS_CardinalityType
<1>2. Cardinality(S \cap T) = 0
  BY FS_EmptySet
<1>3. /\ IsFiniteSet(S \cup T)
      /\ Cardinality(S \cup T) = Cardinality(S) + Cardinality(T) - Cardinality(S \cap T)
  BY FS_Union, Zenon
<1>4. Cardinality(S) + Cardinality(T) - 0 = Cardinality(S) + Cardinality(T)
  BY <1>1
<1>5. QED
  BY <1>2, <1>3, <1>4, Zenon

----------------------------------------------------------------------------
(* The reader *)

(* A fresh reader satisfies its invariant. *)
LEMMA ReaderInitEstablishes == ReaderInit => ReaderInv
<1> SUFFICES ASSUME ReaderInit PROVE ReaderInv
  OBVIOUS
<1>1. ReaderTypes
  BY DEF ReaderInit, ReaderTypes
<1>2. Left = {} /\ Got = {}
  BY DEF ReaderInit, Left, Got
<1>3. PendingSorted /\ InOrderOnce
  BY <1>2 DEF ReaderInit, PendingSorted, InOrderOnce
<1>4. 1..(expected_seq - 1) \ (Got \cup Left) = {}
  BY DEF ReaderInit
<1>5. DeficitCounted
  BY <1>4, FS_EmptySet DEF ReaderInit, DeficitCounted
<1>6. QED
  BY <1>1, <1>3, <1>5 DEF ReaderInv

(* Returning the next message of the packet moves it from those left to    *)
(* those returned.                                                         *)
LEMMA NextPendingKeeps ==
    ASSUME ReaderInv, NextPending
    PROVE  ReaderInv' /\ pending[pending_idx + 1] \in Messages
<1> DEFINE m == pending[pending_idx + 1]
<1> USE DEF ReaderInv, ReaderTypes
<1>1. /\ pending_idx < Len(pending) /\ pending_idx' = pending_idx + 1
      /\ delivered' = Append(delivered, m)
      /\ UNCHANGED <<expected_seq, gaps_detected, pending, cut_off>>
  BY DEF NextPending
<1>2. pending_idx + 1 \in 1..Len(pending) /\ DOMAIN pending = 1..Len(pending)
  BY <1>1
<1>3. m \in Messages
  BY <1>2
<1>4. /\ delivered' \in Seq(Messages) /\ Len(delivered') = Len(delivered) + 1
      /\ \A i \in 1..Len(delivered) : delivered'[i] = delivered[i]
      /\ delivered'[Len(delivered) + 1] = m
  BY <1>1, <1>3, AppendProperties
<1>5. ReaderTypes'
  BY <1>1, <1>2, <1>4
<1>6. PendingSorted'
  BY <1>1 DEF PendingSorted
<1>7. DOMAIN delivered = 1..Len(delivered) /\ DOMAIN delivered' = 1..(Len(delivered) + 1)
  BY <1>4
<1>8. Got' = Got \cup {m}
  BY <1>4, <1>7 DEF Got
<1>9. Left = Left' \cup {m}
  BY <1>1, <1>2 DEF Left
<1>10. \A n \in Left' : m < n
  BY <1>1, <1>2 DEF Left, PendingSorted
<1>11. \A n \in Got : n < m
  BY <1>9 DEF InOrderOnce
<1>12. InOrderOnce'
  <2>1. \A i, j \in DOMAIN delivered' : i < j => delivered'[i] < delivered'[j]
    <3> SUFFICES ASSUME NEW i \in DOMAIN delivered', NEW j \in DOMAIN delivered', i < j
                 PROVE  delivered'[i] < delivered'[j]
      OBVIOUS
    <3>1. i \in DOMAIN delivered /\ delivered'[i] = delivered[i]
      BY <1>4, <1>7
    <3>2. CASE j \in DOMAIN delivered
      BY <3>1, <3>2, <1>4, <1>7 DEF InOrderOnce
    <3>3. CASE j = Len(delivered) + 1
      BY <3>1, <3>3, <1>4, <1>11 DEF Got
    <3>4. QED
      BY <3>2, <3>3, <1>7
  <2>2. \A k \in Got', n \in Left' : k < n
    BY <1>8, <1>9, <1>10 DEF InOrderOnce
  <2>3. Left' \cup Got' = Left \cup Got
    BY <1>8, <1>9
  <2>4. \A n \in Left' \cup Got' : n < expected_seq'
    BY <2>3, <1>1 DEF InOrderOnce
  <2>5. QED
    BY <2>1, <2>2, <2>4 DEF InOrderOnce
<1>13. DeficitCounted'
  <2>1. Got' \cup Left' = Got \cup Left
    BY <1>8, <1>9
  <2>2. QED
    BY <2>1, <1>1 DEF DeficitCounted
<1>14. QED
  BY <1>3, <1>5, <1>6, <1>12, <1>13

(* Dropping an exhausted packet, with or without counting it, changes      *)
(* nothing that was returned or is known lost.                             *)
LEMMA ForgetKeeps ==
    ASSUME ReaderInv, Exhausted, Forget,
           UNCHANGED <<expected_seq, gaps_detected, delivered, cut_off>>
    PROVE  ReaderInv'
<1> USE DEF ReaderInv
<1>1. pending' = <<>> /\ pending_idx' = 0
  BY DEF Forget
<1>2. Left = {} /\ Left' = {} /\ Got' = Got
  BY <1>1 DEF Left, Got, Exhausted, ReaderTypes
<1>3. ReaderTypes' /\ PendingSorted'
  BY <1>1 DEF ReaderTypes, PendingSorted
<1>4. InOrderOnce'
  BY <1>2 DEF InOrderOnce, Got
<1>5. DeficitCounted'
  BY <1>2 DEF DeficitCounted
<1>6. QED
  BY <1>3, <1>4, <1>5

(* Accepting a packet: its messages are new and in order, the gap before   *)
(* it and what it announces without carrying it are counted.               *)
LEMMA AcceptKeeps ==
    ASSUME ReaderInv, NEW p \in Packets, RefillAccept(p)
    PROVE  ReaderInv'
<1> DEFINE e == expected_seq
           s == p.seq
           c == p.count
           d == p.carried
<1>1. /\ s \in Nat \ {0} /\ c \in Nat /\ d \in Nat /\ d <= c
      /\ e \in Nat \ {0} /\ s >= e
  <2>1. s \in Nat \ {0} /\ c \in Nat /\ d \in Nat /\ d <= c
    BY ReaderAssumption DEF Packets
  <2>2. s >= e
    BY DEF RefillAccept
  <2>3. QED
    BY <2>1, <2>2 DEF ReaderInv, ReaderTypes
<1>2. /\ pending_idx = Len(pending)
      /\ gaps_detected' = gaps_detected + (s - e)
      /\ expected_seq' = s + c
      /\ pending' = [i \in 1..d |-> s + i - 1] /\ pending_idx' = 0
      /\ cut_off' = cut_off + (c - d)
      /\ delivered' = delivered
  BY DEF RefillAccept, Exhausted
<1> HIDE DEF e, s, c, d
<1>3. /\ pending' \in Seq(Messages) /\ Len(pending') = d
      /\ DOMAIN pending' = 1..d
      /\ \A i \in 1..d : pending'[i] = s + i - 1
  <2>1. pending' \in [1..d -> Messages]
    BY <1>1, <1>2 DEF Messages
  <2>2. pending' \in Seq(Messages)
    BY <1>1, <2>1, SeqDef
  <2>3. Len(pending') = d
    BY <1>1, <2>1, <2>2, LenProperties
  <2>4. QED
    BY <1>2, <2>1, <2>2, <2>3
<1>4. ReaderTypes'
  BY <1>1, <1>2, <1>3 DEF ReaderInv, ReaderTypes
<1>5. PendingSorted'
  BY <1>1, <1>3 DEF PendingSorted
<1>6. Left = {} /\ Got' = Got
  BY <1>2 DEF Left, Got, ReaderInv, ReaderTypes
<1>7. Left' = s..(s + d - 1)
  <2>1. Left' = {pending'[i] : i \in 1..d}
    BY <1>1, <1>2, <1>3 DEF Left
  <2>2. \A n \in s..(s + d - 1) : n - s + 1 \in 1..d /\ pending'[n - s + 1] = n
    BY <1>1, <1>3
  <2>3. \A i \in 1..d : pending'[i] \in s..(s + d - 1)
    BY <1>1, <1>3
  <2>4. QED
    BY <2>1, <2>2, <2>3
<1>8. \A n \in Got : n \in Nat /\ n < e
  BY DEF ReaderInv, ReaderTypes, InOrderOnce, Got, Messages, e
<1>9. InOrderOnce'
  <2>1. \A k \in Got', n \in Left' : k < n
    BY <1>1, <1>6, <1>7, <1>8
  <2>2. \A n \in Left' \cup Got' : n < expected_seq'
    BY <1>1, <1>2, <1>6, <1>7, <1>8
  <2>3. \A i, j \in DOMAIN delivered' : i < j => delivered'[i] < delivered'[j]
    BY <1>2 DEF ReaderInv, InOrderOnce
  <2>4. QED
    BY <2>1, <2>2, <2>3 DEF InOrderOnce
<1>10. DeficitCounted'
  <2> DEFINE old == 1..(e - 1) \ Got
             gap == e..(s - 1)
             cut == (s + d)..(s + c - 1)
  <2>1. 1..((s + c) - 1) \ (Got \cup Left') = (old \cup gap) \cup cut
    BY <1>1, <1>7, <1>8
  <2>2. /\ IsFiniteSet(old) /\ Cardinality(old) = gaps_detected + cut_off
        /\ IsFiniteSet(gap) /\ Cardinality(gap) = s - e
        /\ IsFiniteSet(cut) /\ Cardinality(cut) = c - d
    <3>1. IsFiniteSet(1..(e - 1))
      BY <1>1, FS_Interval
    <3>2. IsFiniteSet(old)
      BY <3>1, FS_Difference
    <3>3. Cardinality(old) = gaps_detected + cut_off
      BY <1>6 DEF ReaderInv, DeficitCounted, e
    <3>4. IsFiniteSet(gap) /\ Cardinality(gap) = s - e
      <4>1. s - 1 \in Int /\ s - e \in Nat /\ s - 1 = e + (s - e) - 1
        BY <1>1
      <4>2. QED
        BY <1>1, <4>1, IntervalSize
    <3>5. IsFiniteSet(cut) /\ Cardinality(cut) = c - d
      <4>1. /\ s + d \in Int /\ s + c - 1 \in Int /\ c - d \in Nat
            /\ s + c - 1 = (s + d) + (c - d) - 1
        BY <1>1
      <4>2. QED
        BY <4>1, IntervalSize
    <3>6. QED
      BY <3>2, <3>3, <3>4, <3>5
  <2>3. old \cap gap = {} /\ (old \cup gap) \cap cut = {}
    BY <1>1, <1>8
  <2> HIDE DEF old, gap, cut
  <2>4. /\ IsFiniteSet(old \cup gap)
        /\ Cardinality(old \cup gap) = (gaps_detected + cut_off) + (s - e)
    <3>1. IsFiniteSet(old) /\ IsFiniteSet(gap) /\ old \cap gap = {}
      BY <2>2, <2>3
    <3>2. IsFiniteSet(old \cup gap) /\ Cardinality(old \cup gap) = Cardinality(old) + Cardinality(gap)
      BY <3>1, DisjointUnion
    <3>3. QED
      BY <3>2, <2>2
  <2>5. Cardinality((old \cup gap) \cup cut) = ((gaps_detected + cut_off) + (s - e)) + (c - d)
    <3>1. IsFiniteSet(old \cup gap) /\ IsFiniteSet(cut) /\ (old \cup gap) \cap cut = {}
      BY <2>2, <2>3, <2>4
    <3>2. Cardinality((old \cup gap) \cup cut) = Cardinality(old \cup gap) + Cardinality(cut)
      BY <3>1, DisjointUnion
    <3>3. QED
      BY <3>2, <2>2, <2>4
  <2>6. gaps_detected' + cut_off' = ((gaps_detected + cut_off) + (s - e)) + (c - d)
    BY <1>1, <1>2 DEF ReaderInv, ReaderTypes
  <2>7. 1..(expected_seq' - 1) \ (Got' \cup Left') = (old \cup gap) \cup cut
    BY <2>1, <1>2, <1>6, Zenon
  <2>8. QED
    BY <2>5, <2>6, <2>7 DEF DeficitCounted
<1>11. QED
  BY <1>4, <1>5, <1>9, <1>10 DEF ReaderInv

(* A call of refill, whatever arrives. *)
Refill ==
    \/ RefillNothing
    \/ \E p \in Packets : RefillAccept(p)
    \/ dropped_behind < MaxPackets /\ \E p \in Packets : RefillBehind(p)

(* Every refill preserves the reader's invariant. *)
LEMMA RefillKeeps ==
    ASSUME ReaderInv, Refill
    PROVE  ReaderInv'
<1>1. CASE RefillNothing
  BY <1>1, ForgetKeeps DEF RefillNothing
<1>2. CASE \E p \in Packets : RefillAccept(p)
  BY <1>2, AcceptKeeps
<1>3. CASE \E p \in Packets : RefillBehind(p)
  BY <1>3, ForgetKeeps DEF RefillBehind
<1>4. QED
  BY <1>1, <1>2, <1>3 DEF Refill

(* The invariant does not depend on the other counters. *)
LEMMA ReaderStutters ==
    ASSUME ReaderInv, UNCHANGED readerVars
    PROVE  ReaderInv'
BY DEF readerVars, ReaderInv, ReaderTypes, PendingSorted, InOrderOnce, DeficitCounted, Left, Got

(* Whoever calls the reader, and whatever the network loses, repeats,      *)
(* reorders or cuts short: messages come out in order and none twice, and  *)
(* the messages missing are exactly the counted ones.                      *)
THEOREM ReaderCorrect == ReaderSpec => [](InOrderOnce /\ DeficitCounted)
<1>1. ReaderInv /\ [ReaderNext]_readerVars => ReaderInv'
  BY NextPendingKeeps, RefillKeeps, ReaderStutters DEF ReaderNext, Refill
<1>2. ReaderInv => InOrderOnce /\ DeficitCounted
  BY DEF ReaderInv
<1>3. QED
  BY ReaderInitEstablishes, <1>1, <1>2, PTL DEF ReaderSpec

----------------------------------------------------------------------------
(* The two threads *)

Counted(list) == {i \in DOMAIN list : list[i] \notin Unparsed}
Held == IF engine_buf = 0 THEN <<>> ELSE <<engine_buf>>

PipelineTypes ==
    /\ recv_pc \in {"construct", "loop", "next", "enqueue", "finish", "exited"}
    /\ engine_pc \in {"check", "try", "process", "drain", "drain_process", "join",
                      "joining", "complete", "paused"}
    /\ recv_buf \in Nat /\ engine_buf \in Nat
    /\ recv_done \in BOOLEAN /\ stop_requested \in BOOLEAN
    /\ queue \in Seq(Messages) /\ enqueued \in Seq(Messages) /\ processed \in Seq(Messages)
    /\ messages_processed \in Nat
    /\ published \in [messages_processed : Nat, complete : BOOLEAN]

(* A buffer is empty exactly when its thread has nothing in hand, so that  *)
(* no message is lost in one; recv_done is seen only after the receive     *)
(* thread's last message; and main is past its drain loop only with the    *)
(* queue empty.                                                            *)
ThreadsInStep ==
    /\ recv_pc = "enqueue" => recv_buf # 0
    /\ engine_pc \in {"process", "drain_process"} <=> engine_buf # 0
    /\ recv_done => recv_pc = "exited"
    /\ engine_pc \notin {"check", "try", "process"} => recv_done
    /\ engine_pc \in {"join", "joining", "complete", "paused"} => queue = <<>>
    /\ stop_requested => recv_pc = "exited"

Counters ==
    /\ messages_processed = Cardinality(Counted(processed))
    /\ published.complete <=> engine_pc = "paused"
    /\ published.complete => published.messages_processed = messages_processed

PipelineInv == ReaderInv /\ PipelineTypes /\ ThreadsInStep /\ QueueExact /\ Counters

(* What is applied is counted, one message at a time. *)
LEMMA CountedAppend ==
    ASSUME NEW list \in Seq(Messages), NEW m \in Messages
    PROVE  /\ Cardinality(Counted(list)) \in Nat
           /\ Cardinality(Counted(Append(list, m))) =
                 Cardinality(Counted(list)) + (IF m \in Unparsed THEN 0 ELSE 1)
<1> DEFINE n == Len(list)
           longer == Append(list, m)
<1>1. /\ longer \in Seq(Messages) /\ Len(longer) = n + 1
      /\ \A i \in 1..n : longer[i] = list[i]
      /\ longer[n + 1] = m
  BY AppendProperties
<1>2. n \in Nat /\ DOMAIN list = 1..n /\ DOMAIN longer = 1..(n + 1)
  BY <1>1
<1>3. IsFiniteSet(1..n)
  BY <1>2, FS_Interval
<1>4. Counted(list) \in SUBSET (1..n)
  BY <1>2 DEF Counted
<1>5. IsFiniteSet(Counted(list))
  BY <1>3, <1>4, FS_Subset
<1>6. Cardinality(Counted(list)) \in Nat
  BY <1>5, FS_CardinalityType
<1>7. n + 1 \notin Counted(list)
  BY <1>2, <1>4
<1> HIDE DEF longer, n
<1>8. CASE m \in Unparsed
  <2>1. Counted(longer) = Counted(list)
    BY <1>1, <1>2, <1>8 DEF Counted
  <2>2. QED
    BY <2>1, <1>6, <1>8 DEF longer
<1>9. CASE m \notin Unparsed
  <2>1. Counted(longer) = Counted(list) \cup {n + 1}
    BY <1>1, <1>2, <1>9 DEF Counted
  <2>2. Cardinality(Counted(longer)) = Cardinality(Counted(list)) + 1
    BY <2>1, <1>5, <1>7, FS_AddElement
  <2>3. QED
    BY <2>2, <1>6, <1>9 DEF longer
<1>10. QED
  BY <1>8, <1>9

(* The pipeline starts in its invariant. *)
LEMMA PipelineInitEstablishes == Init => PipelineInv
<1> SUFFICES ASSUME Init PROVE PipelineInv
  OBVIOUS
<1>1. ReaderInv
  BY ReaderInitEstablishes DEF Init
<1>2. PipelineTypes
  <2>1. <<>> \in Seq(Messages)
    BY EmptySeq
  <2>2. published \in [messages_processed : Nat, complete : BOOLEAN]
    BY DEF Init
  <2>3. QED
    BY <2>1, <2>2 DEF Init, PipelineTypes
<1>3. ThreadsInStep
  BY DEF Init, ThreadsInStep
<1>4. QueueExact
  BY DEF Init, QueueExact
<1>5. Counters
  <2>1. Counted(processed) = {}
    BY DEF Init, Counted
  <2>2. QED
    BY <2>1, FS_EmptySet DEF Init, Counters
<1>6. QED
  BY <1>1, <1>2, <1>3, <1>4, <1>5 DEF PipelineInv

(* A message enqueued at the end of the queue is at the end of it all. *)
LEMMA AppendToQueue ==
    \A p, q \in Seq(Messages), b \in Messages : Append(p \o q, b) = p \o Append(q, b)
<1> DEFINE S == Messages
<1> SUFFICES ASSUME NEW p \in Seq(S), NEW q \in Seq(S), NEW b \in S
             PROVE  Append(p \o q, b) = p \o Append(q, b)
  OBVIOUS
<1> HIDE DEF S
<1>1. <<b>> \in Seq(S)
  OBVIOUS
<1>2. p \o q \in Seq(S)
  BY ConcatProperties
<1>3. Append(p \o q, b) = (p \o q) \o <<b>> /\ Append(q, b) = q \o <<b>>
  BY <1>2, AppendIsConcat
<1>4. (p \o q) \o <<b>> = p \o (q \o <<b>>)
  BY <1>1, ConcatAssociative
<1>5. QED
  BY <1>3, <1>4

(* The head of the queue moves to the end of what is before the queue. *)
LEMMA HeadMoves ==
    \A p, q \in Seq(Messages) : q # <<>> =>
        /\ Head(q) \in Messages /\ Tail(q) \in Seq(Messages)
        /\ (p \o <<>>) \o q = (p \o <<Head(q)>>) \o Tail(q)
<1> DEFINE S == Messages
<1> SUFFICES ASSUME NEW p \in Seq(S), NEW q \in Seq(S), q # <<>>
             PROVE  /\ Head(q) \in S /\ Tail(q) \in Seq(S)
                    /\ (p \o <<>>) \o q = (p \o <<Head(q)>>) \o Tail(q)
  OBVIOUS
<1> HIDE DEF S
<1>1. Head(q) \in S /\ Tail(q) \in Seq(S)
  BY HeadTailProperties
<1>2. <<Head(q)>> \in Seq(S)
  BY <1>1
<1>3. q = <<Head(q)>> \o Tail(q)
  OBVIOUS
<1>4. p \o (<<Head(q)>> \o Tail(q)) = (p \o <<Head(q)>>) \o Tail(q)
  BY <1>1, <1>2, ConcatAssociative
<1>5. p \o <<>> = p
  BY ConcatEmptySeq
<1>6. QED
  BY <1>1, <1>3, <1>4, <1>5

(* What the main thread holds is no message or one. *)
LEMMA HeldType ==
    ASSUME PipelineTypes
    PROVE  Held \in Seq(Messages)
<1>1. CASE engine_buf = 0
  BY <1>1, EmptySeq DEF Held
<1>2. CASE engine_buf # 0
  <2>1. engine_buf \in Messages
    BY <1>2 DEF PipelineTypes, Messages
  <2>2. <<engine_buf>> \in Seq(Messages)
    BY <2>1
  <2>3. QED
    BY <1>2, <2>2 DEF Held
<1>3. QED
  BY <1>1, <1>2

(* The receive thread keeps the invariant. *)
LEMMA RecvKeeps ==
    ASSUME PipelineInv, RecvNext
    PROVE  PipelineInv'
<1> USE DEF PipelineInv
<1>1. ASSUME UNCHANGED <<engineVars, queue, enqueued, stop_requested>>
      PROVE  QueueExact' /\ Counters'
  BY <1>1 DEF QueueExact, Counters, Counted, engineVars
<1>2. CASE RecvConstruct \/ RecvLoop
  <2>1. ReaderInv'
    BY <1>2, ReaderStutters DEF RecvConstruct, RecvLoop
  <2>2. PipelineTypes'
    BY <1>2 DEF RecvConstruct, RecvLoop, RecvStep, PipelineTypes, engineVars
  <2>3. ThreadsInStep'
    BY <1>2 DEF RecvConstruct, RecvLoop, RecvStep, ThreadsInStep, PipelineTypes, engineVars
  <2>4. QED
    BY <2>1, <2>2, <2>3, <1>1, <1>2 DEF RecvConstruct, RecvLoop
<1>3. CASE RecvRefill
  <2>1. ReaderInv'
    BY <1>3, RefillKeeps DEF RecvRefill, Refill
  <2>2. PipelineTypes'
    BY <1>3 DEF RecvRefill, PipelineTypes, engineVars, recvVars
  <2>3. ThreadsInStep'
    BY <1>3 DEF RecvRefill, ThreadsInStep, engineVars, recvVars
  <2>4. QED
    BY <2>1, <2>2, <2>3, <1>1, <1>3 DEF RecvRefill
<1>4. CASE RecvMessage
  <2>1. ReaderInv' /\ recv_buf' \in Messages
    BY <1>4, NextPendingKeeps DEF RecvMessage
  <2>2. PipelineTypes'
    BY <1>4, <2>1 DEF RecvMessage, RecvStep, PipelineTypes, engineVars, Messages
  <2>3. ThreadsInStep'
    BY <1>4, <2>1 DEF RecvMessage, RecvStep, ThreadsInStep, engineVars, Messages
  <2>4. QED
    BY <2>1, <2>2, <2>3, <1>1, <1>4 DEF RecvMessage
<1>5. CASE RecvEnqueue
  <2>1. /\ recv_pc = "enqueue" /\ recv_pc' = "loop" /\ recv_buf' = 0
        /\ queue' = Append(queue, recv_buf) /\ enqueued' = Append(enqueued, recv_buf)
        /\ UNCHANGED <<readerVars, recv_done, stop_requested, engineVars>>
    BY <1>5 DEF RecvEnqueue, RecvStep
  <2>2. recv_buf \in Messages
    BY <2>1 DEF PipelineTypes, ThreadsInStep, Messages
  <2>3. ReaderInv'
    BY <2>1, ReaderStutters
  <2>4. PipelineTypes'
    <3>1. queue' \in Seq(Messages) /\ enqueued' \in Seq(Messages)
      BY <2>1, <2>2, AppendProperties DEF PipelineTypes
    <3>2. QED
      BY <2>1, <3>1 DEF PipelineTypes, engineVars
  <2>5. ThreadsInStep'
    BY <2>1 DEF ThreadsInStep, PipelineTypes, engineVars
  <2>6. Counters'
    BY <2>1 DEF Counters, Counted, engineVars
  <2>7. QueueExact'
    <3> DEFINE front == processed \o Held
    <3>1. front \in Seq(Messages)
      BY HeldType, ConcatProperties DEF PipelineTypes
    <3>2. enqueued = front \o queue /\ (front \o queue)' = front \o queue'
      BY <2>1 DEF QueueExact, Held, engineVars
    <3> HIDE DEF front
    <3>3. Append(front \o queue, recv_buf) = front \o Append(queue, recv_buf)
      <4>1. queue \in Seq(Messages)
        BY DEF PipelineTypes
      <4>2. QED
        BY <4>1, <3>1, <2>2, AppendToQueue
    <3>4. enqueued' = (front \o queue)'
      BY <3>2, <3>3, <2>1
    <3>5. QED
      BY <3>4 DEF QueueExact, front, Held
  <2>8. QED
    BY <2>3, <2>4, <2>5, <2>6, <2>7
<1>6. CASE RecvThrow \/ RecvFinish
  <2>1. ReaderInv'
    BY <1>6, ReaderStutters DEF RecvThrow, RecvFinish
  <2>2. PipelineTypes'
    <3>1. /\ recv_pc' \in {"finish", "exited"} /\ recv_buf' \in Nat
          /\ UNCHANGED <<stop_requested, queue, enqueued, engineVars>>
      BY <1>6 DEF RecvThrow, RecvFinish, RecvStep, PipelineTypes
    <3>2. recv_done' \in BOOLEAN
      BY <1>6, Zenon DEF RecvThrow, RecvFinish, PipelineTypes
    <3>3. QED
      BY <3>1, <3>2 DEF PipelineTypes, engineVars
  <2>3. ThreadsInStep'
    BY <1>6 DEF RecvThrow, RecvFinish, RecvStep, ThreadsInStep, PipelineTypes, engineVars
  <2>4. QED
    BY <2>1, <2>2, <2>3, <1>1, <1>6 DEF RecvThrow, RecvFinish
<1>7. QED
  BY <1>2, <1>3, <1>4, <1>5, <1>6 DEF RecvNext

(* A dequeue takes the oldest message of the queue into an empty buffer.   *)
LEMMA DequeueKeeps ==
    ASSUME PipelineInv, Dequeue("try", "process") \/ Dequeue("drain", "drain_process")
    PROVE  PipelineInv'
<1> USE DEF PipelineInv
<1>1. /\ \/ engine_pc = "try" /\ engine_pc' = "process"
         \/ engine_pc = "drain" /\ engine_pc' = "drain_process"
      /\ queue # <<>> /\ engine_buf' = Head(queue) /\ queue' = Tail(queue)
      /\ UNCHANGED <<readerVars, recvVars, stop_requested, enqueued,
                     messages_processed, published, processed>>
  BY DEF Dequeue, EngineStep
<1>2. engine_buf = 0
  BY <1>1 DEF ThreadsInStep
<1>3. processed \in Seq(Messages) /\ queue \in Seq(Messages)
  BY DEF PipelineTypes
<1>4. /\ engine_buf' \in Messages /\ queue' \in Seq(Messages)
      /\ (processed \o <<>>) \o queue = (processed \o <<engine_buf'>>) \o queue'
  BY <1>1, <1>3, HeadMoves
<1>5. ReaderInv'
  BY <1>1, ReaderStutters
<1>6. PipelineTypes'
  BY <1>1, <1>4 DEF PipelineTypes, recvVars, Messages
<1>7. ThreadsInStep'
  BY <1>1, <1>4 DEF ThreadsInStep, recvVars, Messages
<1>8. QueueExact'
  <2>1. engine_buf' # 0
    BY <1>4 DEF Messages
  <2>2. enqueued = (processed \o <<>>) \o queue
    BY <1>2 DEF QueueExact
  <2>3. enqueued' = (processed' \o <<engine_buf'>>) \o queue'
    BY <1>1, <1>4, <2>2
  <2>4. QED
    BY <2>1, <2>3 DEF QueueExact
<1>9. Counters'
  BY <1>1 DEF Counters, Counted
<1>10. QED
  BY <1>5, <1>6, <1>7, <1>8, <1>9

(* The process lambda moves the message in hand to those processed and     *)
(* counts it if it was parsed.                                             *)
LEMMA ProcessKeeps ==
    ASSUME PipelineInv, Process("process", "check") \/ Process("drain_process", "drain")
    PROVE  PipelineInv'
<1> USE DEF PipelineInv
<1>1. /\ \/ engine_pc = "process" /\ engine_pc' = "check"
         \/ engine_pc = "drain_process" /\ engine_pc' = "drain"
      /\ processed' = Append(processed, engine_buf) /\ engine_buf' = 0
      /\ UNCHANGED <<readerVars, recvVars, stop_requested, queue, enqueued>>
  BY DEF Process, EngineStep
<1>2. /\ engine_buf \in Unparsed => UNCHANGED <<messages_processed, published>>
      /\ engine_buf \notin Unparsed =>
            /\ messages_processed' = messages_processed + 1
            /\ published' = IF (messages_processed + 1) % SnapshotInterval = 0
                            THEN [messages_processed |-> messages_processed + 1,
                                  complete |-> FALSE]
                            ELSE published
  BY DEF Process
<1>3. engine_buf \in Messages
  BY <1>1 DEF ThreadsInStep, PipelineTypes, Messages
<1>4. processed \in Seq(Messages) /\ queue \in Seq(Messages) /\ messages_processed \in Nat
  BY DEF PipelineTypes
<1>5. processed' \in Seq(Messages)
  BY <1>1, <1>3, <1>4, AppendProperties
<1>6. messages_processed' = messages_processed + (IF engine_buf \in Unparsed THEN 0 ELSE 1)
  BY <1>2, <1>4
<1>7. published' \in [messages_processed : Nat, complete : BOOLEAN] /\ ~published'.complete
  <2>1. ~published.complete /\ published \in [messages_processed : Nat, complete : BOOLEAN]
    BY <1>1 DEF Counters, PipelineTypes
  <2>2. CASE published' = published
    BY <2>1, <2>2
  <2>3. CASE published' = [messages_processed |-> messages_processed + 1, complete |-> FALSE]
    BY <2>3, <1>4
  <2>4. QED
    BY <2>2, <2>3, <1>2
<1>8. ReaderInv'
  BY <1>1, ReaderStutters
<1>9. PipelineTypes'
  <2>1. messages_processed' \in Nat
    BY <1>6, <1>4
  <2>2. QED
    BY <1>1, <1>5, <1>7, <2>1 DEF PipelineTypes, recvVars
<1>10. ThreadsInStep'
  BY <1>1 DEF ThreadsInStep, recvVars
<1>11. QueueExact'
  <2>1. engine_buf # 0
    BY <1>3 DEF Messages
  <2>2. enqueued = (processed \o <<engine_buf>>) \o queue
    BY <2>1 DEF QueueExact
  <2>3. Append(processed, engine_buf) = processed \o <<engine_buf>>
    BY <1>3, <1>4, AppendIsConcat
  <2>4. processed' \o <<>> = processed'
    BY <1>5, ConcatEmptySeq
  <2>5. enqueued' = (processed' \o <<>>) \o queue'
    BY <1>1, <2>2, <2>3, <2>4
  <2>6. QED
    BY <2>5, <1>1 DEF QueueExact
<1>12. Counters'
  <2>1. Cardinality(Counted(processed')) =
           Cardinality(Counted(processed)) + (IF engine_buf \in Unparsed THEN 0 ELSE 1)
    BY <1>1, <1>3, <1>4, CountedAppend
  <2>2. messages_processed' = Cardinality(Counted(processed'))
    BY <2>1, <1>6 DEF Counters
  <2>3. engine_pc' # "paused"
    BY <1>1
  <2>4. QED
    BY <2>2, <2>3, <1>7 DEF Counters
<1>13. QED
  BY <1>8, <1>9, <1>10, <1>11, <1>12

(* Steps of the main thread that move no message. *)
LEMMA EngineMovesKeep ==
    ASSUME PipelineInv,
           EngineCheck \/ EngineTryMiss \/ DrainEmpty \/ EngineRequestStop \/ EngineJoin
    PROVE  PipelineInv'
<1> USE DEF PipelineInv
<1>1. /\ \/ engine_pc = "check" /\ engine_pc' = (IF recv_done THEN "drain" ELSE "try")
         \/ engine_pc = "try" /\ engine_pc' = "check"
         \/ engine_pc = "drain" /\ engine_pc' = "join" /\ queue = <<>>
         \/ engine_pc = "join" /\ engine_pc' = "joining"
         \/ engine_pc = "joining" /\ engine_pc' = "complete"
      /\ stop_requested' = stop_requested \/ (engine_pc = "join" /\ stop_requested' = TRUE)
      /\ UNCHANGED <<readerVars, recvVars, queue, enqueued,
                     engine_buf, messages_processed, published, processed>>
  BY DEF EngineCheck, EngineTryMiss, DrainEmpty, EngineRequestStop, EngineJoin, EngineStep
<1>2. ReaderInv'
  BY <1>1, ReaderStutters
<1>3. PipelineTypes'
  <2>1. stop_requested' \in BOOLEAN
    BY <1>1, Zenon DEF PipelineTypes
  <2>2. QED
    BY <1>1, <2>1 DEF PipelineTypes, recvVars
<1>4. ThreadsInStep'
  BY <1>1 DEF ThreadsInStep, PipelineTypes, recvVars
<1>5. QueueExact'
  BY <1>1 DEF QueueExact
<1>6. Counters'
  BY <1>1 DEF Counters, Counted
<1>7. QED
  BY <1>2, <1>3, <1>4, <1>5, <1>6

(* set_pipeline_complete publishes the final count. *)
LEMMA CompleteKeeps ==
    ASSUME PipelineInv, EngineComplete
    PROVE  PipelineInv'
<1> USE DEF PipelineInv
<1>1. /\ engine_pc = "complete" /\ engine_pc' = "paused"
      /\ published' = [messages_processed |-> messages_processed, complete |-> TRUE]
      /\ UNCHANGED <<readerVars, recvVars, stop_requested, queue, enqueued,
                     engine_buf, messages_processed, processed>>
  BY DEF EngineComplete, EngineStep
<1>2. ReaderInv'
  BY <1>1, ReaderStutters
<1>3. PipelineTypes'
  BY <1>1 DEF PipelineTypes, recvVars
<1>4. ThreadsInStep'
  BY <1>1 DEF ThreadsInStep, recvVars
<1>5. QueueExact'
  BY <1>1 DEF QueueExact
<1>6. Counters'
  BY <1>1 DEF Counters, Counted
<1>7. QED
  BY <1>2, <1>3, <1>4, <1>5, <1>6

(* Every step of either thread keeps the invariant. *)
LEMMA PipelineKeeps == PipelineInv /\ [Next]_pipelineVars => PipelineInv'
<1> SUFFICES ASSUME PipelineInv, [Next]_pipelineVars PROVE PipelineInv'
  OBVIOUS
<1>1. CASE RecvNext
  BY <1>1, RecvKeeps
<1>2. CASE EngineTryHit \/ DrainHit
  BY <1>2, DequeueKeeps DEF EngineTryHit, DrainHit
<1>3. CASE EngineProcess \/ DrainProcess
  BY <1>3, ProcessKeeps DEF EngineProcess, DrainProcess
<1>4. CASE EngineCheck \/ EngineTryMiss \/ DrainEmpty \/ EngineRequestStop \/ EngineJoin
  BY <1>4, EngineMovesKeep
<1>5. CASE EngineComplete
  BY <1>5, CompleteKeeps
<1>6. CASE UNCHANGED pipelineVars
  <2>1. ReaderInv'
    BY <1>6, ReaderStutters DEF PipelineInv, pipelineVars
  <2>2. QED
    BY <1>6, <2>1 DEF PipelineInv, pipelineVars, recvVars, engineVars, PipelineTypes,
                      ThreadsInStep, QueueExact, Counters, Counted
<1>7. QED
  BY <1>1, <1>2, <1>3, <1>4, <1>5, <1>6 DEF Next, EngineNext, Paused

(* The invariant holds throughout, whatever arrives and however the two    *)
(* threads are scheduled.                                                  *)
THEOREM PipelineInvariance == Spec => []PipelineInv
BY PipelineInitEstablishes, PipelineKeeps, PTL DEF Spec

(* Between the threads no message is lost, duplicated or reordered.        *)
THEOREM QueueCorrect == Spec => []QueueExact
<1>1. PipelineInv => QueueExact
  BY DEF PipelineInv
<1>2. QED
  BY PipelineInvariance, <1>1, PTL

(* When main leaves live mode everything enqueued has been processed, and  *)
(* the final snapshot counts it.                                           *)
THEOREM DrainCorrect == Spec => []Drained
<1>1. PipelineInv => Drained
  <2> SUFFICES ASSUME PipelineInv PROVE Drained
    OBVIOUS
  <2> USE DEF PipelineInv
  <2>1. ASSUME engine_pc \in {"joining", "complete", "paused"}
        PROVE  processed = enqueued /\ queue = <<>>
    <3>1. queue = <<>> /\ engine_buf = 0
      BY <2>1 DEF ThreadsInStep
    <3>2. (processed \o <<>>) \o <<>> = processed
      BY ConcatEmptySeq DEF PipelineTypes
    <3>3. QED
      BY <3>1, <3>2 DEF QueueExact
  <2>2. published.complete => published.messages_processed = Cardinality(Counted(enqueued))
    BY <2>1 DEF Counters
  <2>3. published.complete <=> engine_pc = "paused"
    BY DEF Counters
  <2>4. QED
    BY <2>1, <2>2, <2>3 DEF Drained, Counted
<1>2. QED
  BY PipelineInvariance, <1>1, PTL

(* The stop token is set only after the receive thread's last statement.   *)
THEOREM StopIsLate == Spec => []StopComesLate
<1>1. PipelineInv => StopComesLate
  BY DEF PipelineInv, ThreadsInStep, StopComesLate
<1>2. QED
  BY PipelineInvariance, <1>1, PTL

(* In the pipeline, too, the reader's messages are in order, none twice,   *)
(* and the missing ones counted: the engine never sees an old message.     *)
THEOREM DeliveryCorrect == Spec => [](InOrderOnce /\ DeficitCounted)
<1>1. PipelineInv => InOrderOnce /\ DeficitCounted
  BY DEF PipelineInv, ReaderInv
<1>2. QED
  BY PipelineInvariance, <1>1, PTL

============================================================================
