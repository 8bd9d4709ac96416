--------------------------- MODULE UdpFeedReader ---------------------------
(***************************************************************************)
(* UDPFeedReader (src/src/udp_feed_reader.cpp): MoldUDP64 packets in, one  *)
(* message per call out.  The sender numbers its messages 1..MaxSeq; a     *)
(* packet announces count of them from seq on.  The network may lose,      *)
(* delay, duplicate and reorder packets and a datagram may be cut short,   *)
(* so any packet may arrive at any time.  A message is its number.         *)
(***************************************************************************)
EXTENDS Integers, Sequences, FiniteSets

CONSTANTS
    MaxSeq,      \* number of messages of the session
    MaxCount,    \* most messages in one packet
    MaxPackets   \* bound on the packets with messages that arrive

ASSUME ReaderAssumption == MaxSeq \in Nat /\ MaxCount \in Nat /\ MaxPackets \in Nat

VARIABLES
    expected_seq,
    gaps_detected,      \* messages known lost
    dropped_behind,     \* packets discarded
    messages_received,  \* messages returned to the caller
    pending,            \* messages of the current packet
    pending_idx,        \* how many of them have been returned
    delivered,          \* history: every message returned, in order
    cut_off             \* history: messages announced by an accepted packet but not in it

readerVars == <<expected_seq, gaps_detected, dropped_behind, messages_received,
                pending, pending_idx, delivered, cut_off>>

Packets == {p \in [seq : 1..MaxSeq, count : 1..MaxCount, carried : 0..MaxCount] :
               p.carried <= p.count /\ p.seq + p.count - 1 <= MaxSeq}

ReaderInit ==
    /\ expected_seq = 1
    /\ gaps_detected = 0 /\ dropped_behind = 0 /\ messages_received = 0
    /\ pending = <<>> /\ pending_idx = 0
    /\ delivered = <<>> /\ cut_off = 0

----------------------------------------------------------------------------
(* next_message while messages of the packet are left: return the next. *)
NextPending ==
    /\ pending_idx < Len(pending)
    /\ pending_idx' = pending_idx + 1
    /\ messages_received' = messages_received + 1
    /\ delivered' = Append(delivered, pending[pending_idx + 1])
    /\ UNCHANGED <<expected_seq, gaps_detected, dropped_behind, pending, cut_off>>

(* Otherwise next_message forgets the packet and calls refill. *)
Exhausted == pending_idx = Len(pending)
Forget == pending' = <<>> /\ pending_idx' = 0

(* A recvfrom error, a packet shorter than the header, a message count of  *)
(* 0xFFFF and one of 0 all leave refill early without touching anything.   *)
RefillNothing ==
    /\ Exhausted
    /\ Forget
    /\ UNCHANGED <<expected_seq, gaps_detected, dropped_behind, messages_received,
                   delivered, cut_off>>

(* Faults *)
AcceptBehind(p) ==
    /\ Exhausted
    /\ p.seq < expected_seq
    /\ expected_seq' = p.seq + p.count
    /\ pending' = [i \in 1..p.carried |-> p.seq + i - 1]
    /\ pending_idx' = 0
    /\ cut_off' = cut_off + (p.count - p.carried)
    /\ UNCHANGED <<gaps_detected, dropped_behind, messages_received, delivered>>

AdvanceByCarried(p) ==
    /\ Exhausted
    /\ p.seq >= expected_seq
    /\ gaps_detected' = gaps_detected + (p.seq - expected_seq)
    /\ expected_seq' = p.seq + p.carried
    /\ pending' = [i \in 1..p.carried |-> p.seq + i - 1]
    /\ pending_idx' = 0
    /\ cut_off' = cut_off + (p.count - p.carried)
    /\ UNCHANGED <<dropped_behind, messages_received, delivered>>

(* A packet from before expected_seq is dropped whole, also the part of it *)
(* that may reach beyond expected_seq.                                     *)
RefillBehind(p) ==
    /\ Exhausted
    /\ p.seq < expected_seq
    /\ dropped_behind' = dropped_behind + 1
    /\ Forget
    /\ UNCHANGED <<expected_seq, gaps_detected, messages_received, delivered, cut_off>>

(* A packet at or after expected_seq: count the gap, advance past all the  *)
(* packet announces, keep the messages that are really in it.  The blocks  *)
(* after a truncated one are not read.                                     *)
RefillAccept(p) ==
    /\ Exhausted
    /\ p.seq >= expected_seq
    /\ gaps_detected' = gaps_detected + (p.seq - expected_seq)
    /\ expected_seq' = p.seq + p.count
    /\ pending' = [i \in 1..p.carried |-> p.seq + i - 1]
    /\ pending_idx' = 0
    /\ cut_off' = cut_off + (p.count - p.carried)
    /\ UNCHANGED <<dropped_behind, messages_received, delivered>>

ReaderNext ==
    \/ NextPending
    \/ RefillNothing
    \/ \E p \in Packets : RefillAccept(p)
    \/ dropped_behind < MaxPackets /\ \E p \in Packets : RefillBehind(p)

ReaderSpec == ReaderInit /\ [][ReaderNext]_readerVars

----------------------------------------------------------------------------
(* Properties *)

Left == {pending[i] : i \in (pending_idx + 1)..Len(pending)}
Got == {delivered[i] : i \in DOMAIN delivered}

(* However packets are duplicated and reordered, the caller gets messages  *)
(* in the sender's order and none of them twice.                           *)
InOrderOnce ==
    /\ \A i, j \in DOMAIN delivered : i < j => delivered[i] < delivered[j]
    /\ \A m \in Got, n \in Left : m < n
    /\ \A n \in Left \cup Got : n < expected_seq

(* The deficit is observable: of the messages before expected_seq, those   *)
(* neither returned nor pending are exactly the counted gaps and the cut   *)
(* off ones, so without truncation gaps_detected is the number of messages *)
(* lost.                                                                   *)
DeficitCounted ==
    Cardinality(1..(expected_seq - 1) \ (Got \cup Left)) = gaps_detected + cut_off

============================================================================
