--------------------------- MODULE FileFeedReader ---------------------------
(***************************************************************************)
(* FileFeedReader (src/src/feed_reader.cpp), called in a loop, as all its  *)
(* users do (FilePipeline).  A capture file is a sequence of frames, a     *)
(* two-byte length and that many bytes each; the copy on disk may end      *)
(* anywhere.  read() may return fewer bytes than asked for, or fail.       *)
(***************************************************************************)
EXTENDS Integers, Sequences, FiniteSets

CONSTANTS
    Lengths,    \* values of the length prefix
    MaxFrames   \* bound on the frames of a capture

ASSUME FileAssumption == Lengths \subseteq Nat /\ MaxFrames \in Nat

VARIABLES
    file,       \* the lengths of the frames of the capture
    size,       \* how many bytes of it are on disk
    pos,        \* the descriptor's file offset
    total,      \* bytes the current read_exact has read
    returned,   \* buffers given to the loop: their length, and the bytes read into them
    pc,         \* "open", in read_exact of "prefix" or "body", "complete" or "failed"
    cause       \* the exception that ended the loop: its message, and what was behind it

fileVars == <<file, size, pos, total, returned, pc, cause>>

Files == UNION {[1..n -> Lengths] : n \in 0..MaxFrames}

(* Offset(f)[k] is where frame k of f ends: the number of bytes up to it. *)
Offset(f) == [k \in 0..Len(f) |-> Cardinality(UNION {{j} \X (1..(2 + f[j])) : j \in 1..k})]

Least(m, n) == IF m < n THEN m ELSE n

Init ==
    /\ file \in Files
    /\ size \in 0..Offset(file)[Len(file)]
    /\ pos = 0 /\ total = 0
    /\ returned = <<>>
    /\ pc = "open" /\ cause = [message |-> "none", reason |-> "none"]

----------------------------------------------------------------------------
(* An exception leaves next_message, and ends the loop of every caller.    *)
(* Whatever read_exact throws for a body is caught and thrown again as a   *)
(* truncated frame.                                                        *)
Fail(why) ==
    /\ pc' = "failed"
    /\ cause' = [message |-> IF pc = "body" THEN "truncated frame" ELSE why, reason |-> why]

Open ==
    /\ pc = "open"
    /\ \/ pc' = "prefix" /\ UNCHANGED cause
       \/ Fail("open")
    /\ UNCHANGED <<file, size, pos, total, returned>>

(* The frame being read, and how many bytes read_exact was asked for. *)
MsgLen == file[Len(returned) + 1]
Wanted == IF pc = "prefix" THEN 2 ELSE MsgLen

(* next_message returns, and the loop calls it again. *)
Return(got) ==
    /\ returned' = Append(returned, [len |-> MsgLen, got |-> got])
    /\ pc' = "prefix"
    /\ total' = 0
    /\ UNCHANGED cause

(* read_exact has all its bytes: a length to look at, or a message. *)
Filled ==
    IF pc = "body" THEN Return(MsgLen)
    ELSE /\ IF MsgLen = 0 THEN Fail("zero length") ELSE pc' = "body" /\ UNCHANGED cause
         /\ total' = 0
         /\ UNCHANGED returned

(* Faults *)
ShortReadThrows(r) ==
    /\ pos' = pos + r
    /\ IF total + r = Wanted THEN Filled
       ELSE Fail("truncated") /\ total' = total + r /\ UNCHANGED returned

ReadOnce(r) ==
    /\ pos' = pos + r
    /\ IF pc = "body" THEN Return(total + r)
       ELSE IF total + r = Wanted THEN Filled
            ELSE total' = total + r /\ UNCHANGED <<returned, pc, cause>>

(* One read() that returned r > 0 bytes. *)
Advance(r) ==
    /\ pos' = pos + r
    /\ IF total + r = Wanted THEN Filled
       ELSE total' = total + r /\ UNCHANGED <<returned, pc, cause>>

Read ==
    /\ pc \in {"prefix", "body"}
    /\ \E r \in 1..Least(Wanted - total, size - pos) : Advance(r)
    /\ UNCHANGED <<file, size>>

(* Fault *)
EofRetries == UNCHANGED <<returned, total, pc, cause>>

(* read() returned 0.  After some bytes that is a truncated read.  Before  *)
(* the first one read_exact returns false: next_message returns nullopt    *)
(* for the prefix, and the loop is complete; for the body it does not look *)
(* at the result and returns the buffer, still zero-filled.                *)
AtEof ==
    IF total > 0 THEN Fail("truncated") /\ UNCHANGED <<returned, total>>
    ELSE IF pc = "body" THEN Return(0)
    ELSE pc' = "complete" /\ UNCHANGED <<returned, total, cause>>

ReadEof ==
    /\ pc \in {"prefix", "body"}
    /\ pos = size
    /\ AtEof
    /\ UNCHANGED <<file, size, pos>>

ReadError ==
    /\ pc \in {"prefix", "body"}
    /\ Fail("read error")
    /\ UNCHANGED <<file, size, pos, total, returned>>

(* The reader is not called any more. *)
Ended == pc \in {"complete", "failed"} /\ UNCHANGED fileVars

Next == Open \/ Read \/ ReadEof \/ ReadError \/ Ended

Spec == Init /\ [][Next]_fileVars

----------------------------------------------------------------------------
(* Properties *)

Whole(k) == Offset(file)[k] <= size
Boundaries == {Offset(file)[k] : k \in 0..Len(file)}

(* Short reads never lose the frame boundaries: the buffers returned are   *)
(* the frames of the capture in order, each with its own length, filled if *)
(* the frame is whole on disk and never filled in part.  The end of the    *)
(* file is taken for a clean one only after every whole frame, and not     *)
(* inside a prefix or a body.                                              *)
FramesInOrder ==
    /\ Len(returned) <= Len(file)
    /\ \A k \in DOMAIN returned :
          /\ returned[k].len = file[k]
          /\ returned[k].got \in IF Whole(k) THEN {file[k]} ELSE {0}
    /\ pc = "complete" =>
          /\ \A k \in DOMAIN file : Whole(k) => k <= Len(returned)
          /\ {size, size - 2} \cap Boundaries # {}

(* A capture that ends at a frame boundary is never called truncated,      *)
(* however read() splits it, unless read() itself failed.                  *)
NoFalseTruncation ==
    cause.message \in {"truncated", "truncated frame"} /\ cause.reason # "read error"
    => size \notin Boundaries

(* The comment in next_message: "Truncated frame after length prefix is    *)
(* always an error", so every buffer returned was filled.                  *)
TruncatedFrameIsError == \A k \in DOMAIN returned : returned[k].got = returned[k].len

=============================================================================
