---------------------------- MODULE LivePipeline ----------------------------
(***************************************************************************)
(* Live mode of main() (src/src/main.cpp): the receive thread runs a       *)
(* UDPFeedReader and enqueues what it returns; the engine, on the main     *)
(* thread, dequeues, parses and applies until recv_done, then drains the   *)
(* queue, joins the receive thread and publishes the final snapshot.       *)
(* Of the engine only what the pipeline sees is kept: how many messages it *)
(* has applied and what it has published.                                  *)
(***************************************************************************)
EXTENDS UdpFeedReader

CONSTANTS
    Unparsed,          \* messages the parser rejects or does not know
    SnapshotInterval   \* SNAPSHOT_INTERVAL

ASSUME PipelineAssumption ==
    Unparsed \subseteq 1..MaxSeq /\ SnapshotInterval \in Nat \ {0}

VARIABLES
    recv_pc,             \* where the receive thread is
    recv_buf,            \* the message next_message returned, 0 if none
    recv_done,           \* the atomic flag
    stop_requested,      \* the jthread's stop token
    queue,               \* the concurrent queue
    engine_pc,           \* where the main thread is
    engine_buf,          \* the message try_dequeue returned, 0 if none
    messages_processed,
    published,           \* what the REST threads load
    enqueued,            \* history: everything ever enqueued
    processed            \* history: everything the process lambda was given

recvVars == <<recv_pc, recv_buf, recv_done>>
engineVars == <<engine_pc, engine_buf, messages_processed, published, processed>>
pipelineVars == <<readerVars, recvVars, stop_requested, queue, enqueued, engineVars>>

Init ==
    /\ ReaderInit
    /\ recv_pc = "construct" /\ recv_buf = 0
    /\ recv_done = FALSE /\ stop_requested = FALSE
    /\ queue = <<>> /\ enqueued = <<>>
    /\ engine_pc = "check" /\ engine_buf = 0
    /\ messages_processed = 0 /\ processed = <<>>
    /\ published = [messages_processed |-> 0, complete |-> FALSE]

----------------------------------------------------------------------------
(* The receive thread *)

RecvStep(from, to) == recv_pc = from /\ recv_pc' = to

(* The socket is made and the multicast group joined. *)
RecvConstruct ==
    /\ RecvStep("construct", "loop")
    /\ UNCHANGED <<readerVars, recv_buf, recv_done, stop_requested, queue, enqueued, engineVars>>

RecvLoop ==
    /\ RecvStep("loop", IF stop_requested THEN "finish" ELSE "next")
    /\ UNCHANGED <<readerVars, recv_buf, recv_done, stop_requested, queue, enqueued, engineVars>>

(* Inside next_message: packets arrive until one has a message. *)
RecvRefill ==
    /\ recv_pc = "next"
    /\ \/ RefillNothing
       \/ \E p \in Packets : RefillAccept(p)
       \/ dropped_behind < MaxPackets /\ \E p \in Packets : RefillBehind(p)
    /\ UNCHANGED <<recvVars, stop_requested, queue, enqueued, engineVars>>

RecvMessage ==
    /\ RecvStep("next", "enqueue")
    /\ NextPending
    /\ recv_buf' = pending[pending_idx + 1]
    /\ UNCHANGED <<recv_done, stop_requested, queue, enqueued, engineVars>>

RecvEnqueue ==
    /\ RecvStep("enqueue", "loop")
    /\ queue' = Append(queue, recv_buf)
    /\ enqueued' = Append(enqueued, recv_buf)
    /\ recv_buf' = 0
    /\ UNCHANGED <<readerVars, recv_done, stop_requested, engineVars>>

(* A std::exception: the constructor cannot make, bind or join the socket, *)
(* or there is no memory for a message.  Caught at the end of the thread.  *)
RecvThrow ==
    /\ recv_pc \in {"construct", "next", "enqueue"}
    /\ recv_pc' = "finish"
    /\ recv_buf' = 0
    /\ UNCHANGED <<readerVars, recv_done, stop_requested, queue, enqueued, engineVars>>

DoneOnlyWithoutError ==
    /\ RecvStep("finish", "exited")
    /\ recv_done' = stop_requested
    /\ UNCHANGED <<readerVars, recv_buf, stop_requested, queue, enqueued, engineVars>>

RecvFinish ==
    /\ RecvStep("finish", "exited")
    /\ recv_done' = TRUE
    /\ UNCHANGED <<readerVars, recv_buf, stop_requested, queue, enqueued, engineVars>>

----------------------------------------------------------------------------
(* The main thread *)

EngineStep(from, to) == engine_pc = from /\ engine_pc' = to

CheckWithoutDrain ==
    /\ EngineStep("check", IF recv_done THEN "join" ELSE "try")
    /\ UNCHANGED <<readerVars, recvVars, stop_requested, queue, enqueued,
                   engine_buf, messages_processed, published, processed>>

EngineCheck ==
    /\ EngineStep("check", IF recv_done THEN "drain" ELSE "try")
    /\ UNCHANGED <<readerVars, recvVars, stop_requested, queue, enqueued,
                   engine_buf, messages_processed, published, processed>>

(* try_dequeue takes the oldest message; the queue has one producer. *)
Dequeue(from, to) ==
    /\ EngineStep(from, to)
    /\ queue # <<>>
    /\ engine_buf' = Head(queue)
    /\ queue' = Tail(queue)
    /\ UNCHANGED <<readerVars, recvVars, stop_requested, enqueued,
                   messages_processed, published, processed>>

HitDiscardedWhenDone ==
    /\ EngineStep("try", IF recv_done THEN "drain" ELSE "process")
    /\ queue # <<>>
    /\ engine_buf' = IF recv_done THEN 0 ELSE Head(queue)
    /\ queue' = Tail(queue)
    /\ UNCHANGED <<readerVars, recvVars, stop_requested, enqueued,
                   messages_processed, published, processed>>

EngineTryHit == Dequeue("try", "process")

(* While the producer runs, try_dequeue may miss a message it has not yet  *)
(* seen enqueued.                                                          *)
MissLeavesLoop ==
    /\ EngineStep("try", "drain")
    /\ UNCHANGED <<readerVars, recvVars, stop_requested, queue, enqueued,
                   engine_buf, messages_processed, published, processed>>

EngineTryMiss ==
    /\ EngineStep("try", "check")
    /\ UNCHANGED <<readerVars, recvVars, stop_requested, queue, enqueued,
                   engine_buf, messages_processed, published, processed>>

(* The process lambda: parse, and apply what was parsed. *)
Process(from, to) ==
    /\ EngineStep(from, to)
    /\ processed' = Append(processed, engine_buf)
    /\ engine_buf' = 0
    /\ LET n == messages_processed + 1
       IN  IF engine_buf \in Unparsed THEN UNCHANGED <<messages_processed, published>>
           ELSE /\ messages_processed' = n
                /\ published' = IF n % SnapshotInterval = 0
                                THEN [messages_processed |-> n, complete |-> FALSE]
                                ELSE published
    /\ UNCHANGED <<readerVars, recvVars, stop_requested, queue, enqueued>>

EngineProcess == Process("process", "check")

(* After recv_done was read, with acquire order, nothing is missed. *)
DrainHit == Dequeue("drain", "drain_process")
DrainProcess == Process("drain_process", "drain")
DrainEmpty ==
    /\ EngineStep("drain", "join")
    /\ queue = <<>>
    /\ UNCHANGED <<readerVars, recvVars, stop_requested, queue, enqueued,
                   engine_buf, messages_processed, published, processed>>

(* The end of the live block destroys the jthread: request stop, join. *)
EngineRequestStop ==
    /\ EngineStep("join", "joining")
    /\ stop_requested' = TRUE
    /\ UNCHANGED <<readerVars, recvVars, queue, enqueued,
                   engine_buf, messages_processed, published, processed>>

EngineJoin ==
    /\ EngineStep("joining", "complete")
    /\ recv_pc = "exited"
    /\ UNCHANGED <<readerVars, recvVars, stop_requested, queue, enqueued,
                   engine_buf, messages_processed, published, processed>>

(* set_pipeline_complete *)
EngineComplete ==
    /\ EngineStep("complete", "paused")
    /\ published' = [messages_processed |-> messages_processed, complete |-> TRUE]
    /\ UNCHANGED <<readerVars, recvVars, stop_requested, queue, enqueued,
                   engine_buf, messages_processed, processed>>

(* pause(): the process stays up for the REST server. *)
Paused == engine_pc = "paused" /\ UNCHANGED pipelineVars

RecvNext == RecvConstruct \/ RecvLoop \/ RecvRefill \/ RecvMessage \/ RecvEnqueue
            \/ RecvThrow \/ RecvFinish
EngineNext == EngineCheck \/ EngineTryHit \/ EngineTryMiss \/ EngineProcess
              \/ DrainHit \/ DrainProcess \/ DrainEmpty
              \/ EngineRequestStop \/ EngineJoin \/ EngineComplete
Next == RecvNext \/ EngineNext \/ Paused

(* Both threads keep running; the receive thread may wait for a packet     *)
(* forever.  A message once enqueued becomes visible, so a main thread     *)
(* that keeps trying gets it.                                              *)
Fairness ==
    /\ WF_pipelineVars(EngineNext)
    /\ SF_pipelineVars(EngineTryHit)
    /\ WF_pipelineVars(RecvConstruct \/ RecvLoop \/ RecvMessage \/ RecvEnqueue \/ RecvFinish)

Spec == Init /\ [][Next]_pipelineVars /\ Fairness

----------------------------------------------------------------------------
(* Properties *)

(* Between the threads nothing is lost, duplicated or reordered: what was  *)
(* enqueued is what was processed, what the main thread holds and what is  *)
(* queued, in this order.                                                  *)
QueueExact ==
    enqueued = processed \o (IF engine_buf = 0 THEN <<>> ELSE <<engine_buf>>) \o queue

(* When main leaves live mode, every message enqueued up to then has been  *)
(* processed, also those enqueued while recv_done was being set, and the   *)
(* final snapshot counts them all.                                         *)
Drained ==
    /\ engine_pc \in {"joining", "complete", "paused"} => processed = enqueued /\ queue = <<>>
    /\ published.complete <=> engine_pc = "paused"
    /\ published.complete =>
          published.messages_processed =
             Cardinality({i \in DOMAIN enqueued : enqueued[i] \notin Unparsed})

(* The stop token never stops the receive loop: it is set only after the   *)
(* thread's last statement, so the loop ends by an exception or not at all. *)
StopComesLate == stop_requested => recv_pc = "exited"

(* Every enqueued message is processed eventually, whether the receive     *)
(* thread goes on or fails.                                                *)
EnqueuedGetsProcessed ==
    \A n \in 1..MaxSeq :
        (\E i \in DOMAIN enqueued : enqueued[i] = n) ~> (\E i \in DOMAIN processed : processed[i] = n)

(* Once the receive thread is gone, main drains, joins and completes. *)
ShutdownCompletes == (recv_pc = "exited") ~> (engine_pc = "paused" /\ published.complete)

============================================================================
