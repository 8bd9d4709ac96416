---------------------------- MODULE FilePipeline ----------------------------
(***************************************************************************)
(* The three programs that run a FileFeedReader: file mode of main()       *)
(* (src/src/main.cpp), bench_replay (src/bench/bench_replay.cpp) and       *)
(* load_capture with the replay loop after it                              *)
(* (src/bench/bench_mixed_workload.cpp).  Each reads a buffer, parses it   *)
(* and goes on; of the engine only what they see of it is kept, how many   *)
(* messages it has applied and what it has published.                      *)
(***************************************************************************)
EXTENDS FileFeedReader

CONSTANTS
    Intervals,   \* what SNAPSHOT_INTERVAL or the argument is set to, 0 included
    MaxLoaded,   \* max_messages of load_capture
    MaxApplied   \* bound on the messages the replay loop applies

ASSUME FilePipelineAssumption ==
    Intervals \subseteq Nat /\ MaxLoaded \in Nat \ {0} /\ MaxApplied \in Nat

VARIABLES
    program,             \* "main", "bench_replay" or "load_capture"
    content,             \* what the parser makes of each frame of the capture
    interval,            \* snapshot_interval_
    stage,               \* "loop", "replaying" the loaded messages, "paused", "exited" or "crashed"
    handled,             \* buffers of the reader the loop is done with
    parse_errors,        \* bench_replay's count; main logs instead
    messages,            \* bench_replay's count of messages applied
    out,                 \* load_capture: numbers of the frames loaded
    idx,                 \* replay loop: the next loaded message, from 0
    messages_processed,
    published            \* what the REST threads load

loopVars == <<stage, handled, parse_errors, messages, out, idx>>
engineVars == <<messages_processed, published>>
pipeVars == <<fileVars, program, content, interval, loopVars, engineVars>>

NoSnapshot == [messages_processed |-> 0, complete |-> FALSE]

PipeInit ==
    /\ Init
    /\ program \in {"main", "bench_replay", "load_capture"}
    /\ content \in [DOMAIN file -> {"message", "malformed", "out of scope"}]
    /\ interval \in IF program = "load_capture" THEN {MaxApplied + 1} ELSE Intervals
    /\ stage = "loop" /\ handled = 0
    /\ parse_errors = 0 /\ messages = 0
    /\ out = <<>> /\ idx = 0
    /\ messages_processed = 0 /\ published = NoSnapshot

----------------------------------------------------------------------------
(* The loop *)

(* Fault *)
LoadsOneMore == program = "load_capture" /\ Len(out) > MaxLoaded

(* while (out.size() < max_messages), looked at before each read. *)
LoadedEnough == program = "load_capture" /\ Len(out) >= MaxLoaded

(* A call of next_message, in as many read()s as it takes. *)
Reading == stage = "loop" /\ handled = Len(returned) /\ ~LoadedEnough

ReadBuffer ==
    /\ Reading
    /\ Open \/ Read \/ ReadEof
    /\ UNCHANGED <<program, content, interval, loopVars, engineVars>>

ReadFails ==
    /\ Reading
    /\ ReadError
    /\ UNCHANGED <<program, content, interval, loopVars, engineVars>>

(* parse() of the buffer at hand.  One that was never filled begins with a *)
(* zero byte, which is no type the parser knows.                           *)
Parsed ==
    IF returned[handled + 1].got = 0 THEN "out of scope" ELSE content[handled + 1]

(* engine.apply: count, and publish when the interval divides the count.   *)
(* With an interval of 0 the remainder is undefined: the division takes    *)
(* the process down, or yields the dividend or anything else.              *)
Apply ==
    LET n == messages_processed + 1
        remainders == IF interval = 0 THEN {0, n} ELSE {n % interval}
    IN  /\ messages_processed' = n
        /\ \/ /\ interval = 0
              /\ stage' = "crashed" /\ UNCHANGED published
           \/ /\ \E r \in remainders :
                    published' = IF r = 0 THEN [messages_processed |-> n, complete |-> FALSE]
                                 ELSE published
              /\ UNCHANGED stage

(* The body of the loop.  An exception of the parser is caught inside it.  *)
HandleBuffer ==
    /\ stage = "loop" /\ handled < Len(returned)
    /\ handled' = handled + 1
    /\ parse_errors' = IF program = "bench_replay" /\ Parsed = "malformed"
                       THEN parse_errors + 1 ELSE parse_errors
    /\ IF Parsed # "message" THEN UNCHANGED <<stage, messages, out, engineVars>>
       ELSE IF program = "load_capture"
       THEN out' = Append(out, handled + 1) /\ UNCHANGED <<stage, messages, engineVars>>
       ELSE /\ Apply
            /\ messages' = IF program = "bench_replay" /\ stage' # "crashed"
                           THEN messages + 1 ELSE messages
            /\ UNCHANGED out
    /\ UNCHANGED <<fileVars, program, content, interval, idx>>

(* Fault *)
FinishEvenIfFailed ==
    /\ stage = "loop" /\ program # "load_capture"
    /\ pc \in {"complete", "failed"} /\ handled = Len(returned)
    /\ published' = [messages_processed |-> messages_processed, complete |-> TRUE]
    /\ stage' = IF program = "main" THEN "paused" ELSE "exited"
    /\ UNCHANGED <<fileVars, program, content, interval, handled, parse_errors, messages,
                   out, idx, messages_processed>>

(* The loop ended at the end of the file: set_pipeline_complete.  After    *)
(* that main pauses for the REST server and bench_replay reports.          *)
Finish ==
    /\ stage = "loop" /\ program # "load_capture"
    /\ pc = "complete" /\ handled = Len(returned)
    /\ published' = [messages_processed |-> messages_processed, complete |-> TRUE]
    /\ stage' = IF program = "main" THEN "paused" ELSE "exited"
    /\ UNCHANGED <<fileVars, program, content, interval, handled, parse_errors, messages,
                   out, idx, messages_processed>>

(* An exception of the reader: logged, return 1. *)
GiveUp ==
    /\ stage = "loop" /\ program # "load_capture"
    /\ pc = "failed"
    /\ stage' = "exited"
    /\ UNCHANGED <<fileVars, program, content, interval, handled, parse_errors, messages,
                   out, idx, engineVars>>

(* load_capture returns what it has, after an exception too.  The          *)
(* benchmark is skipped when that is nothing.                              *)
Loaded ==
    /\ stage = "loop" /\ program = "load_capture"
    /\ handled = Len(returned)
    /\ pc \in {"complete", "failed"} \/ LoadedEnough
    /\ stage' = IF out = <<>> THEN "exited" ELSE "replaying"
    /\ UNCHANGED <<fileVars, program, content, interval, handled, parse_errors, messages,
                   out, idx, engineVars>>

(* The timed loop: the loaded messages over and over. *)
Replay ==
    /\ stage = "replaying" /\ messages_processed < MaxApplied
    /\ Apply
    /\ idx' = IF idx + 1 = Len(out) THEN 0 ELSE idx + 1
    /\ UNCHANGED <<fileVars, program, content, interval, handled, parse_errors, messages, out>>

(* The benchmark library has enough iterations. *)
ReplayEnds ==
    /\ stage = "replaying"
    /\ stage' = "exited"
    /\ UNCHANGED <<fileVars, program, content, interval, handled, parse_errors, messages,
                   out, idx, engineVars>>

PipeEnded == stage \in {"paused", "exited", "crashed"} /\ UNCHANGED pipeVars

PipeNext ==
    \/ ReadBuffer \/ ReadFails \/ HandleBuffer \/ Finish \/ GiveUp
    \/ Loaded \/ Replay \/ ReplayEnds
    \/ PipeEnded

(* The one thread keeps running; read() need not ever fail. *)
PipeSpec ==
    /\ PipeInit /\ [][PipeNext]_pipeVars
    /\ WF_pipeVars(ReadBuffer \/ HandleBuffer \/ Finish \/ GiveUp \/ Loaded \/ ReplayEnds)

----------------------------------------------------------------------------
(* Properties *)

(* Frames of the capture that are on disk whole and hold a message. *)
WholeMessages == {k \in DOMAIN file : Whole(k) /\ content[k] = "message"}

(* What a snapshot that says "complete" counts is exactly the messages     *)
(* whose frames are whole on disk, wherever the file was cut, however      *)
(* read() split it and whatever lay between them; and none says it after   *)
(* an error or before the last message was applied, an interval of 0 and   *)
(* whatever the division by it does included.  The counts bench_replay     *)
(* keeps itself agree with the engine's and with the malformed frames.     *)
CompleteCountsAll ==
    /\ published.complete => pc = "complete" /\ stage \in {"paused", "exited"}
    /\ published.complete => published.messages_processed = Cardinality(WholeMessages)
    /\ stage = "paused" => published.complete
    /\ program = "bench_replay" /\ stage # "crashed" => messages = messages_processed
    /\ program = "bench_replay" /\ stage = "exited" /\ published.complete =>
          parse_errors = Cardinality({k \in DOMAIN file : Whole(k) /\ content[k] = "malformed"})

(* load_capture keeps the first messages of the capture in their order, no *)
(* malformed or discarded one, none skipped, up to its limit.  When the    *)
(* reader gives up in mid-file it keeps all it has read till then, where   *)
(* its comment says "file missing or unreadable, return empty".  The       *)
(* replay loop never runs past the end of what was kept.                   *)
CaptureIsPrefix ==
    program = "load_capture" =>
        /\ Len(out) <= MaxLoaded
        /\ \A i, j \in DOMAIN out : i < j => out[i] < out[j]
        /\ {out[i] : i \in DOMAIN out} = {k \in WholeMessages : k <= handled}
        /\ stage = "replaying" => idx < Len(out) /\ handled = Len(returned)
        /\ stage = "replaying" /\ pc = "complete" /\ Len(out) < MaxLoaded
              => Len(out) = Cardinality(WholeMessages)

(* Every program ends its loop: paused, exited or crashed. *)
PipelineEnds == <>(stage \in {"paused", "exited", "crashed"})

=============================================================================
