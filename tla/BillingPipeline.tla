--------------------------- MODULE BillingPipeline ---------------------------
(***************************************************************************)
(* process_video and the batch runner around the billing camera: a run     *)
(* makes a tracker and an emitter of its own, takes the video frame by     *)
(* frame, posts the emitter's buffer whenever it is full and once more in  *)
(* the finally clause, whether the video ended or an exception was raised. *)
(* The runner may be started again for the same video; then everything is  *)
(* emitted anew, under new ids.                                            *)
(*                                                                         *)
(* The camera is BillingCamera; the emitter, the network and the API are   *)
(* what EventDelivery promises of them, which module Delivery implements.  *)
(***************************************************************************)
EXTENDS BillingCamera, Integers, FiniteSetsExt

CONSTANTS
  BatchSize,   \* BATCH_SIZE
  MaxRuns,     \* bound on the runs of the video
  MaxLength    \* bound on the frames of all runs

ASSUME BatchSizeAssumption == BatchSize \in Nat \ {0}
ASSUME RunsAssumption == {MaxRuns, MaxLength} \subseteq Nat

VARIABLES
  known,      \* the events emitted, each by its run and its number in the run
  pending,    \* those in the emitter's _buffer, in order
  sealed,     \* the batches that were posted
  delivered,  \* the events in the database
  failures,   \* _total_errors
  stage,      \* how far process_video has come
  past        \* history: the runs that are over

deliveryVars == <<known, pending, sealed, delivered, failures>>
pipelineVars == <<vars, deliveryVars, stage, past>>

Promise == INSTANCE EventDelivery WITH Events <- Nat \X Nat

run == IF stage = "flushing" THEN Len(past) ELSE Len(past) + 1
Length == frame + MapThenSumSet(LAMBDA k : past[k].frames, DOMAIN past)

PipelineInit ==
  /\ Init
  /\ Promise!Init
  /\ stage = "idle"
  /\ past = <<>>

-----------------------------------------------------------------------------
(* The video *)

\* The video is opened; the tracker, the emitter and the camera's own variables
\* are as in PipelineInit.
Open ==
  /\ stage = "idle"
  /\ run <= MaxRuns
  /\ stage' = "running"
  /\ UNCHANGED <<vars, deliveryVars, past>>

\* The loop goes on until an event fills the buffer.
Process ==
  /\ stage = "running"
  /\ Len(pending) < BatchSize
  /\ Length < MaxLength \/ frame' = frame
  /\ ~ended
  /\ Next
  /\ IF events' = events
       THEN UNCHANGED deliveryVars
       ELSE Promise!Generate(<<run, Len(events')>>)
  /\ UNCHANGED <<stage, past>>

\* The camera's variables are gone.
Forget ==
  /\ visitorOf' = [t \in Tracks |-> NoVisitor]
  /\ remembered' = {}
  /\ exited' = {}
  /\ seqs' = [v \in Visitors |-> 0]
  /\ events' = <<>>
  /\ frame' = 0
  /\ present' = {}
  /\ staff' = {}
  /\ todo' = {}
  /\ inQueue' = [t \in Tracks |-> 0]
  /\ depth' = 0
  /\ ended' = FALSE

\* What a run leaves: its events, how many people it found in the queue at its
\* end, the errors counted so far, and what a killed runner had in its buffer.
Result ==
  [types |-> [i \in DOMAIN events |-> events[i].type], frames |-> frame,
   left |-> Cardinality(Queued), failures |-> 0, lost |-> 0]

\* (mutation) An exception leaves without the flush of the finally clause.
LeaveLoopWithoutFlush ==
  /\ stage = "running"
  /\ stage' = "flushing"
  /\ past' = Append(past, Result)
  /\ pending' = IF ended THEN pending ELSE <<>>
  /\ Forget
  /\ UNCHANGED <<known, sealed, delivered, failures>>

\* The loop is left, because the video is over or by an exception.
LeaveLoop ==
  /\ stage = "running"
  /\ stage' = "flushing"
  /\ past' = Append(past, Result)
  /\ Forget
  /\ UNCHANGED deliveryVars

\* The run is over.
Finish(result) ==
  /\ stage' = "idle"
  /\ past' = Append(SubSeq(past, 1, run - 1),
       [result EXCEPT !.failures = failures, !.lost = Len(pending)])
  /\ pending' = <<>>
  /\ failures' = 0
  /\ Forget
  /\ UNCHANGED <<known, sealed, delivered>>

Close ==
  /\ stage = "flushing"
  /\ pending = <<>>
  /\ Finish(past[run])

\* The runner is killed, and its buffer with it.
Kill ==
  /\ stage # "idle"
  /\ Finish(IF stage = "running" THEN Result ELSE past[run])

-----------------------------------------------------------------------------
(* The buffer *)

Posting ==
  /\ stage # "idle"
  /\ pending # <<>>
  /\ Len(pending) = BatchSize \/ stage = "flushing"

Post ==
  /\ Posting
  /\ Promise!Seal
  /\ UNCHANGED <<vars, stage, past>>

\* A batch that was posted is committed, whatever the runner has done since.
Store ==
  /\ \E B \in sealed : Promise!Deliver(B)
  /\ UNCHANGED <<vars, stage, past>>

Settle ==
  /\ Posting
  /\ Promise!Settle
  /\ UNCHANGED <<vars, stage, past>>

\* (mutation) A batch that is given up is not counted.
GiveUpUncounted ==
  /\ Posting
  /\ Promise!Elements(pending) \in sealed
  /\ pending' = <<>>
  /\ UNCHANGED <<vars, known, sealed, delivered, failures, stage, past>>

GiveUp ==
  /\ Posting
  /\ Promise!GiveUp
  /\ UNCHANGED <<vars, stage, past>>

PipelineNext ==
  \/ Open \/ Process \/ LeaveLoop \/ Close \/ Kill
  \/ Post \/ Store \/ Settle \/ GiveUp

PipelineSpec == PipelineInit /\ [][PipelineNext]_pipelineVars

-----------------------------------------------------------------------------
(* Properties *)

\* The run that is going on, as far as it has come, and those before it.
Current ==
  [IF stage = "flushing" THEN past[run] ELSE Result EXCEPT
     !.failures = failures, !.lost = Len(pending)]
Runs == [k \in 1 .. run |-> IF k = run THEN Current ELSE past[k]]

Missing(k) == {e \in known \ delivered : e[1] = k}

\* The camera's invariant; the buffer is the latest events of the run, no more than a
\* batch; and the events of a run that are not in the database are counted as its
\* errors, or were in its buffer when it was killed, or are there still.
PipelineInv ==
  /\ BillingInv
  /\ stage \in {"idle", "running", "flushing"}
  /\ stage # "running" => events = <<>>
  /\ stage = "idle" => pending = <<>> /\ failures = 0
  /\ known = UNION {{<<k, i>> : i \in DOMAIN Runs[k].types} : k \in 1 .. run}
  /\ delivered \subseteq UNION sealed /\ UNION sealed \subseteq known
  /\ Len(pending) <= BatchSize
  /\ \A i \in DOMAIN pending : pending[i] = <<run, Len(Current.types) - Len(pending) + i>>
  /\ \A k \in 1 .. run : Cardinality(Missing(k)) <= Runs[k].failures + Runs[k].lost

\* Events reach the database in the order of the run, but for those counted as
\* errors: when an event is stored, no more of the earlier ones of its run are
\* absent than its run has counted.  So a leave stands in the table without its
\* join only if the runner reported an error.
GapsAreCounted ==
  \A e \in delivered :
    Cardinality({x \in Missing(e[1]) : x[2] < e[2]}) <= Runs[e[1]].failures

\* get_store_queue_depth counts the joins and leaves of the whole table.
Stored(type) == {e \in delivered : Runs[e[1]].types[e[2]] = type}
QueueDepth == Cardinality(Stored("JOIN")) - Cardinality(Stored("ABANDON"))
ReportedDepth == IF QueueDepth > 0 THEN QueueDepth ELSE 0

\* The depth of the queue that the store is told is the people in the queue now,
\* and everyone whom the end of a run, or of an earlier run of the same video,
\* found in it; it is off by no more than the events that were counted as errors
\* or lost with a buffer, or are still in it.
DepthIsExplained ==
  LET total(f) == MapThenSumSet(LAMBDA k : Runs[k][f], 1 .. run)
      off == total("failures") + total("lost")
  IN ReportedDepth - total("left") \in -off .. off
=============================================================================
