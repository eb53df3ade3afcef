---------------------------- MODULE BillingCamera ----------------------------
(***************************************************************************)
(* process_billing_video: everyone in the picture who does not look like   *)
(* staff is in the queue, from the first such frame until the track is     *)
(* gone.  One frame is one pass of the loop: first the tracks that are     *)
(* gone, then the persons one after the other, in the detector's order.    *)
(***************************************************************************)
EXTENDS VisitorTracker

VARIABLES
  frame,     \* frames processed
  present,   \* tracks of the persons in it: active_ids
  staff,     \* those that look like staff in it
  todo,      \* the persons still to be processed
  inQueue,   \* in_queue: the frame in which each track joined, 0 for none
  depth,     \* queue_depth
  ended      \* whether the video is over

queueVars == <<frame, present, staff, todo, inQueue, depth, ended>>
vars == <<trackerVars, queueVars>>

Queued == {t \in Tracks : inQueue[t] # 0}
Departed == Queued \ present

TypeOK ==
  /\ TrackerTypeOK
  /\ frame \in 0 .. MaxFrames
  /\ present \subseteq Tracks
  /\ staff \subseteq present
  /\ todo \subseteq present
  /\ inQueue \in [Tracks -> 0 .. MaxFrames]
  /\ depth \in Nat
  /\ ended \in BOOLEAN

Init ==
  /\ TrackerInit
  /\ frame = 0
  /\ present = {}
  /\ staff = {}
  /\ todo = {}
  /\ inQueue = [t \in Tracks |-> 0]
  /\ depth = 0
  /\ ended = FALSE

\* The next frame shows the persons S, of whom F look like staff.
ReadFrame(S, F) ==
  /\ ~ended /\ Departed = {} /\ todo = {}
  /\ frame < MaxFrames
  /\ frame' = frame + 1
  /\ present' = S
  /\ staff' = F
  /\ todo' = S
  /\ depth' = Cardinality(Queued \intersect (S \ F))
  /\ UNCHANGED <<trackerVars, inQueue, ended>>

\* (mutation) The last one to leave the queue is not reported.
AbandonUnlessLast(t) ==
  /\ t \in Departed
  /\ inQueue' = [inQueue EXCEPT ![t] = 0]
  /\ IF Queued = {t}
       THEN UNCHANGED <<seqs, events>>
       ELSE Emit("ABANDON", t, NameOf(t), [depth |-> depth, dwell |-> frame - inQueue[t]])
  /\ UNCHANGED <<visitorOf, remembered, exited, frame, present, staff, todo, depth, ended>>

\* A track of the queue is gone: BILLING_QUEUE_ABANDON.
Abandon(t) ==
  /\ t \in Departed
  /\ inQueue' = [inQueue EXCEPT ![t] = 0]
  /\ Emit("ABANDON", t, NameOf(t), [depth |-> depth, dwell |-> frame - inQueue[t]])
  /\ UNCHANGED <<visitorOf, remembered, exited, frame, present, staff, todo, depth, ended>>

\* A person who looks like staff is identified, without a look at the embedding.
SkipStaff(t) ==
  /\ Departed = {}
  /\ t \in todo \intersect staff
  /\ todo' = todo \ {t}
  /\ \E id \in Identities(t, FALSE, FALSE) : GetOrCreate(t, FALSE, id)
  /\ UNCHANGED <<exited, seqs, events, frame, present, staff, inQueue, depth, ended>>

\* (mutation) A track that is in the queue joins it again.
CustomerRejoins(t, embedded) ==
  /\ Departed = {}
  /\ t \in todo \ staff
  /\ todo' = todo \ {t}
  /\ \E id \in Identities(t, FALSE, embedded) :
       /\ GetOrCreate(t, embedded, id)
       /\ inQueue' = [inQueue EXCEPT ![t] = frame]
       /\ Emit("JOIN", t, id.visitor, [depth |-> Cardinality(Queued \union {t}), dwell |-> 0])
  /\ UNCHANGED <<exited, frame, present, staff, depth, ended>>

\* (mutation) The position reported is the depth at the start of the frame plus one.
CustomerFrameDepth(t, embedded) ==
  /\ Departed = {}
  /\ t \in todo \ staff
  /\ todo' = todo \ {t}
  /\ \E id \in Identities(t, FALSE, embedded) :
       /\ GetOrCreate(t, embedded, id)
       /\ IF t \in Queued
            THEN UNCHANGED <<inQueue, seqs, events>>
            ELSE /\ inQueue' = [inQueue EXCEPT ![t] = frame]
                 /\ Emit("JOIN", t, id.visitor, [depth |-> depth + 1, dwell |-> 0])
  /\ UNCHANGED <<exited, frame, present, staff, depth, ended>>

\* A customer is identified and, when not in the queue, joins it:
\* BILLING_QUEUE_JOIN.
Customer(t, embedded) ==
  /\ Departed = {}
  /\ t \in todo \ staff
  /\ todo' = todo \ {t}
  /\ \E id \in Identities(t, FALSE, embedded) :
       /\ GetOrCreate(t, embedded, id)
       /\ IF t \in Queued
            THEN UNCHANGED <<inQueue, seqs, events>>
            ELSE /\ inQueue' = [inQueue EXCEPT ![t] = frame]
                 /\ Emit("JOIN", t, id.visitor, [depth |-> Cardinality(Queued) + 1, dwell |-> 0])
  /\ UNCHANGED <<exited, frame, present, staff, depth, ended>>

\* No further frame can be read: whoever is in the queue stays there.
EndOfVideo ==
  /\ ~ended /\ Departed = {} /\ todo = {}
  /\ ended' = TRUE
  /\ UNCHANGED <<trackerVars, frame, present, staff, todo, inQueue, depth>>

Next ==
  \/ \E S \in SUBSET Tracks : \E F \in SUBSET S : ReadFrame(S, F)
  \/ \E t \in Tracks :
       \/ Abandon(t)
       \/ SkipStaff(t)
       \/ \E embedded \in BOOLEAN : Customer(t, embedded)
  \/ EndOfVideo

Spec == Init /\ [][Next]_vars

-----------------------------------------------------------------------------
(* Properties *)

\* The type invariant; whoever is in the queue was identified, so a leave never
\* names VIS_lost; the depth of the frame counts only people who are still in the
\* queue and in the picture.
BillingInv ==
  /\ TypeOK
  /\ TrackerInv
  /\ \A t \in Queued : Known(t)
  /\ Departed # {} => todo = present
  /\ depth <= Cardinality(Queued \intersect present)

IsJoin(e) == e.type = "JOIN"
IsAbandon(e) == e.type = "ABANDON"

\* Joins without a leave before event i: the depth of the queue that the events
\* themselves tell.
Balance(i) == Earlier(i, IsJoin) - Earlier(i, IsAbandon)

\* The events tell the queue: the tracks in it are those that joined and have
\* not left since, and each track joins and leaves in turn.
QueueIsTold ==
  /\ \A t \in Tracks :
       LET last == {i \in DOMAIN events :
                     /\ events[i].track = t
                     /\ \A j \in i + 1 .. Len(events) : events[j].track # t}
       IN t \in Queued <=> \E i \in last : events[i].type = "JOIN"
  /\ \A i, j \in DOMAIN events :
       i < j /\ events[i].track = events[j].track /\ events[i].type = events[j].type =>
         \E k \in i + 1 .. j - 1 :
           events[k].track = events[i].track /\ events[k].type # events[i].type

\* The depth that a join reports is the depth the events themselves tell, so that
\* a reader of the event stream and the camera agree on the queue.  A leave never
\* reports more people than are left: its depth was taken before the tracks that
\* are gone were removed, but does not count them.
DepthsAreTold ==
  \A i \in DOMAIN events :
    /\ events[i].type = "JOIN" => events[i].data.depth = Balance(i) + 1
    /\ events[i].type = "ABANDON" => events[i].data.depth <= Balance(i) - 1
=============================================================================
