----------------------------- MODULE EntryCamera -----------------------------
(***************************************************************************)
(* process_entry_video: the tracks that the line detector reports are      *)
(* identified and become ENTRY, REENTRY and EXIT events, those that enter  *)
(* first.  One frame is one pass of the loop.                              *)
(***************************************************************************)
EXTENDS VisitorTracker, LineDetector

VARIABLES
  frame,                \* frames processed
  toEnter,              \* entered_ids that are still to be processed
  toExit,               \* exited_ids that are still to be processed
  ended                 \* whether the video is over

cameraVars == <<lineVars, frame, toEnter, toExit, ended>>
vars == <<trackerVars, cameraVars>>

Init ==
  /\ TrackerInit
  /\ LineInit
  /\ frame = 0
  /\ toEnter = {}
  /\ toExit = {}
  /\ ended = FALSE

\* The next frame shows the persons at heights y.
ReadFrame(y) ==
  /\ ~ended /\ toEnter = {} /\ toExit = {}
  /\ frame < MaxFrames
  /\ frame' = frame + 1
  /\ Update(y)
  /\ toEnter' = Entered(y)
  /\ toExit' = Exited(y)
  /\ UNCHANGED <<trackerVars, ended>>

\* (mutation) Every entry of a known visitor is called a re-entry, the visitor's
\* first event or not.
EnterByName(t, embedded) ==
  /\ t \in toEnter
  /\ toEnter' = toEnter \ {t}
  /\ \E id \in Identities(t, TRUE, embedded) :
       /\ GetOrCreate(t, embedded, id)
       /\ Emit(IF Known(t) \/ id.reentry THEN "REENTRY" ELSE "ENTRY", t, id.visitor, {})
  /\ UNCHANGED <<exited, lineVars, frame, toExit, ended>>

\* A track enters: it is identified by its position and its look.
Enter(t, embedded) ==
  /\ t \in toEnter
  /\ toEnter' = toEnter \ {t}
  /\ \E id \in Identities(t, TRUE, embedded) :
       /\ GetOrCreate(t, embedded, id)
       /\ Emit(IF id.reentry THEN "REENTRY" ELSE "ENTRY", t, id.visitor, {})
  /\ UNCHANGED <<exited, lineVars, frame, toExit, ended>>

\* (mutation) mark_exit comes before the track is identified.
ExitMarkedFirst(t, embedded) ==
  /\ toEnter = {}
  /\ t \in toExit
  /\ toExit' = toExit \ {t}
  /\ exited' = IF Known(t) THEN exited \union {visitorOf[t]} ELSE exited \union {t}
  /\ \E id \in Identities(t, FALSE, embedded) :
       /\ GetOrCreate(t, embedded, id)
       /\ Emit("EXIT", t, id.visitor, {})
  /\ UNCHANGED <<lineVars, frame, toEnter, ended>>

\* A track leaves: it is identified by its look, if it is not known, and its exit
\* is remembered.
Exit(t, embedded) ==
  /\ toEnter = {}
  /\ t \in toExit
  /\ toExit' = toExit \ {t}
  /\ \E id \in Identities(t, FALSE, embedded) :
       /\ GetOrCreate(t, embedded, id)
       /\ Emit("EXIT", t, id.visitor, {})
       /\ MarkExit(id.visitor)
  /\ UNCHANGED <<lineVars, frame, toEnter, ended>>

\* No further frame can be read.
EndOfVideo ==
  /\ ~ended /\ toEnter = {} /\ toExit = {}
  /\ ended' = TRUE
  /\ UNCHANGED <<trackerVars, lineVars, frame, toEnter, toExit>>

Next ==
  \/ \E y \in Frames : ReadFrame(y)
  \/ \E t \in Tracks, embedded \in BOOLEAN : Enter(t, embedded) \/ Exit(t, embedded)
  \/ EndOfVideo

Spec == Init /\ [][Next]_vars

-----------------------------------------------------------------------------
(* Properties *)

\* The type invariant; the events of a visitor are numbered without a gap, also
\* when several tracks are taken for that visitor, and a track keeps its visitor
\* (TrackerInv); whoever is remembered as having left has an EXIT, and
\* whoever's look is remembered has an event; no track both enters and leaves in
\* this frame, and those that do either are among the ones the line detector holds
\* back.
EntryInv ==
  /\ TrackerInv
  /\ lastY \in Frames
  /\ frame \in 0 .. MaxFrames
  /\ exited = {events[i].visitor : i \in {j \in DOMAIN events : events[j].type = "EXIT"}}
  /\ remembered \subseteq {events[i].visitor : i \in DOMAIN events}
  /\ toEnter \intersect toExit = {}
  /\ toEnter \union toExit \subseteq justCrossed

\* A re-entry is a visitor that was seen before, as another track.
ReentryWasSeen ==
  \A i \in DOMAIN events : events[i].type = "REENTRY" =>
    \E j \in 1 .. i - 1 :
      events[j].visitor = events[i].visitor /\ events[j].track # events[i].track
=============================================================================
