------------------------------ MODULE ZoneCamera ------------------------------
(***************************************************************************)
(* process_zone_video: everyone in the picture is in the zone, from the    *)
(* first frame that shows the track until the first that does not.  One    *)
(* frame is one pass of the loop: first the tracks that are gone, then the *)
(* persons one after the other, in the detector's order.                   *)
(***************************************************************************)
EXTENDS VisitorTracker

\* Times are in ticks, some fraction of a second that all of these are multiples of.
CONSTANTS
  SkipFrames,      \* SKIP_FRAMES: one frame of so many is processed
  FrameTime,       \* the time of one frame of the video: 1 / fps
  ClipStart,       \* clip_start, from a whole second
  Microsecond,     \* to which the timestamp of a frame is rounded
  Precision,       \* of the float that ts.timestamp() is
  DwellInterval    \* ZONE_DWELL_EMIT_INTERVAL_S, in seconds

ASSUME SkipFramesAssumption == SkipFrames \in Nat \ {0}
ASSUME FrameTimeAssumption == FrameTime \in Nat
ASSUME ClipStartAssumption == ClipStart \in Nat
ASSUME MicrosecondAssumption == Microsecond \in Nat \ {0}
ASSUME PrecisionAssumption == Precision \in Nat \ {0}
ASSUME DwellIntervalAssumption == DwellInterval \in Nat \ {0}

VARIABLES
  frame,       \* frame_num: the frames of the video read so far
  present,     \* tracks of the persons in the last one: active_ids
  todo,        \* the persons still to be processed
  inZone,      \* the keys of in_zone
  enterAt,     \* enter_epoch of each of them
  lastDwell,   \* last_dwell of each of them
  ended        \* whether the video is over

zoneVars == <<frame, present, todo, inZone, enterAt, lastDwell, ended>>
vars == <<trackerVars, zoneVars>>

Millisecond == 1000 * Microsecond
Second == 1000 * Millisecond
Interval == DwellInterval * Second

\* Time n without the fraction of a grain, and rounded to a grain: half of one is
\* rounded up, whatever its neighbours are.
Whole(n, grain) == (n \div grain) * grain
Nearest(n, grain) == Whole(n + grain \div 2, grain)

\* frame_timestamp: elapsed_s, which the timedelta rounds, after the start of the clip.
Elapsed(n) == n * SkipFrames * FrameTime
FrameTimestamp(n) == ClipStart + Nearest(Elapsed(n), Microsecond)

ts == FrameTimestamp(frame)
now_epoch == Nearest(ts, Precision)

\* int((now_epoch - enter_epoch) * 1000)
DwellMs(t) == Whole(now_epoch - enterAt[t], Millisecond)

Departed == inZone \ present

TypeOK ==
  /\ TrackerTypeOK
  /\ frame \in 0 .. MaxFrames
  /\ present \subseteq Tracks
  /\ todo \subseteq present
  /\ inZone \subseteq Tracks
  /\ enterAt \in [Tracks -> Nat]
  /\ lastDwell \in [Tracks -> Nat]
  /\ ended \in BOOLEAN

Init ==
  /\ TrackerInit
  /\ frame = 0
  /\ present = {}
  /\ todo = {}
  /\ inZone = {}
  /\ enterAt = [t \in Tracks |-> 0]
  /\ lastDwell = [t \in Tracks |-> 0]
  /\ ended = FALSE

\* The timestamp of an event is formatted without fractions of a second.
ZoneEvent(type, t, v, dwell) ==
  Emit(type, t, v, [frame |-> frame, at |-> Whole(ts, Second), dwell |-> dwell])

\* SkipFrames - 1 frames are skipped; the next one shows the persons S.
ReadFrame(S) ==
  /\ ~ended /\ Departed = {} /\ todo = {}
  /\ frame + SkipFrames <= MaxFrames
  /\ frame' = frame + SkipFrames
  /\ present' = S
  /\ todo' = S
  /\ UNCHANGED <<trackerVars, inZone, enterAt, lastDwell, ended>>

\* (mutation) The track is looked up in in_zone and not taken out.
ZoneExitKeeps(t) ==
  /\ t \in Departed
  /\ ZoneEvent("EXIT", t, NameOf(t), DwellMs(t))
  /\ UNCHANGED <<visitorOf, remembered, exited, zoneVars>>

\* A track of the zone is gone: ZONE_EXIT.
ZoneExit(t) ==
  /\ t \in Departed
  /\ inZone' = inZone \ {t}
  /\ ZoneEvent("EXIT", t, NameOf(t), DwellMs(t))
  /\ UNCHANGED <<visitorOf, remembered, exited, frame, present, todo, enterAt, lastDwell, ended>>

\* A person is identified and enters the zone: ZONE_ENTER.
ZoneEnter(t, embedded) ==
  /\ Departed = {}
  /\ t \in todo \ inZone
  /\ todo' = todo \ {t}
  /\ inZone' = inZone \union {t}
  /\ enterAt' = [enterAt EXCEPT ![t] = now_epoch]
  /\ lastDwell' = [lastDwell EXCEPT ![t] = now_epoch]
  /\ \E id \in Identities(t, FALSE, embedded) :
       /\ GetOrCreate(t, embedded, id)
       /\ ZoneEvent("ENTER", t, id.visitor, 0)
  /\ UNCHANGED <<exited, frame, present, ended>>

\* (mutation) A dwell event restarts the stay.
ZoneStayRestarts(t, embedded) ==
  /\ Departed = {}
  /\ t \in todo \intersect inZone
  /\ todo' = todo \ {t}
  /\ \E id \in Identities(t, FALSE, embedded) :
       /\ GetOrCreate(t, embedded, id)
       /\ IF now_epoch - lastDwell[t] >= Interval
            THEN /\ ZoneEvent("DWELL", t, id.visitor, DwellMs(t))
                 /\ lastDwell' = [lastDwell EXCEPT ![t] = now_epoch]
                 /\ enterAt' = [enterAt EXCEPT ![t] = now_epoch]
            ELSE UNCHANGED <<seqs, events, lastDwell, enterAt>>
  /\ UNCHANGED <<exited, frame, present, inZone, ended>>

\* (mutation) A dwell event does not restart the interval.
ZoneStayKeepsInterval(t, embedded) ==
  /\ Departed = {}
  /\ t \in todo \intersect inZone
  /\ todo' = todo \ {t}
  /\ \E id \in Identities(t, FALSE, embedded) :
       /\ GetOrCreate(t, embedded, id)
       /\ IF now_epoch - lastDwell[t] >= Interval
            THEN ZoneEvent("DWELL", t, id.visitor, DwellMs(t))
            ELSE UNCHANGED <<seqs, events>>
  /\ UNCHANGED <<exited, frame, present, inZone, enterAt, lastDwell, ended>>

\* A person stays in the zone; ZONE_DWELL is due when an interval is over.
ZoneStay(t, embedded) ==
  /\ Departed = {}
  /\ t \in todo \intersect inZone
  /\ todo' = todo \ {t}
  /\ \E id \in Identities(t, FALSE, embedded) :
       /\ GetOrCreate(t, embedded, id)
       /\ IF now_epoch - lastDwell[t] >= Interval
            THEN /\ ZoneEvent("DWELL", t, id.visitor, DwellMs(t))
                 /\ lastDwell' = [lastDwell EXCEPT ![t] = now_epoch]
            ELSE UNCHANGED <<seqs, events, lastDwell>>
  /\ UNCHANGED <<exited, frame, present, inZone, enterAt, ended>>

\* No further frame can be read: whoever is in the zone stays there.
EndOfVideo ==
  /\ ~ended /\ Departed = {} /\ todo = {}
  /\ ended' = TRUE
  /\ UNCHANGED <<trackerVars, frame, present, todo, inZone, enterAt, lastDwell>>

Next ==
  \/ \E S \in SUBSET Tracks : ReadFrame(S)
  \/ \E t \in Tracks :
       \/ ZoneExit(t)
       \/ \E embedded \in BOOLEAN : ZoneEnter(t, embedded) \/ ZoneStay(t, embedded)
  \/ EndOfVideo

Spec == Init /\ [][Next]_vars

-----------------------------------------------------------------------------
(* Properties *)

\* The type invariant; whoever is in the zone was identified and entered in the
\* past, and no dwell event is overdue once the persons of a frame are processed.
ZoneInv ==
  /\ TypeOK
  /\ TrackerInv
  /\ \A t \in inZone : Known(t) /\ enterAt[t] <= lastDwell[t] /\ lastDwell[t] <= now_epoch
  /\ Departed # {} => todo = present
  /\ \A t \in inZone \ (Departed \union todo) : now_epoch - lastDwell[t] < Interval

\* The event of the same track before event i, if there is one.
Previous(i) ==
  {j \in 1 .. i - 1 : /\ events[j].track = events[i].track
                      /\ \A k \in j + 1 .. i - 1 : events[k].track # events[i].track}

\* The events of a track are stays, one after the other: ENTER, then DWELLs, then
\* EXIT; and the tracks in the zone are those whose last stay is open.
StaysAreTold ==
  /\ \A i \in DOMAIN events :
       events[i].type = "ENTER" <=> \A j \in Previous(i) : events[j].type = "EXIT"
  /\ \A t \in Tracks :
       LET last == {i \in DOMAIN events :
                     /\ events[i].track = t
                     /\ \A j \in i + 1 .. Len(events) : events[j].track # t}
       IN t \in inZone <=> \E i \in last : events[i].type # "EXIT"

\* The dwell times of a stay agree with its timestamps, but for what is cut off and
\* rounded of them: from one event of the stay to the next the dwell grows by the time
\* between them.  Over the whole video timestamps never go back.
DwellMatchesTimestamps ==
  /\ \A i \in DOMAIN events : events[i].type # "ENTER" =>
       \A j \in Previous(i) :
         LET dwell == events[i].data.dwell - events[j].data.dwell
             time == events[i].data.at - events[j].data.at
             slack == Second + Millisecond + Precision
         IN dwell < time + slack /\ time < dwell + slack
  /\ \A i, j \in DOMAIN events : i < j => events[i].data.at <= events[j].data.at

\* The time from one processed frame to the next, and what rounding may add to it.
FrameStep == Elapsed(SkipFrames) + Microsecond + Precision

\* ZONE_DWELL comes every DwellInterval while the visitor stays: not sooner after
\* the previous event of the stay, and one processed frame later at the latest.
DwellIsPeriodic ==
  \A i \in DOMAIN events : events[i].type # "ENTER" =>
    \A j \in Previous(i) :
      LET gap == events[i].data.dwell - events[j].data.dwell
      IN /\ gap < Interval + FrameStep + Millisecond
         /\ events[i].type = "DWELL" => gap >= Interval

\* What README.md says of an event's timestamp, to the second: when the event
\* occurred in the video.
TimestampIsVideoTime ==
  \A i \in DOMAIN events :
    LET elapsed == events[i].data.frame * FrameTime
    IN events[i].data.at = Whole(ClipStart + Nearest(elapsed, Microsecond), Second)
=============================================================================
