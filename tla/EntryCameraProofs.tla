-------------------------- MODULE EntryCameraProofs --------------------------
(***************************************************************************)
(* Proofs about the line detector and the entry camera that it works for:  *)
(* for any number of tracks and frames, all heights and both directions of *)
(* the line.                                                               *)
(***************************************************************************)
EXTENDS EntryCamera, LineCrossing, VisitorTrackerProofs

(* The line detector by itself: what it reports, frame after frame *)

Report == [entered : SUBSET Tracks, exited : SUBSET Tracks]

\* The invariant with the types of the history, which is as long as the walk.
History ==
  /\ path \in Seq(Frames)
  /\ reports \in Seq(Report)
  /\ justCrossed \subseteq Tracks
  /\ LineInv

\* The history of a frame is what the detector was shown and has returned in it.
LEMMA ShowHistory ==
  ASSUME History, NEW y \in Frames, Show(y)
  PROVE  /\ path' \in Seq(Frames) /\ reports' \in Seq(Report)
         /\ Len(path') = Len(path) + 1 /\ Len(reports') = Len(path) + 1
         /\ \A i \in 1 .. Len(path) : path'[i] = path[i] /\ reports'[i] = reports[i]
         /\ path'[Len(path) + 1] = y
         /\ reports'[Len(path) + 1] = [entered |-> Entered(y), exited |-> Exited(y)]
<1>1. Entered(y) \subseteq Tracks /\ Exited(y) \subseteq Tracks
  BY DEF Entered, Exited, Ready
<1>2. [entered |-> Entered(y), exited |-> Exited(y)] \in Report
  BY <1>1 DEF Report
<1> HIDE DEF Report
<1>3. path' = Append(path, y) /\ path \in Seq(Frames)
  BY DEF Show, History
<1>4. /\ reports' = Append(reports, [entered |-> Entered(y), exited |-> Exited(y)])
      /\ reports \in Seq(Report) /\ Len(reports) = Len(path)
  BY DEF Show, History, LineInv
<1> QED
  BY <1>2, <1>3, <1>4

\* The frames are numbered from 1.
LEMMA Lengths ==
  ASSUME History, NEW y \in Frames, Show(y)
  PROVE  Len(path) \in Nat /\ DOMAIN path = 1 .. Len(path) /\ DOMAIN path' = 1 .. Len(path) + 1
<1>1. path' \in Seq(Frames) /\ Len(path') = Len(path) + 1
  BY ShowHistory
<1>2. path \in Seq(Frames)
  BY DEF History
<1> QED
  BY <1>1, <1>2

\* In the n earlier frames nothing changes, and in the new one a track is reported
\* as the detector says.
LEMMA ShowReports ==
  ASSUME History, NEW y \in Frames, Show(y), NEW t \in Tracks, NEW n, n = Len(path)
  PROVE  /\ n \in Nat /\ Len(path') = n + 1 /\ Len(reports') = n + 1
         /\ \A i \in 1 .. n : Reported(i, t)' <=> Reported(i, t)
         /\ \A i, k \in 1 .. n : Followed(t, i, k)' <=> Followed(t, i, k)
         /\ \A i \in 1 .. n : Followed(t, i, n + 1)' <=> Followed(t, i, n) /\ y[t] # Gone
         /\ \A i \in 1 .. n, k \in 1 .. n + 1 : WasAway(t, i, k)' <=> WasAway(t, i, k)
         /\ \A i \in 1 .. n : WasAway(t, i, n + 2)' <=> WasAway(t, i, n + 1) \/ Far(y[t])
         /\ Reported(n + 1, t)' <=> t \in Entered(y) \union Exited(y)
<1>1. n \in Nat
  BY DEF History
<1>2. /\ \A i \in 1 .. n : path'[i] = path[i] /\ reports'[i] = reports[i]
      /\ path'[n + 1] = y
      /\ reports'[n + 1] = [entered |-> Entered(y), exited |-> Exited(y)]
      /\ Len(path') = n + 1 /\ Len(reports') = n + 1
  BY ShowHistory
<1>3. \A i \in 1 .. n : Reported(i, t)' <=> Reported(i, t)
  BY <1>2 DEF Reported
<1>4. \A i, k \in 1 .. n : Followed(t, i, k)' <=> Followed(t, i, k)
  BY <1>1, <1>2 DEF Followed
<1>5. ASSUME NEW i \in 1 .. n
      PROVE  Followed(t, i, n + 1)' <=> Followed(t, i, n) /\ y[t] # Gone
  <2>1. \A j : j \in i .. n + 1 <=> j \in i .. n \/ j = n + 1
    BY <1>1
  <2>2. \A j \in i .. n : j \in 1 .. n
    BY <1>1
  <2> QED
    BY <1>2, <2>1, <2>2 DEF Followed
<1>6. \A i \in 1 .. n, k \in 1 .. n + 1 : WasAway(t, i, k)' <=> WasAway(t, i, k)
  BY <1>1, <1>2 DEF WasAway
<1>7. ASSUME NEW i \in 1 .. n
      PROVE  WasAway(t, i, n + 2)' <=> WasAway(t, i, n + 1) \/ Far(y[t])
  <2>1. \A j : j \in i + 1 .. n + 2 - 1 <=> j \in i + 1 .. n + 1 - 1 \/ j = n + 1
    BY <1>1
  <2>2. \A j \in i + 1 .. n + 1 - 1 : path'[j] = path[j]
    BY <1>1, <1>2
  <2> QED
    BY <1>2, <2>1, <2>2 DEF WasAway
<1>8. Reported(n + 1, t)' <=> t \in Entered(y) \union Exited(y)
  BY <1>2 DEF Reported
<1> QED
  BY <1>1, <1>2, <1>3, <1>4, <1>5, <1>6, <1>7, <1>8

\* A track that is reported in a new frame was in the frame before, is in this one,
\* and was not held back.
LEMMA ReportedWereReady ==
  ASSUME NEW y \in Frames, NEW t \in Entered(y) \union Exited(y)
  PROVE  t \in Tracks /\ lastY[t] # Gone /\ y[t] # Gone /\ t \notin justCrossed
BY DEF Entered, Exited, Ready

\* After a new frame the detector holds back those that were reported, followed
\* since and not far from the line.
LEMMA HeldBackShow ==
  ASSUME History, NEW y \in Frames, Show(y), NEW t \in Tracks, NEW n, n = Len(path)
  PROVE  t \in justCrossed' <=>
           \E i \in 1 .. n + 1 :
             Reported(i, t)' /\ Followed(t, i, n + 1)' /\ ~WasAway(t, i, n + 2)'
<1>1. /\ n \in Nat
      /\ \A i \in 1 .. n : Reported(i, t)' <=> Reported(i, t)
      /\ \A i \in 1 .. n : Followed(t, i, n + 1)' <=> Followed(t, i, n) /\ y[t] # Gone
      /\ \A i \in 1 .. n : WasAway(t, i, n + 2)' <=> WasAway(t, i, n + 1) \/ Far(y[t])
      /\ Reported(n + 1, t)' <=> t \in Entered(y) \union Exited(y)
  BY ShowReports
<1>2. t \in justCrossed <=>
        \E i \in 1 .. n : Reported(i, t) /\ Followed(t, i, n) /\ ~WasAway(t, i, n + 1)
  BY DEF History, LineInv
<1>3. t \in justCrossed' <=> \/ t \in justCrossed /\ y[t] # Gone /\ ~Far(y[t])
                             \/ t \in Entered(y) \union Exited(y)
  BY DEF Show, Update
<1>4. ASSUME t \in Entered(y) \union Exited(y)
      PROVE  Followed(t, n + 1, n + 1)'
  <2>1. \A j \in n + 1 .. n + 1 : j = n + 1
    BY <1>1
  <2>2. path'[n + 1] = y
    BY ShowHistory
  <2>3. y[t] # Gone
    BY <1>4, ReportedWereReady
  <2> QED
    BY <2>1, <2>2, <2>3 DEF Followed
<1>5. ~WasAway(t, n + 1, n + 2)'
  BY <1>1 DEF WasAway
<1>6. \A i : i \in 1 .. n + 1 <=> i \in 1 .. n \/ i = n + 1
  BY <1>1
<1> QED
  BY <1>1, <1>2, <1>3, <1>4, <1>5, <1>6

\* A new frame keeps the invariant.
LEMMA HistoryShow ==
  ASSUME History, NEW y \in Frames, Show(y)
  PROVE  History'
<1>1. PICK n : n = Len(path)
  OBVIOUS
<1>2. n \in Nat
  BY <1>1 DEF History
<1>3. path' \in Seq(Frames) /\ reports' \in Seq(Report) /\ Len(path') = n + 1 /\ Len(reports') = n + 1
  BY <1>1, ShowHistory
<1>4. path'[n + 1] = y /\ lastY' = y
  BY <1>1, ShowHistory DEF Show, Update
<1>5. justCrossed' \subseteq Tracks
  BY DEF Show, Update, History, Entered, Exited, Ready
<1>6. DOMAIN path' = 1 .. n + 1 /\ n + 1 + 1 = n + 2
  BY <1>2, <1>3
<1>7. \A t \in Tracks :
        t \in justCrossed' <=>
          \E i \in DOMAIN path' :
            Reported(i, t)' /\ Followed(t, i, Len(path))' /\ ~WasAway(t, i, Len(path) + 1)'
  BY <1>1, <1>3, <1>6, HeldBackShow DEF Followed, WasAway
<1>8. LineInv'
  BY <1>3, <1>4, <1>7 DEF LineInv
<1> QED
  BY <1>3, <1>5, <1>8 DEF History

\* A report in the new frame has been preceded by being far, since the last one.
LEMMA DebouncedShow ==
  ASSUME History, Debounced, NEW y \in Frames, Show(y)
  PROVE  Debounced'
<1>1. PICK n : n = Len(path)
  OBVIOUS
<1>2. n \in Nat /\ DOMAIN path = 1 .. n /\ DOMAIN path' = 1 .. n + 1
  BY <1>1, Lengths
<1> SUFFICES ASSUME NEW i \in 1 .. n + 1, NEW k \in 1 .. n + 1, NEW t \in Tracks, i < k,
                    Reported(i, t)', Reported(k, t)', Followed(t, i, k)'
             PROVE  WasAway(t, i, k)'
  BY <1>2 DEF Debounced
<1>3. i \in 1 .. n
  BY <1>2
<1>4. CASE k \in 1 .. n
  BY <1>1, <1>2, <1>3, <1>4, ShowReports DEF Debounced
<1>5. CASE k = n + 1
  <2>1. t \notin justCrossed
    BY <1>1, <1>5, ShowReports, ReportedWereReady
  <2>2. Followed(t, i, n) /\ Reported(i, t)
    BY <1>1, <1>3, <1>5, ShowReports
  <2>3. WasAway(t, i, n + 1)
    BY <1>1, <1>2, <1>3, <2>1, <2>2 DEF History, LineInv
  <2> QED
    BY <1>1, <1>2, <1>3, <1>5, <2>3, ShowReports
<1> QED
  BY <1>2, <1>4, <1>5

\* A crossing in the new frame is reported, unless the track is held back.
LEMMA CrossingsShow ==
  ASSUME History, CrossingsAreReported, NEW y \in Frames, Show(y)
  PROVE  CrossingsAreReported'
<1>1. PICK n : n = Len(path)
  OBVIOUS
<1>2. n \in Nat /\ DOMAIN path = 1 .. n /\ DOMAIN path' = 1 .. n + 1
  BY <1>1, Lengths
<1>3. /\ \A i \in 1 .. n : path'[i] = path[i] /\ reports'[i] = reports[i]
      /\ path'[n + 1] = y
      /\ reports'[n + 1].entered = Entered(y) /\ reports'[n + 1].exited = Exited(y)
  <2>1. reports'[n + 1] = [entered |-> Entered(y), exited |-> Exited(y)]
    BY <1>1, ShowHistory
  <2>2. \A i \in 1 .. n : path'[i] = path[i] /\ reports'[i] = reports[i]
    BY <1>1, ShowHistory
  <2>3. path'[n + 1] = y
    BY <1>1, ShowHistory
  <2> QED
    BY <2>1, <2>2, <2>3
<1> SUFFICES ASSUME NEW k \in 2 .. n + 1, NEW t \in Tracks, Followed(t, k - 1, k)',
                    \A i \in 1 .. k - 1 : Reported(i, t)' /\ Followed(t, i, k)' => WasAway(t, i, k)'
             PROVE  /\ Inwards(path'[k - 1][t], path'[k][t]) <=> t \in reports'[k].entered
                    /\ Outwards(path'[k - 1][t], path'[k][t]) <=> t \in reports'[k].exited
  <2>1. DOMAIN path' \ {1} = 2 .. n + 1
    BY <1>2
  <2> QED
    BY <2>1 DEF CrossingsAreReported, Inwards, Outwards, Up, Down
<1>4. CASE k \in 1 .. n
  <2>1. k - 1 \in 1 .. n /\ k \in DOMAIN path \ {1} /\ \A i \in 1 .. k - 1 : i \in 1 .. n
    BY <1>2, <1>4
  <2>2. Followed(t, k - 1, k)
    BY <1>1, <1>4, <2>1, ShowReports
  <2>3. \A i \in 1 .. k - 1 : Reported(i, t) /\ Followed(t, i, k) => WasAway(t, i, k)
    <3>1. k \in 1 .. n + 1
      BY <1>2
    <3> QED
      BY <1>1, <1>4, <2>1, <3>1, ShowReports
  <2> QED
    BY <1>3, <1>4, <2>1, <2>2, <2>3 DEF CrossingsAreReported
<1>5. CASE k = n + 1
  <2>1. k - 1 = n /\ n \in 1 .. n /\ n + 1 \in n .. n + 1
    BY <1>2, <1>5
  <2>2. lastY = path[n] /\ path'[n] = lastY
    BY <1>1, <1>2, <1>3, <2>1 DEF History, LineInv
  <2>3. lastY[t] # Gone /\ y[t] # Gone
    BY <1>2, <1>3, <1>5, <2>1, <2>2 DEF Followed
  <2>4. ASSUME NEW i \in 1 .. n, Reported(i, t), Followed(t, i, n) PROVE WasAway(t, i, n + 1)
    <3>1. Reported(i, t)' /\ Followed(t, i, n + 1)'
      BY <1>1, <2>3, <2>4, ShowReports
    <3>2. WasAway(t, i, n + 1)'
      BY <1>5, <2>1, <3>1
    <3>3. n + 1 \in 1 .. n + 1
      BY <1>2
    <3>4. \A j \in 1 .. n, m \in 1 .. n + 1 : WasAway(t, j, m)' <=> WasAway(t, j, m)
      BY <1>1, ShowReports
    <3> QED
      BY <3>2, <3>3, <3>4
  <2>5. t \notin justCrossed
    BY <1>1, <1>2, <2>4 DEF History, LineInv
  <2> QED
    BY <1>3, <1>5, <2>1, <2>2, <2>3, <2>5 DEF Entered, Exited, Ready
<1> QED
  BY <1>2, <1>4, <1>5

-----------------------------------------------------------------------------

\* At first nothing was shown.
LEMMA HistoryInit ==
  ASSUME CrossingInit
  PROVE  History /\ Debounced /\ CrossingsAreReported
<1>1. path = <<>> /\ reports = <<>> /\ justCrossed = {} /\ lastY = [t \in Tracks |-> Gone]
  BY DEF CrossingInit, LineInit
<1>2. DOMAIN path = {} /\ Len(path) = 0 /\ Len(reports) = 0
  BY <1>1
<1>3. path \in Seq(Frames) /\ reports \in Seq(Report)
  BY <1>1
<1>4. LineInv
  BY <1>1, <1>2 DEF LineInv, Frames
<1>5. History
  BY <1>1, <1>3, <1>4 DEF History
<1> QED
  BY <1>2, <1>5 DEF Debounced, CrossingsAreReported

\* A step without a frame changes nothing.
LEMMA HistoryStutter ==
  ASSUME History, Debounced, CrossingsAreReported, UNCHANGED crossingVars
  PROVE  History' /\ Debounced' /\ CrossingsAreReported'
<1>1. path' = path /\ reports' = reports /\ lastY' = lastY /\ justCrossed' = justCrossed
  BY DEF crossingVars, lineVars
<1>2. LineInv'
  BY <1>1 DEF History, LineInv, Reported, Followed, WasAway
<1>3. History'
  BY <1>1, <1>2 DEF History
<1>4. Debounced'
  BY <1>1 DEF Debounced, Reported, Followed, WasAway
<1>5. CrossingsAreReported'
  BY <1>1 DEF CrossingsAreReported, Reported, Followed, WasAway, Inwards, Outwards, Up, Down
<1> QED
  BY <1>3, <1>4, <1>5

\* Whatever the detector is shown, what it keeps is what it was shown last and what
\* it has reported and not seen far since; it reports a lingering person once, and
\* every crossing that is not held back.
THEOREM DetectorInvariant == CrossingSpec => [](History /\ Debounced /\ CrossingsAreReported)
<1>1. CrossingInit => History /\ Debounced /\ CrossingsAreReported
  BY HistoryInit
<1>2. History /\ Debounced /\ CrossingsAreReported /\ [CrossingNext]_crossingVars
        => (History /\ Debounced /\ CrossingsAreReported)'
  BY HistoryShow, DebouncedShow, CrossingsShow, HistoryStutter DEF CrossingNext
<1> QED
  BY <1>1, <1>2, PTL DEF CrossingSpec

\* The type invariant, and the tracks that update() holds back.
THEOREM LineInvariant == CrossingSpec => []LineInv
<1>1. History => LineInv
  BY DEF History
<1> QED
  BY <1>1, DetectorInvariant, PTL

\* update() reports a track again only after it was far from the line or lost.
THEOREM CrossingsAreDebounced == CrossingSpec => []Debounced
BY DetectorInvariant, PTL

\* update() reports every crossing of a track that it does not hold back.
THEOREM CrossingsAreNotMissed == CrossingSpec => []CrossingsAreReported
BY DetectorInvariant, PTL

-----------------------------------------------------------------------------
(* The entry camera *)

\* The visitors of the events of a type in T.
Leaving == {events[i].visitor : i \in {j \in DOMAIN events : events[j].type = "EXIT"}}
Seen == {events[i].visitor : i \in DOMAIN events}

EntryInd ==
  /\ TrackerInd
  /\ EntryInv
  /\ justCrossed \subseteq Tracks
  /\ ended \in BOOLEAN
  /\ ReentryWasSeen

\* The line detector reports tracks, none of them twice, and holds them back.
LEMMA Crossings ==
  ASSUME lastY \in Frames, justCrossed \subseteq Tracks, NEW y \in Frames, Update(y)
  PROVE  /\ lastY' \in Frames /\ justCrossed' \subseteq Tracks
         /\ Entered(y) \intersect Exited(y) = {}
         /\ Entered(y) \union Exited(y) \subseteq justCrossed'
<1>1. Entered(y) \subseteq Tracks /\ Exited(y) \subseteq Tracks
  <2>1. Ready(y) \subseteq Tracks
    BY DEF Ready
  <2>2. Entered(y) \subseteq Ready(y) /\ Exited(y) \subseteq Ready(y)
    BY DEF Entered, Exited
  <2>3. QED
    BY <2>1, <2>2
<1>2. ASSUME NEW t \in Entered(y), t \in Exited(y)
      PROVE  FALSE
  <2>1. lastY[t] \in Int /\ y[t] \in Int
    <3>1. t \in Tracks /\ t \in Ready(y)
      BY <1>1, <1>2 DEF Entered
    <3>2. lastY[t] # Gone /\ y[t] # Gone
      BY <3>1 DEF Ready
    <3>3. QED
      BY <3>1, <3>2, HeightsAssumption DEF Frames
  <2>2. Inwards(lastY[t], y[t]) /\ Outwards(lastY[t], y[t])
    BY <1>2 DEF Entered, Exited
  <2>3. QED
    BY <2>1, <2>2 DEF Inwards, Outwards, Down, Up
<1>3. QED
  BY <1>1, <1>2 DEF Update

\* Nobody has entered at the start.
LEMMA EntryStarts == Init => EntryInd
<1> SUFFICES ASSUME Init PROVE EntryInd
  OBVIOUS
<1>1. TrackerInd
  BY TrackerStarts DEF Init
<1>2. events = <<>> /\ DOMAIN events = {} /\ exited = {} /\ remembered = {}
  BY DEF Init, TrackerInit
<1>3. lastY \in Frames /\ justCrossed = {}
  BY DEF Init, LineInit, Frames
<1>4. frame \in 0 .. MaxFrames /\ toEnter = {} /\ toExit = {} /\ ended = FALSE
  BY MaxFramesAssumption DEF Init
<1>5. EntryInv
  BY <1>1, <1>2, <1>3, <1>4 DEF EntryInv, TrackerInd
<1>6. ReentryWasSeen
  BY <1>2 DEF ReentryWasSeen
<1>7. QED
  BY <1>1, <1>3, <1>4, <1>5, <1>6 DEF EntryInd

\* A frame is read.
LEMMA EntryFramePreserves ==
  ASSUME EntryInd, NEW y \in Frames, ReadFrame(y)
  PROVE  EntryInd'
<1>1. /\ frame' = frame + 1 /\ frame < MaxFrames /\ Update(y)
      /\ toEnter' = Entered(y) /\ toExit' = Exited(y) /\ ended' = ended
      /\ UNCHANGED <<visitorOf, remembered, exited, seqs, events>>
  BY DEF ReadFrame, trackerVars
<1>2. TrackerTypeOK
  BY DEF EntryInd, TrackerInd, TrackerInv
<1>3. TrackerInd'
  BY <1>1, <1>2, QuietStep DEF EntryInd, Steady, TrackerTypeOK
<1>4. /\ lastY' \in Frames /\ justCrossed' \subseteq Tracks
      /\ toEnter' \intersect toExit' = {} /\ toEnter' \union toExit' \subseteq justCrossed'
  BY <1>1, Crossings DEF EntryInd, EntryInv
<1>5. frame' \in 0 .. MaxFrames
  BY <1>1, MaxFramesAssumption DEF EntryInd, EntryInv
<1>6. EntryInv' /\ ReentryWasSeen'
  BY <1>1, <1>3, <1>4, <1>5 DEF EntryInd, EntryInv, ReentryWasSeen, TrackerInd
<1>7. QED
  BY <1>1, <1>3, <1>4, <1>6 DEF EntryInd

\* What an event of t does to the events seen, the exits and the re-entries: a
\* re-entry is of a visitor who has an event, which is not one of t.
LEMMA EntryEventAdds ==
  ASSUME EntryInd, NEW t \in Tracks, NEW v, NEW type, NEW data, Emit(type, t, v, data),
         type = "REENTRY" => ~Known(t) /\ v \in Seen
  PROVE  /\ ReentryWasSeen'
         /\ Seen' = Seen \union {v}
         /\ Leaving' = IF type = "EXIT" THEN Leaving \union {v} ELSE Leaving
<1>1. PICK n : n = Len(events)
  OBVIOUS
<1>2. /\ n \in Nat /\ DOMAIN events = 1 .. n /\ DOMAIN events' = 1 .. n + 1
      /\ \A i \in 1 .. n : events'[i] = events[i]
      /\ events'[n + 1].type = type /\ events'[n + 1].track = t /\ events'[n + 1].visitor = v
  BY <1>1, EmitAppends DEF EntryInd, TrackerInd, Recorded
<1>3. \A i \in 1 .. n + 1 : i \in 1 .. n \/ i = n + 1
  BY <1>2
<1>4. Seen' = Seen \union {v}
  BY <1>2, <1>3 DEF Seen
<1>5. Leaving' = IF type = "EXIT" THEN Leaving \union {v} ELSE Leaving
  BY <1>2, <1>3 DEF Leaving
<1>6. ReentryWasSeen'
  <2>1. ASSUME NEW i \in 1 .. n, events'[i].type = "REENTRY"
        PROVE  \E j \in 1 .. i - 1 :
                 events'[j].visitor = events'[i].visitor /\ events'[j].track # events'[i].track
    <3>1. PICK j \in 1 .. i - 1 :
            events[j].visitor = events[i].visitor /\ events[j].track # events[i].track
      BY <1>2, <2>1 DEF EntryInd, ReentryWasSeen
    <3>2. QED
      BY <1>2, <2>1, <3>1
  <2>2. ASSUME type = "REENTRY"
        PROVE  \E j \in 1 .. (n + 1) - 1 : events'[j].visitor = v /\ events'[j].track # t
    <3>1. PICK j \in 1 .. n : events[j].visitor = v
      BY <1>2, <2>2 DEF Seen
    <3>2. events[j].visitor = visitorOf[events[j].track] /\ events[j].visitor \in Tracks
      BY <1>2, <3>1 DEF EntryInd, TrackerInd, TrackerInv, TracksKeepVisitor
    <3>3. events[j].track # t
      BY <2>2, <3>2, NoVisitorAssumption DEF Known
    <3>4. QED
      BY <1>2, <3>1, <3>3
  <2>3. QED
    BY <1>2, <1>3, <2>1, <2>2 DEF ReentryWasSeen
<1>7. QED
  BY <1>4, <1>5, <1>6

\* A track enters.
LEMMA EnterPreserves ==
  ASSUME EntryInd, NEW t \in Tracks, NEW embedded \in BOOLEAN, Enter(t, embedded)
  PROVE  EntryInd'
<1>1. /\ t \in toEnter /\ toEnter' = toEnter \ {t}
      /\ UNCHANGED <<exited, lastY, justCrossed, frame, toExit, ended>>
  BY DEF Enter, lineVars
<1>2. PICK id \in Identities(t, TRUE, embedded) :
        /\ GetOrCreate(t, embedded, id)
        /\ Emit(IF id.reentry THEN "REENTRY" ELSE "ENTRY", t, id.visitor, {})
  BY DEF Enter
<1>3. PICK type : type = IF id.reentry THEN "REENTRY" ELSE "ENTRY"
  OBVIOUS
<1>4. TrackerTypeOK /\ remembered \subseteq Seen /\ exited = Leaving
  BY DEF EntryInd, EntryInv, TrackerInd, TrackerInv, Seen, Leaving
<1>5. /\ id.visitor \in Tracks /\ Steady /\ visitorOf'[t] = id.visitor
      /\ remembered' \subseteq Tracks /\ exited' \subseteq Tracks
  <2>1. exited' \subseteq Tracks
    BY <1>1, <1>4 DEF TrackerTypeOK
  <2>2. QED
    BY <1>2, <1>4, <2>1, Identified
<1>6. Emit(type, t, id.visitor, {}) /\ type # "EXIT"
  BY <1>2, <1>3
<1>7. TrackerInd'
  BY <1>5, <1>6, EmitStep DEF EntryInd
<1>8. type = "REENTRY" => ~Known(t) /\ id.visitor \in Seen
  <2>1. CASE Known(t)
    <3>1. id = [visitor |-> visitorOf[t], reentry |-> FALSE]
      BY <1>2, <2>1 DEF Identities
    <3>2. QED
      BY <1>3, <3>1
  <2>2. CASE ~Known(t)
    <3>1. \/ \E v \in Returning(TRUE) \union {t} : id = [visitor |-> v, reentry |-> FALSE]
          \/ \E v \in Similar(embedded) : id = [visitor |-> v, reentry |-> TRUE]
      BY <1>2, <2>2 DEF Identities
    <3>2. Similar(embedded) \subseteq Seen
      BY <1>4 DEF Similar
    <3>3. CASE \E v \in Returning(TRUE) \union {t} : id = [visitor |-> v, reentry |-> FALSE]
      <4>1. id.reentry = FALSE
        BY <3>3
      <4>2. QED
        BY <1>3, <4>1
    <3>4. CASE \E v \in Similar(embedded) : id = [visitor |-> v, reentry |-> TRUE]
      BY <2>2, <3>2, <3>4
    <3>5. QED
      BY <3>1, <3>3, <3>4
  <2>3. QED
    BY <2>1, <2>2
<1>9. ReentryWasSeen' /\ Seen' = Seen \union {id.visitor} /\ Leaving' = Leaving
  BY <1>6, <1>8, EntryEventAdds
<1>10. remembered' \subseteq Seen' /\ exited' = Leaving'
  BY <1>1, <1>2, <1>4, <1>9 DEF GetOrCreate
<1>11. EntryInv'
  BY <1>1, <1>7, <1>10 DEF EntryInd, EntryInv, TrackerInd, Seen, Leaving
<1>12. QED
  BY <1>1, <1>7, <1>9, <1>11 DEF EntryInd

\* A track leaves.
LEMMA ExitPreserves ==
  ASSUME EntryInd, NEW t \in Tracks, NEW embedded \in BOOLEAN, Exit(t, embedded)
  PROVE  EntryInd'
<1>1. /\ t \in toExit /\ toExit' = toExit \ {t}
      /\ UNCHANGED <<lastY, justCrossed, frame, toEnter, ended>>
  BY DEF Exit, lineVars
<1>2. PICK id \in Identities(t, FALSE, embedded) :
        /\ GetOrCreate(t, embedded, id)
        /\ Emit("EXIT", t, id.visitor, {})
        /\ MarkExit(id.visitor)
  BY DEF Exit
<1>3. TrackerTypeOK /\ remembered \subseteq Seen /\ exited = Leaving
  BY DEF EntryInd, EntryInv, TrackerInd, TrackerInv, Seen, Leaving
<1>4. /\ id.visitor \in Tracks /\ Steady /\ visitorOf'[t] = id.visitor
      /\ remembered' \subseteq Tracks
  BY <1>2, <1>3, Identified
<1>5. exited' = exited \union {id.visitor} /\ exited' \subseteq Tracks
  BY <1>2, <1>3, <1>4 DEF MarkExit, TrackerTypeOK
<1>6. TrackerInd'
  BY <1>2, <1>4, <1>5, EmitStep DEF EntryInd
<1>7. /\ ReentryWasSeen' /\ Seen' = Seen \union {id.visitor}
      /\ Leaving' = Leaving \union {id.visitor}
  BY <1>2, EntryEventAdds
<1>8. remembered' \subseteq Seen' /\ exited' = Leaving'
  BY <1>2, <1>3, <1>5, <1>7 DEF GetOrCreate
<1>9. EntryInv'
  BY <1>1, <1>6, <1>8 DEF EntryInd, EntryInv, TrackerInd, Seen, Leaving
<1>10. QED
  BY <1>1, <1>6, <1>7, <1>9 DEF EntryInd

\* The video is over, or nothing happens.
LEMMA EntryEndPreserves ==
  ASSUME EntryInd, EndOfVideo \/ UNCHANGED vars
  PROVE  EntryInd'
<1>1. /\ UNCHANGED <<visitorOf, remembered, exited, seqs, events>>
      /\ UNCHANGED <<lastY, justCrossed, frame, toEnter, toExit>> /\ ended' \in BOOLEAN
  BY DEF EndOfVideo, vars, lineVars, trackerVars, cameraVars, EntryInd
<1>2. TrackerInd'
  BY <1>1, QuietStep DEF EntryInd, TrackerInd, TrackerInv, Steady, TrackerTypeOK
<1>3. EntryInv' /\ ReentryWasSeen'
  BY <1>1, <1>2 DEF EntryInd, EntryInv, ReentryWasSeen, TrackerInd
<1>4. QED
  BY <1>1, <1>2, <1>3 DEF EntryInd

\* The invariant of the entry camera.
THEOREM EntryInvariant == Spec => []EntryInd
<1>1. EntryInd /\ [Next]_vars => EntryInd'
  BY EntryFramePreserves, EnterPreserves, ExitPreserves, EntryEndPreserves DEF Next
<1>2. QED
  BY <1>1, EntryStarts, PTL DEF Spec

-----------------------------------------------------------------------------
(* The properties *)

\* The type invariant; the events of a visitor are numbered without a gap, and the
\* exits and looks that are remembered have their events.
THEOREM EntryIsConsistent == Spec => []EntryInv
<1>1. EntryInd => EntryInv
  BY DEF EntryInd
<1>2. QED
  BY <1>1, EntryInvariant, PTL

\* REENTRY is of a visitor who has an event as another track.
THEOREM ReentriesWereSeen == Spec => []ReentryWasSeen
<1>1. EntryInd => ReentryWasSeen
  BY DEF EntryInd
<1>2. QED
  BY <1>1, EntryInvariant, PTL
=============================================================================
