---------------------------- MODULE LineCrossing ----------------------------
(***************************************************************************)
(* The line detector and all it was shown and has reported, frame by       *)
(* frame.                                                                  *)
(***************************************************************************)
EXTENDS LineDetector, Sequences

VARIABLES
  path,     \* the frames shown
  reports   \* what update() returned for each

crossingVars == <<lineVars, path, reports>>

CrossingInit ==
  /\ LineInit
  /\ path = <<>>
  /\ reports = <<>>

Show(y) ==
  /\ Len(path) < MaxFrames
  /\ Update(y)
  /\ path' = Append(path, y)
  /\ reports' = Append(reports, [entered |-> Entered(y), exited |-> Exited(y)])

CrossingNext == \E y \in Frames : Show(y)

CrossingSpec == CrossingInit /\ [][CrossingNext]_crossingVars

-----------------------------------------------------------------------------
(* Properties *)

Reported(i, t) == t \in reports[i].entered \union reports[i].exited

\* t was in every frame from i to k.
Followed(t, i, k) == \A j \in i .. k : path[j][t] # Gone

\* t has been far from the line between its report in frame i and frame k.
WasAway(t, i, k) == \E j \in i + 1 .. k - 1 : Far(path[j][t])

\* The type invariant; what the detector keeps is about the tracks of the last
\* frame, and it holds back those that were reported and not far since.
LineInv ==
  /\ lastY \in Frames
  /\ Len(reports) = Len(path)
  /\ path # <<>> => lastY = path[Len(path)]
  /\ \A t \in Tracks :
       t \in justCrossed <=>
         \E i \in DOMAIN path : /\ Reported(i, t) /\ Followed(t, i, Len(path))
                                /\ ~WasAway(t, i, Len(path) + 1)

\* A person who lingers on the line is reported once: between two reports of a
\* track that is followed all the time it has been far from the line.
Debounced ==
  \A i, k \in DOMAIN path : \A t \in Tracks :
    i < k /\ Reported(i, t) /\ Reported(k, t) /\ Followed(t, i, k) => WasAway(t, i, k)

\* A person who crosses the line is reported, with the right direction, if it has
\* been far from the line or lost since its last report.
CrossingsAreReported ==
  \A k \in DOMAIN path \ {1} : \A t \in Tracks :
    /\ Followed(t, k - 1, k)
    /\ \A i \in 1 .. k - 1 : Reported(i, t) /\ Followed(t, i, k) => WasAway(t, i, k)
    => /\ Inwards(path[k - 1][t], path[k][t]) <=> t \in reports[k].entered
       /\ Outwards(path[k - 1][t], path[k][t]) <=> t \in reports[k].exited
=============================================================================
