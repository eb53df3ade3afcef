---------------------------- MODULE LineDetector ----------------------------
(***************************************************************************)
(* LineCrossingDetector: which tracks cross the entry line from one        *)
(* processed frame to the next.  A track that has crossed is not heard of  *)
(* again until it has been seen far from the line, or was lost.            *)
(***************************************************************************)
EXTENDS Detections, Integers

CONSTANTS
  Heights,   \* pixels by which a person's centre is below the line
  Gone,      \* no height: the track is not in the picture
  Band,      \* the distance from the line that counts as far: 30
  Invert     \* invert_crossing: upwards is into the store

ASSUME HeightsAssumption == Heights \subseteq Int /\ Gone \notin Int
ASSUME BandAssumption == Band \in Nat
ASSUME InvertAssumption == Invert \in BOOLEAN

VARIABLES
  lastY,         \* _last_y
  justCrossed    \* _emitted_this_cross

lineVars == <<lastY, justCrossed>>

\* What a frame shows: the height of each track in it.
Frames == [Tracks -> Heights \union {Gone}]

LineInit ==
  /\ lastY = [t \in Tracks |-> Gone]
  /\ justCrossed = {}

Far(h) == h > Band \/ h < -Band

Down(from, to) == from < 0 /\ 0 <= to
Up(from, to) == from > 0 /\ 0 >= to
Inwards(from, to) == IF Invert THEN Up(from, to) ELSE Down(from, to)
Outwards(from, to) == IF Invert THEN Down(from, to) ELSE Up(from, to)

\* (mutation) A track that has just crossed is not held back.
ReadyAlways(y) == {t \in Tracks : lastY[t] # Gone /\ y[t] # Gone}

\* The tracks of frame y that were in the one before and may cross.
Ready(y) == {t \in Tracks : lastY[t] # Gone /\ y[t] # Gone} \ justCrossed

Entered(y) == {t \in Ready(y) : Inwards(lastY[t], y[t])}
Exited(y) == {t \in Ready(y) : Outwards(lastY[t], y[t])}

\* (mutation) A track that is lost is not forgotten.
UpdateKeepsLost(y) ==
  /\ lastY' = [t \in Tracks |-> IF y[t] = Gone THEN lastY[t] ELSE y[t]]
  /\ justCrossed' = {t \in justCrossed : y[t] = Gone \/ ~Far(y[t])}
                      \union Entered(y) \union Exited(y)

\* update(): what is kept from one frame to the next.
Update(y) ==
  /\ lastY' = y
  /\ justCrossed' = {t \in justCrossed : y[t] # Gone /\ ~Far(y[t])}
                      \union Entered(y) \union Exited(y)
=============================================================================
