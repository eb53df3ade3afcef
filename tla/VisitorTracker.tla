--------------------------- MODULE VisitorTracker ---------------------------
(***************************************************************************)
(* VisitorTracker: which visitor a track of the detector stands for.  A    *)
(* track is named once and for all when it is first asked for: after a     *)
(* visitor who left near that point, after a visitor of a similar look, or *)
(* by a new id.  What the position, the look and the clock decide is left  *)
(* open here; a new visitor id is named by the track it was made for,      *)
(* taking the six hex digits of its hash to be different each time.        *)
(***************************************************************************)
EXTENDS Detections, Sequences, FiniteSets

CONSTANT NoVisitor   \* the visitor of a track that has no TrackState

ASSUME NoVisitorAssumption == NoVisitor \notin Tracks

VARIABLES
  visitorOf,    \* _track_states: the visitor_id of each track
  remembered,   \* the keys of _embedding_memory
  exited,       \* the visitors of _recently_exited
  seqs,         \* _visitor_seq
  events        \* what was emitted, in order

trackerVars == <<visitorOf, remembered, exited, seqs, events>>

\* The visitor of an event about a track that has no state: f"VIS_lost_{tid}".
LostVisitor(t) == <<"lost", t>>
Visitors == Tracks \union {LostVisitor(t) : t \in Tracks}

Known(t) == visitorOf[t] # NoVisitor
NameOf(t) == IF Known(t) THEN visitorOf[t] ELSE LostVisitor(t)

TrackerTypeOK ==
  /\ visitorOf \in [Tracks -> Tracks \union {NoVisitor}]
  /\ remembered \subseteq Tracks
  /\ exited \subseteq Tracks
  /\ seqs \in [Visitors -> Nat]

TrackerInit ==
  /\ visitorOf = [t \in Tracks |-> NoVisitor]
  /\ remembered = {}
  /\ exited = {}
  /\ seqs = [v \in Visitors |-> 0]
  /\ events = <<>>

\* Visitors that _find_reentry may find, near a given position and in time ...
Returning(positioned) == IF positioned THEN exited ELSE {}

\* ... and that _find_by_embedding may find, of a look like the given one.
Similar(embedded) == IF embedded THEN remembered ELSE {}

\* What get_or_create may return for t: its visitor; else one that left near the
\* given position; else one of a similar look, which is called a re-entry; else
\* a new one.
Identities(t, positioned, embedded) ==
  IF Known(t)
    THEN {[visitor |-> visitorOf[t], reentry |-> FALSE]}
    ELSE {[visitor |-> v, reentry |-> FALSE] : v \in Returning(positioned) \union {t}}
           \union {[visitor |-> v, reentry |-> TRUE] : v \in Similar(embedded)}

\* get_or_create returns id for t.
GetOrCreate(t, embedded, id) ==
  /\ visitorOf' = [visitorOf EXCEPT ![t] = id.visitor]
  /\ remembered' = IF ~Known(t) /\ embedded /\ id.visitor = t
                     THEN remembered \union {t}
                     ELSE remembered

\* mark_exit, for the visitor v.  An exit that _prune_exits drops is one that
\* _find_reentry would not find any more.
MarkExit(v) == exited' = exited \union {v}

\* next_seq and emit for visitor v, seen as track t.
Emit(type, t, v, data) ==
  /\ seqs' = [seqs EXCEPT ![v] = @ + 1]
  /\ events' = Append(events,
       [type |-> type, track |-> t, visitor |-> v, seq |-> seqs[v], data |-> data])

-----------------------------------------------------------------------------
(* Properties of the events of a camera *)

\* The number of earlier events that satisfy P.
Earlier(i, P(_)) == Cardinality({j \in 1 .. i - 1 : P(events[j])})

\* The session_seq of a visitor's events counts them from 0 without a gap, also
\* when several tracks are taken for that visitor.
SessionsAreNumbered ==
  \A i \in DOMAIN events :
    LET same(e) == e.visitor = events[i].visitor
    IN events[i].seq = Earlier(i, same)

\* A track keeps its visitor for the whole video, and no event is about a track
\* that was never identified.
TracksKeepVisitor ==
  \A i \in DOMAIN events :
    /\ events[i].visitor = visitorOf[events[i].track]
    /\ events[i].visitor \in Tracks

\* What every camera keeps of it.
TrackerInv ==
  /\ TrackerTypeOK
  /\ SessionsAreNumbered
  /\ TracksKeepVisitor
=============================================================================
