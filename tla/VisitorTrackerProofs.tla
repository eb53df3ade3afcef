------------------------ MODULE VisitorTrackerProofs ------------------------
(***************************************************************************)
(* Lemmas about the tracker that the proofs of every camera rest on: what  *)
(* get_or_create and emit do to the tracks, the visitors and the events    *)
(* emitted, for any number of tracks and events.                           *)
(***************************************************************************)
EXTENDS VisitorTracker, FiniteSetTheorems, TLAPS

\* The events of visitor v.
Of(v) == {j \in DOMAIN events : events[j].visitor = v}

\* The events are a sequence, each is about a track, and next_seq has counted
\* those of each visitor.
Recorded ==
  /\ \E S : events \in Seq(S)
  /\ \A i \in DOMAIN events : events[i].track \in Tracks
  /\ \A v \in Visitors : seqs[v] = Cardinality(Of(v))

\* What the tracker keeps, in every camera.
TrackerInd == TrackerInv /\ Recorded

\* A track that is known stays the same visitor.
Steady ==
  /\ visitorOf' \in [Tracks -> Tracks \union {NoVisitor}]
  /\ \A u \in Tracks : Known(u) => visitorOf'[u] = visitorOf[u]

\* There are no events yet.
LEMMA TrackerStarts == TrackerInit => TrackerInd
<1> SUFFICES ASSUME TrackerInit PROVE TrackerInd
  OBVIOUS
<1>1. events \in Seq({}) /\ DOMAIN events = {}
  BY DEF TrackerInit
<1>2. \A v \in Visitors : Of(v) = {} /\ seqs[v] = 0
  BY <1>1 DEF TrackerInit, Of
<1>3. Recorded
  BY <1>1, <1>2, FS_EmptySet DEF Recorded
<1>4. TrackerTypeOK
  BY DEF TrackerInit, TrackerTypeOK
<1>5. SessionsAreNumbered /\ TracksKeepVisitor
  BY <1>1 DEF SessionsAreNumbered, TracksKeepVisitor
<1>6. QED
  BY <1>3, <1>4, <1>5 DEF TrackerInd, TrackerInv

\* The events are numbered from 1.
LEMMA EventNumbers ==
  ASSUME \E S : events \in Seq(S)
  PROVE  Len(events) \in Nat /\ DOMAIN events = 1 .. Len(events)
OBVIOUS

\* emit adds one event and changes none; next_seq counts it for its visitor.
LEMMA EmitAppends ==
  ASSUME NEW type, NEW t, NEW v, NEW data, Emit(type, t, v, data), \E S : events \in Seq(S),
         NEW n, n = Len(events)
  PROVE  /\ n \in Nat /\ DOMAIN events = 1 .. n
         /\ \E S : events' \in Seq(S)
         /\ Len(events') = n + 1 /\ DOMAIN events' = 1 .. n + 1
         /\ \A i \in 1 .. n : events'[i] = events[i]
         /\ events'[n + 1].type = type /\ events'[n + 1].track = t
         /\ events'[n + 1].visitor = v /\ events'[n + 1].seq = seqs[v]
         /\ events'[n + 1].data = data
<1> DEFINE e == [type |-> type, track |-> t, visitor |-> v, seq |-> seqs[v], data |-> data]
<1>1. events' = Append(events, e)
  BY DEF Emit
<1> HIDE DEF e
<1>2. PICK S : events \in Seq(S)
  OBVIOUS
<1>3. events \in Seq(S \union {e})
  BY <1>2
<1>4. /\ events' \in Seq(S \union {e}) /\ Len(events') = n + 1
      /\ \A i \in 1 .. n : events'[i] = events[i]
      /\ events'[n + 1] = e
  BY <1>1, <1>3
<1>5. n \in Nat /\ DOMAIN events = 1 .. n /\ DOMAIN events' = 1 .. n + 1
  BY <1>2, <1>4
<1>6. QED
  BY <1>1, <1>4, <1>5 DEF e

\* The visitors of the tracks are among those that next_seq counts for.
LEMMA TracksAreVisitors == Tracks \subseteq Visitors
BY DEF Visitors

\* get_or_create gives t a visitor that is a track, for good.
LEMMA Identified ==
  ASSUME TrackerTypeOK, NEW t \in Tracks, NEW positioned, NEW embedded,
         NEW id \in Identities(t, positioned, embedded), GetOrCreate(t, embedded, id)
  PROVE  /\ id.visitor \in Tracks
         /\ Steady /\ visitorOf'[t] = id.visitor
         /\ remembered' \subseteq Tracks
         /\ \A u \in Tracks \ {t} : visitorOf'[u] = visitorOf[u]
<1>1. id.visitor \in Tracks /\ (Known(t) => id.visitor = visitorOf[t])
  <2>1. Returning(positioned) \subseteq Tracks /\ Similar(embedded) \subseteq Tracks
    BY DEF Returning, Similar, TrackerTypeOK
  <2>2. CASE Known(t)
    <3>1. id = [visitor |-> visitorOf[t], reentry |-> FALSE]
      BY <2>2 DEF Identities
    <3>2. QED
      BY <2>2, <3>1 DEF TrackerTypeOK, Known
  <2>3. CASE ~Known(t)
    <3>1. \/ \E v \in Returning(positioned) \union {t} : id = [visitor |-> v, reentry |-> FALSE]
          \/ \E v \in Similar(embedded) : id = [visitor |-> v, reentry |-> TRUE]
      BY <2>3 DEF Identities
    <3>2. QED
      BY <2>1, <2>3, <3>1
  <2>4. QED
    BY <2>2, <2>3
<1>2. visitorOf' = [visitorOf EXCEPT ![t] = id.visitor]
  BY DEF GetOrCreate
<1>3. visitorOf \in [Tracks -> Tracks \union {NoVisitor}]
  BY DEF TrackerTypeOK
<1>4. Steady /\ visitorOf'[t] = id.visitor /\ \A u \in Tracks \ {t} : visitorOf'[u] = visitorOf[u]
  BY <1>1, <1>2, <1>3 DEF Steady
<1>5. remembered' \subseteq Tracks
  BY DEF GetOrCreate, TrackerTypeOK
<1>6. QED
  BY <1>1, <1>4, <1>5

\* Whoever is known stays known.
LEMMA KnownStays ==
  ASSUME Steady, TrackerTypeOK, NEW u \in Tracks, Known(u)
  PROVE  Known(u)'
BY DEF Steady, Known

\* Nothing is emitted.
LEMMA QuietStep ==
  ASSUME TrackerInd, Steady, UNCHANGED <<seqs, events>>,
         remembered' \subseteq Tracks, exited' \subseteq Tracks
  PROVE  TrackerInd'
<1>1. TrackerTypeOK'
  BY DEF TrackerInd, TrackerInv, TrackerTypeOK, Steady
<1>2. SessionsAreNumbered'
  BY DEF TrackerInd, TrackerInv, SessionsAreNumbered, Earlier
<1>3. TracksKeepVisitor'
  BY NoVisitorAssumption
     DEF TrackerInd, TrackerInv, TracksKeepVisitor, Recorded, Steady, Known
<1>4. Recorded'
  BY DEF TrackerInd, Recorded, Of
<1>5. QED
  BY <1>1, <1>2, <1>3, <1>4 DEF TrackerInd, TrackerInv

\* An event of t is emitted for the visitor that t has then.
LEMMA EmitStep ==
  ASSUME TrackerInd, Steady, remembered' \subseteq Tracks, exited' \subseteq Tracks,
         NEW t \in Tracks, NEW v \in Tracks, visitorOf'[t] = v,
         NEW type, NEW data, Emit(type, t, v, data)
  PROVE  TrackerInd'
<1>0. PICK n : n = Len(events)
  OBVIOUS
<1>1. /\ \E S : events \in Seq(S)
      /\ \A i \in DOMAIN events : events[i].track \in Tracks
      /\ \A u \in Visitors : seqs[u] = Cardinality(Of(u))
  BY DEF TrackerInd, Recorded
<1>2. /\ n \in Nat /\ DOMAIN events = 1 .. n
      /\ \E S : events' \in Seq(S)
      /\ Len(events') = n + 1 /\ DOMAIN events' = 1 .. n + 1
      /\ \A i \in 1 .. n : events'[i] = events[i]
      /\ events'[n + 1].track = t /\ events'[n + 1].visitor = v /\ events'[n + 1].seq = seqs[v]
  BY <1>0, <1>1, EmitAppends
<1>3. seqs' = [seqs EXCEPT ![v] = seqs[v] + 1]
  BY DEF Emit
<1>4. v \in Visitors /\ seqs \in [Visitors -> Nat]
  BY TracksAreVisitors DEF TrackerInd, TrackerInv, TrackerTypeOK
<1>5. TrackerTypeOK'
  BY <1>3, <1>4 DEF TrackerTypeOK, Steady
<1>6. ASSUME NEW i \in 1 .. n
      PROVE  \A u : {j \in 1 .. i - 1 : events'[j].visitor = u} = {j \in 1 .. i - 1 : events[j].visitor = u}
  BY <1>2
<1>7. SessionsAreNumbered'
  <2>1. ASSUME NEW i \in 1 .. n
        PROVE  events'[i].seq = Cardinality({j \in 1 .. i - 1 : events'[j].visitor = events'[i].visitor})
    <3>1. events[i].seq = Cardinality({j \in 1 .. i - 1 : events[j].visitor = events[i].visitor})
      BY <1>2 DEF TrackerInd, TrackerInv, SessionsAreNumbered, Earlier
    <3>2. {j \in 1 .. i - 1 : events'[j].visitor = events[i].visitor}
            = {j \in 1 .. i - 1 : events[j].visitor = events[i].visitor}
      BY <1>6, <2>1
    <3>3. QED
      BY <1>2, <3>1, <3>2
  <2>2. events'[n + 1].seq
          = Cardinality({j \in 1 .. (n + 1) - 1 : events'[j].visitor = events'[n + 1].visitor})
    <3>1. (n + 1) - 1 = n
      BY <1>2
    <3>2. {j \in 1 .. n : events'[j].visitor = v} = Of(v)
      BY <1>2 DEF Of
    <3>3. QED
      BY <1>1, <1>2, <1>4, <3>1, <3>2
  <2>3. ASSUME NEW i \in DOMAIN events'
        PROVE  events'[i].seq = Cardinality({j \in 1 .. i - 1 : events'[j].visitor = events'[i].visitor})
    <3>1. i \in 1 .. n \/ i = n + 1
      BY <1>2
    <3>2. QED
      BY <2>1, <2>2, <3>1
  <2>4. QED
    BY <2>3 DEF SessionsAreNumbered, Earlier
<1>8. TracksKeepVisitor'
  <2>1. \A i \in 1 .. n : events'[i].visitor = visitorOf'[events'[i].track]
    BY <1>1, <1>2, NoVisitorAssumption
       DEF TrackerInd, TrackerInv, TracksKeepVisitor, Steady, Known
  <2>2. \A i \in 1 .. n : events'[i].visitor \in Tracks
    BY <1>2 DEF TrackerInd, TrackerInv, TracksKeepVisitor
  <2>3. \A i \in DOMAIN events' : i \in 1 .. n \/ i = n + 1
    BY <1>2
  <2>4. QED
    BY <1>2, <2>1, <2>2, <2>3 DEF TracksKeepVisitor
<1>9. \A i \in DOMAIN events' : events'[i].track \in Tracks
  BY <1>1, <1>2
<1>10. ASSUME NEW u \in Visitors
       PROVE  seqs'[u] = Cardinality(Of(u)')
  <2>1. IsFiniteSet(Of(u)) /\ Cardinality(Of(u)) \in Nat /\ n + 1 \notin Of(u)
    <3>1. IsFiniteSet(1 .. n)
      BY <1>2, FS_Interval
    <3>2. Of(u) \subseteq 1 .. n
      BY <1>2 DEF Of
    <3>3. IsFiniteSet(Of(u))
      BY <3>1, <3>2, FS_Subset
    <3>4. QED
      BY <1>2, <3>2, <3>3, FS_CardinalityType
  <2>2. CASE u = v
    <3>1. Of(u)' = Of(u) \union {n + 1}
      BY <1>2, <2>2 DEF Of
    <3>2. Cardinality(Of(u) \union {n + 1}) = Cardinality(Of(u)) + 1
      BY <2>1, FS_AddElement
    <3>3. QED
      BY <1>1, <1>3, <1>4, <2>2, <3>1, <3>2
  <2>3. CASE u # v
    <3>1. Of(u)' = Of(u)
      BY <1>2, <2>3 DEF Of
    <3>2. QED
      BY <1>1, <1>3, <1>4, <2>3, <3>1
  <2>4. QED
    BY <2>2, <2>3
<1>11. Recorded'
  BY <1>2, <1>9, <1>10 DEF Recorded
<1>12. QED
  BY <1>5, <1>7, <1>8, <1>11 DEF TrackerInd, TrackerInv
=============================================================================
