------------------------ MODULE BillingPipelineProofs ------------------------
(***************************************************************************)
(* Proofs about the billing camera and the pipeline around it: for any     *)
(* number of tracks, frames and runs, and every size of a batch.           *)
(***************************************************************************)
EXTENDS BillingPipeline, VisitorTrackerProofs

\* The last event of track t, if it has one.
Last(t) ==
  {i \in DOMAIN events :
     events[i].track = t /\ \A j \in i + 1 .. Len(events) : events[j].track # t}

\* The events of a type.
OfType(type) == {i \in DOMAIN events : events[i].type = type}

\* Two events of a type of the same track have one of the other type between them.
Alternating ==
  \A i, j \in DOMAIN events :
    i < j /\ events[i].track = events[j].track /\ events[i].type = events[j].type =>
      \E k \in i + 1 .. j - 1 :
        events[k].track = events[i].track /\ events[k].type # events[i].type

\* Each event joins or leaves, and has the last one of its track after it.
Followed ==
  \A i \in DOMAIN events :
    /\ events[i].type \in {"JOIN", "ABANDON"}
    /\ \A t \in Tracks : events[i].track = t => \E k \in Last(t) : i <= k

\* Who is in the queue joined last, and the events count them.
Counted ==
  /\ \A t \in Tracks : t \in Queued <=> \E i \in Last(t) : events[i].type = "JOIN"
  /\ IsFiniteSet(Queued)
  /\ Cardinality(Queued) = Cardinality(OfType("JOIN")) - Cardinality(OfType("ABANDON"))

CameraInd ==
  /\ TrackerInd
  /\ BillingInv
  /\ Followed /\ Alternating /\ Counted
  /\ DepthsAreTold
  /\ frame = 0 => todo = {}

-----------------------------------------------------------------------------
(* The events of the camera *)

\* The events of a type are finitely many.
LEMMA TypesAreFinite ==
  ASSUME NEW n \in Nat, DOMAIN events = 1 .. n, NEW type
  PROVE  /\ OfType(type) \subseteq 1 .. n
         /\ IsFiniteSet(OfType(type)) /\ Cardinality(OfType(type)) \in Nat
<1>1. OfType(type) \subseteq 1 .. n /\ IsFiniteSet(1 .. n)
  BY FS_Interval DEF OfType
<1>2. IsFiniteSet(OfType(type))
  BY <1>1, FS_Subset
<1>3. QED
  BY <1>1, <1>2, FS_CardinalityType

\* What joins and leaves are counted before event i, or before the next one.
LEMMA BalanceOf ==
  ASSUME NEW n \in Nat, DOMAIN events = 1 .. n
  PROVE  /\ \A i \in 1 .. n : Balance(i) = Cardinality(OfType("JOIN") \intersect (1 .. i - 1))
                                             - Cardinality(OfType("ABANDON") \intersect (1 .. i - 1))
         /\ Balance(n + 1) = Cardinality(OfType("JOIN")) - Cardinality(OfType("ABANDON"))
<1>1. ASSUME NEW i \in 1 .. n + 1
      PROVE  /\ {j \in 1 .. i - 1 : events[j].type = "JOIN"} = OfType("JOIN") \intersect (1 .. i - 1)
             /\ {j \in 1 .. i - 1 : events[j].type = "ABANDON"} = OfType("ABANDON") \intersect (1 .. i - 1)
  BY DEF OfType
<1>2. ASSUME NEW i \in 1 .. n + 1
      PROVE  Balance(i) = Cardinality(OfType("JOIN") \intersect (1 .. i - 1))
                            - Cardinality(OfType("ABANDON") \intersect (1 .. i - 1))
  <2>1. Balance(i) = Cardinality({j \in 1 .. i - 1 : events[j].type = "JOIN"})
                       - Cardinality({j \in 1 .. i - 1 : events[j].type = "ABANDON"})
    BY DEF Balance, Earlier, IsJoin, IsAbandon
  <2>2. QED
    BY <1>1, <1>2, <2>1
<1>3. Balance(n + 1) = Cardinality(OfType("JOIN")) - Cardinality(OfType("ABANDON"))
  <2>1. (n + 1) - 1 = n /\ n + 1 \in 1 .. n + 1
    OBVIOUS
  <2>2. OfType("JOIN") \intersect (1 .. n) = OfType("JOIN")
        /\ OfType("ABANDON") \intersect (1 .. n) = OfType("ABANDON")
    BY DEF OfType
  <2>3. QED
    BY <1>2, <2>1, <2>2
<1>4. QED
  BY <1>2, <1>3

\* An event is added: it is the last one of its track then, and nothing else changes.
LEMMA NextEvent ==
  ASSUME NEW n \in Nat, n = Len(events), DOMAIN events = 1 .. n, DOMAIN events' = 1 .. n + 1,
         Len(events') = n + 1, \A i \in 1 .. n : events'[i] = events[i],
         NEW t, events'[n + 1].track = t, NEW type, events'[n + 1].type = type
  PROVE  /\ Last(t)' = {n + 1}
         /\ \A u : u # t => Last(u)' = Last(u)
         /\ OfType(type)' = OfType(type) \union {n + 1}
         /\ \A other : other # type => OfType(other)' = OfType(other)
<1>1. Last(t)' = {n + 1}
  BY DEF Last
<1>2. ASSUME NEW u, u # t
      PROVE  Last(u)' = Last(u)
  <2>1. \A i \in 1 .. n : i + 1 .. n + 1 = (i + 1 .. n) \union {n + 1}
    OBVIOUS
  <2>2. \A i \in 1 .. n + 1 : i \in 1 .. n \/ i = n + 1
    OBVIOUS
  <2>3. QED
    BY <1>2, <2>1, <2>2 DEF Last
<1>3. OfType(type)' = OfType(type) \union {n + 1}
  BY DEF OfType
<1>4. ASSUME NEW other, other # type
      PROVE  OfType(other)' = OfType(other)
  BY <1>4 DEF OfType
<1>5. QED
  BY <1>1, <1>2, <1>3, <1>4

\* The depths told so far are told still.
LEMMA BalanceStays ==
  ASSUME NEW n \in Nat, DOMAIN events = 1 .. n, DOMAIN events' = 1 .. n + 1,
         \A i \in 1 .. n : events'[i] = events[i]
  PROVE  \A i \in 1 .. n : Balance(i)' = Balance(i)
<1>1. ASSUME NEW i \in 1 .. n
      PROVE  /\ {j \in 1 .. i - 1 : events'[j].type = "JOIN"} = {j \in 1 .. i - 1 : events[j].type = "JOIN"}
             /\ {j \in 1 .. i - 1 : events'[j].type = "ABANDON"}
                  = {j \in 1 .. i - 1 : events[j].type = "ABANDON"}
  <2>1. \A j \in 1 .. i - 1 : j \in 1 .. n
    BY <1>1
  <2>2. QED
    BY <2>1
<1>2. QED
  BY <1>1 DEF Balance, Earlier, IsJoin, IsAbandon

\* An event of t takes its turn: the last event of t was of the other type.
LEMMA TurnTaken ==
  ASSUME Followed, Alternating,
         NEW n \in Nat, n = Len(events), DOMAIN events = 1 .. n, DOMAIN events' = 1 .. n + 1,
         Len(events') = n + 1, \A i \in 1 .. n : events'[i] = events[i],
         NEW t \in Tracks, events'[n + 1].track = t,
         NEW type \in {"JOIN", "ABANDON"}, events'[n + 1].type = type,
         \A k \in Last(t) : events[k].type # type
  PROVE  Followed' /\ Alternating'
<1>1. /\ Last(t)' = {n + 1}
      /\ \A u : u # t => Last(u)' = Last(u)
  BY NextEvent
<1>2. \A i \in 1 .. n + 1 : i \in 1 .. n \/ i = n + 1
  OBVIOUS
<1>3. Followed'
  <2>1. ASSUME NEW i \in 1 .. n, NEW u \in Tracks, events'[i].track = u
        PROVE  \E k \in Last(u)' : i <= k
    <3>1. PICK k \in Last(u) : i <= k
      BY <2>1 DEF Followed
    <3>2. CASE u = t
      <4>1. n + 1 \in Last(u)' /\ i <= n + 1
        BY <1>1, <2>1, <3>2
      <4>2. QED
        BY <4>1
    <3>3. CASE u # t
      BY <1>1, <3>1, <3>3
    <3>4. QED
      BY <3>2, <3>3
  <2>2. \A i \in 1 .. n : events'[i].type \in {"JOIN", "ABANDON"}
    BY DEF Followed
  <2>3. ASSUME NEW u \in Tracks, events'[n + 1].track = u
        PROVE  \E k \in Last(u)' : n + 1 <= k
    <3>1. u = t
      BY <2>3
    <3>2. n + 1 \in Last(u)' /\ n + 1 <= n + 1
      BY <1>1, <3>1
    <3>3. QED
      BY <3>2
  <2>4. ASSUME NEW i \in DOMAIN events'
        PROVE  /\ events'[i].type \in {"JOIN", "ABANDON"}
               /\ \A u \in Tracks : events'[i].track = u => \E k \in Last(u)' : i <= k
    <3>1. CASE i \in 1 .. n
      BY <2>1, <2>2, <3>1
    <3>2. CASE i = n + 1
      BY <2>3, <3>2
    <3>3. QED
      BY <1>2, <2>4, <3>1, <3>2
  <2>5. QED
    BY <2>4 DEF Followed
<1>4. Alternating'
  <2>1. ASSUME NEW i \in 1 .. n, NEW j \in 1 .. n, i < j,
               events'[i].track = events'[j].track, events'[i].type = events'[j].type
        PROVE  \E k \in i + 1 .. j - 1 :
                 events'[k].track = events'[i].track /\ events'[k].type # events'[i].type
    <3>0. events[i].track = events[j].track /\ events[i].type = events[j].type
      BY <2>1
    <3>1. PICK k \in i + 1 .. j - 1 :
            events[k].track = events[i].track /\ events[k].type # events[i].type
      BY <2>1, <3>0 DEF Alternating
    <3>2. k \in 1 .. n
      BY <2>1, <3>1
    <3>3. QED
      BY <2>1, <3>1, <3>2
  <2>2. ASSUME NEW i \in 1 .. n, events'[i].track = t, events'[i].type = type
        PROVE  \E k \in i + 1 .. (n + 1) - 1 :
                 events'[k].track = events'[i].track /\ events'[k].type # events'[i].type
    <3>1. events[i].track = t /\ events[i].type = type
      BY <2>2
    <3>2. PICK k \in Last(t) : i <= k
      BY <2>2, <3>1 DEF Followed
    <3>3. k \in 1 .. n /\ events[k].track = t /\ events[k].type # type
      BY <3>2 DEF Last
    <3>4. k # i
      BY <3>1, <3>3
    <3>5. k \in i + 1 .. (n + 1) - 1
      BY <2>2, <3>2, <3>3, <3>4
    <3>6. QED
      BY <2>2, <3>3, <3>5
  <2>3. ASSUME NEW i \in DOMAIN events', NEW j \in DOMAIN events', i < j,
               events'[i].track = events'[j].track, events'[i].type = events'[j].type
        PROVE  \E k \in i + 1 .. j - 1 :
                 events'[k].track = events'[i].track /\ events'[k].type # events'[i].type
    <3>1. i \in 1 .. n
      BY <2>3
    <3>2. j \in 1 .. n \/ j = n + 1
      BY <1>2, <2>3
    <3>3. QED
      BY <2>1, <2>2, <2>3, <3>1, <3>2
  <2>4. QED
    BY <2>3 DEF Alternating
<1>5. QED
  BY <1>3, <1>4

\* The depth of an event agrees with what the events before it tell.
LEMMA DepthTold ==
  ASSUME DepthsAreTold,
         NEW n \in Nat, DOMAIN events = 1 .. n, DOMAIN events' = 1 .. n + 1,
         \A i \in 1 .. n : events'[i] = events[i],
         NEW q, q = Cardinality(OfType("JOIN")) - Cardinality(OfType("ABANDON")),
         events'[n + 1].type = "JOIN" => events'[n + 1].data.depth = q + 1,
         events'[n + 1].type = "ABANDON" => events'[n + 1].data.depth <= q - 1
  PROVE  DepthsAreTold'
<1>1. \A i \in 1 .. n : Balance(i)' = Balance(i)
  BY BalanceStays
<1>2. Balance(n + 1)' = q
  <2>1. /\ {j \in 1 .. (n + 1) - 1 : events'[j].type = "JOIN"} = OfType("JOIN")
        /\ {j \in 1 .. (n + 1) - 1 : events'[j].type = "ABANDON"} = OfType("ABANDON")
    BY DEF OfType
  <2>2. QED
    BY <2>1 DEF Balance, Earlier, IsJoin, IsAbandon
<1>3. \A i \in DOMAIN events' : i \in 1 .. n \/ i = n + 1
  OBVIOUS
<1>4. ASSUME NEW i \in 1 .. n
      PROVE  /\ events'[i].type = "JOIN" => events'[i].data.depth = Balance(i)' + 1
             /\ events'[i].type = "ABANDON" => events'[i].data.depth <= Balance(i)' - 1
  BY <1>1, <1>4 DEF DepthsAreTold
<1>5. QED
  BY <1>2, <1>3, <1>4 DEF DepthsAreTold

\* The last event of a track is one.
LEMMA LastIsOne ==
  ASSUME NEW n \in Nat, n = Len(events), DOMAIN events = 1 .. n, NEW t,
         NEW i \in Last(t), NEW j \in Last(t)
  PROVE  i = j
<1>1. i \in 1 .. n /\ j \in 1 .. n /\ events[i].track = t /\ events[j].track = t
  BY DEF Last
<1>2. /\ \A k \in i + 1 .. n : events[k].track # t
      /\ \A k \in j + 1 .. n : events[k].track # t
  BY DEF Last
<1>3. ~(i < j) /\ ~(j < i)
  BY <1>1, <1>2
<1>4. QED
  BY <1>1, <1>3

\* t joins the queue.
LEMMA Joined ==
  ASSUME CameraInd, NEW t \in Tracks, t \notin Queued, NEW v,
         Emit("JOIN", t, v, [depth |-> Cardinality(Queued) + 1, dwell |-> 0]),
         Queued' = Queued \union {t}
  PROVE  Followed' /\ Alternating' /\ Counted' /\ DepthsAreTold'
<1>1. PICK n : n = Len(events)
  OBVIOUS
<1>2. PICK data : data = [depth |-> Cardinality(Queued) + 1, dwell |-> 0]
  OBVIOUS
<1>0. Emit("JOIN", t, v, data) /\ \E S : events \in Seq(S)
  BY <1>2 DEF CameraInd, TrackerInd, Recorded
<1>3. /\ n \in Nat /\ DOMAIN events = 1 .. n
      /\ Len(events') = n + 1 /\ DOMAIN events' = 1 .. n + 1
      /\ \A i \in 1 .. n : events'[i] = events[i]
      /\ events'[n + 1].type = "JOIN" /\ events'[n + 1].track = t /\ events'[n + 1].data = data
  BY <1>0, <1>1, EmitAppends
<1>4. \A k \in Last(t) : events[k].type # "JOIN"
  BY DEF CameraInd, Counted
<1>5. Followed' /\ Alternating'
  BY <1>1, <1>3, <1>4, TurnTaken DEF CameraInd
<1>6. /\ Last(t)' = {n + 1}
      /\ \A u : u # t => Last(u)' = Last(u)
      /\ OfType("JOIN")' = OfType("JOIN") \union {n + 1}
      /\ OfType("ABANDON")' = OfType("ABANDON")
  BY <1>1, <1>3, NextEvent
<1>7. /\ IsFiniteSet(OfType("JOIN")) /\ Cardinality(OfType("JOIN")) \in Nat
      /\ n + 1 \notin OfType("JOIN") /\ Cardinality(OfType("ABANDON")) \in Nat
  BY <1>3, TypesAreFinite
<1>8. /\ IsFiniteSet(Queued) /\ Cardinality(Queued) \in Nat
      /\ Cardinality(Queued) = Cardinality(OfType("JOIN")) - Cardinality(OfType("ABANDON"))
  BY FS_CardinalityType DEF CameraInd, Counted
<1>9. /\ IsFiniteSet(Queued') /\ Cardinality(Queued') = Cardinality(Queued) + 1
      /\ Cardinality(OfType("JOIN")') = Cardinality(OfType("JOIN")) + 1
  BY <1>6, <1>7, <1>8, FS_AddElement
<1>10. ASSUME NEW u \in Tracks
       PROVE  u \in Queued' <=> \E i \in Last(u)' : events'[i].type = "JOIN"
  <2>1. CASE u = t
    BY <1>3, <1>6, <2>1
  <2>2. CASE u # t
    <3>1. Last(u) \subseteq 1 .. n
      BY <1>3 DEF Last
    <3>2. u \in Queued <=> \E i \in Last(u) : events[i].type = "JOIN"
      BY <1>10 DEF CameraInd, Counted
    <3>3. QED
      BY <1>3, <1>6, <2>2, <3>1, <3>2
  <2>3. QED
    BY <2>1, <2>2
<1>11. Counted'
  <2>1. Cardinality(Queued') = Cardinality(OfType("JOIN")') - Cardinality(OfType("ABANDON")')
    BY <1>6, <1>7, <1>8, <1>9
  <2>2. QED
    BY <1>9, <1>10, <2>1 DEF Counted
<1>12. DepthsAreTold'
  <2>1. events'[n + 1].data.depth = Cardinality(Queued) + 1
    BY <1>2, <1>3
  <2>2. DepthsAreTold
    BY DEF CameraInd
  <2>3. QED
    BY <1>3, <1>8, <2>1, <2>2, DepthTold
<1>13. QED
  BY <1>5, <1>11, <1>12

\* t, which is not in the picture, leaves the queue.
LEMMA Departs ==
  ASSUME CameraInd, NEW t \in Departed, NEW v, NEW dwell,
         Emit("ABANDON", t, v, [depth |-> depth, dwell |-> dwell]),
         Queued' = Queued \ {t}
  PROVE  Followed' /\ Alternating' /\ Counted' /\ DepthsAreTold'
<1>1. PICK n : n = Len(events)
  OBVIOUS
<1>2. PICK data : data = [depth |-> depth, dwell |-> dwell]
  OBVIOUS
<1>0. Emit("ABANDON", t, v, data) /\ \E S : events \in Seq(S)
  BY <1>2 DEF CameraInd, TrackerInd, Recorded
<1>3. /\ n \in Nat /\ DOMAIN events = 1 .. n
      /\ Len(events') = n + 1 /\ DOMAIN events' = 1 .. n + 1
      /\ \A i \in 1 .. n : events'[i] = events[i]
      /\ events'[n + 1].type = "ABANDON" /\ events'[n + 1].track = t /\ events'[n + 1].data = data
  BY <1>0, <1>1, EmitAppends
<1>4. t \in Tracks /\ t \in Queued /\ t \notin present
  BY DEF Departed, Queued
<1>5. \A k \in Last(t) : events[k].type # "ABANDON"
  <2>1. PICK i \in Last(t) : events[i].type = "JOIN"
    BY <1>4 DEF CameraInd, Counted
  <2>2. \A k \in Last(t) : k = i
    BY <1>1, <1>3, <2>1, LastIsOne
  <2>3. QED
    BY <2>1, <2>2
<1>6. Followed' /\ Alternating'
  BY <1>1, <1>3, <1>4, <1>5, TurnTaken DEF CameraInd
<1>7. /\ Last(t)' = {n + 1}
      /\ \A u : u # t => Last(u)' = Last(u)
      /\ OfType("ABANDON")' = OfType("ABANDON") \union {n + 1}
      /\ OfType("JOIN")' = OfType("JOIN")
  BY <1>1, <1>3, NextEvent
<1>8. /\ IsFiniteSet(OfType("ABANDON")) /\ Cardinality(OfType("ABANDON")) \in Nat
      /\ n + 1 \notin OfType("ABANDON") /\ Cardinality(OfType("JOIN")) \in Nat
  BY <1>3, TypesAreFinite
<1>9. /\ IsFiniteSet(Queued) /\ Cardinality(Queued) \in Nat
      /\ Cardinality(Queued) = Cardinality(OfType("JOIN")) - Cardinality(OfType("ABANDON"))
  BY FS_CardinalityType DEF CameraInd, Counted
<1>10. /\ IsFiniteSet(Queued') /\ Cardinality(Queued') = Cardinality(Queued) - 1
       /\ Cardinality(OfType("ABANDON")') = Cardinality(OfType("ABANDON")) + 1
  BY <1>4, <1>7, <1>8, <1>9, FS_AddElement, FS_RemoveElement
<1>11. ASSUME NEW u \in Tracks
       PROVE  u \in Queued' <=> \E i \in Last(u)' : events'[i].type = "JOIN"
  <2>1. CASE u = t
    BY <1>3, <1>7, <2>1
  <2>2. CASE u # t
    <3>1. Last(u) \subseteq 1 .. n
      BY <1>3 DEF Last
    <3>2. u \in Queued <=> \E i \in Last(u) : events[i].type = "JOIN"
      BY <1>11 DEF CameraInd, Counted
    <3>3. QED
      BY <1>3, <1>7, <2>2, <3>1, <3>2
  <2>3. QED
    BY <2>1, <2>2
<1>12. Counted'
  <2>1. Cardinality(Queued') = Cardinality(OfType("JOIN")') - Cardinality(OfType("ABANDON")')
    BY <1>7, <1>8, <1>9, <1>10
  <2>2. QED
    BY <1>10, <1>11, <2>1 DEF Counted
<1>13. DepthsAreTold'
  <2>1. Queued \intersect present \subseteq Queued \ {t} /\ IsFiniteSet(Queued \ {t})
    BY <1>4, <1>9, FS_RemoveElement
  <2>2. Cardinality(Queued \intersect present) <= Cardinality(Queued \ {t})
    BY <2>1, FS_Subset
  <2>3. Cardinality(Queued \ {t}) = Cardinality(Queued) - 1
    BY <1>4, <1>9, FS_RemoveElement
  <2>4. IsFiniteSet(Queued \intersect present)
    BY <2>1, FS_Subset
  <2>5. Cardinality(Queued \intersect present) \in Nat
    BY <2>4, FS_CardinalityType
  <2>6. depth \in Nat /\ depth <= Cardinality(Queued \intersect present) /\ DepthsAreTold
    BY DEF CameraInd, BillingInv, TypeOK
  <2>7. events'[n + 1].data.depth <= Cardinality(Queued) - 1
    BY <1>2, <1>3, <1>9, <2>2, <2>3, <2>5, <2>6
  <2>8. QED
    BY <1>3, <1>9, <2>6, <2>7, DepthTold
<1>14. QED
  BY <1>6, <1>12, <1>13

-----------------------------------------------------------------------------
(* The steps of the camera *)

\* What the parts of the invariant say of the state.
LEMMA CameraState ==
  ASSUME CameraInd
  PROVE  /\ TrackerTypeOK /\ TrackerInd
         /\ frame \in Nat /\ frame \in 0 .. MaxFrames
         /\ present \subseteq Tracks /\ staff \subseteq present /\ todo \subseteq present
         /\ inQueue \in [Tracks -> 0 .. MaxFrames] /\ depth \in Nat /\ ended \in BOOLEAN
         /\ \A t \in Queued : Known(t)
         /\ Departed # {} => todo = present
         /\ depth <= Cardinality(Queued \intersect present)
         /\ frame = 0 => todo = {}
         /\ Queued \subseteq Tracks /\ IsFiniteSet(Queued) /\ Cardinality(Queued) \in Nat
<1>1. IsFiniteSet(Queued) /\ Cardinality(Queued) \in Nat
  BY FS_CardinalityType DEF CameraInd, Counted
<1>2. QED
  BY <1>1, MaxFramesAssumption DEF CameraInd, BillingInv, TypeOK, Queued

\* What the events say stays true when nothing is emitted and the queue is the same.
LEMMA QuietQueue ==
  ASSUME CameraInd, events' = events, Queued' = Queued
  PROVE  Followed' /\ Alternating' /\ Counted' /\ DepthsAreTold'
<1>1. (\A t : Last(t)' = Last(t)) /\ (\A type : OfType(type)' = OfType(type))
  BY DEF Last, OfType
<1>2. Followed' /\ Alternating' /\ Counted'
  BY <1>1 DEF CameraInd, Followed, Alternating, Counted
<1>3. DepthsAreTold'
  BY DEF CameraInd, DepthsAreTold, Balance, Earlier, IsJoin, IsAbandon
<1>4. QED
  BY <1>2, <1>3

\* Nobody is in the queue at the start.
LEMMA CameraStarts == Init => CameraInd
<1> SUFFICES ASSUME Init PROVE CameraInd
  OBVIOUS
<1>1. TrackerInd
  BY TrackerStarts DEF Init
<1>2. events = <<>> /\ DOMAIN events = {}
  BY DEF Init, TrackerInit
<1>3. Queued = {} /\ IsFiniteSet(Queued) /\ Cardinality(Queued) = 0
  BY FS_EmptySet DEF Init, Queued
<1>4. \A type : OfType(type) = {} /\ Cardinality(OfType(type)) = 0
  BY <1>2, FS_EmptySet DEF OfType
<1>5. Counted
  <2>1. \A t : Last(t) = {}
    BY <1>2 DEF Last
  <2>2. QED
    BY <1>3, <1>4, <2>1 DEF Counted
<1>6. Followed /\ Alternating /\ DepthsAreTold
  BY <1>2 DEF Followed, Alternating, DepthsAreTold
<1>7. TypeOK
  <2>1. 0 \in 0 .. MaxFrames /\ TrackerTypeOK
    BY <1>1, MaxFramesAssumption DEF TrackerInd, TrackerInv
  <2>2. QED
    BY <2>1 DEF Init, TypeOK
<1>8. BillingInv
  <2>1. Queued \intersect present = {} /\ Departed = {} /\ depth = 0
    BY <1>3 DEF Init, Departed
  <2>2. depth <= Cardinality(Queued \intersect present)
    BY <1>3, <2>1
  <2>3. QED
    BY <1>1, <1>3, <1>7, <2>1, <2>2 DEF BillingInv, TrackerInd
<1>9. QED
  BY <1>1, <1>5, <1>6, <1>8 DEF CameraInd, Init

\* A frame is read.
LEMMA CameraReads ==
  ASSUME CameraInd, NEW S \in SUBSET Tracks, NEW F \in SUBSET S, ReadFrame(S, F)
  PROVE  CameraInd'
<1>1. /\ Departed = {} /\ frame < MaxFrames /\ frame' = frame + 1
      /\ present' = S /\ staff' = F /\ todo' = S
      /\ depth' = Cardinality(Queued \intersect (S \ F))
      /\ UNCHANGED <<visitorOf, remembered, exited, seqs, events, inQueue, ended>>
  BY DEF ReadFrame, trackerVars
<1>2. Queued' = Queued
  BY <1>1 DEF Queued
<1>3. TrackerInd'
  BY <1>1, CameraState, QuietStep DEF Steady, TrackerTypeOK
<1>4. Followed' /\ Alternating' /\ Counted' /\ DepthsAreTold'
  BY <1>1, <1>2, QuietQueue
<1>5. depth' \in Nat /\ depth' <= Cardinality(Queued' \intersect present')
  <2>1. IsFiniteSet(Queued \intersect S)
    BY CameraState, FS_Intersection
  <2>2. Queued \intersect (S \ F) \subseteq Queued \intersect S
    OBVIOUS
  <2>3. /\ IsFiniteSet(Queued \intersect (S \ F))
        /\ Cardinality(Queued \intersect (S \ F)) <= Cardinality(Queued \intersect S)
    BY <2>1, <2>2, FS_Subset
  <2>4. Cardinality(Queued \intersect (S \ F)) \in Nat
    BY <2>3, FS_CardinalityType
  <2>5. QED
    BY <1>1, <1>2, <2>3, <2>4
<1>6. frame' \in 0 .. MaxFrames /\ frame' # 0
  BY <1>1, CameraState, MaxFramesAssumption
<1>7. BillingInv'
  <2>1. TypeOK'
    BY <1>1, <1>3, <1>5, <1>6, CameraState DEF TypeOK, TrackerInd, TrackerInv
  <2>2. \A t \in Queued' : Known(t)'
    BY <1>1, <1>2, CameraState DEF Known
  <2>3. QED
    BY <1>1, <1>3, <1>5, <2>1, <2>2 DEF BillingInv, TrackerInd
<1>8. QED
  BY <1>3, <1>4, <1>6, <1>7 DEF CameraInd

\* A track of the queue is gone.
LEMMA CameraAbandons ==
  ASSUME CameraInd, NEW t \in Tracks, Abandon(t)
  PROVE  CameraInd'
<1>1. /\ t \in Departed /\ t \in Queued /\ t \notin present
      /\ inQueue' = [inQueue EXCEPT ![t] = 0]
      /\ Emit("ABANDON", t, NameOf(t), [depth |-> depth, dwell |-> frame - inQueue[t]])
      /\ UNCHANGED <<visitorOf, remembered, exited, frame, present, staff, todo, depth, ended>>
  BY DEF Abandon, Departed
<1>2. inQueue' \in [Tracks -> 0 .. MaxFrames] /\ Queued' = Queued \ {t}
  <2>1. inQueue \in [Tracks -> 0 .. MaxFrames] /\ 0 \in 0 .. MaxFrames
    BY CameraState, MaxFramesAssumption
  <2>2. inQueue'[t] = 0 /\ \A u \in Tracks \ {t} : inQueue'[u] = inQueue[u]
    BY <1>1, <2>1
  <2>3. QED
    BY <1>1, <2>1, <2>2 DEF Queued
<1>3. Known(t) /\ NameOf(t) = visitorOf[t] /\ visitorOf[t] \in Tracks
  BY <1>1, CameraState DEF NameOf, Known, TrackerTypeOK
<1>4. TrackerInd'
  <2>1. Steady /\ visitorOf'[t] = NameOf(t) /\ NameOf(t) \in Tracks
        /\ remembered' \subseteq Tracks /\ exited' \subseteq Tracks
    BY <1>1, <1>3, CameraState DEF Steady, TrackerTypeOK
  <2>2. QED
    BY <1>1, <2>1, CameraState, EmitStep
<1>5. Followed' /\ Alternating' /\ Counted' /\ DepthsAreTold'
  BY <1>1, <1>2, Departs
<1>6. Queued' \intersect present' = Queued \intersect present /\ Departed' \subseteq Departed
  BY <1>1, <1>2 DEF Departed
<1>7. BillingInv'
  <2>1. TypeOK'
    BY <1>1, <1>2, <1>4, CameraState DEF TypeOK, TrackerInd, TrackerInv
  <2>2. \A u \in Queued' : Known(u)'
    BY <1>1, <1>2, CameraState DEF Known
  <2>3. (Departed' # {} => todo' = present') /\ depth' <= Cardinality(Queued' \intersect present')
    BY <1>1, <1>6, CameraState
  <2>4. QED
    BY <1>4, <2>1, <2>2, <2>3 DEF BillingInv, TrackerInd
<1>8. QED
  BY <1>1, <1>4, <1>5, <1>7, CameraState DEF CameraInd

\* A person is identified, and nothing is emitted.
LEMMA CameraIdentifies ==
  ASSUME CameraInd, NEW t \in todo, NEW embedded,
         NEW id \in Identities(t, FALSE, embedded), GetOrCreate(t, embedded, id),
         Departed = {}, todo' = todo \ {t},
         UNCHANGED <<exited, seqs, events, frame, present, staff, inQueue, depth, ended>>
  PROVE  CameraInd'
<1>1. t \in Tracks /\ Queued' = Queued
  BY CameraState DEF Queued
<1>2. /\ Steady /\ remembered' \subseteq Tracks /\ exited' \subseteq Tracks
  BY <1>1, CameraState, Identified DEF TrackerTypeOK
<1>3. TrackerInd'
  BY <1>2, CameraState, QuietStep
<1>4. Followed' /\ Alternating' /\ Counted' /\ DepthsAreTold'
  BY <1>1, QuietQueue
<1>5. BillingInv'
  <2>1. TypeOK'
    BY <1>3, CameraState DEF TypeOK, TrackerInd, TrackerInv
  <2>2. \A u \in Queued' : Known(u)'
    BY <1>1, <1>2, CameraState, KnownStays
  <2>3. Departed' = {} /\ depth' <= Cardinality(Queued' \intersect present')
    BY <1>1, CameraState DEF Departed
  <2>4. QED
    BY <1>3, <2>1, <2>2, <2>3 DEF BillingInv, TrackerInd
<1>6. QED
  BY <1>3, <1>4, <1>5, CameraState DEF CameraInd

\* A customer joins the queue.
LEMMA CameraJoins ==
  ASSUME CameraInd, NEW t \in todo, NEW embedded,
         NEW id \in Identities(t, FALSE, embedded), GetOrCreate(t, embedded, id),
         Departed = {}, todo' = todo \ {t}, t \notin Queued,
         inQueue' = [inQueue EXCEPT ![t] = frame],
         Emit("JOIN", t, id.visitor, [depth |-> Cardinality(Queued) + 1, dwell |-> 0]),
         UNCHANGED <<exited, frame, present, staff, depth, ended>>
  PROVE  CameraInd'
<1>1. t \in Tracks /\ t \in present /\ frame # 0
  BY CameraState
<1>2. inQueue' \in [Tracks -> 0 .. MaxFrames] /\ Queued' = Queued \union {t}
  <2>1. inQueue \in [Tracks -> 0 .. MaxFrames] /\ frame \in 0 .. MaxFrames
    BY CameraState
  <2>2. inQueue'[t] = frame /\ \A u \in Tracks \ {t} : inQueue'[u] = inQueue[u]
    BY <1>1, <2>1
  <2>3. QED
    BY <1>1, <2>1, <2>2 DEF Queued
<1>3. /\ id.visitor \in Tracks /\ Steady /\ visitorOf'[t] = id.visitor
      /\ remembered' \subseteq Tracks /\ exited' \subseteq Tracks
  <2>1. TrackerTypeOK
    BY CameraState
  <2>2. exited' \subseteq Tracks
    BY <2>1 DEF TrackerTypeOK
  <2>3. QED
    BY <1>1, <2>1, <2>2, Identified
<1>4. TrackerInd'
  BY <1>1, <1>3, CameraState, EmitStep
<1>5. Followed' /\ Alternating' /\ Counted' /\ DepthsAreTold'
  BY <1>1, <1>2, Joined
<1>6. depth' <= Cardinality(Queued' \intersect present')
  <2>1. IsFiniteSet(Queued') /\ Queued \intersect present \subseteq Queued' \intersect present
    BY <1>2, CameraState, FS_AddElement
  <2>2. IsFiniteSet(Queued' \intersect present)
    BY <2>1, FS_Intersection
  <2>3. /\ IsFiniteSet(Queued \intersect present)
        /\ Cardinality(Queued \intersect present) <= Cardinality(Queued' \intersect present)
    BY <2>1, <2>2, FS_Subset
  <2>4. Cardinality(Queued \intersect present) \in Nat /\ Cardinality(Queued' \intersect present) \in Nat
    BY <2>2, <2>3, FS_CardinalityType
  <2>5. QED
    BY <2>3, <2>4, CameraState
<1>7. BillingInv'
  <2>1. TypeOK'
    BY <1>2, <1>4, CameraState DEF TypeOK, TrackerInd, TrackerInv
  <2>2. ASSUME NEW u \in Queued'
        PROVE  Known(u)'
    <3>1. CASE u = t
      BY <1>3, <3>1, NoVisitorAssumption DEF Known
    <3>2. CASE u # t
      <4>1. u \in Queued /\ u \in Tracks /\ Known(u)
        BY <1>2, <2>2, <3>2, CameraState
      <4>2. QED
        BY <1>3, <4>1, CameraState, KnownStays
    <3>3. QED
      BY <3>1, <3>2
  <2>3. Departed' = {}
    BY <1>1, <1>2 DEF Departed
  <2>4. QED
    BY <1>4, <1>6, <2>1, <2>2, <2>3 DEF BillingInv, TrackerInd
<1>8. QED
  BY <1>1, <1>4, <1>5, <1>7 DEF CameraInd

\* The video is over, or nothing happens.
LEMMA CameraEnds ==
  ASSUME CameraInd, EndOfVideo \/ UNCHANGED vars
  PROVE  CameraInd'
<1>1. /\ UNCHANGED <<visitorOf, remembered, exited, seqs, events>>
      /\ UNCHANGED <<frame, present, staff, todo, inQueue, depth>> /\ ended' \in BOOLEAN
  BY CameraState DEF EndOfVideo, vars, trackerVars, queueVars
<1>2. Queued' = Queued /\ Departed' = Departed
  BY <1>1 DEF Queued, Departed
<1>3. TrackerInd'
  BY <1>1, CameraState, QuietStep DEF Steady, TrackerTypeOK
<1>4. Followed' /\ Alternating' /\ Counted' /\ DepthsAreTold'
  BY <1>1, <1>2, QuietQueue
<1>5. BillingInv'
  BY <1>1, <1>2, <1>3, CameraState DEF BillingInv, TypeOK, TrackerInd, TrackerInv, Known
<1>6. QED
  BY <1>1, <1>3, <1>4, <1>5, CameraState DEF CameraInd

\* The camera keeps its invariant.
LEMMA CameraSteps ==
  ASSUME CameraInd, [Next]_vars
  PROVE  CameraInd'
<1>1. ASSUME NEW t \in Tracks, SkipStaff(t)
      PROVE  CameraInd'
  BY <1>1, CameraIdentifies DEF SkipStaff
<1>2. ASSUME NEW t \in Tracks, NEW embedded \in BOOLEAN, Customer(t, embedded)
      PROVE  CameraInd'
  <2>1. CASE t \in Queued
    BY <1>2, <2>1, CameraIdentifies DEF Customer
  <2>2. CASE t \notin Queued
    BY <1>2, <2>2, CameraJoins DEF Customer
  <2>3. QED
    BY <2>1, <2>2
<1>3. QED
  BY <1>1, <1>2, CameraReads, CameraAbandons, CameraEnds DEF Next

\* A step of the camera emits one event, if any.
LEMMA CameraEmits ==
  ASSUME CameraInd, [Next]_vars, NEW n, n = Len(events)
  PROVE  /\ n \in Nat /\ DOMAIN events = 1 .. n
         /\ \/ events' = events
            \/ /\ events' # events
               /\ Len(events') = n + 1 /\ DOMAIN events' = 1 .. n + 1
               /\ \A i \in 1 .. n : events'[i] = events[i]
<1>1. \E S : events \in Seq(S)
  BY DEF CameraInd, TrackerInd, Recorded
<1>2. events' = events \/ \E type, t, v, data : Emit(type, t, v, data)
  BY DEF Next, ReadFrame, Abandon, SkipStaff, Customer, EndOfVideo, vars, trackerVars
<1>3. ASSUME NEW type, NEW t, NEW v, NEW data, Emit(type, t, v, data)
      PROVE  /\ n \in Nat /\ Len(events') = n + 1 /\ DOMAIN events' = 1 .. n + 1
             /\ \A i \in 1 .. n : events'[i] = events[i]
  BY <1>1, <1>3, EmitAppends
<1>4. n \in Nat /\ DOMAIN events = 1 .. n
  BY <1>1
<1>5. QED
  BY <1>2, <1>3, <1>4

\* A new run starts as the first one did.
LEMMA ForgetStarts == Forget => Init'
BY DEF Forget, Init, TrackerInit

-----------------------------------------------------------------------------
(* The runs of the video *)

Kinds == {"JOIN", "ABANDON"}

\* What a run leaves, and that the people it leaves in the queue are those its
\* events tell of.
Outcome == [types : Seq(Kinds), frames : Nat, left : Nat, failures : Nat, lost : Nat]
EventsOf(r, type) == {i \in DOMAIN r.types : r.types[i] = type}
Balanced(r) == r.left = Cardinality(EventsOf(r, "JOIN")) - Cardinality(EventsOf(r, "ABANDON"))

Stages ==
  /\ stage \in {"idle", "running", "flushing"}
  /\ stage # "running" => events = <<>>
  /\ stage = "idle" => pending = <<>> /\ failures = 0
  /\ stage = "flushing" => past # <<>>

Ledger ==
  /\ past \in Seq(Outcome)
  /\ \A k \in DOMAIN past : Balanced(past[k])
  /\ failures \in Nat
  /\ \E S : pending \in Seq(S)

\* What the runs are: this one, and those that are over.
RunsSound ==
  /\ run \in Nat \ {0}
  /\ DOMAIN Runs = 1 .. run /\ Runs[run] = Current
  /\ \A k \in 1 .. run - 1 : Runs[k] = past[k] /\ k \in DOMAIN past
  /\ Current \in Outcome /\ Balanced(Current)
  /\ Current.failures = failures /\ Current.lost = Len(pending)
  /\ stage # "flushing" => Current.types = Result.types /\ run = Len(past) + 1
  /\ stage = "flushing" => Current.types = past[run].types /\ run = Len(past)

\* What is kept of a run is what its events tell.
LEMMA ResultIs ==
  CameraInd => Result \in Outcome /\ Balanced(Result) /\ Len(Result.types) = Len(events)
<1> SUFFICES ASSUME CameraInd
             PROVE  Result \in Outcome /\ Balanced(Result) /\ Len(Result.types) = Len(events)
  OBVIOUS
<1>1. PICK n : n = Len(events)
  OBVIOUS
<1>2. n \in Nat /\ DOMAIN events = 1 .. n /\ \A i \in 1 .. n : events[i].type \in Kinds
  <2>1. \E S : events \in Seq(S)
    BY DEF CameraInd, TrackerInd, Recorded
  <2>2. QED
    BY <1>1, <2>1 DEF CameraInd, Followed, Kinds
<1>3. PICK types : types = [i \in 1 .. n |-> events[i].type]
  OBVIOUS
<1>4. /\ types \in Seq(Kinds) /\ Len(types) = n /\ DOMAIN types = 1 .. n
      /\ \A i \in 1 .. n : types[i] = events[i].type
  BY <1>2, <1>3
<1>5. /\ Result.types = types /\ Result.left = Cardinality(Queued)
      /\ Result = [types |-> types, frames |-> frame, left |-> Cardinality(Queued),
                   failures |-> 0, lost |-> 0]
  BY <1>2, <1>3 DEF Result
<1>6. Result \in Outcome
  BY <1>4, <1>5, CameraState DEF Outcome
<1>7. Balanced(Result)
  <2>1. \A type : EventsOf(Result, type) = OfType(type)
    BY <1>2, <1>4, <1>5 DEF EventsOf, OfType
  <2>2. QED
    BY <1>5, <2>1 DEF Balanced, CameraInd, Counted
<1>8. QED
  BY <1>1, <1>4, <1>5, <1>6, <1>7

\* They are so when the stage and the ledger are right.
LEMMA RunsAre == CameraInd /\ Stages /\ Ledger => RunsSound
<1> SUFFICES ASSUME CameraInd, Stages, Ledger PROVE RunsSound
  OBVIOUS
<1>1. /\ Len(past) \in Nat /\ DOMAIN past = 1 .. Len(past)
      /\ past # <<>> => Len(past) # 0
      /\ Len(pending) \in Nat /\ failures \in Nat
  BY DEF Ledger
<1>2. /\ run \in Nat \ {0}
      /\ stage # "flushing" => run = Len(past) + 1
      /\ stage = "flushing" => run = Len(past) /\ run \in DOMAIN past
      /\ run - 1 <= Len(past)
  <2>1. PICK m \in Nat : m = Len(past)
    BY <1>1
  <2>2. CASE stage = "flushing"
    <3>1. run = m
      BY <2>1, <2>2 DEF run
    <3>2. past # <<>>
      BY <2>2 DEF Stages
    <3>3. m # 0
      BY <1>1, <2>1, <3>2
    <3>4. m \in Nat \ {0} /\ m \in DOMAIN past /\ m - 1 <= m
      BY <1>1, <2>1, <3>3
    <3>5. QED
      BY <2>1, <2>2, <3>1, <3>4
  <2>3. CASE stage # "flushing"
    <3>1. run = m + 1
      BY <2>1, <2>3 DEF run
    <3>2. m + 1 \in Nat \ {0} /\ (m + 1) - 1 <= m
      BY <2>1
    <3>3. QED
      BY <2>1, <2>3, <3>1, <3>2
  <2>4. QED
    BY <2>2, <2>3
<1>3. PICK r \in Outcome : Balanced(r) /\ r = IF stage = "flushing" THEN past[run] ELSE Result
  BY <1>2, ResultIs DEF Ledger
<1>4. Current = [r EXCEPT !.failures = failures, !.lost = Len(pending)]
  BY <1>3 DEF Current
<1>5. /\ Current \in Outcome /\ Current.types = r.types /\ Current.left = r.left
      /\ Current.failures = failures /\ Current.lost = Len(pending)
  BY <1>1, <1>3, <1>4 DEF Outcome
<1>6. Balanced(Current)
  BY <1>3, <1>5 DEF Balanced, EventsOf
<1>7. DOMAIN Runs = 1 .. run /\ Runs[run] = Current
  BY <1>2 DEF Runs
<1>8. \A k \in 1 .. run - 1 : Runs[k] = past[k] /\ k \in DOMAIN past
  <2>1. PICK m \in Nat : m = run
    BY <1>2
  <2>2. m - 1 <= Len(past)
    BY <1>2, <2>1
  <2>3. \A k \in 1 .. m - 1 : k \in 1 .. m /\ k # m /\ k \in 1 .. Len(past)
    BY <1>1, <2>1, <2>2
  <2>4. QED
    BY <1>1, <2>1, <2>3 DEF Runs
<1>9. QED
  BY <1>2, <1>3, <1>5, <1>6, <1>7, <1>8 DEF RunsSound

-----------------------------------------------------------------------------
(* The events of the runs *)

Buffered == Promise!Elements(pending)

\* The events emitted are those of the runs.
Numbered == known = UNION {{<<k, i>> : i \in DOMAIN Runs[k].types} : k \in 1 .. run}

\* The buffer holds the latest ones of this run.
Buffer ==
  /\ Len(pending) <= BatchSize /\ Len(pending) <= Len(Current.types)
  /\ \A i \in DOMAIN pending : pending[i] = <<run, Len(Current.types) - Len(pending) + i>>

\* What is absent is counted, or in the buffer, or was in it when the run ended.
Accounted ==
  /\ IsFiniteSet(known)
  /\ Cardinality(Missing(run) \ Buffered) <= failures
  /\ \A k \in 1 .. run - 1 : Cardinality(Missing(k)) <= Runs[k].failures + Runs[k].lost

\* The events of run k before e that are absent but for those of batch B.
Before(B, k, e) == {x \in Missing(k) \ B : x[2] < e[2]}

\* A batch is stored as a whole; when it was posted, what was absent before it was
\* counted.
Batches ==
  /\ UNION sealed \subseteq known
  /\ \A e \in delivered : \E B \in sealed : e \in B /\ B \subseteq delivered
  /\ \A B \in sealed : \A e \in B : \A k \in 1 .. run :
       e[1] = k => Cardinality(Before(B, k, e)) <= Runs[k].failures

RunsInd ==
  /\ CameraInd /\ Stages /\ Ledger
  /\ Numbered /\ Buffer /\ Accounted /\ Batches

\* A part of the events.
LEMMA Fewer ==
  ASSUME IsFiniteSet(known), NEW T, T \subseteq known, NEW S, S \subseteq T
  PROVE  /\ IsFiniteSet(S) /\ Cardinality(S) \in Nat
         /\ Cardinality(T) \in Nat /\ Cardinality(S) <= Cardinality(T)
<1>1. IsFiniteSet(T)
  BY FS_Subset
<1>2. IsFiniteSet(S) /\ Cardinality(S) <= Cardinality(T)
  BY <1>1, FS_Subset
<1>3. QED
  BY <1>1, <1>2, FS_CardinalityType

\* The events, by their run and number.
LEMMA EventsOfRuns ==
  ASSUME RunsInd
  PROVE  /\ run \in Nat \ {0} /\ Len(pending) \in Nat /\ DOMAIN pending = 1 .. Len(pending)
         /\ Len(Current.types) \in Nat /\ DOMAIN Current.types = 1 .. Len(Current.types)
         /\ \A k \in 1 .. run : DOMAIN Runs[k].types = 1 .. Len(Runs[k].types)
                                /\ Len(Runs[k].types) \in Nat /\ Runs[k].failures \in Nat
                                /\ Runs[k].lost \in Nat
         /\ \A k, i : <<k, i>> \in known <=> k \in 1 .. run /\ i \in DOMAIN Runs[k].types
         /\ \A e \in known : e[1] \in 1 .. run /\ e[2] \in DOMAIN Runs[e[1]].types /\ e = <<e[1], e[2]>>
         /\ delivered \subseteq known /\ \A B \in sealed : B \subseteq known
<1>1. CameraInd /\ Stages /\ Ledger
  BY DEF RunsInd
<1>2. /\ run \in Nat \ {0} /\ Runs[run] = Current /\ Current \in Outcome
      /\ \A k \in 1 .. run - 1 : Runs[k] = past[k] /\ k \in DOMAIN past
  BY <1>1, RunsAre DEF RunsSound
<1>3. Len(pending) \in Nat /\ DOMAIN pending = 1 .. Len(pending) /\ \A k \in DOMAIN past : past[k] \in Outcome
  BY <1>1 DEF Ledger
<1>4. \A k \in 1 .. run : Runs[k] \in Outcome
  <2>1. \A k \in 1 .. run : k = run \/ k \in 1 .. run - 1
    BY <1>2
  <2>2. QED
    BY <1>2, <1>3, <2>1
<1>5. \A r \in Outcome : /\ DOMAIN r.types = 1 .. Len(r.types) /\ Len(r.types) \in Nat
                         /\ r.failures \in Nat /\ r.lost \in Nat
  BY DEF Outcome
<1>6. known = UNION {{<<k, i>> : i \in DOMAIN Runs[k].types} : k \in 1 .. run}
  BY DEF RunsInd, Numbered
<1>7. \A e \in known : \E k \in 1 .. run : \E i \in DOMAIN Runs[k].types : e = <<k, i>>
  BY <1>6
<1>8. \A e \in known : e[1] \in 1 .. run /\ e[2] \in DOMAIN Runs[e[1]].types /\ e = <<e[1], e[2]>>
  BY <1>7
<1>9. \A k \in 1 .. run : \A i \in DOMAIN Runs[k].types : <<k, i>> \in known
  BY <1>6
<1>10. \A k, i : <<k, i>> \in known <=> k \in 1 .. run /\ i \in DOMAIN Runs[k].types
  BY <1>8, <1>9
<1>11. delivered \subseteq known /\ \A B \in sealed : B \subseteq known
  BY DEF RunsInd, Batches
<1>12. QED
  BY <1>2, <1>3, <1>4, <1>5, <1>8, <1>10, <1>11

\* What is absent is part of the events, and what is before an event of it.
LEMMA MissingOnes ==
  ASSUME NEW k
  PROVE  /\ Missing(k) \subseteq known
         /\ \A B, e : Before(B, k, e) \subseteq Missing(k) /\ Before(B, k, e) \subseteq known
BY DEF Missing, Before

\* The buffer has no more events than its length.
LEMMA BufferSize ==
  ASSUME RunsInd
  PROVE  IsFiniteSet(Buffered) /\ Cardinality(Buffered) \in Nat /\ Cardinality(Buffered) <= Len(pending)
<1>1. PICK n \in Nat : n = Len(pending) /\ DOMAIN pending = 1 .. n
  BY EventsOfRuns
<1> DEFINE f == [i \in 1 .. n |-> pending[i]]
<1>2. f \in Surjection(1 .. n, Buffered)
  BY <1>1 DEF Surjection, Buffered, Promise!Elements
<1>3. IsFiniteSet(1 .. n) /\ Cardinality(1 .. n) = n
  BY FS_Interval
<1> HIDE DEF f
<1>5. IsFiniteSet(Buffered) /\ Cardinality(Buffered) <= n
  BY <1>2, <1>3, FS_Surjection
<1>6. QED
  BY <1>1, <1>5, FS_CardinalityType

\* All that is absent of this run.
LEMMA AbsentNow ==
  ASSUME RunsInd
  PROVE  /\ Cardinality(Missing(run)) \in Nat
         /\ Cardinality(Missing(run)) <= failures + Len(pending)
<1>1. PICK r : r = run
  OBVIOUS
<1>2. IsFiniteSet(known) /\ Cardinality(Missing(r) \ Buffered) <= failures /\ failures \in Nat
  BY <1>1 DEF RunsInd, Accounted, Ledger
<1>3. /\ Missing(r) \subseteq known /\ Missing(r) \ Buffered \subseteq Missing(r)
      /\ Missing(r) \intersect Buffered \subseteq Buffered
  BY MissingOnes
<1>4. /\ IsFiniteSet(Missing(r)) /\ IsFiniteSet(Missing(r) \ Buffered)
      /\ Cardinality(Missing(r)) \in Nat /\ Cardinality(Missing(r) \ Buffered) \in Nat
  BY <1>2, <1>3, Fewer
<1>5. /\ Cardinality(Missing(r) \intersect Buffered) <= Cardinality(Buffered)
      /\ IsFiniteSet(Missing(r) \intersect Buffered)
      /\ Cardinality(Buffered) \in Nat /\ Cardinality(Buffered) <= Len(pending)
  BY <1>3, BufferSize, FS_Subset
<1>6. Cardinality(Missing(r) \intersect Buffered) \in Nat
  BY <1>5, FS_CardinalityType
<1>7. Cardinality(Missing(r) \ Buffered) = Cardinality(Missing(r)) - Cardinality(Missing(r) \intersect Buffered)
  BY <1>4, FS_Difference
<1>8. Len(pending) \in Nat
  BY EventsOfRuns
<1>9. QED
  BY <1>1, <1>2, <1>4, <1>5, <1>6, <1>7, <1>8

-----------------------------------------------------------------------------
(* The steps of the pipeline *)

\* The runs after a step that begins none and changes no event of them.
LEMMA SameRuns ==
  ASSUME RunsInd, CameraInd', Stages', Ledger', run' = run,
         \A k \in 1 .. run - 1 : past'[k] = past[k],
         Current'.types = Current.types
  PROVE  /\ \A k \in 1 .. run - 1 : Runs'[k] = Runs[k]
         /\ Runs[run].types = Current.types /\ Runs'[run].types = Current.types
         /\ Runs[run].failures = failures /\ Runs'[run].failures = failures'
         /\ Runs[run].lost = Len(pending) /\ Runs'[run].lost = Len(pending')
         /\ \A k \in 1 .. run : k = run \/ k \in 1 .. run - 1
         /\ \A k \in 1 .. run : Runs'[k].types = Runs[k].types
<1>1. /\ run \in Nat \ {0} /\ Runs[run] = Current
      /\ \A k \in 1 .. run - 1 : Runs[k] = past[k]
      /\ Current.failures = failures /\ Current.lost = Len(pending)
  BY RunsAre DEF RunsInd, RunsSound
<1>2. /\ Runs'[run'] = Current'
      /\ \A k \in 1 .. run' - 1 : Runs'[k] = past'[k]
      /\ Current'.failures = failures' /\ Current'.lost = Len(pending')
  <2>1. RunsSound'
    BY RunsAre, PTL
  <2>2. QED
    BY <2>1 DEF RunsSound
<1>3. \A k \in 1 .. run - 1 : Runs'[k] = Runs[k]
  BY <1>1, <1>2
<1>4. \A k \in 1 .. run : k = run \/ k \in 1 .. run - 1
  BY <1>1
<1>5. Runs[run].types = Current.types /\ Runs'[run].types = Current.types
  BY <1>1, <1>2
<1>6. Runs[run].failures = failures /\ Runs'[run].failures = failures'
      /\ Runs[run].lost = Len(pending) /\ Runs'[run].lost = Len(pending')
  BY <1>1, <1>2
<1>7. \A k \in 1 .. run : Runs'[k].types = Runs[k].types
  BY <1>3, <1>4, <1>5
<1>8. QED
  BY <1>3, <1>4, <1>5, <1>6, <1>7

\* A step that leaves the runs, the buffer and the database alone.
LEMMA SameDelivery ==
  ASSUME RunsInd, CameraInd', Stages', Ledger', run' = run,
         \A k \in 1 .. run - 1 : past'[k] = past[k],
         Current'.types = Current.types,
         UNCHANGED <<known, pending, sealed, delivered, failures>>
  PROVE  RunsInd'
<1>1. /\ \A k \in 1 .. run - 1 : Runs'[k] = Runs[k]
      /\ \A k \in 1 .. run : k = run \/ k \in 1 .. run - 1
      /\ \A k \in 1 .. run : Runs'[k].types = Runs[k].types
      /\ Runs[run].failures = failures /\ Runs'[run].failures = failures'
  BY SameRuns
<1>2. Numbered'
  BY <1>1 DEF RunsInd, Numbered
<1>3. Buffer'
  BY DEF RunsInd, Buffer
<1>4. (\A k : Missing(k)' = Missing(k)) /\ Buffered' = Buffered
  BY DEF Missing, Buffered, Promise!Elements
<1>5. Accounted'
  BY <1>1, <1>4 DEF RunsInd, Accounted
<1>6. \A B, k, e : Before(B, k, e)' = Before(B, k, e)
  BY <1>4 DEF Before
<1>7. \A k \in 1 .. run : Runs'[k].failures = Runs[k].failures
  BY <1>1
<1>8. Batches'
  BY <1>6, <1>7 DEF RunsInd, Batches
<1>9. QED
  BY <1>2, <1>3, <1>5, <1>8 DEF RunsInd

\* What happens to the camera in the pipeline's steps.
LEMMA CameraInPipeline ==
  ASSUME CameraInd, [Next]_vars \/ Forget
  PROVE  CameraInd'
<1>1. Init' => CameraInd'
  BY CameraStarts, PTL
<1>2. QED
  BY <1>1, CameraSteps, ForgetStarts

\* The video is opened.
LEMMA Opens ==
  ASSUME RunsInd, Open
  PROVE  RunsInd'
<1>1. /\ stage = "idle" /\ stage' = "running" /\ UNCHANGED vars /\ past' = past
      /\ UNCHANGED <<known, pending, sealed, delivered, failures>>
  BY DEF Open, deliveryVars
<1>2. UNCHANGED <<events, frame, inQueue>>
  BY <1>1 DEF vars, trackerVars, queueVars
<1>3. CameraInd'
  BY <1>1, CameraInPipeline DEF RunsInd
<1>4. Stages'
  BY <1>1, <1>2 DEF RunsInd, Stages
<1>5. Ledger'
  BY <1>1 DEF RunsInd, Ledger, Balanced, EventsOf
<1>6. run' = run
  BY <1>1 DEF run
<1>7. Current'.types = Current.types
  <2>1. Result' = Result
    BY <1>2 DEF Result, Queued
  <2>2. Current' = Current
    BY <1>1, <2>1 DEF Current
  <2>3. QED
    BY <2>2
<1>8. QED
  BY <1>1, <1>3, <1>4, <1>5, <1>6, <1>7, SameDelivery

\* The loop goes on without an event.
LEMMA ProcessesQuietly ==
  ASSUME RunsInd, Process, events' = events
  PROVE  RunsInd'
<1>1. /\ stage = "running" /\ stage' = "running" /\ Next /\ past' = past
      /\ UNCHANGED <<known, pending, sealed, delivered, failures>>
  BY DEF Process, deliveryVars
<1>2. CameraInd'
  BY <1>1, CameraInPipeline DEF RunsInd
<1>3. Stages'
  BY <1>1 DEF RunsInd, Stages
<1>4. Ledger'
  BY <1>1 DEF RunsInd, Ledger, Balanced, EventsOf
<1>5. run' = run
  BY <1>1 DEF run
<1>6. Current'.types = Current.types
  <2>1. Result'.types = Result.types
    BY DEF Result
  <2>2. Current.types = Result.types
    BY <1>1, RunsAre DEF RunsInd, RunsSound
  <2>3. RunsSound'
    BY <1>2, <1>3, <1>4, RunsAre, PTL
  <2>4. Current'.types = Result'.types
    BY <1>1, <2>3 DEF RunsSound
  <2>5. QED
    BY <2>1, <2>2, <2>4
<1>7. QED
  BY <1>1, <1>2, <1>3, <1>4, <1>5, <1>6, SameDelivery

\* The loop is left.
LEMMA LoopIsLeft ==
  ASSUME RunsInd, LeaveLoop
  PROVE  RunsInd'
<1>1. /\ stage = "running" /\ stage' = "flushing" /\ past' = Append(past, Result) /\ Forget
      /\ UNCHANGED <<known, pending, sealed, delivered, failures>>
  BY DEF LeaveLoop, deliveryVars
<1>2. CameraInd'
  BY <1>1, CameraInPipeline DEF RunsInd
<1>3. PICK r : r = Result /\ r \in Outcome /\ Balanced(r)
  BY ResultIs DEF RunsInd
<1>4. PICK n \in Nat : n = Len(past) /\ DOMAIN past = 1 .. n
  BY DEF RunsInd, Ledger
<1>5. /\ past' \in Seq(Outcome) /\ Len(past') = n + 1 /\ DOMAIN past' = 1 .. n + 1
      /\ past'[n + 1] = r /\ \A k \in 1 .. n : past'[k] = past[k]
  <2>1. past \in Seq(Outcome)
    BY DEF RunsInd, Ledger
  <2>2. QED
    BY <1>1, <1>3, <1>4, <2>1
<1>6. Stages'
  <2>1. events' = <<>>
    BY <1>1 DEF Forget
  <2>2. past' # <<>>
    BY <1>4, <1>5
  <2>3. QED
    BY <1>1, <2>1, <2>2 DEF Stages
<1>7. Ledger'
  <2>1. \A k \in DOMAIN past' : k \in 1 .. n \/ k = n + 1
    BY <1>5
  <2>2. \A k \in 1 .. n : Balanced(past[k])
    BY <1>4 DEF RunsInd, Ledger
  <2>3. \A k \in DOMAIN past' : Balanced(past'[k])
    BY <1>3, <1>5, <2>1, <2>2
  <2>4. QED
    BY <1>1, <1>5, <2>3 DEF RunsInd, Ledger, Balanced, EventsOf
<1>8. run = n + 1 /\ run' = run
  BY <1>1, <1>4, <1>5 DEF run
<1>9. Current'.types = Current.types
  <2>1. Current.types = r.types
    BY <1>1, <1>3, RunsAre DEF RunsInd, RunsSound
  <2>2. RunsSound'
    BY <1>2, <1>6, <1>7, RunsAre, PTL
  <2>3. Current'.types = past'[run'].types
    BY <1>1, <2>2 DEF RunsSound
  <2>4. QED
    BY <1>5, <1>8, <2>1, <2>3
<1>10. \A k \in 1 .. run - 1 : past'[k] = past[k]
  BY <1>4, <1>5, <1>8
<1>11. QED
  BY <1>1, <1>2, <1>6, <1>7, <1>8, <1>9, <1>10, SameDelivery

\* The loop goes on, and an event goes into the buffer.
LEMMA ProcessesEvent ==
  ASSUME RunsInd, Process, events' # events
  PROVE  RunsInd'
<1>1. /\ stage = "running" /\ stage' = "running" /\ Next /\ past' = past
      /\ Promise!Generate(<<run, Len(events')>>) /\ Len(pending) < BatchSize
  BY DEF Process
<1>2. PICK n : n = Len(events)
  OBVIOUS
<1>3. PICK r : r = run
  OBVIOUS
<1>4. n \in Nat /\ Len(events') = n + 1 /\ DOMAIN events' = 1 .. n + 1
  BY <1>1, <1>2, CameraEmits DEF RunsInd
<1>5. PICK e : e = <<r, n + 1>>
  OBVIOUS
<1>6. /\ e \notin known /\ known' = known \union {e} /\ pending' = Append(pending, e)
      /\ UNCHANGED <<sealed, delivered, failures>>
  BY <1>1, <1>3, <1>4, <1>5 DEF Promise!Generate
<1>7. PICK p \in Nat : p = Len(pending) /\ DOMAIN pending = 1 .. p
  BY EventsOfRuns
<1>8. /\ Len(pending') = p + 1 /\ DOMAIN pending' = 1 .. p + 1 /\ pending'[p + 1] = e
      /\ \A i \in 1 .. p : pending'[i] = pending[i] /\ (\E S : pending' \in Seq(S))
  <2>1. PICK S : pending \in Seq(S)
    BY DEF RunsInd, Ledger
  <2>2. pending \in Seq(S \union {e}) /\ pending' \in Seq(S \union {e})
    BY <1>6, <2>1
  <2>3. QED
    BY <1>6, <1>7, <2>1, <2>2
<1>9. CameraInd'
  BY <1>1, CameraInPipeline DEF RunsInd
<1>10. Stages'
  BY <1>1 DEF RunsInd, Stages
<1>11. Ledger'
  <2>1. \E S : pending' \in Seq(S)
    <3>1. PICK S : pending \in Seq(S)
      BY DEF RunsInd, Ledger
    <3>2. pending' \in Seq(S \union {e})
      BY <1>6, <3>1
    <3>3. QED
      BY <3>2
  <2>2. QED
    BY <1>1, <1>6, <2>1 DEF RunsInd, Ledger, Balanced, EventsOf
<1>12. run' = run
  BY <1>1 DEF run
<1>13. /\ r \in Nat \ {0}
       /\ Runs[r] = Current /\ Len(Current.types) = n
       /\ \A k \in 1 .. r - 1 : Runs[k] = past[k]
       /\ Current.failures = failures
  BY <1>1, <1>2, <1>3, RunsAre, ResultIs DEF RunsInd, RunsSound
<1>14. /\ Runs'[r] = Current' /\ Len(Current'.types) = n + 1
       /\ \A k \in 1 .. r - 1 : Runs'[k] = past'[k]
       /\ Current'.failures = failures'
  <2>1. RunsSound'
    BY <1>9, <1>10, <1>11, RunsAre, PTL
  <2>2. Len(Result'.types) = Len(events')
    <3>1. (CameraInd => Result \in Outcome /\ Balanced(Result) /\ Len(Result.types) = Len(events))'
      BY ResultIs, PTL
    <3>2. QED
      BY <1>9, <3>1
  <2>3. QED
    BY <1>1, <1>3, <1>4, <1>12, <2>1, <2>2 DEF RunsSound
<1>15. \A k \in 1 .. r - 1 : Runs'[k] = Runs[k]
  BY <1>1, <1>13, <1>14
<1>16. \A k \in 1 .. r : k = r \/ k \in 1 .. r - 1
  BY <1>13
<1>17. DOMAIN Runs[r].types = 1 .. n /\ DOMAIN Runs'[r].types = 1 .. n + 1
  <2>1. Current \in Outcome /\ Current' \in Outcome
    <3>1. RunsSound'
      BY <1>9, <1>10, <1>11, RunsAre, PTL
    <3>2. QED
      BY <3>1, RunsAre DEF RunsInd, RunsSound
  <2>2. \A o \in Outcome : DOMAIN o.types = 1 .. Len(o.types)
    BY DEF Outcome
  <2>3. QED
    BY <1>13, <1>14, <2>1, <2>2
<1>18. Numbered'
  <2>1. known = UNION {{<<k, i>> : i \in DOMAIN Runs[k].types} : k \in 1 .. r}
    BY <1>3 DEF RunsInd, Numbered
  <2>2. \A k \in 1 .. r - 1 : DOMAIN Runs'[k].types = DOMAIN Runs[k].types
    BY <1>15
  <2>3. ASSUME NEW x
        PROVE  x \in known' <=> \E k \in 1 .. r : \E i \in DOMAIN Runs'[k].types : x = <<k, i>>
    <3>1. x \in known <=> \E k \in 1 .. r : \E i \in DOMAIN Runs[k].types : x = <<k, i>>
      BY <2>1
    <3>2. r \in 1 .. r /\ n + 1 \in 1 .. n + 1 /\ \A i \in 1 .. n : i \in 1 .. n + 1
      BY <1>4, <1>13
    <3>3. \A i \in 1 .. n + 1 : i \in 1 .. n \/ i = n + 1
      BY <1>4
    <3>4. ASSUME x \in known'
          PROVE  \E k \in 1 .. r : \E i \in DOMAIN Runs'[k].types : x = <<k, i>>
      <4>1. CASE x = e
        BY <1>5, <1>17, <3>2, <4>1
      <4>2. CASE x \in known
        <5>1. PICK k \in 1 .. r : \E i \in DOMAIN Runs[k].types : x = <<k, i>>
          BY <3>1, <4>2
        <5>2. \A i \in DOMAIN Runs[k].types : i \in DOMAIN Runs'[k].types
          BY <1>16, <1>17, <2>2, <3>2, <5>1
        <5>3. QED
          BY <5>1, <5>2
      <4>3. QED
        BY <1>6, <3>4, <4>1, <4>2
    <3>5. ASSUME NEW k \in 1 .. r, NEW i \in DOMAIN Runs'[k].types, x = <<k, i>>
          PROVE  x \in known'
      <4>1. CASE k # r
        BY <1>6, <1>16, <2>2, <3>1, <3>5, <4>1
      <4>2. CASE k = r /\ i \in 1 .. n
        BY <1>6, <1>17, <3>1, <3>5, <4>2
      <4>3. CASE k = r /\ i = n + 1
        BY <1>5, <1>6, <3>5, <4>3
      <4>4. QED
        BY <1>17, <3>3, <3>5, <4>1, <4>2, <4>3
    <3>6. QED
      BY <3>4, <3>5
  <2>4. known' = UNION {{<<k, i>> : i \in DOMAIN Runs'[k].types} : k \in 1 .. r}
    BY <2>3
  <2>5. QED
    BY <1>3, <1>12, <2>4 DEF Numbered
<1>19. p + 1 <= BatchSize /\ p <= n
  BY <1>1, <1>4, <1>7, <1>13, BatchSizeAssumption DEF RunsInd, Buffer
<1>20. Buffer'
  <2>1. ASSUME NEW i \in 1 .. p + 1
        PROVE  pending'[i] = <<r, (n + 1) - (p + 1) + i>>
    <3>1. CASE i = p + 1
      BY <1>4, <1>5, <1>7, <1>8, <3>1
    <3>2. CASE i # p + 1
      <4>1. i \in 1 .. p /\ (n + 1) - (p + 1) + i = n - p + i
        BY <1>4, <1>7, <2>1, <3>2
      <4>2. pending[i] = <<r, n - p + i>>
        BY <1>3, <1>7, <1>13, <4>1 DEF RunsInd, Buffer
      <4>3. QED
        BY <1>8, <4>1, <4>2
    <3>3. QED
      BY <3>1, <3>2
  <2>2. p + 1 <= n + 1
    BY <1>4, <1>7, <1>19
  <2>3. QED
    BY <1>3, <1>8, <1>12, <1>14, <1>19, <2>1, <2>2 DEF Buffer
<1>21. /\ e \notin delivered /\ \A B \in sealed : e \notin B
       /\ \A x \in known : x[1] \in 1 .. r /\ (x[1] = r => x[2] \in 1 .. n)
       /\ e[1] = r /\ e[2] = n + 1
  <2>1. delivered \subseteq known /\ \A B \in sealed : B \subseteq known
    BY EventsOfRuns
  <2>2. \A x \in known : x[1] \in 1 .. r /\ x[2] \in DOMAIN Runs[x[1]].types
    BY <1>3, EventsOfRuns
  <2>3. QED
    BY <1>5, <1>6, <1>17, <2>1, <2>2
<1>22. /\ \A k : k # r => Missing(k)' = Missing(k)
       /\ Missing(r)' = Missing(r) \union {e}
  BY <1>6, <1>21 DEF Missing
<1>23. Accounted'
  <2>1. Buffered' = Buffered \union {e}
    <3>1. \A i \in 1 .. p + 1 : i \in 1 .. p \/ i = p + 1
      BY <1>7
    <3>2. QED
      BY <1>7, <1>8, <3>1 DEF Buffered, Promise!Elements
  <2>2. Missing(r)' \ Buffered' \subseteq Missing(r) \ Buffered
    BY <1>22, <2>1
  <2>3. IsFiniteSet(known) /\ Cardinality(Missing(r) \ Buffered) <= failures /\ failures \in Nat
    BY <1>3 DEF RunsInd, Accounted, Ledger
  <2>4. Missing(r) \ Buffered \subseteq known
    BY MissingOnes
  <2>5. /\ Cardinality(Missing(r)' \ Buffered') \in Nat /\ Cardinality(Missing(r) \ Buffered) \in Nat
        /\ Cardinality(Missing(r)' \ Buffered') <= Cardinality(Missing(r) \ Buffered)
    BY <2>2, <2>3, <2>4, Fewer
  <2>6. Cardinality(Missing(r)' \ Buffered') <= failures'
    BY <1>6, <2>3, <2>5
  <2>7. IsFiniteSet(known')
    BY <1>6, <2>3, FS_AddElement
  <2>8. \A k \in 1 .. r - 1 : k # r /\ Cardinality(Missing(k)) <= Runs[k].failures + Runs[k].lost
    BY <1>3, <1>13 DEF RunsInd, Accounted
  <2>9. \A k \in 1 .. r - 1 : Cardinality(Missing(k)') <= Runs'[k].failures + Runs'[k].lost
    BY <1>15, <1>22, <2>8
  <2>10. QED
    BY <1>3, <1>12, <2>6, <2>7, <2>9 DEF Accounted
<1>24. Batches'
  <2>1. ASSUME NEW B \in sealed, NEW x \in B, NEW k \in 1 .. r, x[1] = k
        PROVE  Cardinality(Before(B, k, x)') <= Runs'[k].failures
    <3>1. Cardinality(Before(B, k, x)) <= Runs[k].failures
      BY <1>3, <2>1 DEF RunsInd, Batches
    <3>2. x \in known
      BY <2>1, EventsOfRuns
    <3>3. Before(B, k, x)' = Before(B, k, x)
      <4>1. CASE k # r
        BY <1>22, <4>1 DEF Before
      <4>2. CASE k = r
        <5>1. ~(e[2] < x[2])
          BY <1>4, <1>21, <2>1, <3>2, <4>2
        <5>2. QED
          BY <1>22, <4>2, <5>1 DEF Before
      <4>3. QED
        BY <4>1, <4>2
    <3>4. Runs'[k].failures = Runs[k].failures
      BY <1>6, <1>13, <1>14, <1>15, <1>16, <2>1
    <3>5. QED
      BY <3>1, <3>3, <3>4
  <2>2. UNION sealed' \subseteq known'
    BY <1>6 DEF RunsInd, Batches
  <2>3. \A x \in delivered' : \E B \in sealed' : x \in B /\ B \subseteq delivered'
    BY <1>6 DEF RunsInd, Batches
  <2>4. QED
    BY <1>3, <1>6, <1>12, <2>1, <2>2, <2>3 DEF Batches
<1>25. QED
  BY <1>9, <1>10, <1>11, <1>18, <1>20, <1>23, <1>24 DEF RunsInd

\* A run is over: it is closed with an empty buffer, or killed.
LEMMA Finishes ==
  ASSUME RunsInd, stage # "idle", NEW result,
         result = IF stage = "running" THEN Result ELSE past[run], Finish(result)
  PROVE  RunsInd'
<1>1. /\ stage' = "idle" /\ pending' = <<>> /\ failures' = 0 /\ Forget
      /\ past' = Append(SubSeq(past, 1, run - 1), [result EXCEPT !.failures = failures, !.lost = Len(pending)])
      /\ UNCHANGED <<known, sealed, delivered>>
  BY DEF Finish
<1>2. PICK r : r = run
  OBVIOUS
<1>3. PICK c : c = Current
  OBVIOUS
<1>4. past' = Append(SubSeq(past, 1, r - 1), c)
  <2>1. stage = "running" \/ stage = "flushing"
    BY DEF RunsInd, Stages
  <2>2. result = IF stage = "flushing" THEN past[run] ELSE Result
    BY <2>1
  <2>3. QED
    BY <1>1, <1>2, <1>3, <2>2 DEF Current
<1>5. /\ r \in Nat \ {0} /\ Runs[r] = c /\ c \in Outcome /\ Balanced(c)
      /\ \A k \in 1 .. r - 1 : Runs[k] = past[k] /\ k \in DOMAIN past
      /\ c.failures = failures /\ c.lost = Len(pending)
  BY <1>2, <1>3, RunsAre DEF RunsInd, RunsSound
<1>6. past \in Seq(Outcome) /\ \A k \in DOMAIN past : Balanced(past[k])
  BY DEF RunsInd, Ledger
<1>7. PICK m \in Nat : m = Len(past) /\ DOMAIN past = 1 .. m
  BY <1>6
<1>8. r - 1 \in 0 .. m
  <2>1. PICK p \in Nat : p = r - 1
    BY <1>5
  <2>2. p \in 1 .. p => p \in 1 .. m
    BY <1>5, <1>7, <2>1
  <2>3. QED
    BY <2>1, <2>2
<1>9. PICK s : s = SubSeq(past, 1, r - 1)
  OBVIOUS
<1>10. /\ s \in Seq(Outcome) /\ Len(s) = r - 1
       /\ \A k \in 1 .. r - 1 : s[k] = past[k]
  BY <1>6, <1>7, <1>8, <1>9
<1>11. /\ past' \in Seq(Outcome) /\ Len(past') = r /\ DOMAIN past' = 1 .. r
       /\ past'[r] = c /\ \A k \in 1 .. r - 1 : past'[k] = past[k]
  BY <1>4, <1>5, <1>9, <1>10
<1>12. \A k \in 1 .. r : k = r \/ k \in 1 .. r - 1
  BY <1>5
<1>13. CameraInd'
  BY <1>1, CameraInPipeline DEF RunsInd
<1>14. Stages'
  BY <1>1 DEF Forget, Stages
<1>15. Ledger'
  <2>1. \A k \in DOMAIN past' : Balanced(past'[k])
    BY <1>5, <1>6, <1>11, <1>12
  <2>2. \E S : pending' \in Seq(S)
    BY <1>1
  <2>3. QED
    BY <1>1, <1>11, <2>1, <2>2 DEF Ledger, Balanced, EventsOf
<1>16. run' = r + 1
  BY <1>1, <1>11 DEF run
<1>17. /\ \A k \in 1 .. r : Runs'[k] = Runs[k]
       /\ Runs'[r + 1] = Current' /\ DOMAIN Current'.types = {} /\ Len(Current'.types) = 0
       /\ Runs'[r + 1].failures = 0 /\ Runs'[r + 1].lost = 0
  <2>1. RunsSound'
    BY <1>13, <1>14, <1>15, RunsAre, PTL
  <2>2. (r + 1) - 1 = r
    BY <1>5
  <2>3. /\ \A k \in 1 .. r : Runs'[k] = past'[k]
        /\ Runs'[r + 1] = Current'
        /\ Current'.failures = 0 /\ Current'.lost = 0
    BY <1>1, <1>16, <2>1, <2>2 DEF RunsSound
  <2>4. Current'.types = Result'.types
    BY <1>1, <2>1 DEF RunsSound
  <2>5. Result'.types = <<>>
    <3>1. events' = <<>> /\ DOMAIN events' = {}
      BY <1>1 DEF Forget
    <3>2. Result'.types = [i \in DOMAIN events' |-> events'[i].type]
      BY DEF Result
    <3>3. QED
      BY <3>1, <3>2
  <2>6. QED
    BY <1>5, <1>11, <1>12, <2>3, <2>4, <2>5
<1>18. \A k \in 1 .. r + 1 : k = r + 1 \/ k \in 1 .. r
  BY <1>5
<1>19. Numbered'
  <2>1. known = UNION {{<<k, i>> : i \in DOMAIN Runs[k].types} : k \in 1 .. r}
    BY <1>2 DEF RunsInd, Numbered
  <2>2. \A k \in 1 .. r : DOMAIN Runs'[k].types = DOMAIN Runs[k].types
    BY <1>17
  <2>3. DOMAIN Runs'[r + 1].types = {} /\ \A k \in 1 .. r : k \in 1 .. r + 1
    BY <1>5, <1>17
  <2>4. ASSUME NEW x
        PROVE  x \in known' <=> \E k \in 1 .. r + 1 : \E i \in DOMAIN Runs'[k].types : x = <<k, i>>
    <3>1. x \in known <=> \E k \in 1 .. r : \E i \in DOMAIN Runs[k].types : x = <<k, i>>
      BY <2>1
    <3>2. QED
      BY <1>1, <1>18, <2>2, <2>3, <3>1
  <2>5. known' = UNION {{<<k, i>> : i \in DOMAIN Runs'[k].types} : k \in 1 .. r + 1}
    BY <2>4
  <2>6. QED
    BY <1>16, <2>5 DEF Numbered
<1>20. Buffer'
  <2>1. Len(<<>>) = 0 /\ DOMAIN <<>> = {}
    OBVIOUS
  <2>2. QED
    BY <1>1, <1>17, <2>1, BatchSizeAssumption DEF Buffer
<1>21. /\ \A k : Missing(k)' = Missing(k)
       /\ Missing(r + 1) = {}
       /\ \A x \in known : x[1] \in 1 .. r
       /\ delivered \subseteq known /\ \A B \in sealed : B \subseteq known
  <2>1. /\ \A x \in known : x[1] \in 1 .. r
        /\ delivered \subseteq known /\ \A B \in sealed : B \subseteq known
    BY <1>2, EventsOfRuns
  <2>2. r + 1 \notin 1 .. r
    BY <1>5
  <2>3. QED
    BY <1>1, <2>1, <2>2 DEF Missing
<1>22. Accounted'
  <2>1. \A k \in 1 .. r - 1 : Cardinality(Missing(k)) <= Runs[k].failures + Runs[k].lost
    BY <1>2 DEF RunsInd, Accounted
  <2>2. Cardinality(Missing(r)) <= Runs[r].failures + Runs[r].lost
    BY <1>2, <1>5, AbsentNow
  <2>3. \A k \in 1 .. r : Cardinality(Missing(k)') <= Runs'[k].failures + Runs'[k].lost
    BY <1>12, <1>17, <1>21, <2>1, <2>2
  <2>4. Cardinality(Missing(r + 1)' \ Buffered') <= failures'
    <3>1. Missing(r + 1)' \ Buffered' = {}
      BY <1>21
    <3>2. Cardinality(Missing(r + 1)' \ Buffered') = 0
      BY <3>1, FS_EmptySet
    <3>3. failures' = 0
      BY <1>1
    <3>4. QED
      BY <3>2, <3>3
  <2>5. IsFiniteSet(known')
    BY <1>1 DEF RunsInd, Accounted
  <2>6. (r + 1) - 1 = r
    BY <1>5
  <2>7. QED
    BY <1>16, <2>3, <2>4, <2>5, <2>6 DEF Accounted
<1>23. Batches'
  <2>1. \A B, k, x : Before(B, k, x)' = Before(B, k, x)
    BY <1>21 DEF Before
  <2>2. ASSUME NEW B \in sealed, NEW x \in B, NEW k \in 1 .. r + 1, x[1] = k
        PROVE  Cardinality(Before(B, k, x)') <= Runs'[k].failures
    <3>1. k \in 1 .. r
      BY <1>21, <2>2
    <3>2. Cardinality(Before(B, k, x)) <= Runs[k].failures
      BY <1>2, <2>2, <3>1 DEF RunsInd, Batches
    <3>3. QED
      BY <1>17, <2>1, <3>1, <3>2
  <2>3. UNION sealed' \subseteq known' /\ \A x \in delivered' : \E B \in sealed' : x \in B /\ B \subseteq delivered'
    BY <1>1 DEF RunsInd, Batches
  <2>4. QED
    BY <1>1, <1>16, <2>2, <2>3 DEF Batches
<1>24. QED
  BY <1>13, <1>14, <1>15, <1>19, <1>20, <1>22, <1>23 DEF RunsInd

\* What a step of the delivery leaves as it is.
LEMMA DeliverySteps ==
  ASSUME RunsInd, UNCHANGED <<vars, stage, past, known>>, failures' \in Nat,
         stage = "idle" => pending' = <<>> /\ failures' = 0,
         pending' = pending \/ pending' = <<>>
  PROVE  /\ CameraInd' /\ Stages' /\ Ledger' /\ Numbered' /\ Buffer'
         /\ run' = run /\ Current'.types = Current.types
         /\ \A k \in 1 .. run - 1 : Runs'[k] = Runs[k]
         /\ Runs[run].failures = failures /\ Runs'[run].failures = failures'
         /\ \A k \in 1 .. run : k = run \/ k \in 1 .. run - 1
<1>1. UNCHANGED <<events, frame, inQueue>>
  BY DEF vars, trackerVars, queueVars
<1>2. CameraInd'
  BY CameraInPipeline DEF RunsInd
<1>3. Stages'
  BY <1>1 DEF RunsInd, Stages
<1>4. Ledger'
  <2>1. \E S : pending' \in Seq(S)
    <3>1. \E S : pending \in Seq(S)
      BY DEF RunsInd, Ledger
    <3>2. <<>> \in Seq({})
      OBVIOUS
    <3>3. QED
      BY <3>1, <3>2
  <2>2. QED
    BY <2>1 DEF RunsInd, Ledger, Balanced, EventsOf
<1>5. run' = run
  BY DEF run
<1>6. Current'.types = Current.types
  <2>1. Result' = Result
    BY <1>1 DEF Result, Queued
  <2>2. RunsSound /\ RunsSound'
    BY <1>2, <1>3, <1>4, RunsAre, PTL DEF RunsInd
  <2>3. stage = "flushing" => Current'.types = Current.types
    BY <1>5, <2>2 DEF RunsSound
  <2>4. stage # "flushing" => Current'.types = Current.types
    BY <2>1, <2>2 DEF RunsSound
  <2>5. QED
    BY <2>3, <2>4
<1>7. /\ \A k \in 1 .. run - 1 : Runs'[k] = Runs[k]
      /\ Runs[run].failures = failures /\ Runs'[run].failures = failures'
      /\ \A k \in 1 .. run : k = run \/ k \in 1 .. run - 1
      /\ \A k \in 1 .. run : Runs'[k].types = Runs[k].types
  BY <1>2, <1>3, <1>4, <1>5, <1>6, SameRuns
<1>8. Numbered'
  BY <1>5, <1>7 DEF RunsInd, Numbered
<1>9. Buffer'
  <2>1. CASE pending' = pending
    BY <1>5, <1>6, <2>1 DEF RunsInd, Buffer
  <2>2. CASE pending' = <<>>
    <3>1. Len(<<>>) = 0 /\ DOMAIN <<>> = {} /\ Len(Current.types) \in Nat
      BY EventsOfRuns
    <3>2. QED
      BY <1>6, <2>2, <3>1, BatchSizeAssumption DEF Buffer
  <2>3. QED
    BY <2>1, <2>2
<1>10. QED
  BY <1>2, <1>3, <1>4, <1>5, <1>6, <1>7, <1>8, <1>9

\* A batch is posted.
LEMMA Posts ==
  ASSUME RunsInd, Post
  PROVE  RunsInd'
<1>1. /\ UNCHANGED <<vars, stage, past, known, pending, delivered, failures>>
      /\ pending # <<>> /\ sealed' = sealed \union {Buffered}
  BY DEF Post, Promise!Seal, Buffered
<1>2. /\ CameraInd' /\ Stages' /\ Ledger' /\ Numbered' /\ Buffer'
      /\ run' = run
      /\ \A k \in 1 .. run - 1 : Runs'[k] = Runs[k]
      /\ Runs[run].failures = failures /\ Runs'[run].failures = failures'
      /\ \A k \in 1 .. run : k = run \/ k \in 1 .. run - 1
  BY <1>1, DeliverySteps DEF RunsInd, Ledger, Stages
<1>3. PICK r : r = run
  OBVIOUS
<1>4. (\A k : Missing(k)' = Missing(k)) /\ Buffered' = Buffered
  BY <1>1 DEF Missing, Buffered, Promise!Elements
<1>5. Accounted'
  BY <1>1, <1>2, <1>4 DEF RunsInd, Accounted
<1>6. PICK n \in Nat : n = Len(Current.types) /\ DOMAIN Runs[r].types = 1 .. n
  <2>1. Runs[r] = Current /\ DOMAIN Current.types = 1 .. Len(Current.types) /\ Len(Current.types) \in Nat
    BY <1>3, EventsOfRuns, RunsAre DEF RunsInd, RunsSound
  <2>2. QED
    BY <2>1
<1>7. PICK p \in Nat : p = Len(pending) /\ DOMAIN pending = 1 .. p
  BY EventsOfRuns
<1>8. p <= n /\ \A i \in 1 .. p : pending[i] = <<r, n - p + i>>
  BY <1>3, <1>6, <1>7 DEF RunsInd, Buffer
<1>9. Buffered \subseteq known /\ \A x \in Buffered : x[1] = r
  <2>1. r \in 1 .. r /\ \A k, i : <<k, i>> \in known <=> k \in 1 .. r /\ i \in DOMAIN Runs[k].types
    BY <1>3, EventsOfRuns
  <2>2. \A i \in 1 .. p : n - p + i \in 1 .. n
    BY <1>8
  <2>3. ASSUME NEW i \in 1 .. p
        PROVE  pending[i] \in known /\ pending[i][1] = r
    <3>1. PICK j \in 1 .. n : pending[i] = <<r, j>>
      BY <1>8, <2>2, <2>3
    <3>2. <<r, j>> \in known /\ <<r, j>>[1] = r
      BY <1>6, <2>1, <3>1
    <3>3. QED
      BY <3>1, <3>2
  <2>4. QED
    BY <1>7, <2>3 DEF Buffered, Promise!Elements
<1>10. IsFiniteSet(known) /\ Cardinality(Missing(r) \ Buffered) <= failures /\ failures \in Nat
  BY <1>3 DEF RunsInd, Accounted, Ledger
<1>11. ASSUME NEW x \in Buffered, NEW k \in 1 .. r, x[1] = k
       PROVE  Cardinality(Before(Buffered, k, x)) <= Runs'[k].failures
  <2>1. k = r
    BY <1>9, <1>11
  <2>2. Before(Buffered, r, x) \subseteq Missing(r) \ Buffered /\ Missing(r) \ Buffered \subseteq known
    BY MissingOnes DEF Before
  <2>3. /\ Cardinality(Before(Buffered, r, x)) \in Nat /\ Cardinality(Missing(r) \ Buffered) \in Nat
        /\ Cardinality(Before(Buffered, r, x)) <= Cardinality(Missing(r) \ Buffered)
    BY <1>10, <2>2, Fewer
  <2>4. Cardinality(Before(Buffered, r, x)) <= failures
    BY <1>10, <2>3
  <2>5. QED
    BY <1>1, <1>2, <1>3, <2>1, <2>4
<1>12. ASSUME NEW B \in sealed, NEW x \in B, NEW k \in 1 .. r, x[1] = k
       PROVE  Cardinality(Before(B, k, x)) <= Runs'[k].failures
  <2>1. Cardinality(Before(B, k, x)) <= Runs[k].failures
    BY <1>3, <1>12 DEF RunsInd, Batches
  <2>2. Runs'[k].failures = Runs[k].failures
    BY <1>1, <1>2, <1>3, <1>12
  <2>3. QED
    BY <2>1, <2>2
<1>13. Batches'
  <2>1. \A B, k, x : Before(B, k, x)' = Before(B, k, x)
    BY <1>4 DEF Before
  <2>2. \A B \in sealed' : B \in sealed \/ B = Buffered
    BY <1>1
  <2>3. \A B \in sealed' : \A x \in B : \A k \in 1 .. r :
          x[1] = k => Cardinality(Before(B, k, x)') <= Runs'[k].failures
    BY <1>11, <1>12, <2>1, <2>2
  <2>4. UNION sealed' \subseteq known'
    BY <1>1, <1>9, <2>2 DEF RunsInd, Batches
  <2>5. \A x \in delivered' : \E B \in sealed' : x \in B /\ B \subseteq delivered'
    BY <1>1 DEF RunsInd, Batches
  <2>6. QED
    BY <1>2, <1>3, <2>3, <2>4, <2>5 DEF Batches
<1>14. QED
  BY <1>2, <1>5, <1>13 DEF RunsInd

\* What was absent before an event stays counted while more is stored and the
\* counts grow.
LEMMA BatchesStay ==
  ASSUME RunsInd, UNCHANGED <<known, sealed>>, run' = run,
         delivered \subseteq delivered',
         \A x \in delivered' : x \in delivered \/ \E B \in sealed : x \in B /\ B \subseteq delivered',
         \A k \in 1 .. run : Runs'[k].failures \in Nat /\ Runs[k].failures <= Runs'[k].failures
  PROVE  /\ Batches'
         /\ \A k : Missing(k)' \subseteq Missing(k)
<1>1. \A k : Missing(k)' \subseteq Missing(k)
  BY DEF Missing
<1>2. PICK r : r = run
  OBVIOUS
<1>3. ASSUME NEW B \in sealed, NEW x \in B, NEW k \in 1 .. r, x[1] = k
      PROVE  Cardinality(Before(B, k, x)') <= Runs'[k].failures
  <2>1. Before(B, k, x)' \subseteq Before(B, k, x)
    BY <1>1 DEF Before
  <2>2. Before(B, k, x) \subseteq known /\ IsFiniteSet(known)
    BY MissingOnes DEF RunsInd, Accounted
  <2>3. /\ Cardinality(Before(B, k, x)') \in Nat /\ Cardinality(Before(B, k, x)) \in Nat
        /\ Cardinality(Before(B, k, x)') <= Cardinality(Before(B, k, x))
    BY <2>1, <2>2, Fewer
  <2>4. Cardinality(Before(B, k, x)) <= Runs[k].failures
    BY <1>2, <1>3 DEF RunsInd, Batches
  <2>5. Runs[k].failures \in Nat /\ Runs'[k].failures \in Nat /\ Runs[k].failures <= Runs'[k].failures
    BY <1>2, <1>3, EventsOfRuns
  <2>6. QED
    BY <2>3, <2>4, <2>5
<1>4. UNION sealed' \subseteq known'
  BY DEF RunsInd, Batches
<1>5. \A x \in delivered' : \E B \in sealed' : x \in B /\ B \subseteq delivered'
  <2>1. \A x \in delivered : \E B \in sealed : x \in B /\ B \subseteq delivered
    BY DEF RunsInd, Batches
  <2>2. QED
    BY <2>1
<1>6. Batches'
  BY <1>2, <1>3, <1>4, <1>5 DEF Batches
<1>7. QED
  BY <1>1, <1>6

\* The same for all that is counted, where this run's is.
LEMMA AccountedStays ==
  ASSUME RunsInd, UNCHANGED known, run' = run,
         \A k \in 1 .. run - 1 : Runs'[k] = Runs[k],
         \A k : Missing(k)' \subseteq Missing(k),
         NEW S, S \subseteq known, Cardinality(S) <= failures', failures' \in Nat,
         Missing(run)' \ Buffered' \subseteq S
  PROVE  Accounted'
<1>1. PICK r : r = run
  OBVIOUS
<1>2. IsFiniteSet(known)
  BY DEF RunsInd, Accounted
<1>3. Cardinality(Missing(r)' \ Buffered') <= failures'
  <2>1. Missing(r)' \ Buffered' \subseteq S
    BY <1>1
  <2>2. /\ Cardinality(Missing(r)' \ Buffered') \in Nat /\ Cardinality(S) \in Nat
        /\ Cardinality(Missing(r)' \ Buffered') <= Cardinality(S)
    BY <1>2, <2>1, Fewer
  <2>3. QED
    BY <2>2
<1>4. ASSUME NEW k \in 1 .. r - 1
      PROVE  Cardinality(Missing(k)') <= Runs'[k].failures + Runs'[k].lost
  <2>1. /\ Cardinality(Missing(k)') \in Nat /\ Cardinality(Missing(k)) \in Nat
        /\ Cardinality(Missing(k)') <= Cardinality(Missing(k))
    BY <1>2, MissingOnes, Fewer
  <2>2. Cardinality(Missing(k)) <= Runs[k].failures + Runs[k].lost
    BY <1>1, <1>4 DEF RunsInd, Accounted
  <2>3. Runs'[k] = Runs[k] /\ Runs[k].failures \in Nat /\ Runs[k].lost \in Nat
    BY <1>1, <1>4, EventsOfRuns
  <2>4. QED
    BY <2>1, <2>2, <2>3
<1>5. QED
  BY <1>1, <1>2, <1>3, <1>4 DEF Accounted

\* A batch is stored.
LEMMA Stores ==
  ASSUME RunsInd, Store
  PROVE  RunsInd'
<1>1. PICK B \in sealed : delivered' = delivered \union B
  BY DEF Store, Promise!Deliver
<1>2. UNCHANGED <<vars, stage, past, known, pending, sealed, failures>>
  BY DEF Store, Promise!Deliver
<1>3. /\ CameraInd' /\ Stages' /\ Ledger' /\ Numbered' /\ Buffer'
      /\ run' = run
      /\ \A k \in 1 .. run - 1 : Runs'[k] = Runs[k]
      /\ Runs[run].failures = failures /\ Runs'[run].failures = failures'
      /\ \A k \in 1 .. run : k = run \/ k \in 1 .. run - 1
  BY <1>2, DeliverySteps DEF RunsInd, Ledger, Stages
<1>4. \A k \in 1 .. run : Runs[k].failures \in Nat /\ Runs'[k].failures = Runs[k].failures
  BY <1>2, <1>3, EventsOfRuns
<1>5. Batches' /\ \A k : Missing(k)' \subseteq Missing(k)
  BY <1>1, <1>2, <1>3, <1>4, BatchesStay
<1>6. Accounted'
  <2>1. PICK r : r = run
    OBVIOUS
  <2>2. PICK S : S = Missing(r) \ Buffered
    OBVIOUS
  <2>3. S \subseteq known
    BY <2>2, MissingOnes
  <2>4. Cardinality(S) <= failures' /\ failures' \in Nat
    BY <1>2, <2>1, <2>2 DEF RunsInd, Accounted, Ledger
  <2>5. Buffered' = Buffered
    BY <1>2 DEF Buffered, Promise!Elements
  <2>6. Missing(r)' \ Buffered' \subseteq S
    BY <1>5, <2>2, <2>5
  <2>7. QED
    BY <1>2, <1>3, <1>5, <2>1, <2>3, <2>4, <2>6, AccountedStays
<1>7. QED
  BY <1>3, <1>5, <1>6 DEF RunsInd

\* The buffer is emptied of stored events.
LEMMA Settles ==
  ASSUME RunsInd, Settle
  PROVE  RunsInd'
<1>1. /\ Buffered \subseteq delivered /\ pending' = <<>>
      /\ UNCHANGED <<vars, stage, past, known, sealed, delivered, failures>>
  BY DEF Settle, Promise!Settle, Buffered
<1>2. /\ CameraInd' /\ Stages' /\ Ledger' /\ Numbered' /\ Buffer'
      /\ run' = run
      /\ \A k \in 1 .. run - 1 : Runs'[k] = Runs[k]
      /\ Runs[run].failures = failures /\ Runs'[run].failures = failures'
      /\ \A k \in 1 .. run : k = run \/ k \in 1 .. run - 1
  BY <1>1, DeliverySteps DEF RunsInd, Ledger, Stages
<1>3. \A k \in 1 .. run : Runs[k].failures \in Nat /\ Runs'[k].failures = Runs[k].failures
  BY <1>1, <1>2, EventsOfRuns
<1>4. Batches' /\ \A k : Missing(k)' \subseteq Missing(k)
  BY <1>1, <1>2, <1>3, BatchesStay
<1>5. Accounted'
  <2>1. PICK r : r = run
    OBVIOUS
  <2>2. PICK S : S = Missing(r) \ Buffered
    OBVIOUS
  <2>3. S \subseteq known
    BY <2>2, MissingOnes
  <2>4. Cardinality(S) <= failures' /\ failures' \in Nat
    BY <1>1, <2>1, <2>2 DEF RunsInd, Accounted, Ledger
  <2>5. Missing(r)' \ Buffered' \subseteq S
    BY <1>1, <2>2 DEF Missing
  <2>6. QED
    BY <1>1, <1>2, <1>4, <2>1, <2>3, <2>4, <2>5, AccountedStays
<1>6. QED
  BY <1>2, <1>4, <1>5 DEF RunsInd

\* The buffer is given up.
LEMMA GivesUp ==
  ASSUME RunsInd, GiveUp
  PROVE  RunsInd'
<1>1. /\ failures' = failures + Len(pending) /\ pending' = <<>>
      /\ UNCHANGED <<vars, stage, past, known, sealed, delivered>>
  BY DEF GiveUp, Promise!GiveUp
<1>2. failures \in Nat /\ Len(pending) \in Nat /\ failures' \in Nat /\ failures <= failures'
  <2>1. failures \in Nat /\ Len(pending) \in Nat
    BY EventsOfRuns DEF RunsInd, Ledger
  <2>2. QED
    BY <1>1, <2>1
<1>3. stage # "idle"
  BY DEF GiveUp, Posting
<1>4. /\ CameraInd' /\ Stages' /\ Ledger' /\ Numbered' /\ Buffer'
      /\ run' = run
      /\ \A k \in 1 .. run - 1 : Runs'[k] = Runs[k]
      /\ Runs[run].failures = failures /\ Runs'[run].failures = failures'
      /\ \A k \in 1 .. run : k = run \/ k \in 1 .. run - 1
  BY <1>1, <1>2, <1>3, DeliverySteps
<1>5. ASSUME NEW k \in 1 .. run
      PROVE  Runs'[k].failures \in Nat /\ Runs[k].failures <= Runs'[k].failures
  <2>1. CASE k = run
    BY <1>2, <1>4, <2>1
  <2>2. CASE k \in 1 .. run - 1
    <3>1. Runs'[k].failures = Runs[k].failures /\ Runs[k].failures \in Nat
      BY <1>4, <1>5, <2>2, EventsOfRuns
    <3>2. QED
      BY <3>1
  <2>3. QED
    BY <1>4, <1>5, <2>1, <2>2
<1>6. Batches' /\ \A k : Missing(k)' \subseteq Missing(k)
  BY <1>1, <1>4, <1>5, BatchesStay
<1>7. Accounted'
  <2>1. PICK r : r = run
    OBVIOUS
  <2>2. PICK S : S = Missing(r)
    OBVIOUS
  <2>3. S \subseteq known
    BY <2>2, MissingOnes
  <2>4. Cardinality(S) <= failures'
    BY <1>1, <2>1, <2>2, AbsentNow
  <2>5. Missing(r)' \ Buffered' \subseteq S
    BY <1>6, <2>2
  <2>6. QED
    BY <1>1, <1>2, <1>4, <1>6, <2>1, <2>3, <2>4, <2>5, AccountedStays
<1>8. QED
  BY <1>4, <1>6, <1>7 DEF RunsInd

\* Before the first run.
LEMMA PipelineStarts == PipelineInit => RunsInd
<1> SUFFICES ASSUME PipelineInit PROVE RunsInd
  OBVIOUS
<1>1. /\ Init /\ stage = "idle" /\ past = <<>>
      /\ known = {} /\ pending = <<>> /\ sealed = {} /\ delivered = {} /\ failures = 0
  BY DEF PipelineInit, Promise!Init
<1>2. CameraInd
  BY <1>1, CameraStarts
<1>3. events = <<>> /\ DOMAIN events = {}
  BY <1>1 DEF Init, TrackerInit
<1>4. Stages
  BY <1>1, <1>3 DEF Stages
<1>5. <<>> \in Seq(Outcome) /\ DOMAIN <<>> = {} /\ Len(<<>>) = 0
  OBVIOUS
<1>6. Ledger
  BY <1>1, <1>5 DEF Ledger
<1>7. run = 1
  BY <1>1, <1>5 DEF run
<1>8. Runs[1] = Current /\ Current.types = Result.types
  BY <1>1, <1>2, <1>4, <1>6, <1>7, RunsAre DEF RunsSound
<1>9. Result.types = <<>>
  <2>1. Result.types = [i \in DOMAIN events |-> events[i].type]
    BY DEF Result
  <2>2. QED
    BY <1>3, <2>1
<1>10. \A k \in 1 .. 1 : k = 1
  OBVIOUS
<1>11. Numbered
  BY <1>1, <1>5, <1>7, <1>8, <1>9, <1>10 DEF Numbered
<1>12. Buffer
  BY <1>1, <1>5, <1>8, <1>9, BatchSizeAssumption DEF Buffer
<1>13. Accounted
  <2>1. Missing(run) \ Buffered = {} /\ IsFiniteSet({}) /\ Cardinality({}) = 0
    BY <1>1, FS_EmptySet DEF Missing
  <2>2. 1 .. 1 - 1 = {} /\ 0 <= 0
    OBVIOUS
  <2>3. QED
    BY <1>1, <1>7, <2>1, <2>2 DEF Accounted
<1>14. Batches
  BY <1>1 DEF Batches
<1>15. QED
  BY <1>2, <1>4, <1>6, <1>11, <1>12, <1>13, <1>14 DEF RunsInd

\* Nothing happens.
LEMMA Idles ==
  ASSUME RunsInd, UNCHANGED pipelineVars
  PROVE  RunsInd'
<1>1. UNCHANGED <<vars, stage, past, known, pending, sealed, delivered, failures>>
  BY DEF pipelineVars, deliveryVars
<1>2. /\ CameraInd' /\ Stages' /\ Ledger'
      /\ run' = run /\ Current'.types = Current.types
  BY <1>1, DeliverySteps DEF RunsInd, Ledger, Stages
<1>3. QED
  BY <1>1, <1>2, SameDelivery

\* The invariant of the pipeline.
THEOREM PipelineInvariant == PipelineSpec => []RunsInd
<1>1. RunsInd /\ [PipelineNext]_pipelineVars => RunsInd'
  <2> SUFFICES ASSUME RunsInd, [PipelineNext]_pipelineVars PROVE RunsInd'
    OBVIOUS
  <2>1. CASE Process
    BY <2>1, ProcessesQuietly, ProcessesEvent
  <2>2. CASE Close
    <3>1. Finish(past[run]) /\ stage # "idle" /\ stage # "running"
      BY <2>2 DEF Close
    <3>2. QED
      BY <3>1, Finishes
  <2>3. CASE Kill
    BY <2>3, Finishes DEF Kill
  <2>4. QED
    BY <2>1, <2>2, <2>3, Opens, LoopIsLeft, Posts, Stores, Settles, GivesUp, Idles DEF PipelineNext
<1>2. QED
  BY <1>1, PipelineStarts, PTL DEF PipelineSpec

-----------------------------------------------------------------------------
(* The properties *)

\* The events tell the queue.
THEOREM QueueIsComplete == PipelineSpec => []QueueIsTold
<1>1. RunsInd => QueueIsTold
  BY DEF RunsInd, CameraInd, Counted, Alternating, Last, QueueIsTold
<1>2. QED
  BY <1>1, PipelineInvariant, PTL

\* The depths in the events are those that the events themselves tell.
THEOREM DepthsAreConsistent == PipelineSpec => []DepthsAreTold
<1>1. RunsInd => DepthsAreTold
  BY DEF RunsInd, CameraInd
<1>2. QED
  BY <1>1, PipelineInvariant, PTL

\* The type invariant and what the runs have counted: no event is lost without
\* being counted as an error or killed with its buffer.
THEOREM LossesAreCounted == PipelineSpec => []PipelineInv
<1>1. RunsInd => PipelineInv
  <2> SUFFICES ASSUME RunsInd PROVE PipelineInv
    OBVIOUS
  <2>1. /\ BillingInv
        /\ stage \in {"idle", "running", "flushing"}
        /\ stage # "running" => events = <<>>
        /\ stage = "idle" => pending = <<>> /\ failures = 0
    BY DEF RunsInd, CameraInd, Stages
  <2>2. known = UNION {{<<k, i>> : i \in DOMAIN Runs[k].types} : k \in 1 .. run}
    BY DEF RunsInd, Numbered
  <2>3. /\ Len(pending) <= BatchSize
        /\ \A i \in DOMAIN pending : pending[i] = <<run, Len(Current.types) - Len(pending) + i>>
    BY DEF RunsInd, Buffer
  <2>4. delivered \subseteq UNION sealed /\ UNION sealed \subseteq known
    BY DEF RunsInd, Batches
  <2>5. ASSUME NEW k \in 1 .. run
        PROVE  Cardinality(Missing(k)) <= Runs[k].failures + Runs[k].lost
    <3>1. run \in Nat \ {0} /\ Runs[run] = Current /\ Current.failures = failures /\ Current.lost = Len(pending)
      BY RunsAre DEF RunsInd, RunsSound
    <3>2. CASE k = run
      BY <3>1, <3>2, AbsentNow
    <3>3. CASE k # run
      <4>1. k \in 1 .. run - 1
        BY <2>5, <3>1, <3>3
      <4>2. QED
        BY <4>1 DEF RunsInd, Accounted
    <3>4. QED
      BY <3>2, <3>3
  <2>6. QED
    BY <2>1, <2>2, <2>3, <2>4, <2>5 DEF PipelineInv
<1>2. QED
  BY <1>1, PipelineInvariant, PTL

\* When an event is stored, those of its run that are absent before it are counted.
THEOREM OrderIsKept == PipelineSpec => []GapsAreCounted
<1>1. RunsInd => GapsAreCounted
  <2> SUFFICES ASSUME RunsInd, NEW e \in delivered
               PROVE  Cardinality({x \in Missing(e[1]) : x[2] < e[2]}) <= Runs[e[1]].failures
    BY DEF GapsAreCounted
  <2>1. PICK B \in sealed : e \in B /\ B \subseteq delivered
    BY DEF RunsInd, Batches
  <2>2. e[1] \in 1 .. run
    BY EventsOfRuns
  <2>3. Before(B, e[1], e) = {x \in Missing(e[1]) : x[2] < e[2]}
    BY <2>1 DEF Before, Missing
  <2>4. Cardinality(Before(B, e[1], e)) <= Runs[e[1]].failures
    BY <2>1, <2>2 DEF RunsInd, Batches
  <2>5. QED
    BY <2>3, <2>4
<1>2. QED
  BY <1>1, PipelineInvariant, PTL

-----------------------------------------------------------------------------
(* Sums *)

\* The sum of field f of the records R[k], k in S, is the number of pairs of a k and
\* a number up to the field.
Total(R, f, S) == MapThenSumSet(LAMBDA k : R[k][f], S)
Pairs(R, f, S) == {p \in S \X Nat : p[2] \in 1 .. R[p[1]][f]}

\* The definition of a sum over the subsets of S.
Pick(s) == CHOOSE x \in s : TRUE
Sums(R, f, S, g) == [s \in SUBSET S |-> IF s = {} THEN 0 ELSE R[Pick(s)][f] + g[s \ {Pick(s)}]]
Fold(R, f, S) == CHOOSE g : g = Sums(R, f, S, g)

\* There are finitely many pairs; one k more adds those of its own.
LEMMA PairsOf ==
  ASSUME NEW R, NEW f, NEW S, IsFiniteSet(S), \A k \in S : R[k][f] \in Nat
  PROVE  /\ IsFiniteSet(Pairs(R, f, S)) /\ Cardinality(Pairs(R, f, S)) \in Nat
         /\ \A x \in S : Cardinality(Pairs(R, f, S)) = R[x][f] + Cardinality(Pairs(R, f, S \ {x}))
<1> DEFINE One(k) == {k} \X (1 .. R[k][f])
<1>1. ASSUME NEW k \in S
      PROVE  IsFiniteSet(One(k)) /\ Cardinality(One(k)) = R[k][f]
  <2>1. PICK m \in Nat : m = R[k][f]
    BY <1>1
  <2>2. IsFiniteSet(1 .. m) /\ Cardinality(1 .. m) = m
    BY FS_Interval
  <2>3. IsFiniteSet({k}) /\ Cardinality({k}) = 1
    BY FS_Singleton
  <2>4. IsFiniteSet({k} \X (1 .. m)) /\ Cardinality({k} \X (1 .. m)) = 1 * m
    BY <2>2, <2>3, FS_Product
  <2>5. 1 * m = m
    OBVIOUS
  <2>6. QED
    BY <2>1, <2>4, <2>5
<1>2. IsFiniteSet(UNION {One(k) : k \in S})
  <2>1. PICK h : h = [k \in S |-> One(k)]
    OBVIOUS
  <2>2. h \in Surjection(S, {One(k) : k \in S})
    BY <2>1 DEF Surjection
  <2>3. IsFiniteSet({One(k) : k \in S})
    BY <2>2, FS_Surjection
  <2>4. \A T \in {One(k) : k \in S} : IsFiniteSet(T)
    BY <1>1
  <2> HIDE DEF One
  <2>5. QED
    BY <2>3, <2>4, FS_UNION
<1>3. Pairs(R, f, S) \subseteq UNION {One(k) : k \in S}
  BY DEF Pairs
<1>4. IsFiniteSet(Pairs(R, f, S))
  BY <1>2, <1>3, FS_Subset
<1>5. ASSUME NEW x \in S
      PROVE  Cardinality(Pairs(R, f, S)) = R[x][f] + Cardinality(Pairs(R, f, S \ {x}))
  <2>1. R[x][f] \in Nat
    BY <1>5
  <2>2. Pairs(R, f, S) = One(x) \union Pairs(R, f, S \ {x})
    BY <1>5, <2>1 DEF Pairs
  <2>3. One(x) \intersect Pairs(R, f, S \ {x}) = {}
    BY DEF Pairs
  <2>4. IsFiniteSet(Pairs(R, f, S \ {x}))
    BY <1>4, <2>2, FS_Subset
  <2>5. Cardinality(Pairs(R, f, S \ {x})) \in Nat
    BY <2>4, FS_CardinalityType
  <2>6. IsFiniteSet(One(x)) /\ Cardinality(One(x)) = R[x][f]
    BY <1>1, <1>5
  <2> HIDE DEF One
  <2>7. Cardinality(One(x) \union Pairs(R, f, S \ {x}))
          = Cardinality(One(x)) + Cardinality(Pairs(R, f, S \ {x})) - Cardinality(One(x) \intersect Pairs(R, f, S \ {x}))
    BY <2>4, <2>6, FS_Union
  <2>8. Cardinality(One(x) \intersect Pairs(R, f, S \ {x})) = 0
    BY <2>3, FS_EmptySet
  <2>9. PICK m \in Nat : m = R[x][f]
    BY <2>1
  <2>10. PICK c \in Nat : c = Cardinality(Pairs(R, f, S \ {x}))
    BY <2>5
  <2>11. Cardinality(Pairs(R, f, S)) = m + c - 0
    BY <2>2, <2>6, <2>7, <2>8, <2>9, <2>10
  <2>12. QED
    BY <2>9, <2>10, <2>11
<1>6. QED
  BY <1>4, <1>5, FS_CardinalityType

\* Every nonempty collection of subsets of a finite set has a smallest one.
LEMMA Smallest ==
  ASSUME NEW S, IsFiniteSet(S), NEW T, T \subseteq SUBSET S, T # {}
  PROVE  \E s \in T : \A u \in T : u \subseteq s => u = s
<1>1. IsWellFoundedOn(StrictSubsetOrdering(S), SUBSET S)
  BY FS_StrictSubsetOrderingWellFounded, FS_FiniteSubsetsOfFinite
<1>2. PICK s \in T : \A u \in T : ~(<<u, s>> \in StrictSubsetOrdering(S))
  BY <1>1, WFMin
<1>3. QED
  BY <1>2 DEF StrictSubsetOrdering

\* The sum is the number of pairs.
LEMMA TotalIsCount ==
  ASSUME NEW R, NEW f, NEW S, IsFiniteSet(S), \A k \in S : R[k][f] \in Nat
  PROVE  Total(R, f, S) = Cardinality(Pairs(R, f, S))
<1>1. PICK g : g = [s \in SUBSET S |-> Cardinality(Pairs(R, f, s))]
  OBVIOUS
<1>2. ASSUME NEW s \in SUBSET S, s # {}
      PROVE  /\ Pick(s) \in s
             /\ Cardinality(Pairs(R, f, s)) = R[Pick(s)][f] + Cardinality(Pairs(R, f, s \ {Pick(s)}))
  <2>1. IsFiniteSet(s) /\ \A k \in s : R[k][f] \in Nat
    BY FS_Subset
  <2>2. PICK x \in s : x = Pick(s)
    BY <1>2 DEF Pick
  <2>3. Cardinality(Pairs(R, f, s)) = R[x][f] + Cardinality(Pairs(R, f, s \ {x}))
    BY <2>1, <2>2, PairsOf
  <2>4. QED
    BY <2>2, <2>3
<1>3. Pairs(R, f, {}) = {} /\ Cardinality({}) = 0
  BY FS_EmptySet DEF Pairs
<1>4. g = Sums(R, f, S, g)
  <2>1. ASSUME NEW s \in SUBSET S
        PROVE  g[s] = IF s = {} THEN 0 ELSE R[Pick(s)][f] + g[s \ {Pick(s)}]
    <3>1. CASE s = {}
      BY <1>1, <1>3, <3>1
    <3>2. CASE s # {}
      BY <1>1, <1>2, <2>1, <3>2
    <3>3. QED
      BY <3>1, <3>2
  <2>2. QED
    BY <1>1, <2>1 DEF Sums
<1>5. PICK h : h = Fold(R, f, S)
  OBVIOUS
<1>6. h = Sums(R, f, S, h)
  BY <1>4, <1>5 DEF Fold
<1>7. ASSUME NEW s \in SUBSET S
      PROVE  /\ h[s] = IF s = {} THEN 0 ELSE R[Pick(s)][f] + h[s \ {Pick(s)}]
             /\ g[s] = IF s = {} THEN 0 ELSE R[Pick(s)][f] + g[s \ {Pick(s)}]
  BY <1>4, <1>6, <1>7 DEF Sums
<1>8. \A s \in SUBSET S : h[s] = g[s]
  <2> DEFINE Bad == {s \in SUBSET S : h[s] # g[s]}
  <2> SUFFICES ASSUME Bad # {} PROVE FALSE
    OBVIOUS
  <2>0. Bad \subseteq SUBSET S
    OBVIOUS
  <2> HIDE DEF Bad
  <2>1. PICK s \in Bad : \A u \in Bad : u \subseteq s => u = s
    BY <2>0, Smallest
  <2> USE DEF Bad
  <2>2. s \in SUBSET S /\ h[s] # g[s]
    BY <2>1
  <2>3. s # {}
    BY <1>7, <2>2
  <2>4. PICK x \in s : x = Pick(s)
    BY <1>2, <2>2, <2>3
  <2>5. s \ {x} \in SUBSET S /\ s \ {x} # s
    BY <2>2, <2>4
  <2>6. h[s \ {x}] = g[s \ {x}]
    BY <2>1, <2>5
  <2>7. QED
    BY <1>7, <2>2, <2>3, <2>4, <2>6
<1>9. Total(R, f, S) = h[S]
  BY <1>5 DEF Total, MapThenSumSet, MapThenFoldSet, Fold, Sums, Pick
<1>10. QED
  BY <1>1, <1>8, <1>9

\* The sum over one k more.
LEMMA TotalOf ==
  ASSUME NEW R, NEW f, NEW S, IsFiniteSet(S), \A k \in S : R[k][f] \in Nat
  PROVE  /\ Total(R, f, S) \in Nat
         /\ S = {} => Total(R, f, S) = 0
         /\ \A x \in S : Total(R, f, S) = R[x][f] + Total(R, f, S \ {x})
<1>1. Total(R, f, S) = Cardinality(Pairs(R, f, S)) /\ Cardinality(Pairs(R, f, S)) \in Nat
  BY TotalIsCount, PairsOf
<1>2. S = {} => Total(R, f, S) = 0
  BY <1>1, FS_EmptySet DEF Pairs
<1>3. ASSUME NEW x \in S
      PROVE  Total(R, f, S) = R[x][f] + Total(R, f, S \ {x})
  <2>1. IsFiniteSet(S \ {x}) /\ \A k \in S \ {x} : R[k][f] \in Nat
    BY FS_RemoveElement
  <2>2. Total(R, f, S \ {x}) = Cardinality(Pairs(R, f, S \ {x}))
    BY <2>1, TotalIsCount
  <2>3. QED
    BY <1>1, <1>3, <2>2, PairsOf
<1>4. QED
  BY <1>1, <1>2, <1>3

\* The sum over S and over S without x.
LEMMA TotalOfOneMore ==
  ASSUME NEW R, NEW f, NEW S, IsFiniteSet(S), \A k \in S : R[k][f] \in Nat, NEW x \in S
  PROVE  /\ Total(R, f, S) = R[x][f] + Total(R, f, S \ {x})
         /\ Total(R, f, S \ {x}) \in Nat
<1>1. IsFiniteSet(S \ {x}) /\ \A k \in S \ {x} : R[k][f] \in Nat
  BY FS_RemoveElement
<1>2. QED
  BY <1>1, TotalOf

-----------------------------------------------------------------------------
(* The depth of the queue that the store is told *)

\* The stored events of a type of the runs in K.
StoredOf(K, type) == {e \in Stored(type) : e[1] \in K}

\* The outcomes of the runs.
LEMMA Outcomes ==
  ASSUME RunsInd, NEW k \in 1 .. run
  PROVE  Runs[k] \in Outcome /\ Balanced(Runs[k]) /\ Cardinality(Missing(k)) <= Runs[k].failures + Runs[k].lost
<1>1. /\ run \in Nat \ {0} /\ Runs[run] = Current /\ Current \in Outcome /\ Balanced(Current)
      /\ \A j \in 1 .. run - 1 : Runs[j] = past[j] /\ j \in DOMAIN past
      /\ Current.failures = failures /\ Current.lost = Len(pending)
  BY RunsAre DEF RunsInd, RunsSound
<1>2. CASE k = run
  BY <1>1, <1>2, AbsentNow
<1>3. CASE k # run
  <2>1. k \in 1 .. run - 1
    BY <1>1, <1>3
  <2>2. past[k] \in Outcome /\ Balanced(past[k]) /\ Runs[k] = past[k]
    BY <1>1, <2>1 DEF RunsInd, Ledger
  <2>3. QED
    BY <2>1, <2>2 DEF RunsInd, Accounted
<1>4. QED
  BY <1>2, <1>3

\* The events of a run of a type, stored or absent.
LEMMA StoredOrMissing ==
  ASSUME RunsInd, NEW k \in 1 .. run, NEW type
  PROVE  /\ IsFiniteSet(StoredOf({k}, type)) /\ Cardinality(StoredOf({k}, type)) \in Nat
         /\ \E M : /\ M \subseteq {e \in Missing(k) : Runs[k].types[e[2]] = type}
                   /\ IsFiniteSet(M) /\ Cardinality(M) \in Nat
                   /\ Cardinality(EventsOf(Runs[k], type)) = Cardinality(StoredOf({k}, type)) + Cardinality(M)
<1>1. PICK d : d = EventsOf(Runs[k], type)
  OBVIOUS
<1>2. PICK n \in Nat : DOMAIN Runs[k].types = 1 .. n
  BY EventsOfRuns
<1>3. d \subseteq 1 .. n /\ IsFiniteSet(1 .. n)
  BY <1>1, <1>2, FS_Interval DEF EventsOf
<1>4. IsFiniteSet(d)
  BY <1>3, FS_Subset
<1>5. PICK T : T = {<<k, i>> : i \in d}
  OBVIOUS
<1>6. IsFiniteSet(T) /\ Cardinality(T) = Cardinality(d)
  <2>1. PICK h : h = [i \in d |-> <<k, i>>]
    OBVIOUS
  <2>2. /\ \A i \in d : h[i] = <<k, i>> /\ h[i] \in T
        /\ h \in [d -> T]
    BY <1>5, <2>1
  <2>3. \A t \in T : \E i \in d : h[i] = t
    BY <1>5, <2>2
  <2>4. \A i \in d, j \in d : h[i] = h[j] => i = j
    BY <2>2
  <2>5. h \in Surjection(d, T)
    BY <2>2, <2>3 DEF Surjection
  <2>6. h \in Injection(d, T)
    BY <2>2, <2>4 DEF Injection, IsInjective
  <2>7. IsFiniteSet(T) /\ Cardinality(T) = Cardinality(d)
    BY <1>4, <2>5, <2>6, FS_Surjection
  <2>8. QED
    BY <2>7
<1>7. PICK S : S = StoredOf({k}, type)
  OBVIOUS
<1>8. S \subseteq T /\ T \ S \subseteq {e \in Missing(k) : Runs[k].types[e[2]] = type}
  <2>1. /\ delivered \subseteq known
        /\ \A e \in known : e[1] \in 1 .. run /\ e[2] \in DOMAIN Runs[e[1]].types /\ e = <<e[1], e[2]>>
        /\ \A i \in DOMAIN Runs[k].types : <<k, i>> \in known
    BY EventsOfRuns
  <2>2. \A e \in S : e[1] = k /\ e \in delivered /\ Runs[k].types[e[2]] = type
    BY <1>7 DEF StoredOf, Stored
  <2>3. S \subseteq T
    BY <1>1, <1>5, <2>1, <2>2 DEF EventsOf
  <2>4. ASSUME NEW e \in T \ S
        PROVE  e \in Missing(k) /\ Runs[k].types[e[2]] = type
    <3>1. PICK i \in d : e = <<k, i>>
      BY <1>5, <2>4
    <3>2. e[1] = k /\ e[2] = i /\ i \in DOMAIN Runs[k].types /\ Runs[k].types[i] = type
      BY <1>1, <3>1 DEF EventsOf
    <3>3. e \in known
      BY <2>1, <3>1, <3>2
    <3>4. e \notin delivered
      BY <1>7, <2>4, <3>2 DEF StoredOf, Stored
    <3>5. QED
      BY <3>2, <3>3, <3>4 DEF Missing
  <2>5. QED
    BY <2>3, <2>4
<1>9. IsFiniteSet(S) /\ IsFiniteSet(T \ S) /\ T \intersect S = S
  BY <1>6, <1>8, FS_Subset
<1>10. Cardinality(S) \in Nat /\ Cardinality(T \ S) \in Nat /\ Cardinality(T) \in Nat
  BY <1>6, <1>9, FS_CardinalityType
<1>11. Cardinality(T \ S) = Cardinality(T) - Cardinality(S)
  <2>1. Cardinality(T \ S) = Cardinality(T) - Cardinality(T \intersect S)
    BY <1>6, FS_Difference
  <2>2. QED
    BY <1>9, <2>1
<1>12. Cardinality(d) = Cardinality(S) + Cardinality(T \ S)
  BY <1>6, <1>10, <1>11
<1>13. QED
  BY <1>1, <1>7, <1>8, <1>9, <1>10, <1>12

\* What the stored events of one run tell of the people it left is off by no more
\* than it counted or lost.
LEMMA RunExplained ==
  ASSUME RunsInd, NEW k \in 1 .. run
  PROVE  LET told == Cardinality(StoredOf({k}, "JOIN")) - Cardinality(StoredOf({k}, "ABANDON"))
         IN /\ told \in Int
            /\ told - Runs[k].left <= Runs[k].failures + Runs[k].lost
            /\ Runs[k].left - told <= Runs[k].failures + Runs[k].lost
<1>1. PICK r \in Outcome : r = Runs[k] /\ Balanced(r) /\ Cardinality(Missing(k)) <= r.failures + r.lost
  BY Outcomes
<1>2. r.left \in Nat /\ r.failures \in Nat /\ r.lost \in Nat
  BY DEF Outcome
<1>3. PICK J : /\ J \subseteq {e \in Missing(k) : r.types[e[2]] = "JOIN"}
               /\ IsFiniteSet(J) /\ Cardinality(J) \in Nat
               /\ Cardinality(EventsOf(r, "JOIN")) = Cardinality(StoredOf({k}, "JOIN")) + Cardinality(J)
  BY <1>1, StoredOrMissing
<1>4. PICK A : /\ A \subseteq {e \in Missing(k) : r.types[e[2]] = "ABANDON"}
               /\ IsFiniteSet(A) /\ Cardinality(A) \in Nat
               /\ Cardinality(EventsOf(r, "ABANDON")) = Cardinality(StoredOf({k}, "ABANDON")) + Cardinality(A)
  BY <1>1, StoredOrMissing
<1>5. J \intersect A = {} /\ J \union A \subseteq Missing(k)
  BY <1>3, <1>4
<1>6. IsFiniteSet(J \union A) /\ Cardinality(J \union A) = Cardinality(J) + Cardinality(A)
  <2>1. /\ IsFiniteSet(J \union A)
        /\ Cardinality(J \union A) = Cardinality(J) + Cardinality(A) - Cardinality(J \intersect A)
    BY <1>3, <1>4, FS_Union
  <2>2. Cardinality(J \intersect A) = 0
    BY <1>5, FS_EmptySet
  <2>3. QED
    BY <1>3, <1>4, <2>1, <2>2
<1>7. Cardinality(J \union A) <= Cardinality(Missing(k)) /\ Cardinality(Missing(k)) \in Nat
  BY <1>5, MissingOnes, Fewer DEF RunsInd, Accounted
<1>8. Cardinality(J) + Cardinality(A) <= r.failures + r.lost
  BY <1>1, <1>2, <1>3, <1>4, <1>6, <1>7
<1>9. PICK j \in Nat : j = Cardinality(StoredOf({k}, "JOIN"))
  BY StoredOrMissing
<1>10. PICK a \in Nat : a = Cardinality(StoredOf({k}, "ABANDON"))
  BY StoredOrMissing
<1>11. r.left = (j + Cardinality(J)) - (a + Cardinality(A))
  BY <1>1, <1>3, <1>4, <1>9, <1>10 DEF Balanced
<1>12. QED
  BY <1>1, <1>2, <1>3, <1>4, <1>8, <1>9, <1>10, <1>11

\* The same for the runs in K.
Explained(K) ==
  LET told == Cardinality(StoredOf(K, "JOIN")) - Cardinality(StoredOf(K, "ABANDON"))
      left == Total(Runs, "left", K)
      off == Total(Runs, "failures", K) + Total(Runs, "lost", K)
  IN /\ told \in Int
     /\ told - left <= off
     /\ left - told <= off

\* The stored events of a type are those of run x and those of the others.
LEMMA StoredOfOneMore ==
  ASSUME RunsInd, NEW K \in SUBSET (1 .. run), NEW x \in K, NEW type
  PROVE  /\ Cardinality(StoredOf(K, type)) \in Nat /\ Cardinality(StoredOf({x}, type)) \in Nat
         /\ Cardinality(StoredOf(K \ {x}, type)) \in Nat
         /\ Cardinality(StoredOf(K, type)) = Cardinality(StoredOf(K \ {x}, type)) + Cardinality(StoredOf({x}, type))
<1>1. \A L : StoredOf(L, type) \subseteq known
  BY EventsOfRuns DEF StoredOf, Stored
<1>2. IsFiniteSet(known)
  BY DEF RunsInd, Accounted
<1>3. \A L : IsFiniteSet(StoredOf(L, type)) /\ Cardinality(StoredOf(L, type)) \in Nat
  BY <1>1, <1>2, Fewer
<1>4. /\ StoredOf(K, type) = StoredOf(K \ {x}, type) \union StoredOf({x}, type)
      /\ StoredOf(K \ {x}, type) \intersect StoredOf({x}, type) = {}
  BY DEF StoredOf
<1>5. Cardinality(StoredOf(K \ {x}, type) \union StoredOf({x}, type))
        = Cardinality(StoredOf(K \ {x}, type)) + Cardinality(StoredOf({x}, type))
            - Cardinality(StoredOf(K \ {x}, type) \intersect StoredOf({x}, type))
  BY <1>3, FS_Union
<1>6. Cardinality(StoredOf(K \ {x}, type) \intersect StoredOf({x}, type)) = 0
  BY <1>4, FS_EmptySet
<1>7. PICK b \in Nat, c \in Nat : b = Cardinality(StoredOf(K \ {x}, type)) /\ c = Cardinality(StoredOf({x}, type))
  BY <1>3
<1>8. Cardinality(StoredOf(K, type)) = b + c - 0
  BY <1>4, <1>5, <1>6, <1>7
<1>9. QED
  BY <1>3, <1>7, <1>8

\* One run more.
LEMMA ExplainedOneMore ==
  ASSUME RunsInd, NEW K \in SUBSET (1 .. run), IsFiniteSet(K), NEW x \in K, Explained(K \ {x})
  PROVE  Explained(K)
<1>1. \A k \in 1 .. run : Runs[k]["left"] \in Nat /\ Runs[k]["failures"] \in Nat /\ Runs[k]["lost"] \in Nat
  BY Outcomes DEF Outcome
<1>2. PICK r \in Outcome : r = Runs[x]
  BY Outcomes
<1>3. r.left \in Nat /\ r.failures \in Nat /\ r.lost \in Nat
      /\ Runs[x]["left"] = r.left /\ Runs[x]["failures"] = r.failures /\ Runs[x]["lost"] = r.lost
  BY <1>2 DEF Outcome
<1>4. /\ Total(Runs, "left", K) = r.left + Total(Runs, "left", K \ {x})
      /\ Total(Runs, "left", K \ {x}) \in Nat
  <2>1. \A k \in K : Runs[k]["left"] \in Nat
    BY <1>1
  <2>2. /\ Total(Runs, "left", K) = Runs[x]["left"] + Total(Runs, "left", K \ {x})
        /\ Total(Runs, "left", K \ {x}) \in Nat
    BY <2>1, TotalOfOneMore
  <2>3. QED
    BY <1>3, <2>2
<1>5. /\ Total(Runs, "failures", K) = r.failures + Total(Runs, "failures", K \ {x})
      /\ Total(Runs, "failures", K \ {x}) \in Nat
  <2>1. \A k \in K : Runs[k]["failures"] \in Nat
    BY <1>1
  <2>2. /\ Total(Runs, "failures", K) = Runs[x]["failures"] + Total(Runs, "failures", K \ {x})
        /\ Total(Runs, "failures", K \ {x}) \in Nat
    BY <2>1, TotalOfOneMore
  <2>3. QED
    BY <1>3, <2>2
<1>6. /\ Total(Runs, "lost", K) = r.lost + Total(Runs, "lost", K \ {x})
      /\ Total(Runs, "lost", K \ {x}) \in Nat
  <2>1. \A k \in K : Runs[k]["lost"] \in Nat
    BY <1>1
  <2>2. /\ Total(Runs, "lost", K) = Runs[x]["lost"] + Total(Runs, "lost", K \ {x})
        /\ Total(Runs, "lost", K \ {x}) \in Nat
    BY <2>1, TotalOfOneMore
  <2>3. QED
    BY <1>3, <2>2
<1>7. PICK jx \in Nat, jk \in Nat, j \in Nat :
        /\ j = Cardinality(StoredOf(K, "JOIN")) /\ jk = Cardinality(StoredOf(K \ {x}, "JOIN"))
        /\ jx = Cardinality(StoredOf({x}, "JOIN")) /\ j = jk + jx
  <2>1. /\ Cardinality(StoredOf(K, "JOIN")) \in Nat /\ Cardinality(StoredOf({x}, "JOIN")) \in Nat
        /\ Cardinality(StoredOf(K \ {x}, "JOIN")) \in Nat
        /\ Cardinality(StoredOf(K, "JOIN")) = Cardinality(StoredOf(K \ {x}, "JOIN")) + Cardinality(StoredOf({x}, "JOIN"))
    BY StoredOfOneMore
  <2>2. QED
    BY <2>1
<1>8. PICK ax \in Nat, ak \in Nat, a \in Nat :
        /\ a = Cardinality(StoredOf(K, "ABANDON")) /\ ak = Cardinality(StoredOf(K \ {x}, "ABANDON"))
        /\ ax = Cardinality(StoredOf({x}, "ABANDON")) /\ a = ak + ax
  <2>1. /\ Cardinality(StoredOf(K, "ABANDON")) \in Nat /\ Cardinality(StoredOf({x}, "ABANDON")) \in Nat
        /\ Cardinality(StoredOf(K \ {x}, "ABANDON")) \in Nat
        /\ Cardinality(StoredOf(K, "ABANDON"))
             = Cardinality(StoredOf(K \ {x}, "ABANDON")) + Cardinality(StoredOf({x}, "ABANDON"))
    BY StoredOfOneMore
  <2>2. QED
    BY <2>1
<1>9. (jx - ax) - r.left <= r.failures + r.lost /\ r.left - (jx - ax) <= r.failures + r.lost
  BY <1>2, <1>7, <1>8, RunExplained
<1>10. /\ (jk - ak) - Total(Runs, "left", K \ {x})
            <= Total(Runs, "failures", K \ {x}) + Total(Runs, "lost", K \ {x})
       /\ Total(Runs, "left", K \ {x}) - (jk - ak)
            <= Total(Runs, "failures", K \ {x}) + Total(Runs, "lost", K \ {x})
  BY <1>7, <1>8 DEF Explained
<1>11. PICK l \in Nat, f \in Nat, m \in Nat :
         /\ l = Total(Runs, "left", K \ {x}) /\ f = Total(Runs, "failures", K \ {x})
         /\ m = Total(Runs, "lost", K \ {x})
  BY <1>4, <1>5, <1>6
<1>12. /\ (j - a) - (r.left + l) <= (r.failures + f) + (r.lost + m)
       /\ (r.left + l) - (j - a) <= (r.failures + f) + (r.lost + m)
  BY <1>3, <1>7, <1>8, <1>9, <1>10, <1>11
<1>13. QED
  BY <1>4, <1>5, <1>6, <1>7, <1>8, <1>11, <1>12 DEF Explained

\* All of them.
LEMMA AllExplained ==
  ASSUME RunsInd
  PROVE  Explained(1 .. run)
<1>1. PICK N : N = 1 .. run
  OBVIOUS
<1>2. IsFiniteSet(N)
  BY <1>1, EventsOfRuns, FS_Interval
<1> DEFINE Bad == {K \in SUBSET N : ~Explained(K)}
<1>3. Bad \subseteq SUBSET N
  OBVIOUS
<1> HIDE DEF Bad
<1>4. SUFFICES ASSUME Bad # {} PROVE FALSE
  BY <1>1 DEF Bad
<1>5. PICK K \in Bad : \A L \in Bad : L \subseteq K => L = K
  BY <1>2, <1>3, <1>4, Smallest
<1>6. K \in SUBSET N /\ ~Explained(K) /\ IsFiniteSet(K)
  BY <1>2, <1>5, FS_Subset DEF Bad
<1>7. CASE K = {}
  <2>1. /\ Total(Runs, "left", {}) = 0 /\ Total(Runs, "failures", {}) = 0 /\ Total(Runs, "lost", {}) = 0
    BY FS_EmptySet, TotalOf
  <2>2. /\ Cardinality(StoredOf({}, "JOIN")) = 0 /\ Cardinality(StoredOf({}, "ABANDON")) = 0
    <3>1. StoredOf({}, "JOIN") = {} /\ StoredOf({}, "ABANDON") = {}
      BY DEF StoredOf
    <3>2. QED
      BY <3>1, FS_EmptySet
  <2>3. Explained({})
    BY <2>1, <2>2 DEF Explained
  <2>4. QED
    BY <1>6, <1>7, <2>3
<1>8. CASE K # {}
  <2>1. PICK x \in K : TRUE
    BY <1>8
  <2>2. Explained(K \ {x})
    <3>1. K \ {x} \in SUBSET N /\ K \ {x} # K
      BY <1>6, <2>1
    <3>2. K \ {x} \notin Bad
      BY <1>5, <3>1
    <3>3. QED
      BY <3>1, <3>2 DEF Bad
  <2>3. QED
    BY <1>1, <1>6, <2>1, <2>2, ExplainedOneMore
<1>9. QED
  BY <1>7, <1>8

\* The depth that the store is told is explained by the people in the queue, those
\* whom the runs left in it, and what was counted or lost.
THEOREM DepthsAreExplained == PipelineSpec => []DepthIsExplained
<1>1. RunsInd => DepthIsExplained
  <2> SUFFICES ASSUME RunsInd PROVE DepthIsExplained
    OBVIOUS
  <2>1. Explained(1 .. run) /\ IsFiniteSet(1 .. run)
    BY AllExplained, EventsOfRuns, FS_Interval
  <2>2. \A k \in 1 .. run : Runs[k]["left"] \in Nat /\ Runs[k]["failures"] \in Nat /\ Runs[k]["lost"] \in Nat
    BY Outcomes DEF Outcome
  <2>3. PICK l \in Nat, f \in Nat, m \in Nat :
          l = Total(Runs, "left", 1 .. run) /\ f = Total(Runs, "failures", 1 .. run)
          /\ m = Total(Runs, "lost", 1 .. run)
    BY <2>1, <2>2, TotalOf
  <2>4. \A type : StoredOf(1 .. run, type) = Stored(type)
    BY EventsOfRuns DEF StoredOf, Stored
  <2>5. QueueDepth \in Int /\ QueueDepth - l <= f + m /\ l - QueueDepth <= f + m
    BY <2>1, <2>3, <2>4 DEF Explained, QueueDepth
  <2>6. ReportedDepth - l \in -(f + m) .. f + m
    BY <2>5 DEF ReportedDepth
  <2>7. QED
    BY <2>3, <2>6 DEF DepthIsExplained, Total
<1>2. QED
  BY <1>1, PipelineInvariant, PTL
=============================================================================
