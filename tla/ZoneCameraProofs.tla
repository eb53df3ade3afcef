-------------------------- MODULE ZoneCameraProofs --------------------------
(***************************************************************************)
(* Proofs about the zone camera: for any number of tracks and frames, every *)
(* frame rate, every dwell interval and every precision of the clock.      *)
(***************************************************************************)
EXTENDS ZoneCamera, VisitorTrackerProofs, Integers

\* The last event of track t, if it has one.
Last(t) ==
  {i \in DOMAIN events :
     events[i].track = t /\ \A j \in i + 1 .. Len(events) : events[j].track # t}

\* What the properties say of event i and the one before it of the same track.
InTurn(i) == events[i].type = "ENTER" <=> \A j \in Previous(i) : events[j].type = "EXIT"
Timed(i) ==
  events[i].type # "ENTER" =>
    \A j \in Previous(i) :
      LET dwell == events[i].data.dwell - events[j].data.dwell
          time == events[i].data.at - events[j].data.at
          slack == Second + Millisecond + Precision
      IN dwell < time + slack /\ time < dwell + slack
Periodic(i) ==
  events[i].type # "ENTER" =>
    \A j \in Previous(i) :
      LET gap == events[i].data.dwell - events[j].data.dwell
      IN /\ gap < Interval + FrameStep + Millisecond
         /\ events[i].type = "DWELL" => gap >= Interval

\* Each event was written when the clock was at its time or before.
Written ==
  \A i \in DOMAIN events :
    /\ events[i].data.dwell \in Nat /\ events[i].data.at \in Nat
    /\ events[i].data.at <= Whole(ts, Second)
    /\ InTurn(i) /\ Timed(i) /\ Periodic(i)
    /\ \A j \in DOMAIN events : i < j => events[i].data.at <= events[j].data.at

\* Who is in the zone has an open stay, whose last event was at lastDwell: that is
\* the float of the time n whose whole seconds the event tells.
Stay(t) ==
  /\ t \in inZone <=> \E i \in Last(t) : events[i].type # "EXIT"
  /\ t \in inZone =>
       \A i \in Last(t) :
         /\ events[i].data.dwell = Whole(lastDwell[t] - enterAt[t], Millisecond)
         /\ \E n \in Nat : events[i].data.at = Whole(n, Second) /\ lastDwell[t] = Nearest(n, Precision)

Stays == \A t \in Tracks : Stay(t)

\* A dwell event is overdue by a frame at most.
Due == \A t \in inZone : now_epoch - lastDwell[t] < Interval + FrameStep

ZoneInd ==
  /\ TrackerInd
  /\ ZoneInv
  /\ Due
  /\ Stays
  /\ Written

-----------------------------------------------------------------------------
(* The clock *)

\* What is cut off is less than a grain.
LEMMA WholePart ==
  ASSUME NEW n \in Nat, NEW grain \in Nat \ {0}
  PROVE  Whole(n, grain) \in Nat /\ Whole(n, grain) <= n /\ n < Whole(n, grain) + grain
<1> DEFINE q == n \div grain
<1>1. Whole(n, grain) = q * grain
  BY DEF Whole
<1>2. q \in Nat /\ grain * q <= n /\ n < grain * q + grain
  BY Z3
<1> HIDE DEF q
<1>3. q * grain = grain * q /\ grain * q \in Nat
  BY <1>2
<1>4. QED
  BY <1>1, <1>2, <1>3

\* What grows by whole grains keeps at least these.
LEMMA WholeGrows ==
  ASSUME NEW m \in Nat, NEW n \in Nat, NEW k \in Nat, NEW grain \in Nat \ {0}, m + k * grain <= n
  PROVE  Whole(m, grain) + k * grain <= Whole(n, grain)
<1> DEFINE p == m \div grain
           q == n \div grain
<1>1. Whole(m, grain) = p * grain /\ Whole(n, grain) = q * grain
  BY DEF Whole
<1>2. p \in Nat /\ q \in Nat /\ grain * p <= m /\ n < grain * q + grain
  BY Z3
<1> HIDE DEF p, q
<1>3. p * grain = grain * p /\ q * grain = grain * q /\ k * grain = grain * k
      /\ grain * p \in Nat /\ grain * q \in Nat /\ grain * k \in Nat
  BY <1>2
<1>4. grain * p + grain * k < grain * q + grain
  BY <1>2, <1>3
<1>5. p + k <= q
  <2>1. SUFFICES ASSUME p + k >= q + 1 PROVE FALSE
    BY <1>2
  <2>2. grain * (p + k) >= grain * (q + 1)
    BY <1>2, <2>1
  <2>3. grain * (p + k) = grain * p + grain * k /\ grain * (q + 1) = grain * q + grain
    BY <1>2
  <2>4. QED
    BY <1>3, <1>4, <2>2, <2>3
<1>6. grain * (p + k) <= grain * q /\ grain * (p + k) = grain * p + grain * k
  BY <1>2, <1>5
<1>7. QED
  BY <1>1, <1>3, <1>6

\* Times do not change their order by being cut ...
LEMMA WholeOrder ==
  ASSUME NEW m \in Nat, NEW n \in Nat, NEW grain \in Nat \ {0}, m <= n
  PROVE  Whole(m, grain) <= Whole(n, grain)
<1>1. m + 0 * grain <= n /\ 0 * grain = 0
  OBVIOUS
<1>2. Whole(m, grain) + 0 * grain <= Whole(n, grain)
  BY <1>1, WholeGrows
<1>3. Whole(m, grain) \in Nat
  BY WholePart
<1>4. QED
  BY <1>1, <1>2, <1>3

\* ... or rounded, and the time between them changes by less than a grain.
LEMMA Rounding ==
  ASSUME NEW m \in Nat, NEW n \in Nat, NEW grain \in Nat \ {0}, m <= n
  PROVE  /\ Nearest(m, grain) \in Nat /\ Nearest(n, grain) \in Nat
         /\ Nearest(m, grain) <= Nearest(n, grain)
         /\ Nearest(n, grain) - Nearest(m, grain) < n - m + grain
         /\ n - m < Nearest(n, grain) - Nearest(m, grain) + grain
<1>1. PICK h : h = grain \div 2
  OBVIOUS
<1>2. h \in Nat
  BY <1>1
<1>3. Nearest(m, grain) = Whole(m + h, grain) /\ Nearest(n, grain) = Whole(n + h, grain)
  BY <1>1 DEF Nearest
<1>4. m + h \in Nat /\ n + h \in Nat /\ m + h <= n + h
  BY <1>2
<1>5. /\ Whole(m + h, grain) \in Nat /\ Whole(m + h, grain) <= m + h
      /\ m + h < Whole(m + h, grain) + grain
  BY <1>4, WholePart
<1>6. /\ Whole(n + h, grain) \in Nat /\ Whole(n + h, grain) <= n + h
      /\ n + h < Whole(n + h, grain) + grain
  BY <1>4, WholePart
<1>7. Whole(m + h, grain) <= Whole(n + h, grain)
  BY <1>4, WholeOrder
<1>8. PICK a \in Nat : a = Whole(m + h, grain)
  BY <1>5
<1>9. PICK b \in Nat : b = Whole(n + h, grain)
  BY <1>6
<1>10. QED
  BY <1>2, <1>3, <1>5, <1>6, <1>7, <1>8, <1>9

\* The grains of the clock.
LEMMA Grains ==
  /\ Millisecond \in Nat \ {0} /\ Second \in Nat \ {0} /\ Precision \in Nat \ {0}
  /\ Interval \in Nat \ {0} /\ \E k \in Nat : Interval = k * Millisecond
  /\ Elapsed(SkipFrames) \in Nat /\ FrameStep \in Nat
<1>1. Millisecond \in Nat \ {0}
  BY MicrosecondAssumption DEF Millisecond
<1>2. Second \in Nat \ {0}
  BY <1>1 DEF Second
<1>3. PICK k : k = DwellInterval * 1000
  OBVIOUS
<1>4. k \in Nat /\ Interval \in Nat \ {0} /\ Interval = k * Millisecond
  BY <1>1, <1>3, DwellIntervalAssumption DEF Interval, Second
<1>5. Elapsed(SkipFrames) \in Nat
  BY SkipFramesAssumption, FrameTimeAssumption DEF Elapsed
<1>6. QED
  BY <1>1, <1>2, <1>4, <1>5, MicrosecondAssumption, PrecisionAssumption DEF FrameStep

\* ts.timestamp() of frame n.
Epoch(n) == Nearest(FrameTimestamp(n), Precision)

\* The clock does not go back.
LEMMA TimesGrow ==
  ASSUME NEW m \in Nat, NEW n \in Nat, m <= n
  PROVE  /\ FrameTimestamp(m) \in Nat /\ FrameTimestamp(n) \in Nat
         /\ FrameTimestamp(m) <= FrameTimestamp(n)
         /\ Epoch(m) \in Nat /\ Epoch(n) \in Nat /\ Epoch(m) <= Epoch(n)
         /\ Epoch(n) - Epoch(m) < Elapsed(n) - Elapsed(m) + Microsecond + Precision
<1>1. Elapsed(m) \in Nat /\ Elapsed(n) \in Nat /\ Elapsed(m) <= Elapsed(n)
  <2>1. PICK s \in Nat : s = SkipFrames
    BY SkipFramesAssumption
  <2>2. PICK f \in Nat : f = FrameTime
    BY FrameTimeAssumption
  <2>3. m * s \in Nat /\ n * s \in Nat /\ m * s <= n * s
    BY <2>1
  <2>4. PICK a \in Nat : a = m * s
    BY <2>3
  <2>5. PICK b \in Nat : b = n * s
    BY <2>3
  <2>6. a * f \in Nat /\ b * f \in Nat /\ a * f <= b * f
    BY <2>3, <2>4, <2>5
  <2>7. QED
    BY <2>1, <2>2, <2>4, <2>5, <2>6 DEF Elapsed
<1>2. PICK a \in Nat : a = Nearest(Elapsed(m), Microsecond)
  BY <1>1, Rounding, MicrosecondAssumption
<1>3. PICK b \in Nat : b = Nearest(Elapsed(n), Microsecond)
  BY <1>1, Rounding, MicrosecondAssumption
<1>4. a <= b /\ b - a < Elapsed(n) - Elapsed(m) + Microsecond
  BY <1>1, <1>2, <1>3, Rounding, MicrosecondAssumption
<1>5. FrameTimestamp(m) = ClipStart + a /\ FrameTimestamp(n) = ClipStart + b
  BY <1>2, <1>3 DEF FrameTimestamp
<1>6. /\ FrameTimestamp(m) \in Nat /\ FrameTimestamp(n) \in Nat
      /\ FrameTimestamp(m) <= FrameTimestamp(n)
      /\ FrameTimestamp(n) - FrameTimestamp(m) = b - a
  BY <1>4, <1>5, ClipStartAssumption
<1>7. /\ Epoch(m) \in Nat /\ Epoch(n) \in Nat /\ Epoch(m) <= Epoch(n)
      /\ Epoch(n) - Epoch(m) < FrameTimestamp(n) - FrameTimestamp(m) + Precision
  BY <1>6, Rounding, PrecisionAssumption DEF Epoch
<1>8. Epoch(n) - Epoch(m) < Elapsed(n) - Elapsed(m) + Microsecond + Precision
  BY <1>1, <1>4, <1>6, <1>7, MicrosecondAssumption, PrecisionAssumption
<1>9. QED
  BY <1>6, <1>7, <1>8

\* The time of the next processed frame.
LEMMA NextTime ==
  ASSUME NEW n \in Nat
  PROVE  Epoch(n + SkipFrames) \in Nat /\ Epoch(n) <= Epoch(n + SkipFrames)
         /\ Epoch(n + SkipFrames) < Epoch(n) + FrameStep
<1>1. n + SkipFrames \in Nat /\ n <= n + SkipFrames
  BY SkipFramesAssumption
<1>2. Elapsed(n + SkipFrames) = Elapsed(n) + Elapsed(SkipFrames)
  <2>1. PICK s \in Nat : s = SkipFrames
    BY SkipFramesAssumption
  <2>2. PICK f \in Nat : f = FrameTime
    BY FrameTimeAssumption
  <2>3. PICK a \in Nat : a = n * s
    BY <2>1
  <2>4. PICK b \in Nat : b = s * s
    BY <2>1
  <2>5. (n + s) * s = a + b
    BY <2>3, <2>4
  <2>6. (a + b) * f = a * f + b * f
    OBVIOUS
  <2>7. QED
    BY <2>1, <2>2, <2>3, <2>4, <2>5, <2>6 DEF Elapsed
<1>3. Elapsed(n) \in Nat
  BY SkipFramesAssumption, FrameTimeAssumption DEF Elapsed
<1>4. /\ Epoch(n) \in Nat /\ Epoch(n + SkipFrames) \in Nat /\ Epoch(n) <= Epoch(n + SkipFrames)
      /\ Epoch(n + SkipFrames) - Epoch(n)
           < Elapsed(n + SkipFrames) - Elapsed(n) + Microsecond + Precision
  BY <1>1, TimesGrow
<1>5. QED
  BY <1>2, <1>3, <1>4, Grains, MicrosecondAssumption, PrecisionAssumption DEF FrameStep

\* The clock stands while a frame is processed.
LEMMA ClockStands ==
  ASSUME frame' = frame
  PROVE  ts' = ts /\ now_epoch' = now_epoch /\ Whole(ts, Second)' = Whole(ts, Second)
  BY DEF ts, now_epoch, FrameTimestamp, Elapsed, Nearest, Whole, Second, Millisecond

\* Its grains do all the time.
LEMMA GrainsStand == Interval' = Interval /\ FrameStep' = FrameStep
  BY DEF Interval, FrameStep, Elapsed, Second, Millisecond

\* Its state.
LEMMA ClockState ==
  ASSUME ZoneInd
  PROVE  frame \in Nat /\ ts \in Nat /\ now_epoch \in Nat
<1>1. frame \in Nat
  BY MaxFramesAssumption DEF ZoneInd, ZoneInv, TypeOK
<1>2. FrameTimestamp(frame) \in Nat /\ Epoch(frame) \in Nat
  BY <1>1, TimesGrow
<1>3. QED
  BY <1>1, <1>2 DEF ts, now_epoch, Epoch

-----------------------------------------------------------------------------
(* The events *)

\* A stay goes on without an event ...
LEMMA StayKept ==
  ASSUME Stays, NEW t \in Tracks, t \in inZone' <=> t \in inZone, Last(t)' = Last(t),
         \A i \in Last(t) : events'[i] = events[i],
         enterAt'[t] = enterAt[t], lastDwell'[t] = lastDwell[t]
  PROVE  Stay(t)'
BY DEF Stays, Stay, Whole, Nearest, Second, Millisecond

\* ... or with one at this time.
LEMMA StayTold ==
  ASSUME NEW t \in Tracks, t \in inZone', ts \in Nat, NEW i, Last(t)' = {i}, events'[i].type # "EXIT",
         lastDwell'[t] = now_epoch,
         events'[i].data.dwell = Whole(now_epoch - enterAt'[t], Millisecond),
         events'[i].data.at = Whole(ts, Second)
  PROVE  Stay(t)'
<1>1. events'[i].data.dwell = Whole(lastDwell[t] - enterAt[t], Millisecond)'
  BY DEF Whole, Millisecond
<1>2. PICK n \in Nat : n = ts
  OBVIOUS
<1>3. events'[i].data.at = Whole(n, Second) /\ lastDwell'[t] = Nearest(n, Precision)
  BY <1>2 DEF now_epoch
<1>4. (\E m \in Nat : events[i].data.at = Whole(m, Second) /\ lastDwell[t] = Nearest(m, Precision))'
  BY <1>2, <1>3 DEF Whole, Nearest, Second, Millisecond
<1>5. QED
  BY <1>1, <1>4 DEF Stay

\* Nothing is emitted.
LEMMA NoNews ==
  ASSUME events' = events
  PROVE  /\ \A t : Last(t)' = Last(t)
         /\ \A i : InTurn(i)' <=> InTurn(i)
         /\ \A i : Timed(i)' <=> Timed(i)
         /\ \A i : Periodic(i)' <=> Periodic(i)
BY DEF Last, InTurn, Timed, Periodic, Previous

\* An event of t comes after the last one of t, and is the last one then.
LEMMA News ==
  ASSUME NEW n, n = Len(events), n \in Nat, DOMAIN events = 1 .. n, DOMAIN events' = 1 .. n + 1,
         Len(events') = n + 1, \A i \in 1 .. n : events'[i] = events[i],
         NEW t, events'[n + 1].track = t
  PROVE  /\ \A i \in 1 .. n : Previous(i)' = Previous(i)
         /\ Previous(n + 1)' = Last(t)
         /\ Last(t)' = {n + 1}
         /\ \A u : u # t => Last(u)' = Last(u)
         /\ \A i \in 1 .. n : (InTurn(i)' <=> InTurn(i)) /\ (Timed(i)' <=> Timed(i))
                              /\ (Periodic(i)' <=> Periodic(i))
<1>1. ASSUME NEW i \in 1 .. n
      PROVE  Previous(i)' = Previous(i) /\ Previous(i) \subseteq 1 .. n
  BY <1>1 DEF Previous
<1>2. Previous(n + 1)' = Last(t)
  <2>1. (n + 1) - 1 = n
    OBVIOUS
  <2>2. QED
    BY <2>1 DEF Previous, Last
<1>3. Last(t)' = {n + 1}
  BY DEF Last
<1>4. ASSUME NEW u, u # t
      PROVE  Last(u)' = Last(u)
  <2>1. \A i \in 1 .. n : i + 1 .. n + 1 = (i + 1 .. n) \union {n + 1}
    OBVIOUS
  <2>2. \A i \in 1 .. n + 1 : i \in 1 .. n \/ i = n + 1
    OBVIOUS
  <2>3. QED
    BY <1>4, <2>1, <2>2 DEF Last
<1>5. ASSUME NEW i \in 1 .. n
      PROVE  (InTurn(i)' <=> InTurn(i)) /\ (Timed(i)' <=> Timed(i)) /\ (Periodic(i)' <=> Periodic(i))
  BY <1>1, <1>5 DEF InTurn, Timed, Periodic
<1>6. QED
  BY <1>1, <1>2, <1>3, <1>4, <1>5

\* An event of t about the stay that begins, goes on or ends: it is in turn, and
\* its dwell and its time agree with those of the event before.
LEMMA ZoneEventWritten ==
  ASSUME ZoneInd, NEW t \in Tracks, NEW v, NEW type, NEW dwell,
         ZoneEvent(type, t, v, dwell), frame' = frame,
         \/ type = "ENTER" /\ t \notin inZone /\ dwell = 0
         \/ /\ type # "ENTER" /\ t \in inZone /\ dwell = DwellMs(t)
            /\ type = "DWELL" => now_epoch - lastDwell[t] >= Interval
  PROVE  /\ Written'
         /\ \A u \in Tracks \ {t} : Last(u)' = Last(u)
         /\ \A u \in Tracks \ {t} : \A i \in Last(u) : events'[i] = events[i]
         /\ \E i : /\ Last(t)' = {i}
                 /\ events'[i].type = type /\ events'[i].data.dwell = dwell
                 /\ events'[i].data.at = Whole(ts, Second)
<1>1. PICK n : n = Len(events)
  OBVIOUS
<1> DEFINE data == [frame |-> frame, at |-> Whole(ts, Second), dwell |-> dwell]
<1>2. Emit(type, t, v, data) /\ data.at = Whole(ts, Second) /\ data.dwell = dwell
  BY DEF ZoneEvent
<1>3. \E S : events \in Seq(S)
  BY DEF ZoneInd, TrackerInd, Recorded
<1> HIDE DEF data
<1>4. /\ n \in Nat /\ DOMAIN events = 1 .. n
      /\ Len(events') = n + 1 /\ DOMAIN events' = 1 .. n + 1
      /\ \A i \in 1 .. n : events'[i] = events[i]
      /\ events'[n + 1].type = type /\ events'[n + 1].track = t /\ events'[n + 1].data = data
  BY <1>1, <1>2, <1>3, EmitAppends
<1>5. events'[n + 1].data.at = Whole(ts, Second) /\ events'[n + 1].data.dwell = dwell
  BY <1>2, <1>4
<1>6. /\ \A i \in 1 .. n : Previous(i)' = Previous(i)
      /\ Previous(n + 1)' = Last(t)
      /\ Last(t)' = {n + 1}
      /\ \A u : u # t => Last(u)' = Last(u)
      /\ \A i \in 1 .. n : (InTurn(i)' <=> InTurn(i)) /\ (Timed(i)' <=> Timed(i))
                           /\ (Periodic(i)' <=> Periodic(i))
  BY <1>1, <1>4, News
<1>7. Last(t) \subseteq 1 .. n /\ \A u : Last(u) \subseteq 1 .. n
  BY <1>4 DEF Last
<1>8. /\ ts \in Nat /\ now_epoch = Nearest(ts, Precision) /\ now_epoch \in Nat
      /\ Whole(ts, Second) \in Nat /\ Whole(ts, Second)' = Whole(ts, Second)
  BY ClockState, ClockStands, WholePart, Grains DEF now_epoch
<1>9. \A i \in 1 .. n : /\ events[i].data.dwell \in Nat /\ events[i].data.at \in Nat
                        /\ events[i].data.at <= Whole(ts, Second)
                        /\ InTurn(i) /\ Timed(i) /\ Periodic(i)
                        /\ \A j \in 1 .. n : i < j => events[i].data.at <= events[j].data.at
  BY <1>4 DEF ZoneInd, Written
<1>10. /\ t \in inZone <=> \E i \in Last(t) : events[i].type # "EXIT"
       /\ t \in inZone =>
            \A i \in Last(t) :
              /\ events[i].data.dwell = Whole(lastDwell[t] - enterAt[t], Millisecond)
              /\ \E m \in Nat : events[i].data.at = Whole(m, Second) /\ lastDwell[t] = Nearest(m, Precision)
  BY DEF ZoneInd, Stays, Stay
<1>11. InTurn(n + 1)'
  <2>1. \A j \in Last(t) : \A k \in Last(t) : j = k
    <3>1. ASSUME NEW j \in Last(t), NEW k \in Last(t), j < k
          PROVE  FALSE
      <4>1. k \in j + 1 .. Len(events) /\ events[k].track = t
        BY <1>1, <1>4, <1>7, <3>1 DEF Last
      <4>2. QED
        BY <3>1, <4>1 DEF Last
    <3>2. \A j \in Last(t) : j \in Int
      BY <1>7
    <3>3. QED
      BY <3>1, <3>2
  <2>2. type = "ENTER" <=> \A j \in Last(t) : events[j].type = "EXIT"
    BY <1>10, <2>1
  <2>3. \A j \in Last(t) : events'[j] = events[j]
    BY <1>4, <1>7
  <2>4. QED
    BY <1>4, <1>6, <2>2, <2>3 DEF InTurn
<1>12. t \in inZone => /\ enterAt[t] \in Nat /\ lastDwell[t] \in Nat
                      /\ enterAt[t] <= lastDwell[t] /\ lastDwell[t] <= now_epoch
  BY DEF ZoneInd, ZoneInv, TypeOK
<1>13. dwell \in Nat
  <2>1. CASE t \in inZone /\ dwell = DwellMs(t)
    <3>1. now_epoch - enterAt[t] \in Nat
      BY <1>8, <1>12, <2>1
    <3>2. QED
      BY <2>1, <3>1, WholePart, Grains DEF DwellMs
  <2>2. QED
    BY <2>1
<1>14. ASSUME type # "ENTER", NEW j \in Last(t)
       PROVE  LET gap == dwell - events[j].data.dwell
                  time == Whole(ts, Second) - events[j].data.at
                  slack == Second + Millisecond + Precision
              IN /\ events'[j] = events[j]
                 /\ gap < time + slack /\ time < gap + slack
                 /\ gap < Interval + FrameStep + Millisecond
                 /\ type = "DWELL" => gap >= Interval
  <2>1. t \in inZone /\ dwell = DwellMs(t)
    BY <1>14
  <2>2. PICK d \in Nat : d = lastDwell[t] - enterAt[t]
    BY <1>12, <2>1
  <2>3. PICK e \in Nat : e = now_epoch - enterAt[t]
    BY <1>8, <1>12, <2>1
  <2>4. d <= e /\ e - d = now_epoch - lastDwell[t]
    BY <1>8, <1>12, <2>1, <2>2, <2>3
  <2>5. PICK p \in Nat : p = Whole(d, Millisecond)
    BY WholePart, Grains
  <2>6. PICK q \in Nat : q = Whole(e, Millisecond)
    BY WholePart, Grains
  <2>7. events[j].data.dwell = p /\ dwell = q
    BY <1>10, <1>14, <2>1, <2>2, <2>3, <2>5, <2>6 DEF DwellMs
  <2>8. p <= d /\ d < p + Millisecond /\ q <= e /\ e < q + Millisecond
    BY <2>5, <2>6, WholePart, Grains
  <2>9. e - d < Interval + FrameStep
    BY <2>1, <2>4 DEF ZoneInd, Due
  <2>10. q - p < Interval + FrameStep + Millisecond
    BY <2>8, <2>9, Grains
  <2>11. ASSUME type = "DWELL"
         PROVE  q - p >= Interval
    <3>1. e - d >= Interval
      BY <1>14, <2>4, <2>11
    <3>2. PICK k \in Nat : Interval = k * Millisecond
      BY Grains
    <3>3. d + k * Millisecond <= e
      BY <3>1, <3>2, Grains
    <3>4. p + k * Millisecond <= q
      BY <2>5, <2>6, <3>3, WholeGrows, Grains
    <3>5. QED
      BY <3>2, <3>4, Grains
  <2>12. PICK m \in Nat : events[j].data.at = Whole(m, Second) /\ lastDwell[t] = Nearest(m, Precision)
    BY <1>10, <1>14, <2>1
  <2>13. ts - m < (e - d) + Precision /\ e - d < (ts - m) + Precision
    <3>1. CASE m <= ts
      BY <1>8, <2>4, <2>12, <3>1, Rounding, PrecisionAssumption
    <3>2. CASE ts <= m
      <4>1. /\ Nearest(ts, Precision) <= Nearest(m, Precision)
            /\ m - ts < Nearest(m, Precision) - Nearest(ts, Precision) + Precision
        BY <1>8, <3>2, Rounding, PrecisionAssumption
      <4>2. now_epoch = lastDwell[t] /\ m - ts < Precision
        BY <1>8, <1>12, <2>1, <2>12, <4>1, PrecisionAssumption
      <4>3. QED
        BY <1>8, <1>12, <2>1, <2>4, <3>2, <4>2, PrecisionAssumption
    <3>3. QED
      BY <1>8, <3>1, <3>2
  <2>14. PICK a \in Nat : a = Whole(m, Second) /\ a <= m /\ m < a + Second
    BY WholePart, Grains
  <2>15. PICK b \in Nat : b = Whole(ts, Second) /\ b <= ts /\ ts < b + Second
    BY <1>8, WholePart, Grains
  <2>16. /\ q - p < (b - a) + (Second + Millisecond + Precision)
         /\ b - a < (q - p) + (Second + Millisecond + Precision)
    BY <1>8, <2>8, <2>13, <2>14, <2>15, Grains
  <2>17. events'[j] = events[j]
    BY <1>4, <1>7, <1>14
  <2>18. QED
    BY <2>7, <2>10, <2>11, <2>12, <2>14, <2>15, <2>16, <2>17
<1>15. Timed(n + 1)'
  BY <1>4, <1>5, <1>6, <1>14 DEF Timed
<1>16. Periodic(n + 1)'
  BY <1>4, <1>5, <1>6, <1>14 DEF Periodic
<1>17. Written'
  <2>1. ASSUME NEW i \in 1 .. n
        PROVE  /\ events'[i].data.dwell \in Nat /\ events'[i].data.at \in Nat
               /\ events'[i].data.at <= Whole(ts, Second)'
               /\ InTurn(i)' /\ Timed(i)' /\ Periodic(i)'
               /\ \A j \in DOMAIN events' : i < j => events'[i].data.at <= events'[j].data.at
    <3>1. events'[i] = events[i] /\ Whole(ts, Second)' = Whole(ts, Second)
      BY <1>4, <1>8, <2>1
    <3>2. \A j \in DOMAIN events' : j \in 1 .. n \/ j = n + 1
      BY <1>4
    <3>3. QED
      BY <1>4, <1>5, <1>6, <1>9, <2>1, <3>1, <3>2
  <2>2. /\ events'[n + 1].data.dwell \in Nat /\ events'[n + 1].data.at \in Nat
        /\ events'[n + 1].data.at <= Whole(ts, Second)'
        /\ \A j \in DOMAIN events' : n + 1 < j => events'[n + 1].data.at <= events'[j].data.at
    BY <1>4, <1>5, <1>8, <1>13
  <2>3. \A i \in DOMAIN events' : i \in 1 .. n \/ i = n + 1
    BY <1>4
  <2>4. QED
    BY <1>11, <1>15, <1>16, <2>1, <2>2, <2>3 DEF Written
<1>18. QED
  BY <1>4, <1>5, <1>6, <1>7, <1>13, <1>17

\* When nothing is emitted, what the events say stays true while the clock goes
\* forward and the stays are the same.
LEMMA NothingWritten ==
  ASSUME ZoneInd, events' = events, frame' \in Nat, frame <= frame',
         UNCHANGED <<inZone, enterAt, lastDwell>>
  PROVE  Written' /\ Stays'
<1>1. ts \in Nat /\ FrameTimestamp(frame') \in Nat /\ ts <= FrameTimestamp(frame')
  BY ClockState, TimesGrow DEF ts
<1>2. /\ Whole(ts, Second) \in Nat /\ Whole(FrameTimestamp(frame'), Second) \in Nat
      /\ Whole(ts, Second) <= Whole(FrameTimestamp(frame'), Second)
  BY <1>1, WholePart, WholeOrder, Grains
<1>3. Whole(ts, Second)' = Whole(FrameTimestamp(frame'), Second)
  BY DEF ts, Whole, FrameTimestamp, Elapsed, Nearest, Second, Millisecond
<1>4. Written'
  <2>1. \A i \in DOMAIN events :
          /\ events[i].data.dwell \in Nat /\ events[i].data.at \in Nat
          /\ events[i].data.at <= Whole(ts, Second)
    BY DEF ZoneInd, Written
  <2>2. \A i \in DOMAIN events : events[i].data.at <= Whole(ts, Second)'
    BY <1>2, <1>3, <2>1
  <2>3. \A i \in DOMAIN events : InTurn(i)' /\ Timed(i)' /\ Periodic(i)'
    BY NoNews DEF ZoneInd, Written
  <2>4. QED
    BY <2>1, <2>2, <2>3 DEF ZoneInd, Written
<1>5. Stays'
  <2>1. \A t \in Tracks : Stay(t)'
    BY NoNews, StayKept DEF ZoneInd
  <2>2. QED
    BY <2>1 DEF Stays
<1>6. QED
  BY <1>4, <1>5

-----------------------------------------------------------------------------
(* The steps *)

\* What the parts of the invariant say of the state.
LEMMA ZoneState ==
  ASSUME ZoneInd
  PROVE  /\ TrackerTypeOK /\ TrackerInd
         /\ frame \in Nat /\ frame \in 0 .. MaxFrames
         /\ present \subseteq Tracks /\ todo \subseteq present /\ inZone \subseteq Tracks
         /\ enterAt \in [Tracks -> Nat] /\ lastDwell \in [Tracks -> Nat] /\ ended \in BOOLEAN
         /\ now_epoch \in Nat
         /\ \A t \in inZone : Known(t) /\ enterAt[t] <= lastDwell[t] /\ lastDwell[t] <= now_epoch
         /\ Departed # {} => todo = present
         /\ \A t \in inZone \ (Departed \union todo) : now_epoch - lastDwell[t] < Interval
         /\ Interval \in Nat \ {0} /\ FrameStep \in Nat
<1>1. frame \in Nat
  BY MaxFramesAssumption DEF ZoneInd, ZoneInv, TypeOK
<1>2. now_epoch \in Nat
  BY ClockState
<1>3. QED
  BY <1>1, <1>2, Grains DEF ZoneInd, ZoneInv, TypeOK

\* Nobody is in the zone at the start, and there are no events.
LEMMA ZoneStarts == Init => ZoneInd
<1> SUFFICES ASSUME Init PROVE ZoneInd
  OBVIOUS
<1>1. TrackerInd
  BY TrackerStarts DEF Init
<1>2. events = <<>> /\ DOMAIN events = {} /\ \A t : Last(t) = {}
  BY DEF Init, TrackerInit, Last
<1>3. TypeOK
  <2>1. TrackerTypeOK /\ 0 \in 0 .. MaxFrames
    BY <1>1, MaxFramesAssumption DEF TrackerInd, TrackerInv
  <2>2. QED
    BY <2>1 DEF Init, TypeOK
<1>4. ZoneInv /\ Due
  BY <1>1, <1>3 DEF Init, ZoneInv, Due, TrackerInd, Departed
<1>5. Stays /\ Written
  BY <1>2 DEF Init, Stays, Stay, Written
<1>6. QED
  BY <1>1, <1>4, <1>5 DEF ZoneInd

\* A frame is read.
LEMMA ReadFramePreserves ==
  ASSUME ZoneInd, NEW S \in SUBSET Tracks, ReadFrame(S)
  PROVE  ZoneInd'
<1>1. /\ Departed = {} /\ todo = {} /\ frame + SkipFrames <= MaxFrames
      /\ frame' = frame + SkipFrames /\ present' = S /\ todo' = S
      /\ UNCHANGED <<trackerVars, inZone, enterAt, lastDwell, ended>>
  BY DEF ReadFrame
<1>2. UNCHANGED <<visitorOf, remembered, exited, seqs, events>>
  BY <1>1 DEF trackerVars
<1>3. frame' \in Nat /\ frame <= frame' /\ frame' \in 0 .. MaxFrames
  BY <1>1, ZoneState, SkipFramesAssumption, MaxFramesAssumption
<1>4. TrackerInd'
  BY <1>2, ZoneState, QuietStep DEF Steady, TrackerTypeOK
<1>5. Written' /\ Stays'
  BY <1>1, <1>2, <1>3, NothingWritten
<1>6. now_epoch' \in Nat /\ now_epoch <= now_epoch' /\ now_epoch' < now_epoch + FrameStep
  <2>1. now_epoch = Epoch(frame)
    BY DEF now_epoch, ts, Epoch
  <2>2. now_epoch' = Epoch(frame + SkipFrames)
    BY <1>1 DEF now_epoch, ts, Epoch, FrameTimestamp, Elapsed, Nearest, Whole
  <2>3. QED
    BY <2>1, <2>2, ZoneState, NextTime
<1>7. \A t \in inZone : now_epoch - lastDwell[t] < Interval
  BY <1>1, ZoneState
<1>8. Due'
  <2>1. \A t \in inZone : now_epoch' - lastDwell[t] < Interval + FrameStep
    <3>1. ASSUME NEW t \in inZone
          PROVE  now_epoch' - lastDwell[t] < Interval + FrameStep
      <4>1. now_epoch - lastDwell[t] < Interval /\ lastDwell[t] \in Nat
        BY <1>7, ZoneState
      <4>2. QED
        BY <1>6, <4>1, ZoneState
    <3>2. QED
      BY <3>1
  <2>2. \A t \in inZone : lastDwell[t] \in Nat
    BY ZoneState
  <2>3. QED
    BY <1>1, <2>1, GrainsStand DEF Due
<1>9. \A t \in inZone' : Known(t)' /\ enterAt'[t] <= lastDwell'[t] /\ lastDwell'[t] <= now_epoch'
  <2>1. \A t \in inZone : lastDwell[t] \in Nat /\ enterAt[t] \in Nat
    BY ZoneState
  <2>2. QED
    BY <1>1, <1>2, <1>6, <2>1, ZoneState DEF Known
<1>10. /\ Departed' # {} => todo' = present'
       /\ inZone' \ (Departed \union todo)' = {}
  BY <1>1 DEF Departed
<1>11. TypeOK'
  BY <1>1, <1>3, <1>4, ZoneState DEF TypeOK, TrackerInd, TrackerInv
<1>12. QED
  BY <1>4, <1>5, <1>8, <1>9, <1>10, <1>11 DEF ZoneInd, ZoneInv, TrackerInd

\* A track is gone.
LEMMA ZoneExitPreserves ==
  ASSUME ZoneInd, NEW t \in Tracks, ZoneExit(t)
  PROVE  ZoneInd'
<1>1. /\ t \in Departed /\ t \in inZone /\ inZone' = inZone \ {t}
      /\ ZoneEvent("EXIT", t, NameOf(t), DwellMs(t))
      /\ UNCHANGED <<visitorOf, remembered, exited, frame, present, todo, enterAt, lastDwell, ended>>
  BY DEF ZoneExit, Departed
<1>2. Known(t)
  BY <1>1, ZoneState
<1>3. NameOf(t) = visitorOf[t] /\ visitorOf[t] \in Tracks
  BY <1>2, ZoneState DEF NameOf, Known, TrackerTypeOK
<1>4. TrackerInd'
  <2>1. Steady /\ visitorOf'[t] = NameOf(t) /\ NameOf(t) \in Tracks
        /\ remembered' \subseteq Tracks /\ exited' \subseteq Tracks
    BY <1>1, <1>3, ZoneState DEF Steady, TrackerTypeOK
  <2>2. Emit("EXIT", t, NameOf(t), [frame |-> frame, at |-> Whole(ts, Second), dwell |-> DwellMs(t)])
    BY <1>1 DEF ZoneEvent
  <2>3. QED
    BY <2>1, <2>2, ZoneState, EmitStep
<1>5. /\ Written'
      /\ \A u \in Tracks \ {t} : Last(u)' = Last(u)
      /\ \A u \in Tracks \ {t} : \A i \in Last(u) : events'[i] = events[i]
      /\ \E i : Last(t)' = {i} /\ events'[i].type = "EXIT"
  BY <1>1, <1>2, ZoneEventWritten
<1>6. Stays'
  <2>1. ASSUME NEW u \in Tracks \ {t}
        PROVE  Stay(u)'
    BY <1>1, <1>5, <2>1, StayKept DEF ZoneInd
  <2>2. Stay(t)'
    BY <1>1, <1>5 DEF Stay
  <2>3. QED
    BY <2>1, <2>2 DEF Stays
<1>7. now_epoch' = now_epoch
  BY <1>1, ClockStands
<1>8. Due'
  BY <1>1, <1>7, GrainsStand DEF ZoneInd, Due
<1>9. TypeOK'
  BY <1>1, <1>4, ZoneState DEF TypeOK, TrackerInd, TrackerInv
<1>10. \A u \in inZone' : Known(u)' /\ enterAt'[u] <= lastDwell'[u] /\ lastDwell'[u] <= now_epoch'
  BY <1>1, <1>7, ZoneState DEF Known
<1>11. /\ Departed' # {} => todo' = present'
       /\ \A u \in inZone' \ (Departed \union todo)' : now_epoch' - lastDwell'[u] < Interval
  <2>1. Departed # {} /\ Departed' = Departed \ {t}
    BY <1>1 DEF Departed
  <2>2. todo' = present' /\ inZone' \ (Departed' \union todo') \subseteq inZone \ (Departed \union todo)
    BY <1>1, <2>1, ZoneState
  <2>3. QED
    BY <1>1, <1>7, <2>2, ZoneState
<1>12. QED
  BY <1>4, <1>5, <1>6, <1>8, <1>9, <1>10, <1>11 DEF ZoneInd, ZoneInv, TrackerInd

\* A person enters the zone.
LEMMA ZoneEnterPreserves ==
  ASSUME ZoneInd, NEW t \in Tracks, NEW embedded \in BOOLEAN, ZoneEnter(t, embedded)
  PROVE  ZoneInd'
<1>1. /\ Departed = {} /\ t \in todo /\ t \notin inZone /\ todo' = todo \ {t}
      /\ inZone' = inZone \union {t}
      /\ enterAt' = [enterAt EXCEPT ![t] = now_epoch] /\ lastDwell' = [lastDwell EXCEPT ![t] = now_epoch]
      /\ UNCHANGED <<exited, frame, present, ended>>
  BY DEF ZoneEnter
<1>2. PICK id \in Identities(t, FALSE, embedded) :
        GetOrCreate(t, embedded, id) /\ ZoneEvent("ENTER", t, id.visitor, 0)
  BY DEF ZoneEnter
<1>3. /\ id.visitor \in Tracks /\ Steady /\ visitorOf'[t] = id.visitor
      /\ remembered' \subseteq Tracks
  <2>1. TrackerTypeOK
    BY ZoneState
  <2>2. QED
    BY <1>2, <2>1, Identified
<1>4. TrackerInd'
  <2>1. Emit("ENTER", t, id.visitor, [frame |-> frame, at |-> Whole(ts, Second), dwell |-> 0])
    BY <1>2 DEF ZoneEvent
  <2>2. exited' \subseteq Tracks
    BY <1>1, ZoneState DEF TrackerTypeOK
  <2>3. QED
    BY <1>3, <2>1, <2>2, ZoneState, EmitStep
<1>5. /\ Written'
      /\ \A u \in Tracks \ {t} : Last(u)' = Last(u)
      /\ \A u \in Tracks \ {t} : \A i \in Last(u) : events'[i] = events[i]
      /\ \E i : /\ Last(t)' = {i} /\ events'[i].type = "ENTER" /\ events'[i].data.dwell = 0
              /\ events'[i].data.at = Whole(ts, Second)
  BY <1>1, <1>2, ZoneEventWritten
<1>6. enterAt'[t] = now_epoch /\ lastDwell'[t] = now_epoch /\ now_epoch \in Nat
      /\ \A u \in Tracks \ {t} : enterAt'[u] = enterAt[u] /\ lastDwell'[u] = lastDwell[u]
  BY <1>1, ZoneState
<1>7. now_epoch' = now_epoch
  BY <1>1, ClockStands
<1>8. Stays'
  <2>1. ASSUME NEW u \in Tracks \ {t}
        PROVE  Stay(u)'
    BY <1>1, <1>5, <1>6, <2>1, StayKept DEF ZoneInd
  <2>2. Stay(t)'
    <3>1. PICK i : /\ Last(t)' = {i} /\ events'[i].type = "ENTER" /\ events'[i].data.dwell = 0
                   /\ events'[i].data.at = Whole(ts, Second)
      BY <1>5
    <3>2. now_epoch - enterAt'[t] = 0 /\ Whole(0, Millisecond) = 0
      BY <1>6, WholePart, Grains
    <3>3. QED
      BY <1>1, <1>6, <3>1, <3>2, ClockState, StayTold
  <2>3. QED
    BY <2>1, <2>2 DEF Stays
<1>9. Due'
  <2>1. now_epoch - now_epoch < Interval + FrameStep
    BY <1>6, ZoneState
  <2>2. QED
    BY <1>1, <1>6, <1>7, <2>1, ZoneState, GrainsStand DEF ZoneInd, Due
<1>10. TypeOK'
  BY <1>1, <1>4, ZoneState DEF TypeOK, TrackerInd, TrackerInv
<1>11. \A u \in inZone' : Known(u)' /\ enterAt'[u] <= lastDwell'[u] /\ lastDwell'[u] <= now_epoch'
  <2>1. Known(t)'
    BY <1>3, NoVisitorAssumption DEF Known
  <2>2. \A u \in inZone : Known(u)' /\ u \in Tracks \ {t}
    BY <1>1, <1>3, ZoneState, KnownStays
  <2>3. QED
    BY <1>1, <1>6, <1>7, <2>1, <2>2, ZoneState
<1>12. /\ Departed' = {}
       /\ \A u \in inZone' \ (Departed \union todo)' : now_epoch' - lastDwell'[u] < Interval
  <2>1. Departed' = {}
    BY <1>1, ZoneState DEF Departed
  <2>2. ASSUME NEW u \in inZone', u \notin todo'
        PROVE  now_epoch' - lastDwell'[u] < Interval
    <3>1. CASE u = t
      BY <1>6, <1>7, <3>1, ZoneState, GrainsStand
    <3>2. CASE u # t
      <4>1. u \in inZone \ (Departed \union todo) /\ u \in Tracks \ {t}
        BY <1>1, <2>2, <3>2, ZoneState
      <4>2. QED
        BY <1>6, <1>7, <4>1, ZoneState
    <3>3. QED
      BY <3>1, <3>2
  <2>3. QED
    BY <2>1, <2>2
<1>13. QED
  BY <1>4, <1>5, <1>8, <1>9, <1>10, <1>11, <1>12 DEF ZoneInd, ZoneInv, TrackerInd

\* A person stays in the zone.
LEMMA ZoneStayPreserves ==
  ASSUME ZoneInd, NEW t \in Tracks, NEW embedded \in BOOLEAN, ZoneStay(t, embedded)
  PROVE  ZoneInd'
<1>1. /\ Departed = {} /\ t \in todo /\ t \in inZone /\ todo' = todo \ {t}
      /\ UNCHANGED <<exited, frame, present, inZone, enterAt, ended>>
  BY DEF ZoneStay
<1>2. PICK id \in Identities(t, FALSE, embedded) :
        /\ GetOrCreate(t, embedded, id)
        /\ IF now_epoch - lastDwell[t] >= Interval
             THEN /\ ZoneEvent("DWELL", t, id.visitor, DwellMs(t))
                  /\ lastDwell' = [lastDwell EXCEPT ![t] = now_epoch]
             ELSE UNCHANGED <<seqs, events, lastDwell>>
  BY DEF ZoneStay
<1>3. /\ id.visitor \in Tracks /\ Steady /\ visitorOf'[t] = id.visitor
      /\ remembered' \subseteq Tracks /\ exited' \subseteq Tracks
  <2>1. TrackerTypeOK
    BY ZoneState
  <2>2. exited' \subseteq Tracks
    BY <1>1, <2>1 DEF TrackerTypeOK
  <2>3. QED
    BY <1>2, <2>1, <2>2, Identified
<1>4. now_epoch' = now_epoch /\ now_epoch \in Nat
  BY <1>1, ZoneState, ClockStands
<1>5. /\ enterAt[t] \in Nat /\ lastDwell[t] \in Nat
      /\ enterAt[t] <= lastDwell[t] /\ lastDwell[t] <= now_epoch
  BY <1>1, ZoneState
<1>6. Departed' = {}
  BY <1>1 DEF Departed
<1>7. \A u \in inZone : Known(u)' /\ u \in Tracks
  BY <1>3, ZoneState, KnownStays
<1>8. CASE now_epoch - lastDwell[t] >= Interval
  <2>1. /\ ZoneEvent("DWELL", t, id.visitor, DwellMs(t))
        /\ lastDwell' = [lastDwell EXCEPT ![t] = now_epoch]
    BY <1>2, <1>8
  <2>3. TrackerInd'
    <3>1. Emit("DWELL", t, id.visitor,
               [frame |-> frame, at |-> Whole(ts, Second), dwell |-> DwellMs(t)])
      BY <2>1 DEF ZoneEvent
    <3>2. QED
      BY <1>3, <3>1, ZoneState, EmitStep
  <2>4. /\ Written'
        /\ \A u \in Tracks \ {t} : Last(u)' = Last(u)
        /\ \A u \in Tracks \ {t} : \A i \in Last(u) : events'[i] = events[i]
        /\ \E i : /\ Last(t)' = {i} /\ events'[i].type = "DWELL"
                /\ events'[i].data.dwell = DwellMs(t)
                /\ events'[i].data.at = Whole(ts, Second)
    BY <1>1, <1>8, <2>1, ZoneEventWritten
  <2>5. lastDwell'[t] = now_epoch /\ \A u \in Tracks \ {t} : lastDwell'[u] = lastDwell[u]
    BY <2>1, ZoneState
  <2>6. Stays'
    <3>1. ASSUME NEW u \in Tracks \ {t}
          PROVE  Stay(u)'
      BY <1>1, <2>4, <2>5, <3>1, StayKept DEF ZoneInd
    <3>2. Stay(t)'
      BY <1>1, <2>4, <2>5, ClockState, StayTold DEF DwellMs
    <3>3. QED
      BY <3>1, <3>2 DEF Stays
  <2>7. Due'
    <3>1. now_epoch - now_epoch < Interval + FrameStep
      BY <1>4, ZoneState
    <3>2. QED
      BY <1>1, <1>4, <2>5, <3>1, ZoneState, GrainsStand DEF ZoneInd, Due
  <2>8. TypeOK'
    BY <1>1, <1>4, <2>1, <2>3, ZoneState DEF TypeOK, TrackerInd, TrackerInv
  <2>9. \A u \in inZone' : Known(u)' /\ enterAt'[u] <= lastDwell'[u] /\ lastDwell'[u] <= now_epoch'
    <3>1. ASSUME NEW u \in inZone
          PROVE  enterAt[u] <= lastDwell'[u] /\ lastDwell'[u] <= now_epoch
      <4>1. CASE u = t
        BY <1>4, <1>5, <2>5, <4>1
      <4>2. CASE u # t
        BY <1>7, <2>5, <3>1, <4>2, ZoneState
      <4>3. QED
        BY <4>1, <4>2
    <3>2. QED
      BY <1>1, <1>4, <1>7, <3>1
  <2>10. \A u \in inZone' \ (Departed \union todo)' : now_epoch' - lastDwell'[u] < Interval
    <3>1. ASSUME NEW u \in inZone', u \notin todo'
          PROVE  now_epoch' - lastDwell'[u] < Interval
      <4>1. CASE u = t
        BY <1>4, <2>5, <4>1, ZoneState, GrainsStand
      <4>2. CASE u # t
        <5>1. u \in inZone \ (Departed \union todo) /\ u \in Tracks \ {t}
          BY <1>1, <1>7, <3>1, <4>2
        <5>2. QED
          BY <1>4, <2>5, <5>1, ZoneState
      <4>3. QED
        BY <4>1, <4>2
    <3>2. QED
      BY <3>1
  <2>11. QED
    BY <1>6, <2>3, <2>4, <2>6, <2>7, <2>8, <2>9, <2>10 DEF ZoneInd, ZoneInv, TrackerInd
<1>9. CASE ~(now_epoch - lastDwell[t] >= Interval)
  <2>1. UNCHANGED <<seqs, events, lastDwell>>
    BY <1>2, <1>9
  <2>2. TrackerInd'
    BY <1>3, <2>1, ZoneState, QuietStep
  <2>3. Written' /\ Stays'
    BY <1>1, <2>1, ZoneState, NothingWritten
  <2>4. Due'
    BY <1>1, <1>4, <2>1, GrainsStand DEF ZoneInd, Due
  <2>5. TypeOK'
    BY <1>1, <2>1, <2>2, ZoneState DEF TypeOK, TrackerInd, TrackerInv
  <2>6. \A u \in inZone' : Known(u)' /\ enterAt'[u] <= lastDwell'[u] /\ lastDwell'[u] <= now_epoch'
    BY <1>1, <1>4, <1>7, <2>1, ZoneState
  <2>7. now_epoch - lastDwell[t] < Interval
    BY <1>4, <1>5, <1>9, ZoneState
  <2>8. \A u \in inZone' \ (Departed \union todo)' : now_epoch' - lastDwell'[u] < Interval
    <3>1. ASSUME NEW u \in inZone, u \notin todo'
          PROVE  now_epoch - lastDwell[u] < Interval
      BY <1>1, <2>7, <3>1, ZoneState
    <3>2. QED
      BY <1>1, <1>4, <2>1, <3>1
  <2>9. QED
    BY <1>6, <2>2, <2>3, <2>4, <2>5, <2>6, <2>8 DEF ZoneInd, ZoneInv, TrackerInd
<1>10. QED
  BY <1>8, <1>9

\* The video is over, or nothing happens.
LEMMA ZoneEndPreserves ==
  ASSUME ZoneInd, EndOfVideo \/ UNCHANGED vars
  PROVE  ZoneInd'
<1>1. /\ UNCHANGED <<visitorOf, remembered, exited, seqs, events>>
      /\ UNCHANGED <<frame, present, todo, inZone, enterAt, lastDwell>> /\ ended' \in BOOLEAN
  BY ZoneState DEF EndOfVideo, vars, trackerVars, zoneVars
<1>2. TrackerInd'
  BY <1>1, ZoneState, QuietStep DEF Steady, TrackerTypeOK
<1>3. Written' /\ Stays'
  BY <1>1, ZoneState, NothingWritten
<1>4. now_epoch' = now_epoch
  BY <1>1, ClockStands
<1>5. Due' /\ ZoneInv'
  BY <1>1, <1>2, <1>4, ZoneState, GrainsStand
     DEF ZoneInd, Due, ZoneInv, TypeOK, TrackerInd, TrackerInv, Departed, Known
<1>6. QED
  BY <1>2, <1>3, <1>5 DEF ZoneInd

\* The invariant of the zone camera.
THEOREM ZoneInvariant == Spec => []ZoneInd
<1>1. ZoneInd /\ [Next]_vars => ZoneInd'
  BY ReadFramePreserves, ZoneExitPreserves, ZoneEnterPreserves, ZoneStayPreserves, ZoneEndPreserves DEF Next
<1>2. QED
  BY <1>1, ZoneStarts, PTL DEF Spec

-----------------------------------------------------------------------------
(* The properties *)

\* The type invariant, and that no dwell event is overdue.
THEOREM ZoneIsConsistent == Spec => []ZoneInv
<1>1. ZoneInd => ZoneInv
  BY DEF ZoneInd
<1>2. QED
  BY <1>1, ZoneInvariant, PTL

\* ZONE_ENTER, ZONE_DWELL and ZONE_EXIT tell the stays of each track.
THEOREM StaysAreComplete == Spec => []StaysAreTold
<1>1. ZoneInd => StaysAreTold
  BY DEF ZoneInd, Written, InTurn, Stays, Stay, Last, StaysAreTold
<1>2. QED
  BY <1>1, ZoneInvariant, PTL

\* Dwell times agree with timestamps, whatever the frame rate and the precision.
THEOREM DwellIsElapsedTime == Spec => []DwellMatchesTimestamps
<1>1. ZoneInd => DwellMatchesTimestamps
  BY DEF ZoneInd, Written, Timed, DwellMatchesTimestamps
<1>2. QED
  BY <1>1, ZoneInvariant, PTL

\* ZONE_DWELL comes at every interval.
THEOREM DwellEventsAreRegular == Spec => []DwellIsPeriodic
<1>1. ZoneInd => DwellIsPeriodic
  BY DEF ZoneInd, Written, Periodic, DwellIsPeriodic
<1>2. QED
  BY <1>1, ZoneInvariant, PTL
=============================================================================
