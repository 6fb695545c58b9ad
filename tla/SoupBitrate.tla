---------------------------- MODULE SoupBitrate ----------------------------
(***************************************************************************)
(* The bitrate that a transport of mediasoup_1 asks of its peer: the        *)
(* estimator RemoteBitrateEstimatorAbsSendTime with its parts (RateCalculator,*)
(* InterArrival, OveruseDetector, AimdRateControl) and the transport that   *)
(* announces the result (REMB) and asks for a full frame after a drop.      *)
(*                                                                          *)
(* One unit of time stands for the code's milliseconds and one timestamp    *)
(* for the time in which a packet was sent, modulo TsMod; rates are bits    *)
(* per unit.  The Kalman filter of OveruseEstimator and the threshold that  *)
(* adapts to it are not computed: where its offset lies is a choice.        *)
(***************************************************************************)
EXTENDS Integers, Sequences, FiniteSets, FiniteSetsExt, SequencesExt

CONSTANTS
  Focuses,   \* what a behaviour varies: sets of values for its packets, their number, maximal bitrates
  Window, TsMod, GroupLength, Burst, OffsetThreshold, ReorderedReset, OverTime,
  StreamTimeOut, Probing, MinClusterSize, MaxProbes, ExpectedProbes, MinProbeSize,
  MinBitrate, StartBitrate, Slack, InitTime, FeedbackMin, FeedbackMax, FeedbackScale, Rtt,
  ReductionInterval, MinIncrease, NearMaxIncrease, Spread, CheckInterval, MaxTime

VARIABLE bw
(***************************************************************************)
(* now, rate (RateCalculator), rateInit, ia (InterArrival), num (deltas of  *)
(* the estimator), det (OveruseDetector), rc (AimdRateControl), probes,     *)
(* first, last (update), ssrcs: the estimator                               *)
(* max, eff, effAt  maxBitrate, effectiveMaxBitrate and when it was taken   *)
(* hist, left       what arrived, the packets to come; focus                *)
(* told, frame, deltas   outputs of the step: bitrates announced with their *)
(*   streams, whether a full frame was asked for, and deltas of groups      *)
(***************************************************************************)
TsDiff(a, b) == (a - b) % TsMod
IsNewerTimestamp(a, b) ==
  IF 2 * TsDiff(a, b) = TsMod THEN a > b ELSE a # b /\ 2 * TsDiff(a, b) < TsMod
LatestTimestamp(a, b) == IF IsNewerTimestamp(a, b) THEN a ELSE b

----------------------------------------------------------------------------
\* RateCalculator: a ring of counts, one for each unit of the window.

ResetRate(now) ==
  [oldest |-> now - Window, index |-> 0, total |-> 0, buf |-> [i \in 0..(Window - 1) |-> 0]]

RemoveOldData_OneShort(r, now) ==
  LET new == now - Window
      n == Max({new - r.oldest - 1, 0})
      gone == {(r.index + k) % Window : k \in 0..(n - 1)}
  IN  IF new <= r.oldest THEN r
      ELSE IF new > r.oldest + Window THEN ResetRate(new)
      ELSE [oldest |-> new, index |-> (r.index + n) % Window,
            total |-> r.total - FoldSet(LAMBDA k, s : s + r.buf[k], 0, gone),
            buf |-> [k \in DOMAIN r.buf |-> IF k \in gone THEN 0 ELSE r.buf[k]]]
RemoveOldData(r, now) ==
  LET new == now - Window
      n == new - r.oldest
      gone == {(r.index + k) % Window : k \in 0..(n - 1)}
  IN  IF new <= r.oldest THEN r
      ELSE IF new > r.oldest + Window THEN ResetRate(new)
      ELSE [oldest |-> new, index |-> (r.index + n) % Window,
            total |-> r.total - FoldSet(LAMBDA k, s : s + r.buf[k], 0, gone),
            buf |-> [k \in DOMAIN r.buf |-> IF k \in gone THEN 0 ELSE r.buf[k]]]
UpdateRate(r, size, now) ==
  LET s == RemoveOldData(r, now)
  IN  IF now < r.oldest THEN r
      ELSE [s EXCEPT !.buf[(s.index + Window - 1) % Window] = @ + size, !.total = @ + size]
\* The rate; the caller keeps RemoveOldData(r, now).
GetRate(r, now) ==
  LET s == RemoveOldData(r, now)
      w == now - s.oldest
  IN  (16 * s.total + w) \div (2 * w)

----------------------------------------------------------------------------
\* InterArrival: packets that were sent close together form a group.

NoGroup == [size |-> 0, first |-> 0, ts |-> 0, complete |-> -1, system |-> 0]
NewInterArrival == [cur |-> NoGroup, prev |-> NoGroup, reordered |-> 0]
IsFirstPacket(a) == a.cur.complete = -1
PacketInOrder(a, ts) == IsFirstPacket(a) \/ 2 * TsDiff(ts, a.cur.first) < TsMod
BelongsToBurst(a, arrival, ts) ==
  LET late == arrival - a.cur.complete
      sent == TsDiff(ts, a.cur.ts)
  IN  sent = 0 \/ (late - sent < 0 /\ late <= Burst)
NewTimestampGroup(a, arrival, ts) ==
  ~IsFirstPacket(a) /\ ~BelongsToBurst(a, arrival, ts) /\ TsDiff(ts, a.cur.first) > GroupLength

\* The new state, and the deltas between the last two groups or << >>.
ComputeDeltas(a, ts, arrival, now, size) ==
  LET Take(g) == [g EXCEPT !.size = @ + size, !.complete = arrival, !.system = now]
      fresh == [NoGroup EXCEPT !.first = ts, !.ts = ts]
      tDelta == a.cur.complete - a.prev.complete
      system == a.cur.system - a.prev.system
      moved == [a EXCEPT !.prev = a.cur, !.cur = Take(fresh)]
  IN  IF IsFirstPacket(a) THEN <<[a EXCEPT !.cur = Take(fresh)], << >> >>
      ELSE IF ~PacketInOrder(a, ts) THEN <<a, << >> >>
      ELSE IF ~NewTimestampGroup(a, arrival, ts)
      THEN <<[a EXCEPT !.cur = Take([@ EXCEPT !.ts = LatestTimestamp(@, ts)])], << >> >>
      ELSE IF a.prev.complete < 0 THEN <<moved, << >> >>
      ELSE IF tDelta - system >= OffsetThreshold THEN <<NewInterArrival, << >> >>
      ELSE IF tDelta < 0
      THEN <<IF a.reordered + 1 >= ReorderedReset THEN NewInterArrival
             ELSE [a EXCEPT !.reordered = @ + 1], << >> >>
      ELSE <<[moved EXCEPT !.reordered = 0],
             <<TsDiff(a.cur.ts, a.prev.ts), tDelta, a.cur.size - a.prev.size>> >>

----------------------------------------------------------------------------
\* OveruseDetector.

NewDetector == [time |-> -1, counter |-> 0, state |-> "normal"]
\* offset: "above", "below" or "within" the threshold; rising: not less than before.
Detect(d, offset, rising, tsDelta, num) ==
  LET time == IF d.time = -1 THEN tsDelta \div 2 ELSE d.time + tsDelta
  IN  IF num < 2 THEN d
      ELSE CASE offset = "above" ->
                  IF time > OverTime /\ d.counter + 1 > 1 /\ rising
                  THEN [time |-> 0, counter |-> 0, state |-> "overusing"]
                  ELSE [d EXCEPT !.time = time, !.counter = @ + 1]
             [] offset = "below" -> [time |-> -1, counter |-> 0, state |-> "underusing"]
             [] OTHER -> NewDetector

----------------------------------------------------------------------------
\* AimdRateControl.

NewRateControl ==
  [min |-> MinBitrate, cur |-> StartBitrate, avg |-> -1, state |-> "hold", region |-> "unknown",
   last |-> -1, input |-> [state |-> "normal", rate |-> 0], updated |-> FALSE, first |-> -1,
   init |-> FALSE]
ValidEstimate(c) == c.init
GetFeedbackInterval(c) == Min({Max({FeedbackScale \div c.cur, FeedbackMin}), FeedbackMax})
TimeToReduceFurther(c, now, rate) ==
  now - c.last >= ReductionInterval \/ (ValidEstimate(c) /\ rate < c.cur \div 2)

\* An overuse that was not consumed is kept; only the rate is replaced.
UpdateInput(c, state, rate, now) ==
  LET start == ~c.init /\ c.first >= 0 /\ now - c.first > InitTime /\ rate # 0
      d == [c EXCEPT !.first = IF ~c.init /\ c.first < 0 /\ rate # 0 THEN now ELSE @,
                     !.cur = IF start THEN rate ELSE @, !.init = @ \/ start]
  IN  IF c.updated /\ c.input.state = "overusing" THEN [d EXCEPT !.input.rate = rate]
      ELSE [d EXCEPT !.updated = TRUE, !.input = [state |-> state, rate |-> rate]]

ClampBitrate_Free(c, new, rate) == Max({new, c.min})
ClampBitrate(c, new, rate) ==
  LET most == (3 * rate) \div 2 + Slack
  IN  Max({IF new > c.cur /\ new > most THEN Max({c.cur, most}) ELSE new, c.min})
SetEstimate(c, rate, now) ==
  [c EXCEPT !.updated = TRUE, !.init = TRUE, !.cur = ClampBitrate(c, rate, rate), !.last = now]
ChangeState(c, now) ==
  CASE c.input.state = "normal" ->
         IF c.state = "hold" THEN [c EXCEPT !.last = now, !.state = "increase"] ELSE c
    [] c.input.state = "overusing" -> [c EXCEPT !.state = "decrease"]
    [] OTHER -> [c EXCEPT !.state = "hold"]
MultiplicativeRateIncrease(now, last, rate) ==
  Max({(8 * rate * (IF last > -1 THEN Min({now - last, 10}) ELSE 10)) \div 1000, MinIncrease})
AdditiveRateIncrease(c, now) == (now - c.last) * Max({NearMaxIncrease, c.cur \div (2 * (Rtt + 1))})
UpdateMaxBitRateEstimate(c, rate) ==
  [c EXCEPT !.avg = IF @ = -1 THEN rate ELSE (95 * @ + 5 * rate) \div 100]

Increase(c, rate, now) ==
  LET d == IF c.avg >= 0 /\ rate > c.avg + Spread THEN [c EXCEPT !.region = "unknown", !.avg = -1] ELSE c
      new == d.cur + IF d.region = "near" THEN AdditiveRateIncrease(d, now)
                     ELSE MultiplicativeRateIncrease(now, d.last, d.cur)
  IN  <<[d EXCEPT !.last = now], new>>
\* 85 % of what arrives, never more than before.
Beta(rate) == (85 * rate) \div 100 + 1
Decrease_Jumps(c, rate, now) ==
  LET d == [c EXCEPT !.init = TRUE, !.region = "near", !.state = "hold", !.last = now]
  IN  <<UpdateMaxBitRateEstimate(d, rate), Beta(rate)>>
Decrease(c, rate, now) ==
  LET new == IF Beta(rate) <= c.cur THEN Beta(rate)
             ELSE Min({IF c.region # "unknown" THEN Beta(c.avg) ELSE Beta(rate), c.cur})
      d == [c EXCEPT !.init = TRUE, !.region = "near", !.state = "hold", !.last = now,
                     !.avg = IF rate < @ - Spread THEN -1 ELSE @]
  IN  <<UpdateMaxBitRateEstimate(d, rate), new>>
ChangeBitrate(c, now) ==
  LET rate == c.input.rate
      d == ChangeState([c EXCEPT !.updated = FALSE], now)
      x == CASE d.state = "hold" -> <<d, d.cur>> [] d.state = "increase" -> Increase(d, rate, now)
             [] d.state = "decrease" -> Decrease(d, rate, now)
  IN  IF ~c.updated \/ (~c.init /\ c.input.state # "overusing") THEN c
      ELSE [x[1] EXCEPT !.cur = ClampBitrate(c, x[2], rate)]

----------------------------------------------------------------------------
\* Probes: packets at the start that were sent in bursts of the same pace.

NoCluster == [send |-> 0, recv |-> 0, size |-> 0, count |-> 0, above |-> 0]
IsWithinClusterBounds(delta, c) ==
  LET off == delta * c.count - c.send IN c.count = 0 \/ 2 * Max({off, -off}) < 5 * c.count
ComputeClusters(probes) ==
  LET Closed(cs, c) == IF c.count >= MinClusterSize THEN Append(cs, c) ELSE cs
      step(x, i) ==
        LET send == probes[i].send - probes[i - 1].send
            recv == probes[i].recv - probes[i - 1].recv
            c == [x.cur EXCEPT !.above = IF send >= 1 /\ recv >= 1 THEN @ + 1 ELSE @]
            in == IsWithinClusterBounds(send, c)
            d == IF in THEN c ELSE NoCluster
        IN  [done |-> IF in THEN x.done ELSE Closed(x.done, c),
             cur |-> [d EXCEPT !.send = @ + send, !.recv = @ + recv, !.size = @ + probes[i].size,
                               !.count = @ + 1]]
      all == FoldLeft(step, [done |-> << >>, cur |-> NoCluster], [i \in 1..(Len(probes) - 1) |-> i + 1])
  IN  Closed(all.done, all.cur)
ProbeBitrate(c) ==
  LET bits == (c.size \div c.count) * 8 * c.count IN Min({bits \div c.send, bits \div c.recv})

\* The best of the clusters before the first that failed; << >> when there is none.
\* fails: an assertion on the mean does not hold; built without assertions, such a
\* cluster has a bitrate below zero and is passed over.
FindBestProbe(cs) ==
  LET step(x, c) ==
        IF x.stop \/ c.send = 0 \/ c.recv = 0 THEN x
        ELSE IF /\ c.above > c.count \div 2
                /\ c.recv - c.send <= 2 * c.count /\ c.send - c.recv <= 5 * c.count
        THEN IF c.send < 0 \/ c.recv < 0 THEN [x EXCEPT !.fails = TRUE]
             ELSE IF ProbeBitrate(c) <= x.high THEN x
             ELSE [x EXCEPT !.high = ProbeBitrate(c), !.best = <<c>>]
        ELSE [x EXCEPT !.stop = TRUE]
  IN  FoldLeft(step, [stop |-> FALSE, fails |-> FALSE, high |-> 0, best |-> << >>], cs)
IsBitrateImproving(c, rate) == IF ValidEstimate(c) THEN rate > c.cur ELSE rate > 0

\* The state and whether the bitrate was updated.
ProcessClusters(b) ==
  LET cs == ComputeClusters(b.probes)
      best == FindBestProbe(cs)
      e == [b EXCEPT !.fails = @ \/ best.fails]
  IN  IF cs = << >>
      THEN <<[e EXCEPT !.probes = IF Len(@) >= MaxProbes THEN Tail(@) ELSE @], FALSE>>
      ELSE IF best.best # << >> /\ IsBitrateImproving(b.rc, best.high)
      THEN <<[e EXCEPT !.rc = SetEstimate(@, best.high, b.now)], TRUE>>
      ELSE <<[e EXCEPT !.probes = IF Len(cs) >= ExpectedProbes THEN << >> ELSE @], FALSE>>

----------------------------------------------------------------------------
\* The transport.

SendRtcpPacket(b, rate, ssrcs) == [b EXCEPT !.told = Append(@, [rate |-> rate, ssrcs |-> ssrcs])]
OnTransportFullFrameRequired(b) == [b EXCEPT !.frame = TRUE]
OnReceiveBitrateChanged_Unbounded(b, ssrcs, rate) == SendRtcpPacket(b, rate, ssrcs)
OnReceiveBitrateChanged(b, ssrcs, rate) ==
  LET effective == IF b.max # 0 THEN Min({rate, b.max}) ELSE rate
      e == SendRtcpPacket(b, effective, ssrcs)
      drop == rate # 0 /\ b.eff # 0 /\ 10 * effective < 6 * b.eff
      f == IF drop THEN OnTransportFullFrameRequired(e) ELSE e
  IN  IF b.now - b.effAt <= CheckInterval THEN e
      ELSE [f EXCEPT !.effAt = b.now, !.eff = effective]
SetMaxBitrate(b, rate) == [b EXCEPT !.max = Max({rate, MinBitrate})]

----------------------------------------------------------------------------
\* RemoteBitrateEstimatorAbsSendTime.

TimeoutStreams_Keeps(b) == b
TimeoutStreams_KeepsGroups(b) ==
  LET left == {s \in DOMAIN b.ssrcs : b.now - b.ssrcs[s] <= StreamTimeOut}
  IN  [b EXCEPT !.ssrcs = [s \in left |-> b.ssrcs[s]]]
TimeoutStreams(b) ==
  LET left == {s \in DOMAIN b.ssrcs : b.now - b.ssrcs[s] <= StreamTimeOut}
  IN  [b EXCEPT !.ssrcs = [s \in left |-> b.ssrcs[s]],
                !.ia = IF left = {} THEN NewInterArrival ELSE @,
                !.num = IF left = {} THEN 0 ELSE @]
CountPacket(b, p) ==
  LET none == GetRate(b.rate, b.now) = 0
      r == RemoveOldData(b.rate, b.now)
      s == IF none /\ b.rateInit THEN ResetRate(r.oldest) ELSE r
  IN  [b EXCEPT !.rate = UpdateRate(s, p.size, b.now), !.rateInit = ~none,
                !.hist = Append(@, [at |-> b.now, size |-> p.size, ssrc |-> p.ssrc, sent |-> p.sent])]
AddProbe(b, p) ==
  IF p.size > MinProbeSize /\ (~ValidEstimate(b.rc) \/ b.now - b.first < Probing)
  THEN ProcessClusters([b EXCEPT !.probes = Append(@, [send |-> p.ts, recv |-> b.now, size |-> p.size])])
  ELSE <<b, FALSE>>
Measure(b, p) ==
  LET x == ComputeDeltas(b.ia, p.ts, b.now, b.now, p.size)
      e == [b EXCEPT !.ia = x[1]]
  IN  IF x[2] = << >> THEN e
      ELSE [e EXCEPT !.num = Min({@ + 1, 2}), !.deltas = x[2],
                     !.det = Detect(@, p.offset, p.rising, x[2][1], Min({b.num + 1, 2}))]

\* The control takes what was measured when that is due; an estimate is announced.
UpdateEstimate(b, rate, due) ==
  \E c \in {ChangeBitrate(UpdateInput(b.rc, b.det.state, rate, b.now), b.now)} :
    bw' = IF ~due THEN b
          ELSE IF ~ValidEstimate(c) THEN [b EXCEPT !.rc = c]
          ELSE OnReceiveBitrateChanged([b EXCEPT !.rc = c, !.last = b.now], DOMAIN b.ssrcs, c.cur)

IncomingPacketInfo(b0, p) ==
  \E b1 \in {CountPacket(b0, p)} :
  \E b2 \in {TimeoutStreams([b1 EXCEPT !.first = IF @ = -1 THEN b1.now ELSE @])} :
  \E x \in {AddProbe([b2 EXCEPT !.ssrcs = [s \in DOMAIN @ \cup {p.ssrc} |->
                                          IF s = p.ssrc THEN b2.now ELSE @[s]]], p)} :
  \E b \in {Measure(x[1], p)} :
  \E rate \in {GetRate(b.rate, b.now)} :
    UpdateEstimate(b, rate,
      \/ x[2] \/ b.last = -1 \/ b.now - b.last > GetFeedbackInterval(b.rc)
      \/ b.det.state = "overusing" /\ rate # 0 /\ TimeToReduceFurther(b.rc, b.now, rate))

----------------------------------------------------------------------------
Quiet(b) == [b EXCEPT !.told = << >>, !.frame = FALSE, !.deltas = << >>]

Init ==
  \E f \in Focuses :
    bw = [now |-> 2 * Window, rate |-> ResetRate(2 * Window), rateInit |-> FALSE, ia |-> NewInterArrival,
          num |-> 0, det |-> NewDetector, rc |-> NewRateControl, probes |-> << >>, first |-> -1,
          last |-> -1, ssrcs |-> << >>, max |-> 0, eff |-> 0, effAt |-> 0, hist |-> << >>,
          left |-> f.packets, focus |-> f, told |-> << >>, frame |-> FALSE, deltas |-> << >>,
          fails |-> FALSE]

\* A packet arrives dt after the one before, from which ts tells when it was sent.
Packet ==
  \E dt \in bw.focus.dts, ts \in bw.focus.tss, size \in bw.focus.sizes, ssrc \in bw.focus.ssrcs,
     offset \in bw.focus.offsets, rising \in bw.focus.rising :
    /\ bw.left > 0 /\ bw.now + dt <= MaxTime
    /\ LET sent == bw.now + ts
           b == [Quiet(bw) EXCEPT !.now = @ + dt, !.left = @ - 1]
       IN  IncomingPacketInfo(b, [ts |-> sent % TsMod, sent |-> sent, size |-> size, ssrc |-> ssrc,
                                  offset |-> offset, rising |-> rising])
MaxBitrate == \E rate \in bw.focus.rates : bw.max # rate /\ bw' = SetMaxBitrate(Quiet(bw), rate)

Next == Packet \/ MaxBitrate

Spec == Init /\ [][Next]_bw

----------------------------------------------------------------------------
\* Types.
TypeOK ==
  /\ bw.left \in 0..bw.focus.packets /\ bw.det.state \in {"normal", "overusing", "underusing"}
  /\ bw.rc.state \in {"hold", "increase", "decrease"} /\ bw.rc.region \in {"unknown", "near"}
  /\ bw.rate.index \in 0..(Window - 1)

\* The ring of counts holds what arrived in the last window, and nothing older.  Of
\* the first packet after a pause longer than the window it may lose the count: the
\* reset sets the oldest time back by two windows.
RateExact ==
  LET Sum(ks) == FoldSet(LAMBDA k, n : n + bw.hist[k].size, 0, ks)
      recent == {k \in DOMAIN bw.hist : bw.hist[k].at > bw.now - Window}
      resumed == {k \in recent : k > 1 => bw.hist[k].at - bw.hist[k - 1].at > Window}
  IN  bw.rate.total \in {Sum(recent), Sum(recent \ resumed)}

\* A bitrate is announced for exactly the streams that sent something of late, is
\* not below the least, and not above the limit that was set for the transport.
AnnouncedSane ==
  \A i \in DOMAIN bw.told :
    /\ bw.told[i].rate >= MinBitrate /\ (bw.max # 0 => bw.told[i].rate <= bw.max)
    /\ bw.told[i].ssrcs = {h.ssrc : h \in {g \in ToSet(bw.hist) : bw.now - g.at <= StreamTimeOut}}

\* Once there is an estimate every input is consumed, a decrease is over in the
\* step that makes it, and near the maximum a mean of it is known.
ControlSettled ==
  /\ bw.rc.init => ~bw.rc.updated
  /\ bw.rc.state # "decrease"
  /\ bw.rc.region = "near" => bw.rc.avg >= 0

\* Delays are never compared over a silence in which all streams timed out.
NoSilence ==
  \A g \in {bw.ia.prev, bw.ia.cur} : g.complete >= 0 =>
    \A k \in 2..Len(bw.hist) :
      bw.hist[k - 1].at >= g.complete => bw.hist[k].at - bw.hist[k - 1].at <= StreamTimeOut

\* A cluster whose mean GetSendBitrateBps must not see passes the test only if a probe
\* overtook one that was sent before it: with probes in order, even while the time of
\* sending wraps, its assertion holds.
ProbesHavePace ==
  LET probes == {k \in DOMAIN bw.hist : bw.hist[k].size > MinProbeSize}
  IN  bw.fails => \E i, j \in probes : i < j /\ bw.hist[j].sent < bw.hist[i].sent

\* A step raises the estimate at most to one and a half of what arrives, or to
\* what a probe has shown; while the link is overused it never raises it unless a
\* probe has shown more, and an announcement is then at most what is still arriving.
EstimateStep ==
  LET c == bw.rc
      d == bw'.rc
      rate == GetRate(bw'.rate, bw'.now)
      probe == ProcessClusters([bw' EXCEPT !.rc = c])[2]
  IN  /\ d.cur > c.cur /\ ~probe => d.cur <= Max({MinBitrate, (3 * rate) \div 2 + Slack})
      /\ bw'.det.state = "overusing" /\ ~probe =>
           /\ d.cur <= Max({MinBitrate, c.cur})
           /\ bw'.told # << >> => d.cur <= Max({MinBitrate, Beta(rate)})
EstimateCareful == [][EstimateStep]_bw
=============================================================================
