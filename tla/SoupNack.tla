------------------------------ MODULE SoupNack ------------------------------
(***************************************************************************)
(* A receiving stream of mediasoup_1: RtpStreamRecv with its NackGenerator, *)
(* which asks for packets that are missing, again and again on a timer, and *)
(* the NACK packets RtpReceiver builds from them.                           *)
(***************************************************************************)
EXTENDS RtpSeq, Sequences, SequencesExt, FiniteSets, FiniteSetsExt, Functions

CONSTANTS
  MaxPacketAge,     \* 10000
  MaxNackPackets,   \* 500
  MaxNackRetries,   \* 8
  BitmaskBits,      \* 16
  Firsts,           \* numbers a sender may begin with
  Ahead, Back,      \* how far a packet may be ahead of, or behind, the highest
  MaxNumber,        \* bound on the numbers sent
  MaxReceived       \* bound on the packets counted

VARIABLE rs
(***************************************************************************)
(* x         the RtpStream                                                  *)
(* gen       the NackGenerator: started, lastSeq32, nackList (seq32 -> how  *)
(*           often it was asked for), timer                                 *)
(* high, first   what was really sent as maxSeq and baseSeq, and base, the  *)
(*           extended number of the first (history)                         *)
(* ref       what the generator should know: started, last, open, the       *)
(*           packets that were skipped and have not come (history)          *)
(* gone      the packets the generator gave up in this step, and why        *)
(* astray    a packet came with an extended number that is not its own      *)
(* batch, items  the last numbers asked for, and as they were encoded       *)
(* lost, expected    of the last receiver report                            *)
(* faults    assertions that failed                                         *)
(***************************************************************************)
NewGenerator == [started |-> FALSE, lastSeq32 |-> 0, nackList |-> << >>, timer |-> FALSE]

\* What a generator should know: the packets skipped below the last one that
\* have not come since.
NewRef == [started |-> FALSE, last |-> 0, open |-> {}]
RefReceive(r, k) ==
  IF ~r.started THEN [started |-> TRUE, last |-> k, open |-> {}]
  ELSE [r EXCEPT !.last = Max({@, k}), !.open = (@ \cup (r.last + 1)..(k - 1)) \ {k}]

Init ==
  rs = [x |-> NewStream, gen |-> NewGenerator, high |-> 0, first |-> 0, batch |-> << >>,
        items |-> << >>, lost |-> 0, expected |-> 0, faults |-> {}, base |-> 0, ref |-> NewRef,
        gone |-> {}, astray |-> FALSE]

----------------------------------------------------------------------------
(***************************************************************************)
(* OnNackRequired of RtpReceiver: each item has a number and a bit for each *)
(* of the following ones.                                                   *)
(***************************************************************************)
NackItems(batch) ==
  LET shift(i, j) == (batch[j] + 2 * RtpSeqMod - batch[i] - 1) % RtpSeqMod
      last(i) == Max({j \in i..Len(batch) : \A k \in (i + 1)..j : shift(i, k) < BitmaskBits})
      from[i \in 1..(Len(batch) + 1)] ==
        IF i > Len(batch) THEN << >>
        ELSE <<[seq |-> batch[i], bits |-> {shift(i, k) : k \in (i + 1)..last(i)}]>>
               \o from[last(i) + 1]
  IN  from[1]

\* The numbers a receiver of the items reads.
Requested(items) ==
  UNION {{items[i].seq} \cup {(items[i].seq + 1 + b) % RtpSeqMod : b \in items[i].bits} :
           i \in 1..Len(items)}

\* MayRunTimer.
MayRunTimer(g) == [g EXCEPT !.timer = g.nackList # << >>]

(***************************************************************************)
(* GetNackBatch for the entries that are due, in order; an entry asked for  *)
(* too often is dropped instead.                                            *)
(***************************************************************************)
GetNackBatch(s, due) ==
  LET old == s.gen.nackList
      over == {k \in due : old[k] + 1 >= MaxNackRetries}
      batch == [i \in 1..Cardinality(due \ over) |->
                  SetToSortSeq(due \ over, LAMBDA a, b : a < b)[i] % RtpSeqMod]
      t == [s EXCEPT !.gen.nackList = [k \in DOMAIN old \ over |->
                                         IF k \in due THEN old[k] + 1 ELSE old[k]],
                     !.gone = @ \cup {[seq |-> k, why |-> "retries", asked |-> old[k] + 1] :
                                        k \in over}]
  IN  IF batch = << >> THEN t ELSE [t EXCEPT !.batch = batch, !.items = NackItems(batch)]

(***************************************************************************)
(* AddPacketsToNackList: entries below end - MaxPacketAge go, computed with *)
(* 32 bits and no sign; a list that would get too long is emptied and a     *)
(* full frame asked for instead.                                            *)
(***************************************************************************)
GaveUp(keys, why) == {[seq |-> k, why |-> why, asked |-> 0] : k \in keys}

AddPacketsToNackList_Nothing(s, start, end) == s
AddPacketsToNackList(s, start, end) ==
  LET floor == (end + Mod32 - MaxPacketAge) % Mod32
      list == s.gen.nackList
      kept == Restrict(list, {k \in DOMAIN list : k >= floor})
      new == start..(end - 1)
      o == [s EXCEPT !.gone = @ \cup GaveUp(DOMAIN list \ DOMAIN kept, "old")]
      t == IF new \cap DOMAIN kept = {} THEN o
           ELSE [o EXCEPT !.faults = @ \cup {"packet already in the NACK list"}]
  IN  IF Cardinality(DOMAIN kept) + (end - start) > MaxNackPackets
      THEN [o EXCEPT !.gen.nackList = << >>, !.gone = @ \cup GaveUp(DOMAIN kept \cup new, "full")]
      ELSE [t EXCEPT !.gen.nackList = [k \in DOMAIN kept \cup new |->
                                         IF k \in new THEN 0 ELSE kept[k]]]

\* NackGenerator::ReceivePacket.
NackReceivePacket(s, seq32) ==
  LET g == s.gen
      fresh(t) == {k \in DOMAIN t.gen.nackList : t.gen.nackList[k] = 0}
  IN  CASE ~g.started -> [s EXCEPT !.gen.started = TRUE, !.gen.lastSeq32 = seq32]
        [] g.started /\ seq32 <= g.lastSeq32 ->
             [s EXCEPT !.gen.nackList = Restrict(@, DOMAIN @ \ {seq32})]
        [] g.started /\ seq32 = g.lastSeq32 + 1 -> [s EXCEPT !.gen.lastSeq32 = seq32]
        [] g.started /\ seq32 > g.lastSeq32 + 1 ->
             LET a == [AddPacketsToNackList(s, g.lastSeq32 + 1, seq32) EXCEPT
                         !.gen.lastSeq32 = seq32]
                 b == GetNackBatch(a, fresh(a))
             IN  [b EXCEPT !.gen = MayRunTimer(@)]

----------------------------------------------------------------------------
\* Actions.

\* The outputs of the step before are gone.
Quiet == [rs EXCEPT !.batch = << >>, !.items = << >>, !.lost = 0, !.expected = 0, !.gone = {}]

Settled(s) == [s EXCEPT !.ref.open = @ \ {g.seq : g \in s.gone}]
Restarted(s) == [s EXCEPT !.gen = NewGenerator, !.ref = NewRef, !.astray = FALSE]

\* A packet reaches the generator with the extended number of what was really sent, or not.
Generate(s, n, seq32) ==
  LET true == n + s.base - s.first
  IN  Settled([NackReceivePacket(s, seq32) EXCEPT
                 !.ref = RefReceive(@, true), !.astray = @ \/ seq32 # true])

\* RtpStreamRecv::ReceivePacket, with NACK negotiated.
Deliver(n) ==
  /\ rs.x.received < MaxReceived
  /\ IF rs.x.started THEN n + Back >= rs.high /\ n <= rs.high + Ahead ELSE n \in Firsts
  /\ LET seq == n % RtpSeqMod
         u == ReceivePacket(rs.x, seq)
         s == [Quiet EXCEPT !.x = u.x, !.high = IF u.ok /\ n > rs.high THEN n ELSE @]
         t == IF u.init THEN [Restarted(s) EXCEPT !.first = n, !.high = n,
                                                  !.base = Extended(u.x, seq)] ELSE s
     IN  rs' = IF u.ok THEN Generate(t, n, Extended(u.x, seq)) ELSE t

\* ReceiveRtxPacket: an answer to a NACK.
ReceiveRtxPacket(n) ==
  /\ rs.x.started /\ n + Back >= rs.high /\ n <= rs.high
  /\ rs' = Generate(Quiet, n, Extended(rs.x, n % RtpSeqMod))

\* NackGenerator::OnTimer; `due` are the entries asked for more than an RTT ago.
NackTimer(due) ==
  /\ rs.gen.timer /\ due \subseteq DOMAIN rs.gen.nackList
  /\ rs' = LET b == GetNackBatch([Quiet EXCEPT !.gen.timer = FALSE], due)
           IN  Settled([b EXCEPT !.gen = MayRunTimer(@)])

\* RequestFullFrame with PLI: the list starts again.
RequestFullFrame == rs.x.started /\ rs' = Restarted(Quiet)

\* GetRtcpReceiverReport.
GetRtcpReceiverReport ==
  /\ rs.x.started
  /\ LET x == rs.x
         expected == (x.cycles + x.maxSeq + Mod32 - x.baseSeq + 1) % Mod32
         interval == (expected + Mod32 - x.expectedPrior) % Mod32
         arrived == x.received - x.receivedPrior
     IN  rs' = [Quiet EXCEPT !.x.expectedPrior = expected, !.x.receivedPrior = x.received,
                             !.expected = interval,
                             !.lost = IF interval < arrived THEN 0 ELSE interval - arrived]

Next ==
  \/ \E n \in 0..MaxNumber : Deliver(n) \/ ReceiveRtxPacket(n)
  \/ \E due \in SUBSET DOMAIN rs.gen.nackList : NackTimer(due)
  \/ RequestFullFrame
  \/ GetRtcpReceiverReport

Spec == Init /\ [][Next]_rs

----------------------------------------------------------------------------
TypeOK ==
  /\ rs.x.maxSeq \in 0..(RtpSeqMod - 1) /\ rs.x.received \in 0..MaxReceived
  /\ rs.x.cycles % RtpSeqMod = 0 /\ rs.gen.lastSeq32 \in 0..(Mod32 - 1)
  /\ rs.faults \subseteq {"packet already in the NACK list"}

(***************************************************************************)
(* What receiver reports say was sent is what was sent, through losses,     *)
(* reordering and the wrap of the numbers (but for a stream that begins     *)
(* with number 0, see UpdateSeq and the README).                            *)
(*                                                                          *)
(* While the packets come with their own extended numbers, the list has     *)
(* exactly the packets that were skipped since the generator started, have  *)
(* not come since, and were not given up: after MaxNackRetries requests,    *)
(* too old, because there were too many at once (a full frame is asked for  *)
(* instead), or, when the subtraction of MaxPacketAge wraps, at any gap.    *)
(* All of them have been asked for and have a timer; the assertion on the   *)
(* list holds; a NACK asks for exactly the numbers of the batch; and the    *)
(* fraction lost fits its byte.                                             *)
(***************************************************************************)
Reasons ==
  \A g \in rs.gone :
    CASE g.why = "retries" -> g.asked = MaxNackRetries
      [] g.why = "old" -> g.seq + MaxPacketAge < rs.gen.lastSeq32 \/ rs.gen.lastSeq32 < MaxPacketAge
      [] g.why = "full" -> Cardinality({h \in rs.gone : h.why = "full"}) > MaxNackPackets

NacksExact ==
  /\ rs.x.started /\ rs.first % RtpSeqMod # 0 =>
       rs.x.cycles + rs.x.maxSeq - rs.x.baseSeq = rs.high - rs.first
  /\ ~rs.astray => DOMAIN rs.gen.nackList = rs.ref.open
  /\ Reasons
  /\ \A k \in DOMAIN rs.gen.nackList : rs.gen.nackList[k] \in 1..(MaxNackRetries - 1)
  /\ Cardinality(DOMAIN rs.gen.nackList) <= MaxNackPackets
  /\ rs.gen.nackList # << >> => rs.gen.timer
  /\ rs.faults = {}
  /\ Requested(rs.items) = Range(rs.batch)
  /\ rs.lost > 0 => rs.lost < rs.expected
=============================================================================
