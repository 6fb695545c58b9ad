------------------------------ MODULE SoupRtcp ------------------------------
(***************************************************************************)
(* RTCP in mediasoup_1 (RTC/RTCP): what a peer reports at its timer, the    *)
(* feedback that is forwarded from a receiver to the sender of a stream,    *)
(* and the classes that write packets to bytes and read them back.          *)
(*                                                                          *)
(* A datagram is a sequence of bytes; offsets count from 0 and end is its   *)
(* length.  The parsers are given all that is left of the datagram and not  *)
(* the length of their packet.  Where the code would read behind the end    *)
(* they return Wild.  Exponent, mantissa and overhead of a bitrate share    *)
(* the bits of a word; here each has cells of its own, and MantissaMax and  *)
(* BitrateMod stand for 2^18 - 1 (2^17 - 1 for TMMB) and 2^64.              *)
(***************************************************************************)
EXTENDS SoupBytes, Integers, Sequences, FiniteSets, FiniteSetsExt, SequencesExt

CONSTANTS
  Senders,      \* sequence of RTP senders: [ssrc, cname (bytes), count, transport]
  Receivers,    \* sequence of RTP receivers: [losts (of its streams), transport]
  Transports,   \* sequence of the peer's transports
  Interval,     \* maxRtcpInterval / 1.15, in ticks of the timer
  Areas,        \* what follows the header of a feedback packet: sequences of bytes
  Tails,        \* bytes of a second packet in the same datagram
  MantissaMax, BitrateMod, Rates,   \* bitrates to announce
  MaxTime

VARIABLE rt
(***************************************************************************)
(* now    time; snt, rct: lastRtcpSentTime of senders and receivers         *)
(* due    reports that are due at this step; sent: datagrams of this step   *)
(* fed    feedback received in this step, out: what was forwarded           *)
(* rate   bitrate that was announced in this step, or -1                    *)
(***************************************************************************)
Quiet(b) == [b EXCEPT !.due = << >>, !.sent = << >>, !.fed = << >>, !.out = << >>,
                   !.rate = -1]

Init ==
  rt = [now |-> Interval, snt |-> [i \in DOMAIN Senders |-> 0],
        rct |-> [i \in DOMAIN Receivers |-> 0],
        due |-> << >>, sent |-> << >>, fed |-> << >>, out |-> << >>, rate |-> -1]

----------------------------------------------------------------------------
\* Reading behind the end.

Wild == [wild |-> TRUE]

SR == 200
RR == 201
SDES == 202
BYE == 203
RTPFB == 205
PSFB == 206

Count(d, o) == d[o + 1] % 32
PacketLen(d, o) == (Get2(d, o + 2) + 1) * 4

\* count is a field of five bits.
WriteHeader(count, type, size) == <<128 + (count % 32), type>> \o Put2((size \div 4) - 1)
IsRtcp(d, o) ==
  Len(d) - o >= 4 /\ d[o + 1] > 127 /\ d[o + 1] < 192 /\ d[o + 2] >= 192 /\ d[o + 2] <= 223

----------------------------------------------------------------------------
\* Sender and receiver reports.

SenderReport(ssrc, count) == [ssrc |-> ssrc, count |-> count]
SerializeSr(r) == Put4(r.ssrc) \o Zeros(12) \o Put4(r.count) \o Zeros(4)
ParseSr(d, o) ==
  IF 24 > Len(d) - o THEN << >> ELSE <<SenderReport(Get4(d, o), Get4(d, o + 16))>>

\* 24 bits: a sign and a magnitude, of which -2^23 is the one without a magnitude.
SetTotalLost_Wraps(lost) == (IF lost >= 0 THEN lost ELSE 8388608 - lost) % 16777216
SetTotalLost(lost) ==
  IF lost >= 0 THEN Min({lost, 8388607})
  ELSE LET clamp == Min({-lost, 8388608}) IN IF clamp = 8388608 THEN clamp ELSE clamp + 8388608
GetTotalLost(value) ==
  IF value < 8388608 THEN value
  ELSE IF value = 8388608 THEN -value ELSE -(value - 8388608)

ReceiverReport(ssrc, lost) == [ssrc |-> ssrc, lost |-> lost]
SerializeRr(r) == Put4(r.ssrc) \o <<0>> \o Put3(SetTotalLost(r.lost)) \o Zeros(16)
ParseRr(d, o) ==
  IF 24 > Len(d) - o THEN << >> ELSE <<ReceiverReport(Get4(d, o), GetTotalLost(Get3(d, o + 5)))>>

SerializeAll(Serialize(_), s) == FlattenSeq([i \in DOMAIN s |-> Serialize(s[i])])
SizeOfAll(Size(_), s) == FoldLeft(LAMBDA n, x : n + Size(x), 0, s)

SrPacket(reports) == [type |-> SR, reports |-> reports]
SrSize(p) == 4 + 24 * Len(p.reports)
SerializeSrPacket(p) ==
  WriteHeader(Len(p.reports), SR, SrSize(p)) \o SerializeAll(SerializeSr, p.reports)
ParseSrPacket(d, o) == SrPacket(ParseSr(d, o + 4))

RrPacket(ssrc, reports) == [type |-> RR, ssrc |-> ssrc, reports |-> reports]
RrSize(p) == 8 + 24 * Len(p.reports)
SerializeRrPacket(p) ==
  WriteHeader(Len(p.reports), RR, RrSize(p)) \o Put4(p.ssrc) \o SerializeAll(SerializeRr, p.reports)

\* at: the first report, which in a sender report follows the report of the sender.
ParseRrPacket(d, o, at) ==
  LET f[n \in 0..31, x \in 0..Len(d)] ==
        IF n = 0 \/ x = Len(d) \/ ParseRr(d, x) = << >> THEN << >>
        ELSE ParseRr(d, x) \o f[n - 1, x + 24]
  IN  IF at > Len(d) THEN Wild ELSE RrPacket(Get4(d, o + 4), f[Count(d, o), at])

----------------------------------------------------------------------------
\* Source descriptions.

Item(type, value) == [type |-> type, value |-> value]
SerializeItem(i) == <<i.type, Len(i.value)>> \o i.value
ItemSize(i) == 2 + Len(i.value)
ParseItem(d, o) ==
  IF Len(d) - o < 2 THEN << >>
  ELSE IF 2 + d[o + 2] > Len(d) - o THEN << >> ELSE <<Item(d[o + 1], Bytes(d, o + 2, d[o + 2]))>>

Chunk(ssrc, items) == [ssrc |-> ssrc, items |-> items]
ChunkSize(c) == LET n == 4 + SizeOfAll(ItemSize, c.items) IN n + Pad(n)
SerializeChunk(c) ==
  LET b == Put4(c.ssrc) \o SerializeAll(SerializeItem, c.items) IN b \o Zeros(Pad(Len(b)))
ParseChunk(d, o) ==
  LET f[x \in 0..Len(d)] ==
        LET i == IF x = Len(d) THEN << >> ELSE ParseItem(d, x)
        IN  IF i = << >> THEN << >> ELSE IF i[1].type = 0 THEN << >> ELSE i \o f[x + ItemSize(i[1])]
  IN  IF 4 > Len(d) - o THEN << >> ELSE <<Chunk(Get4(d, o), f[o + 4])>>

SdesPacket(chunks) == [type |-> SDES, chunks |-> chunks]
SdesSize_Unpadded(p) ==
  4 + SizeOfAll(LAMBDA c : 4 + SizeOfAll(ItemSize, c.items), p.chunks)
SdesSize(p) == 4 + SizeOfAll(ChunkSize, p.chunks)
SerializeSdes(p) ==
  WriteHeader(Len(p.chunks), SDES, SdesSize(p)) \o SerializeAll(SerializeChunk, p.chunks)

\* The size of a chunk is rounded up: the next one may begin behind the end.
ParseSdes(d, o) ==
  LET f[n \in 0..31, x \in 0..(Len(d) + 3)] ==
        IF n = 0 \/ x = Len(d) THEN << >>
        ELSE IF x > Len(d) THEN <<Wild>>
        ELSE LET c == ParseChunk(d, x) IN IF c = << >> THEN << >> ELSE c \o f[n - 1, x + ChunkSize(c[1])]
  IN  SdesPacket(f[Count(d, o), o + 4])

----------------------------------------------------------------------------
\* Goodbyes.

ByePacket(ssrcs, reason) == [type |-> BYE, ssrcs |-> ssrcs, reason |-> reason]
ByeSize(p) ==
  LET n == 4 + 4 * Len(p.ssrcs) + (IF p.reason = << >> THEN 0 ELSE 1 + Len(p.reason)) IN n + Pad(n)
SerializeBye(p) ==
  LET b == WriteHeader(Len(p.ssrcs), BYE, ByeSize(p)) \o SerializeAll(Put4, p.ssrcs)
             \o (IF p.reason = << >> THEN << >> ELSE <<Len(p.reason)>> \o p.reason)
  IN  b \o Zeros(Pad(Len(b)))
ParseBye(d, o) ==
  LET left == Len(d) - (o + 4)
      n == IF left % 4 = 0 THEN Min({Count(d, o), left \div 4}) ELSE Count(d, o)
      at == o + 4 + 4 * n
      long == d[at + 1]
      some == Len(d) > at /\ long <= Len(d) - (at + 1)
  IN  IF 4 * n > left THEN << >>
      ELSE <<ByePacket([i \in 1..n |-> Get4(d, o + 4 * i)],
                       IF some THEN Bytes(d, at + 1, long) ELSE << >>)>>

----------------------------------------------------------------------------
\* Items of feedback packets.

\* Bitrates: the mantissa is halved until it fits.
EncodeRate_Early(rate) ==
  LET e == CHOOSE x \in 0..63 : /\ rate \div (2 ^ x) < MantissaMax
                                /\ \A y \in 0..(x - 1) : rate \div (2 ^ y) >= MantissaMax
  IN  <<e, rate \div (2 ^ e)>>
EncodeRate(rate) ==
  LET e == CHOOSE x \in 0..63 : /\ rate \div (2 ^ x) <= MantissaMax
                                /\ \A y \in 0..(x - 1) : rate \div (2 ^ y) > MantissaMax
  IN  <<e, rate \div (2 ^ e)>>
DecodeRate(e, mantissa) ==
  LET f[n \in 0..e] == IF n = 0 THEN mantissa ELSE (2 * f[n - 1]) % BitrateMod IN f[e]
\* The shift back gives the mantissa: no bit was lost.
RateFits(e, mantissa) == \A n \in 0..(e - 1) : 2 * DecodeRate(n, mantissa) < BitrateMod

\* 13 bits, 13 bits and 6 bits of a word.
SliItem(d, o) ==
  <<[first |-> d[o + 1] * 32 + d[o + 2] \div 8, pictureId |-> d[o + 4] % 64,
     number |-> (d[o + 2] % 8) * 1024 + d[o + 3] * 4 + d[o + 4] \div 64]>>
SerializeSli(i) ==
  <<i.first \div 32, (i.first % 32) * 8 + i.number \div 1024, (i.number \div 4) % 256,
    (i.number % 4) * 64 + i.pictureId>>

TmmbItem(d, o) ==
  LET e == d[o + 5] % 64 m == d[o + 6] % (MantissaMax + 1)
  IN  IF ~RateFits(e, m) THEN << >>
      ELSE <<[ssrc |-> Bytes(d, o, 4), bitrate |-> DecodeRate(e, m), overhead |-> d[o + 7]]>>
SerializeTmmb(i) == i.ssrc \o EncodeRate(i.bitrate) \o <<i.overhead, 0>>

RpsiItem(d, o) == IF d[o + 1] % 8 # 0 \/ d[o + 1] \div 8 > 6 THEN << >> ELSE <<Bytes(d, o, 8)>>

\* The length of a VBCM item is used as it lies in memory, its bytes swapped.
VbcmLength(i) == 8 + i[7] + 256 * i[8]
VbcmItem(d, o) == <<Bytes(d, o, Min({VbcmLength(Bytes(d, o, 8)), Len(d) - o}))>>
VbcmSize(i) == VbcmLength(i) + Pad(VbcmLength(i))
SerializeVbcm(i) == i \o Zeros(Pad(Len(i)))

FirItem(d, o) == <<Bytes(d, o, 8)>>
TstItem(d, o) == <<Bytes(d, o, 8)>>
LeiItem(d, o) == <<Bytes(d, o, 4)>>
NackItem(d, o) == <<[packetId |-> Get2(d, o), lostPacketBitmask |-> Get2(d, o + 2)]>>
SerializeNack(i) == Put2(i.packetId) \o Put2(i.lostPacketBitmask)
TlleiItem(d, o) == <<Bytes(d, o, 4)>>
EcnItem(d, o) == <<Bytes(d, o, 20)>>

\* type and message type; the header of an item.
Kind(type, fmt) ==
  IF type = PSFB
  THEN CASE fmt = 1 -> "pli" [] fmt = 2 -> "sli" [] fmt = 3 -> "rpsi" [] fmt = 4 -> "fir"
         [] fmt \in {5, 6} -> "tst" [] fmt = 7 -> "vbcm" [] fmt = 8 -> "lei" [] fmt = 15 -> "afb"
         [] OTHER -> "none"
  ELSE CASE fmt = 1 -> "nack" [] fmt \in {3, 4} -> "tmmb" [] fmt = 5 -> "srreq" [] fmt = 7 -> "tllei"
         [] fmt = 8 -> "ecn" [] OTHER -> "none"
ItemHeader(kind) ==
  CASE kind \in {"sli", "lei", "nack", "tllei"} -> 4 [] kind = "ecn" -> 20 [] OTHER -> 8
ReadItem(kind, d, o) ==
  IF ItemHeader(kind) > Len(d) - o THEN << >>
  ELSE CASE kind = "sli" -> SliItem(d, o) [] kind = "rpsi" -> RpsiItem(d, o)
         [] kind = "fir" -> FirItem(d, o) [] kind = "tst" -> TstItem(d, o)
         [] kind = "vbcm" -> VbcmItem(d, o) [] kind = "lei" -> LeiItem(d, o)
         [] kind = "nack" -> NackItem(d, o) [] kind = "tmmb" -> TmmbItem(d, o)
         [] kind = "tllei" -> TlleiItem(d, o) [] kind = "ecn" -> EcnItem(d, o)
SizeOfItem(kind, i) == IF kind = "vbcm" THEN VbcmSize(i) ELSE ItemHeader(kind)
WriteItem(kind, i) ==
  CASE kind = "sli" -> SerializeSli(i) [] kind = "tmmb" -> SerializeTmmb(i)
    [] kind = "nack" -> SerializeNack(i) [] kind = "vbcm" -> SerializeVbcm(i) [] OTHER -> i

----------------------------------------------------------------------------
\* Feedback packets: type, message type, the two ssrcs as they are, and items.

Feedback(type, fmt, ssrcs, items) == [type |-> type, fmt |-> fmt, ssrcs |-> ssrcs, items |-> items]
PacketKind(p) == Kind(p.type, p.fmt)
FeedbackHead(p, size) == WriteHeader(p.fmt, p.type, size) \o p.ssrcs

ItemsSize(p) == 12 + SizeOfAll(LAMBDA i : SizeOfItem(PacketKind(p), i), p.items)
SerializeItems(p) ==
  FeedbackHead(p, ItemsSize(p)) \o SerializeAll(LAMBDA i : WriteItem(PacketKind(p), i), p.items)

\* Items are read up to the end of the datagram.
ParseItems(d, o) ==
  LET type == d[o + 2]
      kind == Kind(type, Count(d, o))
      f[x \in Nat] ==
        IF x = Len(d) THEN << >>
        ELSE IF x > Len(d) THEN <<Wild>>
        ELSE LET i == ReadItem(kind, d, x)
             IN  IF i = << >> THEN << >> ELSE i \o f[x + SizeOfItem(kind, i[1])]
  IN  <<Feedback(type, Count(d, o), Bytes(d, o + 4, 8), f[o + 12])>>

\* An application's packet keeps its bytes; REMB is one with an identifier.
Remb == <<82, 69, 77, 66>>
RembPacket(ssrcs, rate) ==
  [type |-> PSFB, fmt |-> 15, ssrcs |-> Zeros(8), bitrate |-> rate, of |-> ssrcs]
RembSize(p) == 12 + 8 + 4 * Len(p.of)
SerializeRemb(p) ==
  FeedbackHead(p, RembSize(p)) \o Remb \o <<Len(p.of)>> \o EncodeRate(p.bitrate) \o <<0>>
    \o SerializeAll(Put4, p.of)
ParseRemb(d, o) ==
  LET n == d[o + 17]
      e == d[o + 18] % 64
      m == d[o + 19] % (MantissaMax + 1)
  IN  IF ~RateFits(e, m) \/ PacketLen(d, o) # 20 + 4 * n THEN << >>
      ELSE <<[type |-> PSFB, fmt |-> 15, ssrcs |-> Bytes(d, o + 4, 8), bitrate |-> DecodeRate(e, m),
              of |-> [i \in 1..n |-> Get4(d, o + 16 + 4 * i)]]>>
ParseAfb(d, o) ==
  IF Len(d) - o < 16 THEN <<Wild>>
  ELSE IF Bytes(d, o + 12, 4) = Remb THEN ParseRemb(d, o)
  ELSE <<Feedback(PSFB, 15, Bytes(d, o + 4, 8), <<Bytes(d, o + 12, PacketLen(d, o) - 12)>>)>>
IsRemb(p) == PacketKind(p) = "afb" /\ "bitrate" \in DOMAIN p
FeedbackSize(p) ==
  IF IsRemb(p) THEN RembSize(p)
  ELSE IF PacketKind(p) = "afb" THEN 12 + Len(p.items[1]) ELSE ItemsSize(p)
SerializeFeedback(p) ==
  IF IsRemb(p) THEN SerializeRemb(p)
  ELSE IF PacketKind(p) = "afb" THEN FeedbackHead(p, FeedbackSize(p)) \o p.items[1]
  ELSE SerializeItems(p)
ParsePlain(d, o) == <<Feedback(d[o + 2], Count(d, o), Bytes(d, o + 4, 8), << >>)>>
ParseFeedback(d, o) ==
  LET kind == Kind(d[o + 2], Count(d, o))
  IN  IF 12 > Len(d) - o \/ kind = "none" THEN << >>
      ELSE IF kind \in {"pli", "srreq"} THEN ParsePlain(d, o)
      ELSE IF kind = "afb" THEN ParseAfb(d, o) ELSE ParseItems(d, o)

----------------------------------------------------------------------------
\* All packets.

GetSize(p) ==
  CASE p.type = SR -> SrSize(p) [] p.type = RR -> RrSize(p) [] p.type = SDES -> SdesSize(p)
    [] p.type = BYE -> ByeSize(p) [] OTHER -> FeedbackSize(p)
Serialize(p) ==
  CASE p.type = SR -> SerializeSrPacket(p) [] p.type = RR -> SerializeRrPacket(p)
    [] p.type = SDES -> SerializeSdes(p) [] p.type = BYE -> SerializeBye(p)
    [] OTHER -> SerializeFeedback(p)

\* A sender report with receiver reports gives two packets.
ParseOne(d, o) ==
  LET type == d[o + 2]
      sr == ParseSrPacket(d, o)
  IN  CASE type = SR -> IF Count(d, o) > 0 THEN <<sr, ParseRrPacket(d, o, o + SrSize(sr))>> ELSE <<sr>>
        [] type = RR -> <<ParseRrPacket(d, o, o + 8)>>
        [] type = SDES -> <<ParseSdes(d, o)>>
        [] type = BYE -> ParseBye(d, o)
        [] type \in {RTPFB, PSFB} -> ParseFeedback(d, o)
        [] OTHER -> << >>
Parse(d) ==
  LET f[o \in 0..Len(d)] ==
        IF o = Len(d) \/ ~IsRtcp(d, o) THEN << >>
        ELSE IF Len(d) - o < PacketLen(d, o) THEN << >>
        ELSE IF ParseOne(d, o) = << >> THEN << >> ELSE ParseOne(d, o) \o f[o + PacketLen(d, o)]
  IN  f[0]

\* A compound packet: at most one sender report, receiver reports, chunks.
EmptyCompound == [sr |-> << >>, rrs |-> << >>, chunks |-> << >>]
AddSenderReport(c, r) == [c EXCEPT !.sr = Append(@, r)]
AddReceiverReport(c, r) == [c EXCEPT !.rrs = Append(@, r)]
AddSdesChunk(c, chunk) == [c EXCEPT !.chunks = Append(@, chunk)]
SerializeCompound_NoSdes(c) ==
  IF c.sr = << >> THEN SerializeRrPacket(RrPacket(0, c.rrs))
  ELSE WriteHeader(Len(c.rrs), SR, 28 + 24 * Len(c.rrs)) \o SerializeSr(c.sr[1])
         \o SerializeAll(SerializeRr, c.rrs)
SerializeCompound(c) ==
  (IF c.sr = << >> THEN SerializeRrPacket(RrPacket(0, c.rrs))
   ELSE WriteHeader(Len(c.rrs), SR, 28 + 24 * Len(c.rrs)) \o SerializeSr(c.sr[1])
          \o SerializeAll(SerializeRr, c.rrs))
    \o (IF c.chunks = << >> THEN << >> ELSE SerializeSdes(SdesPacket(c.chunks)))

----------------------------------------------------------------------------
\* The reports of a peer.

SsrcOf(i, k) == 100 * i + k
Due(b, last) == b.now - last >= Interval

\* << >>, or the report of a stream that has sent something.
GetRtcpSenderReport(i) ==
  IF Senders[i].count = 0 THEN << >> ELSE <<SenderReport(Senders[i].ssrc, Senders[i].count)>>

SenderGetRtcp_NoStamp(b, i) ==
  LET r == GetRtcpSenderReport(i)
  IN  IF ~Due(b, b.snt[i]) \/ r = << >> THEN <<b, EmptyCompound>>
      ELSE <<[b EXCEPT !.due = Append(@, r[1].ssrc)],
             AddSdesChunk(AddSenderReport(EmptyCompound, r[1]),
                          Chunk(r[1].ssrc, <<Item(1, Senders[i].cname)>>))>>
SenderGetRtcp(b, i) ==
  LET r == GetRtcpSenderReport(i)
  IN  IF ~Due(b, b.snt[i]) \/ r = << >> THEN <<b, EmptyCompound>>
      ELSE <<[b EXCEPT !.snt[i] = b.now, !.due = Append(@, r[1].ssrc)],
             AddSdesChunk(AddSenderReport(EmptyCompound, r[1]),
                          Chunk(r[1].ssrc, <<Item(1, Senders[i].cname)>>))>>
ReceiverGetRtcp(b, c, i) ==
  LET n == Len(Receivers[i].losts)
      add(e, k) == AddReceiverReport(e, ReceiverReport(SsrcOf(i, k), Receivers[i].losts[k]))
  IN  IF ~Due(b, b.rct[i]) THEN <<b, c>>
      ELSE <<[b EXCEPT !.rct[i] = b.now, !.due = @ \o [k \in 1..n |-> SsrcOf(i, k)]],
             FoldLeft(add, c, [k \in 1..n |-> k])>>

SendRtcpCompoundPacket(b, c) == [b EXCEPT !.sent = Append(@, SerializeCompound(c))]

\* Of each transport: every sender's report in a packet of its own, the
\* receivers' reports in one.
SendRtcp(b) ==
  LET sender(e, i, t) ==
        LET x == SenderGetRtcp(e, i)
        IN  IF Senders[i].transport # t \/ x[2].sr = << >> THEN e ELSE SendRtcpCompoundPacket(x[1], x[2])
      receiver(x, i, t) ==
        IF Receivers[i].transport # t THEN x ELSE ReceiverGetRtcp(x[1], x[2], i)
      Each(s) == [k \in DOMAIN s |-> k]
      transport(e, t) ==
        LET f == FoldLeft(LAMBDA a, i : sender(a, i, t), e, Each(Senders))
            x == FoldLeft(LAMBDA a, i : receiver(a, i, t), <<f, EmptyCompound>>, Each(Receivers))
        IN  IF x[2].rrs = << >> THEN x[1] ELSE SendRtcpCompoundPacket(x[1], x[2])
  IN  FoldLeft(transport, b, Transports)

OnTimer ==
  rt' = SendRtcp(Quiet(rt))
Tick == rt.now < MaxTime /\ rt' = [Quiet(rt) EXCEPT !.now = @ + 1]

\* Feedback is read from a datagram, alone or followed by a packet; the kinds that
\* are the sender's business are written again for it, if the stream it names has one
\* that is active; others are ignored.
Whole(p) == p # Wild /\ ("items" \in DOMAIN p => Wild \notin ToSet(p.items))
Forwarded(p) ==
  p.type = PSFB /\ ~IsRemb(p) /\ PacketKind(p) \in {"afb", "pli", "sli", "rpsi", "fir"}
ReceiveRtcpFeedback(type, fmt, area, tail, active) ==
  LET d == WriteHeader(fmt, type, 12 + Len(area)) \o <<0, 0, 0, 7, 0, 0, 0, 9>> \o area
      got == Parse(d \o tail)
      whole == got # << >> /\ \A i \in DOMAIN got : Whole(got[i])
      forward == SelectSeq(got, Forwarded)
  IN  rt' = [Quiet(rt) EXCEPT !.fed = <<d, tail, IF whole THEN got ELSE << >> >>,
                              !.out = IF ~whole \/ ~active THEN << >>
                                      ELSE [i \in DOMAIN forward |-> SerializeFeedback(forward[i])]]
\* Readers keep no state: they are worked at one time only.
Fresh == rt.now = Interval /\ rt.fed = << >> /\ rt.sent = << >>
Feed ==
  \E type \in {PSFB, RTPFB}, fmt \in 1..9 \cup {15, 31}, area \in Areas, tail \in Tails,
     active \in BOOLEAN :
    /\ Fresh /\ (area = << >> => fmt # 15)
    /\ Kind(type, fmt) = "tmmb" => \A i \in DOMAIN area : area[i] <= MantissaMax
    /\ ReceiveRtcpFeedback(type, fmt, area, tail, active)

\* What the peer's transport announces to the senders.
SendRemb(ssrcs, rate) ==
  LET d == SerializeRemb(RembPacket(ssrcs, rate))
  IN  rt' = [Quiet(rt) EXCEPT !.rate = rate, !.fed = <<d, << >>, Parse(d)>>]
Announce == Fresh /\ \E rate \in Rates, n \in 0..2 : SendRemb([i \in 1..n |-> SsrcOf(i, i)], rate)

\* A goodbye, with or without a reason.
ReceiveBye(ssrcs, reason) ==
  LET p == SerializeBye(ByePacket(ssrcs, reason))
  IN  rt' = [Quiet(rt) EXCEPT !.fed = <<p, << >>, Parse(p)>>]
Goodbye == Fresh /\ \E n \in 0..2, k \in 0..5 : ReceiveBye([i \in 1..n |-> i], [i \in 1..k |-> 64 + i])

Next == OnTimer \/ Tick \/ Feed \/ Announce \/ Goodbye

Spec == Init /\ [][Next]_rt

----------------------------------------------------------------------------
\* Types.
TypeOK ==
  /\ \A i \in DOMAIN Senders : rt.snt[i] <= rt.now
  /\ \A d \in ToSet(rt.sent) \cup ToSet(rt.out) : \A i \in DOMAIN d : d[i] \in 0..255

\* What is written has the size that was announced for it and the length that
\* its header tells, a multiple of four.
SizesExact ==
  /\ \A i \in DOMAIN rt.sent :
       LET d == rt.sent[i] first == PacketLen(d, 0)
       IN  /\ first <= Len(d)
           /\ first < Len(d) => first + PacketLen(d, first) = Len(d)
  /\ \A i \in DOMAIN rt.out : Len(rt.out[i]) = PacketLen(rt.out[i], 0)

\* At each timer every stream whose report is due is reported once, with what
\* it has to tell and the cname of its sender, and no other; a second peer that
\* reads the datagrams finds exactly these reports.
ReadBack == FlattenSeq([i \in DOMAIN rt.sent |-> Parse(rt.sent[i])])
ReportedSsrcs(got) ==
  FlattenSeq([i \in DOMAIN got |-> IF got[i].type \in {SR, RR}
                THEN [k \in DOMAIN got[i].reports |-> got[i].reports[k].ssrc] ELSE << >>])
AllReported ==
  LET seen == ReportedSsrcs(ReadBack)
  IN  /\ Len(seen) = Len(rt.due) /\ ToSet(seen) = ToSet(rt.due)
      /\ \A i \in DOMAIN ReadBack : ReadBack[i].type = RR =>
           \A k \in DOMAIN ReadBack[i].reports :
             \E j \in DOMAIN Receivers, n \in 1..2 :
               /\ n \in DOMAIN Receivers[j].losts /\ ReadBack[i].reports[k].ssrc = SsrcOf(j, n)
               /\ ReadBack[i].reports[k].lost = Max({-8388608, Min({8388607, Receivers[j].losts[n]})})
      /\ \A i \in DOMAIN rt.sent : rt.sent[i][2] = SR =>
           \E k \in DOMAIN Senders :
             Parse(rt.sent[i]) = <<SrPacket(<<SenderReport(Senders[k].ssrc, Senders[k].count)>>),
                                   SdesPacket(<<Chunk(Senders[k].ssrc, <<Item(1, Senders[k].cname)>>)>>)>>

\* No two reports of a stream are closer than the interval.
SpacedStep ==
  /\ \A i \in DOMAIN Senders : rt'.snt[i] # rt.snt[i] => rt'.snt[i] >= rt.snt[i] + Interval
  /\ \A i \in DOMAIN Receivers : rt'.rct[i] # rt.rct[i] => rt'.rct[i] >= rt.rct[i] + Interval
  /\ \A s \in ToSet(rt.due) : s \in ToSet(rt'.due) => rt'.now >= rt.now + Interval
NotTooOften == [][SpacedStep]_rt

\* Feedback that comes alone is forwarded as it came, up to a last item that is
\* not whole, and what a class writes of it reads as what was received.  Of feedback
\* that another packet follows, the items are still the first that are read, whatever
\* is taken for items behind them, and the other packet is read for itself as well.
Received == IF rt.fed = << >> \/ rt.fed[1][2] = BYE THEN << >> ELSE rt.fed[3]
Items(p) == IF "items" \in DOMAIN p THEN p.items ELSE << >>
ForwardExact ==
  LET d == SerializeFeedback(Received[1])
      alone == Parse(rt.fed[1])
  IN  /\ Received # << >> /\ rt.fed[2] = << >> =>
           /\ Len(d) = FeedbackSize(Received[1]) /\ Parse(d) = Received
           /\ rt.out # << >> => /\ rt.out = <<d>>
                                /\ Bytes(d, 4, Len(d) - 4) = Bytes(rt.fed[1], 4, Len(d) - 4)
      /\ Received # << >> /\ rt.fed[2] # << >> /\ alone # << >> /\ Whole(alone[1]) =>
           /\ IsPrefix(Items(alone[1]), Items(Received[1]))
           /\ "items" \notin DOMAIN alone[1] => Received[1] = alone[1]
           /\ Tail(Received) = Parse(rt.fed[2])
           /\ rt.out # << >> => Last(rt.out) = rt.fed[2]

\* An announced bitrate is read as the largest number below it that its mantissa
\* can tell, with all its ssrcs; a goodbye is read with its ssrcs and its reason.
AnnouncedReadsBack ==
  rt.rate >= 0 =>
    /\ Len(Received) = 1 /\ IsRemb(Received[1]) /\ SerializeRemb(Received[1]) = rt.fed[1]
    /\ LET told == Received[1].bitrate
       IN  /\ told <= rt.rate /\ rt.rate - told < 2 ^ EncodeRate(rt.rate)[1]
           /\ told < rt.rate => 2 * told > MantissaMax /\ rt.rate > MantissaMax
GoodbyeReadsBack ==
  rt.fed # << >> /\ rt.fed[1][2] = BYE =>
    Len(rt.fed[3]) = 1 /\ SerializeBye(rt.fed[3][1]) = rt.fed[1]
=============================================================================
