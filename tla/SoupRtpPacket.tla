---------------------------- MODULE SoupRtpPacket ----------------------------
(***************************************************************************)
(* RTP packets of mediasoup_1 (RTC/RtpPacket) byte by byte: a datagram is   *)
(* parsed, its header extensions are read, the packet is cloned into the    *)
(* store of a sender, sent again as an RTX packet, and recovered by the one *)
(* who receives this.  Recovered packets are stored as well.                *)
(*                                                                          *)
(* A packet has places in the buffer d, which goes on behind its size.  An  *)
(* exception nobody catches, a failed MS_ASSERT and writing behind a        *)
(* buffer end in a fault.                                                   *)
(***************************************************************************)
EXTENDS SoupBytes, Integers, Sequences, FiniteSets, FiniteSetsExt, SequencesExt, Functions

CONSTANTS
  Written,      \* packets on their way: [first (byte), csrcs, ext (<< >> or id and elements),
                \* payload, padding (the bytes)]
  LevelId, TimeId,   \* ids of the header extensions, 0: not used
  MtuSize,      \* size of the buffers
  Stale         \* bytes a buffer may hold behind a packet

VARIABLE rp
(***************************************************************************)
(* step    where the packet is; wrote: what its sender meant               *)
(* data    the datagram, rtx: it was sent by Retransmit                     *)
(* pkt     << >> or the packet; level, time: what was read of it            *)
(* copy    the packet in the store; stale: what buffers hold                *)
(***************************************************************************)
RtxType == 97
RtxSsrc == <<9, 9, 9, 9>>
RtxSeq == 770

\* Fields of the header.
HasPadding(d) == (d[1] \div 32) % 2 = 1
HasExtension(d) == (d[1] \div 16) % 2 = 1
CsrcCount(d) == d[1] % 16
PayloadType(d) == d[2] % 128
SetPayloadType(d, pt) == Set(d, 1, <<(d[2] \div 128) * 128 + pt>>)
SequenceNumber(d) == Get2(d, 2)
SetSequenceNumber(d, seq) == Set(d, 2, Put2(seq))
Ssrc(d) == Bytes(d, 8, 4)
SetSsrc(d, ssrc) == Set(d, 8, ssrc)
GetExtensionHeaderId(p) == IF p.ext = 0 THEN 0 ELSE Get2(p.d, p.ext)
GetExtensionHeaderLength(p) == IF p.ext = 0 THEN 0 ELSE Get2(p.d, p.ext + 2) * 4
HasOneByteExtensions(p) == GetExtensionHeaderId(p) = 48862
HasTwoBytesExtensions(p) == GetExtensionHeaderId(p) \div 16 = 256

----------------------------------------------------------------------------
\* Parsing.

\* Behind an element zeros are skipped.
Skip(d, at, end) == Min({x \in at..end : x = end} \cup {x \in at..(end - 1) : d[x + 1] # 0})

\* Places of the elements: a map from ids, where a later element replaces an earlier.
Places(s) == [id \in {s[i][1] : i \in DOMAIN s} |-> s[Max({i \in DOMAIN s : s[i][1] = id})][2]]
OneByteElements_NoSkip(p) ==
  LET end == p.ext + 4 + GetExtensionHeaderLength(p)
      f[x \in 0..end] ==
        IF x >= end THEN << >>
        ELSE LET e == x + 1 + (p.d[x + 1] % 16) + 1
             IN  IF e > end THEN << >> ELSE <<<<p.d[x + 1] \div 16, x>>>> \o f[e]
  IN  Places(f[p.ext + 4])
OneByteElements(p) ==
  LET end == p.ext + 4 + GetExtensionHeaderLength(p)
      f[x \in 0..end] ==
        IF x >= end THEN << >>
        ELSE LET e == x + 1 + (p.d[x + 1] % 16) + 1
             IN  IF e > end THEN << >> ELSE <<<<p.d[x + 1] \div 16, x>>>> \o f[Skip(p.d, e, end)]
  IN  Places(f[p.ext + 4])

\* The element is kept at its length, from which the next is counted too.
TwoBytesElements(p) ==
  LET end == p.ext + 4 + GetExtensionHeaderLength(p)
      f[x \in 0..end] ==
        IF x >= end THEN << >>
        ELSE LET e == x + 1 + p.d[x + 2]
             IN  IF e > end THEN << >> ELSE <<<<p.d[x + 1], x + 1>>>> \o f[Skip(p.d, e, end)]
  IN  Places(f[p.ext + 4])

ParseExtensions(p) ==
  IF HasOneByteExtensions(p) THEN [p EXCEPT !.one = OneByteElements(p)]
  ELSE IF HasTwoBytesExtensions(p) THEN [p EXCEPT !.two = TwoBytesElements(p)] ELSE p

\* Maps of a new packet are empty.
NewPacket(d, csrcs, ext, payload, long, padding, size) ==
  [d |-> d, csrcs |-> csrcs, ext |-> ext, payload |-> payload, long |-> long, padding |-> padding,
   size |-> size, one |-> << >>, two |-> << >>, ids |-> << >>]

IsRtp(d) == Len(d) >= 12 /\ d[1] > 127 /\ d[1] < 192

Parse_PaddingFits(d, behind) ==
  LET buffer == d \o behind
      ext == 12 + 4 * CsrcCount(d)
      start == IF ~HasExtension(d) THEN ext ELSE ext + 4 + 4 * Get2(d, ext + 2)
      padding == IF HasPadding(d) THEN d[Len(d)] ELSE 0
  IN  IF ~IsRtp(d) THEN << >>
      ELSE IF Len(d) < ext THEN << >>
      ELSE IF HasExtension(d) /\ Len(d) < ext + 4 THEN << >>
      ELSE IF Len(d) < start THEN << >>
      ELSE <<ParseExtensions(NewPacket(buffer, 4 * CsrcCount(d), IF HasExtension(d) THEN ext ELSE 0, start,
                                       Len(d) - start - padding, padding, Len(d)))>>
Parse(d, behind) ==
  LET buffer == d \o behind
      ext == 12 + 4 * CsrcCount(d)
      start == IF ~HasExtension(d) THEN ext ELSE ext + 4 + 4 * Get2(d, ext + 2)
      padding == IF HasPadding(d) THEN d[Len(d)] ELSE 0
  IN  IF ~IsRtp(d) THEN << >>
      ELSE IF Len(d) < ext THEN << >>
      ELSE IF HasExtension(d) /\ Len(d) < ext + 4 THEN << >>
      ELSE IF Len(d) < start THEN << >>
      ELSE IF HasPadding(d) /\ (Len(d) = start \/ padding = 0 \/ Len(d) - start < padding) THEN << >>
      ELSE <<ParseExtensions(NewPacket(buffer, 4 * CsrcCount(d), IF HasExtension(d) THEN ext ELSE 0, start,
                                       Len(d) - start - padding, padding, Len(d)))>>

----------------------------------------------------------------------------
\* Header extensions.

AddExtensionMapping(p, uri, id) == [p EXCEPT !.ids = (uri :> id) @@ @]
SetHeaderExtensions(p) ==
  LET q == IF LevelId = 0 THEN p ELSE AddExtensionMapping(p, "ssrc-audio-level", LevelId)
  IN  IF TimeId = 0 THEN q ELSE AddExtensionMapping(q, "abs-send-time", TimeId)

\* << >>, or the value; for elements of two bytes the length is looked up in the
\* other map, which has nothing.
Throws == <<-2>>
GetExtension(p, uri) ==
  IF uri \notin DOMAIN p.ids THEN << >>
  ELSE LET id == p.ids[uri]
       IN  IF HasOneByteExtensions(p)
           THEN IF id \notin DOMAIN p.one THEN << >>
                ELSE Bytes(p.d, p.one[id] + 1, (p.d[p.one[id] + 1] % 16) + 1)
           ELSE IF HasTwoBytesExtensions(p) /\ id \in DOMAIN p.two
                THEN IF id \in DOMAIN p.one THEN Bytes(p.d, p.two[id] + 2, p.d[p.one[id] + 1] % 16)
                     ELSE Throws
                ELSE << >>

\* Volume and voice, or -1.
ReadAudioLevel(p) ==
  LET v == GetExtension(p, "ssrc-audio-level")
  IN  IF v = Throws THEN v ELSE IF Len(v) # 1 THEN <<-1, FALSE>> ELSE <<v[1] % 128, v[1] >= 128>>
ReadAbsSendTime(p) ==
  LET v == GetExtension(p, "abs-send-time")
  IN  IF v = Throws THEN v ELSE IF Len(v) # 3 THEN <<-1>> ELSE <<Get3(v, 0)>>

----------------------------------------------------------------------------
\* Clones and RTX.

GetData(p) == Bytes(p.d, 0, p.size)

\* The places of the clone are counted again; << >>: its size is another
\* (MS_ASSERT ptr - buffer == this->size).
Clone_NoMap(p, behind) ==
  LET ext == 12 + p.csrcs
      payload == IF p.ext = 0 THEN ext ELSE ext + 4 + GetExtensionHeaderLength(p)
      end == payload + p.long
      copied == GetData(p) \o behind
      d == IF p.padding = 0 THEN copied ELSE Set(copied, end + p.padding - 1, <<p.padding>>)
      q == ParseExtensions(NewPacket(d, p.csrcs, IF p.ext = 0 THEN 0 ELSE ext, payload, p.long,
                                     p.padding, p.size))
  IN  IF end + p.padding # p.size THEN << >> ELSE <<q>>
Clone(p, behind) ==
  LET ext == 12 + p.csrcs
      payload == IF p.ext = 0 THEN ext ELSE ext + 4 + GetExtensionHeaderLength(p)
      end == payload + p.long
      copied == GetData(p) \o behind
      d == IF p.padding = 0 THEN copied ELSE Set(copied, end + p.padding - 1, <<p.padding>>)
      q == ParseExtensions(NewPacket(d, p.csrcs, IF p.ext = 0 THEN 0 ELSE ext, payload, p.long,
                                     p.padding, p.size))
  IN  IF end + p.padding # p.size THEN << >> ELSE <<[q EXCEPT !.ids = p.ids]>>

\* The payload moves two bytes up, behind what were the padding and the end.
RtxEncode_SeqFirst(p, pt, ssrc, seq) ==
  LET d == SetSequenceNumber(SetSsrc(SetPayloadType(p.d, pt), ssrc), seq)
      moved == Set(Set(d, p.payload + 2, Bytes(d, p.payload, p.long)), p.payload, Put2(SequenceNumber(d)))
  IN  [p EXCEPT !.d = moved, !.long = @ + 2, !.size = @ + 2, !.padding = 0]
RtxEncode(p, pt, ssrc, seq) ==
  LET d == SetSsrc(SetPayloadType(p.d, pt), ssrc)
      moved == Set(Set(d, p.payload + 2, Bytes(d, p.payload, p.long)), p.payload, Put2(SequenceNumber(d)))
  IN  [p EXCEPT !.d = SetSequenceNumber(moved, seq), !.long = @ + 2, !.size = @ + 2, !.padding = 0]

\* The payload begins two bytes later; the bytes stay where they are.
RtxDecode(p, pt, ssrc) ==
  IF p.long < 2 THEN << >>
  ELSE <<[p EXCEPT !.d = SetSequenceNumber(SetSsrc(SetPayloadType(@, pt), ssrc), Get2(@, p.payload)),
                   !.payload = @ + 2, !.long = @ - 2, !.size = @ - 2, !.padding = 0]>>

----------------------------------------------------------------------------
\* A packet's way.

\* What its sender meant, as bytes.
ElementBytes(kind, e) ==
  (IF kind = 48862 THEN <<e.id * 16 + Len(e.value) - 1>> ELSE <<e.id, Len(e.value)>>)
    \o e.value \o Zeros(e.gap)
Datagram(w) ==
  LET els == FlattenSeq([i \in DOMAIN w.elements |-> ElementBytes(w.ext, w.elements[i])])
      area == els \o Zeros(Pad(Len(els)))
  IN  <<w.first, 111, 1, 2, 0, 0, 0, 3, 5, 6, 7, 8>> \o w.csrcs
        \o (IF w.ext = 0 THEN << >> ELSE Put2(w.ext) \o Put2(Len(area) \div 4) \o area)
        \o w.payload \o w.padding

Init ==
  \E w \in Written, stale \in Stale :
    rp = [step |-> "arriving", wrote |-> w, data |-> Datagram(w), rtx |-> FALSE, pkt |-> << >>,
          level |-> << >>, time |-> << >>, copy |-> << >>, stale |-> stale, fault |-> "none"]
Behind == <<rp.stale, rp.stale>>
Fault(s, what) == [s EXCEPT !.step = "down", !.fault = what]

\* Transport::OnRtpDataRecv.
Arrive ==
  LET p == Parse(rp.data, Behind)
  IN  /\ rp.step = "arriving"
      /\ rp' = IF p = << >> THEN [rp EXCEPT !.step = "dropped"]
               ELSE [rp EXCEPT !.step = "parsed", !.pkt = p]

\* RtpStreamRecv maps the ids, Room and Transport read.
ReadExtensions ==
  LET p == SetHeaderExtensions(rp.pkt[1])
      s == [rp EXCEPT !.step = "read", !.pkt = <<p>>, !.level = ReadAudioLevel(p),
                      !.time = ReadAbsSendTime(p)]
  IN  /\ rp.step = "parsed" /\ ~rp.rtx
      /\ rp' = IF Throws \in {s.level, s.time} THEN Fault(s, "out_of_range") ELSE s

\* RtpStreamSend::StorePacket.
StorePacket ==
  LET c == Clone(rp.pkt[1], Behind)
  IN  /\ rp.step \in {"read", "recovered"} /\ rp.pkt[1].size <= MtuSize
      /\ rp' = IF c = << >> THEN Fault(rp, "assert")
               ELSE [rp EXCEPT !.step = IF rp.step = "read" THEN "stored" ELSE "kept", !.copy = c]

\* RtpSender::RetransmitRtpPacket: a clone of the stored packet, in a buffer of the
\* same size.
Retransmit ==
  LET c == Clone(rp.copy[1], Behind)[1]
      p == RtxEncode(c, RtxType, RtxSsrc, RtxSeq)
      s == [rp EXCEPT !.step = "arriving", !.data = GetData(p), !.rtx = TRUE, !.pkt = << >>]
  IN  /\ rp.step = "stored"
      /\ rp' = IF c.payload + c.long + 2 > MtuSize THEN Fault(s, "overrun") ELSE s

\* RtpStreamRecv::ReceiveRtxPacket: the packet is of an RTX stream.
Recover ==
  LET p == RtxDecode(rp.pkt[1], 111, <<5, 6, 7, 8>>)
  IN  /\ rp.step = "parsed"
      /\ rp' = IF p = << >> THEN [rp EXCEPT !.step = "dropped"]
               ELSE [rp EXCEPT !.step = "recovered", !.pkt = p]

Rest == rp.step \in {"dropped", "read", "kept", "recovered", "down"} /\ UNCHANGED rp

Next == Arrive \/ ReadExtensions \/ StorePacket \/ Retransmit \/ Recover \/ Rest

----------------------------------------------------------------------------
TypeOK ==
  /\ rp.step \in {"arriving", "parsed", "dropped", "read", "stored", "kept", "recovered", "down"}
  /\ rp.fault \in {"none", "out_of_range", "assert", "overrun"} /\ rp.rtx \in BOOLEAN
  /\ rp.data \in Seq(0..255) /\ Len(rp.pkt) <= 1 /\ Len(rp.copy) <= 1

GetPayload(p) == Bytes(p.d, p.payload, p.long)

\* RtpPacket::Parse: whatever the datagram says of itself, csrcs, extension, payload
\* and padding lie one behind the other in it and fill it (its two MS_ASSERTs), and
\* elements of one byte lie in the extension.
PlacesInside ==
  rp.step \in {"parsed", "read"} =>
    LET p == rp.pkt[1]
        end == p.ext + 4 + GetExtensionHeaderLength(p)
    IN  /\ p.long >= 0 /\ p.payload + p.long + p.padding = Len(rp.data)
        /\ p.payload = IF p.ext = 0 THEN 12 + p.csrcs ELSE end
        /\ \A id \in DOMAIN p.one : p.one[id] + 1 + (p.d[p.one[id] + 1] % 16) < end

\* RtpPacket::ReadAudioLevel, ReadAbsSendTime: what the sender meant is read, the
\* last element where it says a thing twice.
Meant(id, n) ==
  LET s == SelectSeq(rp.wrote.elements, LAMBDA e : e.id = id)
  IN  IF s = << >> THEN << >> ELSE IF Len(s[Len(s)].value) # n THEN << >> ELSE s[Len(s)].value
ExtensionsRead ==
  rp.step = "read" /\ rp.wrote.ext = 48862 =>
    /\ rp.level[1] = IF Meant(LevelId, 1) = << >> THEN -1 ELSE Meant(LevelId, 1)[1] % 128
    /\ rp.time[1] = IF Meant(TimeId, 3) = << >> THEN -1 ELSE Get3(Meant(TimeId, 3), 0)

\* RtpPacket::Clone: the stored packet is the packet, and what can be read of it
\* is the same.
StoredExact ==
  rp.step = "stored" =>
    LET p == rp.pkt[1] c == rp.copy[1]
    IN  /\ GetData(c) = rp.data /\ GetPayload(c) = GetPayload(p) /\ c.one = p.one
        /\ ReadAudioLevel(c) = rp.level /\ ReadAbsSendTime(c) = rp.time

\* RtpPacket::RtxEncode, RtxDecode: a packet without padding that is sent again
\* as RTX is recovered with its number, type, stream and payload.
RtxRecovers ==
  rp.rtx /\ ~HasPadding(rp.copy[1].d) =>
    /\ rp.step # "dropped"
    /\ rp.step = "recovered" =>
         LET p == rp.pkt[1] c == rp.copy[1]
         IN  /\ GetPayload(p) = GetPayload(c) /\ p.one = c.one /\ Ssrc(p.d) = Ssrc(c.d)
             /\ SequenceNumber(p.d) = SequenceNumber(c.d) /\ PayloadType(p.d) = PayloadType(c.d)

\* RtpPacket: the program goes down only at a mapped element of two bytes
\* (GetExtension throws), at a padded RTX packet that is stored (Clone asserts),
\* and at a retransmission that leaves no room for two bytes.
FaultsKnown ==
  /\ rp.fault = "out_of_range" =>
       ~HasOneByteExtensions(rp.pkt[1]) /\ DOMAIN rp.pkt[1].two \cap {LevelId, TimeId} # {}
  /\ rp.fault = "assert" => HasPadding(rp.data) /\ rp.pkt[1].payload > 12 + rp.pkt[1].csrcs
  /\ rp.fault = "overrun" => rp.copy[1].size > MtuSize - 2
=============================================================================
