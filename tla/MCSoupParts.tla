---------------------------- MODULE MCSoupParts ----------------------------
(***************************************************************************)
(* The parts of the media worker on small instances.  Each behaviour works  *)
(* one part, chosen at the start, and leaves the others alone: the states   *)
(* are the sum and not the product of those of the parts.                   *)
(***************************************************************************)
EXTENDS MCSoupRoom

CONSTANTS
  UdpTuples, TcpTuples, MaxPasswords,           \* of SoupTransport
  Owners, Socks, Conns, MinPort, MaxPort,       \* of SoupSockets
  MaxBindAttempts, MaxConnections,
  Listened, Lanes, Offers, Strangers, MaxReceives  \* of SoupListener; its receivers, transports

VARIABLES part, tp, net, wire, lst, rs, snd, dict

Tp == INSTANCE SoupTransport
Nt == INSTANCE SoupSockets
Ls == INSTANCE SoupListener WITH Receivers <- Listened, Transports <- Lanes
Fr == INSTANCE SoupFraming WITH BufferSize <- 6, Lengths <- {0, 2, 4, 5}, MaxFrames <- 3

\* Encodings of a receiver: media with its retransmission stream, none, media alone.
MCWithRtx == [ssrc |-> 1, hasRtx |-> TRUE, rtx |-> 2]
MCUnsigned == [ssrc |-> 0, hasRtx |-> FALSE, rtx |-> 0]
MCAlone == [ssrc |-> 3, hasRtx |-> FALSE, rtx |-> 0]

MCOffers ==
  {[encodings |-> {MCWithRtx}, muxId |-> "", codecs |-> {96}, remb |-> TRUE],
   [encodings |-> {MCUnsigned}, muxId |-> "m", codecs |-> {96, 97}, remb |-> FALSE],
   [encodings |-> {MCAlone, MCWithRtx}, muxId |-> "m", codecs |-> {97}, remb |-> FALSE]}

Nk == INSTANCE SoupNack WITH RtpSeqMod <- 8, MaxDropout <- 3, MaxMisorder <- 2, MaxPacketAge <- 6,
       MaxNackPackets <- 3, MaxNackRetries <- 3, BitmaskBits <- 2, Firsts <- {0, 1, 5}, Ahead <- 4,
       Back <- 1, MaxNumber <- 10, MaxReceived <- 4
Sd == INSTANCE SoupSend WITH RtpSeqMod <- 4, MaxDropout <- 2, MaxMisorder <- 2, BufferSize <- 2,
       BitmaskBits <- 1, MaxAge <- 2, Back <- 1, MaxNumber <- 5, Big <- {3},
       Offers <- {[ssrc |-> 1, codecs |-> {96}, nack |-> TRUE, rtx |-> TRUE],
                  [ssrc |-> 2, codecs |-> {97}, nack |-> FALSE, rtx |-> FALSE]}

\* Codecs as rooms, peers and receivers offer them: supported or not, with a
\* fixed payload type or none, duplicated, of the wrong kind, rtx with and
\* without its associated codec.
MCCodec(kind, mime, pt, apt, fb) ==
  [kind |-> kind, mime |-> mime, pt |-> pt, apt |-> apt, fb |-> fb]
MCUpToTwo(S2) == {<<a, b>> : a \in S2, b \in S2} \cup {<<a>> : a \in S2}
MCRoomCodecs ==
  {MCCodec("audio", "opus", 0, 0, {}), MCCodec("audio", "opus", 100, 0, {}),
   MCCodec("video", "vp8", 0, 0, {"nack"}), MCCodec("video", "vp8", 100, 0, {"nack"}),
   MCCodec("audio", "red", 0, 0, {})}
MCPeerCodecs ==
  {MCCodec("audio", "opus", 111, 0, {}), MCCodec("video", "vp8", 96, 0, {"nack", "remb"}),
   MCCodec("video", "opus", 111, 0, {}), MCCodec("video", "rtx", 97, 96, {}),
   MCCodec("audio", "red", 96, 0, {})}
MCReceiverCodecs ==
  {MCCodec("", "opus", 100, 0, {}), MCCodec("", "vp8", 100, 0, {"nack", "remb"}),
   MCCodec("", "vp8", 101, 0, {"nack"}), MCCodec("", "rtx", 101, 100, {}),
   MCCodec("", "rtx", 102, 0, {}), MCCodec("", "", 100, 0, {})}
Dc == INSTANCE SoupCodecs WITH Supported <- [opus |-> {}, vp8 |-> {"nack"}],
       Dynamic <- <<100, 101, 102, 103>>, Extensions <- {"level"},
       RoomOffers <- MCUpToTwo(MCRoomCodecs),
       PeerOffers <- {[codecs |-> <<a, b>>, ext |-> e] :
                        a \in MCPeerCodecs, b \in MCPeerCodecs, e \in {{}, {"level", "x"}}},
       Parameters <- {[codecs |-> s, encodings |-> e, ext |-> {"level"}] :
                        s \in MCUpToTwo(MCReceiverCodecs),
                        e \in {<< >>, <<0>>, <<100>>, <<101, 100>>}}

partVars == <<tp, net, wire, lst, rs, snd, dict>>

PartsInit ==
  /\ part \in {"room", "transport", "sockets", "framing",
            "listener", "nack", "send", "codecs"}
  /\ Init /\ Tp!Init /\ Nt!Init /\ Fr!Init /\ Ls!Init /\ Nk!Init /\ Sd!Init /\ Dc!Init

PartsNext ==
  /\ UNCHANGED part
  /\ \/ part = "room" /\ Next /\ UNCHANGED partVars
     \/ part = "transport" /\ Tp!Next /\ UNCHANGED <<vars, net, wire, lst, rs, snd, dict>>
     \/ part = "sockets" /\ Nt!Next /\ UNCHANGED <<vars, tp, wire, lst, rs, snd, dict>>
     \/ part = "framing" /\ Fr!Next /\ UNCHANGED <<vars, tp, net, lst, rs, snd, dict>>
     \/ part = "listener" /\ Ls!Next /\ UNCHANGED <<vars, tp, net, wire, rs, snd, dict>>
     \/ part = "nack" /\ Nk!Next /\ UNCHANGED <<vars, tp, net, wire, lst, snd, dict>>
     \/ part = "send" /\ Sd!Next /\ UNCHANGED <<vars, tp, net, wire, lst, rs, dict>>
     \/ part = "codecs" /\ Dc!Next /\ UNCHANGED <<vars, tp, net, wire, lst, rs, snd>>

PartsSpec == PartsInit /\ [][PartsNext]_<<vars, partVars, part>>

\* Every part's state is of its type.
PartsTypeOK ==
  TypeOK /\ Tp!TypeOK /\ Nt!TypeOK /\ Fr!TypeOK /\ Ls!TypeOK /\ Nk!TypeOK /\ Sd!TypeOK /\ Dc!TypeOK

\* SoupTransport: the transport and its IceServer agree on the selected tuple.
SelectedAgrees == Tp!SelectedAgrees

\* SoupTransport: the SRTP keys in use are those of a verified handshake.
KeysAreVerified == Tp!KeysAreVerified

\* SoupTransport: DTLS runs in the local role once ICE and the parameters allow it,
\* in either order, and has no role before ICE has begun.
DtlsFollowsIce == Tp!DtlsFollowsIce

\* SoupSockets: no handle is closed twice and no freed object is called.
ClosesOnce == Nt!ClosesOnce

\* SoupSockets: a port belongs to one live socket of its kind.
PortsExclusive == Nt!PortsExclusive

\* SoupFraming: packets arrive whole and in order.
FramesIntact == Fr!FramesIntact

\* SoupListener: the listener's tables hold exactly what its receivers announced.
ListenerExact == Ls!ListenerExact

\* SoupNack: the packets asked for are exactly those that were skipped, have not
\* come, and were not given up for one of the reasons the module names.
NacksExact == Nk!NacksExact

\* SoupSend: a retransmission is the packet that was asked for, and a sender
\* tells its state when it changes.
ResendsExact == Sd!ResendsExact /\ Sd!ActiveTold

\* SoupCodecs: what a room, a peer and a receiver settle on is consistent.
CodecsAgree == Dc!CodecsAgree
=============================================================================
