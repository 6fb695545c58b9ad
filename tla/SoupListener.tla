---------------------------- MODULE SoupListener ----------------------------
(***************************************************************************)
(* RtpListener and RtpReceiver of mediasoup_1: the tables of each transport *)
(* of a peer that give a packet to its receiver, by SSRC, mux id or payload *)
(* type, and the streams of a receiver.  New parameters replace the old     *)
(* entries or, when one of the new ones belongs to another receiver, leave  *)
(* them as they were.  A receiver that is given another transport keeps its *)
(* entries in the listener of the one it had.                               *)
(***************************************************************************)
EXTENDS Naturals, FiniteSets, Functions

CONSTANTS
  Receivers,    \* RtpReceivers of the peer
  Transports,   \* its Transports
  Offers,       \* RtpParameters: encodings, muxId, payload types, goog-remb
  Strangers,    \* SSRCs that no parameters name
  MaxReceives   \* bound on the RECEIVE requests accepted for a receiver

\* rtpParameters is null.
NoParameters == [encodings |-> {}, muxId |-> "", codecs |-> {}, remb |-> FALSE]

VARIABLE lst
(***************************************************************************)
(* listeners the RtpListener of each live transport, three tables:         *)
(*           ssrcTable, muxIdTable, ptTable, each key -> receiver           *)
(* recs      live receiver -> rtpParameters, its transport ({} for null),   *)
(*           rtpStreams (the SSRCs), how many times they were made (gen),   *)
(*           rtxStreamMap (RTX SSRC -> SSRC and gen of its stream)          *)
(* moved     history: <<transport, receiver>> where the receiver was given  *)
(*           another transport since it was last added to this one          *)
(* faults    null and freed pointers used                                   *)
(***************************************************************************)
NewListener == [ssrcTable |-> << >>, muxIdTable |-> << >>, ptTable |-> << >>]

Init == lst = [listeners |-> << >>, recs |-> << >>, moved |-> {}, faults |-> {}]

Set(f, keys, r) == [k \in DOMAIN f \cup keys |-> IF k \in keys THEN r ELSE f[k]]
Without(f, r) == Restrict(f, {k \in DOMAIN f : f[k] # r})
Live == DOMAIN lst.recs
Up == DOMAIN lst.listeners

\* The keys of parameters; the SSRC of FEC is looked up, and required, as that of RTX
\* is, which stands for both.  Payload types count when some SSRC is not given.
Ssrcs(p) == UNION {{e.ssrc, e.rtx} : e \in p.encodings} \ {0}
MuxIds(p) == {p.muxId} \ {""}
PayloadTypes(p) ==
  IF \E e \in p.encodings : e.ssrc = 0 \/ (e.hasRtx /\ e.rtx = 0) THEN p.codecs ELSE {}

----------------------------------------------------------------------------
\* RtpListener: l is one of them.

HasSsrc(l, k, r) == k \in DOMAIN l.ssrcTable /\ l.ssrcTable[k] # r
HasMuxId(l, k, r) == k \in DOMAIN l.muxIdTable /\ l.muxIdTable[k] # r
HasPayloadType(l, k, r) == k \in DOMAIN l.ptTable /\ l.ptTable[k] # r

RemoveRtpReceiver(l, r) ==
  [ssrcTable |-> Without(l.ssrcTable, r), muxIdTable |-> Without(l.muxIdTable, r),
   ptTable |-> Without(l.ptTable, r)]

\* The keys of parameters p over l.
AddKeys(l, r, ssrcs, muxIds, pts) ==
  [ssrcTable |-> Set(l.ssrcTable, ssrcs, r), muxIdTable |-> Set(l.muxIdTable, muxIds, r),
   ptTable |-> Set(l.ptTable, pts, r)]

Keys(f, r) == {k \in DOMAIN f : f[k] = r}

\* Mutant: the payload types are not put back.
RollbackRtpReceiver_NoPts(l, r, old) ==
  AddKeys(l, r, Keys(old.ssrcTable, r), Keys(old.muxIdTable, r), {})

\* The entries r had in old.
RollbackRtpReceiver(l, r, old) ==
  AddKeys(l, r, Keys(old.ssrcTable, r), Keys(old.muxIdTable, r), Keys(old.ptTable, r))

\* AddRtpReceiver of r with parameters p: `ok` is FALSE when it throws.
AddRtpReceiver(l, r, p) ==
  LET taken == \/ \E k \in Ssrcs(p) : HasSsrc(l, k, r)
               \/ \E k \in MuxIds(p) : HasMuxId(l, k, r)
               \/ \E k \in PayloadTypes(p) : HasPayloadType(l, k, r)
      clean == RemoveRtpReceiver(l, r)
  IN  [ok |-> ~taken,
       l |-> IF taken THEN RollbackRtpReceiver(clean, r, l)
             ELSE AddKeys(clean, r, Ssrcs(p), MuxIds(p), PayloadTypes(p))]

\* GetRtpReceiver of a packet: by SSRC if its codec is one of the receiver's,
\* else by payload type, and then the SSRC is learnt.
GetRtpReceiver(l, recs, ssrc, pt) ==
  IF ssrc \in DOMAIN l.ssrcTable
  THEN LET r == l.ssrcTable[ssrc]
       IN  [l |-> l, found |-> IF pt \in recs[r].params.codecs THEN {r} ELSE {}]
  ELSE IF pt \in DOMAIN l.ptTable
       THEN [l |-> AddKeys(l, l.ptTable[pt], {ssrc}, {}, {}), found |-> {l.ptTable[pt]}]
       ELSE [l |-> l, found |-> {}]

----------------------------------------------------------------------------
\* RtpReceiver.

Fault(s, c, what) == IF c THEN [s EXCEPT !.faults = @ \cup {what}] ELSE s

\* The streams of the old parameters go; rtxStreamMap is not cleared.
ClearRtpStreams(s, r) == [s EXCEPT !.recs[r].streams = {}, !.recs[r].gen = @ + 1]

\* CreateRtpStream for every encoding.
CreateRtpStreams(s, r) ==
  LET p == s.recs[r].params
      made == {e \in p.encodings : e.ssrc # 0}
      rtx == {e \in made : e.hasRtx /\ e.rtx # 0 /\ e.rtx \notin DOMAIN s.recs[r].rtxStreamMap}
      new == [k \in {e.rtx : e \in rtx} |->
                <<(CHOOSE e \in rtx : e.rtx = k).ssrc, s.recs[r].gen>>]
      t == [s EXCEPT !.recs[r].streams = {e.ssrc : e \in made},
                     !.recs[r].rtxStreamMap = [k \in DOMAIN @ \cup DOMAIN new |->
                       IF k \in DOMAIN new THEN new[k] ELSE @[k]]]
  IN  Fault(t, p.remb /\ made # {} /\ s.recs[r].transport = {}, "EnableRemb of no transport")

\* The constructor, with the transport of the request.
CreateRtpReceiver(r, t) ==
  /\ t \in Up /\ r \notin Live
  /\ lst' = [lst EXCEPT !.recs = Set(@, {r},
               [params |-> NoParameters, transport |-> {t}, streams |-> {}, gen |-> 0,
                rtxStreamMap |-> << >>])]

\* RTP_RECEIVER_RECEIVE with valid parameters (RtpParameters wants a media
\* codec), entered in the listener of the transport the receiver has, if any;
\* those it refuses are taken back.
Receive(r, p) ==
  /\ r \in Live /\ lst.recs[r].gen < MaxReceives /\ p.codecs # {}
  /\ LET s == [lst EXCEPT !.recs[r].params = p]
     IN  \/ /\ lst.recs[r].transport = {}
            /\ lst' = CreateRtpStreams(ClearRtpStreams(s, r), r)
         \/ \E t \in lst.recs[r].transport :
              LET a == AddRtpReceiver(lst.listeners[t], r, p)
                  b == [s EXCEPT !.listeners[t] = a.l]
              IN  lst' = IF a.ok THEN CreateRtpStreams(ClearRtpStreams(b, r), r)
                         ELSE [lst EXCEPT !.listeners[t] = a.l]

\* RTP_RECEIVER_SET_TRANSPORT to t; without parameters AddRtpReceiver asserts.
\* The transport it had is not told, and keeps the entries.  (That the REMB of
\* the old one is enabled in the new one is left out.)
SetTransport(r, t) ==
  /\ t \in Up /\ r \in Live
  /\ LET x == lst.recs[r]
         a == AddRtpReceiver(lst.listeners[t], r, x.params)
     IN  lst' = IF x.params = NoParameters
                THEN Fault(lst, TRUE, "no RtpParameters")
                ELSE IF a.ok
                THEN [lst EXCEPT !.listeners[t] = a.l, !.recs[r].transport = {t},
                                 !.moved = (@ \cup (x.transport \X {r})) \ {<<t, r>>}]
                ELSE [lst EXCEPT !.listeners[t] = a.l]

\* Destroy, with what the peer does in OnRtpReceiverClosed.
Destroy(r) ==
  /\ r \in Live
  /\ lst' = [lst EXCEPT !.listeners = [t \in DOMAIN @ |-> RemoveRtpReceiver(@[t], r)],
                        !.recs = Restrict(@, Live \ {r}),
                        !.moved = {m \in @ : m[2] # r}]

\* A transport opens ...
OpenTransport(t) ==
  /\ t \notin Up
  /\ lst' = [lst EXCEPT !.listeners = Set(@, {t}, NewListener)]

\* ... and closes: OnTransportClosed of the peer.
CloseTransport(t) ==
  /\ t \in Up
  /\ lst' = [lst EXCEPT !.listeners = Restrict(@, Up \ {t}),
                        !.recs = [r \in Live |-> [lst.recs[r] EXCEPT !.transport = @ \ {t}]],
                        !.moved = {m \in @ : m[1] # t}]

\* ReceiveRtpPacket: the stream of the SSRC, or the one its RTX belongs to.
ReceiveRtpPacket(s, r, ssrc) ==
  LET x == s.recs[r]
  IN  IF ssrc \in x.streams \/ ssrc \notin DOMAIN x.rtxStreamMap THEN s
      ELSE Fault(s, x.rtxStreamMap[ssrc][2] # x.gen, "freed stream")

\* OnRtpDataRecv of transport t.
RtpPacket(t, ssrc, pt) ==
  /\ t \in Up
  /\ LET g == GetRtpReceiver(lst.listeners[t], lst.recs, ssrc, pt)
     IN  \E r \in g.found : lst' = ReceiveRtpPacket([lst EXCEPT !.listeners[t] = g.l], r, ssrc)

\* The worker ends at an assertion or a null pointer; what it does with a
\* freed stream is not followed further.
Next ==
  /\ lst.faults = {}
  /\ \/ \E r \in Receivers : Destroy(r)
     \/ \E r \in Receivers, t \in Transports : CreateRtpReceiver(r, t) \/ SetTransport(r, t)
     \/ \E r \in Receivers, p \in Offers : Receive(r, p)
     \/ \E t \in Transports : OpenTransport(t) \/ CloseTransport(t)
     \/ \E t \in Transports, ssrc \in Strangers \cup UNION {Ssrcs(p) : p \in Offers},
           pt \in UNION {p.codecs : p \in Offers} : RtpPacket(t, ssrc, pt)

Spec == Init /\ [][Next]_lst

----------------------------------------------------------------------------
TypeOK ==
  /\ Live \subseteq Receivers /\ Up \subseteq Transports
  /\ \A r \in Live : /\ lst.recs[r].params \in Offers \cup {NoParameters}
                     /\ lst.recs[r].gen \in 0..MaxReceives
                     /\ lst.recs[r].transport \in {{}} \cup {{t} : t \in Up}
  /\ lst.moved \subseteq Up \X Live
  /\ lst.faults \subseteq {"EnableRemb of no transport", "no RtpParameters", "freed stream"}

\* After any sequence of accepted and rejected requests a receiver has in the
\* listener of its transport exactly the entries of the parameters in force,
\* and learnt SSRCs only if its payload types are listed; in another listener
\* it has entries only where it was moved away from and the transport lives:
\* RTP_RECEIVER_SET_TRANSPORT leaves them, and nothing else does; nobody who is
\* closed or without parameters has entries anywhere; and the streams of a
\* receiver are those of its encodings.
ListenerExact ==
  LET owners(l) == Range(l.ssrcTable) \cup Range(l.muxIdTable) \cup Range(l.ptTable)
  IN  /\ \A t \in Up : owners(lst.listeners[t]) \subseteq
           {r \in Live : /\ lst.recs[r].params # NoParameters
                         /\ t \in lst.recs[r].transport \/ <<t, r>> \in lst.moved}
      /\ \A r \in Live : LET p == lst.recs[r].params IN
           p # NoParameters =>
             /\ lst.recs[r].streams = {e.ssrc : e \in p.encodings} \ {0}
             /\ \A t \in lst.recs[r].transport : LET l == lst.listeners[t] IN
                  /\ Keys(l.muxIdTable, r) = MuxIds(p)
                  /\ Keys(l.ptTable, r) = PayloadTypes(p)
                  /\ Ssrcs(p) \subseteq Keys(l.ssrcTable, r)
                  /\ Keys(l.ssrcTable, r) # Ssrcs(p) => PayloadTypes(p) # {}
=============================================================================
