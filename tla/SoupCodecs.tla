----------------------------- MODULE SoupCodecs -----------------------------
(***************************************************************************)
(* The RTP dictionaries of mediasoup_1 and what Room and Peer do with them: *)
(* a room is given codecs and chooses payload types, a peer's capabilities  *)
(* are reduced to those of the room, and the parameters of a receiver to    *)
(* those of its peer.                                                       *)
(*                                                                          *)
(* A codec has a kind, a mime (which stands for clock rate, channels and    *)
(* packetization mode too), a payload type (0: none), RTCP feedback and, if *)
(* it is RTX, the payload type it is for.                                   *)
(***************************************************************************)
EXTENDS Naturals, Sequences, SequencesExt, FiniteSets, FiniteSetsExt, Functions

CONSTANTS
  Supported,    \* supportedRtpCapabilities: mime -> RTCP feedback
  Dynamic,      \* DynamicPayloadTypes, in the order they are tried
  RoomOffers,   \* sequences of codecs of WORKER_CREATE_ROOM
  PeerOffers,   \* codecs and header extensions of PEER_SET_CAPABILITIES
  Parameters,   \* codecs, encodings and extensions of RTP_RECEIVER_RECEIVE
  Extensions    \* supported header extensions

MediaMimes == {"opus", "vp8"}
FeatureMimes == {"rtx", "red"}

VARIABLE dict
(***************************************************************************)
(* room, rtx     the codecs of the room, mapPayloadRtxCodecParameters       *)
(* peer, ext     the peer's capabilities                                    *)
(* params        the parameters in force, as a sequence of at most one      *)
(* state         "new", "room", "refused", "peer"                           *)
(* faults        assertions that failed                                     *)
(***************************************************************************)
Init ==
  dict = [room |-> << >>, rtx |-> << >>, peer |-> << >>, ext |-> {}, params |-> << >>,
          state |-> "new", faults |-> {}]

\* RtpCodecParameters::Matches.
Matches(a, b, checkPayloadType) == a.mime = b.mime /\ (checkPayloadType => a.pt = b.pt)

\* The first codec of a sequence that matches, as a set.
FirstMatch(codecs, c, checkPayloadType) ==
  LET at == {i \in 1..Len(codecs) : Matches(codecs[i], c, checkPayloadType)}
  IN  IF at = {} THEN {} ELSE {codecs[Min(at)]}

\* CheckCodec: RTX needs its apt.
CheckCodec(c) == c.mime = "rtx" => c.apt # 0

\* RtpCodecParameters::RtpCodecParameters does not throw: the members its
\* scope needs are there (an unknown kind or mime is "").
IsCodec(c, scope) ==
  /\ c.mime # "" /\ (scope \in {"room", "peer"} => c.kind # "")
  /\ scope \in {"peer", "receive"} => c.pt # 0
  /\ CheckCodec(c)
AreCodecs(codecs, scope) == \A i \in 1..Len(codecs) : IsCodec(codecs[i], scope)

ReduceRtcpFeedback(c, supported) == [c EXCEPT !.fb = @ \cap supported]
ReduceHeaderExtensions(ext, supported) == ext \cap supported

Distinct(codecs) == \A i, j \in 1..Len(codecs) : i # j => codecs[i].pt # codecs[j].pt

----------------------------------------------------------------------------
\* The room.

\* Room::Room: feature codecs and unsupported ones are left out.
RoomCodecs(codecs) ==
  LET kept == SelectSeq(codecs, LAMBDA c : c.mime \notin FeatureMimes /\ c.mime \in DOMAIN Supported)
  IN  [i \in 1..Len(kept) |-> [kept[i] EXCEPT !.fb = Supported[kept[i].mime]]]

\* The next dynamic payload type after place k that is not in use; its place.
NextDynamic(k, used) ==
  LET free == {i \in (k + 1)..Len(Dynamic) : Dynamic[i] \notin used}
  IN  IF free = {} THEN Len(Dynamic) + 1 ELSE Min(free)

(***************************************************************************)
(* One round of SetCapabilities.  A payload type that is given and unused   *)
(* stays; a video codec gets an RTX codec, whose payload type is looked up  *)
(* before that of the codec counts as used and never counts itself.         *)
(***************************************************************************)
AddCodec(a, c) ==
  LET keep == c.pt # 0 /\ c.pt \notin a.used
      i == IF keep THEN a.k ELSE NextDynamic(a.k, a.used)
      pt == IF keep \/ i > Len(Dynamic) THEN c.pt ELSE Dynamic[i]
      j == IF c.kind = "video" THEN NextDynamic(i, a.used) ELSE i
  IN  IF ~a.ok \/ pt = 0 \/ (c.kind = "video" /\ j > Len(Dynamic)) THEN [a EXCEPT !.ok = FALSE]
      ELSE [a EXCEPT !.room = Append(@, [c EXCEPT !.pt = pt]),
                     !.used = @ \cup {pt}, !.k = j,
                     !.rtx = IF c.kind # "video" THEN @
                             ELSE [p \in DOMAIN @ \cup {pt} |->
                                     IF p = pt THEN Dynamic[j] ELSE @[p]]]

SetCapabilities(codecs) ==
  FoldLeft(AddCodec, [ok |-> TRUE, room |-> << >>, used |-> {}, k |-> 0, rtx |-> << >>], codecs)

\* Room::Room; an error is thrown back to the request.
CreateRoom(codecs) ==
  /\ dict.state = "new"
  /\ LET a == SetCapabilities(RoomCodecs(codecs))
     IN  dict' = IF a.ok /\ AreCodecs(codecs, "room")
                 THEN [dict EXCEPT !.room = a.room, !.rtx = a.rtx, !.state = "room"]
                 ELSE [dict EXCEPT !.state = "refused"]

----------------------------------------------------------------------------
\* A peer.

\* OnPeerCapabilities: codecs the room does not have go, the others get the
\* room's payload type, and the RTX codecs of the video codecs are added.
PeerCodecs(codecs) ==
  LET kept == SelectSeq(codecs, LAMBDA c : FirstMatch(dict.room, c, FALSE) # {})
      with(c) == LET r == CHOOSE x \in FirstMatch(dict.room, c, FALSE) : TRUE
                 IN  ReduceRtcpFeedback([c EXCEPT !.pt = r.pt], r.fb)
      reduced == [i \in 1..Len(kept) |-> with(kept[i])]
      video == SelectSeq(reduced, LAMBDA c : c.kind = "video")
      rtx(c) == [kind |-> "video", mime |-> "rtx", apt |-> c.pt, fb |-> {},
                 pt |-> IF c.pt \in DOMAIN dict.rtx THEN dict.rtx[c.pt] ELSE 0]
  IN  reduced \o [i \in 1..Len(video) |-> rtx(video[i])]

\* PEER_SET_CAPABILITIES; the assertion is about a kind that is not the mime's.
PeerSetCapabilities(offer) ==
  /\ dict.state = "room"
  /\ IF ~Distinct(offer.codecs) \/ ~AreCodecs(offer.codecs, "peer") THEN UNCHANGED dict
     ELSE LET new == PeerCodecs(offer.codecs)
          IN  dict' = [dict EXCEPT !.peer = new, !.state = "peer",
                         !.ext = ReduceHeaderExtensions(offer.ext, Extensions),
                         !.faults = IF \E i \in 1..Len(new) : new[i].pt = 0
                                    THEN @ \cup {"missing RTX codec parameters"} ELSE @]

----------------------------------------------------------------------------
\* The parameters of a receiver: codecs, encodings (their payload types, 0
\* when not given) and header extensions.

\* ValidateCodecs.  The test for an apt that points nowhere stands inside the
\* loop over the codecs, where it is never true.
ValidateCodecs(codecs) ==
  /\ codecs # << >> /\ Distinct(codecs)
  /\ \A i, j \in 1..Len(codecs) :
       codecs[i].mime = "rtx" /\ codecs[j].pt = codecs[i].apt => codecs[j].mime # "rtx"

MediaPts(codecs) == {codecs[i].pt : i \in {j \in 1..Len(codecs) : codecs[j].mime \in MediaMimes}}
FirstMedia(codecs) ==
  codecs[Min({j \in 1..Len(codecs) : codecs[j].mime \in MediaMimes})].pt

\* Mutant: the payload types of encodings are not looked up.
ValidateEncodings_Trusting(p) ==
  IF MediaPts(p.codecs) = {} THEN {}
  ELSE LET d == FirstMedia(p.codecs)
       IN  {[p EXCEPT !.encodings = IF @ = << >> THEN <<d>>
                                    ELSE [i \in DOMAIN @ |-> IF @[i] = 0 THEN d ELSE @[i]]]}

\* ValidateEncodings: with its default for encodings without a codec, or the
\* empty set for an error.
ValidateEncodings(p) ==
  IF MediaPts(p.codecs) = {} \/ ~(Range(p.encodings) \subseteq MediaPts(p.codecs) \cup {0}) THEN {}
  ELSE LET d == FirstMedia(p.codecs)
       IN  {[p EXCEPT !.encodings = IF @ = << >> THEN <<d>>
                                    ELSE [i \in DOMAIN @ |-> IF @[i] = 0 THEN d ELSE @[i]]]}

\* RtpParameters::RtpParameters.
NewRtpParameters(p) ==
  IF AreCodecs(p.codecs, "receive") /\ ValidateCodecs(p.codecs)
  THEN ValidateEncodings(p) ELSE {}

\* ReduceCodecsAndEncodings, and the validation that ends it.
ReduceCodecsAndEncodings(p, caps) ==
  LET kept == SelectSeq(p.codecs, LAMBDA c : FirstMatch(caps, c, TRUE) # {})
      with(c) == ReduceRtcpFeedback(c, (CHOOSE x \in FirstMatch(caps, c, TRUE) : TRUE).fb)
      codecs == [i \in 1..Len(kept) |-> with(kept[i])]
      removed == {p.codecs[i].pt : i \in 1..Len(p.codecs)} \ {kept[i].pt : i \in 1..Len(kept)}
      r == [p EXCEPT !.codecs = codecs,
                     !.encodings = SelectSeq(@, LAMBDA e : e \notin removed)]
  IN  IF ValidateCodecs(codecs) THEN ValidateEncodings(r) ELSE {}

\* RTP_RECEIVER_RECEIVE up to OnRtpReceiverParameters; a request that is
\* refused at any point leaves the parameters before it.
Receive(p) ==
  /\ dict.state = "peer"
  /\ LET done == UNION {ReduceCodecsAndEncodings(n, dict.peer) : n \in NewRtpParameters(p)}
     IN  dict' = IF done = {} THEN dict
                 ELSE [dict EXCEPT !.params =
                         <<[(CHOOSE n \in done : TRUE) EXCEPT
                              !.ext = ReduceHeaderExtensions(@, dict.ext)]>>]

Next ==
  \/ \E codecs \in RoomOffers : CreateRoom(codecs)
  \/ \E offer \in PeerOffers : PeerSetCapabilities(offer)
  \/ \E p \in Parameters : Receive(p)

Spec == Init /\ [][Next]_dict

----------------------------------------------------------------------------
TypeOK ==
  /\ dict.state \in {"new", "room", "refused", "peer"} /\ Len(dict.params) <= 1
  /\ dict.ext \subseteq Extensions

(***************************************************************************)
(* What passed the room, the peer and the receiver can be handled: every    *)
(* codec in force has the payload type, and no more feedback than, the room *)
(* chose for it, every encoding names a media codec in force (so that       *)
(* GetCodecForEncoding never aborts), there is at least one, and the room's *)
(* media codecs differ in payload type while dynamic ones are left.         *)
(***************************************************************************)
CodecsAgree ==
  /\ \A i \in 1..Len(dict.params) : LET p == dict.params[i] IN
       /\ p.encodings # << >> /\ Range(p.encodings) \subseteq MediaPts(p.codecs)
       /\ p.ext \subseteq dict.ext
       /\ \A c \in Range(p.codecs) :
            \/ c.mime = "rtx" /\ c.pt \in Range(dict.rtx)
            \/ \E r \in Range(dict.room) : r.mime = c.mime /\ r.pt = c.pt /\ c.fb \subseteq r.fb
  /\ Distinct(dict.room)
=============================================================================
