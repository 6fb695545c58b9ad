------------------------------ MODULE SoupRoom ------------------------------
(***************************************************************************)
(* The object graph of the media worker in mediasoup_1/soup: the Loop, one  *)
(* Room, its Peers, and the Transports, RtpReceivers and RtpSenders that    *)
(* point at each other through raw pointers.  The worker is single          *)
(* threaded, so a channel request, a packet or a timer is one step, and a   *)
(* step includes every listener callback it fires.                          *)
(*                                                                          *)
(* A transport or receiver is named by its peer and its id in that peer.    *)
(* The id of a sender is drawn at random; here it is the peer it sends to,  *)
(* the receiver it sends for, and a serial that tells two such apart.       *)
(* A rejected request changes nothing in the graph and is a stuttering step.*)
(***************************************************************************)
EXTENDS Naturals, FiniteSets

CONSTANTS
  Peers,
  Transports,   \* pairs of a peer and the id of one of its transports
  Receivers     \* pairs of a peer and the id of one of its receivers

ASSUME IdsBelongToPeers ==
  \A x \in Transports \cup Receivers : x[1] \in Peers /\ x = <<x[1], x[2]>>

None == <<>>
Senders == [peer : Peers, receiver : Receivers, serial : 1..2]

Owner(x) == x[1]

VARIABLES
  room,         \* "none", "open", or "loop closed" once Loop::Close has run
  peers,        \* the peers of the room
  capable,      \* the peers with hasCapabilities
  transports,   \* Transports that exist
  receivers,    \* live receiver -> its transport and rtpParameters (0: null)
  senders,      \* live sender -> its transport and rtpParameters
  held,         \* <<t, r>>: the RtpListener of t has entries for r
  sendersOf,    \* mapRtpReceiverRtpSenders
  receiverOf,   \* mapRtpSenderRtpReceiver
  audio,        \* audioLevelsEventEnabled and the keys of mapRtpReceiverAudioLevels
  fault         \* null or freed pointers used, and assertions that failed

maps == <<sendersOf, receiverOf>>
vars == <<room, peers, capable, transports, receivers, senders, held,
          sendersOf, receiverOf, audio, fault>>

Drop(f, S) == [x \in DOMAIN f \ S |-> f[x]]

----------------------------------------------------------------------------

Init ==
  /\ room = "none"
  /\ peers = {} /\ capable = {} /\ transports = {} /\ held = {}
  /\ receivers = << >> /\ senders = << >>
  /\ sendersOf = << >> /\ receiverOf = << >>
  /\ audio = [on |-> FALSE, levels |-> {}]
  /\ fault = {}

CreateRoom ==
  /\ room = "none"
  /\ room' = "open"
  /\ audio' = [on |-> FALSE, levels |-> {}]
  /\ UNCHANGED <<peers, capable, transports, receivers, senders, held, maps, fault>>

CreatePeer(p) ==
  /\ room = "open" /\ p \notin peers
  /\ peers' = peers \cup {p}
  /\ UNCHANGED <<room, capable, transports, receivers, senders, held, maps, audio, fault>>

(***************************************************************************)
(* AddRtpSenderForRtpReceiver for every pair of a peer and a receiver in    *)
(* todo: the sender takes the receiver's parameters and has no transport,   *)
(* and both maps of the room learn of it.                                   *)
(***************************************************************************)
NewSenders(todo) ==
  {[peer |-> x[1], receiver |-> x[2],
    serial |-> IF [peer |-> x[1], receiver |-> x[2], serial |-> 1] \in DOMAIN senders
               THEN 2 ELSE 1] : x \in todo}

AddRtpSenders(todo, version, entries) ==
  LET new == NewSenders(todo)
  IN  /\ senders' = [s \in DOMAIN senders \cup new |->
                       IF s \in new
                       THEN [transport |-> None, params |-> version[s.receiver]]
                       ELSE senders[s]]
      /\ receiverOf' = [s \in DOMAIN receiverOf \cup new |-> s.receiver]
      /\ sendersOf' = [r \in entries |->
                         (IF r \in DOMAIN sendersOf THEN sendersOf[r] ELSE {})
                         \cup {s \in new : s.receiver = r}]

\* Mutant: OnPeerCapabilities does not skip the receivers without parameters.
Ready_All == DOMAIN receivers

Ready == {r \in DOMAIN receivers : receivers[r].params # 0}
Version == [r \in DOMAIN receivers |-> receivers[r].params]

\* PEER_SET_CAPABILITIES: a sender to this peer for every ready receiver.
SetCapabilities(p) ==
  /\ p \in peers \ capable
  /\ capable' = capable \cup {p}
  /\ AddRtpSenders({p} \X Ready, Version, DOMAIN sendersOf \cup Ready)
  /\ UNCHANGED <<room, peers, transports, receivers, held, audio, fault>>

CreateTransport(t) ==
  /\ Owner(t) \in peers /\ t \notin transports
  /\ transports' = transports \cup {t}
  /\ UNCHANGED <<room, peers, capable, receivers, senders, held, maps, audio, fault>>

NewReceiver(r, t) ==
  /\ r \notin DOMAIN receivers
  /\ t \in transports /\ Owner(t) = Owner(r)
  /\ receivers' = [x \in DOMAIN receivers \cup {r} |->
                     IF x = r THEN [transport |-> t, params |-> 0] ELSE receivers[x]]
  /\ UNCHANGED <<room, peers, capable, transports, senders, held, maps, audio, fault>>

\* Mutant: a peer may have receivers before its capabilities are set.
CreateRtpReceiver_Early(r, t) == Owner(r) \in peers /\ NewReceiver(r, t)

CreateRtpReceiver(r, t) == Owner(r) \in capable /\ NewReceiver(r, t)

\* Peer::OnRtpReceiverParameters: the transport in use, if any, routes to r.
OnRtpReceiverParameters(r) ==
  held' = IF receivers[r].transport = None THEN held
          ELSE held \cup {<<receivers[r].transport, r>>}

\* Room::OnPeerRtpReceiverParameters: a new receiver gets its senders, the
\* senders of a known one get its new parameters.
OnPeerRtpReceiverParameters(r, version) ==
  IF r \notin DOMAIN sendersOf
  THEN AddRtpSenders((capable \ {Owner(r)}) \X {r}, [Version EXCEPT ![r] = version],
                     DOMAIN sendersOf \cup {r})
  ELSE /\ senders' = [s \in DOMAIN senders |->
                        IF s \in sendersOf[r] THEN [senders[s] EXCEPT !.params = version]
                                              ELSE senders[s]]
       /\ UNCHANGED maps

(***************************************************************************)
(* RTP_RECEIVER_RECEIVE: new parameters, given to the listener of the       *)
(* receiver's transport if it has one, then to the room, which makes a      *)
(* sender for each other capable peer or updates the senders there are.     *)
(* CreateRtpStream enables REMB in the transport without asking whether     *)
(* there is one.                                                            *)
(***************************************************************************)
Receive(r, version, useRemb) ==
  /\ r \in DOMAIN receivers
  /\ version # receivers[r].params
  /\ receivers' = [receivers EXCEPT ![r].params = version]
  /\ OnRtpReceiverParameters(r)
  /\ OnPeerRtpReceiverParameters(r, version)
  /\ fault' = IF useRemb /\ receivers[r].transport = None
              THEN fault \cup {"remb"} ELSE fault
  /\ UNCHANGED <<room, peers, capable, transports, audio>>

\* RTP_RECEIVER_SET_TRANSPORT: AddRtpReceiver asserts that there are parameters.
SetReceiverTransport(r, t) ==
  /\ r \in DOMAIN receivers /\ t \in transports /\ Owner(t) = Owner(r)
  /\ IF receivers[r].params = 0
     THEN /\ fault' = fault \cup {"parameters"}
          /\ UNCHANGED <<receivers, held>>
     ELSE /\ receivers' = [receivers EXCEPT ![r].transport = t]
          /\ held' = held \cup {<<t, r>>}
          /\ UNCHANGED fault
  /\ UNCHANGED <<room, peers, capable, transports, senders, maps, audio>>

SetSenderTransport(s, t) ==
  /\ s \in DOMAIN senders /\ t \in transports /\ Owner(t) = s.peer
  /\ senders' = [senders EXCEPT ![s].transport = t]
  /\ UNCHANGED <<room, peers, capable, transports, receivers, held, maps, audio, fault>>

----------------------------------------------------------------------------
\* Closing.  Each operator is one Destroy with the callbacks it fires.

\* RtpSender::Destroy for each sender, and Room::OnPeerRtpSenderClosed.
DestroySenders(gone, entries) ==
  /\ senders' = Drop(senders, gone)
  /\ sendersOf' = [r \in entries |-> sendersOf[r] \ gone]
  /\ receiverOf' = Drop(receiverOf, gone)

\* Room::OnPeerRtpReceiverClosed: the senders that end with the receivers.
SendersFor(rs) == UNION {sendersOf[r] : r \in rs \cap DOMAIN sendersOf}

\* RtpReceiver::Destroy, Peer::OnRtpReceiverClosed: no transport routes to them.
CloseReceivers(rs) ==
  /\ receivers' = Drop(receivers, rs)
  /\ held' = {h \in held : h[2] \notin rs}
  /\ DestroySenders(SendersFor(rs), DOMAIN sendersOf \ rs)

\* Mutant: only the transport in use forgets the receiver.
CloseRtpReceiver_OneTransport(r) ==
  /\ r \in DOMAIN receivers
  /\ receivers' = Drop(receivers, {r})
  /\ held' = held \ {<<receivers[r].transport, r>>}
  /\ IF r \in DOMAIN sendersOf
     THEN /\ senders' = Drop(senders, sendersOf[r])
          /\ receiverOf' = Drop(receiverOf, sendersOf[r])
          /\ sendersOf' = Drop(sendersOf, {r})
     ELSE UNCHANGED <<senders, maps>>
  /\ UNCHANGED <<room, peers, capable, transports, audio, fault>>

\* Mutant: OnPeerRtpSenderClosed leaves the sender/receiver map alone.
CloseRtpReceiver_OneMap(r) ==
  /\ r \in DOMAIN receivers
  /\ receivers' = Drop(receivers, {r})
  /\ held' = {h \in held : h[2] # r}
  /\ senders' = IF r \in DOMAIN sendersOf THEN Drop(senders, sendersOf[r]) ELSE senders
  /\ sendersOf' = Drop(sendersOf, {r})
  /\ UNCHANGED <<room, peers, capable, transports, receiverOf, audio, fault>>

CloseRtpReceiver(r) ==
  /\ r \in DOMAIN receivers
  /\ CloseReceivers({r})
  /\ UNCHANGED <<room, peers, capable, transports, audio, fault>>

\* Mutant: OnTransportClosed forgets the senders.
CloseTransport_SendersKeepIt(t) ==
  /\ t \in transports
  /\ transports' = transports \ {t}
  /\ held' = {h \in held : h[1] # t}
  /\ receivers' = [r \in DOMAIN receivers |->
                     IF receivers[r].transport = t
                     THEN [receivers[r] EXCEPT !.transport = None] ELSE receivers[r]]
  /\ UNCHANGED <<room, peers, capable, senders, maps, audio, fault>>

\* TRANSPORT_CLOSE, or a fatal ICE or DTLS error: OnTransportClosed in the peer.
CloseTransport(t) ==
  /\ t \in transports
  /\ transports' = transports \ {t}
  /\ held' = {h \in held : h[1] # t}
  /\ receivers' = [r \in DOMAIN receivers |->
                     IF receivers[r].transport = t
                     THEN [receivers[r] EXCEPT !.transport = None] ELSE receivers[r]]
  /\ senders' = [s \in DOMAIN senders |->
                   IF senders[s].transport = t
                   THEN [senders[s] EXCEPT !.transport = None] ELSE senders[s]]
  /\ UNCHANGED <<room, peers, capable, maps, audio, fault>>

\* Peer::Destroy: its receivers (and their senders elsewhere), the senders to
\* it, its transports, and last the peer.
DestroyPeer(p) ==
  LET rs == {r \in DOMAIN receivers : Owner(r) = p}
  IN  /\ receivers' = Drop(receivers, rs)
      /\ DestroySenders(SendersFor(rs) \cup {s \in DOMAIN senders : s.peer = p},
                        DOMAIN sendersOf \ rs)
      /\ transports' = {t \in transports : Owner(t) # p}
      /\ held' = {h \in held : Owner(h[1]) # p}
      /\ peers' = peers \ {p}
      /\ capable' = capable \ {p}

ClosePeer(p) ==
  /\ p \in peers
  /\ DestroyPeer(p)
  /\ UNCHANGED <<room, audio, fault>>

\* Room::Destroy: every peer in turn, then the timer.
DestroyRoom ==
  /\ peers' = {} /\ capable' = {} /\ transports' = {} /\ held' = {}
  /\ receivers' = << >> /\ senders' = << >>
  /\ sendersOf' = << >> /\ receiverOf' = << >>
  /\ audio' = [on |-> FALSE, levels |-> {}]
  /\ UNCHANGED fault

CloseRoom == room = "open" /\ room' = "none" /\ DestroyRoom

\* A signal, or the channel closed by the other side: Loop::Close.
CloseLoop == room # "loop closed" /\ room' = "loop closed" /\ DestroyRoom

----------------------------------------------------------------------------
\* Media and timers.  These only follow pointers; a bad one is a fault.

\* An RTP packet on t is routed to r and forwarded to the senders of r.
RtpPacket(t, r) ==
  /\ <<t, r>> \in held
  /\ fault' = fault
       \cup (IF r \notin DOMAIN receivers THEN {"freed receiver"} ELSE {})
       \cup (IF r \notin DOMAIN sendersOf THEN {"receiver not in the map"}
             ELSE IF ~ sendersOf[r] \subseteq DOMAIN senders THEN {"freed sender"}
             ELSE {})
  /\ audio' = [audio EXCEPT !.levels = IF audio.on THEN @ \cup {r} ELSE @]
  /\ UNCHANGED <<room, peers, capable, transports, receivers, senders, held, maps>>

\* What the room asserts and follows when it is given the sender s.
FollowSender(s) ==
  IF s \notin DOMAIN receiverOf THEN {"sender not in the map"}
  ELSE IF receiverOf[s] \notin DOMAIN receivers THEN {"freed receiver"}
  ELSE IF receivers[receiverOf[s]].transport \notin transports \cup {None}
       THEN {"freed transport"} ELSE {}

\* A report or feedback from the remote end of a sender: forwarded to the
\* receiver the sender is for.
RtcpFromReceiver(s) ==
  /\ s \in DOMAIN senders
  /\ fault' = fault \cup FollowSender(s)
  /\ UNCHANGED <<room, peers, capable, transports, receivers, senders, held, maps, audio>>

\* A sender report on t, for the receiver its SSRC is routed to.
RtcpFromSender(t, r) ==
  /\ <<t, r>> \in held
  /\ fault' = IF r \in DOMAIN sendersOf THEN fault
              ELSE fault \cup {"receiver not in the map"}
  /\ UNCHANGED <<room, peers, capable, transports, receivers, senders, held, maps, audio>>

\* Peer::OnTransportConnected: a full frame for every sender over the transport.
TransportConnected(t) ==
  /\ t \in transports
  /\ fault' = fault \cup UNION {FollowSender(s) :
                                  s \in {x \in DOMAIN senders : senders[x].transport = t}}
  /\ UNCHANGED <<room, peers, capable, transports, receivers, senders, held, maps, audio>>

\* ROOM_SET_AUDIO_LEVELS_EVENT with a new value; an unchanged one returns early.
SetAudioLevelsEvent ==
  /\ room = "open"
  /\ audio' = [on |-> ~audio.on, levels |-> {}]
  /\ UNCHANGED <<room, peers, capable, transports, receivers, senders, held, maps, fault>>

\* Room::OnTimer reads the id of every receiver in the map of audio levels.
AudioLevelsTimer ==
  /\ room = "open" /\ audio.on
  /\ fault' = IF audio.levels \subseteq DOMAIN receivers THEN fault
              ELSE fault \cup {"audio level of a freed receiver"}
  /\ audio' = [audio EXCEPT !.levels = {}]
  /\ UNCHANGED <<room, peers, capable, transports, receivers, senders, held, maps>>

\* After a fault the worker has aborted, or may do anything: nothing more is
\* said.  After Loop::Close it is gone.
Down == (fault # {} \/ room = "loop closed") /\ UNCHANGED vars

Next ==
  \/ /\ fault = {} /\ room # "loop closed"
     /\ \/ CreateRoom \/ CloseRoom \/ CloseLoop \/ SetAudioLevelsEvent \/ AudioLevelsTimer
        \/ \E p \in Peers : CreatePeer(p) \/ ClosePeer(p) \/ SetCapabilities(p)
        \/ \E t \in Transports : CreateTransport(t) \/ CloseTransport(t)
        \/ \E r \in Receivers, v \in 1..2, b \in BOOLEAN : Receive(r, v, b)
        \/ \E r \in Receivers, t \in Transports : CreateRtpReceiver(r, t) \/ SetReceiverTransport(r, t)
        \/ \E h \in held : RtpPacket(h[1], h[2]) \/ RtcpFromSender(h[1], h[2])
        \/ \E t \in Transports : TransportConnected(t)
        \/ \E r \in Receivers : CloseRtpReceiver(r)
        \/ \E s \in DOMAIN senders, t \in Transports : SetSenderTransport(s, t)
        \/ \E s \in DOMAIN senders : RtcpFromReceiver(s)
  \/ Down

Spec == Init /\ [][Next]_vars

----------------------------------------------------------------------------
TypeOK ==
  /\ room \in {"none", "open", "loop closed"}
  /\ peers \subseteq Peers /\ capable \subseteq peers
  /\ transports \subseteq Transports
  /\ DOMAIN receivers \subseteq Receivers
  /\ \A r \in DOMAIN receivers :
       receivers[r] \in [transport : Transports \cup {None}, params : 0..2]
  /\ DOMAIN senders \subseteq Senders
  /\ \A s \in DOMAIN senders :
       senders[s] \in [transport : Transports \cup {None}, params : 1..2]
  /\ held \subseteq Transports \X Receivers
  /\ DOMAIN sendersOf \subseteq Receivers
  /\ \A r \in DOMAIN sendersOf : sendersOf[r] \subseteq Senders
  /\ DOMAIN receiverOf \subseteq Senders
  /\ audio \in [on : BOOLEAN, levels : SUBSET Receivers]

\* The two maps of the room are inverse to each other and name exactly the
\* live senders (Room.cpp keeps them in step over five callbacks).
MapsInverse ==
  /\ DOMAIN receiverOf = DOMAIN senders
  /\ \A s \in DOMAIN senders :
       receiverOf[s] \in DOMAIN sendersOf /\ s \in sendersOf[receiverOf[s]]
  /\ \A r \in DOMAIN sendersOf, s \in Senders :
       s \in sendersOf[r] => s \in DOMAIN receiverOf /\ receiverOf[s] = r

\* Whatever the order in which peers join, announce capabilities, send and
\* leave: every ready receiver has exactly one sender at every other capable
\* peer, none at its own, and the sender has the receiver's current parameters.
FullMesh ==
  \A r \in Ready :
    /\ \A p \in capable \ {Owner(r)} :
         Cardinality({s \in DOMAIN senders : s.peer = p /\ s.receiver = r}) = 1
    /\ \A s \in DOMAIN senders : s.receiver = r =>
         s.peer # Owner(r) /\ senders[s].params = receivers[r].params

\* Nothing outlives its owner, and a transport that is held is one the peer still has: a receiver or a sender
\* never keeps the pointer of a closed transport, and the listener of a
\* transport never keeps a closed receiver ("must remove the closed Transport
\* from all the RtpReceivers holding it", and the converse in OnRtpReceiverClosed).
NoStalePointers ==
  /\ \A r \in DOMAIN receivers :
       receivers[r].transport \in {t \in transports : Owner(t) = Owner(r)} \cup {None}
  /\ \A s \in DOMAIN senders :
       senders[s].transport \in {t \in transports : Owner(t) = s.peer} \cup {None}
  /\ \A h \in held : h[1] \in transports /\ h[2] \in Ready
  /\ \A t \in transports : Owner(t) \in peers
  /\ \A r \in DOMAIN receivers : Owner(r) \in capable
  /\ \A s \in DOMAIN senders : s.peer \in capable /\ s.receiver \in DOMAIN receivers

\* The assertions of Room.cpp on packets, reports and full frame requests
\* hold, and no freed object is followed from them.
MediaFindsItsWay ==
  fault \cap {"freed receiver", "freed sender", "freed transport",
              "receiver not in the map", "sender not in the map"} = {}

\* "Notify the listener (Room) so it can remove this RtpReceiver from its map":
\* the audio levels timer reads no closed receiver.  (Room.cpp clears only one
\* of its two maps keyed by receiver.)
AudioLevelsAlive == "audio level of a freed receiver" \notin fault
=============================================================================
