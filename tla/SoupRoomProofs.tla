--------------------------- MODULE SoupRoomProofs ---------------------------
(* Theorems about SoupRoom, for every set of peers, transports and receivers: *)
(* the room's maps, the mesh of senders and the pointers between the objects  *)
(* stay right whatever order peers join, send, move and leave in.             *)
EXTENDS SoupRoom, FiniteSetTheorems, TLAPS

\* The sender the room makes to peer p for receiver r.
SenderTo(p, r) == [peer |-> p, receiver |-> r, serial |-> 1]

\* One sender to each peer of P for each receiver of R that is not its own.
Mesh(P, R) ==
  {s \in Senders : /\ s.serial = 1
                   /\ s.peer \in P /\ s.receiver \in R
                   /\ s.peer # Owner(s.receiver)}

\* The senders for the pairs of a peer and a receiver in todo.
SendersOfPairs(todo) == {s \in Senders : s.serial = 1 /\ <<s.peer, s.receiver>> \in todo}

----------------------------------------------------------------------------
(* The inductive invariant.                                                  *)

\* The live senders are exactly the mesh of the capable peers and the ready
\* receivers.
SendersExact == DOMAIN senders = Mesh(capable, Ready)

\* mapRtpSenderRtpReceiver and mapRtpReceiverRtpSenders say what the senders
\* themselves say.
MapsExact ==
  /\ DOMAIN receiverOf = DOMAIN senders
  /\ \A s \in DOMAIN senders : receiverOf[s] = s.receiver
  /\ DOMAIN sendersOf = Ready
  /\ \A r \in Ready : sendersOf[r] = {s \in DOMAIN senders : s.receiver = r}

\* A sender sends with the parameters its receiver has.
ParamsAgree ==
  \A s \in DOMAIN senders : senders[s].params = receivers[s.receiver].params

\* Transports that are pointed at exist and belong to the peer that points.
PointersAlive ==
  /\ \A r \in DOMAIN receivers :
       receivers[r].transport \in {t \in transports : Owner(t) = Owner(r)} \cup {None}
  /\ \A s \in DOMAIN senders :
       senders[s].transport \in {t \in transports : Owner(t) = s.peer} \cup {None}
  /\ \A h \in held : h[1] \in transports /\ h[2] \in Ready /\ Owner(h[1]) = Owner(h[2])
  /\ \A t \in transports : Owner(t) \in peers
  /\ \A r \in DOMAIN receivers : Owner(r) \in capable

\* The inductive invariant of the graph of peers, receivers and senders.
GraphInv == TypeOK /\ SendersExact /\ MapsExact /\ ParamsAgree /\ PointersAlive

\* The inductive invariant with the routing of media.
RoomInv == GraphInv /\ MediaFindsItsWay

----------------------------------------------------------------------------
(* Lemmas on the operators.                                                  *)

\* A first sender is named by its peer and its receiver.
LEMMA SendersAre ==
  /\ \A p \in Peers, r \in Receivers :
       /\ SenderTo(p, r) \in Senders
       /\ SenderTo(p, r).peer = p /\ SenderTo(p, r).receiver = r /\ SenderTo(p, r).serial = 1
  /\ \A s \in Senders : /\ s.peer \in Peers /\ s.receiver \in Receivers
                        /\ s.serial = 1 => s = SenderTo(s.peer, s.receiver)
BY DEF Senders, SenderTo

\* AddRtpSenderForRtpReceiver makes the sender nobody has yet.
LEMMA NewSendersAre ==
  ASSUME NEW todo \in SUBSET (Peers \X Receivers),
         \A x \in todo : SenderTo(x[1], x[2]) \notin DOMAIN senders
  PROVE  NewSenders(todo) = SendersOfPairs(todo)
<1>1. NewSenders(todo) = {SenderTo(x[1], x[2]) : x \in todo}
  BY DEF NewSenders, SenderTo
<1>2. \A x \in todo : x[1] \in Peers /\ x[2] \in Receivers /\ x = <<x[1], x[2]>>
  OBVIOUS
<1>3. NewSenders(todo) \subseteq Senders
  BY <1>1, <1>2, SendersAre
<1>4. ASSUME NEW s \in Senders
      PROVE  s \in NewSenders(todo) <=> s.serial = 1 /\ <<s.peer, s.receiver>> \in todo
  <2>1. ASSUME s \in NewSenders(todo) PROVE s.serial = 1 /\ <<s.peer, s.receiver>> \in todo
    <3>1. PICK x \in todo : s = SenderTo(x[1], x[2])
      BY <1>1, <2>1
    <3> QED BY <1>2, <3>1, SendersAre
  <2>2. ASSUME s.serial = 1, <<s.peer, s.receiver>> \in todo PROVE s \in NewSenders(todo)
    <3>1. s = SenderTo(s.peer, s.receiver)
      BY <2>2, SendersAre
    <3> DEFINE x == <<s.peer, s.receiver>>
    <3>2. x \in todo /\ s = SenderTo(x[1], x[2])
      BY <2>2, <3>1
    <3> QED BY <1>1, <3>2
  <2> QED BY <2>1, <2>2
<1> QED BY <1>3, <1>4 DEF SendersOfPairs

\* What AddRtpSenders does to the senders and to the maps: it adds the senders
\* for todo, and the maps keep saying what the senders say.
Added(todo, version, entries) ==
  /\ DOMAIN senders' = DOMAIN senders \cup SendersOfPairs(todo)
  /\ \A s \in SendersOfPairs(todo) :
       senders'[s] = [transport |-> None, params |-> version[s.receiver]]
  /\ \A s \in DOMAIN senders : s \notin SendersOfPairs(todo) /\ senders'[s] = senders[s]
  /\ DOMAIN receiverOf' = DOMAIN senders'
  /\ \A s \in DOMAIN senders' : receiverOf'[s] = s.receiver
  /\ DOMAIN sendersOf' = entries
  /\ \A r \in entries : sendersOf'[r] = {s \in DOMAIN senders' : s.receiver = r}

\* Adding the missing senders, as a room does for a new capable peer or a
\* receiver that becomes ready, keeps the graph and completes the mesh.
LEMMA AddedSenders ==
  ASSUME NEW todo \in SUBSET (Peers \X Receivers),
         NEW version, NEW entries,
         AddRtpSenders(todo, version, entries),
         GraphInv,
         \A x \in todo : SenderTo(x[1], x[2]) \notin DOMAIN senders /\ x[2] \in entries,
         Ready \subseteq entries
  PROVE  Added(todo, version, entries)
<1> DEFINE new == SendersOfPairs(todo)
<1>1. NewSenders(todo) = new
  BY NewSendersAre
<1>2. /\ senders' = [s \in DOMAIN senders \cup new |->
                       IF s \in new THEN [transport |-> None, params |-> version[s.receiver]]
                                    ELSE senders[s]]
      /\ receiverOf' = [s \in DOMAIN receiverOf \cup new |-> s.receiver]
      /\ sendersOf' = [r \in entries |->
                         (IF r \in DOMAIN sendersOf THEN sendersOf[r] ELSE {})
                         \cup {s \in new : s.receiver = r}]
  BY <1>1 DEF AddRtpSenders
<1>3. \A s \in new : s \notin DOMAIN senders
  <2> TAKE s \in new
  <2>1. s = SenderTo(s.peer, s.receiver)
    BY SendersAre DEF SendersOfPairs
  <2> DEFINE x == <<s.peer, s.receiver>>
  <2>2. x \in todo /\ x[1] = s.peer /\ x[2] = s.receiver
    BY DEF SendersOfPairs
  <2> QED BY <2>1, <2>2
<1> HIDE DEF new
<1>4. DOMAIN receiverOf = DOMAIN senders /\ DOMAIN sendersOf = Ready
      /\ \A r \in Ready : sendersOf[r] = {s \in DOMAIN senders : s.receiver = r}
  BY DEF GraphInv, MapsExact
<1>5. \A s \in DOMAIN senders : s.receiver \in Ready
  BY DEF GraphInv, SendersExact, Mesh
<1>6. DOMAIN senders' = DOMAIN senders \cup new
  BY <1>2
<1>7. ASSUME NEW r \in entries PROVE sendersOf'[r] = {s \in DOMAIN senders' : s.receiver = r}
  <2>1. sendersOf'[r] = (IF r \in Ready THEN sendersOf[r] ELSE {})
                        \cup {s \in new : s.receiver = r}
    BY <1>2, <1>4
  <2>2. (IF r \in Ready THEN sendersOf[r] ELSE {}) = {s \in DOMAIN senders : s.receiver = r}
    BY <1>4, <1>5
  <2> QED BY <1>6, <2>1, <2>2
<1>8. /\ \A s \in new : senders'[s] = [transport |-> None, params |-> version[s.receiver]]
      /\ \A s \in DOMAIN senders : s \notin new /\ senders'[s] = senders[s]
  BY <1>2, <1>3
<1>9. /\ DOMAIN receiverOf' = DOMAIN senders'
      /\ \A s \in DOMAIN senders' : receiverOf'[s] = s.receiver
      /\ DOMAIN sendersOf' = entries
  BY <1>2, <1>4
<1> QED BY <1>6, <1>7, <1>8, <1>9 DEF new, Added

\* What DestroySenders does, when the senders that end include all those of the
\* receivers that end.
LEMMA RemovedSenders ==
  ASSUME NEW gone, NEW rs, GraphInv, DestroySenders(gone, Ready \ rs)
  PROVE  /\ DOMAIN senders' = DOMAIN senders \ gone
         /\ \A s \in DOMAIN senders' : senders'[s] = senders[s]
         /\ DOMAIN receiverOf' = DOMAIN senders'
         /\ \A s \in DOMAIN senders' : receiverOf'[s] = s.receiver
         /\ DOMAIN sendersOf' = Ready \ rs
         /\ \A r \in Ready \ rs : sendersOf'[r] = {s \in DOMAIN senders' : s.receiver = r}
<1>1. /\ senders' = [s \in DOMAIN senders \ gone |-> senders[s]]
      /\ sendersOf' = [r \in Ready \ rs |-> sendersOf[r] \ gone]
      /\ receiverOf' = [s \in DOMAIN receiverOf \ gone |-> receiverOf[s]]
  BY DEF DestroySenders, Drop
<1>2. /\ DOMAIN receiverOf = DOMAIN senders
      /\ \A s \in DOMAIN senders : receiverOf[s] = s.receiver
      /\ DOMAIN sendersOf = Ready
      /\ \A r \in Ready : sendersOf[r] = {s \in DOMAIN senders : s.receiver = r}
  BY DEF GraphInv, MapsExact
<1> QED BY <1>1, <1>2

\* The senders that end with the receivers rs.
LEMMA SendersForAre ==
  ASSUME NEW rs, GraphInv
  PROVE  SendersFor(rs) = {s \in DOMAIN senders : s.receiver \in rs}
<1>1. /\ DOMAIN sendersOf = Ready
      /\ \A r \in Ready : sendersOf[r] = {s \in DOMAIN senders : s.receiver = r}
  BY DEF GraphInv, MapsExact
<1>2. \A s \in DOMAIN senders : s.receiver \in Ready
  BY DEF GraphInv, SendersExact, Mesh
<1> QED BY <1>1, <1>2 DEF SendersFor

\* The facts of the invariant that the steps below use.
GraphTyped ==
  /\ capable \subseteq peers /\ peers \subseteq Peers /\ transports \subseteq Transports
  /\ DOMAIN receivers \subseteq Receivers /\ Ready \subseteq DOMAIN receivers
  /\ \A r \in DOMAIN receivers :
       /\ receivers[r] \in [transport : Transports \cup {None}, params : 0..2]
       /\ Owner(r) \in capable
  /\ \A r \in Ready : receivers[r].params \in 1..2
  /\ \A s \in Senders : s \in DOMAIN senders <=>
       /\ s.serial = 1 /\ s.peer \in capable /\ s.receiver \in Ready
       /\ s.peer # Owner(s.receiver)
  /\ DOMAIN senders \subseteq Senders
  /\ \A s \in DOMAIN senders :
       /\ senders[s] \in [transport : Transports \cup {None}, params : 1..2]
       /\ s.serial = 1 /\ s.peer \in capable /\ s.receiver \in Ready
       /\ s.peer # Owner(s.receiver)
  /\ held \subseteq Transports \X Receivers

\* The types that the invariant gives.
LEMMA GraphFacts == GraphInv => GraphTyped
<1> SUFFICES ASSUME GraphInv PROVE GraphTyped
  OBVIOUS
<1>1. /\ capable \subseteq peers /\ peers \subseteq Peers /\ transports \subseteq Transports
      /\ DOMAIN receivers \subseteq Receivers /\ Ready \subseteq DOMAIN receivers
      /\ held \subseteq Transports \X Receivers
  BY DEF GraphInv, TypeOK, Ready
<1>2. /\ \A r \in DOMAIN receivers :
           /\ receivers[r] \in [transport : Transports \cup {None}, params : 0..2]
           /\ Owner(r) \in capable
  BY DEF GraphInv, TypeOK, PointersAlive
<1>4. \A r \in Ready : receivers[r].params \in 1..2
  <2> TAKE r \in Ready
  <2>1. receivers[r].params \in 0..2 /\ receivers[r].params # 0
    BY <1>2 DEF Ready
  <2> QED BY <2>1
<1>3. /\ DOMAIN senders = Mesh(capable, Ready)
      /\ \A s \in DOMAIN senders :
           senders[s] \in [transport : Transports \cup {None}, params : 1..2]
  BY DEF GraphInv, TypeOK, SendersExact
<1> QED BY <1>1, <1>2, <1>3, <1>4 DEF Mesh, GraphTyped

\* A step that leaves the graph alone.
LEMMA GraphFrame ==
  ASSUME GraphInv,
         UNCHANGED <<peers, capable, transports, receivers, senders, held, maps>>,
         room' \in {"none", "open", "loop closed"},
         audio' \in [on : BOOLEAN, levels : SUBSET Receivers]
  PROVE  GraphInv'
BY DEF GraphInv, TypeOK, SendersExact, MapsExact, ParamsAgree, PointersAlive, Ready, Mesh, maps

\* A peer that becomes capable gets a sender for every ready receiver.
LEMMA SetCapabilitiesInv ==
  ASSUME GraphInv, NEW p \in Peers, SetCapabilities(p)
  PROVE  GraphInv'
<1>g. GraphTyped
  BY GraphFacts
<1>1. /\ p \in peers /\ p \notin capable
      /\ capable' = capable \cup {p}
      /\ AddRtpSenders({p} \X Ready, Version, DOMAIN sendersOf \cup Ready)
      /\ UNCHANGED <<room, peers, transports, receivers, held, audio, fault>>
  BY <1>g DEF SetCapabilities, GraphTyped
<1>2. /\ DOMAIN sendersOf \cup Ready = Ready /\ Ready' = Ready
      /\ AddRtpSenders({p} \X Ready, Version, Ready)
  BY <1>g, <1>1 DEF GraphInv, MapsExact, Ready, GraphTyped
<1>3. {p} \X Ready \in SUBSET (Peers \X Receivers)
  BY <1>g DEF GraphTyped
<1>4. \A x \in {p} \X Ready : SenderTo(x[1], x[2]) \notin DOMAIN senders /\ x[2] \in Ready
  BY <1>g, <1>1, SendersAre DEF GraphTyped
<1> DEFINE new == SendersOfPairs({p} \X Ready)
<1>5. /\ DOMAIN senders' = DOMAIN senders \cup new
      /\ \A s \in new : senders'[s] = [transport |-> None, params |-> Version[s.receiver]]
      /\ \A s \in DOMAIN senders : s \notin new /\ senders'[s] = senders[s]
      /\ DOMAIN receiverOf' = DOMAIN senders'
      /\ \A s \in DOMAIN senders' : receiverOf'[s] = s.receiver
      /\ DOMAIN sendersOf' = Ready
      /\ \A r \in Ready : sendersOf'[r] = {s \in DOMAIN senders' : s.receiver = r}
  <2>1. Added({p} \X Ready, Version, Ready)
    BY <1>2, <1>3, <1>4, AddedSenders
  <2> QED BY <2>1 DEF Added
<1>6. \A s \in Senders : s \in new <=> s.serial = 1 /\ s.peer = p /\ s.receiver \in Ready
  BY <1>g DEF SendersOfPairs, GraphTyped
<1>7. new \subseteq Senders
  BY <1>g DEF SendersOfPairs, GraphTyped
<1> HIDE DEF new
<1>8. SendersExact'
  <2>1. ASSUME NEW s \in Senders
        PROVE  s \in DOMAIN senders' <=> /\ s.serial = 1
                                         /\ s.peer \in capable' /\ s.receiver \in Ready'
                                         /\ s.peer # Owner(s.receiver)
    BY <1>g, <1>1, <1>2, <1>5, <1>6 DEF GraphTyped
  <2>2. DOMAIN senders' \subseteq Senders
    BY <1>g, <1>5, <1>7 DEF GraphTyped
  <2> QED BY <2>1, <2>2 DEF SendersExact, Mesh
<1>9. MapsExact'
  BY <1>g, <1>2, <1>5 DEF MapsExact, GraphTyped
<1>10. \A s \in new : senders'[s] = [transport |-> None, params |-> receivers[s.receiver].params]
  BY <1>g, <1>5, <1>6, <1>7 DEF Version, GraphTyped
<1>11. ParamsAgree'
  BY <1>g, <1>1, <1>5, <1>10 DEF ParamsAgree, GraphInv, GraphTyped
<1>12. PointersAlive'
  BY <1>g, <1>1, <1>2, <1>5, <1>10 DEF PointersAlive, GraphInv, GraphTyped
<1>13. TypeOK'
  <2>1. \A s \in DOMAIN senders' : senders'[s] \in [transport : Transports \cup {None}, params : 1..2]
    BY <1>g, <1>5, <1>6, <1>7, <1>10 DEF GraphTyped
  <2>2. DOMAIN senders' \subseteq Senders
    BY <1>g, <1>5, <1>7 DEF GraphTyped
  <2>3. \A r \in DOMAIN sendersOf' : sendersOf'[r] \subseteq Senders
    BY <1>g, <1>5, <2>2 DEF GraphTyped
  <2>4. DOMAIN receiverOf' \subseteq Senders /\ DOMAIN sendersOf' \subseteq Receivers
    BY <1>g, <1>5, <2>2 DEF GraphTyped
  <2>5. TypeOK /\ capable' \subseteq peers'
    BY <1>1, <1>g DEF GraphInv, GraphTyped
  <2> QED BY <1>1, <2>1, <2>2, <2>3, <2>4, <2>5 DEF TypeOK
<1> QED BY <1>8, <1>9, <1>11, <1>12, <1>13 DEF GraphInv

\* New receiver parameters reach every sender of the receiver.
LEMMA ReceiveInv ==
  ASSUME GraphInv, NEW r \in Receivers, NEW v \in 1..2, NEW b \in BOOLEAN, Receive(r, v, b)
  PROVE  GraphInv'
<1>g. GraphTyped
  BY GraphFacts
<1>1. /\ r \in DOMAIN receivers
      /\ receivers' = [receivers EXCEPT ![r].params = v]
      /\ OnRtpReceiverParameters(r)
      /\ OnPeerRtpReceiverParameters(r, v)
      /\ UNCHANGED <<room, peers, capable, transports, audio>>
  BY <1>g DEF Receive, GraphTyped
<1>2. /\ DOMAIN receivers' = DOMAIN receivers
      /\ receivers'[r] = [receivers[r] EXCEPT !.params = v]
      /\ \A x \in DOMAIN receivers : x # r => receivers'[x] = receivers[x]
      /\ receivers'[r].params = v
      /\ receivers'[r].transport = receivers[r].transport
      /\ receivers'[r] \in [transport : Transports \cup {None}, params : 0..2]
  BY <1>g, <1>1 DEF GraphTyped
<1>3. Ready' = Ready \cup {r}
  BY <1>g, <1>1, <1>2 DEF Ready, GraphTyped
<1>4. Ready = DOMAIN sendersOf
  BY <1>g DEF GraphInv, MapsExact, GraphTyped
<1>5. /\ held' \subseteq Transports \X Receivers
      /\ \A h \in held' : h[1] \in transports /\ h[2] \in Ready' /\ Owner(h[1]) = Owner(h[2])
  <2>1. receivers[r].transport # None =>
           receivers[r].transport \in transports /\ Owner(receivers[r].transport) = Owner(r)
    BY <1>g, <1>1 DEF GraphInv, PointersAlive, GraphTyped
  <2> QED BY <1>g, <1>1, <1>3, <2>1 DEF GraphTyped, OnRtpReceiverParameters, GraphInv, PointersAlive
<1>6. \A x \in DOMAIN receivers' :
         /\ receivers'[x].transport \in {t \in transports : Owner(t) = Owner(x)} \cup {None}
         /\ receivers'[x] \in [transport : Transports \cup {None}, params : 0..2]
  BY <1>g, <1>2 DEF GraphInv, PointersAlive, GraphTyped
<1>7. ASSUME /\ SendersExact' /\ MapsExact' /\ ParamsAgree'
             /\ DOMAIN senders' \subseteq Senders
             /\ \A s \in DOMAIN senders' :
                  /\ senders'[s] \in [transport : Transports \cup {None}, params : 1..2]
                  /\ senders'[s].transport \in {t \in transports : Owner(t) = s.peer} \cup {None}
      PROVE  GraphInv'
  <2>1. PointersAlive'
    BY <1>g, <1>1, <1>2, <1>5, <1>6, <1>7 DEF PointersAlive, GraphInv, GraphTyped
  <2>2. DOMAIN sendersOf' = Ready' /\ \A x \in Ready' : sendersOf'[x] \subseteq Senders
    BY <1>g, <1>7 DEF MapsExact, GraphTyped
  <2>3. DOMAIN receiverOf' \subseteq Senders
    BY <1>g, <1>7 DEF MapsExact, GraphTyped
  <2>4. TypeOK'
    BY <1>g, <1>1, <1>2, <1>3, <1>5, <1>6, <1>7, <2>2, <2>3, ZenonT(60) DEF TypeOK, GraphInv, GraphTyped
  <2> QED BY <1>7, <2>1, <2>4 DEF GraphInv
<1>8. CASE r \in DOMAIN sendersOf
  <2>1. /\ senders' = [s \in DOMAIN senders |->
                         IF s \in sendersOf[r] THEN [senders[s] EXCEPT !.params = v]
                                               ELSE senders[s]]
        /\ UNCHANGED maps
    BY <1>g, <1>1, <1>8 DEF OnPeerRtpReceiverParameters, GraphTyped
  <2>2. Ready' = Ready /\ DOMAIN senders' = DOMAIN senders
    BY <1>g, <1>3, <1>4, <1>8, <2>1 DEF GraphTyped
  <2>3. \A s \in DOMAIN senders : s \in sendersOf[r] <=> s.receiver = r
    BY <1>g, <1>4, <1>8 DEF GraphInv, MapsExact, GraphTyped
  <2>4. \A s \in DOMAIN senders :
           /\ senders'[s].params = IF s.receiver = r THEN v ELSE senders[s].params
           /\ senders'[s].transport = senders[s].transport
           /\ senders'[s] \in [transport : Transports \cup {None}, params : 1..2]
    BY <1>g, <2>1, <2>3 DEF GraphTyped
  <2>5. SendersExact' /\ MapsExact'
    BY <1>g, <1>1, <2>1, <2>2 DEF SendersExact, MapsExact, GraphInv, Mesh, maps, GraphTyped
  <2>6. ParamsAgree'
    BY <1>g, <1>2, <2>2, <2>4 DEF ParamsAgree, GraphInv, GraphTyped
  <2>7. \A s \in DOMAIN senders' :
           /\ senders'[s] \in [transport : Transports \cup {None}, params : 1..2]
           /\ senders'[s].transport \in {t \in transports : Owner(t) = s.peer} \cup {None}
    BY <2>2, <2>4 DEF GraphInv, PointersAlive
  <2>8. DOMAIN senders' \subseteq Senders
    BY <1>g, <2>2 DEF GraphTyped
  <2> QED BY <1>7, <2>5, <2>6, <2>7, <2>8
<1>9. CASE r \notin DOMAIN sendersOf
  <2> DEFINE todo == (capable \ {Owner(r)}) \X {r}
             version == [Version EXCEPT ![r] = v]
             entries == Ready \cup {r}
  <2>1. AddRtpSenders(todo, version, entries)
    BY <1>g, <1>1, <1>4, <1>9 DEF OnPeerRtpReceiverParameters, GraphTyped
  <2>2. todo \in SUBSET (Peers \X Receivers)
    BY <1>g DEF GraphTyped
  <2>3. \A x \in todo : SenderTo(x[1], x[2]) \notin DOMAIN senders /\ x[2] \in entries
    BY <1>g, <1>4, <1>9, SendersAre DEF GraphTyped
  <2> DEFINE new == SendersOfPairs(todo)
  <2>4. /\ DOMAIN senders' = DOMAIN senders \cup new
        /\ \A s \in new : senders'[s] = [transport |-> None, params |-> version[s.receiver]]
        /\ \A s \in DOMAIN senders : s \notin new /\ senders'[s] = senders[s]
        /\ DOMAIN receiverOf' = DOMAIN senders'
        /\ \A s \in DOMAIN senders' : receiverOf'[s] = s.receiver
        /\ DOMAIN sendersOf' = entries
        /\ \A x \in entries : sendersOf'[x] = {s \in DOMAIN senders' : s.receiver = x}
    <3> HIDE DEF version, todo, entries
    <3>1. Ready \subseteq entries
      BY <1>g DEF entries, GraphTyped
    <3>2. Added(todo, version, entries)
      BY <2>1, <2>2, <2>3, <3>1, AddedSenders
    <3> QED BY <3>2 DEF Added
  <2>5. \A s \in Senders : s \in new <=>
           s.serial = 1 /\ s.peer \in capable \ {Owner(r)} /\ s.receiver = r
    BY <1>g DEF SendersOfPairs, GraphTyped
  <2>6. new \subseteq Senders
    BY <1>g DEF SendersOfPairs, GraphTyped
  <2> HIDE DEF new
  <2>7. version[r] = v
    BY <1>g, <1>1 DEF Version, GraphTyped
  <2>8. \A s \in new : senders'[s] = [transport |-> None, params |-> v]
    BY <1>g, <2>4, <2>5, <2>6, <2>7 DEF GraphTyped
  <2>9. SendersExact'
    <3>1. ASSUME NEW s \in Senders
          PROVE  s \in DOMAIN senders' <=> /\ s.serial = 1
                                           /\ s.peer \in capable' /\ s.receiver \in Ready'
                                           /\ s.peer # Owner(s.receiver)
      BY <1>g, <1>1, <1>3, <2>4, <2>5 DEF GraphTyped
    <3>2. DOMAIN senders' \subseteq Senders
      BY <1>g, <2>4, <2>6 DEF GraphTyped
    <3> QED BY <3>1, <3>2 DEF SendersExact, Mesh
  <2>10. MapsExact'
    BY <1>g, <1>3, <2>4 DEF MapsExact, GraphTyped
  <2>11. ParamsAgree'
    <3>1. \A s \in DOMAIN senders : s.receiver # r
      BY <1>g, <1>4, <1>9 DEF GraphTyped
    <3>2. ASSUME NEW s \in DOMAIN senders PROVE senders'[s].params = receivers'[s.receiver].params
      <4>1. s.receiver \in DOMAIN receivers /\ s.receiver # r
        BY <1>g, <3>1 DEF GraphTyped
      <4> QED BY <1>2, <2>4, <4>1 DEF ParamsAgree, GraphInv
    <3>3. ASSUME NEW s \in new PROVE senders'[s].params = receivers'[s.receiver].params
      BY <1>2, <2>5, <2>6, <2>8
    <3> QED BY <2>4, <3>2, <3>3 DEF ParamsAgree
  <2>12. \A s \in DOMAIN senders' :
            /\ senders'[s] \in [transport : Transports \cup {None}, params : 1..2]
            /\ senders'[s].transport \in {t \in transports : Owner(t) = s.peer} \cup {None}
    BY <1>g, <2>4, <2>8 DEF GraphInv, PointersAlive, GraphTyped
  <2>13. DOMAIN senders' \subseteq Senders
    BY <1>g, <2>4, <2>6 DEF GraphTyped
  <2> QED BY <1>7, <2>9, <2>10, <2>11, <2>12, <2>13
<1> QED BY <1>8, <1>9

\* A new peer, or a new transport of a peer of the room.
LEMMA CreateInv ==
  ASSUME GraphInv,
         \/ \E p \in Peers : CreatePeer(p)
         \/ \E t \in Transports : CreateTransport(t)
  PROVE  GraphInv'
<1>1. /\ peers \subseteq peers' /\ peers' \subseteq Peers
      /\ transports \subseteq transports' /\ transports' \subseteq Transports
      /\ \A t \in transports' : Owner(t) \in peers'
      /\ UNCHANGED <<room, capable, receivers, senders, held, maps, audio>>
  BY DEF CreatePeer, CreateTransport, GraphInv, TypeOK, PointersAlive
<1>2. Ready' = Ready
  BY <1>1 DEF Ready
<1>3. SendersExact' /\ MapsExact' /\ ParamsAgree'
  BY <1>1, <1>2 DEF GraphInv, SendersExact, MapsExact, ParamsAgree, Mesh, maps
<1>4. PointersAlive'
  BY <1>1, <1>2 DEF GraphInv, PointersAlive
<1>5. TypeOK'
  BY <1>1 DEF GraphInv, TypeOK, maps
<1> QED BY <1>3, <1>4, <1>5 DEF GraphInv

\* PEER_CREATE_RTP_RECEIVER: the receiver has no parameters, so no senders yet.
LEMMA CreateRtpReceiverInv ==
  ASSUME GraphInv, NEW r \in Receivers, NEW t \in Transports, CreateRtpReceiver(r, t)
  PROVE  GraphInv'
<1>g. GraphTyped
  BY GraphFacts
<1>1. /\ Owner(r) \in capable /\ r \notin DOMAIN receivers
      /\ t \in transports /\ Owner(t) = Owner(r)
      /\ receivers' = [x \in DOMAIN receivers \cup {r} |->
                         IF x = r THEN [transport |-> t, params |-> 0] ELSE receivers[x]]
      /\ UNCHANGED <<room, peers, capable, transports, senders, held, maps, audio>>
  BY DEF CreateRtpReceiver, NewReceiver
<1>2. /\ DOMAIN receivers' = DOMAIN receivers \cup {r}
      /\ receivers'[r] = [transport |-> t, params |-> 0]
      /\ \A x \in DOMAIN receivers : receivers'[x] = receivers[x]
  BY <1>1
<1>3. Ready' = Ready
  BY <1>2 DEF Ready
<1>4. SendersExact' /\ MapsExact'
  BY <1>1, <1>3 DEF GraphInv, SendersExact, MapsExact, Mesh, maps
<1>5. ParamsAgree'
  BY <1>g, <1>1, <1>2 DEF GraphInv, ParamsAgree, GraphTyped
<1>6. PointersAlive'
  BY <1>1, <1>2, <1>3 DEF GraphInv, PointersAlive
<1>7. \A x \in DOMAIN receivers' :
         receivers'[x] \in [transport : Transports \cup {None}, params : 0..2]
  BY <1>g, <1>2 DEF GraphTyped
<1>8. TypeOK'
  BY <1>1, <1>2, <1>7 DEF GraphInv, TypeOK, maps
<1> QED BY <1>4, <1>5, <1>6, <1>8 DEF GraphInv

\* RTP_RECEIVER_SET_TRANSPORT and RTP_SENDER_SET_TRANSPORT.
LEMMA SetTransportInv ==
  ASSUME GraphInv, NEW t \in Transports,
         \/ \E r \in Receivers : SetReceiverTransport(r, t)
         \/ \E s \in DOMAIN senders : SetSenderTransport(s, t)
  PROVE  GraphInv'
<1>g. GraphTyped
  BY GraphFacts
<1>1. ASSUME NEW r \in Receivers, SetReceiverTransport(r, t) PROVE GraphInv'
  <2>1. CASE receivers[r].params = 0
    <3>1. UNCHANGED <<room, peers, capable, transports, receivers, senders, held, maps, audio>>
      BY <1>1, <2>1 DEF SetReceiverTransport
    <3> QED BY <3>1, GraphFrame DEF GraphInv, TypeOK
  <2>2. CASE receivers[r].params # 0
    <3>1. /\ r \in DOMAIN receivers /\ t \in transports /\ Owner(t) = Owner(r)
          /\ receivers' = [receivers EXCEPT ![r].transport = t]
          /\ held' = held \cup {<<t, r>>}
          /\ UNCHANGED <<room, peers, capable, transports, senders, maps, audio>>
      BY <1>1, <2>2 DEF SetReceiverTransport
    <3>2. /\ DOMAIN receivers' = DOMAIN receivers
          /\ receivers'[r] = [receivers[r] EXCEPT !.transport = t]
          /\ \A x \in DOMAIN receivers : x # r => receivers'[x] = receivers[x]
      BY <3>1
    <3>3. /\ receivers'[r].transport = t /\ receivers'[r].params = receivers[r].params
          /\ receivers'[r] \in [transport : Transports \cup {None}, params : 0..2]
      BY <1>g, <3>1, <3>2 DEF GraphTyped
    <3>4. Ready' = Ready /\ r \in Ready
      BY <2>2, <3>1, <3>2, <3>3 DEF Ready
    <3>5. SendersExact' /\ MapsExact'
      BY <3>1, <3>4 DEF GraphInv, SendersExact, MapsExact, Mesh, maps
    <3>6. ParamsAgree'
      BY <1>g, <3>1, <3>2, <3>3 DEF GraphInv, ParamsAgree, GraphTyped
    <3>7. PointersAlive'
      <4>1. \A h \in held' : h[1] \in transports /\ h[2] \in Ready /\ Owner(h[1]) = Owner(h[2])
        BY <3>1, <3>4 DEF GraphInv, PointersAlive
      <4>2. \A x \in DOMAIN receivers' :
               receivers'[x].transport \in {y \in transports : Owner(y) = Owner(x)} \cup {None}
        BY <3>1, <3>2, <3>3 DEF GraphInv, PointersAlive
      <4> QED BY <3>1, <3>2, <3>4, <4>1, <4>2 DEF GraphInv, PointersAlive
    <3>8. TypeOK'
      <4>1. \A x \in DOMAIN receivers' :
               receivers'[x] \in [transport : Transports \cup {None}, params : 0..2]
        BY <1>g, <3>2, <3>3 DEF GraphTyped
      <4>2. held' \subseteq Transports \X Receivers
        BY <1>g, <3>1 DEF GraphTyped
      <4> QED BY <3>1, <3>2, <4>1, <4>2 DEF GraphInv, TypeOK, maps
    <3> QED BY <3>5, <3>6, <3>7, <3>8 DEF GraphInv
  <2> QED BY <2>1, <2>2
<1>2. ASSUME NEW s \in DOMAIN senders, SetSenderTransport(s, t) PROVE GraphInv'
  <2>1. /\ t \in transports /\ Owner(t) = s.peer
        /\ senders' = [senders EXCEPT ![s].transport = t]
        /\ UNCHANGED <<room, peers, capable, transports, receivers, held, maps, audio>>
    BY <1>2 DEF SetSenderTransport
  <2>2. /\ DOMAIN senders' = DOMAIN senders
        /\ senders'[s] = [senders[s] EXCEPT !.transport = t]
        /\ \A x \in DOMAIN senders : x # s => senders'[x] = senders[x]
    BY <2>1
  <2>3. /\ senders'[s].transport = t /\ senders'[s].params = senders[s].params
        /\ senders'[s] \in [transport : Transports \cup {None}, params : 1..2]
    BY <1>g, <2>1, <2>2 DEF GraphTyped
  <2>4. Ready' = Ready
    BY <2>1 DEF Ready
  <2>5. SendersExact' /\ MapsExact'
    BY <2>1, <2>2, <2>4 DEF GraphInv, SendersExact, MapsExact, Mesh, maps
  <2>6. ParamsAgree'
    BY <2>1, <2>2, <2>3 DEF GraphInv, ParamsAgree
  <2>7. PointersAlive'
    BY <2>1, <2>2, <2>3, <2>4 DEF GraphInv, PointersAlive
  <2>8. TypeOK'
    <3>1. \A x \in DOMAIN senders' :
             senders'[x] \in [transport : Transports \cup {None}, params : 1..2]
      BY <1>g, <2>2, <2>3 DEF GraphTyped
    <3> QED BY <2>1, <2>2, <3>1 DEF GraphInv, TypeOK, maps
  <2> QED BY <2>5, <2>6, <2>7, <2>8 DEF GraphInv
<1> QED BY <1>1, <1>2

\* TRANSPORT_CLOSE: whoever pointed at the transport points at none.
LEMMA CloseTransportInv ==
  ASSUME GraphInv, NEW t \in Transports, CloseTransport(t)
  PROVE  GraphInv'
<1>g. GraphTyped
  BY GraphFacts
<1>1. /\ transports' = transports \ {t}
      /\ held' = {h \in held : h[1] # t}
      /\ receivers' = [r \in DOMAIN receivers |->
                         IF receivers[r].transport = t
                         THEN [receivers[r] EXCEPT !.transport = None] ELSE receivers[r]]
      /\ senders' = [s \in DOMAIN senders |->
                       IF senders[s].transport = t
                       THEN [senders[s] EXCEPT !.transport = None] ELSE senders[s]]
      /\ UNCHANGED <<room, peers, capable, maps, audio>>
  BY DEF CloseTransport
<1>2. /\ DOMAIN receivers' = DOMAIN receivers
      /\ \A r \in DOMAIN receivers :
           /\ receivers'[r].params = receivers[r].params
           /\ receivers'[r].transport = IF receivers[r].transport = t THEN None
                                        ELSE receivers[r].transport
           /\ receivers'[r] \in [transport : Transports \cup {None}, params : 0..2]
  BY <1>g, <1>1 DEF GraphTyped
<1>3. /\ DOMAIN senders' = DOMAIN senders
      /\ \A s \in DOMAIN senders :
           /\ senders'[s].params = senders[s].params
           /\ senders'[s].transport = IF senders[s].transport = t THEN None
                                      ELSE senders[s].transport
           /\ senders'[s] \in [transport : Transports \cup {None}, params : 1..2]
  BY <1>g, <1>1 DEF GraphTyped
<1>4. Ready' = Ready
  BY <1>2 DEF Ready
<1>5. SendersExact' /\ MapsExact'
  BY <1>1, <1>3, <1>4 DEF GraphInv, SendersExact, MapsExact, Mesh, maps
<1>6. ParamsAgree'
  BY <1>g, <1>2, <1>3 DEF GraphInv, ParamsAgree, GraphTyped
<1>7. PointersAlive'
  BY <1>1, <1>2, <1>3, <1>4 DEF GraphInv, PointersAlive
<1>8. TypeOK'
  BY <1>1, <1>2, <1>3, ZenonT(60) DEF GraphInv, TypeOK, maps
<1> QED BY <1>5, <1>6, <1>7, <1>8 DEF GraphInv

\* Receivers rs end, and with them their senders and every sender to a peer of
\* P: what is left is again a mesh.
LEMMA ShrinkInv ==
  ASSUME GraphInv, NEW rs, NEW P,
         receivers' = Drop(receivers, rs),
         DestroySenders({s \in DOMAIN senders : s.receiver \in rs \/ s.peer \in P}, Ready \ rs),
         capable' = capable \ P,
         \A r \in DOMAIN receivers \ rs : Owner(r) \notin P,
         peers' \subseteq peers, capable' \subseteq peers',
         transports' \subseteq transports,
         \A t \in transports : Owner(t) \notin P => t \in transports',
         \A t \in transports' : Owner(t) \in peers',
         held' \subseteq held,
         \A h \in held' : h[1] \in transports' /\ h[2] \notin rs,
         UNCHANGED <<room, audio>>
  PROVE  GraphInv'
<1>g. GraphTyped
  BY GraphFacts
<1> DEFINE gone == {s \in DOMAIN senders : s.receiver \in rs \/ s.peer \in P}
<1>1. /\ DOMAIN receivers' = DOMAIN receivers \ rs
      /\ \A r \in DOMAIN receivers' : receivers'[r] = receivers[r]
  BY DEF Drop
<1>2. Ready' = Ready \ rs
  BY <1>1 DEF Ready
<1>3. /\ DOMAIN senders' = DOMAIN senders \ gone
      /\ \A s \in DOMAIN senders' : senders'[s] = senders[s]
      /\ DOMAIN receiverOf' = DOMAIN senders'
      /\ \A s \in DOMAIN senders' : receiverOf'[s] = s.receiver
      /\ DOMAIN sendersOf' = Ready \ rs
      /\ \A r \in Ready \ rs : sendersOf'[r] = {s \in DOMAIN senders' : s.receiver = r}
  BY RemovedSenders
<1>4. \A s \in DOMAIN senders : s \in DOMAIN senders' <=> s.receiver \notin rs /\ s.peer \notin P
  BY <1>3
<1>5. DOMAIN senders' \subseteq DOMAIN senders
  BY <1>3
<1> HIDE DEF gone
<1>6. SendersExact'
  <2>1. ASSUME NEW s \in Senders
        PROVE  s \in DOMAIN senders' <=> /\ s.serial = 1
                                         /\ s.peer \in capable' /\ s.receiver \in Ready'
                                         /\ s.peer # Owner(s.receiver)
    BY <1>g, <1>2, <1>4, <1>5 DEF GraphTyped
  <2>2. DOMAIN senders' \subseteq Senders
    BY <1>g, <1>5 DEF GraphTyped
  <2> QED BY <2>1, <2>2 DEF SendersExact, Mesh
<1>7. MapsExact'
  BY <1>2, <1>3 DEF MapsExact
<1>8. ParamsAgree'
  <2> SUFFICES ASSUME NEW s \in DOMAIN senders'
               PROVE  senders'[s].params = receivers'[s.receiver].params
    BY DEF ParamsAgree
  <2>1. s \in DOMAIN senders /\ s.receiver \in DOMAIN receivers'
    BY <1>g, <1>1, <1>4, <1>5 DEF GraphTyped
  <2> QED BY <1>1, <1>3, <2>1 DEF GraphInv, ParamsAgree
<1>9. PointersAlive'
  <2>1. ASSUME NEW r \in DOMAIN receivers'
        PROVE  /\ receivers'[r].transport \in {t \in transports' : Owner(t) = Owner(r)} \cup {None}
               /\ Owner(r) \in capable'
    <3>1. r \in DOMAIN receivers \ rs /\ receivers'[r] = receivers[r]
      BY <1>1
    <3> QED BY <3>1 DEF GraphInv, PointersAlive
  <2>2. ASSUME NEW s \in DOMAIN senders'
        PROVE  senders'[s].transport \in {t \in transports' : Owner(t) = s.peer} \cup {None}
    <3>1. s \in DOMAIN senders /\ senders'[s] = senders[s] /\ s.peer \notin P
      BY <1>3, <1>4, <1>5
    <3> QED BY <3>1 DEF GraphInv, PointersAlive
  <2>3. \A h \in held' : h[1] \in transports' /\ h[2] \in Ready' /\ Owner(h[1]) = Owner(h[2])
    BY <1>2 DEF GraphInv, PointersAlive
  <2> QED BY <2>1, <2>2, <2>3 DEF PointersAlive
<1>10. TypeOK'
  <2>1. \A s \in DOMAIN senders' :
           senders'[s] \in [transport : Transports \cup {None}, params : 1..2]
    BY <1>g, <1>3, <1>5 DEF GraphTyped
  <2>2. DOMAIN senders' \subseteq Senders
    BY <1>g, <1>5 DEF GraphTyped
  <2>3. /\ DOMAIN receivers' \subseteq Receivers
        /\ \A r \in DOMAIN receivers' :
             receivers'[r] \in [transport : Transports \cup {None}, params : 0..2]
    BY <1>g, <1>1 DEF GraphTyped
  <2>4. /\ DOMAIN receiverOf' \subseteq Senders /\ DOMAIN sendersOf' \subseteq Receivers
        /\ \A r \in DOMAIN sendersOf' : sendersOf'[r] \subseteq Senders
    BY <1>g, <1>3, <2>2 DEF GraphTyped
  <2>5. /\ peers' \subseteq Peers /\ transports' \subseteq Transports
        /\ held' \subseteq Transports \X Receivers
    BY <1>g DEF GraphTyped
  <2> QED BY <2>1, <2>2, <2>3, <2>4, <2>5 DEF GraphInv, TypeOK
<1> QED BY <1>6, <1>7, <1>8, <1>9, <1>10 DEF GraphInv

\* RTP_RECEIVER_CLOSE.
LEMMA CloseRtpReceiverInv ==
  ASSUME GraphInv, NEW r \in Receivers, CloseRtpReceiver(r)
  PROVE  GraphInv'
<1>g. GraphTyped
  BY GraphFacts
<1>1. /\ receivers' = Drop(receivers, {r})
      /\ held' = {h \in held : h[2] \notin {r}}
      /\ DestroySenders(SendersFor({r}), DOMAIN sendersOf \ {r})
      /\ UNCHANGED <<room, peers, capable, transports, audio>>
  BY DEF CloseRtpReceiver, CloseReceivers
<1>2. SendersFor({r}) = {s \in DOMAIN senders : s.receiver \in {r} \/ s.peer \in {}}
  BY SendersForAre
<1>3. DOMAIN sendersOf = Ready
  BY DEF GraphInv, MapsExact
<1>4. DestroySenders({s \in DOMAIN senders : s.receiver \in {r} \/ s.peer \in {}}, Ready \ {r})
  BY <1>1, <1>2, <1>3
<1>5. /\ capable' = capable \ {}
      /\ \A t \in transports' : Owner(t) \in peers'
      /\ \A h \in held' : h[1] \in transports' /\ h[2] \notin {r}
  BY <1>1 DEF GraphInv, PointersAlive
<1>6. capable' \subseteq peers' /\ held' \subseteq held
  BY <1>g, <1>1 DEF GraphTyped
<1> DEFINE rs == {r}
           P == {}
<1>7. /\ \A x \in DOMAIN receivers \ rs : Owner(x) \notin P
      /\ \A t \in transports : Owner(t) \notin P => t \in transports'
  BY <1>1
<1> HIDE DEF rs, P
<1> QED BY <1>1, <1>4, <1>5, <1>6, <1>7, ShrinkInv DEF rs, P

\* PEER_CLOSE: the peer's receivers, the senders to it, its transports.
LEMMA ClosePeerInv ==
  ASSUME GraphInv, NEW p \in Peers, ClosePeer(p)
  PROVE  GraphInv'
<1>g. GraphTyped
  BY GraphFacts
<1> DEFINE rs == {r \in DOMAIN receivers : Owner(r) = p}
           P == {p}
           gone == {s \in DOMAIN senders : s.receiver \in rs \/ s.peer \in P}
<1>1. /\ receivers' = Drop(receivers, rs)
      /\ DestroySenders(SendersFor(rs) \cup {s \in DOMAIN senders : s.peer = p},
                        DOMAIN sendersOf \ rs)
      /\ transports' = {t \in transports : Owner(t) # p}
      /\ held' = {h \in held : Owner(h[1]) # p}
      /\ peers' = peers \ {p}
      /\ capable' = capable \ {p}
      /\ UNCHANGED <<room, audio>>
  BY DEF ClosePeer, DestroyPeer
<1>2. SendersFor(rs) \cup {s \in DOMAIN senders : s.peer = p} = gone
  <2> HIDE DEF rs
  <2> QED BY SendersForAre
<1>3. DOMAIN sendersOf = Ready
  BY DEF GraphInv, MapsExact
<1>4. DestroySenders(gone, Ready \ rs)
  <2> HIDE DEF rs, gone
  <2> QED BY <1>1, <1>2, <1>3
<1>5. /\ \A x \in DOMAIN receivers \ rs : Owner(x) \notin P
      /\ peers' \subseteq peers /\ capable' \subseteq peers'
      /\ transports' \subseteq transports
      /\ \A t \in transports : Owner(t) \notin P => t \in transports'
      /\ \A t \in transports' : Owner(t) \in peers'
      /\ held' \subseteq held
      /\ \A h \in held' : h[1] \in transports' /\ h[2] \notin rs
  BY <1>g, <1>1 DEF GraphInv, PointersAlive, GraphTyped
<1> HIDE DEF rs
<1>6. capable' = capable \ P
  BY <1>1
<1> HIDE DEF P
<1> QED BY <1>1, <1>4, <1>5, <1>6, ShrinkInv

\* A map that was cleared has no entries.
LEMMA EmptyMap == DOMAIN << >> = {}
OBVIOUS

\* ROOM_CLOSE and Loop::Close: nothing is left.
LEMMA DestroyRoomInv ==
  ASSUME GraphInv, DestroyRoom, room' \in {"none", "open", "loop closed"}
  PROVE  GraphInv'
<1>1. /\ peers' = {} /\ capable' = {} /\ transports' = {} /\ held' = {}
      /\ DOMAIN receivers' = {} /\ DOMAIN senders' = {}
      /\ DOMAIN sendersOf' = {} /\ DOMAIN receiverOf' = {}
      /\ audio' \in [on : BOOLEAN, levels : SUBSET Receivers]
  <2>1. /\ peers' = {} /\ capable' = {} /\ transports' = {} /\ held' = {}
        /\ audio' \in [on : BOOLEAN, levels : SUBSET Receivers]
    BY DEF DestroyRoom
  <2>2. receivers' = << >> /\ senders' = << >> /\ sendersOf' = << >> /\ receiverOf' = << >>
    BY DEF DestroyRoom
  <2> QED BY <2>1, <2>2, EmptyMap
<1>2. Ready' = {}
  BY <1>1 DEF Ready
<1> QED BY <1>1, <1>2
      DEF GraphInv, TypeOK, SendersExact, Mesh, MapsExact, ParamsAgree, PointersAlive

----------------------------------------------------------------------------
(* The theorems.                                                             *)

\* Whoever is given a live sender finds its receiver, and a transport or none.
LEMMA SendersLeadHome ==
  ASSUME GraphInv, NEW s \in DOMAIN senders
  PROVE  FollowSender(s) = {}
<1>g. GraphTyped
  BY GraphFacts
<1>1. s \in DOMAIN receiverOf /\ receiverOf[s] = s.receiver
  BY DEF GraphInv, MapsExact
<1>2. s.receiver \in DOMAIN receivers
  BY <1>g DEF GraphTyped
<1>3. receivers[s.receiver].transport \in transports \cup {None}
  BY <1>2 DEF GraphInv, PointersAlive
<1> QED BY <1>1, <1>2, <1>3 DEF FollowSender

\* Packets, reports and full frame requests follow pointers that are good.
LEMMA MediaInv ==
  ASSUME GraphInv, MediaFindsItsWay,
         \/ \E h \in held : RtpPacket(h[1], h[2]) \/ RtcpFromSender(h[1], h[2])
         \/ \E s \in DOMAIN senders : RtcpFromReceiver(s)
         \/ \E t \in Transports : TransportConnected(t)
  PROVE  GraphInv' /\ MediaFindsItsWay'
<1>g. GraphTyped
  BY GraphFacts
<1>a. audio \in [on : BOOLEAN, levels : SUBSET Receivers] /\ room \in {"none", "open", "loop closed"}
  BY DEF GraphInv, TypeOK
<1>1. ASSUME NEW h \in held, RtpPacket(h[1], h[2]) \/ RtcpFromSender(h[1], h[2])
      PROVE  GraphInv' /\ MediaFindsItsWay'
  <2>1. h[2] \in Receivers /\ h[2] \in Ready /\ h[2] \in DOMAIN receivers
    BY <1>g DEF GraphInv, PointersAlive, GraphTyped
  <2>2. h[2] \in DOMAIN sendersOf /\ sendersOf[h[2]] \subseteq DOMAIN senders
    BY <2>1 DEF GraphInv, MapsExact
  <2>3. fault' = fault
    BY <1>1, <2>1, <2>2 DEF RtpPacket, RtcpFromSender
  <2>4. UNCHANGED <<room, peers, capable, transports, receivers, senders, held, maps>>
    BY <1>1 DEF RtpPacket, RtcpFromSender
  <2>5. audio' \in [on : BOOLEAN, levels : SUBSET Receivers]
    <3>1. CASE RtpPacket(h[1], h[2])
      BY <1>a, <2>1, <3>1 DEF RtpPacket
    <3>2. CASE RtcpFromSender(h[1], h[2])
      BY <1>a, <3>2 DEF RtcpFromSender
    <3> QED BY <1>1, <3>1, <3>2
  <2> QED BY <1>a, <2>3, <2>4, <2>5, GraphFrame DEF MediaFindsItsWay
<1>2. ASSUME NEW s \in DOMAIN senders, RtcpFromReceiver(s)
      PROVE  GraphInv' /\ MediaFindsItsWay'
  <2>1. fault' = fault
    BY <1>2, SendersLeadHome DEF RtcpFromReceiver
  <2>2. UNCHANGED <<room, peers, capable, transports, receivers, senders, held, maps, audio>>
    BY <1>2 DEF RtcpFromReceiver
  <2> QED BY <1>a, <2>1, <2>2, GraphFrame DEF MediaFindsItsWay
<1>3. ASSUME NEW t \in Transports, TransportConnected(t)
      PROVE  GraphInv' /\ MediaFindsItsWay'
  <2>1. fault' = fault
    <3>1. \A s \in {x \in DOMAIN senders : senders[x].transport = t} : FollowSender(s) = {}
      BY SendersLeadHome
    <3> QED BY <1>3, <3>1 DEF TransportConnected
  <2>2. UNCHANGED <<room, peers, capable, transports, receivers, senders, held, maps, audio>>
    BY <1>3 DEF TransportConnected
  <2> QED BY <1>a, <2>1, <2>2, GraphFrame DEF MediaFindsItsWay
<1> QED BY <1>1, <1>2, <1>3

(***************************************************************************)
(* Room.cpp's maps, the senders and the pointers between peers, transports *)
(* and receivers are exact after every request, packet and close, in any   *)
(* order, and no packet or report runs into a missing or a freed object.   *)
(***************************************************************************)
THEOREM RoomInvariant == Spec => []RoomInv
<1>1. Init => RoomInv
  <2> SUFFICES ASSUME Init PROVE RoomInv
    OBVIOUS
  <2>1. /\ peers = {} /\ capable = {} /\ transports = {} /\ held = {}
        /\ DOMAIN receivers = {} /\ DOMAIN senders = {}
        /\ DOMAIN sendersOf = {} /\ DOMAIN receiverOf = {}
    BY EmptyMap DEF Init
  <2>2. /\ room \in {"none", "open", "loop closed"} /\ fault = {}
        /\ audio \in [on : BOOLEAN, levels : SUBSET Receivers]
    BY DEF Init
  <2>3. Ready = {}
    BY <2>1 DEF Ready
  <2>4. GraphInv
    BY <2>1, <2>2, <2>3
       DEF GraphInv, TypeOK, SendersExact, Mesh, MapsExact, ParamsAgree, PointersAlive
  <2> QED BY <2>2, <2>4 DEF RoomInv, MediaFindsItsWay
<1>2. RoomInv /\ [Next]_vars => RoomInv'
  <2> SUFFICES ASSUME GraphInv, MediaFindsItsWay, [Next]_vars
               PROVE  GraphInv' /\ MediaFindsItsWay'
    BY DEF RoomInv
  <2>a. audio \in [on : BOOLEAN, levels : SUBSET Receivers]
        /\ room \in {"none", "open", "loop closed"}
    BY DEF GraphInv, TypeOK
  <2>f. ASSUME UNCHANGED fault PROVE MediaFindsItsWay'
    BY <2>f DEF MediaFindsItsWay
  <2>1. CASE UNCHANGED vars
    <3>1. UNCHANGED <<room, peers, capable, transports, receivers, senders, held, maps, audio, fault>>
      BY <2>1 DEF vars, maps
    <3> QED BY <2>a, <2>f, <3>1, GraphFrame
  <2>2. CASE CreateRoom \/ SetAudioLevelsEvent
    <3>1. /\ room' \in {"none", "open", "loop closed"}
          /\ audio' \in [on : BOOLEAN, levels : SUBSET Receivers]
          /\ UNCHANGED <<peers, capable, transports, receivers, senders, held, maps, fault>>
      <4>1. CASE CreateRoom
        BY <4>1 DEF CreateRoom
      <4>2. CASE SetAudioLevelsEvent
        <5>1. room' = room /\ audio' = [on |-> ~audio.on, levels |-> {}]
          BY <4>2 DEF SetAudioLevelsEvent
        <5>2. (~audio.on) \in BOOLEAN
          OBVIOUS
        <5> QED BY <2>a, <4>2, <5>1, <5>2 DEF SetAudioLevelsEvent
      <4> QED BY <2>2, <4>1, <4>2
    <3> QED BY <2>f, <3>1, GraphFrame
  <2>3. CASE AudioLevelsTimer
    <3>1. /\ room' \in {"none", "open", "loop closed"}
          /\ UNCHANGED <<peers, capable, transports, receivers, senders, held, maps>>
      BY <2>a, <2>3 DEF AudioLevelsTimer
    <3>2. audio' \in [on : BOOLEAN, levels : SUBSET Receivers]
      BY <2>a, <2>3 DEF AudioLevelsTimer
    <3>3. fault' = fault \/ fault' = fault \cup {"audio level of a freed receiver"}
      BY <2>3 DEF AudioLevelsTimer
    <3>4. MediaFindsItsWay'
      BY <3>3 DEF MediaFindsItsWay
    <3> QED BY <3>1, <3>2, <3>4, GraphFrame
  <2>4. CASE CloseRoom \/ CloseLoop
    <3>1. DestroyRoom /\ room' \in {"none", "open", "loop closed"} /\ UNCHANGED fault
      BY <2>4 DEF CloseRoom, CloseLoop, DestroyRoom
    <3> QED BY <2>f, <3>1, DestroyRoomInv
  <2>5. ASSUME NEW p \in Peers, CreatePeer(p) \/ ClosePeer(p) \/ SetCapabilities(p)
        PROVE  GraphInv' /\ MediaFindsItsWay'
    <3>1. UNCHANGED fault
      BY <2>5 DEF CreatePeer, ClosePeer, SetCapabilities
    <3> QED BY <2>5, <2>f, <3>1, CreateInv, ClosePeerInv, SetCapabilitiesInv
  <2>6. ASSUME NEW t \in Transports, CreateTransport(t) \/ CloseTransport(t)
        PROVE  GraphInv' /\ MediaFindsItsWay'
    <3>1. UNCHANGED fault
      BY <2>6 DEF CreateTransport, CloseTransport
    <3> QED BY <2>6, <2>f, <3>1, CreateInv, CloseTransportInv
  <2>7. ASSUME NEW r \in Receivers, NEW v \in 1..2, NEW b \in BOOLEAN, Receive(r, v, b)
        PROVE  GraphInv' /\ MediaFindsItsWay'
    <3>1. fault' = fault \/ fault' = fault \cup {"remb"}
      BY <2>7 DEF Receive
    <3>2. MediaFindsItsWay'
      BY <3>1 DEF MediaFindsItsWay
    <3> QED BY <2>7, <3>2, ReceiveInv
  <2>8. ASSUME NEW r \in Receivers, NEW t \in Transports,
               CreateRtpReceiver(r, t) \/ SetReceiverTransport(r, t)
        PROVE  GraphInv' /\ MediaFindsItsWay'
    <3>1. fault' = fault \/ fault' = fault \cup {"parameters"}
      BY <2>8 DEF CreateRtpReceiver, NewReceiver, SetReceiverTransport
    <3>2. MediaFindsItsWay'
      BY <3>1 DEF MediaFindsItsWay
    <3> QED BY <2>8, <3>2, CreateRtpReceiverInv, SetTransportInv
  <2>9. ASSUME NEW r \in Receivers, CloseRtpReceiver(r)
        PROVE  GraphInv' /\ MediaFindsItsWay'
    <3>1. UNCHANGED fault
      BY <2>9 DEF CloseRtpReceiver
    <3> QED BY <2>9, <2>f, <3>1, CloseRtpReceiverInv
  <2>10. ASSUME NEW s \in DOMAIN senders, NEW t \in Transports, SetSenderTransport(s, t)
         PROVE  GraphInv' /\ MediaFindsItsWay'
    <3>1. UNCHANGED fault
      BY <2>10 DEF SetSenderTransport
    <3> QED BY <2>10, <2>f, <3>1, SetTransportInv
  <2>11. CASE Down
    BY <2>1, <2>11 DEF Down
  <2> QED BY <2>1, <2>2, <2>3, <2>4, <2>5, <2>6, <2>7, <2>8, <2>9, <2>10, <2>11, MediaInv DEF Next
<1> QED BY <1>1, <1>2, PTL DEF Spec

\* Every map and pointer of the worker keeps its type.
THEOREM TypeOKHolds == Spec => []TypeOK
<1>1. RoomInv => TypeOK
  BY DEF RoomInv, GraphInv
<1> QED BY <1>1, RoomInvariant, PTL

\* The two maps of the room stay inverse and name exactly the live senders.
THEOREM MapsInverseHolds == Spec => []MapsInverse
<1>1. RoomInv => MapsInverse
  <2> SUFFICES ASSUME GraphInv PROVE MapsInverse
    BY DEF RoomInv
  <2>g. GraphTyped
    BY GraphFacts
  <2>1. /\ DOMAIN receiverOf = DOMAIN senders
        /\ \A s \in DOMAIN senders : receiverOf[s] = s.receiver
        /\ DOMAIN sendersOf = Ready
        /\ \A r \in Ready : sendersOf[r] = {s \in DOMAIN senders : s.receiver = r}
    BY DEF GraphInv, MapsExact
  <2>2. \A s \in DOMAIN senders : s.receiver \in Ready
    BY <2>g DEF GraphTyped
  <2> QED BY <2>1, <2>2 DEF MapsInverse
<1> QED BY <1>1, RoomInvariant, PTL

(***************************************************************************)
(* Every ready receiver has exactly one sender at each other capable peer, *)
(* with its current parameters, and none at its own.                       *)
(***************************************************************************)
THEOREM FullMeshHolds == Spec => []FullMesh
<1>1. RoomInv => FullMesh
  <2> SUFFICES ASSUME GraphInv, NEW r \in Ready
               PROVE  /\ \A p \in capable \ {Owner(r)} :
                           Cardinality({s \in DOMAIN senders : s.peer = p /\ s.receiver = r}) = 1
                      /\ \A s \in DOMAIN senders : s.receiver = r =>
                           s.peer # Owner(r) /\ senders[s].params = receivers[r].params
    BY DEF RoomInv, FullMesh
  <2>g. GraphTyped
    BY GraphFacts
  <2>1. ASSUME NEW p \in capable \ {Owner(r)}
        PROVE  Cardinality({s \in DOMAIN senders : s.peer = p /\ s.receiver = r}) = 1
    <3>1. p \in Peers /\ r \in Receivers
      BY <2>g DEF GraphTyped
    <3>2. SenderTo(p, r) \in DOMAIN senders
      BY <2>g, <3>1, SendersAre DEF GraphTyped
    <3>3. \A s \in DOMAIN senders : s.peer = p /\ s.receiver = r => s = SenderTo(p, r)
      BY <2>g, SendersAre DEF GraphTyped
    <3>4. {s \in DOMAIN senders : s.peer = p /\ s.receiver = r} = {SenderTo(p, r)}
      BY <3>1, <3>2, <3>3, SendersAre
    <3> QED BY <3>4, FS_Singleton
  <2>2. \A s \in DOMAIN senders : s.receiver = r =>
           s.peer # Owner(r) /\ senders[s].params = receivers[r].params
    BY <2>g DEF GraphTyped, GraphInv, ParamsAgree
  <2> QED BY <2>1, <2>2
<1> QED BY <1>1, RoomInvariant, PTL

\* Nothing points at a transport that is gone or at a receiver that is closed.
THEOREM NoStalePointersHolds == Spec => []NoStalePointers
<1>1. RoomInv => NoStalePointers
  <2> SUFFICES ASSUME GraphInv PROVE NoStalePointers
    BY DEF RoomInv
  <2>g. GraphTyped
    BY GraphFacts
  <2>1. \A s \in DOMAIN senders : s.peer \in capable /\ s.receiver \in DOMAIN receivers
    BY <2>g DEF GraphTyped
  <2> QED BY <2>1 DEF NoStalePointers, GraphInv, PointersAlive
<1> QED BY <1>1, RoomInvariant, PTL

\* The assertions of Room.cpp on packets and reports hold.
THEOREM MediaFindsItsWayHolds == Spec => []MediaFindsItsWay
<1>1. RoomInv => MediaFindsItsWay
  BY DEF RoomInv
<1> QED BY <1>1, RoomInvariant, PTL
=============================================================================
