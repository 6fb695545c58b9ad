-------------------------- MODULE SoupPartsProofs --------------------------
(***************************************************************************)
(* Theorems about two parts of the media worker of mediasoup_1.             *)
(*                                                                          *)
(* SoupSockets, for any number of transports, sockets and connections and   *)
(* any range of ports: handles are closed once and in order, nothing freed  *)
(* is called, and a port belongs to one handle.                             *)
(*                                                                          *)
(* SoupListener, for every set of transports, receivers, parameters and     *)
(* SSRCs and any number of requests: the tables of an RtpListener hold      *)
(* exactly what the receivers on its transport have announced, and what     *)
(* receivers moved elsewhere have left.  A table is looked at as the set of *)
(* keys each receiver has in it.                                            *)
(***************************************************************************)
EXTENDS MCSoupParts, FiniteSetTheorems, WellFoundedInduction, TLAPS

----------------------------------------------------------------------------
(* The invariant, of any state s of the sockets.                            *)

\* A UDP socket or TCP server, with its port and the transport it belongs to.
SockRecords ==
    [kind : Nt!Kinds, port : Nt!Ports, owner : Owners, closing : BOOLEAN, uvClose : BOOLEAN]
\* A TCP connection, with the state of its libuv handle.
ConnRecords ==
    [sock : Socks, closing : BOOLEAN, byPeer : BOOLEAN, err : BOOLEAN,
     uv : {"open", "shutdown", "closing"}]

\* f is a function into S whose domain is in D.
Maps(f, D, S) ==
    /\ f = [x \in DOMAIN f |-> f[x]]
    /\ DOMAIN f \subseteq D
    /\ \A x \in DOMAIN f : f[x] \in S

\* s is a record of the network's state.
Shaped(s) ==
    s \in [owners : {s.owners}, free : {s.free}, socks : {s.socks}, conns : {s.conns},
           used : {s.used}, faults : {s.faults}]

\* Type correctness, as a predicate on the state.
Typed(s) ==
    /\ Shaped(s)
    /\ s.owners \subseteq Owners
    /\ s.used \subseteq Socks \cup Conns
    /\ s.free \in [Nt!Kinds -> SUBSET Nt!Ports]
    /\ Maps(s.socks, Socks, SockRecords)
    /\ Maps(s.conns, Conns, ConnRecords)

\* Identities are used once.
UsedOnce(s) == DOMAIN s.socks \subseteq s.used /\ DOMAIN s.conns \subseteq s.used

\* Connections are those of live TCP servers.
ConnsServed(s) ==
    \A c \in DOMAIN s.conns :
        s.conns[c].sock \in DOMAIN s.socks /\ s.socks[s.conns[c].sock].kind = "tcp"

\* A socket is closing from the end of its transport on; its handle is closed
\* when, and only when, the last of its connections is.
SockSettled(s, k) ==
    /\ s.socks[k].closing <=> s.socks[k].owner \notin s.owners
    /\ s.socks[k].closing /\ ~s.socks[k].uvClose =>
         Nt!ConnsOf(s, k) # {} /\ \A c \in Nt!ConnsOf(s, k) : s.conns[c].closing
    /\ s.socks[k].uvClose => s.socks[k].closing /\ Nt!ConnsOf(s, k) = {}

\* No handle was closed twice or used after its memory went, and what is
\* left of sockets and connections will be closed once.
Closes(s) ==
    /\ s.faults = {}
    /\ ConnsServed(s)
    /\ \A k \in DOMAIN s.socks : SockSettled(s, k)

\* The port of a live socket is taken, and taken by it alone.
Taken(s) ==
    \A k \in DOMAIN s.socks :
        /\ s.socks[k].port \notin s.free[s.socks[k].kind]
        /\ \A j \in DOMAIN s.socks \ {k} :
             s.socks[j].kind = s.socks[k].kind => s.socks[j].port # s.socks[k].port

\* The inductive invariant, as a predicate on the state.
Inv(s) == Typed(s) /\ UsedOnce(s) /\ Closes(s) /\ Taken(s)
\* The inductive invariant of the specification.
SocketsInv == Inv(net)

\* The invariant says what the runs check.
LEMMA InvImplies == SocketsInv => Nt!TypeOK /\ Nt!ClosesOnce /\ Nt!PortsExclusive
<1> SUFFICES ASSUME Inv(net) PROVE Nt!TypeOK /\ Nt!ClosesOnce /\ Nt!PortsExclusive
  BY DEF SocketsInv
<1>1. Nt!TypeOK
  BY DEF Inv, Typed, Maps, SockRecords, ConnRecords, Nt!TypeOK
<1>2. Nt!ClosesOnce
  BY DEF Inv, Closes, ConnsServed, SockSettled, Nt!ClosesOnce
<1>3. Nt!PortsExclusive
  BY DEF Inv, Taken, Nt!PortsExclusive
<1> QED BY <1>1, <1>2, <1>3

----------------------------------------------------------------------------
(* Ports.                                                                   *)

\* A set of numbers that is not empty has a smallest one.
LEMMA MinIn ==
    ASSUME NEW S \in SUBSET Nat, S # {}
    PROVE  Nt!Min(S) \in S /\ \A y \in S : Nt!Min(S) <= y
<1>1. IsWellFoundedOn(OpToRel(<, Nat), Nat)
  BY NatLessThanWellFounded, Zenon
<1>2. \E x \in S : \A y \in S : ~(<<y, x>> \in OpToRel(<, Nat))
  BY <1>1, WFMin, Zenon
<1>3. \A x, y \in Nat : ~(<<y, x>> \in OpToRel(<, Nat)) => x <= y
  BY SMT DEF OpToRel
<1>4. \E x \in S : \A y \in S : x <= y
  BY <1>2, <1>3, Zenon
<1> QED BY <1>4 DEF Nt!Min

\* The port that is found was marked available, and no other process has it.
LEMMA FoundPort ==
    ASSUME NEW free, NEW first, NEW foreign, NEW p \in Nt!GetRandomPort(free, first, foreign)
    PROVE  p \in free \ foreign
<1> DEFINE N == Nt!Cardinality(Nt!Ports)
           good == {i \in 1..N : Nt!Nth(first, i) \in free \ foreign}
<1>1. good \in SUBSET Nat
  OBVIOUS
<1>2. good # {} /\ p = Nt!Nth(first, Nt!Min(good))
  BY DEF Nt!GetRandomPort
<1>3. Nt!Min(good) \in good
  BY <1>1, <1>2, MinIn
<1> QED BY <1>2, <1>3

----------------------------------------------------------------------------
(* Connections.                                                             *)

\* What a step on connections leaves alone.
SocksStay(s, t) ==
    /\ Shaped(t)
    /\ t.owners = s.owners /\ t.free = s.free /\ t.socks = s.socks /\ t.faults = s.faults

\* The connection c of s has become r in t.
Edited(s, t, c, r) == SocksStay(s, t) /\ t.used = s.used /\ t.conns = [s.conns EXCEPT ![c] = r]

\* Connections may change, as long as they stay with their servers and do not
\* cease to be closing.
LEMMA EditedInv ==
    ASSUME NEW s, NEW t, Inv(s), NEW c \in DOMAIN s.conns, NEW r \in ConnRecords,
           r.sock = s.conns[c].sock, s.conns[c].closing => r.closing, Edited(s, t, c, r)
    PROVE  Inv(t)
<1>1. /\ DOMAIN t.conns = DOMAIN s.conns
      /\ t.conns = [d \in DOMAIN t.conns |-> t.conns[d]]
      /\ \A d \in DOMAIN s.conns : t.conns[d] = IF d = c THEN r ELSE s.conns[d]
  BY DEF Edited, Inv, Typed, Maps
<1>2. Typed(t)
  BY <1>1 DEF Inv, Typed, Maps, Edited, SocksStay
<1>3. UsedOnce(t)
  BY <1>1 DEF Inv, UsedOnce, Edited, SocksStay
<1>4. ConnsServed(t)
  BY <1>1 DEF Inv, Closes, ConnsServed, Edited, SocksStay
<1>5. \A k : Nt!ConnsOf(t, k) = Nt!ConnsOf(s, k)
  BY <1>1 DEF Nt!ConnsOf
<1>6. \A d \in DOMAIN s.conns : s.conns[d].closing => t.conns[d].closing
  BY <1>1
<1>7. ASSUME NEW k \in DOMAIN t.socks PROVE SockSettled(t, k)
  <2>1. SockSettled(s, k) /\ t.socks = s.socks /\ t.owners = s.owners
    BY DEF Inv, Closes, Edited, SocksStay
  <2>2. \A d \in Nt!ConnsOf(s, k) : s.conns[d].closing => t.conns[d].closing
    BY <1>6 DEF Nt!ConnsOf
  <2> QED BY <1>5, <2>1, <2>2 DEF SockSettled
<1>8. Taken(t)
  BY DEF Inv, Taken, Edited, SocksStay
<1>9. t.faults = {}
  BY DEF Inv, Closes, Edited, SocksStay
<1> QED BY <1>2, <1>3, <1>4, <1>7, <1>8, <1>9 DEF Inv, Closes

\* TcpConnection::Destroy.
LEMMA DestroyConnectionInv ==
    ASSUME NEW s, Inv(s), NEW c \in DOMAIN s.conns
    PROVE  Inv(Nt!DestroyConnection(s, c))
<1>1. CASE s.conns[c].closing
  BY <1>1 DEF Nt!DestroyConnection
<1>2. CASE ~s.conns[c].closing
  <2> DEFINE how == IF s.conns[c].byPeer \/ s.conns[c].err THEN "closing" ELSE "shutdown"
             r == [s.conns[c] EXCEPT !.closing = TRUE, !.uv = how]
             t == Nt!DestroyConnection(s, c)
  <2>1. s.conns[c] \in ConnRecords
    BY DEF Inv, Typed, Maps
  <2>2. r \in ConnRecords /\ r.sock = s.conns[c].sock /\ r.closing
    BY <2>1 DEF ConnRecords
  <2>3. Edited(s, t, c, r)
    BY <1>2 DEF Nt!DestroyConnection, Edited, SocksStay, Shaped, Inv, Typed
  <2> HIDE DEF r, t
  <2>4. Inv(t)
    BY <2>2, <2>3, EditedInv
  <2> QED BY <2>4 DEF t
<1> QED BY <1>1, <1>2

\* A connection learns that the peer has closed it, or of an error.
LEMMA FlaggedInv ==
    ASSUME NEW s, Inv(s), NEW c \in DOMAIN s.conns, NEW b \in BOOLEAN
    PROVE  /\ Inv([s EXCEPT !.conns[c].byPeer = b])
           /\ Inv([s EXCEPT !.conns[c].err = b])
           /\ Inv([s EXCEPT !.conns[c].uv = "closing"])
<1>0. s.conns[c] \in ConnRecords
  BY DEF Inv, Typed, Maps
<1> DEFINE r1 == [s.conns[c] EXCEPT !.byPeer = b]
           r2 == [s.conns[c] EXCEPT !.err = b]
           r3 == [s.conns[c] EXCEPT !.uv = "closing"]
           t1 == [s EXCEPT !.conns[c].byPeer = b]
           t2 == [s EXCEPT !.conns[c].err = b]
           t3 == [s EXCEPT !.conns[c].uv = "closing"]
<1>1. /\ r1 \in ConnRecords /\ r1.sock = s.conns[c].sock /\ r1.closing = s.conns[c].closing
      /\ r2 \in ConnRecords /\ r2.sock = s.conns[c].sock /\ r2.closing = s.conns[c].closing
      /\ r3 \in ConnRecords /\ r3.sock = s.conns[c].sock /\ r3.closing = s.conns[c].closing
  BY <1>0 DEF ConnRecords
<1>2. Edited(s, t1, c, r1)
  BY DEF Edited, SocksStay, Shaped, Inv, Typed
<1>3. Edited(s, t2, c, r2)
  BY DEF Edited, SocksStay, Shaped, Inv, Typed
<1>4. Edited(s, t3, c, r3)
  BY DEF Edited, SocksStay, Shaped, Inv, Typed
<1> HIDE DEF r1, r2, r3, t1, t2, t3
<1>5. Inv(t1)
  BY <1>1, <1>2, EditedInv
<1>6. Inv(t2)
  BY <1>1, <1>3, EditedInv
<1>7. Inv(t3)
  BY <1>1, <1>4, EditedInv
<1> QED BY <1>5, <1>6, <1>7 DEF t1, t2, t3

\* A connection is accepted by a server that is not closing.
LEMMA AcceptedInv ==
    ASSUME NEW s, NEW t, Inv(s), NEW k \in DOMAIN s.socks, NEW c \in Conns,
           s.socks[k].kind = "tcp", ~s.socks[k].closing, c \notin s.used,
           SocksStay(s, t), t.used = s.used \cup {c}, t.conns = Nt!With(s.conns, c, Nt!NewConnection(k))
    PROVE  Inv(t) /\ c \in DOMAIN t.conns
<1>1. /\ DOMAIN t.conns = DOMAIN s.conns \cup {c}
      /\ t.conns = [d \in DOMAIN t.conns |-> t.conns[d]]
      /\ t.conns[c] = Nt!NewConnection(k)
      /\ \A d \in DOMAIN s.conns : t.conns[d] = s.conns[d]
  <2>1. c \notin DOMAIN s.conns
    BY DEF Inv, UsedOnce
  <2> QED BY <2>1 DEF Nt!With
<1>2. Nt!NewConnection(k) \in ConnRecords /\ Nt!NewConnection(k).sock = k
  BY DEF Nt!NewConnection, ConnRecords, Inv, Typed, Maps
<1>3. Typed(t)
  BY <1>1, <1>2 DEF Inv, Typed, Maps, SocksStay
<1>4. UsedOnce(t)
  BY <1>1 DEF Inv, UsedOnce, SocksStay
<1>5. ConnsServed(t)
  BY <1>1, <1>2 DEF Inv, Closes, ConnsServed, SocksStay
<1>6. ASSUME NEW j \in DOMAIN t.socks PROVE SockSettled(t, j)
  <2>1. SockSettled(s, j) /\ t.socks = s.socks /\ t.owners = s.owners
    BY DEF Inv, Closes, SocksStay
  <2>2. CASE j = k
    BY <2>1, <2>2 DEF SockSettled
  <2>3. CASE j # k
    <3>1. Nt!ConnsOf(t, j) = Nt!ConnsOf(s, j) /\ \A d \in Nt!ConnsOf(s, j) : t.conns[d] = s.conns[d]
      BY <1>1, <1>2, <2>3 DEF Nt!ConnsOf
    <3> QED BY <2>1, <3>1 DEF SockSettled
  <2> QED BY <2>2, <2>3
<1>7. Taken(t)
  BY DEF Inv, Taken, SocksStay
<1>8. t.faults = {}
  BY DEF Inv, Closes, SocksStay
<1> QED BY <1>1, <1>3, <1>4, <1>5, <1>6, <1>7, <1>8 DEF Inv, Closes

\* The state s in which connection c is gone.
Gone(s, t, c) == SocksStay(s, t) /\ t.used = s.used /\ t.conns = Nt!Without(s.conns, c)

\* What goes with a connection.
LEMMA GoneConns ==
    ASSUME NEW s, NEW t, Inv(s), NEW c \in DOMAIN s.conns, Gone(s, t, c)
    PROVE  /\ DOMAIN t.conns = DOMAIN s.conns \ {c}
           /\ \A d \in DOMAIN t.conns : t.conns[d] = s.conns[d]
           /\ \A k : Nt!ConnsOf(t, k) = Nt!ConnsOf(s, k) \ {c}
           /\ Typed(t) /\ UsedOnce(t) /\ ConnsServed(t) /\ Taken(t) /\ t.faults = {}
<1>1. /\ DOMAIN t.conns = DOMAIN s.conns \ {c}
      /\ t.conns = [d \in DOMAIN t.conns |-> t.conns[d]]
      /\ \A d \in DOMAIN t.conns : t.conns[d] = s.conns[d]
  BY DEF Gone, Nt!Without, Nt!Restrict
<1>2. \A k : Nt!ConnsOf(t, k) = Nt!ConnsOf(s, k) \ {c}
  BY <1>1 DEF Nt!ConnsOf
<1>3. Typed(t)
  BY <1>1 DEF Inv, Typed, Maps, Gone, SocksStay
<1>4. UsedOnce(t)
  BY <1>1 DEF Inv, UsedOnce, Gone, SocksStay
<1>5. ConnsServed(t)
  BY <1>1 DEF Inv, Closes, ConnsServed, Gone, SocksStay
<1>6. Taken(t)
  BY DEF Inv, Taken, Gone, SocksStay
<1>7. t.faults = {}
  BY DEF Inv, Closes, Gone, SocksStay
<1> QED BY <1>1, <1>2, <1>3, <1>4, <1>5, <1>6, <1>7

\* A socket keeps its promises when a connection goes that it does not wait for.
LEMMA GoneSettled ==
    ASSUME NEW s, NEW t, Inv(s), NEW c \in DOMAIN s.conns, Gone(s, t, c),
           NEW k \in DOMAIN s.socks, s.socks[k].closing => Nt!ConnsOf(s, k) # {c}
    PROVE  SockSettled(t, k)
<1>0. /\ DOMAIN t.conns = DOMAIN s.conns \ {c}
      /\ \A d \in DOMAIN t.conns : t.conns[d] = s.conns[d]
      /\ \A j : Nt!ConnsOf(t, j) = Nt!ConnsOf(s, j) \ {c}
      /\ Typed(t) /\ UsedOnce(t) /\ ConnsServed(t) /\ Taken(t) /\ t.faults = {}
  BY GoneConns
<1>1. SockSettled(s, k) /\ t.socks = s.socks /\ t.owners = s.owners
  BY DEF Inv, Closes, Gone, SocksStay
<1>2. Nt!ConnsOf(t, k) = Nt!ConnsOf(s, k) \ {c}
  BY <1>0
<1>3. \A d \in Nt!ConnsOf(t, k) : t.conns[d] = s.conns[d]
  BY <1>0 DEF Nt!ConnsOf
<1> QED BY <1>1, <1>2, <1>3 DEF SockSettled

----------------------------------------------------------------------------
(* Sockets open and close.                                                  *)

\* The constructors: a new socket gets a port that was available.
LEMMA NewSockInv ==
    ASSUME NEW s, Inv(s), NEW k \in Socks, k \notin s.used, NEW kind \in Nt!Kinds,
           NEW owner \in s.owners, NEW p \in s.free[kind]
    PROVE  Inv(Nt!NewSock(s, k, kind, owner, p))
<1> DEFINE r == [kind |-> kind, port |-> p, owner |-> owner, closing |-> FALSE, uvClose |-> FALSE]
           t == Nt!NewSock(s, k, kind, owner, p)
<1>0. s.free \in [Nt!Kinds -> SUBSET Nt!Ports] /\ Shaped(s)
  BY DEF Inv, Typed
<1>1. /\ Shaped(t) /\ t.owners = s.owners /\ t.conns = s.conns /\ t.faults = s.faults
      /\ t.used = s.used \cup {k}
      /\ t.free = [s.free EXCEPT ![kind] = s.free[kind] \ {p}]
      /\ t.socks = Nt!With(s.socks, k, r)
  BY <1>0 DEF Nt!NewSock, Shaped
<1>2. r \in SockRecords
  BY <1>0 DEF SockRecords, Inv, Typed
<1>3. r.kind = kind /\ r.port = p /\ r.owner = owner /\ ~r.closing /\ ~r.uvClose
  OBVIOUS
<1> HIDE DEF r, t
<1>4. /\ k \notin DOMAIN s.socks
      /\ DOMAIN t.socks = DOMAIN s.socks \cup {k}
      /\ t.socks = [j \in DOMAIN t.socks |-> t.socks[j]]
      /\ t.socks[k] = r
      /\ \A j \in DOMAIN s.socks : t.socks[j] = s.socks[j]
  <2>1. k \notin DOMAIN s.socks
    BY DEF Inv, UsedOnce
  <2> QED BY <1>1, <2>1 DEF Nt!With
<1>5. /\ t.free \in [Nt!Kinds -> SUBSET Nt!Ports]
      /\ \A h \in Nt!Kinds : t.free[h] = IF h = kind THEN s.free[h] \ {p} ELSE s.free[h]
  BY <1>0, <1>1
<1>6. Typed(t)
  BY <1>1, <1>2, <1>4, <1>5 DEF Inv, Typed, Maps
<1>7. UsedOnce(t)
  BY <1>1, <1>4 DEF Inv, UsedOnce
<1>8. ConnsServed(t)
  BY <1>1, <1>4 DEF Inv, Closes, ConnsServed
<1>9. ASSUME NEW j \in DOMAIN t.socks PROVE SockSettled(t, j)
  <2>1. Nt!ConnsOf(t, j) = Nt!ConnsOf(s, j)
    BY <1>1 DEF Nt!ConnsOf
  <2>2. CASE j = k
    BY <1>1, <1>3, <1>4, <2>2 DEF SockSettled
  <2>3. CASE j # k
    <3>1. SockSettled(s, j) /\ t.socks[j] = s.socks[j]
      BY <1>4, <2>3 DEF Inv, Closes
    <3> QED BY <1>1, <2>1, <3>1 DEF SockSettled
  <2> QED BY <2>2, <2>3
<1>10. Taken(t)
  <2>1. \A j \in DOMAIN s.socks : /\ s.socks[j].kind \in Nt!Kinds
                                  /\ s.socks[j].port \notin s.free[s.socks[j].kind]
    BY DEF Inv, Typed, Maps, SockRecords, Taken
  <2>2. \A j \in DOMAIN s.socks : s.socks[j].kind = kind => s.socks[j].port # p
    BY <2>1
  <2>3. ASSUME NEW j \in DOMAIN t.socks PROVE t.socks[j].port \notin t.free[t.socks[j].kind]
    <3>1. CASE j = k
      BY <1>3, <1>4, <1>5, <3>1
    <3>2. CASE j # k
      <4>1. j \in DOMAIN s.socks /\ t.socks[j] = s.socks[j]
        BY <1>4, <3>2
      <4>2. t.free[s.socks[j].kind] \subseteq s.free[s.socks[j].kind]
        BY <1>5, <2>1, <4>1
      <4> QED BY <2>1, <4>1, <4>2
    <3> QED BY <3>1, <3>2
  <2>4. ASSUME NEW i \in DOMAIN t.socks, NEW j \in DOMAIN t.socks \ {i},
               t.socks[j].kind = t.socks[i].kind
        PROVE  t.socks[j].port # t.socks[i].port
    <3>1. CASE i = k
      BY <1>3, <1>4, <2>2, <2>4, <3>1
    <3>2. CASE j = k
      BY <1>3, <1>4, <2>2, <2>4, <3>2
    <3>3. CASE i # k /\ j # k
      BY <1>4, <2>4, <3>3 DEF Inv, Taken
    <3> QED BY <3>1, <3>2, <3>3
  <2> QED BY <2>3, <2>4 DEF Taken
<1>11. t.faults = {}
  BY <1>1 DEF Inv, Closes
<1>12. Inv(t)
  BY <1>6, <1>7, <1>8, <1>9, <1>10, <1>11 DEF Inv, Closes
<1> QED BY <1>12 DEF t

\* A constructor that fails keeps the port.
LEMMA LostPortInv ==
    ASSUME NEW s, Inv(s), NEW kind \in Nt!Kinds, NEW p
    PROVE  Inv([s EXCEPT !.free[kind] = @ \ {p}])
<1> DEFINE t == [s EXCEPT !.free[kind] = @ \ {p}]
<1>0. s.free \in [Nt!Kinds -> SUBSET Nt!Ports] /\ Shaped(s)
  BY DEF Inv, Typed
<1>1. /\ Shaped(t) /\ t.owners = s.owners /\ t.conns = s.conns /\ t.faults = s.faults
      /\ t.used = s.used /\ t.socks = s.socks
      /\ t.free = [s.free EXCEPT ![kind] = s.free[kind] \ {p}]
  BY <1>0 DEF Shaped
<1> HIDE DEF t
<1>2. t.free \in [Nt!Kinds -> SUBSET Nt!Ports] /\ \A h \in Nt!Kinds : t.free[h] \subseteq s.free[h]
  BY <1>0, <1>1
<1>3. Typed(t) /\ UsedOnce(t)
  BY <1>1, <1>2 DEF Inv, Typed, UsedOnce
<1>4. Closes(t)
  BY <1>1 DEF Inv, Closes, ConnsServed, SockSettled, Nt!ConnsOf
<1>5. Taken(t)
  <2>1. \A j \in DOMAIN s.socks : s.socks[j].kind \in Nt!Kinds
    BY DEF Inv, Typed, Maps, SockRecords
  <2> QED BY <1>1, <1>2, <2>1 DEF Inv, Taken
<1>6. Inv(t)
  BY <1>3, <1>4, <1>5 DEF Inv
<1> QED BY <1>6 DEF t

\* The handle is closed: the port is given back and the object deleted.
LEMMA OnUvSockClosedInv ==
    ASSUME NEW s, Inv(s), NEW k \in DOMAIN s.socks, s.socks[k].uvClose
    PROVE  Inv(Nt!OnUvSockClosed(s, k))
<1> DEFINE t == Nt!OnUvSockClosed(s, k)
           kind == s.socks[k].kind
           p == s.socks[k].port
<1>0. s.free \in [Nt!Kinds -> SUBSET Nt!Ports] /\ Shaped(s) /\ kind \in Nt!Kinds /\ p \in Nt!Ports
  BY DEF Inv, Typed, Maps, SockRecords
<1>1. /\ Shaped(t) /\ t.owners = s.owners /\ t.conns = s.conns /\ t.faults = s.faults
      /\ t.used = s.used
      /\ t.free = [s.free EXCEPT ![kind] = s.free[kind] \cup {p}]
      /\ t.socks = Nt!Without(s.socks, k)
  BY <1>0 DEF Nt!OnUvSockClosed, Nt!UserOnUdpSocketClosed, Nt!UserOnSockClosed, Shaped
<1> HIDE DEF t
<1>2. /\ t.free \in [Nt!Kinds -> SUBSET Nt!Ports]
      /\ \A h \in Nt!Kinds : t.free[h] = IF h = kind THEN s.free[h] \cup {p} ELSE s.free[h]
  <2> DEFINE K == Nt!Kinds
             P == Nt!Ports
             f == s.free
             g == t.free
             c == f[kind] \cup {p}
  <2>1. f \in [K -> SUBSET P] /\ kind \in K /\ p \in P /\ g = [f EXCEPT ![kind] = c]
    BY <1>0, <1>1
  <2> HIDE DEF K, P, f, g, kind, p
  <2>2. c \in SUBSET P
    BY <2>1
  <2> HIDE DEF c
  <2>3. g \in [K -> SUBSET P] /\ \A h \in K : g[h] = IF h = kind THEN c ELSE f[h]
    BY <2>1, <2>2
  <2> QED BY <2>3 DEF K, P, f, g, c
<1>3. /\ DOMAIN t.socks = DOMAIN s.socks \ {k}
      /\ t.socks = [j \in DOMAIN t.socks |-> t.socks[j]]
      /\ \A j \in DOMAIN t.socks : t.socks[j] = s.socks[j]
  BY <1>1 DEF Nt!Without, Nt!Restrict
<1>4. Typed(t)
  BY <1>1, <1>2, <1>3 DEF Inv, Typed, Maps
<1>5. UsedOnce(t)
  BY <1>1, <1>3 DEF Inv, UsedOnce
<1>6. \A c \in DOMAIN s.conns : s.conns[c].sock # k
  BY DEF Inv, Closes, SockSettled, Nt!ConnsOf
<1>7. ConnsServed(t)
  BY <1>1, <1>3, <1>6 DEF Inv, Closes, ConnsServed
<1>8. \A j \in DOMAIN t.socks : SockSettled(t, j)
  BY <1>1, <1>3 DEF Inv, Closes, SockSettled, Nt!ConnsOf
<1>9. Taken(t)
  <2>1. \A j \in DOMAIN s.socks : s.socks[j].kind \in Nt!Kinds
    BY DEF Inv, Typed, Maps, SockRecords
  <2>2. \A j \in DOMAIN t.socks : s.socks[j].kind = kind => s.socks[j].port # p
    BY <1>3 DEF Inv, Taken
  <2>3. ASSUME NEW j \in DOMAIN t.socks PROVE t.socks[j].port \notin t.free[t.socks[j].kind]
    <3>1. j \in DOMAIN s.socks /\ t.socks[j] = s.socks[j] /\ s.socks[j].kind \in Nt!Kinds
      BY <1>3, <2>1
    <3>2. s.socks[j].port \notin s.free[s.socks[j].kind]
      BY <3>1 DEF Inv, Taken
    <3>3. CASE s.socks[j].kind = kind
      <4>1. t.free[s.socks[j].kind] = s.free[s.socks[j].kind] \cup {p}
        BY <1>2, <3>1, <3>3
      <4> QED BY <2>2, <3>1, <3>2, <3>3, <4>1
    <3>4. CASE s.socks[j].kind # kind
      <4>1. t.free[s.socks[j].kind] = s.free[s.socks[j].kind]
        BY <1>2, <3>1, <3>4
      <4> QED BY <3>1, <3>2, <4>1
    <3> QED BY <3>3, <3>4
  <2> QED BY <1>3, <2>3 DEF Inv, Taken
<1>10. Inv(t)
  BY <1>1, <1>4, <1>5, <1>7, <1>8, <1>9 DEF Inv, Closes
<1> QED BY <1>10 DEF t

\* What UdpSocket::Destroy and TcpServer::Destroy do to an open socket: it is
\* closing, its handle is closed now if it has no connection, and otherwise all
\* its connections are closing.
SockDestroyed(s, t, k) ==
    /\ t.faults = {}
    /\ t.socks[k] = [s.socks[k] EXCEPT !.closing = TRUE, !.uvClose = (Nt!ConnsOf(s, k) = {})]
    /\ \A c \in Nt!ConnsOf(s, k) :
         t.conns[c] \in ConnRecords /\ t.conns[c].sock = k /\ t.conns[c].closing

\* Destroy has that effect.
LEMMA DestroySockEffect ==
    ASSUME NEW s, Inv(s), NEW k \in DOMAIN s.socks, ~s.socks[k].closing
    PROVE  SockDestroyed(s, Nt!DestroySock(s, k), k)
<1> DEFINE d == [s EXCEPT !.socks[k].closing = TRUE]
<1>1. /\ s.socks[k] \in SockRecords /\ ~s.socks[k].uvClose /\ s.faults = {} /\ Shaped(s)
      /\ s.socks[k].kind \in Nt!Kinds
      /\ s.socks = [x \in DOMAIN s.socks |-> s.socks[x]]
  BY DEF Inv, Typed, Maps, Closes, SockSettled, SockRecords
<1>2. /\ d.faults = {} /\ d.conns = s.conns /\ Shaped(d)
      /\ d.socks = [s.socks EXCEPT ![k] = [s.socks[k] EXCEPT !.closing = TRUE]]
      /\ d.socks[k] = [s.socks[k] EXCEPT !.closing = TRUE]
      /\ ~d.socks[k].uvClose
  BY <1>1 DEF Shaped, SockRecords
<1>3. Nt!ConnsOf(d, k) = Nt!ConnsOf(s, k)
  BY <1>2 DEF Nt!ConnsOf
<1> HIDE DEF d
<1>4. CASE Nt!ConnsOf(s, k) = {}
  <2>1. Nt!DestroySock(s, k) = Nt!UvClose(d, k)
    BY <1>1, <1>3, <1>4 DEF Nt!DestroySock, Nt!DestroyUdpSocket, Nt!DestroyTcpServer, d
  <2>2. Nt!UvClose(d, k) = [d EXCEPT !.socks[k].uvClose = TRUE]
    BY <1>2 DEF Nt!UvClose
  <2>3. Nt!UvClose(d, k).faults = {}
    BY <1>2, <2>2 DEF Shaped
  <2>4. k \in DOMAIN d.socks
    BY <1>1, <1>2
  <2>5. Nt!UvClose(d, k).socks[k] = [d.socks[k] EXCEPT !.uvClose = TRUE]
    BY <2>2, <2>4, <1>2 DEF Shaped
  <2>6. [d.socks[k] EXCEPT !.uvClose = TRUE] = [s.socks[k] EXCEPT !.closing = TRUE, !.uvClose = TRUE]
    BY <1>1, <1>2 DEF SockRecords
  <2> QED BY <1>4, <2>1, <2>3, <2>5, <2>6 DEF SockDestroyed
<1>5. CASE Nt!ConnsOf(s, k) # {}
  <2>0. s.socks[k].kind = "tcp"
    BY <1>5 DEF Nt!ConnsOf, Inv, Closes, ConnsServed
  <2>1. Nt!DestroySock(s, k) = Nt!DestroyConnections(d, k)
    BY <1>3, <1>5, <2>0 DEF Nt!DestroySock, Nt!DestroyTcpServer, d
  <2>2. Nt!DestroyConnections(d, k).faults = {} /\ Nt!DestroyConnections(d, k).socks[k] = d.socks[k]
    BY <1>2 DEF Nt!DestroyConnections, Shaped
  <2>3. [s.socks[k] EXCEPT !.closing = TRUE] = [s.socks[k] EXCEPT !.closing = TRUE, !.uvClose = FALSE]
    BY <1>1 DEF SockRecords
  <2>4. ASSUME NEW c \in Nt!ConnsOf(s, k)
        PROVE  /\ Nt!DestroyConnections(d, k).conns[c] \in ConnRecords
               /\ Nt!DestroyConnections(d, k).conns[c].sock = k
               /\ Nt!DestroyConnections(d, k).conns[c].closing
    <3>1. c \in DOMAIN d.conns /\ d.conns[c].sock = k /\ d.conns[c] \in ConnRecords
      BY <1>2 DEF Nt!ConnsOf, Inv, Typed, Maps
    <3>2. Nt!DestroyConnections(d, k).conns[c] = Nt!DestroyConnection(d, c).conns[c]
      BY <1>2, <3>1 DEF Nt!DestroyConnections, Shaped
    <3>3. CASE d.conns[c].closing
      BY <3>1, <3>2, <3>3 DEF Nt!DestroyConnection
    <3>4. CASE ~d.conns[c].closing
      <4> DEFINE how == IF d.conns[c].byPeer \/ d.conns[c].err THEN "closing" ELSE "shutdown"
      <4>1. Nt!DestroyConnection(d, c).conns[c] = [d.conns[c] EXCEPT !.closing = TRUE, !.uv = how]
        BY <1>2, <3>1, <3>4 DEF Nt!DestroyConnection, Shaped
      <4> QED BY <3>1, <3>2, <4>1, ZenonT(60) DEF ConnRecords
    <3> QED BY <3>3, <3>4
  <2> QED BY <1>2, <1>5, <2>1, <2>2, <2>3, <2>4, ZenonT(60) DEF SockDestroyed
<1> QED BY <1>4, <1>5

\* Transport::Destroy.
LEMMA DestroyOwnerInv ==
    ASSUME NEW s, Inv(s), NEW owner \in s.owners
    PROVE  Inv(Nt!DestroyOwner(s, owner))
<1> DEFINE t == Nt!DestroyOwner(s, owner)
           mine == {k \in DOMAIN s.socks : s.socks[k].owner = owner}
<1>0. Shaped(s) /\ s.faults = {}
  BY DEF Inv, Typed, Closes
<1>1. \A k \in mine : ~s.socks[k].closing
  BY DEF Inv, Closes, SockSettled
<1>2. \A k \in mine : SockDestroyed(s, Nt!DestroySock(s, k), k)
  BY <1>1, DestroySockEffect
<1>3. /\ Shaped(t) /\ t.free = s.free /\ t.used = s.used /\ t.owners = s.owners \ {owner}
      /\ t.faults = s.faults \cup UNION {Nt!DestroySock(s, k).faults : k \in mine}
      /\ t.socks = [k \in DOMAIN s.socks |->
                      IF k \in mine THEN Nt!DestroySock(s, k).socks[k] ELSE s.socks[k]]
      /\ t.conns = [c \in DOMAIN s.conns |->
                      IF s.conns[c].sock \in mine
                      THEN Nt!DestroySock(s, s.conns[c].sock).conns[c] ELSE s.conns[c]]
  BY <1>0, ZenonT(60) DEF Nt!DestroyOwner, Shaped
<1>4. t.faults = {}
  <2>1. \A k \in mine : Nt!DestroySock(s, k).faults = {}
    BY <1>2 DEF SockDestroyed
  <2> QED BY <1>0, <1>3, <2>1, SMTT(60)
<1> HIDE DEF t
<1>5. ASSUME NEW k \in DOMAIN s.socks
      PROVE  /\ s.socks[k] \in SockRecords
             /\ t.socks[k] \in SockRecords
             /\ t.socks[k].kind = s.socks[k].kind
             /\ t.socks[k].port = s.socks[k].port
             /\ t.socks[k].owner = s.socks[k].owner
             /\ k \in mine => t.socks[k].closing /\ (t.socks[k].uvClose <=> Nt!ConnsOf(s, k) = {})
             /\ k \notin mine => t.socks[k] = s.socks[k]
  <2>1. s.socks[k] \in SockRecords
    BY DEF Inv, Typed, Maps
  <2>2. CASE k \in mine
    <3>1. t.socks[k] = [s.socks[k] EXCEPT !.closing = TRUE, !.uvClose = (Nt!ConnsOf(s, k) = {})]
      BY <1>2, <1>3, <2>2, ZenonT(60) DEF SockDestroyed
    <3> QED BY <2>1, <2>2, <3>1 DEF SockRecords
  <2>3. CASE k \notin mine
    BY <1>3, <2>1, <2>3
  <2> QED BY <2>1, <2>2, <2>3
<1>6. ASSUME NEW c \in DOMAIN s.conns
      PROVE  /\ t.conns[c] \in ConnRecords
             /\ t.conns[c].sock = s.conns[c].sock
             /\ s.conns[c].closing => t.conns[c].closing
             /\ s.conns[c].sock \in mine => t.conns[c].closing
  <2>1. s.conns[c] \in ConnRecords
    BY SMTT(60) DEF Inv, Typed, Maps
  <2>2. CASE s.conns[c].sock \in mine
    <3> DEFINE k == s.conns[c].sock
    <3>1. c \in Nt!ConnsOf(s, k) /\ SockDestroyed(s, Nt!DestroySock(s, k), k)
      BY <1>2, <2>2 DEF Nt!ConnsOf
    <3>2. t.conns[c] = Nt!DestroySock(s, k).conns[c]
      BY <1>3, <2>2, SMTT(60)
    <3> QED BY <3>1, <3>2 DEF SockDestroyed
  <2>3. CASE s.conns[c].sock \notin mine
    BY <1>3, <2>1, <2>3, ZenonT(60)
  <2> QED BY <2>2, <2>3
<1>7. /\ DOMAIN t.socks = DOMAIN s.socks /\ t.socks = [x \in DOMAIN t.socks |-> t.socks[x]]
      /\ DOMAIN t.conns = DOMAIN s.conns /\ t.conns = [x \in DOMAIN t.conns |-> t.conns[x]]
  BY <1>3
<1>8. \A k : Nt!ConnsOf(t, k) = Nt!ConnsOf(s, k)
  BY <1>6, <1>7, SMTT(60) DEF Nt!ConnsOf
<1>9. Typed(t)
  BY <1>3, <1>5, <1>6, <1>7, ZenonT(60) DEF Inv, Typed, Maps
<1>10. UsedOnce(t)
  BY <1>3, <1>7 DEF Inv, UsedOnce
<1>11. ConnsServed(t)
  BY <1>5, <1>6, <1>7 DEF Inv, Closes, ConnsServed
<1>12. ASSUME NEW k \in DOMAIN t.socks PROVE SockSettled(t, k)
  <2>1. k \in DOMAIN s.socks /\ SockSettled(s, k)
    BY <1>7 DEF Inv, Closes
  <2>2. CASE k \in mine
    <3>1. \A c \in Nt!ConnsOf(s, k) : t.conns[c].closing
      BY <1>6, <2>2, SMTT(60) DEF Nt!ConnsOf
    <3>2. t.socks[k].owner = owner /\ owner \notin t.owners
      BY <1>3, <1>5, <2>1, <2>2
    <3>3. t.socks[k].closing /\ (t.socks[k].uvClose <=> Nt!ConnsOf(s, k) = {})
      BY <1>5, <2>1, <2>2
    <3> QED BY <1>8, <3>1, <3>2, <3>3 DEF SockSettled
  <2>3. CASE k \notin mine
    <3>1. \A c \in Nt!ConnsOf(s, k) : s.conns[c].closing => t.conns[c].closing
      BY <1>6, SMTT(60) DEF Nt!ConnsOf
    <3>2. t.socks[k] = s.socks[k] /\ (s.socks[k].owner \in t.owners <=> s.socks[k].owner \in s.owners)
      BY <1>3, <1>5, <2>1, <2>3
    <3> QED BY <1>8, <2>1, <3>1, <3>2 DEF SockSettled
  <2> QED BY <2>2, <2>3
<1>13. Taken(t)
  <2>1. \A k \in DOMAIN s.socks : /\ t.socks[k].kind = s.socks[k].kind
                                  /\ t.socks[k].port = s.socks[k].port
    BY <1>5, SMTT(60)
  <2>2. ASSUME NEW k \in DOMAIN t.socks PROVE t.socks[k].port \notin t.free[t.socks[k].kind]
    <3>1. k \in DOMAIN s.socks /\ s.socks[k].port \notin s.free[s.socks[k].kind]
      BY <1>7 DEF Inv, Taken
    <3> QED BY <1>3, <2>1, <3>1
  <2>3. ASSUME NEW k \in DOMAIN t.socks, NEW j \in DOMAIN t.socks \ {k},
               t.socks[j].kind = t.socks[k].kind
        PROVE  t.socks[j].port # t.socks[k].port
    <3>1. /\ k \in DOMAIN s.socks /\ j \in DOMAIN s.socks \ {k}
          /\ s.socks[j].kind = s.socks[k].kind => s.socks[j].port # s.socks[k].port
      BY <1>7 DEF Inv, Taken
    <3> QED BY <2>1, <2>3, <3>1
  <2> QED BY <2>2, <2>3 DEF Taken
<1>14. Inv(t)
  BY <1>4, <1>9, <1>10, <1>11, <1>12, <1>13 DEF Inv, Closes
<1> QED BY <1>14 DEF t

\* TcpServer::onTcpConnectionClosed: the transport is told, unless the server
\* is closing; a closing server closes its handle with its last connection.
LEMMA OnTcpConnectionClosedInv ==
    ASSUME NEW s, Inv(s), NEW c \in DOMAIN s.conns, NEW end \in BOOLEAN
    PROVE  Inv(Nt!OnTcpConnectionClosed(s, c, end))
<1> DEFINE k == s.conns[c].sock
           g == [s EXCEPT !.conns = Nt!Without(@, c)]
           u == Nt!UserOnTcpConnectionClosed(g, k, end)
<1>0. k \in DOMAIN s.socks /\ SockSettled(s, k) /\ c \in Nt!ConnsOf(s, k) /\ Shaped(s)
  BY DEF Inv, Typed, Closes, ConnsServed, Nt!ConnsOf
<1>1. Gone(s, g, c)
  BY <1>0 DEF Gone, SocksStay, Shaped
<1>2. g.socks = s.socks /\ g.owners = s.owners
  BY <1>1 DEF Gone, SocksStay
<1>3. Nt!OnTcpConnectionClosed(s, c, end) =
        IF s.socks[k].closing /\ Nt!ConnsOf(u, k) = {} THEN Nt!UvClose(u, k) ELSE u
  BY DEF Nt!OnTcpConnectionClosed
<1>4. /\ DOMAIN g.conns = DOMAIN s.conns \ {c}
      /\ \A d \in DOMAIN g.conns : g.conns[d] = s.conns[d]
      /\ \A j : Nt!ConnsOf(g, j) = Nt!ConnsOf(s, j) \ {c}
      /\ Typed(g) /\ UsedOnce(g) /\ ConnsServed(g) /\ Taken(g) /\ g.faults = {}
  <2> HIDE DEF g
  <2> QED BY <1>1, GoneConns
<1>5. ASSUME NEW j \in DOMAIN s.socks, s.socks[j].closing => Nt!ConnsOf(s, j) # {c}
      PROVE  SockSettled(g, j)
  <2> HIDE DEF g
  <2> QED BY <1>1, <1>5, GoneSettled
<1>6. \A j \in DOMAIN s.socks \ {k} : SockSettled(g, j)
  <2>1. \A j \in DOMAIN s.socks \ {k} : Nt!ConnsOf(s, j) # {c}
    BY DEF Nt!ConnsOf
  <2> QED BY <1>5, <2>1
<1> HIDE DEF g
<1>7. CASE ~s.socks[k].closing
  <2>1. Inv(g)
    BY <1>2, <1>4, <1>5, <1>6, <1>7 DEF Inv, Closes
  <2>2. g.socks[k].owner \in g.owners /\ ~g.socks[k].closing
    BY <1>0, <1>2, <1>7 DEF SockSettled
  <2>3. u = IF end THEN Nt!DestroyOwner(g, g.socks[k].owner) ELSE g
    BY <2>2 DEF Nt!UserOnTcpConnectionClosed
  <2>4. Inv(Nt!DestroyOwner(g, g.socks[k].owner))
    BY <2>1, <2>2, DestroyOwnerInv
  <2> HIDE DEF u
  <2>5. Inv(u)
    BY <2>1, <2>3, <2>4
  <2> QED BY <1>3, <1>7, <2>5
<1>8. CASE s.socks[k].closing
  <2>1. u = g
    BY <1>2, <1>8 DEF Nt!UserOnTcpConnectionClosed
  <2> HIDE DEF u
  <2>2. CASE Nt!ConnsOf(s, k) # {c}
    <3>1. Nt!ConnsOf(g, k) # {}
      BY <1>0, <1>4, <2>2
    <3>2. Inv(g)
      BY <1>2, <1>4, <1>5, <1>6, <2>2 DEF Inv, Closes
    <3> QED BY <1>3, <2>1, <3>1, <3>2
  <2>3. CASE Nt!ConnsOf(s, k) = {c}
    <3> DEFINE t == Nt!UvClose(g, k)
    <3>1. Nt!ConnsOf(g, k) = {}
      BY <1>4, <2>3
    <3>2. ~g.socks[k].uvClose
      BY <1>0, <1>2 DEF SockSettled
    <3>3. /\ Shaped(t) /\ t.owners = g.owners /\ t.free = g.free /\ t.conns = g.conns
          /\ t.used = g.used /\ t.faults = g.faults
          /\ t.socks = [g.socks EXCEPT ![k] = [g.socks[k] EXCEPT !.uvClose = TRUE]]
      BY <1>4, <3>2 DEF Nt!UvClose, Typed, Shaped
    <3> HIDE DEF t
    <3>4. g.socks[k] \in SockRecords /\ k \in DOMAIN g.socks
      BY <1>0, <1>2, <1>4, SMTT(60) DEF Typed, Maps
    <3>5. /\ DOMAIN t.socks = DOMAIN g.socks /\ t.socks = [x \in DOMAIN t.socks |-> t.socks[x]]
          /\ t.socks[k] = [g.socks[k] EXCEPT !.uvClose = TRUE]
          /\ \A j \in DOMAIN g.socks \ {k} : t.socks[j] = g.socks[j]
      BY <3>3, <3>4
    <3>6. /\ t.socks[k] \in SockRecords /\ t.socks[k].uvClose /\ t.socks[k].closing
          /\ \A j \in DOMAIN g.socks : /\ t.socks[j].kind = g.socks[j].kind
                                       /\ t.socks[j].port = g.socks[j].port
                                       /\ t.socks[j].owner = g.socks[j].owner
      <4>1. /\ t.socks[k] \in SockRecords /\ t.socks[k].uvClose /\ t.socks[k].closing
            /\ t.socks[k].kind = g.socks[k].kind /\ t.socks[k].port = g.socks[k].port
            /\ t.socks[k].owner = g.socks[k].owner
        <5>1. g.socks[k].closing
          BY <1>2, <1>8
        <5>2. t.socks[k] = [g.socks[k] EXCEPT !.uvClose = TRUE]
          BY <3>5
        <5> HIDE DEF k
        <5> QED BY <3>4, <5>1, <5>2, ZenonT(60) DEF SockRecords
      <4>2. ASSUME NEW j \in DOMAIN g.socks
            PROVE  /\ t.socks[j].kind = g.socks[j].kind
                   /\ t.socks[j].port = g.socks[j].port
                   /\ t.socks[j].owner = g.socks[j].owner
        BY <3>5, <4>1, ZenonT(60)
      <4> QED BY <4>1, <4>2
    <3>7. Typed(t)
      BY <1>4, <3>3, <3>5, <3>6, ZenonT(60) DEF Typed, Maps
    <3>8. UsedOnce(t)
      BY <1>4, <3>3, <3>5 DEF UsedOnce
    <3>9. ConnsServed(t)
      <4>1. ASSUME NEW d \in DOMAIN t.conns
            PROVE  t.conns[d].sock \in DOMAIN t.socks /\ t.socks[t.conns[d].sock].kind = "tcp"
        <5>1. g.conns[d].sock \in DOMAIN g.socks /\ g.socks[g.conns[d].sock].kind = "tcp"
          BY <1>4, <3>3 DEF ConnsServed
        <5>2. t.conns[d].sock = g.conns[d].sock
          BY <3>3
        <5>3. t.socks[g.conns[d].sock].kind = g.socks[g.conns[d].sock].kind
          BY <3>6, <5>1
        <5> QED BY <3>5, <5>1, <5>2, <5>3
      <4> QED BY <4>1 DEF ConnsServed
    <3>10. ASSUME NEW j \in DOMAIN t.socks PROVE SockSettled(t, j)
      <4>1. Nt!ConnsOf(t, j) = Nt!ConnsOf(g, j)
        BY <3>3 DEF Nt!ConnsOf
      <4>2. CASE j = k
        <5>1. t.socks[k].owner \notin t.owners
          BY <1>0, <1>2, <1>8, <3>3, <3>4, <3>6, ZenonT(60) DEF SockSettled
        <5> QED BY <3>1, <3>6, <4>1, <4>2, <5>1 DEF SockSettled
      <4>3. CASE j # k
        <5>1. SockSettled(g, j) /\ t.socks[j] = g.socks[j]
          BY <1>2, <1>6, <3>5, <4>3
        <5> QED BY <3>3, <4>1, <5>1 DEF SockSettled
      <4> QED BY <4>2, <4>3
    <3>11. Taken(t)
      <4>1. \A i \in DOMAIN t.socks : t.socks[i].port \notin t.free[t.socks[i].kind]
        BY <1>4, <3>3, <3>5, <3>6, ZenonT(60) DEF Taken
      <4>2. ASSUME NEW i \in DOMAIN t.socks, NEW j \in DOMAIN t.socks \ {i},
                   t.socks[j].kind = t.socks[i].kind
            PROVE  t.socks[j].port # t.socks[i].port
        <5>1. /\ i \in DOMAIN g.socks /\ j \in DOMAIN g.socks \ {i}
              /\ g.socks[j].kind = g.socks[i].kind => g.socks[j].port # g.socks[i].port
          BY <1>4, <3>5 DEF Taken
        <5> QED BY <3>6, <4>2, <5>1
      <4> QED BY <4>1, <4>2, SMTT(60) DEF Taken
    <3>12. Inv(t)
      BY <1>4, <3>3, <3>7, <3>8, <3>9, <3>10, <3>11 DEF Inv, Closes
    <3> QED BY <1>3, <1>8, <2>1, <3>1, <3>12 DEF t
  <2> QED BY <2>2, <2>3
<1> QED BY <1>7, <1>8

----------------------------------------------------------------------------
(* The actions.                                                             *)

\* The invariant holds initially.
LEMMA InitInv == Nt!Init => SocketsInv
<1> SUFFICES ASSUME Nt!Init PROVE Inv(net)
  BY DEF SocketsInv
<1>1. DOMAIN << >> = {} /\ << >> = [x \in {} |-> << >>[x]]
  OBVIOUS
<1>2. /\ Shaped(net) /\ net.owners = Owners /\ net.free = [k \in Nt!Kinds |-> Nt!Ports]
      /\ net.socks = << >> /\ net.conns = << >> /\ net.used = {} /\ net.faults = {}
  BY DEF Nt!Init, Shaped
<1>3. DOMAIN net.socks = {} /\ DOMAIN net.conns = {}
  BY <1>1, <1>2
<1>4. Typed(net)
  BY <1>1, <1>2, <1>3 DEF Typed, Maps
<1> QED BY <1>2, <1>3, <1>4 DEF Inv, UsedOnce, Closes, ConnsServed, Taken

\* Opening a UDP socket.
LEMMA OpenUdpSocketInv ==
    ASSUME Inv(net), NEW k \in Socks, NEW owner, NEW first, NEW foreign, NEW ok \in BOOLEAN,
           Nt!OpenUdpSocket(k, owner, first, foreign, ok)
    PROVE  Inv(net')
<1>1. PICK p \in Nt!GetRandomPort(net.free["udp"], first, foreign) :
        net' = IF ok THEN Nt!NewSock(net, k, "udp", owner, p) ELSE [net EXCEPT !.free["udp"] = @ \ {p}]
  BY DEF Nt!OpenUdpSocket, Nt!NewUdpSocket, Nt!GetRandomUdpPort
<1>2. p \in net.free["udp"]
  BY FoundPort
<1>3. "udp" \in Nt!Kinds /\ k \notin net.used /\ owner \in net.owners
  BY DEF Nt!Kinds, Nt!OpenUdpSocket
<1>4. Inv(Nt!NewSock(net, k, "udp", owner, p))
  BY <1>2, <1>3, NewSockInv
<1>5. Inv([net EXCEPT !.free["udp"] = @ \ {p}])
  BY <1>3, LostPortInv
<1> QED BY <1>1, <1>4, <1>5

\* Opening a TCP server.
LEMMA OpenTcpServerInv ==
    ASSUME Inv(net), NEW k \in Socks, NEW owner, NEW first, NEW foreign, NEW ok \in BOOLEAN,
           Nt!OpenTcpServer(k, owner, first, foreign, ok)
    PROVE  Inv(net')
<1>1. PICK p \in Nt!GetRandomPort(net.free["tcp"], first, foreign) :
        net' = IF ok THEN Nt!NewSock(net, k, "tcp", owner, p) ELSE [net EXCEPT !.free["tcp"] = @ \ {p}]
  BY DEF Nt!OpenTcpServer, Nt!NewTcpServer
<1>2. p \in net.free["tcp"]
  BY FoundPort
<1>3. "tcp" \in Nt!Kinds /\ k \notin net.used /\ owner \in net.owners
  BY DEF Nt!Kinds, Nt!OpenTcpServer
<1>4. Inv(Nt!NewSock(net, k, "tcp", owner, p))
  BY <1>2, <1>3, NewSockInv
<1>5. Inv([net EXCEPT !.free["tcp"] = @ \ {p}])
  BY <1>3, LostPortInv
<1> QED BY <1>1, <1>4, <1>5

\* A connection arrives; it is destroyed if it cannot start or is one too many.
LEMMA OnUvConnectionInv ==
    ASSUME Inv(net), NEW k \in Socks, NEW c \in Conns, NEW b \in BOOLEAN, Nt!OnUvConnection(k, c, b)
    PROVE  Inv(net')
<1> DEFINE a == [net EXCEPT !.conns = Nt!With(@, c, Nt!NewConnection(k)), !.used = @ \cup {c}]
           d == IF b THEN a ELSE Nt!DestroyConnection(a, c)
<1>1. /\ k \in DOMAIN net.socks /\ net.socks[k].kind = "tcp" /\ ~net.socks[k].closing
      /\ c \notin net.used
      /\ net' = Nt!UserOnNewTcpConnection(d, c)
  BY DEF Nt!OnUvConnection
<1>2. /\ SocksStay(net, a) /\ a.used = net.used \cup {c}
      /\ a.conns = Nt!With(net.conns, c, Nt!NewConnection(k))
  BY DEF SocksStay, Shaped, Inv, Typed
<1> HIDE DEF a
<1>3. Inv(a) /\ c \in DOMAIN a.conns
  BY <1>1, <1>2, AcceptedInv
<1>4. Inv(Nt!DestroyConnection(a, c))
  BY <1>3, DestroyConnectionInv
<1>5. c \in DOMAIN Nt!DestroyConnection(a, c).conns
  BY <1>3 DEF Nt!DestroyConnection, Inv, Typed, Shaped, Maps
<1>6. Inv(d) /\ c \in DOMAIN d.conns
  BY <1>3, <1>4, <1>5
<1> HIDE DEF d
<1>7. Inv(Nt!DestroyConnection(d, c))
  BY <1>6, DestroyConnectionInv
<1> QED BY <1>1, <1>6, <1>7 DEF Nt!UserOnNewTcpConnection

\* The owner of an open socket is not freed.
LEMMA OwnerLives ==
    ASSUME NEW s, Inv(s), NEW k \in DOMAIN s.socks, ~s.socks[k].closing
    PROVE  s.socks[k].owner \in s.owners
BY DEF Inv, Closes, SockSettled

\* A connection that is not closing belongs to a server that is not closing.
LEMMA ServerOpen ==
    ASSUME NEW s, Inv(s), NEW c \in DOMAIN s.conns, ~s.conns[c].closing
    PROVE  s.conns[c].sock \in DOMAIN s.socks /\ ~s.socks[s.conns[c].sock].closing
<1> DEFINE k == s.conns[c].sock
<1>1. k \in DOMAIN s.socks /\ SockSettled(s, k) /\ c \in Nt!ConnsOf(s, k)
  BY DEF Inv, Closes, ConnsServed, Nt!ConnsOf
<1> QED BY <1>1 DEF SockSettled

\* Reading from a connection.
LEMMA OnUvReadInv ==
    ASSUME Inv(net), NEW c, NEW w \in {"eof", "error", "too long", "last packet"}, Nt!OnUvRead(c, w)
    PROVE  Inv(net')
<1>1. c \in DOMAIN net.conns /\ ~net.conns[c].closing
  BY DEF Nt!OnUvRead, Nt!OpenConn
<1>2. CASE w = "eof"
  <2> DEFINE f == [net EXCEPT !.conns[c].byPeer = TRUE]
  <2>1. Inv(f)
    BY <1>1, FlaggedInv
  <2>2. c \in DOMAIN f.conns
    BY <1>1 DEF Inv, Typed, Shaped, Maps
  <2>3. net' = Nt!DestroyConnection(f, c)
    BY <1>2 DEF Nt!OnUvRead
  <2> HIDE DEF f
  <2>4. Inv(Nt!DestroyConnection(f, c))
    BY <2>1, <2>2, DestroyConnectionInv, ZenonT(60)
  <2> QED BY <2>3, <2>4
<1>3. CASE w = "error"
  <2> DEFINE f == [net EXCEPT !.conns[c].err = TRUE]
  <2>1. Inv(f)
    BY <1>1, FlaggedInv
  <2>2. c \in DOMAIN f.conns
    BY <1>1 DEF Inv, Typed, Shaped, Maps
  <2>3. net' = Nt!DestroyConnection(f, c)
    BY <1>3, SMTT(60) DEF Nt!OnUvRead
  <2> HIDE DEF f
  <2>4. Inv(Nt!DestroyConnection(f, c))
    BY <2>1, <2>2, DestroyConnectionInv
  <2> QED BY <2>3, <2>4
<1>4. CASE w = "too long"
  <2>1. Inv(Nt!DestroyConnection(net, c))
    BY <1>1, DestroyConnectionInv
  <2> QED BY <1>4, <2>1 DEF Nt!OnUvRead
<1>5. CASE w = "last packet"
  <2> DEFINE o == net.socks[net.conns[c].sock].owner
  <2>1. o \in net.owners
    BY <1>1, ServerOpen, OwnerLives
  <2>2. net' = Nt!DestroyOwner(net, o)
    BY <1>5, <2>1 DEF Nt!OnUvRead
  <2> HIDE DEF o
  <2>3. Inv(Nt!DestroyOwner(net, o))
    BY <2>1, DestroyOwnerInv
  <2> QED BY <2>2, <2>3
<1> QED BY <1>2, <1>3, <1>4, <1>5

\* A failed write.
LEMMA OnUvWriteErrorInv ==
    ASSUME Inv(net), NEW c, NEW b \in BOOLEAN, Nt!OnUvWriteError(c, b)
    PROVE  Inv(net')
<1> DEFINE f == [net EXCEPT !.conns[c].err = b]
<1>1. c \in DOMAIN net.conns
  BY DEF Nt!OnUvWriteError, Nt!OpenConn
<1>2. Inv(f)
  BY <1>1, FlaggedInv
<1>3. c \in DOMAIN f.conns
  BY <1>1 DEF Inv, Typed, Shaped, Maps
<1>4. net' = Nt!DestroyConnection(f, c)
  BY DEF Nt!OnUvWriteError
<1> HIDE DEF f
<1>5. Inv(Nt!DestroyConnection(f, c))
  BY <1>2, <1>3, DestroyConnectionInv
<1> QED BY <1>4, <1>5

\* A datagram that ends the transport.
LEMMA OnUvRecvInv ==
    ASSUME Inv(net), NEW k, Nt!OnUvRecv(k)
    PROVE  Inv(net')
<1>1. k \in DOMAIN net.socks /\ ~net.socks[k].closing
  BY DEF Nt!OnUvRecv
<1>2. net.socks[k].owner \in net.owners
  BY <1>1, OwnerLives
<1>3. net' = Nt!DestroyOwner(net, net.socks[k].owner)
  BY <1>2 DEF Nt!OnUvRecv
<1>4. Inv(Nt!DestroyOwner(net, net.socks[k].owner))
  BY <1>2, DestroyOwnerInv
<1> QED BY <1>3, <1>4

\* Every step keeps the invariant.
LEMMA NextInv == SocketsInv /\ [Nt!Next]_net => SocketsInv'
<1> SUFFICES ASSUME Inv(net), [Nt!Next]_net PROVE Inv(net')
  BY DEF SocketsInv
<1>1. ASSUME NEW k \in Socks, NEW owner \in Owners, NEW first \in Nt!Ports,
             NEW foreign \in SUBSET Nt!Ports, NEW ok \in BOOLEAN,
             Nt!OpenUdpSocket(k, owner, first, foreign, ok) \/ Nt!OpenTcpServer(k, owner, first, foreign, ok)
      PROVE  Inv(net')
  BY <1>1, OpenUdpSocketInv, OpenTcpServerInv
<1>2. ASSUME NEW k \in Socks, NEW c \in Conns, NEW b \in BOOLEAN, Nt!OnUvConnection(k, c, b)
      PROVE  Inv(net')
  BY <1>2, OnUvConnectionInv
<1>3. ASSUME NEW c \in Conns, NEW w \in {"eof", "error", "too long", "last packet"}, Nt!OnUvRead(c, w)
      PROVE  Inv(net')
  BY <1>3, OnUvReadInv
<1>4. ASSUME NEW c \in Conns, NEW b \in BOOLEAN, Nt!OnUvWriteError(c, b)
      PROVE  Inv(net')
  BY <1>4, OnUvWriteErrorInv
<1>5. ASSUME NEW c \in Conns, NEW b \in BOOLEAN, Nt!OnUvConnectionClosed(c, b)
      PROVE  Inv(net')
  <2>1. c \in DOMAIN net.conns /\ net' = Nt!OnTcpConnectionClosed(net, c, b)
    BY <1>5 DEF Nt!OnUvConnectionClosed
  <2>2. Inv(Nt!OnTcpConnectionClosed(net, c, b))
    BY <2>1, OnTcpConnectionClosedInv
  <2> QED BY <2>1, <2>2
<1>6. ASSUME NEW c \in Conns, Nt!OnUvShutdown(c)
      PROVE  Inv(net')
  <2>1. c \in DOMAIN net.conns /\ net' = [net EXCEPT !.conns[c].uv = "closing"]
    BY <1>6 DEF Nt!OnUvShutdown
  <2>2. Inv([net EXCEPT !.conns[c].uv = "closing"])
    BY <2>1, FlaggedInv
  <2> QED BY <2>1, <2>2
<1>7. ASSUME NEW k \in Socks, Nt!OnUvClosed(k)
      PROVE  Inv(net')
  <2>1. k \in DOMAIN net.socks /\ net.socks[k].uvClose /\ net' = Nt!OnUvSockClosed(net, k)
    BY <1>7 DEF Nt!OnUvClosed
  <2>2. Inv(Nt!OnUvSockClosed(net, k))
    BY <2>1, OnUvSockClosedInv
  <2> QED BY <2>1, <2>2
<1>8. ASSUME NEW k \in Socks, Nt!OnUvRecv(k)
      PROVE  Inv(net')
  BY <1>8, OnUvRecvInv
<1>9. ASSUME NEW owner \in Owners, Nt!CloseTransport(owner)
      PROVE  Inv(net')
  <2>1. owner \in net.owners /\ net' = Nt!DestroyOwner(net, owner)
    BY <1>9 DEF Nt!CloseTransport
  <2>2. Inv(Nt!DestroyOwner(net, owner))
    BY <2>1, DestroyOwnerInv
  <2> QED BY <2>1, <2>2
<1>10. CASE UNCHANGED net
  BY <1>10
<1> QED BY <1>1, <1>2, <1>3, <1>4, <1>5, <1>6, <1>7, <1>8, <1>9, <1>10 DEF Nt!Next

\* The sockets keep their invariant, whatever the order in which the callbacks
\* of the libuv loop come.
THEOREM SocketsInvariant == Nt!Spec => []SocketsInv
<1> QED BY InitInv, NextInv, PTL DEF Nt!Spec

\* A step of the worker is a step of its sockets, or leaves them alone.
LEMMA PartsSockets == PartsSpec => []SocketsInv
<1>1. PartsInit => Nt!Init
  BY DEF PartsInit
<1>2. [PartsNext]_<<vars, partVars, part>> => [Nt!Next]_net
  BY DEF PartsNext, partVars
<1> QED BY <1>1, <1>2, InitInv, NextInv, PTL DEF PartsSpec

\* TypeOK: in particular a socket's owner and port are what they were.
THEOREM TypeOKHolds == Nt!Spec => []Nt!TypeOK
<1> QED BY SocketsInvariant, InvImplies, PTL

\* ClosesOnce: no handle is closed twice, no freed transport is called, no
\* connection outlives its server, and a closing server waits for nothing but
\* closing connections.
THEOREM ClosesOnceHolds == Nt!Spec \/ PartsSpec => []ClosesOnce
<1>1. SocketsInv => ClosesOnce
  BY InvImplies DEF ClosesOnce
<1> QED BY <1>1, SocketsInvariant, PartsSockets, PTL

\* PortsExclusive: a port is not available, and not another socket's, while a
\* socket has it.
THEOREM PortsExclusiveHolds == Nt!Spec \/ PartsSpec => []PortsExclusive
<1>1. SocketsInv => PortsExclusive
  BY InvImplies DEF PortsExclusive
<1> QED BY <1>1, SocketsInvariant, PartsSockets, PTL

(* RtpListener: its tables.                                                 *)

\* The table g is f in which r now has the keys K, and nobody else's changed.
Replaced(f, g, r, K) == Ls!Keys(g, r) = K /\ \A q : q # r => Ls!Keys(g, q) = Ls!Keys(f, q)

\* Removing a receiver takes its keys and no other.
LEMMA TableWithout ==
    ASSUME NEW f, NEW r
    PROVE  Replaced(f, Ls!Without(f, r), r, {})
<1> DEFINE g == Ls!Without(f, r)
<1>1. /\ DOMAIN g = {k \in DOMAIN f : f[k] # r}
      /\ \A k \in DOMAIN g : g[k] = f[k]
  BY DEF Ls!Without, Ls!Restrict
<1> HIDE DEF g
<1>2. Replaced(f, g, r, {})
  BY <1>1 DEF Replaced, Ls!Keys
<1> QED BY <1>2 DEF g

\* Adding keys that nobody else has.
LEMMA TableSet ==
    ASSUME NEW f, NEW r, NEW K, \A k \in K \cap DOMAIN f : f[k] = r
    PROVE  Replaced(f, Ls!Set(f, K, r), r, Ls!Keys(f, r) \cup K)
<1> DEFINE g == Ls!Set(f, K, r)
<1>1. /\ DOMAIN g = DOMAIN f \cup K
      /\ \A k \in DOMAIN g : g[k] = IF k \in K THEN r ELSE f[k]
  BY DEF Ls!Set
<1> HIDE DEF g
<1>2. Replaced(f, g, r, Ls!Keys(f, r) \cup K)
  BY <1>1 DEF Replaced, Ls!Keys
<1> QED BY <1>2 DEF g

\* Replacing the keys of r by others, none of which belongs to somebody else.
LEMMA TableReplace ==
    ASSUME NEW f, NEW r, NEW K, \A k \in K \cap DOMAIN f : f[k] = r
    PROVE  Replaced(f, Ls!Set(Ls!Without(f, r), K, r), r, K)
<1> DEFINE g == Ls!Without(f, r)
<1>1. Replaced(f, g, r, {})
  BY TableWithout
<1>2. \A k \in K \cap DOMAIN g : g[k] = r
  BY DEF Ls!Without, Ls!Restrict
<1> HIDE DEF g
<1>3. Replaced(g, Ls!Set(g, K, r), r, Ls!Keys(g, r) \cup K)
  BY <1>2, TableSet
<1>4. Replaced(f, Ls!Set(g, K, r), r, K)
  BY <1>1, <1>3 DEF Replaced
<1> QED BY <1>4 DEF g

\* A rollback gives r back exactly the keys it had.
LEMMA TableRollback ==
    ASSUME NEW f, NEW r
    PROVE  Replaced(f, Ls!Set(Ls!Without(f, r), Ls!Keys(f, r), r), r, Ls!Keys(f, r))
<1>1. \A k \in Ls!Keys(f, r) \cap DOMAIN f : f[k] = r
  BY DEF Ls!Keys
<1> QED BY <1>1, TableReplace

\* The listener m is l with the keys of r replaced.
NewTables(l, m, r, ks, km, kp) ==
    /\ Replaced(l.ssrcTable, m.ssrcTable, r, ks)
    /\ Replaced(l.muxIdTable, m.muxIdTable, r, km)
    /\ Replaced(l.ptTable, m.ptTable, r, kp)

\* Receiver q has the same keys in listeners l and m.
SameKeys(l, m, q) ==
    /\ Ls!Keys(m.ssrcTable, q) = Ls!Keys(l.ssrcTable, q)
    /\ Ls!Keys(m.muxIdTable, q) = Ls!Keys(l.muxIdTable, q)
    /\ Ls!Keys(m.ptTable, q) = Ls!Keys(l.ptTable, q)

\* Receiver q has a key in listener l.
HasKeys(l, q) ==
    Ls!Keys(l.ssrcTable, q) # {} \/ Ls!Keys(l.muxIdTable, q) # {} \/ Ls!Keys(l.ptTable, q) # {}

\* The keys r has in listener l are those a receiver with parameters p has:
\* the ones p names, and SSRCs learnt by payload type.
Listed(p, l, r) ==
    /\ Ls!Keys(l.muxIdTable, r) = Ls!MuxIds(p)
    /\ Ls!Keys(l.ptTable, r) = Ls!PayloadTypes(p)
    /\ Ls!Ssrcs(p) \subseteq Ls!Keys(l.ssrcTable, r)
    /\ Ls!Keys(l.ssrcTable, r) # Ls!Ssrcs(p) => Ls!PayloadTypes(p) # {}

\* RemoveRtpReceiver takes all keys of r.
LEMMA RemoveTables ==
    ASSUME NEW l, NEW r
    PROVE  NewTables(l, Ls!RemoveRtpReceiver(l, r), r, {}, {}, {})
<1> DEFINE m == Ls!RemoveRtpReceiver(l, r)
<1>1. /\ m.ssrcTable = Ls!Without(l.ssrcTable, r)
      /\ m.muxIdTable = Ls!Without(l.muxIdTable, r)
      /\ m.ptTable = Ls!Without(l.ptTable, r)
  BY DEF Ls!RemoveRtpReceiver
<1> HIDE DEF m
<1>2. NewTables(l, m, r, {}, {}, {})
  BY <1>1, TableWithout DEF NewTables
<1> QED BY <1>2 DEF m

\* What AddRtpReceiver does for r with parameters p: all of the new keys when
\* none of them belongs to another receiver, and otherwise nothing.
Added(l, a, r, p) ==
    /\ \A q : q # r => SameKeys(l, a.l, q)
    /\ a.ok => Listed(p, a.l, r)
    /\ ~a.ok => SameKeys(l, a.l, r)

\* AddRtpReceiver works or is rolled back, in all three tables at once.
LEMMA AddTables ==
    ASSUME NEW l, NEW r, NEW p
    PROVE  Added(l, Ls!AddRtpReceiver(l, r, p), r, p)
<1> DEFINE a == Ls!AddRtpReceiver(l, r, p)
           clean == Ls!RemoveRtpReceiver(l, r)
           taken == \/ \E k \in Ls!Ssrcs(p) : Ls!HasSsrc(l, k, r)
                    \/ \E k \in Ls!MuxIds(p) : Ls!HasMuxId(l, k, r)
                    \/ \E k \in Ls!PayloadTypes(p) : Ls!HasPayloadType(l, k, r)
           back == Ls!RollbackRtpReceiver(clean, r, l)
           new == Ls!AddKeys(clean, r, Ls!Ssrcs(p), Ls!MuxIds(p), Ls!PayloadTypes(p))
<1>1. (a.ok <=> ~taken) /\ a.l = IF taken THEN back ELSE new
  BY DEF Ls!AddRtpReceiver
<1> HIDE DEF taken, a
<1>2. /\ clean.ssrcTable = Ls!Without(l.ssrcTable, r)
      /\ clean.muxIdTable = Ls!Without(l.muxIdTable, r)
      /\ clean.ptTable = Ls!Without(l.ptTable, r)
  BY DEF Ls!RemoveRtpReceiver
<1> HIDE DEF clean
<1>3. /\ back.ssrcTable = Ls!Set(Ls!Without(l.ssrcTable, r), Ls!Keys(l.ssrcTable, r), r)
      /\ back.muxIdTable = Ls!Set(Ls!Without(l.muxIdTable, r), Ls!Keys(l.muxIdTable, r), r)
      /\ back.ptTable = Ls!Set(Ls!Without(l.ptTable, r), Ls!Keys(l.ptTable, r), r)
  BY <1>2 DEF Ls!RollbackRtpReceiver, Ls!AddKeys
<1>4. /\ new.ssrcTable = Ls!Set(Ls!Without(l.ssrcTable, r), Ls!Ssrcs(p), r)
      /\ new.muxIdTable = Ls!Set(Ls!Without(l.muxIdTable, r), Ls!MuxIds(p), r)
      /\ new.ptTable = Ls!Set(Ls!Without(l.ptTable, r), Ls!PayloadTypes(p), r)
  BY <1>2 DEF Ls!AddKeys
<1> HIDE DEF back, new
<1>5. CASE taken
  <2>1. NewTables(l, back, r, Ls!Keys(l.ssrcTable, r), Ls!Keys(l.muxIdTable, r),
                  Ls!Keys(l.ptTable, r))
    BY <1>3, TableRollback DEF NewTables
  <2>2. \A q : SameKeys(l, back, q)
    BY <2>1 DEF NewTables, Replaced, SameKeys
  <2> QED BY <1>1, <1>5, <2>2 DEF Added, a
<1>6. CASE ~taken
  <2>1. /\ \A k \in Ls!Ssrcs(p) \cap DOMAIN l.ssrcTable : l.ssrcTable[k] = r
        /\ \A k \in Ls!MuxIds(p) \cap DOMAIN l.muxIdTable : l.muxIdTable[k] = r
        /\ \A k \in Ls!PayloadTypes(p) \cap DOMAIN l.ptTable : l.ptTable[k] = r
    BY <1>6 DEF taken, Ls!HasSsrc, Ls!HasMuxId, Ls!HasPayloadType
  <2>2. NewTables(l, new, r, Ls!Ssrcs(p), Ls!MuxIds(p), Ls!PayloadTypes(p))
    BY <1>4, <2>1, TableReplace DEF NewTables
  <2>3. /\ \A q : q # r => SameKeys(l, new, q)
        /\ Listed(p, new, r)
    BY <2>2 DEF NewTables, Replaced, SameKeys, Listed
  <2> QED BY <1>1, <1>6, <2>3 DEF Added, a
<1> QED BY <1>5, <1>6

----------------------------------------------------------------------------
(* The invariant, of any state s of the listeners and the receivers.        *)

\* A receiver is a record of these fields.
RecordShaped(x) ==
    x \in [params : {x.params}, transport : {x.transport}, streams : {x.streams}, gen : {x.gen},
           rtxStreamMap : {x.rtxStreamMap}]

\* f is a function.
IsMap(f) == f = [x \in DOMAIN f |-> f[x]]
\* R is a function whose values are receivers.
RecsShaped(R) == IsMap(R) /\ \A r \in DOMAIN R : RecordShaped(R[r])

\* s is a record, and what it holds of the listeners and receivers functions.
LstShaped(s) ==
    /\ s \in [listeners : {s.listeners}, recs : {s.recs}, moved : {s.moved}, faults : {s.faults}]
    /\ IsMap(s.listeners) /\ RecsShaped(s.recs)

\* r may have entries in the listener of transport t: it is on that transport,
\* or was moved away from it.
May(s, t, r) ==
    /\ r \in DOMAIN s.recs
    /\ s.recs[r].params # Ls!NoParameters
    /\ t \in s.recs[r].transport \/ <<t, r>> \in s.moved

\* Only receivers that may have entries have them.
Owned(s) == \A t \in DOMAIN s.listeners : \A r : HasKeys(s.listeners[t], r) => May(s, t, r)

\* A receiver has at most one transport, which lives; its streams, and the
\* entries of the receiver there, are those of its parameters.
Settled(s, r) ==
    /\ s.recs[r].transport \subseteq DOMAIN s.listeners
    /\ \A t, u \in s.recs[r].transport : t = u
    /\ s.recs[r].params # Ls!NoParameters =>
         /\ s.recs[r].streams = {e.ssrc : e \in s.recs[r].params.encodings} \ {0}
         /\ \A t \in s.recs[r].transport : Listed(s.recs[r].params, s.listeners[t], r)

\* The tables hold what the receivers have, and nothing else.
Exact(s) == Owned(s) /\ \A r \in DOMAIN s.recs : Settled(s, r)

\* Exact is what ListenerExact says.
LEMMA ExactListener == Exact(lst) => Ls!ListenerExact
<1> SUFFICES ASSUME Exact(lst) PROVE Ls!ListenerExact
  OBVIOUS
<1>1. ASSUME NEW t \in Ls!Up
      PROVE  Ls!Range(lst.listeners[t].ssrcTable) \cup Ls!Range(lst.listeners[t].muxIdTable)
               \cup Ls!Range(lst.listeners[t].ptTable)
               \subseteq {r \in Ls!Live : /\ lst.recs[r].params # Ls!NoParameters
                                          /\ t \in lst.recs[r].transport \/ <<t, r>> \in lst.moved}
  <2> DEFINE l == lst.listeners[t]
  <2>1. \A r : HasKeys(l, r) => May(lst, t, r)
    BY DEF Exact, Owned, Ls!Up
  <2> HIDE DEF l
  <2>2. \A r \in Ls!Range(l.ssrcTable) \cup Ls!Range(l.muxIdTable) \cup Ls!Range(l.ptTable) :
          HasKeys(l, r)
    BY DEF HasKeys, Ls!Keys, Ls!Range
  <2>3. \A r \in Ls!Range(l.ssrcTable) \cup Ls!Range(l.muxIdTable) \cup Ls!Range(l.ptTable) :
          May(lst, t, r)
    BY <2>1, <2>2
  <2> QED BY <2>3 DEF May, Ls!Live, l
<1>2. \A r \in Ls!Live : Settled(lst, r)
  BY DEF Exact, Ls!Live
<1> QED BY <1>1, <1>2 DEF Ls!ListenerExact, Settled, Listed

\* Nobody else is disturbed by a change of receiver r.
Others(s, t, r) ==
    /\ DOMAIN t.listeners = DOMAIN s.listeners
    /\ \A u \in DOMAIN s.listeners : \A q : q # r => SameKeys(s.listeners[u], t.listeners[u], q)
    /\ DOMAIN t.recs \ {r} = DOMAIN s.recs \ {r}
    /\ \A q \in DOMAIN s.recs \ {r} : /\ t.recs[q].params = s.recs[q].params
                                      /\ t.recs[q].transport = s.recs[q].transport
                                      /\ t.recs[q].streams = s.recs[q].streams
    /\ \A u, q : q # r => (<<u, q>> \in t.moved <=> <<u, q>> \in s.moved)

\* A change of receiver r keeps Exact when r has entries only where it may
\* and those of its transport are those of its parameters.
LEMMA StepExact ==
    ASSUME NEW s, NEW t, NEW r, Exact(s), Others(s, t, r),
           \A u \in DOMAIN t.listeners : HasKeys(t.listeners[u], r) => May(t, u, r),
           r \in DOMAIN t.recs => Settled(t, r)
    PROVE  Exact(t)
<1>1. ASSUME NEW u \in DOMAIN t.listeners, NEW q, HasKeys(t.listeners[u], q), q # r
      PROVE  May(t, u, q)
  <2>1. HasKeys(s.listeners[u], q) /\ u \in DOMAIN s.listeners
    BY <1>1 DEF Others, SameKeys, HasKeys
  <2>2. May(s, u, q)
    BY <2>1 DEF Exact, Owned
  <2> QED BY <1>1, <2>2 DEF May, Others
<1>2. Owned(t)
  BY <1>1 DEF Owned
<1>3. ASSUME NEW q \in DOMAIN t.recs, q # r PROVE Settled(t, q)
  <2>1. q \in DOMAIN s.recs /\ Settled(s, q)
    BY <1>3 DEF Others, Exact
  <2>2. \A u \in DOMAIN s.listeners : SameKeys(s.listeners[u], t.listeners[u], q)
    BY <1>3 DEF Others
  <2>3. /\ t.recs[q].params = s.recs[q].params
        /\ t.recs[q].transport = s.recs[q].transport
        /\ t.recs[q].streams = s.recs[q].streams
        /\ DOMAIN t.listeners = DOMAIN s.listeners
    BY <1>3, <2>1 DEF Others
  <2> QED BY <2>1, <2>2, <2>3 DEF Settled, Listed, SameKeys
<1> QED BY <1>2, <1>3 DEF Exact

----------------------------------------------------------------------------
(* The operations of a receiver.                                            *)

\* What making the streams of r does: they are those of its encodings.
Streamed(s, t, r) ==
    /\ LstShaped(t)
    /\ t.listeners = s.listeners /\ t.moved = s.moved
    /\ DOMAIN t.recs = DOMAIN s.recs
    /\ \A q \in DOMAIN s.recs \ {r} : t.recs[q] = s.recs[q]
    /\ t.recs[r].params = s.recs[r].params
    /\ t.recs[r].transport = s.recs[r].transport
    /\ t.recs[r].streams = {e.ssrc : e \in s.recs[r].params.encodings} \ {0}

\* The streams of the old parameters go and those of the new ones are made.
LEMMA StreamsMade ==
    ASSUME NEW s, LstShaped(s), NEW r \in DOMAIN s.recs
    PROVE  Streamed(s, Ls!CreateRtpStreams(Ls!ClearRtpStreams(s, r), r), r)
<1> DEFINE c == Ls!ClearRtpStreams(s, r)
           p == c.recs[r].params
           made == {e \in p.encodings : e.ssrc # 0}
           rtx == {e \in made : e.hasRtx /\ e.rtx # 0 /\ e.rtx \notin DOMAIN c.recs[r].rtxStreamMap}
           new == [k \in {e.rtx : e \in rtx} |->
                     <<(CHOOSE e \in rtx : e.rtx = k).ssrc, c.recs[r].gen>>]
           old == c.recs[r].rtxStreamMap
           map == [k \in DOMAIN old \cup DOMAIN new |->
                     IF k \in DOMAIN new THEN new[k] ELSE old[k]]
           t == [c EXCEPT !.recs[r].streams = {e.ssrc : e \in made},
                          !.recs[r].rtxStreamMap = map]
           g == Ls!Fault(t, p.remb /\ made # {} /\ c.recs[r].transport = {},
                         "EnableRemb of no transport")
<1>1. Ls!CreateRtpStreams(Ls!ClearRtpStreams(s, r), r) = g
  BY DEF Ls!CreateRtpStreams
<1>2. /\ LstShaped(c) /\ c.listeners = s.listeners /\ c.moved = s.moved
      /\ DOMAIN c.recs = DOMAIN s.recs
      /\ c.recs[r].params = s.recs[r].params /\ c.recs[r].transport = s.recs[r].transport
      /\ \A q \in DOMAIN s.recs \ {r} : c.recs[q] = s.recs[q]
  <2>1. c.listeners = s.listeners /\ c.moved = s.moved /\ DOMAIN c.recs = DOMAIN s.recs
    BY DEF Ls!ClearRtpStreams, LstShaped, IsMap, RecsShaped
  <2>2. /\ c.recs[r].params = s.recs[r].params /\ c.recs[r].transport = s.recs[r].transport
        /\ \A q \in DOMAIN s.recs \ {r} : c.recs[q] = s.recs[q]
    BY DEF Ls!ClearRtpStreams, LstShaped, IsMap, RecsShaped, RecordShaped
  <2>3. RecordShaped(c.recs[r]) /\ IsMap(c.recs)
    BY DEF Ls!ClearRtpStreams, LstShaped, IsMap, RecsShaped, RecordShaped
  <2>4. c \in [listeners : {c.listeners}, recs : {c.recs}, moved : {c.moved}, faults : {c.faults}]
    BY DEF Ls!ClearRtpStreams, LstShaped, IsMap, RecsShaped
  <2>5. /\ RecsShaped(s.recs) /\ IsMap(s.listeners)
    BY DEF LstShaped, IsMap, RecsShaped
  <2> HIDE DEF c
  <2>6. LstShaped(c)
    BY <2>1, <2>2, <2>3, <2>4, <2>5 DEF LstShaped, IsMap, RecsShaped
  <2> QED BY <2>1, <2>2, <2>6
<1> HIDE DEF c, map, made
<1>3. /\ LstShaped(t) /\ t.listeners = c.listeners /\ t.moved = c.moved
      /\ DOMAIN t.recs = DOMAIN c.recs
      /\ t.recs[r].params = c.recs[r].params /\ t.recs[r].transport = c.recs[r].transport
      /\ t.recs[r].streams = {e.ssrc : e \in made}
      /\ \A q \in DOMAIN c.recs \ {r} : t.recs[q] = c.recs[q]
  <2>0. r \in DOMAIN c.recs
    BY <1>2
  <2>1. t.listeners = c.listeners /\ t.moved = c.moved /\ DOMAIN t.recs = DOMAIN c.recs
    BY <1>2, <2>0 DEF LstShaped, IsMap, RecsShaped
  <2>2. /\ t.recs[r].params = c.recs[r].params /\ t.recs[r].transport = c.recs[r].transport
        /\ t.recs[r].streams = {e.ssrc : e \in made}
        /\ \A q \in DOMAIN c.recs \ {r} : t.recs[q] = c.recs[q]
    BY <1>2, <2>0 DEF LstShaped, IsMap, RecsShaped, RecordShaped
  <2>3. RecordShaped(t.recs[r]) /\ IsMap(t.recs)
    BY <1>2, <2>0, ZenonT(60) DEF LstShaped, IsMap, RecsShaped, RecordShaped
  <2>4. t \in [listeners : {t.listeners}, recs : {t.recs}, moved : {t.moved}, faults : {t.faults}]
    BY <1>2, <2>0 DEF LstShaped, IsMap, RecsShaped
  <2>5. /\ RecsShaped(c.recs) /\ IsMap(c.listeners)
    BY <1>2 DEF LstShaped, IsMap, RecsShaped
  <2> HIDE DEF t
  <2>6. LstShaped(t)
    BY <2>1, <2>2, <2>3, <2>4, <2>5 DEF LstShaped, IsMap, RecsShaped
  <2> QED BY <2>1, <2>2, <2>6
<1> HIDE DEF t
<1>4. LstShaped(g) /\ g.listeners = t.listeners /\ g.moved = t.moved /\ g.recs = t.recs
  BY <1>3 DEF LstShaped, IsMap, RecsShaped, Ls!Fault
<1> HIDE DEF g
<1>5. {e.ssrc : e \in made} = {e.ssrc : e \in s.recs[r].params.encodings} \ {0}
  BY <1>2 DEF made
<1>6. Streamed(s, g, r)
  BY <1>2, <1>3, <1>4, <1>5 DEF Streamed
<1> QED BY <1>1, <1>6

----------------------------------------------------------------------------
(* The invariant and its preservation.                                      *)

\* The inductive invariant, as a predicate on the listener record.
LstInv(s) == LstShaped(s) /\ Exact(s)
\* The inductive invariant of the specification.
ListenerInv == LstInv(lst)

\* s with other listeners, receivers and history.
Updated(s, L, R, M) == [s EXCEPT !.listeners = L, !.recs = R, !.moved = M]

\* Replacing the listeners, the receivers and the history keeps the shape.
LEMMA ShapeOf ==
    ASSUME NEW s, LstShaped(s), NEW L, IsMap(L), NEW R, RecsShaped(R), NEW M
    PROVE  /\ LstShaped(Updated(s, L, R, M)) /\ Updated(s, L, R, M).listeners = L
           /\ Updated(s, L, R, M).recs = R /\ Updated(s, L, R, M).moved = M
<1> DEFINE t == Updated(s, L, R, M)
<1>1. t.listeners = L /\ t.recs = R /\ t.moved = M
  BY DEF LstShaped, IsMap, RecsShaped, Updated, Updated
<1>2. t \in [listeners : {t.listeners}, recs : {t.recs}, moved : {t.moved}, faults : {t.faults}]
  BY DEF LstShaped, IsMap, RecsShaped, Updated, Updated
<1> HIDE DEF t
<1>3. LstShaped(t)
  BY <1>1, <1>2 DEF LstShaped, IsMap, RecsShaped, Updated
<1> QED BY <1>1, <1>3 DEF t

\* A new receiver has no parameters and no entries.
LEMMA CreateInv ==
    ASSUME ListenerInv, NEW r, NEW t, Ls!CreateRtpReceiver(r, t)
    PROVE  ListenerInv'
<1> DEFINE rec == [params |-> Ls!NoParameters, transport |-> {t}, streams |-> {}, gen |-> 0,
                   rtxStreamMap |-> << >>]
           R == Ls!Set(lst.recs, {r}, rec)
<1>1. /\ LstShaped(lst) /\ Exact(lst) /\ r \notin DOMAIN lst.recs /\ t \in DOMAIN lst.listeners
      /\ lst' = [lst EXCEPT !.recs = R]
  BY DEF ListenerInv, LstInv, Ls!CreateRtpReceiver, Ls!Live, Ls!Up
<1>2. RecordShaped(rec) /\ rec.params = Ls!NoParameters /\ rec.transport = {t}
  BY DEF RecordShaped
<1> HIDE DEF rec
<1>3. /\ IsMap(R) /\ DOMAIN R = DOMAIN lst.recs \cup {r}
      /\ R[r] = rec /\ \A q \in DOMAIN lst.recs : R[q] = lst.recs[q]
  BY <1>1 DEF Ls!Set, IsMap
<1> HIDE DEF R
<1>4. RecsShaped(R)
  BY <1>1, <1>2, <1>3 DEF LstShaped, IsMap, RecsShaped, Updated
<1>5. lst' = Updated(lst, lst.listeners, R, lst.moved)
  BY <1>1 DEF LstShaped, IsMap, RecsShaped, Updated
<1>6. LstShaped(lst') /\ lst'.listeners = lst.listeners /\ lst'.recs = R /\ lst'.moved = lst.moved
  BY <1>1, <1>3, <1>4, <1>5, ShapeOf DEF LstShaped
<1>7. Others(lst, lst', r)
  BY <1>1, <1>3, <1>6 DEF Others, SameKeys
<1>8. \A u \in DOMAIN lst'.listeners : ~HasKeys(lst'.listeners[u], r)
  BY <1>1, <1>6 DEF Exact, Owned, May
<1>9. Settled(lst', r)
  BY <1>1, <1>2, <1>3, <1>6 DEF Settled
<1>10. Exact(lst')
  BY <1>1, <1>7, <1>8, <1>9, StepExact
<1> QED BY <1>6, <1>10 DEF ListenerInv, LstInv

\* Closing a receiver takes its entries from every listener.
LEMMA DestroyInv ==
    ASSUME ListenerInv, NEW r, Ls!Destroy(r)
    PROVE  ListenerInv'
<1> DEFINE L == [u \in DOMAIN lst.listeners |-> Ls!RemoveRtpReceiver(lst.listeners[u], r)]
           R == Ls!Restrict(lst.recs, Ls!Live \ {r})
           M == {m \in lst.moved : m[2] # r}
<1>1. /\ LstShaped(lst) /\ Exact(lst)
      /\ lst' = Updated(lst, L, R, M)
  BY DEF ListenerInv, LstInv, Ls!Destroy, Updated
<1>2. /\ IsMap(L) /\ DOMAIN L = DOMAIN lst.listeners
      /\ \A u \in DOMAIN lst.listeners : NewTables(lst.listeners[u], L[u], r, {}, {}, {})
  BY RemoveTables DEF IsMap
<1> HIDE DEF L
<1>3. /\ IsMap(R) /\ DOMAIN R = DOMAIN lst.recs \ {r}
      /\ \A q \in DOMAIN R : R[q] = lst.recs[q]
  BY DEF Ls!Restrict, Ls!Live, IsMap
<1> HIDE DEF R
<1>4. \A u, q : q # r => (<<u, q>> \in M <=> <<u, q>> \in lst.moved)
  OBVIOUS
<1> HIDE DEF M
<1>5. RecsShaped(R)
  BY <1>1, <1>3 DEF LstShaped, IsMap, RecsShaped, Updated
<1>6. LstShaped(lst') /\ lst'.listeners = L /\ lst'.recs = R /\ lst'.moved = M
  BY <1>1, <1>2, <1>3, <1>5, ShapeOf
<1>7. Others(lst, lst', r) /\ r \notin DOMAIN lst'.recs
  BY <1>2, <1>3, <1>4, <1>6 DEF Others, SameKeys, NewTables, Replaced
<1>8. \A u \in DOMAIN lst'.listeners : ~HasKeys(lst'.listeners[u], r)
  BY <1>2, <1>6 DEF HasKeys, NewTables, Replaced
<1>9. Exact(lst')
  BY <1>1, <1>7, <1>8, StepExact
<1> QED BY <1>6, <1>9 DEF ListenerInv, LstInv

\* When a transport closes its listener is gone and nobody is on it.
LEMMA CloseTransportInv ==
    ASSUME ListenerInv, NEW t, Ls!CloseTransport(t)
    PROVE  ListenerInv'
<1> DEFINE L == Ls!Restrict(lst.listeners, Ls!Up \ {t})
           R == [r \in DOMAIN lst.recs |->
                   [lst.recs[r] EXCEPT !.transport = @ \ {t}]]
           M == {m \in lst.moved : m[1] # t}
<1>0. lst' = Updated(lst, L, R, M)
  BY Zenon DEF Ls!CloseTransport, Ls!Live, Updated
<1>1. LstShaped(lst) /\ Exact(lst) /\ lst' = Updated(lst, L, R, M)
  BY <1>0 DEF ListenerInv, LstInv
<1>2. /\ IsMap(L) /\ DOMAIN L = DOMAIN lst.listeners \ {t}
      /\ \A u \in DOMAIN L : L[u] = lst.listeners[u]
  BY DEF Ls!Restrict, Ls!Up, IsMap
<1> HIDE DEF L
<1>3. /\ IsMap(R) /\ DOMAIN R = DOMAIN lst.recs
      /\ \A q \in DOMAIN R :
           R[q] = [lst.recs[q] EXCEPT !.transport = @ \ {t}]
  BY DEF IsMap
<1> HIDE DEF R
<1>4. \A u, q : u # t => (<<u, q>> \in M <=> <<u, q>> \in lst.moved)
  OBVIOUS
<1> HIDE DEF M
<1>5. \A q \in DOMAIN lst.recs : RecordShaped(lst.recs[q])
  BY <1>1 DEF LstShaped, IsMap, RecsShaped, Updated
<1>6. \A q \in DOMAIN R : /\ RecordShaped(R[q]) /\ R[q].transport = lst.recs[q].transport \ {t}
                          /\ R[q].params = lst.recs[q].params
                          /\ R[q].streams = lst.recs[q].streams
  <2> SUFFICES ASSUME NEW x, RecordShaped(x), NEW y, y = [x EXCEPT !.transport = @ \ {t}]
               PROVE  /\ RecordShaped(y) /\ y.transport = x.transport \ {t}
                      /\ y.params = x.params /\ y.streams = x.streams
    BY <1>3, <1>5
  <2> QED BY DEF RecordShaped
<1>65. RecsShaped(R)
  BY <1>3, <1>6 DEF RecsShaped
<1>7. LstShaped(lst') /\ lst'.listeners = L /\ lst'.recs = R /\ lst'.moved = M
  BY <1>1, <1>2, <1>65, ShapeOf
<1>8. Owned(lst')
  <2> SUFFICES ASSUME NEW u \in DOMAIN L, NEW q, HasKeys(L[u], q) PROVE May(lst', u, q)
    BY <1>7 DEF Owned
  <2>1. u # t /\ May(lst, u, q)
    BY <1>1, <1>2 DEF Exact, Owned
  <2> QED BY <1>3, <1>4, <1>6, <1>7, <2>1 DEF May
<1>9. ASSUME NEW q \in DOMAIN R PROVE Settled(lst', q)
  <2>1. Settled(lst, q)
    BY <1>1, <1>3 DEF Exact
  <2>2. \A u \in R[q].transport : u \in lst.recs[q].transport /\ u # t
    BY <1>6
  <2>3. \A u \in R[q].transport : u \in DOMAIN L /\ L[u] = lst.listeners[u]
    BY <1>2, <2>1, <2>2 DEF Settled
  <2> QED BY <1>6, <1>7, <2>1, <2>2, <2>3 DEF Settled
<1>10. Exact(lst')
  BY <1>7, <1>8, <1>9 DEF Exact
<1> QED BY <1>7, <1>10 DEF ListenerInv, LstInv

\* A new transport begins with empty tables.
LEMMA OpenTransportInv ==
    ASSUME ListenerInv, NEW t, Ls!OpenTransport(t)
    PROVE  ListenerInv'
<1> DEFINE L == Ls!Set(lst.listeners, {t}, Ls!NewListener)
<1>1. /\ LstShaped(lst) /\ Exact(lst) /\ t \notin DOMAIN lst.listeners
      /\ lst' = [lst EXCEPT !.listeners = L]
  BY DEF ListenerInv, LstInv, Ls!OpenTransport, Ls!Up
<1>2. /\ IsMap(L) /\ DOMAIN L = DOMAIN lst.listeners \cup {t}
      /\ L[t] = Ls!NewListener /\ \A u \in DOMAIN lst.listeners : L[u] = lst.listeners[u]
  BY <1>1 DEF Ls!Set, IsMap
<1> HIDE DEF L
<1>3. lst' = Updated(lst, L, lst.recs, lst.moved)
  BY <1>1 DEF LstShaped, IsMap, RecsShaped, Updated
<1>4. LstShaped(lst') /\ lst'.listeners = L /\ lst'.recs = lst.recs /\ lst'.moved = lst.moved
  BY <1>1, <1>2, <1>3, ShapeOf DEF LstShaped
<1>5. DOMAIN << >> = {}
  OBVIOUS
<1>6. \A q : ~HasKeys(Ls!NewListener, q)
  BY <1>5 DEF Ls!NewListener, HasKeys, Ls!Keys
<1>7. Owned(lst')
  BY <1>1, <1>2, <1>4, <1>6 DEF Exact, Owned, May
<1>8. ASSUME NEW q \in DOMAIN lst.recs PROVE Settled(lst', q)
  <2>1. Settled(lst, q)
    BY <1>1 DEF Exact
  <2> QED BY <1>2, <1>4, <2>1 DEF Settled
<1> QED BY <1>4, <1>7, <1>8 DEF ListenerInv, LstInv, Exact

\* States that differ in the faults only.
LEMMA SameExact ==
    ASSUME NEW s, NEW t, Exact(s), t.listeners = s.listeners, t.recs = s.recs, t.moved = s.moved
    PROVE  Exact(t)
BY DEF Exact, Owned, May, Settled

\* A fault of another kind changes nothing here.
LEMMA FaultInv ==
    ASSUME NEW s, LstInv(s), NEW c, NEW what
    PROVE  LstInv(Ls!Fault(s, c, what))
<1> DEFINE t == Ls!Fault(s, c, what)
<1>1. LstShaped(s) /\ Exact(s)
  BY DEF LstInv
<1>2. LstShaped(t) /\ t.listeners = s.listeners /\ t.recs = s.recs /\ t.moved = s.moved
  BY <1>1 DEF LstShaped, IsMap, RecsShaped, Updated, Ls!Fault
<1> HIDE DEF t
<1>3. LstInv(t)
  BY <1>1, <1>2, SameExact DEF LstInv
<1> QED BY <1>3 DEF t

\* s in which the listener of t is m.
LEMMA ListenerShape ==
    ASSUME NEW s, LstShaped(s), NEW t \in DOMAIN s.listeners, NEW m, NEW n,
           n = [s EXCEPT !.listeners[t] = m]
    PROVE  /\ LstShaped(n) /\ n.recs = s.recs /\ n.moved = s.moved
           /\ DOMAIN n.listeners = DOMAIN s.listeners /\ n.listeners[t] = m
           /\ \A u \in DOMAIN s.listeners \ {t} : n.listeners[u] = s.listeners[u]
<1> DEFINE L == [s.listeners EXCEPT ![t] = m]
<1>1. n = Updated(s, L, s.recs, s.moved)
  BY DEF LstShaped, IsMap, RecsShaped, Updated
<1>2. /\ IsMap(L) /\ DOMAIN L = DOMAIN s.listeners /\ L[t] = m
      /\ \A u \in DOMAIN s.listeners \ {t} : L[u] = s.listeners[u]
  BY DEF LstShaped, IsMap, RecsShaped, Updated
<1> HIDE DEF L
<1>3. LstShaped(n) /\ n.listeners = L /\ n.recs = s.recs /\ n.moved = s.moved
  BY <1>1, <1>2, ShapeOf DEF LstShaped
<1> QED BY <1>2, <1>3

\* A packet whose SSRC is not known is given to the receiver of its payload
\* type, which keeps the SSRC, in the listener of the transport it came by.
LEMMA LearnInv ==
    ASSUME NEW s, LstInv(s), NEW t \in DOMAIN s.listeners, NEW ssrc,
           ssrc \notin DOMAIN s.listeners[t].ssrcTable, NEW pt \in DOMAIN s.listeners[t].ptTable
    PROVE  LstInv([s EXCEPT !.listeners[t] =
                     Ls!AddKeys(s.listeners[t], s.listeners[t].ptTable[pt], {ssrc}, {}, {})])
<1> DEFINE l == s.listeners[t]
           r == l.ptTable[pt]
           m == Ls!AddKeys(l, r, {ssrc}, {}, {})
           n == [s EXCEPT !.listeners[t] = m]
<1>1. LstShaped(s) /\ Exact(s)
  BY DEF LstInv
<1>2. /\ LstShaped(n) /\ n.recs = s.recs /\ n.moved = s.moved
      /\ DOMAIN n.listeners = DOMAIN s.listeners /\ n.listeners[t] = m
      /\ \A u \in DOMAIN s.listeners \ {t} : n.listeners[u] = s.listeners[u]
  BY <1>1, ListenerShape
<1>3. /\ m.ssrcTable = Ls!Set(l.ssrcTable, {ssrc}, r) /\ m.muxIdTable = Ls!Set(l.muxIdTable, {}, r)
      /\ m.ptTable = Ls!Set(l.ptTable, {}, r)
  BY DEF Ls!AddKeys
<1>4. pt \in Ls!Keys(l.ptTable, r)
  BY DEF Ls!Keys
<1>5. May(s, t, r)
  BY <1>1, <1>4 DEF Exact, Owned, HasKeys
<1>6. ssrc \notin DOMAIN l.ssrcTable
  OBVIOUS
<1> HIDE DEF n, m, r
<1>7. /\ Replaced(l.ssrcTable, m.ssrcTable, r, Ls!Keys(l.ssrcTable, r) \cup {ssrc})
      /\ Replaced(l.muxIdTable, m.muxIdTable, r, Ls!Keys(l.muxIdTable, r) \cup {})
      /\ Replaced(l.ptTable, m.ptTable, r, Ls!Keys(l.ptTable, r) \cup {})
  BY <1>3, <1>6, TableSet
<1>8. /\ \A q : q # r => SameKeys(l, m, q)
      /\ Ls!Keys(m.ssrcTable, r) = Ls!Keys(l.ssrcTable, r) \cup {ssrc}
      /\ Ls!Keys(m.muxIdTable, r) = Ls!Keys(l.muxIdTable, r)
      /\ Ls!Keys(m.ptTable, r) = Ls!Keys(l.ptTable, r)
  BY <1>7 DEF Replaced, SameKeys
<1>9. Others(s, n, r)
  BY <1>2, <1>8 DEF Others, SameKeys
<1>10. \A u \in DOMAIN n.listeners : HasKeys(n.listeners[u], r) => May(n, u, r)
  <2>1. May(n, t, r)
    BY <1>2, <1>5 DEF May
  <2>2. \A u \in DOMAIN s.listeners \ {t} : HasKeys(n.listeners[u], r) => May(n, u, r)
    BY <1>1, <1>2 DEF Exact, Owned, May
  <2> QED BY <1>2, <2>1, <2>2
<1>11. Settled(n, r)
  <2>1. Settled(s, r) /\ s.recs[r].params # Ls!NoParameters
    BY <1>1, <1>5 DEF Exact, May
  <2>2. ASSUME t \in s.recs[r].transport PROVE Listed(s.recs[r].params, m, r)
    <3>1. Listed(s.recs[r].params, l, r)
      BY <2>1, <2>2 DEF Settled
    <3> QED BY <1>4, <1>8, <3>1 DEF Listed
  <2> QED BY <1>2, <2>1, <2>2 DEF Settled
<1>12. Exact(n)
  BY <1>1, <1>9, <1>10, <1>11, StepExact
<1>13. LstInv(n)
  BY <1>2, <1>12 DEF LstInv
<1> QED BY <1>13 DEF n, m, r

\* Looking up the receiver of a packet.
LEMMA PacketInv ==
    ASSUME ListenerInv, NEW t, NEW ssrc, NEW pt, Ls!RtpPacket(t, ssrc, pt)
    PROVE  ListenerInv'
<1> DEFINE l == lst.listeners[t]
           g == Ls!GetRtpReceiver(l, lst.recs, ssrc, pt)
           s == [lst EXCEPT !.listeners[t] = g.l]
<1>1. /\ t \in DOMAIN lst.listeners
      /\ \E r \in g.found : lst' = Ls!ReceiveRtpPacket(s, r, ssrc)
  BY DEF Ls!RtpPacket, Ls!Up
<1>2. LstInv(s)
  <2>1. CASE g.l = l
    <3>1. s = lst
      BY <1>1, <2>1 DEF ListenerInv, LstInv, LstShaped, IsMap, RecsShaped, Updated
    <3> QED BY <3>1 DEF ListenerInv
  <2>2. CASE ssrc \notin DOMAIN l.ssrcTable /\ pt \in DOMAIN l.ptTable
    <3>1. g.l = Ls!AddKeys(l, l.ptTable[pt], {ssrc}, {}, {})
      BY <2>2 DEF Ls!GetRtpReceiver
    <3>2. LstInv([lst EXCEPT !.listeners[t] = Ls!AddKeys(l, l.ptTable[pt], {ssrc}, {}, {})])
      BY <1>1, <2>2, LearnInv DEF ListenerInv
    <3> HIDE DEF g
    <3> QED BY <3>1, <3>2
  <2>3. CASE ~(ssrc \notin DOMAIN l.ssrcTable /\ pt \in DOMAIN l.ptTable)
    <3>1. g.l = l
      BY <2>3 DEF Ls!GetRtpReceiver
    <3> QED BY <2>1, <3>1
  <2> QED BY <2>2, <2>3
<1> HIDE DEF s, g
<1>3. PICK r \in g.found : lst' = Ls!ReceiveRtpPacket(s, r, ssrc)
  BY <1>1
<1>4. CASE lst' = s
  BY <1>2, <1>4 DEF ListenerInv
<1>5. CASE lst' # s
  <2>1. lst' = Ls!Fault(s, s.recs[r].rtxStreamMap[ssrc][2] # s.recs[r].gen, "freed stream")
    BY <1>3, <1>5 DEF Ls!ReceiveRtpPacket
  <2>2. LstInv(lst')
    BY <1>2, <2>1, FaultInv
  <2> QED BY <2>2 DEF ListenerInv
<1> QED BY <1>4, <1>5

\* A refused AddRtpReceiver leaves everything as it was.
LEMMA RefusedInv ==
    ASSUME ListenerInv, NEW r \in DOMAIN lst.recs, NEW t \in DOMAIN lst.listeners, NEW p, NEW a,
           Added(lst.listeners[t], a, r, p), ~a.ok, lst' = [lst EXCEPT !.listeners[t] = a.l]
    PROVE  ListenerInv'
<1>1. LstShaped(lst) /\ Exact(lst) /\ Settled(lst, r)
  BY DEF ListenerInv, LstInv, Exact
<1>2. /\ LstShaped(lst') /\ lst'.recs = lst.recs /\ lst'.moved = lst.moved
      /\ DOMAIN lst'.listeners = DOMAIN lst.listeners /\ lst'.listeners[t] = a.l
      /\ \A u \in DOMAIN lst.listeners \ {t} : lst'.listeners[u] = lst.listeners[u]
  BY <1>1, ListenerShape
<1>3. \A u \in DOMAIN lst.listeners : \A q : SameKeys(lst.listeners[u], lst'.listeners[u], q)
  BY <1>2 DEF Added, SameKeys
<1>4. Others(lst, lst', r)
  BY <1>2, <1>3 DEF Others
<1>5. \A u \in DOMAIN lst.listeners : HasKeys(lst'.listeners[u], r) => May(lst, u, r)
  BY <1>1, <1>3 DEF Exact, Owned, HasKeys, SameKeys
<1>6. \A u \in DOMAIN lst'.listeners : HasKeys(lst'.listeners[u], r) => May(lst', u, r)
  BY <1>2, <1>5 DEF May
<1>7. Settled(lst', r)
  BY <1>1, <1>2, <1>3 DEF Settled, Listed, SameKeys
<1>8. Exact(lst')
  BY <1>1, <1>4, <1>6, <1>7, StepExact
<1> QED BY <1>2, <1>8 DEF ListenerInv, LstInv

\* RTP_RECEIVER_SET_TRANSPORT: the entries of the receiver's parameters, or
\* everything as it was; the transport it had keeps the entries.
LEMMA SetTransportInv ==
    ASSUME ListenerInv, NEW r, NEW t, Ls!SetTransport(r, t)
    PROVE  ListenerInv'
<1> DEFINE x == lst.recs[r]
           p == x.params
           a == Ls!AddRtpReceiver(lst.listeners[t], r, p)
           L == [lst.listeners EXCEPT ![t] = a.l]
           R == [lst.recs EXCEPT ![r].transport = {t}]
           M == (lst.moved \cup (x.transport \X {r})) \ {<<t, r>>}
<1>1. LstShaped(lst) /\ Exact(lst) /\ r \in DOMAIN lst.recs /\ t \in DOMAIN lst.listeners
  BY DEF ListenerInv, LstInv, Ls!SetTransport, Ls!Live, Ls!Up
<1>2. Added(lst.listeners[t], a, r, p)
  BY AddTables
<1>3. lst' = IF p = Ls!NoParameters THEN Ls!Fault(lst, TRUE, "no RtpParameters")
             ELSE IF a.ok THEN Updated(lst, L, R, M)
             ELSE [lst EXCEPT !.listeners[t] = a.l]
  BY <1>1 DEF Ls!SetTransport, LstShaped, IsMap, RecsShaped, Updated
<1>4. RecordShaped(lst.recs[r]) /\ Settled(lst, r)
  BY <1>1 DEF LstShaped, IsMap, RecsShaped, Updated, Exact
<1>5. CASE p = Ls!NoParameters
  BY <1>3, <1>5, FaultInv DEF ListenerInv
<1> HIDE DEF a
<1>6. CASE p # Ls!NoParameters /\ ~a.ok
  BY <1>1, <1>2, <1>3, <1>6, RefusedInv
<1>7. CASE p # Ls!NoParameters /\ a.ok
  <2>1. lst' = Updated(lst, L, R, M)
    BY <1>3, <1>7
  <2>2. /\ IsMap(L) /\ DOMAIN L = DOMAIN lst.listeners /\ L[t] = a.l
        /\ \A u \in DOMAIN lst.listeners \ {t} : L[u] = lst.listeners[u]
    BY <1>1 DEF LstShaped, IsMap, RecsShaped, Updated
  <2>3. /\ IsMap(R) /\ DOMAIN R = DOMAIN lst.recs
        /\ \A q \in DOMAIN lst.recs \ {r} : R[q] = lst.recs[q]
        /\ R[r] = [lst.recs[r] EXCEPT !.transport = {t}]
    BY <1>1 DEF LstShaped, IsMap, RecsShaped, Updated
  <2>4. /\ \A u, q : q # r => (<<u, q>> \in M <=> <<u, q>> \in lst.moved)
        /\ \A u : u # t => (<<u, r>> \in M <=> <<u, r>> \in lst.moved \/ u \in x.transport)
    OBVIOUS
  <2> HIDE DEF L, R, M
  <2>5. /\ RecordShaped(R[r]) /\ R[r].params = p /\ R[r].transport = {t}
        /\ R[r].streams = lst.recs[r].streams
    BY <1>4, <2>3 DEF RecordShaped
  <2>6. RecsShaped(R)
    BY <1>1, <2>3, <2>5 DEF LstShaped, IsMap, RecsShaped, Updated
  <2>7. LstShaped(lst') /\ lst'.listeners = L /\ lst'.recs = R /\ lst'.moved = M
    BY <1>1, <2>1, <2>2, <2>3, <2>6, ShapeOf
  <2>8. Others(lst, lst', r)
    <3>1. \A u \in DOMAIN lst.listeners : \A q : q # r => SameKeys(lst.listeners[u], L[u], q)
      BY <1>2, <2>2 DEF Added, SameKeys
    <3> QED BY <1>1, <2>2, <2>3, <2>4, <2>7, <3>1 DEF Others
  <2>9. May(lst', t, r)
    BY <1>1, <1>7, <2>3, <2>5, <2>7 DEF May
  <2>10. ASSUME NEW u \in DOMAIN L, u # t, HasKeys(L[u], r) PROVE May(lst', u, r)
    <3>1. May(lst, u, r)
      BY <1>1, <2>2, <2>10 DEF Exact, Owned
    <3>2. <<u, r>> \in M
      BY <2>4, <2>10, <3>1 DEF May
    <3> QED BY <1>1, <1>7, <2>3, <2>5, <2>7, <3>2 DEF May
  <2>11. Settled(lst', r)
    <3>1. Listed(p, L[t], r)
      BY <1>2, <1>7, <2>2 DEF Added
    <3> QED BY <1>1, <1>4, <1>7, <2>2, <2>5, <2>7, <3>1 DEF Settled
  <2>12. \A u \in DOMAIN lst'.listeners : HasKeys(lst'.listeners[u], r) => May(lst', u, r)
    BY <2>7, <2>9, <2>10
  <2>13. Exact(lst')
    BY <1>1, <2>8, <2>11, <2>12, StepExact
  <2> QED BY <2>7, <2>13 DEF ListenerInv, LstInv
<1> QED BY <1>5, <1>6, <1>7

\* b is lst in which r has parameters p, and the listener of its transport, if
\* it has one, their entries.
Entered(b, r, p) ==
    /\ LstShaped(b) /\ b.moved = lst.moved /\ DOMAIN b.recs = DOMAIN lst.recs
    /\ \A q \in DOMAIN lst.recs \ {r} : b.recs[q] = lst.recs[q]
    /\ b.recs[r].params = p /\ b.recs[r].transport = lst.recs[r].transport
    /\ DOMAIN b.listeners = DOMAIN lst.listeners
    /\ \A u \in DOMAIN lst.listeners : \A q :
         q # r => SameKeys(lst.listeners[u], b.listeners[u], q)
    /\ \A u \in lst.recs[r].transport : Listed(p, b.listeners[u], r)
    /\ \A u \in DOMAIN lst.listeners \ lst.recs[r].transport : b.listeners[u] = lst.listeners[u]

\* New parameters and their streams, once their entries are made.
LEMMA EnteredInv ==
    ASSUME ListenerInv, NEW r \in DOMAIN lst.recs, NEW p, p # Ls!NoParameters,
           NEW b, Entered(b, r, p), lst' = Ls!CreateRtpStreams(Ls!ClearRtpStreams(b, r), r)
    PROVE  ListenerInv'
<1>1. Exact(lst) /\ Settled(lst, r)
  BY DEF ListenerInv, LstInv, Exact
<1>2. Streamed(b, lst', r)
  BY StreamsMade DEF Entered
<1>3. /\ LstShaped(lst') /\ lst'.listeners = b.listeners /\ lst'.moved = lst.moved
      /\ DOMAIN lst'.recs = DOMAIN lst.recs
      /\ \A q \in DOMAIN lst.recs \ {r} : lst'.recs[q] = lst.recs[q]
      /\ lst'.recs[r].params = p /\ lst'.recs[r].transport = lst.recs[r].transport
      /\ lst'.recs[r].streams = {e.ssrc : e \in p.encodings} \ {0}
  BY <1>2 DEF Streamed, Entered
<1>4. Others(lst, lst', r)
  BY <1>3 DEF Others, Entered
<1>5. ASSUME NEW u \in DOMAIN lst'.listeners, HasKeys(lst'.listeners[u], r) PROVE May(lst', u, r)
  <2>1. CASE u \in lst.recs[r].transport
    BY <1>3, <2>1 DEF May
  <2>2. CASE u \notin lst.recs[r].transport
    <3>1. May(lst, u, r)
      BY <1>1, <1>3, <1>5, <2>2 DEF Exact, Owned, Entered
    <3> QED BY <1>3, <3>1 DEF May
  <2> QED BY <2>1, <2>2
<1>6. Settled(lst', r)
  BY <1>1, <1>3 DEF Settled, Entered
<1>7. Exact(lst')
  BY <1>1, <1>4, <1>5, <1>6, StepExact
<1> QED BY <1>3, <1>7 DEF ListenerInv, LstInv

\* RTP_RECEIVER_RECEIVE: accepted parameters replace the old ones and their
\* entries and streams; refused ones leave no trace.
LEMMA ReceiveInv ==
    ASSUME ListenerInv, NEW r, NEW p, Ls!Receive(r, p)
    PROVE  ListenerInv'
<1> DEFINE R == [lst.recs EXCEPT ![r].params = p]
           s == [lst EXCEPT !.recs[r].params = p]
<1>0. p # Ls!NoParameters
  <2>1. p.codecs # {}
    BY Zenon DEF Ls!Receive
  <2>2. Ls!NoParameters.codecs = {}
    BY DEF Ls!NoParameters
  <2> QED BY <2>1, <2>2
<1>1. /\ LstShaped(lst) /\ Exact(lst) /\ r \in DOMAIN lst.recs /\ p # Ls!NoParameters
      /\ RecordShaped(lst.recs[r]) /\ Settled(lst, r)
  BY <1>0 DEF ListenerInv, LstInv, Ls!Receive, Ls!Live, LstShaped, RecsShaped, Exact
<1>2. /\ IsMap(R) /\ DOMAIN R = DOMAIN lst.recs
      /\ \A q \in DOMAIN lst.recs \ {r} : R[q] = lst.recs[q]
      /\ R[r] = [lst.recs[r] EXCEPT !.params = p]
  BY <1>1 DEF LstShaped, IsMap, RecsShaped, Updated
<1>3. s = Updated(lst, lst.listeners, R, lst.moved)
  BY <1>1 DEF LstShaped, IsMap, RecsShaped, Updated
<1> HIDE DEF R
<1>4. RecordShaped(R[r]) /\ R[r].params = p /\ R[r].transport = lst.recs[r].transport
  BY <1>1, <1>2 DEF RecordShaped
<1>5. RecsShaped(R)
  BY <1>1, <1>2, <1>4 DEF LstShaped, IsMap, RecsShaped, Updated
<1>6. \/ /\ lst.recs[r].transport = {}
         /\ lst' = Ls!CreateRtpStreams(Ls!ClearRtpStreams(s, r), r)
      \/ \E t \in lst.recs[r].transport :
           LET a == Ls!AddRtpReceiver(lst.listeners[t], r, p)
               b == [s EXCEPT !.listeners[t] = a.l]
           IN  lst' = IF a.ok THEN Ls!CreateRtpStreams(Ls!ClearRtpStreams(b, r), r)
                      ELSE [lst EXCEPT !.listeners[t] = a.l]
  BY DEF Ls!Receive
<1> HIDE DEF s
<1>7. LstShaped(s) /\ s.listeners = lst.listeners /\ s.recs = R /\ s.moved = lst.moved
  BY <1>1, <1>2, <1>3, <1>5, ShapeOf DEF LstShaped
<1>8. CASE lst.recs[r].transport = {} /\ lst' = Ls!CreateRtpStreams(Ls!ClearRtpStreams(s, r), r)
  <2>1. \A u \in DOMAIN lst.listeners : \A q : q # r => SameKeys(lst.listeners[u], s.listeners[u], q)
    BY <1>7 DEF SameKeys
  <2>2. Entered(s, r, p)
    BY <1>2, <1>4, <1>7, <1>8, <2>1 DEF Entered
  <2> QED BY <1>1, <1>8, <2>2, EnteredInv
<1>9. ASSUME NEW t \in lst.recs[r].transport, NEW a, NEW b, b = [s EXCEPT !.listeners[t] = a.l],
             a = Ls!AddRtpReceiver(lst.listeners[t], r, p),
             lst' = IF a.ok THEN Ls!CreateRtpStreams(Ls!ClearRtpStreams(b, r), r)
                    ELSE [lst EXCEPT !.listeners[t] = a.l]
      PROVE  ListenerInv'
  <2>1. /\ t \in DOMAIN lst.listeners /\ lst.recs[r].transport = {t}
        /\ Added(lst.listeners[t], a, r, p)
    BY <1>1, <1>9, AddTables DEF Settled
  <2>2. CASE ~a.ok
    BY <1>1, <1>9, <2>1, <2>2, RefusedInv
  <2>3. CASE a.ok
    <3>1. /\ LstShaped(b) /\ b.recs = R /\ b.moved = lst.moved
          /\ DOMAIN b.listeners = DOMAIN lst.listeners /\ b.listeners[t] = a.l
          /\ \A u \in DOMAIN lst.listeners \ {t} : b.listeners[u] = lst.listeners[u]
      BY <1>7, <1>9, <2>1, ListenerShape
    <3>2. \A u \in DOMAIN lst.listeners : \A q :
            q # r => SameKeys(lst.listeners[u], b.listeners[u], q)
      BY <2>1, <3>1 DEF Added, SameKeys
    <3>3. \A u \in lst.recs[r].transport : Listed(p, b.listeners[u], r)
      BY <2>1, <2>3, <3>1 DEF Added
    <3>4. lst' = Ls!CreateRtpStreams(Ls!ClearRtpStreams(b, r), r)
      BY <1>9, <2>3
    <3>5. Entered(b, r, p)
      BY <1>2, <1>4, <2>1, <3>1, <3>2, <3>3 DEF Entered
    <3> QED BY <1>1, <3>4, <3>5, EnteredInv
  <2> QED BY <2>2, <2>3
<1> QED BY <1>6, <1>8, <1>9

----------------------------------------------------------------------------
(* The theorems.                                                            *)

\* A new peer has no transports and no receivers.
LEMMA ListenerInit == Ls!Init => ListenerInv
<1> SUFFICES ASSUME Ls!Init PROVE LstShaped(lst) /\ Exact(lst)
  BY DEF ListenerInv, LstInv
<1>1. DOMAIN << >> = {}
  OBVIOUS
<1>2. lst.listeners = << >> /\ lst.recs = << >>
  BY DEF Ls!Init
<1>3. lst \in [listeners : {lst.listeners}, recs : {lst.recs}, moved : {lst.moved},
               faults : {lst.faults}]
  BY DEF Ls!Init
<1>4. << >> = [q \in {} |-> << >>[q]]
  OBVIOUS
<1>5. LstShaped(lst)
  BY <1>1, <1>2, <1>3, <1>4 DEF LstShaped, IsMap, RecsShaped, Updated
<1>6. Exact(lst)
  BY <1>1, <1>2 DEF Exact, Owned
<1> QED BY <1>5, <1>6

\* Every request, packet and change of a transport keeps the tables exact.
LEMMA ListenerNext == ListenerInv /\ [Ls!Next]_lst => ListenerInv'
<1> SUFFICES ASSUME ListenerInv, [Ls!Next]_lst PROVE ListenerInv'
  OBVIOUS
<1>1. CASE UNCHANGED lst
  BY <1>1 DEF ListenerInv
<1> QED BY <1>1, CreateInv, SetTransportInv, DestroyInv, ReceiveInv, CloseTransportInv,
           OpenTransportInv, PacketInv DEF Ls!Next

\* ListenerInv is inductive.
THEOREM ListenerInvariant == Ls!Spec => []ListenerInv
<1> QED BY ListenerInit, ListenerNext, PTL DEF Ls!Spec

\* A step of the worker is a step of its listener, or leaves it alone.
LEMMA PartsListener == PartsSpec => []ListenerInv
<1>1. PartsInit => Ls!Init
  BY DEF PartsInit
<1>2. [PartsNext]_<<vars, partVars, part>> => [Ls!Next]_lst
  BY DEF PartsNext, partVars
<1> QED BY <1>1, <1>2, ListenerInit, ListenerNext, PTL DEF PartsSpec

(***************************************************************************)
(* After any sequence of requests, accepted or refused, of packets and of   *)
(* transports that close and open, a receiver has in the RtpListener of its *)
(* transport exactly the entries of the parameters in force (and SSRCs      *)
(* learnt by payload type); it has entries in another listener only where   *)
(* RTP_RECEIVER_SET_TRANSPORT took it from there; nobody closed or without  *)
(* parameters has any; and a receiver's streams are those of its encodings. *)
(***************************************************************************)
THEOREM ListenerExactHolds == Ls!Spec \/ PartsSpec => []ListenerExact
<1>1. ListenerInv => ListenerExact
  BY ExactListener DEF ListenerInv, LstInv, ListenerExact
<1> QED BY <1>1, ListenerInvariant, PartsListener, PTL
=============================================================================
