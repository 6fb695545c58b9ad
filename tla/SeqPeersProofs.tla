--------------------------- MODULE SeqPeersProofs ---------------------------
(* Theorems about SeqPeers, for every number of clients, slots and lines,    *)
(* every length of a message, of its pieces and of the queues: no message    *)
(* stays half sent, a free slot keeps nothing, and the server and a client   *)
(* never wait for each other as long as a socket holds one full queue.       *)
EXTENDS SeqPeers, SequenceTheorems, TLAPS

Procs == Clients \cup {Server}

\* The lines that are typed, and the bytes of messages.
Lines == UNION {ToSet(plan.lines[p]) : plan \in Plans, p \in Procs}
Octets == (Lines \cup {None}) \X Int

\* What is assumed of the constants: slots, clients, the server and no socket
\* are told apart; a message is not empty and sent in pieces that are not; a
\* socket takes one full queue (100 messages of 640 bytes in the code).
SeqAssumption ==
    /\ List \in Seq(Slots) /\ IsInjective(List)
    /\ Slots \cap Clients = {} /\ {Server, None} \cap Ends = {}
    /\ Size \in Nat \ {0} /\ MaxSend \in Nat \ {0} /\ QueueSize \in Nat \ {0}
    /\ Capacity \in Nat /\ Size * QueueSize <= Capacity
    /\ \A plan \in Plans : /\ plan.lines \in [Procs -> Seq(Lines)]
                           /\ plan.clients \subseteq Clients /\ plan.ends \in Int

----------------------------------------------------------------------------
(* The inductive invariant.                                                  *)

PeerRecords ==
    [socket : Clients \cup {Server, None}, queue : Seq(Lines), sending : Lines \cup {None},
     byte : Int, got : Seq(Octets)]

States ==
    [peer : [Ends -> PeerRecords], wire : [Clients -> [Ways -> Seq(Octets)]],
     left : [Clients -> SUBSET Procs], backlog : Seq(Clients),
     todo : [Procs -> SUBSET ({"stdin", "accept", "recv", "send"} \X (Ends \cup {None}))],
     typed : [Procs -> Seq(Lines)], lines : [Procs -> Seq(Lines)], starts : SUBSET Clients,
     ended : SUBSET Procs, ends : Int, posted : [Clients -> [Ways -> Seq(Lines)]],
     handled : [Clients -> [Ways -> Seq(Seq(Octets))]]]

\* The bytes of n messages, and those a peer has still to send.
Volume(n) == Size * n
Unsent(peer) == Volume(Len(peer.queue)) + (IF peer.byte = -1 THEN 0 ELSE Size - peer.byte)

\* The buffers of a peer are within their limits; while a message is being sent
\* the queue has room for one.
PeerGood(peer) ==
    /\ peer.byte \in -1..Size
    /\ Len(peer.queue) <= QueueSize
    /\ peer.byte # -1 => Len(peer.queue) < QueueSize
    /\ Len(peer.got) <= Size

\* Type correctness and the bounds.
Typed(s) ==
    /\ s \in States
    /\ \A e \in Ends : PeerGood(s.peer[e])
    /\ \A c \in Clients : /\ s.left[c] \subseteq {c, Server}
                          /\ \A w \in Ways : Len(s.wire[c][w]) <= Capacity

\* What select found: there is a line to be read, a connection to be accepted, or
\* a peer of the process that is connected.  A process that has ended does nothing.
Found(s, p, t) ==
    \/ t = StdIn /\ s.typed[p] # << >>
    \/ t = Accept /\ p = Server /\ s.backlog # << >>
    \/ \E e \in Ends : /\ Process(e) = p /\ s.peer[e].socket # None
                       /\ t = <<"recv", e>> \/ t = <<"send", e>>
TodoGood(s) ==
    \A p \in Procs : /\ p \in s.ended => s.todo[p] = {}
                     /\ \A t \in s.todo[p] : Found(s, p, t)

\* A client connects once: it waits to be accepted, or has one slot, or had one.
OneHolder(s) ==
    /\ \A i \in Slots : s.peer[i].socket # None =>
         /\ s.peer[i].socket \in Clients
         /\ s.peer[s.peer[i].socket].socket = Server
         /\ \A j \in Slots : s.peer[j].socket = s.peer[i].socket => j = i
    /\ \A c \in Clients : s.peer[c].socket \in {Server, None}
    /\ \A k \in DOMAIN s.backlog :
         /\ s.peer[s.backlog[k]].socket = Server
         /\ \A i \in Slots : s.peer[i].socket # s.backlog[k]
         /\ \A l \in DOMAIN s.backlog : s.backlog[l] = s.backlog[k] => l = k

\* SlotsClean and NothingStuck of any state.
Clean(s) == \A i \in Slots : s.peer[i].socket = None => s.peer[i] = create_peer
First(s, p, t) == t \in s.todo[p] /\ \A u \in s.todo[p] : Order(t) <= Order(u)
NotStuck(s) ==
    \A e \in Ends :
      s.peer[e].byte # -1 /\ Process(e) \notin s.ended => First(s, Process(e), <<"send", e>>)

\* A process that is going to send to e, and will not receive from it before.
Committed(s, e) ==
    <<"send", e>> \in s.todo[Process(e)] /\ <<"recv", e>> \notin s.todo[Process(e)]

\* The bytes that will be sent from e in this round: a line that is read before
\* may fill the queue.  They fit when there is room for all of them.
Due(s, e) == IF StdIn \in s.todo[Process(e)] THEN Volume(QueueSize) ELSE Unsent(s.peer[e])
Fits(s, e) == Len(s.wire[Conn(s, e)][Out(e)]) + Due(s, e) <= Capacity

\* When both sides are committed, what one of them has to send fits: the one that
\* committed last found nothing on its way from the other.
OneFits(s) ==
    \A i \in Slots :
      LET c == s.peer[i].socket
      IN c # None /\ s.left[c] = {} /\ Committed(s, i) /\ Committed(s, c) => Fits(s, i) \/ Fits(s, c)

\* The inductive invariant, as a predicate on the state.
Inv(s) == Typed(s) /\ TodoGood(s) /\ OneHolder(s) /\ Clean(s) /\ NotStuck(s) /\ OneFits(s)
SeqInv == Inv(sp)

----------------------------------------------------------------------------
(* Arithmetic, and the order in which main looks at what select found.       *)

\* The smaller of two numbers.
LEMMA MinOfTwo ==
    ASSUME NEW a \in Int, NEW b \in Int
    PROVE  /\ Min({a, b}) \in {a, b}
           /\ Min({a, b}) <= a /\ Min({a, b}) <= b
<1>1. \E x \in {a, b} : \A y \in {a, b} : x <= y
  <2>1. CASE a <= b
    BY <2>1
  <2>2. CASE ~(a <= b)
    BY <2>2
  <2> QED BY <2>1, <2>2
<1> QED BY <1>1 DEF Min

\* A piece is not empty, and is no more than what is left of the message.
LEMMA PieceBounds ==
    ASSUME SeqAssumption, NEW n \in Int, n < Size
    PROVE  Piece(n) \in Int /\ 0 < Piece(n) /\ Piece(n) <= Size - n
<1>1. Size - n \in Int /\ 0 < Size - n /\ MaxSend \in Int /\ 0 < MaxSend
  BY DEF SeqAssumption
<1>2. LET m == Min({Size - n, MaxSend})
      IN m \in {Size - n, MaxSend} /\ m <= Size - n /\ m <= MaxSend
  BY <1>1, MinOfTwo
<1> QED BY <1>1, <1>2 DEF Piece

\* The volume of messages grows by the size of each.
LEMMA Volumes ==
    ASSUME SeqAssumption
    PROVE  /\ \A n \in Nat : Volume(n) \in Nat
           /\ \A n, m \in Nat : m = n + 1 => Volume(m) = Volume(n) + Size
           /\ \A n \in Nat : n <= QueueSize => Volume(n) <= Volume(QueueSize)
           /\ \A n \in Nat : n < QueueSize => Volume(n) + Size <= Volume(QueueSize)
           /\ Volume(QueueSize) \in Nat
           /\ Volume(0) = 0
           /\ Volume(QueueSize) <= Capacity
<1>1. Size \in Nat /\ QueueSize \in Nat
  BY DEF SeqAssumption
<1>2. \A n \in Nat : Size * n \in Nat
  BY <1>1
<1>3. \A n \in Nat : Size * (n + 1) = Size * n + Size
  BY <1>1
<1>4. ASSUME NEW n \in Nat, n <= QueueSize
      PROVE  Size * n <= Size * QueueSize
  BY <1>1, <1>4
<1>5. Size * 0 = 0
  BY <1>1
<1>6. ASSUME NEW n \in Nat, n < QueueSize
      PROVE  Size * n + Size <= Size * QueueSize
  <2>1. n + 1 \in Nat /\ n + 1 <= QueueSize
    BY <1>1, <1>6
  <2> QED BY <1>3, <1>4, <2>1
<1> QED BY <1>1, <1>2, <1>3, <1>4, <1>5, <1>6 DEF Volume, SeqAssumption

\* A peer has no more to send than a full queue.
LEMMA UnsentBounds ==
    ASSUME SeqAssumption, NEW peer \in PeerRecords, PeerGood(peer)
    PROVE  Unsent(peer) \in Nat /\ Unsent(peer) <= Volume(QueueSize)
<1>1. Len(peer.queue) \in Nat /\ Size \in Nat /\ QueueSize \in Nat
  BY DEF PeerRecords, SeqAssumption
<1>2. CASE peer.byte = -1
  <2>1. Unsent(peer) = Volume(Len(peer.queue)) + 0
    BY <1>2 DEF Unsent
  <2>2. Volume(Len(peer.queue)) \in Nat /\ Volume(Len(peer.queue)) <= Volume(QueueSize)
    BY <1>1, Volumes DEF PeerGood
  <2> QED BY <2>1, <2>2
<1>3. CASE peer.byte # -1
  <2>1. Len(peer.queue) < QueueSize /\ peer.byte \in 0..Size
    BY <1>1, <1>3 DEF PeerGood
  <2>2. /\ Volume(Len(peer.queue)) \in Nat
        /\ Volume(Len(peer.queue)) + Size <= Volume(QueueSize) /\ Volume(QueueSize) \in Nat
    BY <1>1, <2>1, Volumes
  <2>3. Unsent(peer) = Volume(Len(peer.queue)) + (Size - peer.byte)
    BY <1>3 DEF Unsent
  <2> QED BY <1>1, <2>1, <2>2, <2>3
<1> QED BY <1>2, <1>3

\* The place of a slot is its index; slots have different places.
LEMMA Places ==
    ASSUME SeqAssumption
    PROVE  /\ \A e \in Ends : Place(e) \in Nat /\ Place(e) >= 1
           /\ Place(None) = 0
           /\ \A i, j \in Slots : Place(i) = Place(j) => i = j
<1>1. \A i \in Slots : \E k \in DOMAIN List : List[k] = i
  BY DEF Slots, ToSet
<1>2. \A i \in Slots : Place(i) \in DOMAIN List /\ List[Place(i)] = i
  BY <1>1 DEF Place
<1>3. DOMAIN List = 1..Len(List) /\ Len(List) \in Nat
  BY DEF SeqAssumption
<1>4. \A e \in Clients : Place(e) = 1
  BY DEF SeqAssumption, Place, Ends
<1> QED BY <1>2, <1>3, <1>4 DEF Ends, SeqAssumption, Place

\* main comes to a different item at a time; it reads lines before it sends, and
\* receives from a peer before it sends to it.
LEMMA Orders ==
    ASSUME SeqAssumption, NEW s \in States, TodoGood(s), NEW p \in Procs
    PROVE  /\ \A t, u \in s.todo[p] : Order(t) \in Int /\ (Order(t) = Order(u) => t = u)
           /\ \A e \in Ends : /\ Order(StdIn) < Order(<<"send", e>>)
                              /\ Order(<<"recv", e>>) < Order(<<"send", e>>)
<1>1. /\ Order(StdIn) = 0 /\ Order(Accept) = 1
      /\ \A e \in Ends : /\ Order(<<"recv", e>>) = 2 * Place(e)
                         /\ Order(<<"send", e>>) = 2 * Place(e) + 1
  BY Places DEF Order, StdIn, Accept
<1>2. \A e, f \in Ends : Process(e) = Process(f) /\ Place(e) = Place(f) => e = f
  BY Places DEF Process, Ends, SeqAssumption
<1>3. \A e \in Ends : Place(e) \in Nat /\ Place(e) >= 1
  BY Places
<1>4. ASSUME NEW t \in s.todo[p]
      PROVE  \/ t = StdIn \/ t = Accept
             \/ \E e \in Ends : Process(e) = p /\ (t = <<"recv", e>> \/ t = <<"send", e>>)
  BY <1>4 DEF TodoGood, Found
<1>5. ASSUME NEW t \in s.todo[p], NEW u \in s.todo[p], Order(t) = Order(u)
      PROVE  t = u
  <2>1. CASE t \in {StdIn, Accept} \/ u \in {StdIn, Accept}
    <3>1. ASSUME NEW x \in s.todo[p], x \notin {StdIn, Accept}
          PROVE  Order(x) \in Int /\ Order(x) >= 2
      <4>1. PICK e \in Ends : x = <<"recv", e>> \/ x = <<"send", e>>
        BY <1>4, <3>1
      <4>2. Order(x) = 2 * Place(e) \/ Order(x) = 2 * Place(e) + 1
        BY <1>1, <4>1
      <4> QED BY <1>3, <4>2
    <3> QED BY <1>1, <1>5, <2>1, <3>1
  <2>2. CASE t \notin {StdIn, Accept} /\ u \notin {StdIn, Accept}
    <3>1. PICK e \in Ends : Process(e) = p /\ (t = <<"recv", e>> \/ t = <<"send", e>>)
      BY <1>4, <2>2
    <3>2. PICK f \in Ends : Process(f) = p /\ (u = <<"recv", f>> \/ u = <<"send", f>>)
      BY <1>4, <2>2
    <3>3. Order(t) \in {2 * Place(e), 2 * Place(e) + 1} /\ Order(u) \in {2 * Place(f), 2 * Place(f) + 1}
      BY <1>1, <3>1, <3>2
    <3>4. Place(e) = Place(f)
      BY <1>3, <1>5, <3>3
    <3>5. e = f
      BY <1>2, <3>1, <3>2, <3>4
    <3> QED BY <1>1, <1>3, <1>5, <3>1, <3>2, <3>5
  <2> QED BY <2>1, <2>2
<1>6. ASSUME NEW t \in s.todo[p]
      PROVE  Order(t) \in Int
  <2>1. CASE t \in {StdIn, Accept}
    BY <1>1, <2>1
  <2>2. CASE t \notin {StdIn, Accept}
    <3>1. PICK e \in Ends : t = <<"recv", e>> \/ t = <<"send", e>>
      BY <1>4, <2>2
    <3>2. Order(t) = 2 * Place(e) \/ Order(t) = 2 * Place(e) + 1
      BY <1>1, <3>1
    <3> QED BY <1>3, <3>2
  <2> QED BY <2>1, <2>2
<1> QED BY <1>1, <1>3, <1>5, <1>6

----------------------------------------------------------------------------
(* What a process does to a peer keeps the invariant.                        *)

\* The process of an end, and the connection of one that has a socket.
LEMMA EndFacts ==
    ASSUME SeqAssumption
    PROVE  /\ \A e \in Ends : Process(e) \in Procs /\ In(e) \in Ways /\ Out(e) \in Ways
           /\ \A e, f \in Ends : In(e) = Out(f) <=> (e \in Slots <=> f \in Clients)
           /\ \A i \in Slots : i \in Ends /\ i \notin Clients /\ Process(i) = Server /\ In(i) = "up" /\ Out(i) = "down"
           /\ \A c \in Clients : /\ c \in Ends /\ c \notin Slots /\ Process(c) = c
                                 /\ In(c) = "down" /\ Out(c) = "up"
           /\ \A s : \A i \in Slots : Conn(s, i) = s.peer[i].socket
           /\ \A s : \A c \in Clients : Conn(s, c) = c
BY DEF SeqAssumption, Ends, Procs, Process, In, Out, Ways, Conn

\* A peer with a socket is an end of the connection of a client.
LEMMA ConnFacts ==
    ASSUME SeqAssumption, NEW s \in States, OneHolder(s), NEW e \in Ends, s.peer[e].socket # None
    PROVE  Conn(s, e) \in Clients
BY EndFacts DEF OneHolder, Ends

\* A process that ends does nothing more, and is missed by its peers.
LEMMA ShutdownInv ==
    ASSUME SeqAssumption, NEW s, Inv(s), NEW p \in Procs
    PROVE  Inv(shutdown_properly(s, p))
<1> DEFINE t == shutdown_properly(s, p)
<1>1. s \in States
  BY DEF Inv, Typed
<1>2. /\ t.peer = s.peer /\ t.wire = s.wire /\ t.backlog = s.backlog /\ t.typed = s.typed
      /\ t.ended = s.ended \cup {p} /\ t.todo = [s.todo EXCEPT ![p] = {}]
      /\ \A c \in Clients : t.left[c] = IF p = Server \/ c = p THEN s.left[c] \cup {p} ELSE s.left[c]
  BY <1>1 DEF shutdown_properly, States
<1>3. t \in States
  <2>1. [c \in Clients |-> IF c \in (IF p = Server THEN Clients ELSE {p}) THEN s.left[c] \cup {p} ELSE s.left[c]]
        \in [Clients -> SUBSET Procs]
    BY <1>1 DEF States
  <2>2. s.ended \cup {p} \in SUBSET Procs
    BY <1>1 DEF States
  <2> QED BY <1>1, <2>1, <2>2 DEF shutdown_properly, States
<1>4. /\ s.todo \in [Procs -> SUBSET ({"stdin", "accept", "recv", "send"} \X (Ends \cup {None}))]
      /\ s.left \in [Clients -> SUBSET Procs]
  BY <1>1 DEF States
<1>5. /\ t.todo[p] = {}
      /\ \A q \in Procs : q # p => t.todo[q] = s.todo[q]
  BY <1>2, <1>4
<1> HIDE DEF t
<1>6. Typed(t)
  <2>1. ASSUME NEW c \in Clients
        PROVE  t.left[c] \subseteq {c, Server}
    <3>1. s.left[c] \subseteq {c, Server}
      BY DEF Inv, Typed
    <3>2. t.left[c] = s.left[c] \/ ((p = Server \/ p = c) /\ t.left[c] = s.left[c] \cup {p})
      BY <1>2
    <3> QED BY <3>1, <3>2
  <2> QED BY <1>2, <1>3, <2>1 DEF Inv, Typed
<1>7. TodoGood(t)
  BY <1>2, <1>5 DEF Inv, TodoGood, Found
<1>8. OneHolder(t) /\ Clean(t)
  BY <1>2 DEF Inv, OneHolder, Clean
<1>9. NotStuck(t)
  BY <1>2, <1>5, EndFacts, SMTT(60) DEF Inv, NotStuck, First
<1>10. OneFits(t)
  <2> SUFFICES ASSUME NEW i \in Slots, t.peer[i].socket # None, t.left[t.peer[i].socket] = {},
                      Committed(t, i), Committed(t, t.peer[i].socket)
               PROVE  Fits(t, i) \/ Fits(t, t.peer[i].socket)
    BY DEF OneFits
  <2> DEFINE c == s.peer[i].socket
  <2>1. c \in Clients /\ t.peer[i].socket = c
    BY <1>2 DEF Inv, OneHolder
  <2>2. p # Server /\ p # c
    BY <1>5, <2>1, EndFacts DEF Committed
  <2>3. t.todo[Process(i)] = s.todo[Process(i)] /\ t.todo[Process(c)] = s.todo[Process(c)]
    BY <1>5, <2>1, <2>2, EndFacts
  <2>4. Committed(s, i) /\ Committed(s, c) /\ s.left[c] = {}
    BY <1>2, <2>1, <2>3 DEF Committed
  <2>5. Fits(s, i) \/ Fits(s, c)
    BY <2>1, <2>4 DEF Inv, OneFits, SeqAssumption, Ends
  <2> QED BY <1>2, <2>1, <2>3, <2>5, EndFacts DEF Fits, Due, Conn
<1> QED BY <1>6, <1>7, <1>8, <1>9, <1>10 DEF Inv, t

\* A step that changes the buffers of one connected peer, or what is on its way,
\* and takes no room from what fits.
LEMMA PeerStepInv ==
    ASSUME SeqAssumption, NEW s, Inv(s), NEW t \in States,
           NEW e \in Ends, s.peer[e].socket # None,
           t.todo = s.todo, t.left = s.left, t.backlog = s.backlog, t.typed = s.typed,
           t.ended = s.ended,
           \A x \in Ends : x # e => t.peer[x] = s.peer[x],
           t.peer[e].socket = s.peer[e].socket,
           PeerGood(t.peer[e]),
           \A c \in Clients, w \in Ways : Len(t.wire[c][w]) <= Capacity,
           t.peer[e].byte # -1 /\ Process(e) \notin s.ended => First(s, Process(e), <<"send", e>>),
           \A x \in Ends : s.peer[x].socket # None /\ s.left[Conn(s, x)] = {} /\ Fits(s, x) => Fits(t, x)
    PROVE  Inv(t)
<1>1. \A x \in Ends : t.peer[x].socket = s.peer[x].socket
  OBVIOUS
<1>2. Typed(t)
  BY DEF Inv, Typed
<1>3. TodoGood(t)
  BY <1>1 DEF Inv, TodoGood, Found
<1>4. OneHolder(t)
  <2>1. /\ \A i \in Slots : i \in Ends
        /\ \A c \in Clients : c \in Ends
        /\ \A k \in DOMAIN s.backlog : s.backlog[k] \in Clients
    BY DEF Inv, Typed, States, Ends
  <2> QED BY <1>1, <2>1 DEF Inv, OneHolder
<1>5. Clean(t)
  BY <1>1, EndFacts DEF Inv, Clean
<1>6. NotStuck(t)
  BY DEF Inv, NotStuck, First
<1>7. OneFits(t)
  <2> SUFFICES ASSUME NEW i \in Slots, t.peer[i].socket # None, t.left[t.peer[i].socket] = {},
                      Committed(t, i), Committed(t, t.peer[i].socket)
               PROVE  Fits(t, i) \/ Fits(t, t.peer[i].socket)
    BY DEF OneFits
  <2> DEFINE c == s.peer[i].socket
  <2>1. t.peer[i].socket = c /\ c # None
    BY <1>1, EndFacts
  <2>2. c \in Clients /\ c \in Ends /\ i \in Ends /\ s.peer[c].socket # None
    BY <2>1, EndFacts DEF Inv, OneHolder, Server, None
  <2>3. Conn(s, i) = c /\ Conn(s, c) = c
    BY <2>2, EndFacts
  <2>4. Committed(s, i) /\ Committed(s, c) /\ s.left[c] = {}
    BY <2>1 DEF Committed
  <2>5. Fits(s, i) \/ Fits(s, c)
    BY <2>1, <2>4 DEF Inv, OneFits
  <2> QED BY <2>1, <2>2, <2>3, <2>4, <2>5
<1> QED BY <1>2, <1>3, <1>4, <1>5, <1>6, <1>7 DEF Inv

\* A full queue fits where nothing is on its way.
LEMMA EmptyFits ==
    ASSUME SeqAssumption, NEW s, Typed(s), NEW x \in Ends, s.wire[Conn(s, x)][Out(x)] = << >>
    PROVE  Fits(s, x)
<1>1. Len(s.wire[Conn(s, x)][Out(x)]) = 0
  OBVIOUS
<1>2. s.peer[x] \in PeerRecords /\ PeerGood(s.peer[x])
  BY DEF Typed, States
<1>3. Unsent(s.peer[x]) \in Nat /\ Unsent(s.peer[x]) <= Volume(QueueSize)
  BY <1>2, UnsentBounds
<1>4. Due(s, x) \in Nat /\ Due(s, x) <= Volume(QueueSize)
  BY <1>3, Volumes DEF Due
<1> QED BY <1>1, <1>4, Volumes DEF Fits, SeqAssumption

\* A step that is through with what main has come to: no message is half sent to
\* the peer, or nothing is on its way from it.
LEMMA DoneInv ==
    ASSUME SeqAssumption, NEW s, Inv(s), NEW p \in Procs, NEW u, First(s, p, u), u # StdIn,
           \A e \in Ends : u = <<"send", e>> => s.peer[e].byte = -1,
           \A e \in Ends : u = <<"recv", e>> => s.wire[Conn(s, e)][In(e)] = << >>
    PROVE  Inv(Done(s, p, u))
<1> DEFINE t == Done(s, p, u)
<1>1. s \in States
  BY DEF Inv, Typed
<1>2. /\ t.peer = s.peer /\ t.wire = s.wire /\ t.backlog = s.backlog /\ t.typed = s.typed
      /\ t.ended = s.ended /\ t.left = s.left
      /\ t.todo = [s.todo EXCEPT ![p] = s.todo[p] \ {u}]
  BY <1>1 DEF Done, States
<1>3. s.todo \in [Procs -> SUBSET ({"stdin", "accept", "recv", "send"} \X (Ends \cup {None}))]
  BY <1>1 DEF States
<1>4. s.todo[p] \ {u} \in SUBSET ({"stdin", "accept", "recv", "send"} \X (Ends \cup {None}))
  BY <1>3
<1>5. t \in States
  BY <1>1, <1>4 DEF Done, States
<1>6. /\ t.todo[p] = s.todo[p] \ {u}
      /\ \A q \in Procs : q # p => t.todo[q] = s.todo[q]
      /\ \A q \in Procs : t.todo[q] \subseteq s.todo[q]
  BY <1>2, <1>3
<1> HIDE DEF t
<1>7. Typed(t)
  BY <1>2, <1>5 DEF Inv, Typed
<1>8. TodoGood(t)
  BY <1>2, <1>6 DEF Inv, TodoGood, Found
<1>9. OneHolder(t) /\ Clean(t)
  BY <1>2 DEF Inv, OneHolder, Clean
<1>10. NotStuck(t)
  <2> SUFFICES ASSUME NEW e \in Ends, s.peer[e].byte # -1, Process(e) \notin s.ended
               PROVE  First(t, Process(e), <<"send", e>>)
    BY <1>2 DEF NotStuck
  <2>1. First(s, Process(e), <<"send", e>>) /\ Process(e) \in Procs
    BY EndFacts DEF Inv, NotStuck
  <2>2. CASE Process(e) # p
    BY <1>6, <2>1, <2>2 DEF First
  <2>3. CASE Process(e) = p
    <3>1. u # <<"send", e>>
      OBVIOUS
    <3> QED BY <1>6, <2>1, <2>3, <3>1 DEF First
  <2> QED BY <2>2, <2>3
<1>11. OneFits(t)
  <2> SUFFICES ASSUME NEW i \in Slots, t.peer[i].socket # None, t.left[t.peer[i].socket] = {},
                      Committed(t, i), Committed(t, t.peer[i].socket)
               PROVE  Fits(t, i) \/ Fits(t, t.peer[i].socket)
    BY DEF OneFits
  <2> DEFINE c == s.peer[i].socket
  <2>1. c \in Clients /\ t.peer[i].socket = c /\ c # None
    BY <1>2 DEF Inv, OneHolder
  <2>2. /\ i \in Ends /\ c \in Ends /\ Process(i) = Server /\ Process(c) = c /\ Server \in Procs /\ c \in Procs
        /\ In(i) = "up" /\ Out(i) = "down" /\ In(c) = "down" /\ Out(c) = "up"
        /\ Conn(s, i) = c /\ Conn(s, c) = c /\ Conn(t, i) = c /\ Conn(t, c) = c
    BY <2>1, EndFacts DEF Procs
  <2>3. \A x \in {i, c} : Due(t, x) = Due(s, x)
    BY <1>2, <1>6, <2>2 DEF Due
  <2>4. \A x \in {i, c} : Fits(s, x) <=> Fits(t, x)
    BY <1>2, <2>2, <2>3 DEF Fits
  <2>5. CASE u # <<"recv", i>> /\ u # <<"recv", c>>
    <3>1. Committed(s, i) /\ Committed(s, c)
      BY <1>6, <2>1, <2>2, <2>5 DEF Committed
    <3> QED BY <1>2, <2>1, <2>4, <3>1 DEF Inv, OneFits
  <2>6. ASSUME NEW x \in {i, c}, NEW y \in {i, c}, u = <<"recv", y>>, x # y
        PROVE  Fits(s, x)
    <3>1. s.wire[c][Out(x)] = << >>
      BY <2>2, <2>6
    <3> QED BY <2>2, <3>1, EmptyFits DEF Inv
  <2> QED BY <2>1, <2>2, <2>4, <2>5, <2>6 DEF SeqAssumption
<1> QED BY <1>7, <1>8, <1>9, <1>10, <1>11 DEF Inv, t

\* close_client_connection frees the slot and forgets what select found of it.
LEMMA CloseInv ==
    ASSUME SeqAssumption, NEW s, Inv(s), NEW e \in Slots, s.peer[e].socket # None
    PROVE  Inv(close_client_connection(s, e))
<1> DEFINE t == close_client_connection(s, e)
           d == s.peer[e].socket
<1>1. s \in States /\ e \in Ends /\ d \in Clients /\ Server \in Procs
  BY EndFacts DEF Inv, Typed, OneHolder, Procs
<1>2. create_peer \in PeerRecords /\ PeerGood(create_peer)
  BY DEF create_peer, PeerRecords, PeerGood, SeqAssumption
<1>3. /\ s.todo \in [Procs -> SUBSET ({"stdin", "accept", "recv", "send"} \X (Ends \cup {None}))]
      /\ s.peer \in [Ends -> PeerRecords] /\ s.left \in [Clients -> SUBSET Procs]
  BY <1>1 DEF States
<1>4. /\ t.wire = s.wire /\ t.backlog = s.backlog /\ t.typed = s.typed /\ t.ended = s.ended
      /\ t.peer = [s.peer EXCEPT ![e] = create_peer]
      /\ t.left = [s.left EXCEPT ![d] = s.left[d] \cup {Server}]
      /\ t.todo = [s.todo EXCEPT ![Server] = {u \in s.todo[Server] : u[2] # e}]
  BY <1>1, <1>3 DEF close_client_connection, States
<1>5. t \in States
  <2>1. s.left[d] \cup {Server} \in SUBSET Procs
    BY <1>1, <1>3
  <2>2. {u \in s.todo[Server] : u[2] # e} \in SUBSET ({"stdin", "accept", "recv", "send"} \X (Ends \cup {None}))
    BY <1>1, <1>3
  <2> QED BY <1>1, <1>2, <2>1, <2>2 DEF close_client_connection, States
<1>6. /\ t.peer[e] = create_peer
      /\ \A x \in Ends : x # e => t.peer[x] = s.peer[x]
  BY <1>1, <1>3, <1>4
<1>7. /\ t.left[d] = s.left[d] \cup {Server}
      /\ \A c \in Clients : c # d => t.left[c] = s.left[c]
  BY <1>1, <1>3, <1>4
<1>8. /\ t.todo[Server] = {u \in s.todo[Server] : u[2] # e}
      /\ \A q \in Procs : q # Server => t.todo[q] = s.todo[q]
  BY <1>1, <1>3, <1>4
<1>9. \A c \in Clients : c # e /\ t.peer[c] = s.peer[c]
  BY <1>6, EndFacts
<1>10. create_peer.socket = None /\ create_peer.byte = -1
  BY DEF create_peer
<1> HIDE DEF t
<1>11. Typed(t)
  <2>1. \A c \in Clients : t.left[c] \subseteq {c, Server}
    BY <1>7 DEF Inv, Typed
  <2> QED BY <1>2, <1>4, <1>5, <1>6, <2>1 DEF Inv, Typed
<1>12. TodoGood(t)
  <2> SUFFICES ASSUME NEW p \in Procs
               PROVE  /\ p \in t.ended => t.todo[p] = {}
                      /\ \A u \in t.todo[p] : Found(t, p, u)
    BY DEF TodoGood
  <2>1. p \in t.ended => t.todo[p] = {}
    BY <1>4, <1>8 DEF Inv, TodoGood
  <2>2. ASSUME NEW u \in t.todo[p]
        PROVE  Found(t, p, u)
    <3>1. u \in s.todo[p] /\ (p = Server => u[2] # e)
      BY <1>8, <2>2
    <3>2. Found(s, p, u)
      BY <3>1 DEF Inv, TodoGood
    <3>3. CASE u = StdIn \/ u = Accept
      BY <1>4, <3>2, <3>3 DEF Found, StdIn, Accept
    <3>4. ASSUME NEW x \in Ends, Process(x) = p, s.peer[x].socket # None,
                 u = <<"recv", x>> \/ u = <<"send", x>>
          PROVE  Found(t, p, u)
      <4>1. x # e
        BY <3>1, <3>4, EndFacts
      <4> QED BY <1>6, <3>4, <4>1 DEF Found
    <3> QED BY <3>2, <3>3, <3>4 DEF Found
  <2> QED BY <2>1, <2>2
<1>13. OneHolder(t)
  <2>1. \A i \in Slots : t.peer[i].socket # None => i # e /\ t.peer[i] = s.peer[i]
    BY <1>6, <1>10, EndFacts
  <2>2. \A i \in Slots : t.peer[i].socket = s.peer[i].socket \/ t.peer[i].socket = None
    BY <1>6, <1>10, EndFacts
  <2>3. \A k \in DOMAIN s.backlog : s.backlog[k] \in Clients /\ s.backlog[k] # None
    BY <1>1 DEF States, SeqAssumption, Ends
  <2> QED BY <1>4, <1>9, <2>1, <2>2, <2>3 DEF Inv, OneHolder
<1>14. Clean(t)
  BY <1>6, EndFacts DEF Inv, Clean
<1>15. NotStuck(t)
  <2> SUFFICES ASSUME NEW x \in Ends, t.peer[x].byte # -1, Process(x) \notin s.ended
               PROVE  First(t, Process(x), <<"send", x>>)
    BY <1>4 DEF NotStuck
  <2>1. x # e /\ t.peer[x] = s.peer[x]
    BY <1>6, <1>10
  <2>2. First(s, Process(x), <<"send", x>>) /\ Process(x) \in Procs
    BY <2>1, EndFacts DEF Inv, NotStuck
  <2>3. <<"send", x>>[2] # e
    BY <2>1, SMTT(60)
  <2> QED BY <1>8, <2>2, <2>3 DEF First
<1>16. OneFits(t)
  <2> SUFFICES ASSUME NEW i \in Slots, t.peer[i].socket # None, t.left[t.peer[i].socket] = {},
                      Committed(t, i), Committed(t, t.peer[i].socket)
               PROVE  Fits(t, i) \/ Fits(t, t.peer[i].socket)
    BY DEF OneFits
  <2> DEFINE c == s.peer[i].socket
  <2>1. i # e /\ i \in Ends /\ t.peer[i] = s.peer[i]
    BY <1>6, <1>10, EndFacts
  <2>2. c \in Clients /\ c # d /\ c # None
    BY <2>1, <1>1 DEF Inv, OneHolder
  <2>3. /\ c \in Ends /\ Process(i) = Server /\ Process(c) = c /\ c \in Procs /\ c # Server
        /\ Conn(s, i) = c /\ Conn(s, c) = c /\ Conn(t, i) = c /\ Conn(t, c) = c
    <3>1. c # Server
      BY <2>2 DEF SeqAssumption, Ends
    <3> QED BY <2>1, <2>2, <3>1, EndFacts DEF Procs
  <2>4. /\ t.todo[c] = s.todo[c]
        /\ StdIn \in t.todo[Server] <=> StdIn \in s.todo[Server]
        /\ \A k \in {"recv", "send"} : <<k, i>> \in t.todo[Server] <=> <<k, i>> \in s.todo[Server]
    <3>1. StdIn[2] # e /\ \A k \in {"recv", "send"} : <<k, i>>[2] # e
      BY <1>1, <2>1 DEF StdIn, SeqAssumption
    <3> QED BY <1>8, <2>3, <3>1
  <2>5. Committed(s, i) /\ Committed(s, c) /\ s.left[c] = {}
    BY <1>7, <2>1, <2>2, <2>3, <2>4 DEF Committed
  <2>6. Fits(s, i) \/ Fits(s, c)
    BY <2>2, <2>5 DEF Inv, OneFits
  <2>7. t.peer[c] = s.peer[c]
    BY <1>9, <2>2
  <2> QED BY <1>4, <2>1, <2>3, <2>4, <2>6, <2>7 DEF Fits, Due
<1> QED BY <1>11, <1>12, <1>13, <1>14, <1>15, <1>16 DEF Inv, t

\* A peer whose receiving buffer changes.
LEMMA GotChanged ==
    ASSUME NEW peer \in PeerRecords, NEW g \in Seq(Octets)
    PROVE  LET q == [peer EXCEPT !.got = g]
           IN  /\ q \in PeerRecords /\ q.socket = peer.socket /\ q.queue = peer.queue
               /\ q.sending = peer.sending /\ q.byte = peer.byte /\ q.got = g
BY DEF PeerRecords

\* A complete message is handled: the buffer is empty again.
LEMMA HandledInv ==
    ASSUME SeqAssumption, NEW s, Inv(s), NEW e \in Ends, s.peer[e].socket # None
    PROVE  LET t == Handled(s, e)
           IN  /\ Inv(t) /\ Len(t.peer[e].got) < Size
               /\ t.todo = s.todo /\ t.wire = s.wire /\ t.left = s.left
               /\ \A x \in Ends : t.peer[x].socket = s.peer[x].socket
<1> DEFINE t == Handled(s, e)
<1>1. s \in States /\ Conn(s, e) \in Clients /\ In(e) \in Ways
  BY ConnFacts, EndFacts DEF Inv, Typed
<1>2. s.peer \in [Ends -> PeerRecords] /\ s.peer[e] \in PeerRecords /\ Len(s.peer[e].got) \in Nat
  BY <1>1 DEF States, PeerRecords
<1>3. CASE Len(s.peer[e].got) < Size
  BY <1>3 DEF Handled
<1>4. CASE ~(Len(s.peer[e].got) < Size)
  <2>1. t = [s EXCEPT !.handled[Conn(s, e)][In(e)] = Append(@, s.peer[e].got), !.peer[e].got = << >>]
    BY <1>4 DEF Handled
  <2>2. /\ t.todo = s.todo /\ t.left = s.left /\ t.backlog = s.backlog /\ t.typed = s.typed
        /\ t.ended = s.ended /\ t.wire = s.wire
        /\ t.peer = [s.peer EXCEPT ![e] = [s.peer[e] EXCEPT !.got = << >>]]
    BY <1>1, <1>2, <2>1 DEF States
  <2>3. << >> \in Seq(Octets) /\ [s.peer[e] EXCEPT !.got = << >>] \in PeerRecords
    <3>1. << >> \in Seq(Octets)
      OBVIOUS
    <3> QED BY <1>2, <3>1, GotChanged, Zenon
  <2> DEFINE d == Conn(s, e)
             h == Append(s.handled[d][In(e)], s.peer[e].got)
             z == << >>
  <2>4. h \in Seq(Seq(Octets))
    BY <1>1, <1>2 DEF States, PeerRecords
  <2>5. t = [s EXCEPT !.handled[d][In(e)] = h, !.peer[e].got = z]
    BY <2>1
  <2> HIDE DEF h, z, d
  <2>6. t \in States
    <3>1. [s.peer[e] EXCEPT !.got = z] \in PeerRecords
      BY <2>3 DEF z
    <3>2. d \in Clients
      BY <1>1 DEF d
    <3>3. [s.handled[d] EXCEPT ![In(e)] = h] \in [Ways -> Seq(Seq(Octets))]
      BY <1>1, <2>4, <3>2 DEF States
    <3> HIDE DEF t
    <3> QED BY <1>1, <2>5, <3>1, <3>2, <3>3 DEF States
  <2> HIDE DEF t
  <2>7. /\ \A x \in Ends : x # e => t.peer[x] = s.peer[x]
        /\ t.peer[e] = [s.peer[e] EXCEPT !.got = << >>]
    BY <1>2, <2>2
  <2>8. /\ t.peer[e].socket = s.peer[e].socket /\ t.peer[e].queue = s.peer[e].queue
        /\ t.peer[e].byte = s.peer[e].byte /\ t.peer[e].got = << >>
    BY <1>2, <2>3, <2>7, GotChanged
  <2>9. PeerGood(t.peer[e]) /\ Len(t.peer[e].got) < Size
    BY <2>8 DEF Inv, Typed, PeerGood, SeqAssumption
  <2>10. t.peer[e].byte # -1 /\ Process(e) \notin s.ended => First(s, Process(e), <<"send", e>>)
    BY <2>8 DEF Inv, NotStuck
  <2>11. ASSUME NEW x \in Ends, Fits(s, x)
         PROVE  Fits(t, x)
    <3>1. /\ t.peer[x].queue = s.peer[x].queue /\ t.peer[x].byte = s.peer[x].byte
          /\ t.peer[x].socket = s.peer[x].socket
      BY <2>7, <2>8
    <3>2. Due(t, x) = Due(s, x)
      BY <2>2, <3>1 DEF Due, Unsent
    <3> QED BY <2>2, <2>11, <3>1, <3>2 DEF Fits, Conn
  <2>12. \A c \in Clients, w \in Ways : Len(t.wire[c][w]) <= Capacity
    BY <2>2 DEF Inv, Typed
  <2>13. Inv(t)
    BY <2>2, <2>6, <2>7, <2>8, <2>9, <2>10, <2>11, <2>12, PeerStepInv
  <2> QED BY <2>2, <2>7, <2>8, <2>9, <2>13 DEF t
<1> QED BY <1>3, <1>4

\* A piece is received.
LEMMA ReceivedInv ==
    ASSUME SeqAssumption, NEW s, Inv(s), NEW e \in Ends, s.peer[e].socket # None,
           s.wire[Conn(s, e)][In(e)] # << >>, Len(s.peer[e].got) < Size
    PROVE  LET wire == s.wire[Conn(s, e)][In(e)]
               n == Min({Piece(Len(s.peer[e].got)), Len(wire)})
           IN  Inv([s EXCEPT !.peer[e].got = @ \o SubSeq(wire, 1, n),
                             !.wire[Conn(s, e)][In(e)] = SubSeq(@, n + 1, Len(@))])
<1> DEFINE d == Conn(s, e)
           wire == s.wire[d][In(e)]
           n == Min({Piece(Len(s.peer[e].got)), Len(wire)})
           g == s.peer[e].got \o SubSeq(wire, 1, n)
           rest == SubSeq(wire, n + 1, Len(wire))
           t == [s EXCEPT !.peer[e].got = @ \o SubSeq(wire, 1, n),
                          !.wire[d][In(e)] = SubSeq(@, n + 1, Len(@))]
<1>1. s \in States /\ d \in Clients /\ In(e) \in Ways
  BY ConnFacts, EndFacts DEF Inv, Typed
<1>2. /\ s.peer \in [Ends -> PeerRecords] /\ s.peer[e] \in PeerRecords
      /\ s.peer[e].got \in Seq(Octets) /\ Len(s.peer[e].got) \in Nat
      /\ s.wire \in [Clients -> [Ways -> Seq(Octets)]] /\ wire \in Seq(Octets)
      /\ Len(wire) \in Nat /\ Len(wire) > 0
  BY <1>1, SMTT(60) DEF States, PeerRecords
<1>3. /\ n \in Nat /\ 0 < n /\ n <= Len(wire) /\ n <= Size - Len(s.peer[e].got)
  <2>1. /\ Piece(Len(s.peer[e].got)) \in Int /\ 0 < Piece(Len(s.peer[e].got))
        /\ Piece(Len(s.peer[e].got)) <= Size - Len(s.peer[e].got)
    BY <1>2, PieceBounds
  <2> DEFINE a == Piece(Len(s.peer[e].got))
             b == Len(wire)
  <2>2. a \in Int /\ b \in Int /\ 0 < a /\ 0 < b /\ n = Min({a, b})
    BY <1>2, <2>1
  <2> HIDE DEF a, b, n
  <2>3. n \in {a, b} /\ n <= a /\ n <= b
    BY <2>2, MinOfTwo
  <2>4. n \in Int /\ 0 < n
    BY <2>2, <2>3
  <2>5. Size \in Int /\ Len(s.peer[e].got) \in Int /\ a <= Size - Len(s.peer[e].got)
    BY <1>2, <2>1 DEF SeqAssumption, a
  <2>6. n <= Size - Len(s.peer[e].got)
    BY <2>2, <2>3, <2>4, <2>5
  <2> QED BY <2>3, <2>4, <2>6 DEF b
<1> HIDE DEF n, wire, d
<1>4. /\ SubSeq(wire, 1, n) \in Seq(Octets) /\ Len(SubSeq(wire, 1, n)) = n
      /\ rest \in Seq(Octets) /\ Len(rest) = Len(wire) - n
  BY <1>2, <1>3
<1>5. g \in Seq(Octets) /\ Len(g) = Len(s.peer[e].got) + n
  BY <1>2, <1>4
<1>6. t = [s EXCEPT !.peer[e].got = g, !.wire[d][In(e)] = rest]
  BY DEF wire
<1> HIDE DEF g, rest, t
<1>7. /\ t.todo = s.todo /\ t.left = s.left /\ t.backlog = s.backlog /\ t.typed = s.typed
      /\ t.ended = s.ended
      /\ t.wire = [s.wire EXCEPT ![d] = [s.wire[d] EXCEPT ![In(e)] = rest]]
      /\ t.peer = [s.peer EXCEPT ![e] = [s.peer[e] EXCEPT !.got = g]]
  BY <1>1, <1>2, <1>6 DEF States
<1>8. t \in States
  <2>1. [s.peer[e] EXCEPT !.got = g] \in PeerRecords
    BY <1>2, <1>5 DEF PeerRecords
  <2>2. [s.wire[d] EXCEPT ![In(e)] = rest] \in [Ways -> Seq(Octets)]
    BY <1>1, <1>2, <1>4
  <2> QED BY <1>1, <1>6, <2>1, <2>2 DEF States
<1>9. /\ \A x \in Ends : x # e => t.peer[x] = s.peer[x]
      /\ t.peer[e] = [s.peer[e] EXCEPT !.got = g]
  BY <1>2, <1>7
<1>10. /\ t.peer[e].socket = s.peer[e].socket /\ t.peer[e].queue = s.peer[e].queue
       /\ t.peer[e].byte = s.peer[e].byte /\ t.peer[e].got = g
  BY <1>2, <1>9 DEF PeerRecords
<1>11. \A c \in Clients, w \in Ways :
          t.wire[c][w] = IF c = d /\ w = In(e) THEN rest ELSE s.wire[c][w]
  BY <1>1, <1>2, <1>7
<1>12. \A c \in Clients, w \in Ways :
          /\ Len(s.wire[c][w]) \in Nat /\ Len(t.wire[c][w]) \in Nat
          /\ Len(t.wire[c][w]) <= Len(s.wire[c][w])
  <2>1. \A c \in Clients, w \in Ways : Len(s.wire[c][w]) \in Nat
    BY <1>2
  <2>2. Len(rest) \in Nat /\ Len(rest) <= Len(s.wire[d][In(e)])
    BY <1>2, <1>3, <1>4 DEF wire
  <2> QED BY <1>11, <2>1, <2>2, SMTT(60)
<1>13. PeerGood(t.peer[e])
  BY <1>2, <1>3, <1>5, <1>10, SMTT(60) DEF Inv, Typed, PeerGood, SeqAssumption
<1>14. t.peer[e].byte # -1 /\ Process(e) \notin s.ended => First(s, Process(e), <<"send", e>>)
  BY <1>10 DEF Inv, NotStuck
<1>15. ASSUME NEW x \in Ends, s.peer[x].socket # None, Fits(s, x)
       PROVE  Fits(t, x)
  <2>1. /\ t.peer[x].queue = s.peer[x].queue /\ t.peer[x].byte = s.peer[x].byte
        /\ t.peer[x].socket = s.peer[x].socket
    BY <1>9, <1>10
  <2>2. Due(t, x) = Due(s, x) /\ Conn(t, x) = Conn(s, x)
    BY <1>7, <2>1 DEF Due, Unsent, Conn
  <2>3. Conn(s, x) \in Clients /\ Out(x) \in Ways
    BY <1>1, <1>15, ConnFacts, EndFacts DEF Inv
  <2>4. s.peer[x] \in PeerRecords /\ PeerGood(s.peer[x])
    BY <1>1 DEF Inv, Typed, States
  <2>5. Due(s, x) \in Nat
    BY <2>4, UnsentBounds, Volumes DEF Due
  <2>6. /\ Len(s.wire[Conn(s, x)][Out(x)]) \in Nat /\ Len(t.wire[Conn(s, x)][Out(x)]) \in Nat
        /\ Len(t.wire[Conn(s, x)][Out(x)]) <= Len(s.wire[Conn(s, x)][Out(x)])
    BY <1>12, <2>3
  <2>7. Len(s.wire[Conn(s, x)][Out(x)]) + Due(s, x) <= Capacity /\ Capacity \in Nat
    BY <1>15 DEF Fits, SeqAssumption
  <2>8. Len(t.wire[Conn(t, x)][Out(x)]) + Due(t, x) <= Capacity
    BY <2>2, <2>5, <2>6, <2>7, SMTT(60)
  <2> QED BY <2>8 DEF Fits
<1>16. \A c \in Clients, w \in Ways : Len(t.wire[c][w]) <= Capacity
  <2>1. \A c \in Clients, w \in Ways : Len(s.wire[c][w]) <= Capacity
    BY DEF Inv, Typed
  <2> QED BY <1>12, <2>1, SMTT(60) DEF SeqAssumption
<1>17. Inv(t)
  BY <1>7, <1>8, <1>9, <1>10, <1>13, <1>14, <1>15, <1>16, PeerStepInv
<1> QED BY <1>17 DEF t, n, wire, d

\* A peer whose sending buffer changes.
LEMMA ByteChanged ==
    ASSUME NEW peer \in PeerRecords, NEW k \in Int, NEW q, q = [peer EXCEPT !.byte = k]
    PROVE  /\ q \in PeerRecords /\ q.socket = peer.socket /\ q.queue = peer.queue
           /\ q.byte = k /\ q.got = peer.got
BY DEF PeerRecords

\* The next message is taken from the queue: as much is left to be sent.
LEMMA LoadedGood ==
    ASSUME SeqAssumption, NEW peer \in PeerRecords, PeerGood(peer)
    PROVE  LET q == Loaded(peer)
           IN  /\ q \in PeerRecords /\ PeerGood(q) /\ q.socket = peer.socket
               /\ Unsent(q) = Unsent(peer) /\ q.byte < Size
<1>1. /\ peer.queue \in Seq(Lines) /\ peer.byte \in -1..Size /\ Size \in Nat /\ 0 < Size
      /\ Len(peer.queue) \in Nat /\ QueueSize \in Nat /\ Len(peer.queue) <= QueueSize
  BY DEF PeerRecords, PeerGood, SeqAssumption
<1>2. CASE ~(peer.byte = -1 \/ peer.byte >= Size)
  BY <1>1, <1>2 DEF Loaded
<1>3. CASE (peer.byte = -1 \/ peer.byte >= Size) /\ peer.queue = << >>
  <2> DEFINE q == [peer EXCEPT !.byte = -1, !.sending = None]
  <2>1. Loaded(peer) = q
    BY <1>3 DEF Loaded, dequeue
  <2>2. /\ q \in PeerRecords /\ q.socket = peer.socket /\ q.queue = peer.queue /\ q.got = peer.got
        /\ q.byte = -1
    <3> DEFINE k == -1
    <3>1. k \in Int /\ None \in Lines \cup {None} /\ q = [peer EXCEPT !.byte = k, !.sending = None]
      OBVIOUS
    <3> HIDE DEF k, q
    <3>2. /\ q \in PeerRecords /\ q.socket = peer.socket /\ q.queue = peer.queue /\ q.got = peer.got
          /\ q.byte = k
      BY <3>1 DEF PeerRecords
    <3> QED BY <3>2 DEF k
  <2>3. PeerGood(q)
    BY <1>1, <2>2 DEF PeerGood
  <2>4. peer.byte = -1 \/ Size - peer.byte = 0
    BY <1>1, <1>3
  <2>5. Volume(Len(peer.queue)) \in Nat
    BY <1>1, Volumes
  <2>6. Unsent(q) = Unsent(peer)
    BY <1>1, <2>2, <2>4, <2>5 DEF Unsent
  <2> QED BY <1>1, <2>1, <2>2, <2>3, <2>6
<1>4. CASE (peer.byte = -1 \/ peer.byte >= Size) /\ peer.queue # << >>
  <2> DEFINE f == Front(peer.queue)
             l == Last(peer.queue)
             q == [peer EXCEPT !.sending = l, !.queue = f, !.byte = 0]
  <2>1. Loaded(peer) = [peer EXCEPT !.sending = Last(peer.queue), !.queue = Front(@), !.byte = 0]
    BY <1>4 DEF Loaded, dequeue
  <2>2. l \in Lines /\ f \in Seq(Lines) /\ Len(f) = Len(peer.queue) - 1 /\ Len(f) \in Nat
    BY <1>1, <1>4 DEF Last, Front
  <2>3. Loaded(peer) = q
    BY <2>1
  <2> HIDE DEF f, l
  <2>4. /\ q \in PeerRecords /\ q.socket = peer.socket /\ q.queue = f /\ q.got = peer.got /\ q.byte = 0
    <3> DEFINE k == 0
    <3>1. k \in Int /\ l \in Lines \cup {None} /\ q = [peer EXCEPT !.sending = l, !.queue = f, !.byte = k]
      BY <2>2
    <3> HIDE DEF k, q
    <3>2. /\ q \in PeerRecords /\ q.socket = peer.socket /\ q.queue = f /\ q.got = peer.got /\ q.byte = k
      BY <2>2, <3>1 DEF PeerRecords
    <3> QED BY <3>2 DEF k
  <2>5. PeerGood(q)
    BY <1>1, <2>2, <2>4 DEF PeerGood
  <2>6. Volume(Len(peer.queue)) = Volume(Len(f)) + Size /\ Volume(Len(f)) \in Nat
    <3>1. Len(peer.queue) = Len(f) + 1
      BY <1>1, <2>2
    <3> QED BY <1>1, <2>2, <3>1, Volumes
  <2>7. peer.byte = -1 \/ Size - peer.byte = 0
    BY <1>1, <1>4
  <2>8. Unsent(q) = Volume(Len(f)) + Size
    BY <1>1, <2>4 DEF Unsent
  <2>9. Unsent(peer) = Volume(Len(peer.queue))
    BY <1>1, <2>6, <2>7 DEF Unsent
  <2> QED BY <1>1, <2>3, <2>4, <2>5, <2>6, <2>8, <2>9
<1> QED BY <1>2, <1>3, <1>4

\* The next message is taken from the queue: nothing else changes.
LEMMA LoadedInv ==
    ASSUME SeqAssumption, NEW s, Inv(s), NEW e \in Ends, s.peer[e].socket # None,
           First(s, Process(e), <<"send", e>>)
    PROVE  LET t == [s EXCEPT !.peer[e] = Loaded(s.peer[e])]
           IN  /\ Inv(t) /\ t.peer[e] = Loaded(s.peer[e]) /\ t.peer[e].byte < Size
               /\ t.todo = s.todo /\ t.wire = s.wire /\ t.left = s.left
               /\ \A x \in Ends : t.peer[x].socket = s.peer[x].socket
<1> DEFINE q == Loaded(s.peer[e])
           t == [s EXCEPT !.peer[e] = q]
<1>1. s \in States
  BY DEF Inv, Typed
<1>2. s.peer \in [Ends -> PeerRecords] /\ s.peer[e] \in PeerRecords /\ PeerGood(s.peer[e])
  BY <1>1 DEF Inv, Typed, States
<1>3. /\ q \in PeerRecords /\ PeerGood(q) /\ q.socket = s.peer[e].socket
      /\ Unsent(q) = Unsent(s.peer[e]) /\ q.byte < Size
  BY <1>2, LoadedGood
<1> HIDE DEF q
<1>4. t \in States
  BY <1>1, <1>3 DEF States
<1>5. /\ t.todo = s.todo /\ t.left = s.left /\ t.backlog = s.backlog /\ t.typed = s.typed
      /\ t.ended = s.ended /\ t.wire = s.wire /\ t.peer = [s.peer EXCEPT ![e] = q]
  BY <1>1 DEF States
<1> HIDE DEF t
<1>6. t.peer[e] = q /\ \A x \in Ends : x # e => t.peer[x] = s.peer[x]
  BY <1>2, <1>5
<1>7. \A x \in Ends : t.peer[x].socket = s.peer[x].socket /\ Unsent(t.peer[x]) = Unsent(s.peer[x])
  BY <1>3, <1>6
<1>8. \A x \in Ends : Fits(s, x) => Fits(t, x)
  BY <1>5, <1>7 DEF Fits, Due, Conn
<1>9. \A c \in Clients, w \in Ways : Len(t.wire[c][w]) <= Capacity
  BY <1>5 DEF Inv, Typed
<1>10. Inv(t)
  BY <1>3, <1>4, <1>5, <1>6, <1>8, <1>9, PeerStepInv
<1> QED BY <1>3, <1>5, <1>6, <1>7, <1>10 DEF t, q

\* A piece is sent, or lost when the other side has left: what is due shrinks by
\* what the wire grows at most.
LEMMA SentInv ==
    ASSUME SeqAssumption, NEW s, Inv(s), NEW e \in Ends, s.peer[e].socket # None,
           First(s, Process(e), <<"send", e>>),
           s.peer[e].byte # -1, s.peer[e].byte < Size,
           NEW n, n = Piece(s.peer[e].byte),
           NEW b \in Seq(Octets), NEW t,
           \/ t = [s EXCEPT !.peer[e].byte = @ + n] /\ b = s.wire[Conn(s, e)][Out(e)]
           \/ /\ t = [[s EXCEPT !.peer[e].byte = @ + n] EXCEPT !.wire[Conn(s, e)][Out(e)] = b]
              /\ Len(b) = Len(s.wire[Conn(s, e)][Out(e)]) + n /\ Len(b) <= Capacity
    PROVE  Inv(t)
<1> DEFINE d == Conn(s, e)
           m == s.peer[e].byte + n
           q == [s.peer[e] EXCEPT !.byte = m]
<1>1. s \in States /\ d \in Clients /\ Out(e) \in Ways /\ Process(e) \in Procs /\ Size \in Nat
  BY ConnFacts, EndFacts DEF Inv, Typed, SeqAssumption
<1>2. /\ s.peer \in [Ends -> PeerRecords] /\ s.peer[e] \in PeerRecords /\ PeerGood(s.peer[e])
      /\ s.wire \in [Clients -> [Ways -> Seq(Octets)]] /\ s.wire[d][Out(e)] \in Seq(Octets)
      /\ Len(s.wire[d][Out(e)]) \in Nat
  BY <1>1 DEF Inv, Typed, States
<1>3. s.peer[e].byte \in 0..Size
  BY <1>1, <1>2 DEF PeerGood
<1>4. n \in Int /\ 0 < n /\ n <= Size - s.peer[e].byte
  BY <1>3, PieceBounds
<1>5. m \in 0..Size /\ m # -1
  BY <1>1, <1>3, <1>4, SMTT(60)
<1> HIDE DEF m, d
<1>6. q \in PeerRecords /\ q.socket = s.peer[e].socket /\ q.queue = s.peer[e].queue /\ q.got = s.peer[e].got /\ q.byte = m
  <2>1. m \in Int
    BY <1>5
  <2> HIDE DEF q
  <2>2. q = [s.peer[e] EXCEPT !.byte = m]
    BY DEF q
  <2> QED BY <1>2, <2>1, <2>2, ByteChanged
<1>7. PeerGood(q)
  BY <1>2, <1>5, <1>6 DEF PeerGood
<1> HIDE DEF q
<1>8. Unsent(q) = Unsent(s.peer[e]) - n /\ Unsent(q) \in Int /\ Unsent(s.peer[e]) \in Int
  <2>0. Len(s.peer[e].queue) \in Nat
    BY <1>2 DEF PeerRecords
  <2>1. Volume(Len(s.peer[e].queue)) \in Nat
    BY <2>0, Volumes
  <2>2. /\ Unsent(q) = Volume(Len(s.peer[e].queue)) + (Size - m)
        /\ Unsent(s.peer[e]) = Volume(Len(s.peer[e].queue)) + (Size - s.peer[e].byte)
    BY <1>5, <1>6 DEF Unsent
  <2>3. m = s.peer[e].byte + n
    BY DEF m
  <2> DEFINE v == Volume(Len(s.peer[e].queue))
             y == s.peer[e].byte
             g == Unsent(q)
             h == Unsent(s.peer[e])
  <2>4. v \in Int /\ y \in Int /\ n \in Int /\ Size \in Int /\ g = v + (Size - (y + n)) /\ h = v + (Size - y)
    BY <1>1, <1>3, <1>4, <2>1, <2>2, <2>3
  <2> HIDE DEF v, y, g, h
  <2>5. g = h - n /\ g \in Int /\ h \in Int
    BY <2>4, SMTT(60)
  <2> QED BY <2>5 DEF g, h
<1>9. t = [s EXCEPT !.peer[e].byte = m] \/ t = [s EXCEPT !.peer[e].byte = m, !.wire[d][Out(e)] = b]
  BY DEF m, d
<1>10. t \in States
  <2>1. [s.wire[d] EXCEPT ![Out(e)] = b] \in [Ways -> Seq(Octets)]
    BY <1>1, <1>2
  <2>2. [s.peer[e] EXCEPT !.byte = m] \in PeerRecords
    BY <1>6 DEF q
  <2>3. CASE t = [s EXCEPT !.peer[e].byte = m]
    BY <1>1, <2>2, <2>3 DEF States
  <2>4. CASE t = [s EXCEPT !.peer[e].byte = m, !.wire[d][Out(e)] = b]
    BY <1>1, <2>1, <2>2, <2>4 DEF States
  <2> QED BY <1>9, <2>3, <2>4
<1>11. /\ t.todo = s.todo /\ t.left = s.left /\ t.backlog = s.backlog /\ t.typed = s.typed
       /\ t.ended = s.ended /\ t.peer = [s.peer EXCEPT ![e] = q]
  BY <1>1, <1>2, <1>9 DEF States, q
<1>12. t.peer[e] = q /\ \A x \in Ends : x # e => t.peer[x] = s.peer[x]
  BY <1>2, <1>11
<1>13. /\ \A c \in Clients, w \in Ways : c # d \/ w # Out(e) => t.wire[c][w] = s.wire[c][w]
       /\ Len(t.wire[d][Out(e)]) \in Nat
       /\ Len(t.wire[d][Out(e)]) <= Len(s.wire[d][Out(e)]) + n
       /\ Len(t.wire[d][Out(e)]) <= Capacity
  <2>1. CASE t = [s EXCEPT !.peer[e].byte = @ + n] /\ b = s.wire[d][Out(e)]
    <3>1. t.wire = s.wire
      BY <1>1, <2>1 DEF States
    <3>2. Len(s.wire[d][Out(e)]) <= Capacity
      BY <1>1 DEF Inv, Typed
    <3> QED BY <1>2, <1>4, <3>1, <3>2
  <2>2. CASE /\ t = [[s EXCEPT !.peer[e].byte = @ + n] EXCEPT !.wire[d][Out(e)] = b]
             /\ Len(b) = Len(s.wire[d][Out(e)]) + n /\ Len(b) <= Capacity
    <3>1. t.wire = [s.wire EXCEPT ![d] = [s.wire[d] EXCEPT ![Out(e)] = b]]
      BY <1>1, <2>2 DEF States
    <3>2. t.wire[d][Out(e)] = b /\ \A c \in Clients, w \in Ways : c # d \/ w # Out(e) => t.wire[c][w] = s.wire[c][w]
      BY <1>1, <1>2, <3>1
    <3> QED BY <1>2, <1>4, <2>2, <3>2
  <2> QED BY <2>1, <2>2 DEF d
<1>14. ASSUME NEW x \in Ends, s.peer[x].socket # None, Fits(s, x)
       PROVE  Fits(t, x)
  <2>1. Conn(t, x) = Conn(s, x) /\ Conn(s, x) \in Clients /\ Out(x) \in Ways
    BY <1>1, <1>6, <1>12, <1>14, ConnFacts, EndFacts DEF Inv, Conn
  <2>2. CASE x # e
    <3>1. Conn(s, x) # d \/ Out(x) # Out(e)
      BY <2>2, <1>14, EndFacts DEF Inv, OneHolder, Ends, d, Conn, Out
    <3>2. Due(t, x) = Due(s, x)
      BY <1>11, <1>12, <2>2 DEF Due
    <3> QED BY <1>13, <1>14, <2>1, <3>1, <3>2, SMTT(60) DEF Fits
  <2>3. CASE x = e
    <3>1. StdIn \notin s.todo[Process(e)]
      <4>1. Order(StdIn) < Order(<<"send", e>>) /\ Order(StdIn) \in Int /\ Order(<<"send", e>>) \in Int
        BY Places, Orders, <1>1 DEF Inv, Order, StdIn
      <4> QED BY <4>1 DEF First
    <3>2. Due(t, e) = Unsent(q) /\ Due(s, e) = Unsent(s.peer[e])
      BY <1>11, <1>12, <3>1 DEF Due
    <3>3. Len(s.wire[d][Out(e)]) + Due(s, e) <= Capacity /\ Capacity \in Nat
      BY <1>14, <2>3 DEF Fits, SeqAssumption, d
    <3>4. Len(t.wire[d][Out(e)]) + Due(t, e) <= Capacity
      <4>1. Due(t, e) = Due(s, e) - n /\ Due(s, e) \in Int
        BY <1>8, <3>2
      <4> DEFINE x1 == Len(s.wire[d][Out(e)])
                 x2 == Len(t.wire[d][Out(e)])
                 y1 == Due(s, e)
                 y2 == Due(t, e)
      <4>2. /\ x1 \in Int /\ x2 \in Int /\ y1 \in Int /\ n \in Int /\ Capacity \in Int
            /\ x2 <= x1 + n /\ y2 = y1 - n /\ x1 + y1 <= Capacity
        BY <1>2, <1>4, <1>13, <3>3, <4>1
      <4> HIDE DEF x1, x2, y1, y2
      <4>3. x2 + y2 <= Capacity
        BY <4>2
      <4> QED BY <4>3 DEF x2, y2
    <3> QED BY <2>1, <2>3, <3>4 DEF Fits, d
  <2> QED BY <2>2, <2>3
<1>15. \A c \in Clients, w \in Ways : Len(t.wire[c][w]) <= Capacity
  BY <1>13 DEF Inv, Typed
<1>16. t.peer[e].socket = s.peer[e].socket /\ PeerGood(t.peer[e])
  BY <1>6, <1>7, <1>12
<1> QED BY <1>10, <1>11, <1>12, <1>14, <1>15, <1>16, PeerStepInv

----------------------------------------------------------------------------
(* The actions.                                                              *)

\* Whoever main has come to is connected.
LEMMA BegunFacts ==
    ASSUME SeqAssumption, SeqInv, NEW e \in Ends, NEW k \in {"recv", "send"}, Begun(Process(e), <<k, e>>)
    PROVE  sp.peer[e].socket # None /\ First(sp, Process(e), <<k, e>>) /\ Process(e) \in Procs
<1>1. Process(e) \in Procs /\ <<k, e>> \in sp.todo[Process(e)]
  BY EndFacts DEF Begun
<1>2. Found(sp, Process(e), <<k, e>>)
  BY <1>1 DEF SeqInv, Inv, TodoGood
<1>3. <<k, e>> # StdIn /\ <<k, e>> # Accept
  BY DEF StdIn, Accept
<1> QED BY <1>1, <1>2, <1>3 DEF Found, Begun, First

\* A peer that failed: its slot is freed, or the client ends.
LEMMA FailedInv ==
    ASSUME SeqAssumption, NEW s, Inv(s), NEW e \in Ends, s.peer[e].socket # None
    PROVE  Inv(Failed(s, e))
<1>1. CASE e \in Slots
  BY <1>1, CloseInv DEF Failed
<1>2. CASE e \notin Slots
  BY <1>2, ShutdownInv DEF Failed, Ends, Procs
<1> QED BY <1>1, <1>2

\* One turn of receive_from_peer: it fails, finds nothing more, or takes a piece.
LEMMA ReceiveKeeps ==
    ASSUME SeqAssumption, SeqInv, NEW e \in Ends, receive_from_peer(e)
    PROVE  SeqInv'
<1> DEFINE s == Handled(sp, e)
           wire == s.wire[Conn(s, e)][In(e)]
           n == Min({Piece(Len(s.peer[e].got)), Len(wire)})
<1>1. Begun(Process(e), <<"recv", e>>)
  BY DEF receive_from_peer
<1>2. sp.peer[e].socket # None /\ First(sp, Process(e), <<"recv", e>>) /\ Process(e) \in Procs
  BY <1>1, BegunFacts
<1>3. /\ Inv(s) /\ Len(s.peer[e].got) < Size /\ s.todo = sp.todo
      /\ \A x \in Ends : s.peer[x].socket = sp.peer[x].socket
  BY <1>2, HandledInv DEF SeqInv
<1>4. \/ sp' = Failed(s, e)
      \/ wire = << >> /\ sp' = Done(s, Process(e), <<"recv", e>>)
      \/ /\ wire # << >>
         /\ sp' = [s EXCEPT !.peer[e].got = @ \o SubSeq(wire, 1, n),
                            !.wire[Conn(s, e)][In(e)] = SubSeq(@, n + 1, Len(@))]
  BY DEF receive_from_peer
<1>5. s.peer[e].socket # None /\ First(s, Process(e), <<"recv", e>>)
  BY <1>2, <1>3 DEF First
<1> HIDE DEF s
<1>6. CASE sp' = Failed(s, e)
  BY <1>3, <1>5, <1>6, FailedInv DEF SeqInv
<1>7. CASE wire = << >> /\ sp' = Done(s, Process(e), <<"recv", e>>)
  <2> DEFINE u == <<"recv", e>>
  <2>1. /\ u # StdIn /\ \A x \in Ends : u # <<"send", x>>
        /\ \A x \in Ends : u = <<"recv", x>> => s.wire[Conn(s, x)][In(x)] = << >>
    BY <1>7 DEF StdIn
  <2>2. First(s, Process(e), u)
    BY <1>5
  <2> HIDE DEF u
  <2>3. Inv(Done(s, Process(e), u))
    BY <1>2, <1>3, <2>1, <2>2, DoneInv
  <2> QED BY <1>7, <2>3 DEF SeqInv, u
<1>8. CASE /\ wire # << >>
           /\ sp' = [s EXCEPT !.peer[e].got = @ \o SubSeq(wire, 1, n),
                              !.wire[Conn(s, e)][In(e)] = SubSeq(@, n + 1, Len(@))]
  <2>1. Inv([s EXCEPT !.peer[e].got = @ \o SubSeq(wire, 1, n),
                      !.wire[Conn(s, e)][In(e)] = SubSeq(@, n + 1, Len(@))])
    BY <1>3, <1>5, <1>8, ReceivedInv, Zenon
  <2> QED BY <1>8, <2>1 DEF SeqInv
<1> QED BY <1>4, <1>6, <1>7, <1>8

\* One turn of send_to_peer: it is through, sends a piece, or fails.
LEMMA SendKeeps ==
    ASSUME SeqAssumption, SeqInv, NEW e \in Ends, send_to_peer(e)
    PROVE  SeqInv'
<1> DEFINE peer == Loaded(sp.peer[e])
           s == [sp EXCEPT !.peer[e] = peer]
           n == Piece(peer.byte)
           sent == [s EXCEPT !.peer[e].byte = @ + n]
           b == s.wire[Conn(s, e)][Out(e)] \o SubSeq(Bytes(peer.sending), peer.byte + 1, peer.byte + n)
<1>1. Begun(Process(e), <<"send", e>>)
  BY DEF send_to_peer
<1>2. sp.peer[e].socket # None /\ First(sp, Process(e), <<"send", e>>) /\ Process(e) \in Procs
  BY <1>1, BegunFacts
<1>3. /\ Inv(s) /\ s.peer[e] = peer /\ peer.byte < Size /\ s.todo = sp.todo
      /\ \A x \in Ends : s.peer[x].socket = sp.peer[x].socket
  BY <1>2, LoadedInv DEF SeqInv
<1>4. \/ peer.byte = -1 /\ sp' = Done(s, Process(e), <<"send", e>>)
      \/ /\ peer.byte # -1 /\ Len(s.wire[Conn(s, e)][Out(e)]) + n <= Capacity
         /\ sp' = [sent EXCEPT !.wire[Conn(s, e)][Out(e)] = b]
      \/ peer.byte # -1 /\ sp' = sent
      \/ sp' = Failed(s, e) \/ sp' = shutdown_properly(s, Process(e))
  BY DEF send_to_peer
<1>5. s.peer[e].socket # None /\ First(s, Process(e), <<"send", e>>)
  BY <1>2, <1>3 DEF First
<1>6. /\ Conn(s, e) \in Clients /\ Out(e) \in Ways /\ s \in States
  BY <1>3, <1>5, ConnFacts, EndFacts DEF Inv, Typed
<1> HIDE DEF s, peer
<1>7. CASE sp' = Failed(s, e) \/ sp' = shutdown_properly(s, Process(e))
  BY <1>2, <1>3, <1>5, <1>7, FailedInv, ShutdownInv DEF SeqInv
<1>8. CASE peer.byte = -1 /\ sp' = Done(s, Process(e), <<"send", e>>)
  <2> DEFINE u == <<"send", e>>
  <2>1. /\ u # StdIn /\ \A x \in Ends : u # <<"recv", x>>
        /\ \A x \in Ends : u = <<"send", x>> => s.peer[x].byte = -1
    BY <1>3, <1>8 DEF StdIn
  <2>2. First(s, Process(e), u)
    BY <1>5
  <2> HIDE DEF u
  <2>3. Inv(Done(s, Process(e), u))
    BY <1>2, <1>3, <2>1, <2>2, DoneInv
  <2> QED BY <1>8, <2>3 DEF SeqInv, u
<1>9. s.wire[Conn(s, e)][Out(e)] \in Seq(Octets)
  BY <1>6 DEF States
<1>10. CASE peer.byte # -1 /\ sp' = sent
  <2> DEFINE w == s.wire[Conn(s, e)][Out(e)]
  <2>1. w \in Seq(Octets) /\ n = Piece(s.peer[e].byte) /\ s.peer[e].byte # -1 /\ s.peer[e].byte < Size
    BY <1>3, <1>9, <1>10
  <2>2. Inv(sent)
    BY <1>3, <1>5, <2>1, SentInv, Zenon
  <2> QED BY <1>10, <2>2 DEF SeqInv
<1>11. CASE /\ peer.byte # -1 /\ Len(s.wire[Conn(s, e)][Out(e)]) + n <= Capacity
            /\ sp' = [sent EXCEPT !.wire[Conn(s, e)][Out(e)] = b]
  <2>1. n = Piece(s.peer[e].byte) /\ s.peer[e].byte # -1 /\ s.peer[e].byte < Size
    BY <1>3, <1>11
  <2>2. /\ s.peer[e] \in PeerRecords /\ PeerGood(s.peer[e])
    BY <1>3, <1>6 DEF Inv, Typed, States
  <2>3. peer.byte \in 0..Size /\ peer.sending \in Lines \cup {None} /\ Size \in Nat
    BY <1>3, <2>1, <2>2 DEF PeerRecords, PeerGood, SeqAssumption
  <2>4. n \in Int /\ 0 < n /\ n <= Size - peer.byte
    BY <1>3, <2>3, PieceBounds
  <2> HIDE DEF n
  <2>5. Bytes(peer.sending) \in Seq(Octets) /\ Len(Bytes(peer.sending)) = Size
    BY <2>3 DEF Bytes, Octets
  <2>6. /\ SubSeq(Bytes(peer.sending), peer.byte + 1, peer.byte + n) \in Seq(Octets)
        /\ Len(SubSeq(Bytes(peer.sending), peer.byte + 1, peer.byte + n)) = n
    BY <2>3, <2>4, <2>5
  <2>7. b \in Seq(Octets) /\ Len(b) = Len(s.wire[Conn(s, e)][Out(e)]) + n
    BY <1>9, <2>6
  <2>8. Len(b) <= Capacity
    BY <1>11, <2>7
  <2> HIDE DEF b
  <2>9. Inv([sent EXCEPT !.wire[Conn(s, e)][Out(e)] = b])
    BY <1>3, <1>5, <2>1, <2>7, <2>8, SentInv, ZenonT(60)
  <2> QED BY <1>11, <2>9 DEF SeqInv
<1> QED BY <1>4, <1>7, <1>8, <1>10, <1>11

\* select: who is found committed has nothing on its way to it.
LEMMA SelectKeeps ==
    ASSUME SeqAssumption, SeqInv, NEW p \in Procs, Select(p)
    PROVE  SeqInv'
<1> DEFINE s == sp
           t == [sp EXCEPT !.todo[p] = Ready(p)]
           R == Ready(p)
           Types == {"stdin", "accept", "recv", "send"} \X (Ends \cup {None})
<1>1. /\ s \in States /\ Inv(s) /\ p \notin s.ended /\ s.todo[p] = {} /\ sp' = t
  BY DEF SeqInv, Inv, Typed, Select
<1>2. s.todo \in [Procs -> SUBSET Types]
  BY <1>1 DEF States
<1>3. /\ \A u \in R : \/ u = StdIn /\ sp.typed[p] # << >>
                      \/ u = Accept /\ p = Server /\ sp.backlog # << >>
                      \/ \E e \in Ends : /\ Process(e) = p /\ sp.peer[e].socket # None
                                         /\ u = <<"recv", e>> \/ u = <<"send", e>>
      /\ \A e \in Ends : Process(e) = p /\ sp.peer[e].socket # None /\ <<"recv", e>> \notin R => ~Readable(e)
  BY DEF Ready, Peers
<1>4. R \in SUBSET Types
  BY <1>3 DEF StdIn, Accept
<1> HIDE DEF R
<1>5. t \in States
  BY <1>1, <1>4 DEF States, R
<1>6. /\ t.peer = s.peer /\ t.wire = s.wire /\ t.backlog = s.backlog /\ t.typed = s.typed
      /\ t.ended = s.ended /\ t.left = s.left /\ t.todo = [s.todo EXCEPT ![p] = R]
  BY <1>1 DEF States, R
<1>7. t.todo[p] = R /\ \A q \in Procs : q # p => t.todo[q] = s.todo[q]
  BY <1>2, <1>6
<1> HIDE DEF t
<1>8. Typed(t)
  BY <1>1, <1>5, <1>6 DEF Inv, Typed
<1>9. TodoGood(t)
  <2>1. \A q \in Procs : q \in t.ended => t.todo[q] = {}
    BY <1>1, <1>6, <1>7 DEF Inv, TodoGood
  <2>2. ASSUME NEW q \in Procs, NEW u \in t.todo[q]
        PROVE  Found(t, q, u)
    <3>1. CASE q = p
      BY <1>3, <1>6, <1>7, <2>2, <3>1 DEF Found
    <3>2. CASE q # p
      <4>1. Found(s, q, u)
        BY <1>1, <1>7, <2>2, <3>2 DEF Inv, TodoGood
      <4> QED BY <1>6, <4>1 DEF Found
    <3> QED BY <3>1, <3>2
  <2> QED BY <2>1, <2>2 DEF TodoGood
<1>10. OneHolder(t) /\ Clean(t)
  BY <1>1, <1>6 DEF Inv, OneHolder, Clean
<1>11. NotStuck(t)
  <2> SUFFICES ASSUME NEW e \in Ends, s.peer[e].byte # -1, Process(e) \notin s.ended
               PROVE  First(t, Process(e), <<"send", e>>)
    BY <1>6 DEF NotStuck
  <2>1. First(s, Process(e), <<"send", e>>) /\ Process(e) \in Procs
    BY <1>1, EndFacts DEF Inv, NotStuck
  <2>2. Process(e) # p
    BY <1>1, <2>1 DEF First
  <2> QED BY <1>7, <2>1, <2>2 DEF First
<1>12. OneFits(t)
  <2> SUFFICES ASSUME NEW i \in Slots, t.peer[i].socket # None, t.left[t.peer[i].socket] = {},
                      Committed(t, i), Committed(t, t.peer[i].socket)
               PROVE  Fits(t, i) \/ Fits(t, t.peer[i].socket)
    BY DEF OneFits
  <2> DEFINE c == s.peer[i].socket
  <2>1. c \in Clients /\ t.peer[i].socket = c /\ c # None /\ s.peer[c].socket # None
    BY <1>1, <1>6 DEF Inv, OneHolder, Server, None
  <2>2. /\ i \in Ends /\ c \in Ends /\ Process(i) = Server /\ Process(c) = c /\ Server \in Procs /\ c \in Procs
        /\ In(i) = "up" /\ Out(i) = "down" /\ In(c) = "down" /\ Out(c) = "up"
        /\ Conn(s, i) = c /\ Conn(s, c) = c /\ Conn(t, i) = c /\ Conn(t, c) = c
    BY <2>1, EndFacts DEF Procs
  <2>3. CASE p = Server
    <3>1. ~Readable(i)
      BY <1>3, <1>7, <2>1, <2>2, <2>3 DEF Committed
    <3>2. t.wire[Conn(t, c)][Out(c)] = << >>
      BY <1>6, <2>2, <3>1 DEF Readable
    <3> QED BY <1>8, <2>1, <2>2, <3>2, EmptyFits
  <2>4. CASE p = c
    <3>1. ~Readable(c)
      BY <1>3, <1>7, <2>1, <2>2, <2>4 DEF Committed
    <3>2. t.wire[Conn(t, i)][Out(i)] = << >>
      BY <1>6, <2>2, <3>1 DEF Readable
    <3> QED BY <1>8, <2>2, <3>2, EmptyFits
  <2>5. CASE p # Server /\ p # c
    <3>1. t.todo[Server] = s.todo[Server] /\ t.todo[c] = s.todo[c]
      BY <1>7, <2>2, <2>5
    <3>2. Committed(s, i) /\ Committed(s, c) /\ s.left[c] = {}
      BY <1>6, <2>1, <2>2, <3>1 DEF Committed
    <3>3. Fits(s, i) \/ Fits(s, c)
      BY <1>1, <2>1, <3>2 DEF Inv, OneFits
    <3> QED BY <1>6, <2>1, <2>2, <3>1, <3>3 DEF Fits, Due
  <2> QED BY <2>3, <2>4, <2>5
<1> QED BY <1>1, <1>8, <1>9, <1>10, <1>11, <1>12 DEF SeqInv, Inv

\* A line is queued for the peers of a process, none of which is half sent to.
LEMMA ReadLineKeeps ==
    ASSUME SeqAssumption, SeqInv, NEW p \in Procs, handle_read_from_stdin(p)
    PROVE  SeqInv'
<1> DEFINE s == sp
           t == sp'
           m == Last(sp.typed[p])
           u == Done([sp EXCEPT !.typed[p] = << >>], p, StdIn)
           P == Peers(p)
           Types == {"stdin", "accept", "recv", "send"} \X (Ends \cup {None})
<1>1. /\ s \in States /\ Inv(s) /\ First(s, p, StdIn) /\ StdIn \in s.todo[p]
      /\ t = peer_add_to_send(u, P, m)
  BY DEF SeqInv, Inv, Typed, handle_read_from_stdin, Begun, First
<1>2. /\ s.todo \in [Procs -> SUBSET Types] /\ s.typed \in [Procs -> Seq(Lines)]
      /\ s.peer \in [Ends -> PeerRecords] /\ s.posted \in [Clients -> [Ways -> Seq(Lines)]]
  BY <1>1 DEF States
<1>3. m \in Lines
  <2>1. Found(s, p, StdIn)
    BY <1>1 DEF Inv, TodoGood
  <2>2. sp.typed[p] # << >>
    BY <2>1 DEF Found, StdIn, Accept
  <2> QED BY <1>2, <2>2 DEF Last
<1>4. p \notin s.ended
  BY <1>1 DEF Inv, TodoGood
<1> HIDE DEF m
<1>5. /\ u.peer = s.peer /\ u.posted = s.posted /\ u.wire = s.wire /\ u.backlog = s.backlog
      /\ u.ended = s.ended /\ u.left = s.left
      /\ u.typed = [s.typed EXCEPT ![p] = << >>]
      /\ u.todo = [s.todo EXCEPT ![p] = s.todo[p] \ {StdIn}]
  BY <1>1 DEF States, Done
<1>6. u \in States
  <2>1. s.todo[p] \ {StdIn} \in SUBSET Types
    BY <1>2
  <2>2. [s.typed EXCEPT ![p] = << >>] \in [Procs -> Seq(Lines)]
    BY <1>2
  <2> QED BY <1>1, <2>1, <2>2 DEF States, Done
<1> HIDE DEF u, P
<1> DEFINE peers == [e \in Ends |-> IF e \in P THEN [s.peer[e] EXCEPT !.queue = enqueue(s.peer[e].queue, m)]
                                    ELSE s.peer[e]]
<1>7. \A e \in Ends : LET q == enqueue(s.peer[e].queue, m)
                      IN  /\ q \in Seq(Lines) /\ Len(q) \in Nat
                          /\ Len(s.peer[e].queue) <= QueueSize => Len(q) <= QueueSize
  BY <1>2, <1>3 DEF enqueue, PeerRecords, SeqAssumption
<1>8. peers \in [Ends -> PeerRecords]
  BY <1>2, <1>7 DEF PeerRecords
<1>9. /\ t \in States /\ t.peer = peers /\ t.wire = u.wire /\ t.backlog = u.backlog
      /\ t.typed = u.typed /\ t.ended = u.ended /\ t.left = u.left /\ t.todo = u.todo
  <2> DEFINE takes(c, w) == \E e \in P : Conn(u, e) = c /\ Out(e) = w /\ Len(u.peer[e].queue) < QueueSize
             post == [c \in Clients |-> [w \in Ways |->
                        IF takes(c, w) THEN Append(u.posted[c][w], m) ELSE u.posted[c][w]]]
  <2>1. t = [u EXCEPT !.peer = peers, !.posted = post]
    BY <1>1, <1>5 DEF peer_add_to_send
  <2> HIDE DEF takes
  <2>2. post \in [Clients -> [Ways -> Seq(Lines)]]
    BY <1>2, <1>3, <1>5
  <2> HIDE DEF post, peers
  <2> QED BY <1>6, <1>8, <2>1, <2>2 DEF States
<1>10. /\ t.todo[p] = s.todo[p] \ {StdIn}
       /\ \A q \in Procs : q # p => t.todo[q] = s.todo[q]
       /\ \A q \in Procs : t.todo[q] \subseteq s.todo[q]
       /\ t.typed[p] = << >> /\ \A q \in Procs : q # p => t.typed[q] = s.typed[q]
  BY <1>2, <1>5, <1>9
<1>11. /\ \A e \in Ends : e \notin P => t.peer[e] = s.peer[e]
       /\ \A e \in Ends : /\ t.peer[e].socket = s.peer[e].socket /\ t.peer[e].byte = s.peer[e].byte
                          /\ t.peer[e].got = s.peer[e].got
       /\ \A e \in Ends : t.peer[e].queue \in {s.peer[e].queue, enqueue(s.peer[e].queue, m)}
  <2>1. \A e \in Ends : t.peer[e] = s.peer[e] \/ t.peer[e] = [s.peer[e] EXCEPT !.queue = enqueue(s.peer[e].queue, m)]
    BY <1>9
  <2>2. \A e \in Ends : e \notin P => t.peer[e] = s.peer[e]
    BY <1>9
  <2> QED BY <1>2, <2>1, <2>2, ZenonT(60) DEF PeerRecords
<1>12. \A e \in P : e \in Ends /\ Process(e) = p /\ s.peer[e].socket # None
  BY DEF P, Peers
<1>13. \A e \in P : s.peer[e].byte = -1
  <2> SUFFICES ASSUME NEW e \in P, s.peer[e].byte # -1
               PROVE  FALSE
    OBVIOUS
  <2>1. First(s, p, <<"send", e>>)
    BY <1>1, <1>4, <1>12 DEF Inv, NotStuck
  <2>2. Order(StdIn) < Order(<<"send", e>>) /\ Order(StdIn) \in Int /\ Order(<<"send", e>>) \in Int
    BY <1>1, <1>12, <2>1, Orders DEF Inv, First
  <2> QED BY <1>1, <2>1, <2>2 DEF First
<1> HIDE DEF peers, t
<1>14. Typed(t)
  <2>1. ASSUME NEW e \in Ends
        PROVE  PeerGood(t.peer[e])
    <3>1. PeerGood(s.peer[e])
      BY <1>1 DEF Inv, Typed
    <3>2. CASE e \in P
      BY <1>7, <1>11, <1>13, <3>1, <3>2 DEF PeerGood
    <3> QED BY <1>11, <3>1, <3>2
  <2> QED BY <1>1, <1>5, <1>9, <2>1 DEF Inv, Typed
<1>15. TodoGood(t)
  <2>1. \A q \in Procs : q \in t.ended => t.todo[q] = {}
    BY <1>1, <1>5, <1>9, <1>10 DEF Inv, TodoGood
  <2>2. ASSUME NEW q \in Procs, NEW v \in t.todo[q]
        PROVE  Found(t, q, v)
    <3>1. Found(s, q, v)
      BY <1>1, <1>10, <2>2 DEF Inv, TodoGood
    <3>2. q = p => v # StdIn
      BY <1>10, <2>2
    <3> QED BY <1>5, <1>9, <1>10, <1>11, <3>1, <3>2 DEF Found
  <2> QED BY <2>1, <2>2 DEF TodoGood
<1>16. OneHolder(t)
  <2>1. /\ \A i \in Slots : i \in Ends
        /\ \A c \in Clients : c \in Ends
        /\ \A k \in DOMAIN s.backlog : s.backlog[k] \in Clients
    BY <1>1 DEF States, Ends
  <2> QED BY <1>1, <1>5, <1>9, <1>11, <2>1 DEF Inv, OneHolder
<1>17. Clean(t)
  <2> SUFFICES ASSUME NEW i \in Slots, t.peer[i].socket = None
               PROVE  t.peer[i] = create_peer
    BY DEF Clean
  <2>1. i \in Ends /\ i \notin P
    BY <1>11, <1>12, EndFacts
  <2> QED BY <1>1, <1>11, <2>1 DEF Inv, Clean
<1>18. NotStuck(t)
  <2> SUFFICES ASSUME NEW e \in Ends, s.peer[e].byte # -1, Process(e) \notin s.ended
               PROVE  First(t, Process(e), <<"send", e>>)
    BY <1>5, <1>9, <1>11 DEF NotStuck
  <2>1. First(s, Process(e), <<"send", e>>) /\ Process(e) \in Procs
    BY <1>1, EndFacts DEF Inv, NotStuck
  <2>2. <<"send", e>> # StdIn
    BY DEF StdIn
  <2> QED BY <1>10, <2>1, <2>2 DEF First
<1>19. OneFits(t)
  <2> SUFFICES ASSUME NEW i \in Slots, t.peer[i].socket # None, t.left[t.peer[i].socket] = {},
                      Committed(t, i), Committed(t, t.peer[i].socket)
               PROVE  Fits(t, i) \/ Fits(t, t.peer[i].socket)
    BY DEF OneFits
  <2> DEFINE c == s.peer[i].socket
  <2>1. c \in Clients /\ t.peer[i].socket = c /\ c # None
    BY <1>1, <1>11, EndFacts DEF Inv, OneHolder
  <2>2. /\ i \in Ends /\ c \in Ends /\ Process(i) = Server /\ Process(c) = c /\ Server \in Procs /\ c \in Procs
        /\ Conn(s, i) = c /\ Conn(s, c) = c /\ Conn(t, i) = c /\ Conn(t, c) = c
        /\ Out(i) \in Ways /\ Out(c) \in Ways
    BY <2>1, EndFacts DEF Procs
  <2>3. \A k \in {"recv", "send"}, q \in Procs : \A e \in Ends : <<k, e>> \in t.todo[q] <=> <<k, e>> \in s.todo[q]
    <3>1. \A k \in {"recv", "send"}, e \in Ends : <<k, e>> # StdIn
      BY DEF StdIn
    <3> QED BY <1>10, <3>1
  <2>4. Committed(s, i) /\ Committed(s, c) /\ s.left[c] = {}
    BY <1>5, <1>9, <2>1, <2>2, <2>3 DEF Committed
  <2>5. Fits(s, i) \/ Fits(s, c)
    BY <1>1, <2>1, <2>4 DEF Inv, OneFits
  <2>6. ASSUME NEW x \in {i, c}
        PROVE  Due(t, x) \in Nat /\ Due(s, x) \in Nat /\ Due(t, x) <= Due(s, x)
    <3>1. x \in Ends /\ Process(x) \in Procs
      BY <2>2
    <3>2. /\ t.peer[x] \in PeerRecords /\ PeerGood(t.peer[x]) /\ s.peer[x] \in PeerRecords /\ PeerGood(s.peer[x])
      BY <1>1, <1>14, <3>1 DEF Inv, Typed, States
    <3>3. /\ Unsent(t.peer[x]) \in Nat /\ Unsent(t.peer[x]) <= Volume(QueueSize)
          /\ Unsent(s.peer[x]) \in Nat /\ Volume(QueueSize) \in Nat
      BY <3>2, UnsentBounds, Volumes
    <3>4. CASE Process(x) = p
      <4>1. Due(t, x) = Unsent(t.peer[x]) /\ Due(s, x) = Volume(QueueSize)
        BY <1>1, <1>10, <3>4 DEF Due
      <4> QED BY <3>3, <4>1
    <3>5. CASE Process(x) # p
      <4>1. t.peer[x] = s.peer[x] /\ t.todo[Process(x)] = s.todo[Process(x)]
        BY <1>10, <1>11, <1>12, <3>1, <3>5
      <4>2. Due(t, x) = Due(s, x)
        BY <4>1 DEF Due
      <4>3. Due(s, x) \in Nat
        BY <3>3 DEF Due
      <4> QED BY <4>2, <4>3
    <3> QED BY <3>4, <3>5
  <2>7. ASSUME NEW x \in {i, c}, Fits(s, x)
        PROVE  Fits(t, x)
    <3> DEFINE len == Len(s.wire[c][Out(x)])
               ds == Due(s, x)
               dt == Due(t, x)
    <3>1. Conn(s, x) = c /\ Conn(t, x) = c /\ t.wire = s.wire
      BY <1>5, <1>9, <2>2
    <3>2. /\ len \in Nat /\ ds \in Nat /\ dt \in Nat /\ dt <= ds /\ Capacity \in Nat
      <4>1. s.wire[c][Out(x)] \in Seq(Octets)
        BY <1>1, <2>1, <2>2 DEF States
      <4>2. Capacity \in Nat
        BY DEF SeqAssumption
      <4>3. Due(t, x) \in Nat /\ Due(s, x) \in Nat /\ Due(t, x) <= Due(s, x)
        BY <2>6
      <4>4. \A w \in Seq(Octets) : Len(w) \in Nat
        OBVIOUS
      <4>5. Len(s.wire[c][Out(x)]) \in Nat
        BY <4>1, <4>4, Zenon
      <4> QED BY <4>2, <4>3, <4>5
    <3>3. len + ds <= Capacity
      BY <2>7, <3>1 DEF Fits
    <3> HIDE DEF len, ds, dt
    <3>4. len + dt <= Capacity
      BY <3>2, <3>3
    <3> QED BY <3>1, <3>4 DEF Fits, len, dt
  <2> QED BY <2>1, <2>5, <2>7
<1> QED BY <1>14, <1>15, <1>16, <1>17, <1>18, <1>19 DEF SeqInv, Inv, t

\* A connection is accepted into a slot that is clean, or closed.
LEMMA AcceptKeeps ==
    ASSUME SeqAssumption, SeqInv, handle_new_connection
    PROVE  SeqInv'
<1> DEFINE s == sp
           t == sp'
           d == sp.backlog[1]
           u == Done([sp EXCEPT !.backlog = Tail(@)], Server, Accept)
           Types == {"stdin", "accept", "recv", "send"} \X (Ends \cup {None})
<1>1. /\ s \in States /\ Inv(s) /\ Accept \in s.todo[Server] /\ Server \in Procs
      /\ \/ t = [u EXCEPT !.left[d] = @ \cup {Server}]
         \/ \E i \in {j \in Slots : sp.peer[j].socket = None} :
              t = [u EXCEPT !.peer[i].socket = d, !.peer[i].byte = -1, !.peer[i].got = << >>]
  BY ZenonT(60) DEF SeqInv, Inv, Typed, handle_new_connection, Begun, Procs
<1>2. /\ s.todo \in [Procs -> SUBSET Types] /\ s.backlog \in Seq(Clients)
      /\ s.peer \in [Ends -> PeerRecords] /\ s.left \in [Clients -> SUBSET Procs]
  BY <1>1 DEF States
<1>3. s.backlog # << >>
  <2>1. Found(s, Server, Accept)
    BY <1>1, ZenonT(60) DEF Inv, TodoGood
  <2> QED BY <2>1, SMTT(60) DEF Found, StdIn, Accept
<1>4. /\ d \in Clients /\ 1 \in DOMAIN s.backlog /\ Tail(s.backlog) \in Seq(Clients)
      /\ \A k \in DOMAIN Tail(s.backlog) : /\ k + 1 \in DOMAIN s.backlog /\ k + 1 # 1
                                           /\ Tail(s.backlog)[k] = s.backlog[k + 1]
  BY <1>2, <1>3
<1>5. /\ u.peer = s.peer /\ u.wire = s.wire /\ u.backlog = Tail(s.backlog)
      /\ u.ended = s.ended /\ u.left = s.left /\ u.typed = s.typed
      /\ u.todo = [s.todo EXCEPT ![Server] = s.todo[Server] \ {Accept}]
  BY <1>1 DEF States, Done
<1>6. u \in States
  <2>1. s.todo[Server] \ {Accept} \in SUBSET Types
    BY <1>1, <1>2, ZenonT(60)
  <2> QED BY <1>1, <1>4, <2>1, ZenonT(60) DEF States, Done
<1>7. /\ u.todo[Server] = s.todo[Server] \ {Accept}
      /\ \A q \in Procs : q # Server => u.todo[q] = s.todo[q]
      /\ \A q \in Procs : u.todo[q] \subseteq s.todo[q]
  BY <1>1, <1>2, <1>5, ZenonT(60)
<1> HIDE DEF u
<1>8. /\ d # None /\ s.peer[d].socket = Server /\ \A i \in Slots : s.peer[i].socket # d
      /\ \A k \in DOMAIN u.backlog : /\ u.backlog[k] \in Clients /\ u.backlog[k] # d
                                     /\ s.peer[u.backlog[k]].socket = Server
                                     /\ \A i \in Slots : s.peer[i].socket # u.backlog[k]
                                     /\ \A l \in DOMAIN u.backlog : u.backlog[l] = u.backlog[k] => l = k
  <2>1. d # None
    BY <1>4 DEF SeqAssumption, Ends
  <2>2. \A k, l \in DOMAIN s.backlog : s.backlog[l] = s.backlog[k] => l = k
    BY <1>1 DEF Inv, OneHolder
  <2>3. \A k \in DOMAIN s.backlog : /\ s.backlog[k] \in Clients /\ s.peer[s.backlog[k]].socket = Server
                                    /\ \A i \in Slots : s.peer[i].socket # s.backlog[k]
    <3>1. \A k \in DOMAIN s.backlog : s.backlog[k] \in Clients
      BY <1>2, SMTT(60)
    <3>2. \A k \in DOMAIN s.backlog : /\ s.peer[s.backlog[k]].socket = Server
                                      /\ \A i \in Slots : s.peer[i].socket # s.backlog[k]
      BY <1>1 DEF Inv, OneHolder
    <3> QED BY <3>1, <3>2
  <2>4. \A k, l \in DOMAIN u.backlog : k \in Int /\ l \in Int
    BY <1>4, <1>5
  <2>5. \A k \in DOMAIN u.backlog : /\ k + 1 \in DOMAIN s.backlog /\ k + 1 # 1 /\ u.backlog[k] = s.backlog[k + 1]
    BY <1>4, <1>5
  <2>6. \A k, l \in DOMAIN u.backlog : u.backlog[l] = u.backlog[k] => l + 1 = k + 1
    BY <2>2, <2>5
  <2>7. \A k, l \in DOMAIN u.backlog : u.backlog[l] = u.backlog[k] => l = k
    BY <2>4, <2>6, SMTT(60)
  <2> QED BY <1>4, <2>1, <2>2, <2>3, <2>5, <2>7
<1>9. PICK new \in SUBSET {i \in Slots : s.peer[i].socket = None} :
        /\ t \in States /\ t.wire = s.wire /\ t.backlog = u.backlog /\ t.ended = s.ended
        /\ t.typed = s.typed /\ t.todo = u.todo
        /\ \A i, j \in new : i = j
        /\ \A i \in new : PeerGood(t.peer[i]) /\ t.peer[i].byte = -1 /\ t.peer[i].socket = d
        /\ \A e \in Ends : e \notin new => t.peer[e] = s.peer[e]
        /\ \A c \in Clients : t.left[c] \in {s.left[c], s.left[c] \cup {Server}}
  <2>1. ASSUME t = [u EXCEPT !.left[d] = @ \cup {Server}]
        PROVE  \E new \in SUBSET {j \in Slots : s.peer[j].socket = None} :
                 /\ t \in States /\ t.wire = s.wire /\ t.backlog = u.backlog /\ t.ended = s.ended
                 /\ t.typed = s.typed /\ t.todo = u.todo
                 /\ \A k, j \in new : k = j
                 /\ \A k \in new : PeerGood(t.peer[k]) /\ t.peer[k].byte = -1 /\ t.peer[k].socket = d
                 /\ \A e \in Ends : e \notin new => t.peer[e] = s.peer[e]
                 /\ \A c \in Clients : t.left[c] \in {s.left[c], s.left[c] \cup {Server}}
    <3>1. u.left[d] \cup {Server} \in SUBSET Procs
      BY <1>1, <1>2, <1>4, <1>5
    <3>2. t \in States
      BY <1>4, <1>6, <2>1, <3>1 DEF States
    <3>3. /\ t.wire = s.wire /\ t.backlog = u.backlog /\ t.ended = s.ended /\ t.peer = s.peer
          /\ t.typed = s.typed /\ t.todo = u.todo
          /\ t.left = [s.left EXCEPT ![d] = s.left[d] \cup {Server}]
      BY <1>5, <1>6, <2>1 DEF States
    <3>4. \A c \in Clients : t.left[c] \in {s.left[c], s.left[c] \cup {Server}}
      BY <1>2, <3>3
    <3>5. {} \in SUBSET {j \in Slots : s.peer[j].socket = None}
      OBVIOUS
    <3> HIDE DEF t
    <3> WITNESS {} \in SUBSET {j \in Slots : s.peer[j].socket = None}
    <3> QED BY <3>2, <3>3, <3>4, SMTT(60)
  <2>2. ASSUME NEW i \in Slots, s.peer[i].socket = None,
               t = [u EXCEPT !.peer[i].socket = d, !.peer[i].byte = -1, !.peer[i].got = << >>]
        PROVE  /\ t \in States /\ t.wire = s.wire /\ t.backlog = u.backlog /\ t.ended = s.ended
               /\ t.typed = s.typed /\ t.todo = u.todo /\ t.left = s.left
               /\ PeerGood(t.peer[i]) /\ t.peer[i].byte = -1 /\ t.peer[i].socket = d
               /\ \A e \in Ends : e # i => t.peer[e] = s.peer[e]
    <3> DEFINE no == -1
               nil == << >>
               q == [create_peer EXCEPT !.socket = d, !.byte = no, !.got = nil]
    <3>1. i \in Ends /\ s.peer[i] = create_peer
      BY <1>1, <2>2, EndFacts DEF Inv, Clean
    <3>2. t = [u EXCEPT !.peer[i] = q]
      BY <1>2, <1>5, <1>6, <2>2, <3>1, ZenonT(60) DEF States
    <3>3. no \in Int /\ no = -1 /\ nil \in Seq(Octets) /\ Len(nil) = 0
      OBVIOUS
    <3> HIDE DEF no, nil
    <3>8. /\ create_peer \in PeerRecords /\ create_peer.queue = << >>
      <4>1. << >> \in Seq(Lines) /\ << >> \in Seq(Octets) /\ -1 \in Int
        OBVIOUS
      <4> QED BY <4>1 DEF create_peer, PeerRecords
    <3>9. q.socket = d /\ q.byte = no /\ q.got = nil /\ q.queue = create_peer.queue
      BY DEF create_peer
    <3>10. q \in PeerRecords
      BY <1>4, <3>3, <3>8 DEF PeerRecords
    <3>11. PeerGood(q)
      <4>1. Len(q.queue) = 0 /\ Len(q.got) = 0 /\ q.byte = -1
        BY <3>3, <3>8, <3>9
      <4>2. QueueSize \in Nat /\ Size \in Nat
        BY DEF SeqAssumption
      <4> QED BY <4>1, <4>2 DEF PeerGood
    <3>4. q \in PeerRecords /\ q.socket = d /\ q.byte = -1 /\ PeerGood(q)
      BY <3>3, <3>9, <3>10, <3>11
    <3> HIDE DEF q
    <3>5. t \in States
      BY <1>6, <3>1, <3>2, <3>4 DEF States
    <3>6. /\ t.wire = s.wire /\ t.backlog = u.backlog /\ t.ended = s.ended
          /\ t.typed = s.typed /\ t.todo = u.todo /\ t.left = s.left
          /\ t.peer = [s.peer EXCEPT ![i] = q]
      BY <1>5, <1>6, <3>2 DEF States
    <3>7. t.peer[i] = q /\ \A e \in Ends : e # i => t.peer[e] = s.peer[e]
      BY <1>2, <3>1, <3>6
    <3> QED BY <3>4, <3>5, <3>6, <3>7
  <2>3. ASSUME NEW i \in {j \in Slots : sp.peer[j].socket = None},
               t = [u EXCEPT !.peer[i].socket = d, !.peer[i].byte = -1, !.peer[i].got = << >>]
        PROVE  \E new \in SUBSET {j \in Slots : s.peer[j].socket = None} :
                 /\ t \in States /\ t.wire = s.wire /\ t.backlog = u.backlog /\ t.ended = s.ended
                 /\ t.typed = s.typed /\ t.todo = u.todo
                 /\ \A k, j \in new : k = j
                 /\ \A k \in new : PeerGood(t.peer[k]) /\ t.peer[k].byte = -1 /\ t.peer[k].socket = d
                 /\ \A e \in Ends : e \notin new => t.peer[e] = s.peer[e]
                 /\ \A c \in Clients : t.left[c] \in {s.left[c], s.left[c] \cup {Server}}
    <3>1. {i} \in SUBSET {j \in Slots : s.peer[j].socket = None}
      OBVIOUS
    <3> WITNESS {i} \in SUBSET {j \in Slots : s.peer[j].socket = None}
    <3> QED BY <2>2, <2>3
  <2> QED BY <1>1, <2>1, <2>3, ZenonT(60)
<1> HIDE DEF t
<1>10. \A e \in Ends : e \in new => e \in Slots /\ s.peer[e].socket = None
  OBVIOUS
<1>11. \A c \in Clients : c \in Ends /\ c \notin new /\ t.peer[c] = s.peer[c]
  BY <1>9, <1>10, EndFacts, SMTT(60)
<1>12. Typed(t)
  <2>1. ASSUME NEW c \in Clients
        PROVE  t.left[c] \subseteq {c, Server}
    <3>1. s.left[c] \subseteq {c, Server}
      BY <1>1 DEF Inv, Typed
    <3>2. t.left[c] = s.left[c] \/ t.left[c] = s.left[c] \cup {Server}
      BY <1>9, SMTT(60)
    <3> QED BY <3>1, <3>2, SMTT(60)
  <2>2. \A e \in Ends : PeerGood(t.peer[e])
    BY <1>1, <1>9 DEF Inv, Typed
  <2> QED BY <1>1, <1>9, <2>1, <2>2, ZenonT(60) DEF Inv, Typed
<1>13. TodoGood(t)
  <2>1. \A q \in Procs : q \in t.ended => t.todo[q] = {}
    BY <1>1, <1>7, <1>9, ZenonT(60) DEF Inv, TodoGood
  <2>2. ASSUME NEW q \in Procs, NEW v \in t.todo[q]
        PROVE  Found(t, q, v)
    <3>1. Found(s, q, v)
      BY <1>1, <1>7, <1>9, <2>2 DEF Inv, TodoGood
    <3>2. q = Server => v # Accept
      BY <1>7, <1>9, <2>2
    <3>3. \A e \in Ends : s.peer[e].socket # None => t.peer[e].socket # None
      BY <1>9
    <3> QED BY <1>9, <3>1, <3>2, <3>3 DEF Found
  <2> QED BY <2>1, <2>2, SMTT(60) DEF TodoGood
<1>14. OneHolder(t)
  <2>1. \A i \in Slots : i \in Ends
    BY EndFacts
  <2>2. ASSUME NEW i \in Slots, t.peer[i].socket # None
        PROVE  /\ t.peer[i].socket \in Clients
               /\ t.peer[t.peer[i].socket].socket = Server
               /\ \A j \in Slots : t.peer[j].socket = t.peer[i].socket => j = i
    <3>1. CASE i \in new
      <4>1. t.peer[i].socket = d
        BY <1>9, <3>1
      <4>2. \A j \in Slots : t.peer[j].socket = d => j \in new
        BY <1>8, <1>9, <2>1
      <4> QED BY <1>4, <1>8, <1>9, <1>11, <3>1, <4>1, <4>2
    <3>2. CASE i \notin new
      <4>1. t.peer[i] = s.peer[i]
        BY <1>9, <2>1, <3>2, SMTT(60)
      <4>2. s.peer[i].socket \in Clients /\ s.peer[s.peer[i].socket].socket = Server
        BY <1>1, <2>2, <4>1, ZenonT(60) DEF Inv, OneHolder
      <4>3. \A j \in Slots : t.peer[j].socket = s.peer[i].socket => j \notin new
        BY <1>8, <1>9
      <4>5. \A j \in Slots : j \notin new => t.peer[j] = s.peer[j]
        BY <1>9, <2>1, SMTT(60)
      <4>6. \A j \in Slots : s.peer[j].socket = s.peer[i].socket => j = i
        BY <1>1, <2>2, <4>1, ZenonT(60) DEF Inv, OneHolder
      <4>4. \A j \in Slots : t.peer[j].socket = s.peer[i].socket => j = i
        BY <4>3, <4>5, <4>6, SMTT(60)
      <4> QED BY <1>11, <4>1, <4>2, <4>4
    <3> QED BY <3>1, <3>2
  <2>3. \A c \in Clients : t.peer[c].socket \in {Server, None}
    BY <1>1, <1>11, ZenonT(60) DEF Inv, OneHolder
  <2>4. ASSUME NEW k \in DOMAIN t.backlog
        PROVE  /\ t.peer[t.backlog[k]].socket = Server
               /\ \A i \in Slots : t.peer[i].socket # t.backlog[k]
               /\ \A l \in DOMAIN t.backlog : t.backlog[l] = t.backlog[k] => l = k
    BY <1>8, <1>9, <1>11, <2>1, <2>4, SMTT(60)
  <2> QED BY <2>2, <2>3, <2>4 DEF OneHolder
<1>15. Clean(t)
  <2>1. \A i \in Slots : i \in Ends
    BY EndFacts
  <2>2. \A i \in Slots : i \in new => t.peer[i].socket # None
    BY <1>8, <1>9
  <2>3. \A i \in Slots : i \notin new => t.peer[i] = s.peer[i]
    BY <1>9, <2>1
  <2> QED BY <1>1, <2>2, <2>3 DEF Inv, Clean
<1>16. NotStuck(t)
  <2> SUFFICES ASSUME NEW e \in Ends, t.peer[e].byte # -1, Process(e) \notin s.ended
               PROVE  First(t, Process(e), <<"send", e>>)
    BY <1>9 DEF NotStuck
  <2>1. t.peer[e] = s.peer[e]
    BY <1>9, SMTT(60)
  <2>2. First(s, Process(e), <<"send", e>>) /\ Process(e) \in Procs
    BY <1>1, <2>1, EndFacts DEF Inv, NotStuck
  <2>3. <<"send", e>> # Accept
    BY DEF Accept
  <2> QED BY <1>7, <1>9, <2>2, <2>3 DEF First
<1>17. OneFits(t)
  <2> SUFFICES ASSUME NEW i \in Slots, t.peer[i].socket # None, t.left[t.peer[i].socket] = {},
                      Committed(t, i), Committed(t, t.peer[i].socket)
               PROVE  Fits(t, i) \/ Fits(t, t.peer[i].socket)
    BY DEF OneFits
  <2>1. \A k \in {"recv", "send"}, q \in Procs : \A e \in Ends : <<k, e>> \in t.todo[q] <=> <<k, e>> \in s.todo[q]
    <3>1. \A k \in {"recv", "send"}, e \in Ends : <<k, e>> # Accept
      BY DEF Accept
    <3> QED BY <1>7, <1>9, <3>1
  <2>2. i \in Ends /\ Process(i) = Server
    BY EndFacts
  <2>3. i \notin new
    <3>1. <<"send", i>> \in s.todo[Server] /\ <<"send", i>> # StdIn /\ <<"send", i>> # Accept
      BY <1>1, <2>1, <2>2, ZenonT(60) DEF Committed, StdIn, Accept
    <3>2. Found(s, Server, <<"send", i>>)
      BY <1>1, <3>1 DEF Inv, TodoGood
    <3>3. s.peer[i].socket # None
      BY <3>1, <3>2 DEF Found
    <3> QED BY <1>10, <2>2, <3>3, SMTT(60)
  <2> DEFINE c == s.peer[i].socket
  <2>4. t.peer[i] = s.peer[i]
    BY <1>9, <2>2, <2>3, SMTT(60)
  <2>5. c \in Clients /\ c # None
    BY <1>1, <2>4, ZenonT(60) DEF Inv, OneHolder
  <2>6. /\ c \in Ends /\ Process(c) = c /\ c \in Procs
        /\ Conn(s, i) = c /\ Conn(s, c) = c /\ Conn(t, i) = c /\ Conn(t, c) = c /\ t.peer[c] = s.peer[c]
    BY <1>11, <2>4, <2>5, EndFacts DEF Procs
  <2>7. t.left[c] = {} /\ s.left[c] = {}
    BY <1>9, <2>4, <2>5, SMTT(60)
  <2>8. Committed(s, i) /\ Committed(s, c)
    BY <1>1, <2>1, <2>2, <2>4, <2>6, ZenonT(60) DEF Committed
  <2>9. Fits(s, i) \/ Fits(s, c)
    BY <1>1, <2>5, <2>7, <2>8, ZenonT(60) DEF Inv, OneFits
  <2>10. \A q \in Procs : StdIn \in t.todo[q] <=> StdIn \in s.todo[q]
    <3>1. StdIn # Accept
      BY SMTT(60) DEF StdIn, Accept
    <3> QED BY <1>7, <1>9, <3>1
  <2>11. Due(t, i) = Due(s, i) /\ Due(t, c) = Due(s, c)
    BY <1>1, <2>2, <2>4, <2>6, <2>10, ZenonT(60) DEF Due
  <2> QED BY <1>9, <2>4, <2>6, <2>9, <2>11 DEF Fits
<1> QED BY <1>12, <1>13, <1>14, <1>15, <1>16, <1>17, SMTT(60) DEF SeqInv, Inv, t

\* A client that connects waits to be accepted; nobody had it before.
LEMMA ConnectKeeps ==
    ASSUME SeqAssumption, SeqInv, NEW d \in Clients, connect_server(d)
    PROVE  SeqInv'
<1> DEFINE s == sp
           t == sp'
           q == [s.peer[d] EXCEPT !.socket = Server]
<1>1. s \in States /\ Inv(s) /\ s.peer[d].socket = None /\ d \in Ends /\ d \in Procs
  BY EndFacts DEF SeqInv, Inv, Typed, connect_server, Procs
<1>2. CASE Server \in s.ended
  <2>1. t = shutdown_properly(s, d)
    BY <1>2 DEF connect_server
  <2>2. Inv(shutdown_properly(s, d))
    BY <1>1, ShutdownInv
  <2> QED BY <2>1, <2>2 DEF SeqInv
<1>3. CASE Server \notin s.ended
  <2>1. /\ s.peer \in [Ends -> PeerRecords] /\ s.backlog \in Seq(Clients)
        /\ s.peer[d] \in PeerRecords
    BY <1>1 DEF States
  <2>2. t = [s EXCEPT !.peer[d].socket = Server, !.backlog = Append(@, d)]
    BY <1>3 DEF connect_server
  <2>3. /\ q \in PeerRecords /\ q.socket = Server /\ q.queue = s.peer[d].queue
        /\ q.byte = s.peer[d].byte /\ q.got = s.peer[d].got
    BY <2>1 DEF PeerRecords
  <2>4. Append(s.backlog, d) \in Seq(Clients)
    BY <2>1
  <2>5. t = [s EXCEPT !.peer[d] = q, !.backlog = Append(s.backlog, d)]
    BY <1>1, <2>1, <2>2 DEF States
  <2> HIDE DEF q
  <2>6. t \in States
    BY <1>1, <2>3, <2>4, <2>5 DEF States
  <2>7. /\ t.wire = s.wire /\ t.backlog = Append(s.backlog, d) /\ t.ended = s.ended /\ t.left = s.left
        /\ t.typed = s.typed /\ t.todo = s.todo /\ t.peer = [s.peer EXCEPT ![d] = q]
    BY <1>1, <2>5 DEF States
  <2>8. t.peer[d] = q /\ \A e \in Ends : e # d => t.peer[e] = s.peer[e]
    BY <1>1, <2>1, <2>7
  <2> HIDE DEF t
  <2>9. /\ \A i \in Slots : i \in Ends /\ i # d /\ t.peer[i] = s.peer[i] /\ s.peer[i].socket # d
        /\ Server # None
    <3>1. \A i \in Slots : i \in Ends /\ i # d
      BY EndFacts
    <3>2. Server # None
      BY DEF Server, None
    <3>3. \A i \in Slots : s.peer[i].socket # None => s.peer[s.peer[i].socket].socket = Server
      BY <1>1 DEF Inv, OneHolder
    <3>4. d # None
      BY <1>1 DEF SeqAssumption
    <3>5. \A i \in Slots : s.peer[i].socket # d
      BY <1>1, <3>2, <3>3, <3>4
    <3> QED BY <2>8, <3>1, <3>2, <3>5
  <2>10. Typed(t)
    <3>1. PeerGood(t.peer[d])
      BY <1>1, <2>3, <2>8 DEF Inv, Typed, PeerGood
    <3>2. \A e \in Ends : PeerGood(t.peer[e])
      BY <1>1, <2>8, <3>1 DEF Inv, Typed
    <3> QED BY <1>1, <2>6, <2>7, <3>2 DEF Inv, Typed
  <2>11. TodoGood(t)
    <3>1. \A e \in Ends : s.peer[e].socket # None => t.peer[e].socket # None
      BY <1>1, <2>8
    <3>2. t.backlog # << >>
      BY <2>1, <2>7
    <3>3. ASSUME NEW p \in Procs, NEW v \in t.todo[p]
          PROVE  Found(t, p, v)
      <4>1. Found(s, p, v)
        BY <1>1, <2>7, <3>3 DEF Inv, TodoGood
      <4> QED BY <2>7, <3>1, <3>2, <4>1 DEF Found
    <3>4. \A p \in Procs : p \in t.ended => t.todo[p] = {}
      BY <1>1, <2>7 DEF Inv, TodoGood
    <3> QED BY <3>3, <3>4 DEF TodoGood
  <2>12. OneHolder(t)
    <3>1. ASSUME NEW i \in Slots, t.peer[i].socket # None
          PROVE  /\ t.peer[i].socket \in Clients
                 /\ t.peer[t.peer[i].socket].socket = Server
                 /\ \A j \in Slots : t.peer[j].socket = t.peer[i].socket => j = i
      <4>1. /\ s.peer[i].socket \in Clients /\ s.peer[s.peer[i].socket].socket = Server
            /\ \A j \in Slots : s.peer[j].socket = s.peer[i].socket => j = i
        BY <1>1, <2>9, <3>1 DEF Inv, OneHolder
      <4>2. s.peer[i].socket \in Ends /\ s.peer[i].socket # d
        BY <2>9, <4>1, EndFacts
      <4> QED BY <2>8, <2>9, <4>1, <4>2
    <3>2. \A c \in Clients : t.peer[c].socket \in {Server, None}
      BY <1>1, <2>3, <2>8, EndFacts DEF Inv, OneHolder
    <3>3. ASSUME NEW k \in DOMAIN s.backlog
          PROVE  /\ s.backlog[k] \in Clients /\ s.backlog[k] # d
                 /\ t.peer[s.backlog[k]].socket = Server
                 /\ \A i \in Slots : t.peer[i].socket # s.backlog[k]
                 /\ \A l \in DOMAIN s.backlog : s.backlog[l] = s.backlog[k] => l = k
      <4>1. s.backlog[k] \in Clients
        BY <2>1
      <4>2. /\ s.peer[s.backlog[k]].socket = Server /\ \A i \in Slots : s.peer[i].socket # s.backlog[k]
            /\ \A l \in DOMAIN s.backlog : s.backlog[l] = s.backlog[k] => l = k
        BY <1>1 DEF Inv, OneHolder
      <4>3. s.backlog[k] # d /\ s.backlog[k] \in Ends
        BY <1>1, <2>9, <4>1, <4>2, EndFacts
      <4> QED BY <2>8, <2>9, <4>1, <4>2, <4>3
    <3> DEFINE m == Len(s.backlog) + 1
    <3>4. /\ DOMAIN t.backlog = DOMAIN s.backlog \cup {m} /\ t.backlog[m] = d
          /\ \A k \in DOMAIN s.backlog : t.backlog[k] = s.backlog[k]
      BY <2>1, <2>7
    <3> HIDE DEF m
    <3>5. ASSUME NEW k \in DOMAIN t.backlog
          PROVE  /\ t.peer[t.backlog[k]].socket = Server
                 /\ \A i \in Slots : t.peer[i].socket # t.backlog[k]
                 /\ \A l \in DOMAIN t.backlog : t.backlog[l] = t.backlog[k] => l = k
      <4>1. CASE k \in DOMAIN s.backlog
        BY <3>3, <3>4, <4>1
      <4>2. CASE k = m
        BY <2>3, <2>8, <2>9, <3>3, <3>4, <4>2
      <4> QED BY <3>4, <4>1, <4>2
    <3> QED BY <3>1, <3>2, <3>5 DEF OneHolder
  <2>13. Clean(t)
    BY <1>1, <2>9 DEF Inv, Clean
  <2>14. NotStuck(t)
    <3>1. \A e \in Ends : t.peer[e].byte = s.peer[e].byte
      BY <2>3, <2>8
    <3> QED BY <1>1, <2>7, <3>1 DEF Inv, NotStuck, First
  <2>15. OneFits(t)
    <3> SUFFICES ASSUME NEW i \in Slots, t.peer[i].socket # None, t.left[t.peer[i].socket] = {},
                        Committed(t, i), Committed(t, t.peer[i].socket)
                 PROVE  Fits(t, i) \/ Fits(t, t.peer[i].socket)
      BY DEF OneFits
    <3> DEFINE c == s.peer[i].socket
    <3>1. /\ c \in Clients /\ t.peer[i].socket = c /\ c # None /\ c # d /\ c \in Ends
          /\ t.peer[i] = s.peer[i] /\ t.peer[c] = s.peer[c]
      <4>1. t.peer[i] = s.peer[i] /\ c # d
        BY <2>9
      <4>2. c \in Clients /\ c # None
        BY <1>1, <4>1 DEF Inv, OneHolder
      <4>3. c \in Ends
        BY <4>2, EndFacts
      <4> QED BY <2>8, <4>1, <4>2, <4>3
    <3>2. Conn(s, i) = c /\ Conn(s, c) = c /\ Conn(t, i) = c /\ Conn(t, c) = c
      BY <3>1, EndFacts
    <3>3. Committed(s, i) /\ Committed(s, c) /\ s.left[c] = {}
      BY <2>7, <3>1 DEF Committed
    <3>4. Fits(s, i) \/ Fits(s, c)
      BY <1>1, <3>1, <3>3 DEF Inv, OneFits
    <3>5. Due(t, i) = Due(s, i) /\ Due(t, c) = Due(s, c)
      BY <2>7, <3>1 DEF Due
    <3> QED BY <2>7, <3>1, <3>2, <3>4, <3>5 DEF Fits
  <2> QED BY <2>10, <2>11, <2>12, <2>13, <2>14, <2>15 DEF SeqInv, Inv, t
<1> QED BY <1>2, <1>3

\* A state that differs in the lines and in what is left to happen alone.
LEMMA OutsideInv ==
    ASSUME SeqAssumption, NEW s, Inv(s), NEW t \in States,
           t.peer = s.peer, t.wire = s.wire, t.backlog = s.backlog, t.ended = s.ended, t.left = s.left,
           t.todo = s.todo, \A p \in Procs : s.typed[p] # << >> => t.typed[p] # << >>
    PROVE  Inv(t)
<1>1. Typed(t)
  BY DEF Inv, Typed
<1>2. TodoGood(t)
  BY DEF Inv, TodoGood, Found
<1>3. OneHolder(t) /\ Clean(t)
  BY DEF Inv, OneHolder, Clean
<1>4. NotStuck(t)
  BY SMTT(60) DEF Inv, NotStuck, First
<1>5. OneFits(t)
  BY ZenonT(60) DEF Inv, OneFits, Committed, Fits, Due, Conn
<1> QED BY <1>1, <1>2, <1>3, <1>4, <1>5 DEF Inv

\* A line that is typed is added to those to be read.
LEMMA TypeKeeps ==
    ASSUME SeqAssumption, SeqInv, NEW p \in Procs, Type(p)
    PROVE  SeqInv'
<1> DEFINE s == sp
           t == sp'
           new == Append(s.typed[p], Head(s.lines[p]))
           rest == Tail(s.lines[p])
<1>1. s \in States /\ Inv(s) /\ s.lines[p] # << >>
  BY DEF SeqInv, Inv, Typed, Type
<1>2. /\ s.typed \in [Procs -> Seq(Lines)] /\ s.lines \in [Procs -> Seq(Lines)]
      /\ s.typed[p] \in Seq(Lines) /\ s.lines[p] \in Seq(Lines)
  BY <1>1 DEF States
<1>3. new \in Seq(Lines) /\ rest \in Seq(Lines) /\ new # << >>
  <2>1. \A a, b \in Seq(Lines) : b # << >> =>
          Append(a, Head(b)) \in Seq(Lines) /\ Tail(b) \in Seq(Lines) /\ Append(a, Head(b)) # << >>
    OBVIOUS
  <2> QED BY <1>1, <1>2, <2>1, Zenon
<1>4. t = [s EXCEPT !.typed[p] = new, !.lines[p] = rest]
  BY DEF Type
<1> HIDE DEF new, rest
<1>5. t \in States
  BY <1>1, <1>3, <1>4 DEF States
<1>6. /\ t.peer = s.peer /\ t.wire = s.wire /\ t.backlog = s.backlog /\ t.ended = s.ended /\ t.left = s.left
      /\ t.todo = s.todo /\ t.typed = [s.typed EXCEPT ![p] = new]
  BY <1>1, <1>4 DEF States
<1>7. \A q \in Procs : s.typed[q] # << >> => t.typed[q] # << >>
  BY <1>2, <1>3, <1>6
<1> HIDE DEF t
<1>8. Inv(t)
  BY <1>1, <1>5, <1>6, <1>7, OutsideInv
<1> QED BY <1>8 DEF SeqInv, t

\* A process that is ended from outside.
LEMMA SignalKeeps ==
    ASSUME SeqAssumption, SeqInv, NEW p \in Procs, handle_signal_action(p)
    PROVE  SeqInv'
<1> DEFINE s == sp
           t == [sp EXCEPT !.ends = @ - 1]
<1>1. s \in States /\ Inv(s) /\ sp' = shutdown_properly(t, p)
  BY DEF SeqInv, Inv, Typed, handle_signal_action
<1>2. s.ends - 1 \in Int
  BY <1>1 DEF States
<1>3. t \in States
  BY <1>1, <1>2 DEF States
<1>4. /\ t.peer = s.peer /\ t.wire = s.wire /\ t.backlog = s.backlog /\ t.ended = s.ended /\ t.left = s.left
      /\ t.todo = s.todo /\ t.typed = s.typed
  BY <1>1 DEF States
<1> HIDE DEF t
<1>5. Inv(t)
  BY <1>1, <1>3, <1>4, OutsideInv
<1>6. Inv(shutdown_properly(t, p))
  BY <1>5, ShutdownInv
<1> QED BY <1>1, <1>6 DEF SeqInv

----------------------------------------------------------------------------
(* The theorems.                                                             *)

\* No client has connected and nothing is on its way.
LEMMA InitInv ==
    ASSUME SeqAssumption, Init
    PROVE  SeqInv
<1> DEFINE nil == << >>
           Todos == SUBSET ({"stdin", "accept", "recv", "send"} \X (Ends \cup {None}))
<1>1. PICK plan \in Plans :
        sp = [peer |-> [e \in Ends |-> create_peer], wire |-> [c \in Clients |-> [w \in Ways |-> nil]],
              left |-> [c \in Clients |-> {}], backlog |-> nil, todo |-> [p \in Procs |-> {}],
              typed |-> [p \in Procs |-> nil], lines |-> plan.lines, starts |-> plan.clients,
              ended |-> {}, ends |-> plan.ends,
              posted |-> [c \in Clients |-> [w \in Ways |-> nil]],
              handled |-> [c \in Clients |-> [w \in Ways |-> nil]]]
  BY DEF Init, Procs
<1>2. plan.lines \in [Procs -> Seq(Lines)] /\ plan.clients \in SUBSET Clients /\ plan.ends \in Int
  BY DEF SeqAssumption
<1>3. /\ nil \in Seq(Lines) /\ nil \in Seq(Octets) /\ nil \in Seq(Clients) /\ nil \in Seq(Seq(Octets))
      /\ Len(nil) = 0 /\ DOMAIN nil = {}
  OBVIOUS
<1>4. /\ create_peer.socket = None /\ create_peer.queue = nil /\ create_peer.byte = -1 /\ create_peer.got = nil
      /\ create_peer.sending = None
  BY DEF create_peer
<1>5. create_peer \in PeerRecords
  <2>1. << >> \in Seq(Lines) /\ << >> \in Seq(Octets) /\ -1 \in Int
    OBVIOUS
  <2> QED BY <2>1 DEF create_peer, PeerRecords
<1>6. PeerGood(create_peer)
  <2>1. Size \in Nat /\ QueueSize \in Nat
    BY DEF SeqAssumption
  <2>2. /\ create_peer.byte = -1 /\ Len(create_peer.queue) = 0 /\ Len(create_peer.got) = 0
    BY <1>3, <1>4
  <2> QED BY <2>1, <2>2 DEF PeerGood
<1> HIDE DEF nil
<1>7. sp \in States
  <2>1. /\ [e \in Ends |-> create_peer] \in [Ends -> PeerRecords]
        /\ [c \in Clients |-> [w \in Ways |-> nil]] \in [Clients -> [Ways -> Seq(Octets)]]
        /\ [c \in Clients |-> [w \in Ways |-> nil]] \in [Clients -> [Ways -> Seq(Lines)]]
        /\ [c \in Clients |-> [w \in Ways |-> nil]] \in [Clients -> [Ways -> Seq(Seq(Octets))]]
        /\ [c \in Clients |-> {}] \in [Clients -> SUBSET Procs]
        /\ [p \in Procs |-> {}] \in [Procs -> Todos]
        /\ [p \in Procs |-> nil] \in [Procs -> Seq(Lines)]
        /\ {} \in SUBSET Procs
    BY <1>3, <1>5
  <2> QED BY <1>1, <1>2, <1>3, <2>1 DEF States
<1>8. /\ \A e \in Ends : sp.peer[e] = create_peer
      /\ \A p \in Procs : sp.todo[p] = {}
      /\ \A c \in Clients : sp.left[c] = {} /\ \A w \in Ways : sp.wire[c][w] = nil
      /\ sp.backlog = nil
  BY <1>1
<1>9. Typed(sp)
  <2>1. Capacity \in Nat
    BY DEF SeqAssumption
  <2>2. \A c \in Clients : sp.left[c] \subseteq {c, Server}
    BY <1>8
  <2>3. \A c \in Clients, w \in Ways : Len(sp.wire[c][w]) <= Capacity
    BY <1>3, <1>8, <2>1
  <2> QED BY <1>6, <1>7, <1>8, <2>2, <2>3 DEF Typed
<1>10. TodoGood(sp)
  BY <1>8 DEF TodoGood
<1>11. \A i \in Slots : sp.peer[i] = create_peer
  BY <1>8, EndFacts
<1>12. OneHolder(sp)
  <2>1. \A c \in Clients : sp.peer[c].socket = None
    BY <1>4, <1>8, EndFacts
  <2> QED BY <1>3, <1>4, <1>8, <1>11, <2>1 DEF OneHolder
<1>13. Clean(sp)
  BY <1>11 DEF Clean
<1>14. NotStuck(sp)
  BY <1>4, <1>8 DEF NotStuck
<1>15. OneFits(sp)
  BY <1>4, <1>11 DEF OneFits
<1> QED BY <1>9, <1>10, <1>12, <1>13, <1>14, <1>15 DEF SeqInv, Inv

\* The invariant holds in every state of the exchange.
THEOREM SeqInvariant ==
    ASSUME SeqAssumption
    PROVE  Spec => []SeqInv
<1>1. Init => SeqInv
  BY InitInv
<1>2. SeqInv /\ [Next]_sp => SeqInv'
  <2> SUFFICES ASSUME SeqInv, [Next]_sp
               PROVE  SeqInv'
    OBVIOUS
  <2>1. CASE handle_new_connection
    BY <2>1, AcceptKeeps
  <2>2. ASSUME NEW c \in Clients, connect_server(c)
        PROVE  SeqInv'
    BY <2>2, ConnectKeeps
  <2>3. ASSUME NEW p \in Clients \cup {Server}, Select(p)
        PROVE  SeqInv'
    BY <2>3, SelectKeeps DEF Procs
  <2>4. ASSUME NEW p \in Clients \cup {Server}, handle_read_from_stdin(p)
        PROVE  SeqInv'
    BY <2>4, ReadLineKeeps DEF Procs
  <2>5. ASSUME NEW p \in Clients \cup {Server}, Type(p)
        PROVE  SeqInv'
    BY <2>5, TypeKeeps DEF Procs
  <2>6. ASSUME NEW p \in Clients \cup {Server}, handle_signal_action(p)
        PROVE  SeqInv'
    BY <2>6, SignalKeeps DEF Procs
  <2>7. ASSUME NEW e \in Ends, receive_from_peer(e)
        PROVE  SeqInv'
    BY <2>7, ReceiveKeeps
  <2>8. ASSUME NEW e \in Ends, send_to_peer(e)
        PROVE  SeqInv'
    BY <2>8, SendKeeps
  <2>9. CASE UNCHANGED sp
    BY <2>9 DEF SeqInv
  <2> QED BY <2>1, <2>2, <2>3, <2>4, <2>5, <2>6, <2>7, <2>8, <2>9 DEF Next
<1> QED BY <1>1, <1>2, PTL DEF Spec

\* Queues, the progress of a message and the sockets stay within their limits.
THEOREM TypeOKHolds ==
    ASSUME SeqAssumption
    PROVE  Spec => []TypeOK
<1>1. SeqInv => TypeOK
  BY DEF SeqInv, Inv, Typed, PeerGood, TypeOK
<1> QED BY <1>1, SeqInvariant, PTL

\* A free slot of connection_list keeps nothing of who had it.
THEOREM SlotsCleanHolds ==
    ASSUME SeqAssumption
    PROVE  Spec => []SlotsClean
<1>1. SeqInv => SlotsClean
  BY DEF SeqInv, Inv, Clean, SlotsClean
<1> QED BY <1>1, SeqInvariant, PTL

\* A message of which a part was sent is the one its process goes on with: select
\* would not find it again.
THEOREM NothingStuckHolds ==
    ASSUME SeqAssumption
    PROVE  Spec => []NothingStuck
<1>1. SeqInv => NothingStuck
  BY DEF SeqInv, Inv, NotStuck, First, NothingStuck, Begun
<1> QED BY <1>1, SeqInvariant, PTL

\* A process that is sending has read its lines, and received from the peer.
LEMMA SendingCommits ==
    ASSUME SeqAssumption, SeqInv, NEW e \in Ends, Begun(Process(e), <<"send", e>>)
    PROVE  Committed(sp, e) /\ Due(sp, e) = Unsent(sp.peer[e])
<1>1. Process(e) \in Procs /\ sp \in States /\ TodoGood(sp)
  BY EndFacts DEF SeqInv, Inv, Typed
<1>2. /\ Order(StdIn) < Order(<<"send", e>>) /\ Order(<<"recv", e>>) < Order(<<"send", e>>)
      /\ \A t \in sp.todo[Process(e)] : Order(t) \in Int
  BY <1>1, Orders
<1>3. <<"send", e>> \in sp.todo[Process(e)] /\ \A u \in sp.todo[Process(e)] : Order(<<"send", e>>) <= Order(u)
  BY DEF Begun
<1>4. StdIn \notin sp.todo[Process(e)] /\ <<"recv", e>> \notin sp.todo[Process(e)]
  BY <1>2, <1>3
<1> QED BY <1>3, <1>4 DEF Committed, Due

\* When all that a peer has to send fits, its next piece does.
LEMMA FittingSends ==
    ASSUME SeqAssumption, SeqInv, NEW e \in Ends, Blocked(e), Fits(sp, e), Conn(sp, e) \in Clients
    PROVE  FALSE
<1> DEFINE q == Loaded(sp.peer[e])
           len == Len(sp.wire[Conn(sp, e)][Out(e)])
           n == Piece(q.byte)
<1>1. /\ Begun(Process(e), <<"send", e>>) /\ q.byte # -1 /\ len + n > Capacity
  BY DEF Blocked
<1>2. sp.peer[e] \in PeerRecords /\ PeerGood(sp.peer[e])
  BY DEF SeqInv, Inv, Typed, States
<1>3. q \in PeerRecords /\ PeerGood(q) /\ Unsent(q) = Unsent(sp.peer[e]) /\ q.byte < Size
  BY <1>2, LoadedGood
<1>4. len + Unsent(q) <= Capacity
  BY <1>1, <1>3, SendingCommits DEF Fits
<1>5. len \in Nat
  <2>1. Out(e) \in Ways /\ sp.wire \in [Clients -> [Ways -> Seq(Octets)]]
    BY EndFacts DEF SeqInv, Inv, Typed, States
  <2>2. sp.wire[Conn(sp, e)][Out(e)] \in Seq(Octets)
    BY <2>1
  <2>3. \A w \in Seq(Octets) : Len(w) \in Nat
    OBVIOUS
  <2> QED BY <2>2, <2>3, Zenon
<1> HIDE DEF q, len
<1>6. q.byte \in Int /\ Len(q.queue) \in Nat /\ Size \in Int /\ Capacity \in Int
  BY <1>3 DEF PeerRecords, SeqAssumption
<1>7. n \in Int /\ n <= Size - q.byte
  BY <1>3, <1>6, PieceBounds
<1>8. Unsent(q) = Volume(Len(q.queue)) + (Size - q.byte) /\ Volume(Len(q.queue)) \in Nat
  BY <1>1, <1>6, Volumes DEF Unsent
<1> HIDE DEF n
<1> QED BY <1>1, <1>4, <1>5, <1>6, <1>7, <1>8

\* The server and a client never both wait in send for the other to receive, when
\* a socket takes what a full queue holds.
THEOREM NotBothBlockedHolds ==
    ASSUME SeqAssumption
    PROVE  Spec => []NotBothBlocked
<1>1. SeqInv => NotBothBlocked
  <2> SUFFICES ASSUME SeqInv, NEW c \in Clients, NEW i \in Holder(c), Blocked(i), Blocked(c)
               PROVE  FALSE
    BY DEF NotBothBlocked
  <2>1. i \in Slots /\ sp.peer[i].socket = c /\ c # None /\ c # Server
    BY DEF Holder, SeqAssumption, Ends
  <2>2. /\ i \in Ends /\ c \in Ends /\ Process(i) = Server /\ Process(c) = c
        /\ Conn(sp, i) = c /\ Conn(sp, c) = c
    BY <2>1, EndFacts
  <2>3. Committed(sp, i) /\ Committed(sp, c)
    BY <2>2, SendingCommits DEF Blocked
  <2>4. sp.left[c] = {}
    <3>1. sp.left[c] \ {Server} = {} /\ sp.left[c] \ {c} = {}
      BY <2>2 DEF Blocked, Gone
    <3> QED BY <2>1, <3>1
  <2>5. Fits(sp, i) \/ Fits(sp, c)
    BY <2>1, <2>3, <2>4 DEF SeqInv, Inv, OneFits
  <2> QED BY <2>2, <2>5, FittingSends
<1> QED BY <1>1, SeqInvariant, PTL

=============================================================================
