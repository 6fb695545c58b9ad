------------------------------ MODULE SeqPeers ------------------------------
(***************************************************************************)
(* The message exchange of mmap/seq: a server that selects on its standard  *)
(* input, its listening socket and its clients (server.c), the clients      *)
(* (client.c), and the queues and buffers of a peer both use (message.h).   *)
(*                                                                          *)
(* A message has Size bytes and goes in pieces of at most MaxSend.  A step  *)
(* is one system call of one process with what it leads to.  Sockets block  *)
(* when they send.  Out-of-band data, which nobody sends, is left out.      *)
(***************************************************************************)
EXTENDS Integers, Sequences, FiniteSets, SequencesExt, FiniteSetsExt

CONSTANTS
  Clients,      \* client processes
  List,         \* connection_list: its slots in order
  QueueSize,    \* MAX_MESSAGES_BUFFER_SIZE
  Size,         \* sizeof(message_t)
  MaxSend,      \* MAX_SEND_SIZE
  Capacity,     \* bytes a socket holds that were sent and not received
  Plans         \* [clients: that start, lines: process -> lines typed at it,
                \* ends: processes that are ended from outside]

VARIABLE sp
(***************************************************************************)
(* peer    end -> peer_t; the ends are the slots of the server and the      *)
(*         clients: [socket, queue, sending, byte, got]                     *)
(* wire    client, way -> bytes on their way to the server or the client;   *)
(*         left: client -> sides that closed the connection;                *)
(*         backlog: connections to be accepted                              *)
(* todo    process -> what select found and main has not come to yet        *)
(* typed   process -> lines to be read;  ended: processes                  *)
(* posted, handled   client, way -> messages queued for and handled by the  *)
(*         side of the connection of the client where this way ends         *)
(***************************************************************************)
Slots == ToSet(List)
Server == "server"
Ends == Slots \cup Clients
Ways == {"up", "down"}
None == "none"

create_peer == [socket |-> None, queue |-> << >>, sending |-> None, byte |-> -1, got |-> << >>]

Init ==
  \E plan \in Plans :
  sp = [peer |-> [e \in Ends |-> create_peer], wire |-> [c \in Clients |-> [w \in Ways |-> << >>]],
        left |-> [c \in Clients |-> {}], backlog |-> << >>, todo |-> [p \in Clients \cup {Server} |-> {}],
        typed |-> [p \in Clients \cup {Server} |-> << >>], lines |-> plan.lines, starts |-> plan.clients,
        ended |-> {}, ends |-> plan.ends,
        posted |-> [c \in Clients |-> [w \in Ways |-> << >>]],
        handled |-> [c \in Clients |-> [w \in Ways |-> << >>]]]

\* The process of an end, the client of its connection, and the ways its bytes take.
Process(e) == IF e \in Slots THEN Server ELSE e
Conn(s, e) == IF e \in Slots THEN s.peer[e].socket ELSE e
In(e) == IF e \in Slots THEN "up" ELSE "down"
Out(e) == IF e \in Slots THEN "down" ELSE "up"
Gone(s, e) == s.left[Conn(s, e)] \ {Process(e)} # {}
Done(s, p, t) == [s EXCEPT !.todo[p] = @ \ {t}]

----------------------------------------------------------------------------
\* message.h

\* The queue of a peer: enqueue appends, dequeue takes the last.
enqueue(q, m) == IF Len(q) = QueueSize THEN q ELSE Append(q, m)
dequeue(peer) ==
  IF peer.queue = << >> THEN [peer EXCEPT !.byte = -1, !.sending = None]
  ELSE [peer EXCEPT !.sending = Last(peer.queue), !.queue = Front(@), !.byte = 0]

\* Called for each of the peers in to; a peer whose queue is full loses the message.
peer_add_to_send(s, to, m) ==
  LET takes(c, w) == \E e \in to : Conn(s, e) = c /\ Out(e) = w /\ Len(s.peer[e].queue) < QueueSize
  IN [s EXCEPT
       !.peer = [e \in Ends |-> IF e \in to THEN [s.peer[e] EXCEPT !.queue = enqueue(@, m)] ELSE s.peer[e]],
       !.posted = [c \in Clients |-> [w \in Ways |->
                     IF takes(c, w) THEN Append(s.posted[c][w], m) ELSE s.posted[c][w]]]]

\* A complete message is handled before more is received.
Handled(s, e) ==
  IF Len(s.peer[e].got) < Size THEN s
  ELSE [s EXCEPT !.handled[Conn(s, e)][In(e)] = Append(@, s.peer[e].got), !.peer[e].got = << >>]

\* The next message, when the last one has been sent.
Loaded(peer) == IF peer.byte = -1 \/ peer.byte >= Size THEN dequeue(peer) ELSE peer

\* Bytes of one recv or send, of a message of which n bytes are through.
Piece(n) == Min({Size - n, MaxSend})

----------------------------------------------------------------------------
\* The ends of connections and processes.

\* close_client_connection of the server; a client shuts down.
shutdown_properly(s, p) ==
  LET over == IF p = Server THEN Clients ELSE {p}
  IN [s EXCEPT !.ended = @ \cup {p}, !.todo[p] = {},
               !.left = [c \in Clients |-> IF c \in over THEN s.left[c] \cup {p} ELSE s.left[c]]]

close_client_connection_Keeps(s, i) ==
  [s EXCEPT !.left[s.peer[i].socket] = @ \cup {Server}, !.peer[i] = [create_peer EXCEPT !.queue = s.peer[i].queue],
            !.todo[Server] = {t \in @ : t[2] # i}]
close_client_connection(s, i) ==
  [s EXCEPT !.left[s.peer[i].socket] = @ \cup {Server}, !.peer[i] = create_peer,
            !.todo[Server] = {t \in @ : t[2] # i}]

Failed(s, e) == IF e \in Slots THEN close_client_connection(s, e) ELSE shutdown_properly(s, e)

----------------------------------------------------------------------------
\* A round: select, and what it found ready, in the order of main.

StdIn == <<"stdin", None>>
Accept == <<"accept", None>>

\* main looks at stdin, the listening socket, and then at each peer in the order of
\* connection_list, first whether it can be read and then whether it can be written.
Place(e) == IF e \in Slots THEN CHOOSE k \in DOMAIN List : List[k] = e ELSE IF e = None THEN 0 ELSE 1
Order(t) == 2 * Place(t[2]) + (IF t[1] \in {"accept", "send"} THEN 1 ELSE 0)

\* The peers of a process that are connected.
Peers(p) == {e \in Ends : Process(e) = p /\ sp.peer[e].socket # None}

Readable(e) == sp.wire[Conn(sp, e)][In(e)] # << >> \/ Gone(sp, e)
Writable(e) == sp.peer[e].queue # << >> /\ (Len(sp.wire[Conn(sp, e)][Out(e)]) < Capacity \/ Gone(sp, e))

\* build_fd_sets and select.
Ready(p) ==
  {t \in {StdIn} : sp.typed[p] # << >>} \cup {t \in {Accept} : p = Server /\ sp.backlog # << >>}
  \cup {<<"recv", e>> : e \in {x \in Peers(p) : Readable(x)}}
  \cup {<<"send", e>> : e \in {x \in Peers(p) : Writable(x)}}

Select(p) ==
  /\ p \notin sp.ended /\ sp.todo[p] = {} /\ Ready(p) # {}
  /\ p \in Clients => sp.peer[p].socket # None
  /\ sp' = [sp EXCEPT !.todo[p] = Ready(p)]

Begun(p, t) == t \in sp.todo[p] /\ \A u \in sp.todo[p] : Order(t) <= Order(u)

\* Every line there is is read into the same buffer: the last one is sent, to every peer.
handle_read_from_stdin(p) ==
  /\ Begun(p, StdIn)
  /\ sp' = peer_add_to_send(Done([sp EXCEPT !.typed[p] = << >>], p, StdIn), Peers(p), Last(sp.typed[p]))

\* The first free slot, or none: the connection is closed.
handle_new_connection ==
  /\ Begun(Server, Accept)
  /\ LET c == sp.backlog[1]
         free == {i \in Slots : sp.peer[i].socket = None}
         s == Done([sp EXCEPT !.backlog = Tail(@)], Server, Accept)
     IN \/ free = {} /\ sp' = [s EXCEPT !.left[c] = @ \cup {Server}]
        \/ \E i \in free :
             /\ \A j \in free : Place(i) <= Place(j)
             /\ sp' = [s EXCEPT !.peer[i].socket = c, !.peer[i].byte = -1, !.peer[i].got = << >>]

\* One turn of receive_from_peer.  A reset takes what was not received with it.
receive_from_peer(e) ==
  /\ Begun(Process(e), <<"recv", e>>)
  /\ LET s == Handled(sp, e)
         wire == s.wire[Conn(s, e)][In(e)]
         n == Min({Piece(Len(s.peer[e].got)), Len(wire)})
     IN \/ Gone(s, e) /\ sp' = Failed(s, e)
        \/ wire = << >> /\ ~Gone(s, e) /\ sp' = Done(s, Process(e), <<"recv", e>>)
        \/ /\ wire # << >>
           /\ sp' = [s EXCEPT !.peer[e].got = @ \o SubSeq(wire, 1, n),
                              !.wire[Conn(s, e)][In(e)] = SubSeq(@, n + 1, Len(@))]

Bytes(m) == [k \in 1..Size |-> <<m, k>>]

\* One turn of send_to_peer: it ends when the queue is empty.  Sent to who has left,
\* bytes are lost, the connection is reset, or SIGPIPE ends the process.
send_to_peer_Once(e) ==
  /\ Begun(Process(e), <<"send", e>>)
  /\ LET peer == Loaded(sp.peer[e])
         s == [sp EXCEPT !.peer[e] = peer]
         n == Piece(peer.byte)
         sent == Done([s EXCEPT !.peer[e].byte = @ + n], Process(e), <<"send", e>>)
     IN \/ peer.byte = -1 /\ sp' = Done(s, Process(e), <<"send", e>>)
        \/ /\ peer.byte # -1 /\ ~Gone(s, e) /\ Len(s.wire[Conn(s, e)][Out(e)]) + n <= Capacity
           /\ sp' = [sent EXCEPT !.wire[Conn(s, e)][Out(e)] =
                       @ \o SubSeq(Bytes(peer.sending), peer.byte + 1, peer.byte + n)]
        \/ peer.byte # -1 /\ Gone(s, e) /\ sp' \in {sent, Failed(s, e), shutdown_properly(s, Process(e))}
send_to_peer(e) ==
  /\ Begun(Process(e), <<"send", e>>)
  /\ LET peer == Loaded(sp.peer[e])
         s == [sp EXCEPT !.peer[e] = peer]
         n == Piece(peer.byte)
         sent == [s EXCEPT !.peer[e].byte = @ + n]
     IN \/ peer.byte = -1 /\ sp' = Done(s, Process(e), <<"send", e>>)
        \/ /\ peer.byte # -1 /\ ~Gone(s, e) /\ Len(s.wire[Conn(s, e)][Out(e)]) + n <= Capacity
           /\ sp' = [sent EXCEPT !.wire[Conn(s, e)][Out(e)] =
                       @ \o SubSeq(Bytes(peer.sending), peer.byte + 1, peer.byte + n)]
        \/ peer.byte # -1 /\ Gone(s, e) /\ sp' \in {sent, Failed(s, e), shutdown_properly(s, Process(e))}

----------------------------------------------------------------------------
\* A client starts; without a server it ends.
connect_server(c) ==
  /\ c \in sp.starts /\ c \notin sp.ended /\ sp.peer[c].socket = None
  /\ sp' = IF Server \in sp.ended THEN shutdown_properly(sp, c)
           ELSE [sp EXCEPT !.peer[c].socket = Server, !.backlog = Append(@, c)]

\* A line is typed; the end of the input reads as one more empty line.
Type(p) ==
  /\ sp.lines[p] # << >> /\ p \notin sp.ended
  /\ sp' = [sp EXCEPT !.typed[p] = Append(@, Head(sp.lines[p])), !.lines[p] = Tail(@)]

\* SIGINT, at any point; an input that cannot be read ends a process in the same way.
handle_signal_action(p) ==
  /\ p \notin sp.ended /\ sp.ends > 0
  /\ sp' = shutdown_properly([sp EXCEPT !.ends = @ - 1], p)

Next ==
  \/ handle_new_connection
  \/ \E c \in Clients : connect_server(c)
  \/ \E p \in Clients \cup {Server} :
       Select(p) \/ handle_read_from_stdin(p) \/ Type(p) \/ handle_signal_action(p)
  \/ \E e \in Ends : receive_from_peer(e) \/ send_to_peer(e)

Spec == Init /\ [][Next]_sp

----------------------------------------------------------------------------
\* Properties; the first is the type invariant.

TypeOK ==
  /\ \A e \in Ends : sp.peer[e].byte \in -1..Size /\ Len(sp.peer[e].queue) <= QueueSize
  /\ \A c \in Clients, w \in Ways : Len(sp.wire[c][w]) <= Capacity

\* The end a side of the connection of a client sends from and the one it receives at.
Holder(c) == {i \in Slots : sp.peer[i].socket = c}
Sender(c, way) == IF way = "up" THEN {c} ELSE Holder(c)
Receiver(c, way) == IF way = "up" THEN Holder(c) ELSE {c}

FromAll(es, Of(_)) == FlattenSeq([k \in 1..Cardinality(es) |-> Of(SetToSeq(es)[k])])
Stream(c, way) ==
  FlattenSeq(sp.handled[c][way]) \o FromAll(Receiver(c, way), LAMBDA e : sp.peer[e].got)
  \o sp.wire[c][way]
  \o FromAll(Sender(c, way), LAMBDA e : IF sp.peer[e].byte = -1 THEN << >>
       ELSE SubSeq(Bytes(sp.peer[e].sending), sp.peer[e].byte + 1, Size))

\* What is handled is one message.  As long as both sides of a connection are there, what
\* was handled, received, under way and being sent are whole messages, one after the other,
\* and with those that wait they are what was queued for this connection, each once.
MessagesWhole ==
  \A c \in Clients, way \in Ways :
    /\ \A k \in DOMAIN sp.handled[c][way] : Len(sp.handled[c][way][k]) = Size
    /\ sp.left[c] = {} =>
      LET bytes == Stream(c, way)
          starts == {k \in 1..Len(bytes) : k % Size = 1 % Size}
          waiting == FromAll(Sender(c, way), LAMBDA e : sp.peer[e].queue)
          told == [k \in 1..(Len(bytes) \div Size) |-> bytes[(k - 1) * Size + 1][1]]
      IN /\ Len(bytes) % Size = 0
         /\ \A k \in starts : SubSeq(bytes, k, k + Size - 1) = Bytes(bytes[k][1])
         /\ IsInjective(told \o waiting) /\ ToSet(told \o waiting) = ToSet(sp.posted[c][way])

\* A message is never left half sent: select looks at the queue alone, and would not
\* come back to it.
NothingStuck ==
  \A e \in Ends :
    sp.peer[e].byte # -1 /\ Process(e) \notin sp.ended => Begun(Process(e), <<"send", e>>)

\* Server and client never both wait for the other to receive.
Blocked(e) ==
  /\ Begun(Process(e), <<"send", e>>) /\ ~Gone(sp, e)
  /\ LET peer == Loaded(sp.peer[e])
     IN peer.byte # -1 /\ Len(sp.wire[Conn(sp, e)][Out(e)]) + Piece(peer.byte) > Capacity
NotBothBlocked == \A c \in Clients : \A i \in Holder(c) : ~(Blocked(i) /\ Blocked(c))

\* A slot that is free keeps nothing of who had it.
SlotsClean == \A i \in Slots : sp.peer[i].socket = None => sp.peer[i] = create_peer
=============================================================================
