---------------------------- MODULE SoupSockets ----------------------------
(***************************************************************************)
(* The sockets of the media worker (mediasoup_1/soup/src/handles and RTC):  *)
(* UDP sockets and TCP servers on ports of a common range, TCP connections, *)
(* and how they close.  Closing takes several turns of the libuv loop:      *)
(* uv_shutdown, uv_close and their callbacks, while the transport that owns *)
(* the sockets may already be freed.                                        *)
(***************************************************************************)
EXTENDS Naturals, FiniteSets, FiniteSetsExt, Functions

CONSTANTS
  Owners,           \* transports
  Socks,            \* identities of UdpSocket and TcpServer objects
  Conns,            \* identities of TcpConnection objects
  MinPort, MaxPort, \* Settings: rtcMinPort, rtcMaxPort
  MaxBindAttempts,
  MaxConnections    \* MaxTcpConnectionsPerServer

Ports == MinPort..MaxPort
Kinds == {"udp", "tcp"}

VARIABLE net
(***************************************************************************)
(* owners    the transports that are not freed                              *)
(* free      for each kind the ports marked available                       *)
(* socks     live socket -> kind, port, owner, isClosing, uv_close called   *)
(* conns     live connection -> server, isClosing, isClosedByPeer, hasError,*)
(*           and its handle: "open", "shutdown" or "closing"                *)
(* used      sockets and connections that have existed                      *)
(* faults    calls into freed objects, handles closed twice                 *)
(***************************************************************************)

\* ClassInit: every port of the range is available to both kinds.
Init ==
  net = [owners |-> Owners, free |-> [k \in Kinds |-> Ports], socks |-> << >>,
         conns |-> << >>, used |-> {}, faults |-> {}]

Without(f, x) == Restrict(f, DOMAIN f \ {x})
With(f, x, v) == [y \in DOMAIN f \cup {x} |-> IF y = x THEN v ELSE f[y]]
ConnsOf(s, k) == {c \in DOMAIN s.conns : s.conns[c].sock = k}
Fault(s, what) == [s EXCEPT !.faults = @ \cup {what}]

----------------------------------------------------------------------------
\* Ports.

\* The i-th port tried after the random first one.
Nth(first, i) == MinPort + ((first - MinPort + i) % Cardinality(Ports))

(***************************************************************************)
(* GetRandomPort: the first port, in the order tried, that is marked        *)
(* available and that no other process is bound to; a set with it, or the   *)
(* empty set for an error.  The (MaxBindAttempts + 1)-th failing bind gives *)
(* up.  UdpSocket and TcpServer have a copy each.                           *)
(***************************************************************************)
GetRandomPort(free, first, foreign) ==
  LET N == Cardinality(Ports)
      good == {i \in 1..N : Nth(first, i) \in free \ foreign}
      hit == Min(good)
      failed == Cardinality({i \in 1..(hit - 1) : Nth(first, i) \in free \cap foreign})
  IN  IF good = {} \/ failed > MaxBindAttempts THEN {} ELSE {Nth(first, hit)}

GetRandomUdpPort(free, first, foreign) == GetRandomPort(free, first, foreign)

\* The constructors: the port is taken before the base class listens, and is
\* not given back when that fails.
NewSock(s, k, kind, owner, port) ==
  [s EXCEPT !.free[kind] = @ \ {port}, !.used = @ \cup {k},
            !.socks = With(@, k, [kind |-> kind, port |-> port, owner |-> owner,
                                  closing |-> FALSE, uvClose |-> FALSE])]

NewUdpSocket(s, k, owner, first, foreign, ok) ==
  {IF ok THEN NewSock(s, k, "udp", owner, p) ELSE [s EXCEPT !.free["udp"] = @ \ {p}] :
     p \in GetRandomUdpPort(s.free["udp"], first, foreign)}

NewTcpServer(s, k, owner, first, foreign, ok) ==
  {IF ok THEN NewSock(s, k, "tcp", owner, p) ELSE [s EXCEPT !.free["tcp"] = @ \ {p}] :
     p \in GetRandomPort(s.free["tcp"], first, foreign)}

----------------------------------------------------------------------------
\* Closing.

UvClose(s, k) ==
  IF s.socks[k].uvClose THEN Fault(s, "uv_close called twice")
  ELSE [s EXCEPT !.socks[k].uvClose = TRUE]

\* TcpConnection::Destroy: gracefully, unless the peer closed or there was an
\* error.
DestroyConnection(s, c) ==
  IF s.conns[c].closing THEN s
  ELSE [s EXCEPT !.conns[c].closing = TRUE,
                 !.conns[c].uv = IF s.conns[c].byPeer \/ s.conns[c].err
                                 THEN "closing" ELSE "shutdown"]

\* The loop over the connections: each Destroy touches its own connection.
DestroyConnections(s, k) ==
  [s EXCEPT !.conns = [c \in DOMAIN s.conns |->
                         IF s.conns[c].sock = k THEN DestroyConnection(s, c).conns[c]
                                                ELSE s.conns[c]]]

DestroyTcpServer(s, k) ==
  IF s.socks[k].closing THEN s
  ELSE LET d == [s EXCEPT !.socks[k].closing = TRUE]
       IN  IF ConnsOf(d, k) = {} THEN UvClose(d, k) ELSE DestroyConnections(d, k)

DestroyUdpSocket(s, k) ==
  IF s.socks[k].closing THEN s
  ELSE UvClose([s EXCEPT !.socks[k].closing = TRUE], k)

DestroySock(s, k) ==
  IF s.socks[k].kind = "udp" THEN DestroyUdpSocket(s, k) ELSE DestroyTcpServer(s, k)

\* Mutant: the port of a server is given back when the closing begins.
DestroyOwner_EarlyPort(s, owner) ==
  LET mine == {k \in DOMAIN s.socks : s.socks[k].owner = owner}
  IN  [s EXCEPT !.socks = [k \in DOMAIN s.socks |->
                             IF k \in mine THEN DestroySock(s, k).socks[k] ELSE s.socks[k]],
                !.conns = [c \in DOMAIN s.conns |->
                             IF s.conns[c].sock \in mine
                             THEN DestroySock(s, s.conns[c].sock).conns[c] ELSE s.conns[c]],
                !.faults = @ \cup UNION {DestroySock(s, k).faults : k \in mine},
                !.free["tcp"] = @ \cup {s.socks[k].port : k \in {j \in mine : s.socks[j].kind = "tcp"}},
                !.owners = @ \ {owner}]

\* Transport::Destroy: every socket of the transport, which is then freed.
\* Each of their Destroys touches its own socket and the connections of it.
DestroyOwner(s, owner) ==
  LET mine == {k \in DOMAIN s.socks : s.socks[k].owner = owner}
  IN  [s EXCEPT !.socks = [k \in DOMAIN s.socks |->
                             IF k \in mine THEN DestroySock(s, k).socks[k] ELSE s.socks[k]],
                !.conns = [c \in DOMAIN s.conns |->
                             IF s.conns[c].sock \in mine
                             THEN DestroySock(s, s.conns[c].sock).conns[c] ELSE s.conns[c]],
                !.faults = @ \cup UNION {DestroySock(s, k).faults : k \in mine},
                !.owners = @ \ {owner}]

\* The transport is told of a closed connection; it may close for it.
UserOnTcpConnectionClosed(s, k, end) ==
  IF s.socks[k].closing THEN s
  ELSE IF s.socks[k].owner \notin s.owners THEN Fault(s, "a freed transport is called")
  ELSE IF end THEN DestroyOwner(s, s.socks[k].owner) ELSE s

\* Mutant: isClosing is read after the callback.
OnTcpConnectionClosed_Late(s, c, end) ==
  LET k == s.conns[c].sock
      u == UserOnTcpConnectionClosed([s EXCEPT !.conns = Without(@, c)], k, end)
  IN  IF u.socks[k].closing /\ ConnsOf(u, k) = {} THEN UvClose(u, k) ELSE u

OnTcpConnectionClosed(s, c, end) ==
  LET k == s.conns[c].sock
      u == UserOnTcpConnectionClosed([s EXCEPT !.conns = Without(@, c)], k, end)
  IN  IF s.socks[k].closing /\ ConnsOf(u, k) = {} THEN UvClose(u, k) ELSE u

UserOnSockClosed(s, k) ==
  [s EXCEPT !.free[s.socks[k].kind] = @ \cup {s.socks[k].port}]

UserOnUdpSocketClosed(s, k) == UserOnSockClosed(s, k)

OnUvSockClosed(s, k) ==
  LET u == IF s.socks[k].kind = "udp" THEN UserOnUdpSocketClosed(s, k) ELSE UserOnSockClosed(s, k)
  IN  [u EXCEPT !.socks = Without(@, k)]

----------------------------------------------------------------------------
\* Events.

OpenUdpSocket(k, owner, first, foreign, ok) ==
  /\ k \notin net.used /\ owner \in net.owners
  /\ net' \in NewUdpSocket(net, k, owner, first, foreign, ok)

OpenTcpServer(k, owner, first, foreign, ok) ==
  /\ k \notin net.used /\ owner \in net.owners
  /\ net' \in NewTcpServer(net, k, owner, first, foreign, ok)

NewConnection(k) ==
  [sock |-> k, closing |-> FALSE, byPeer |-> FALSE, err |-> FALSE, uv |-> "open"]

\* UserOnNewTcpConnection: one connection too many is destroyed.
UserOnNewTcpConnection(s, c) ==
  IF Cardinality(ConnsOf(s, s.conns[c].sock)) > MaxConnections
  THEN DestroyConnection(s, c) ELSE s

\* OnUvConnection: accepted and started; one that cannot start is destroyed.
OnUvConnection(k, c, started) ==
  /\ k \in DOMAIN net.socks /\ net.socks[k].kind = "tcp" /\ ~net.socks[k].closing
  /\ c \notin net.used
  /\ LET a == [net EXCEPT !.conns = With(@, c, NewConnection(k)), !.used = @ \cup {c}]
     IN  net' = UserOnNewTcpConnection(IF started THEN a ELSE DestroyConnection(a, c), c)

OpenConn(c) == c \in DOMAIN net.conns /\ ~net.conns[c].closing

\* OnUvRead: end of file, an error, or data, which may end the transport.
OnUvRead(c, what) ==
  /\ OpenConn(c)
  /\ net' = CASE what = "eof" -> DestroyConnection([net EXCEPT !.conns[c].byPeer = TRUE], c)
              [] what = "error" -> DestroyConnection([net EXCEPT !.conns[c].err = TRUE], c)
              [] what = "too long" -> DestroyConnection(net, c)
              [] what = "last packet" ->
                   LET k == net.conns[c].sock
                   IN  IF net.socks[k].owner \in net.owners
                       THEN DestroyOwner(net, net.socks[k].owner)
                       ELSE Fault(net, "a freed transport is called")

\* A failed write: uv_try_write, EPIPE and ENOTCONN close gracefully.
OnUvWriteError(c, hard) ==
  /\ OpenConn(c)
  /\ net' = DestroyConnection([net EXCEPT !.conns[c].err = hard], c)

OnUvShutdown(c) ==
  /\ c \in DOMAIN net.conns /\ net.conns[c].uv = "shutdown"
  /\ net' = [net EXCEPT !.conns[c].uv = "closing"]

OnUvConnectionClosed(c, end) ==
  /\ c \in DOMAIN net.conns /\ net.conns[c].uv = "closing"
  /\ net' = OnTcpConnectionClosed(net, c, end)

OnUvClosed(k) ==
  /\ k \in DOMAIN net.socks /\ net.socks[k].uvClose
  /\ net' = OnUvSockClosed(net, k)

\* A datagram ends the transport, or the application closes it.
OnUvRecv(k) ==
  /\ k \in DOMAIN net.socks /\ net.socks[k].kind = "udp" /\ ~net.socks[k].closing
  /\ net' = IF net.socks[k].owner \in net.owners THEN DestroyOwner(net, net.socks[k].owner)
            ELSE Fault(net, "a freed transport is called")

CloseTransport(owner) == owner \in net.owners /\ net' = DestroyOwner(net, owner)

Next ==
  /\ net.faults = {}
  /\ \/ \E k \in Socks, owner \in Owners, first \in Ports, foreign \in SUBSET Ports, ok \in BOOLEAN :
          OpenUdpSocket(k, owner, first, foreign, ok) \/ OpenTcpServer(k, owner, first, foreign, ok)
     \/ \E k \in Socks, c \in Conns, b \in BOOLEAN : OnUvConnection(k, c, b)
     \/ \E c \in Conns, w \in {"eof", "error", "too long", "last packet"} : OnUvRead(c, w)
     \/ \E c \in Conns, b \in BOOLEAN : OnUvWriteError(c, b) \/ OnUvConnectionClosed(c, b)
     \/ \E c \in Conns : OnUvShutdown(c)
     \/ \E k \in Socks : OnUvClosed(k) \/ OnUvRecv(k)
     \/ \E owner \in Owners : CloseTransport(owner)

Spec == Init /\ [][Next]_net

----------------------------------------------------------------------------
TypeOK ==
  /\ net.owners \subseteq Owners /\ net.used \subseteq Socks \cup Conns
  /\ net.free \in [Kinds -> SUBSET Ports]
  /\ DOMAIN net.socks \subseteq Socks /\ DOMAIN net.conns \subseteq Conns
  /\ \A k \in DOMAIN net.socks :
       net.socks[k] \in [kind : Kinds, port : Ports, owner : Owners, closing : BOOLEAN,
                         uvClose : BOOLEAN]
  /\ \A c \in DOMAIN net.conns :
       net.conns[c] \in [sock : Socks, closing : BOOLEAN, byPeer : BOOLEAN, err : BOOLEAN,
                         uv : {"open", "shutdown", "closing"}]

\* A handle is closed once ("calls uv_close() again and get a crash"), no
\* freed transport is called ("the listener is already freed"), a connection
\* never outlives its server, and a server that is closing waits for a
\* connection that is closing too, so that it does get closed.
ClosesOnce ==
  /\ net.faults = {}
  /\ \A c \in DOMAIN net.conns : net.conns[c].sock \in DOMAIN net.socks
  /\ \A k \in DOMAIN net.socks :
       /\ net.socks[k].closing <=> net.socks[k].owner \notin net.owners
       /\ net.socks[k].closing /\ ~net.socks[k].uvClose =>
            ConnsOf(net, k) # {} /\ \A c \in ConnsOf(net, k) : net.conns[c].closing
       /\ net.socks[k].uvClose => net.socks[k].closing /\ ConnsOf(net, k) = {}

\* A port belongs to one handle at a time: it is not marked available before
\* the handle bound to it is really closed, connections and all.
PortsExclusive ==
  \A k \in DOMAIN net.socks :
    /\ net.socks[k].port \notin net.free[net.socks[k].kind]
    /\ \A j \in DOMAIN net.socks \ {k} :
         net.socks[j].kind = net.socks[k].kind => net.socks[j].port # net.socks[k].port
=============================================================================
