--------------------------- MODULE SoupTransport ---------------------------
(***************************************************************************)
(* One WebRTC transport of the media worker (mediasoup_1/soup/src/RTC): the *)
(* Transport with its IceServer, DtlsTransport and SrtpSessions, which call *)
(* each other back within one event of the worker's loop.                   *)
(*                                                                          *)
(* Each C++ method is an operator from a state of the transport to the next *)
(* one, so that an event is the composition of the methods it runs, in      *)
(* their order.  OpenSSL, libsrtp and the remote end choose freely: a call  *)
(* into them is a parameter of the event.  IPv4 and IPv6 sockets are alike. *)
(***************************************************************************)
EXTENDS Naturals, Sequences, SequencesExt

CONSTANTS
  UdpTuples,      \* remote addresses that packets come from
  TcpTuples,      \* TCP connections, each one used once
  MaxPasswords    \* bound on the changes of ICE user and password

NoTuple == "none"
Tuples == UdpTuples \cup TcpTuples

VARIABLE tp
(***************************************************************************)
(* life      "unborn", "open" or "freed"                                    *)
(* socks     the kinds of sockets that could be opened                      *)
(* conns     the TCP connections that are open                              *)
(* dead      the TCP connections that were open once                        *)
(* ice, tuples, selected, password     IceServer                            *)
(* tsel      Transport::selectedTuple                                       *)
(* local, given    Transport::dtlsLocalRole, remoteDtlsParametersGiven      *)
(* role, dtls, done, fp, timer         DtlsTransport                        *)
(* runs      how often Run has started a handshake                          *)
(* ssl       the handshake OpenSSL completed last: the run it belongs to,   *)
(*           whether there is a certificate and an SRTP profile             *)
(* send, recv     the runs whose keys the SRTP sessions have; 0: no session *)
(* faults    freed or null objects used                                     *)
(***************************************************************************)

NoHandshake == [run |-> 0, cert |-> FALSE, profile |-> FALSE]

Init ==
  tp = [life |-> "unborn", socks |-> {}, conns |-> {}, dead |-> {},
        ice |-> "new", tuples |-> << >>, selected |-> NoTuple, password |-> 0,
        tsel |-> NoTuple, local |-> "auto", given |-> FALSE,
        role |-> "none", dtls |-> "new", done |-> FALSE, fp |-> "none", timer |-> FALSE,
        runs |-> 0, ssl |-> NoHandshake, send |-> 0, recv |-> 0, faults |-> {}]

Fault(s, what) == [s EXCEPT !.faults = @ \cup {what}]

----------------------------------------------------------------------------
\* Sending.

\* TransportTuple::Send follows the pointer of a TCP connection.
Send(s, t) == IF t \in s.dead THEN Fault(s, "send on a freed connection") ELSE s

OnOutgoingDtlsData(s) == IF s.tsel = NoTuple THEN s ELSE Send(s, s.tsel)

SendPendingOutgoingDtlsData(s) == OnOutgoingDtlsData(s)

EncryptRtp(s) == s.send # 0
EncryptRtcp(s) == s.send # 0

SendRtpPacket(s) ==
  IF s.tsel = NoTuple \/ ~EncryptRtp(s) THEN s ELSE Send(s, s.tsel)

SendRtcpPacket(s) ==
  IF s.tsel = NoTuple \/ ~EncryptRtcp(s) THEN s ELSE Send(s, s.tsel)

SendRtcpCompoundPacket(s) ==
  IF s.tsel = NoTuple \/ ~EncryptRtcp(s) THEN s ELSE Send(s, s.tsel)

----------------------------------------------------------------------------
\* Closing.

IsRunning(s) == s.dtls \in {"connecting", "connected"}

\* A running DTLS sends its close alert first.
DestroyDtls(s) ==
  LET sent == IF IsRunning(s) THEN SendPendingOutgoingDtlsData(s) ELSE s
  IN  [sent EXCEPT !.timer = FALSE]

Destroy(s) ==
  LET d == DestroyDtls([s EXCEPT !.send = 0, !.recv = 0])
  IN  [d EXCEPT !.tsel = NoTuple, !.selected = NoTuple, !.tuples = << >>,
                !.dead = @ \cup d.conns, !.conns = {}, !.socks = {}, !.life = "freed"]

OnIceDisconnected(s) == Destroy([s EXCEPT !.tsel = NoTuple])
OnDtlsFailed(s) == Destroy(s)
OnDtlsClosed(s) == Destroy(s)

----------------------------------------------------------------------------
\* DtlsTransport.

Reset(s) ==
  IF ~IsRunning(s) THEN s
  ELSE [s EXCEPT !.timer = FALSE, !.role = "none", !.dtls = "new", !.done = FALSE]

Fail(s) == OnDtlsFailed([Reset(s) EXCEPT !.dtls = "failed"])

\* ms: what DTLSv1_get_timeout says.  More than 30 seconds is a failure.
SetTimeout(s, ms) ==
  CASE ms = "none" -> s
    [] ms = "short" -> [s EXCEPT !.timer = TRUE]
    [] ms = "long" -> Fail(s)

CheckRemoteFingerprint(s) == s.ssl.cert /\ s.fp = "match"

\* libsrtp may refuse each session.  Without the second the first is closed
\* again, whether it is there or not.
NewSrtpSession(s, ok) == IF ok THEN s.ssl.run ELSE 0

OnDtlsConnected(s, send, recv) ==
  LET n == [s EXCEPT !.send = NewSrtpSession(s, send), !.recv = NewSrtpSession(s, recv)]
  IN  IF recv THEN n
      ELSE IF send THEN [n EXCEPT !.send = 0]
      ELSE Fault(n, "no sending session to destroy")

\* The keys are cut from the material by the role of the handshake.
ExtractSrtpKeys(s, send, recv) ==
  OnDtlsConnected([s EXCEPT !.dtls = "connected"], send, recv)

GetNegotiatedSrtpProfile(s) == s.ssl.profile

\* Mutant: the fingerprint is not compared with the certificate.
ProcessHandshake_Trusting(s, send, recv) ==
  IF s.fp = "none" THEN s
  ELSE IF ~GetNegotiatedSrtpProfile(s) THEN Fail(s)
  ELSE ExtractSrtpKeys(s, send, recv)

ProcessHandshake(s, send, recv) ==
  IF s.fp = "none" THEN s
  ELSE IF ~CheckRemoteFingerprint(s) \/ ~GetNegotiatedSrtpProfile(s) THEN Fail(s)
  ELSE ExtractSrtpKeys(s, send, recv)

\* OpenSSL reports a completed handshake, or a renegotiation of it.
OnSslInfo(s, cert, profile) ==
  [s EXCEPT !.ssl = [run |-> s.runs, cert |-> cert, profile |-> profile]]

(***************************************************************************)
(* What SSL_read may have met: nothing of note, the end of a handshake, or  *)
(* a close alert or error.  The caller goes on when ok is TRUE.             *)
(***************************************************************************)
Reads ==
  {[event |-> "none"], [event |-> "closed"]}
    \cup [event : {"handshake"}, cert : BOOLEAN, profile : BOOLEAN, send : BOOLEAN, recv : BOOLEAN]

CheckStatus(s, read) ==
  CASE read.event = "none" -> [s |-> s, ok |-> TRUE]
    [] read.event = "handshake" ->
         LET d == [OnSslInfo(s, read.cert, read.profile) EXCEPT !.done = TRUE, !.timer = FALSE]
         IN  [s |-> IF s.done THEN d ELSE ProcessHandshake(d, read.send, read.recv), ok |-> TRUE]
    [] read.event = "closed" ->
         [s |-> IF s.dtls = "connected"
                THEN OnDtlsClosed([Reset(s) EXCEPT !.dtls = "closed"])
                ELSE Fail(s),
          ok |-> FALSE]

ProcessDtlsData(s, read, ms) ==
  IF ~IsRunning(s) THEN s
  ELSE LET c == CheckStatus(SendPendingOutgoingDtlsData(s), read)
       IN  IF ~c.ok THEN c.s
           ELSE IF c.s.life = "freed" THEN Fault(c.s, "timeout of a freed DtlsTransport")
           ELSE SetTimeout(c.s, ms)

OnTimer(s, ms) == SetTimeout(SendPendingOutgoingDtlsData([s EXCEPT !.timer = FALSE]), ms)

\* A client sends its hello at once and sets the timer.
Run(s, role) ==
  IF s.role = role THEN s
  ELSE LET r == [Reset(s) EXCEPT !.role = role, !.dtls = "connecting", !.runs = @ + 1]
       IN  IF role = "client" THEN SetTimeout(SendPendingOutgoingDtlsData(r), "short") ELSE r

SetRemoteFingerprint(s, fp, send, recv) ==
  LET f == [s EXCEPT !.fp = fp]
  IN  IF s.done /\ s.dtls # "connected" THEN ProcessHandshake(f, send, recv) ELSE f

----------------------------------------------------------------------------
\* Transport and IceServer.

MayRunDtlsTransport(s) ==
  LET connected == s.ice \in {"connected", "completed"}
  IN  CASE s.role = s.local -> s
        [] s.role # s.local /\ s.local = "auto" ->
             IF connected THEN Run([s EXCEPT !.local = "server"], "server") ELSE s
        [] s.role # s.local /\ s.local = "client" ->
             IF s.ice = "completed" THEN Run(s, "client") ELSE s
        [] s.role # s.local /\ s.local = "server" ->
             IF connected THEN Run(s, "server") ELSE s

OnIceSelectedTuple(s, t) == [s EXCEPT !.tsel = t]
OnIceConnected(s) == MayRunDtlsTransport(s)

\* Mutant: nothing is started when ICE completes.
OnIceCompleted_Late(s) == s

OnIceCompleted(s) == MayRunDtlsTransport(s)

SetSelectedTuple(s, t) ==
  IF s.selected = t THEN s ELSE OnIceSelectedTuple([s EXCEPT !.selected = t], t)

HasTuple(s, t) == s.selected # NoTuple /\ Contains(s.tuples, t)
AddTuple(s, t) == [s EXCEPT !.tuples = <<t>> \o @]

\* The first tuple becomes the selected one, in whichever state.
FirstTuple(s, t, use) ==
  LET a == SetSelectedTuple(AddTuple(s, t), t)
  IN  IF use THEN OnIceCompleted([a EXCEPT !.ice = "completed"])
             ELSE OnIceConnected([a EXCEPT !.ice = "connected"])

HandleTuple(s, t, use) ==
  LET known == IF HasTuple(s, t) THEN s ELSE AddTuple(s, t)
  IN  CASE s.ice \in {"new", "disconnected"} -> FirstTuple(s, t, use)
        [] s.ice \in {"connected", "completed"} /\ ~use -> known
        [] s.ice = "connected" /\ use ->
             OnIceCompleted([SetSelectedTuple(known, t) EXCEPT !.ice = "completed"])
        [] s.ice = "completed" /\ use -> SetSelectedTuple(known, t)

\* Mutant: the transport is not told that its tuple is gone.
RemoveTuple_Quiet(s, t) ==
  IF ~HasTuple(s, t) THEN s
  ELSE LET r == [s EXCEPT !.tuples = RemoveFirst(@, t)]
       IN  IF s.selected # t THEN r
           ELSE IF r.tuples # << >> THEN [r EXCEPT !.selected = r.tuples[1]]
           ELSE OnIceDisconnected([r EXCEPT !.selected = NoTuple, !.ice = "disconnected"])

RemoveTuple(s, t) ==
  IF ~HasTuple(s, t) THEN s
  ELSE LET r == [s EXCEPT !.tuples = RemoveFirst(@, t)]
       IN  IF s.selected # t THEN r
           ELSE IF r.tuples # << >>
                THEN SetSelectedTuple([r EXCEPT !.selected = NoTuple], r.tuples[1])
           ELSE OnIceDisconnected([r EXCEPT !.selected = NoTuple, !.ice = "disconnected"])

ForceSelectedTuple(s, t) ==
  IF s.selected = NoTuple \/ ~HasTuple(s, t)
  THEN Fault(s, "forced a tuple that is not valid") ELSE SetSelectedTuple(s, t)

----------------------------------------------------------------------------
\* Events.  From here on an action each.

Open == tp.life = "open" /\ tp.faults = {}

\* PEER_CREATE_TRANSPORT: the sockets that open; none of them is an error.
New(socks) ==
  /\ tp.life = "unborn" /\ socks # {}
  /\ tp' = [tp EXCEPT !.life = "open", !.socks = socks]

Accept(c) ==
  /\ Open /\ "tcp" \in tp.socks /\ c \in TcpTuples \ (tp.conns \cup tp.dead)
  /\ tp' = [tp EXCEPT !.conns = @ \cup {c}]

\* The tuples a packet can come over now.
Sources == {t \in UdpTuples : "udp" \in tp.socks} \cup tp.conns

(***************************************************************************)
(* A STUN message.  Anything but a well-formed binding request made with    *)
(* the current user and password is answered with an error or ignored.      *)
(***************************************************************************)
StunMessages ==
  [method : {"binding", "other"}, class : {"request", "other"}, fingerprint : BOOLEAN,
   attributes : BOOLEAN]

WellFormed == {m \in StunMessages : m.method = "binding" /\ m.class = "request"
                                     /\ m.fingerprint /\ m.attributes}

ProcessStunMessage(t, m, password, use) ==
  IF m \in WellFormed /\ password = tp.password
  THEN HandleTuple(Send(tp, t), t, use) ELSE tp

OnStunDataRecv(t, password, use) ==
  /\ Open /\ t \in Sources
  /\ tp' \in {ProcessStunMessage(t, m, password, use) : m \in StunMessages}

OnDtlsDataRecv(t, read, ms) ==
  /\ Open /\ t \in Sources /\ HasTuple(tp, t)
  /\ ms # "none" => ~tp.done /\ read.event = "none"
  /\ tp' = LET f == ForceSelectedTuple(tp, t)
           IN  IF IsRunning(f) THEN ProcessDtlsData(f, read, ms) ELSE f

DecryptSrtp(s) == s.recv # 0

\* A packet with a receiver: no receiver is a step that changes nothing.
OnRtpDataRecv(t) ==
  /\ Open /\ t \in Sources
  /\ tp.dtls = "connected" /\ DecryptSrtp(tp) /\ HasTuple(tp, t)
  /\ tp' = ForceSelectedTuple(tp, t)

DtlsTimer(ms) == Open /\ tp.timer /\ tp' = OnTimer(tp, ms)

SendMedia ==
  /\ Open
  /\ \/ tp' = SendRtpPacket(tp)
     \/ tp' = SendRtcpPacket(tp)
     \/ tp' = SendRtcpCompoundPacket(tp)

\* Only a connection that its peer closed takes its tuple with it.
OnRtcTcpConnectionClosed(c, isClosedByPeer) ==
  /\ Open /\ c \in tp.conns
  /\ LET gone == [tp EXCEPT !.conns = @ \ {c}, !.dead = @ \cup {c}]
     IN  tp' = IF isClosedByPeer THEN RemoveTuple(gone, c) ELSE gone

(***************************************************************************)
(* TRANSPORT_SET_REMOTE_DTLS_PARAMETERS works once, a rejected request      *)
(* included.  A remote "auto" makes this end the client.                    *)
(***************************************************************************)
SetRemoteDtlsParameters(valid, remoteRole, fp, send, recv) ==
  /\ Open /\ ~tp.given
  /\ LET g == [tp EXCEPT !.given = TRUE]
         l == [g EXCEPT !.local = IF remoteRole = "client" THEN "server" ELSE "client"]
         f == SetRemoteFingerprint(l, fp, send, recv)
     IN  tp' = IF ~valid \/ remoteRole = "none" THEN g
               ELSE IF f.life = "freed" THEN Fault(f, "running a freed DtlsTransport")
               ELSE MayRunDtlsTransport(f)

ChangeUfragPwd ==
  /\ Open /\ tp.password < MaxPasswords
  /\ tp' = [tp EXCEPT !.password = @ + 1]

Close == Open /\ tp' = Destroy(tp)

Next ==
  \/ \E socks \in SUBSET {"udp", "tcp"} : New(socks)
  \/ \E c \in TcpTuples : Accept(c)
  \/ \E t \in Tuples, p \in 0..MaxPasswords, use \in BOOLEAN : OnStunDataRecv(t, p, use)
  \/ \E t \in Tuples, read \in Reads, ms \in {"none", "short", "long"} :
       OnDtlsDataRecv(t, read, ms)
  \/ \E t \in Tuples : OnRtpDataRecv(t)
  \/ \E ms \in {"none", "short", "long"} : DtlsTimer(ms)
  \/ SendMedia
  \/ \E c \in TcpTuples, b \in BOOLEAN : OnRtcTcpConnectionClosed(c, b)
  \/ \E valid, send, recv \in BOOLEAN, role \in {"none", "auto", "client", "server"},
        fp \in {"match", "mismatch"} : SetRemoteDtlsParameters(valid, role, fp, send, recv)
  \/ ChangeUfragPwd
  \/ Close

Spec == Init /\ [][Next]_tp

----------------------------------------------------------------------------
TypeOK ==
  tp \in [life : {"unborn", "open", "freed"}, socks : SUBSET {"udp", "tcp"},
          conns : SUBSET TcpTuples, dead : SUBSET TcpTuples,
          ice : {"new", "connected", "completed", "disconnected"},
          tuples : Seq(Tuples), selected : Tuples \cup {NoTuple},
          password : 0..MaxPasswords, tsel : Tuples \cup {NoTuple},
          local : {"auto", "client", "server"}, given : BOOLEAN,
          role : {"none", "client", "server"},
          dtls : {"new", "connecting", "connected", "closed", "failed"}, done : BOOLEAN,
          fp : {"none", "match", "mismatch"}, timer : BOOLEAN,
          runs : 0..2, ssl : [run : 0..2, cert : BOOLEAN, profile : BOOLEAN],
          send : 0..2, recv : 0..2,
          faults : SUBSET {"send on a freed connection", "no sending session to destroy",
                           "timeout of a freed DtlsTransport", "running a freed DtlsTransport",
                           "forced a tuple that is not valid"}]

\* The transport sends over the tuple its IceServer selected, which is one of
\* the list; there is one exactly when ICE has got somewhere.  These are the
\* assertions of HandleTuple and ForceSelectedTuple, over all the callbacks
\* that add, force and remove tuples.
SelectedAgrees ==
  tp.life = "open" =>
    /\ tp.tsel = tp.selected
    /\ tp.selected = NoTuple <=> tp.tuples = << >>
    /\ tp.selected # NoTuple => Contains(tp.tuples, tp.selected)
    /\ tp.selected = NoTuple <=> tp.ice \in {"new", "disconnected"}
    /\ \A i, j \in 1..Len(tp.tuples) : tp.tuples[i] = tp.tuples[j] => i = j
    /\ "forced a tuple that is not valid" \notin tp.faults

\* SRTP sessions are made only with keys of a handshake whose certificate has
\* the announced fingerprint, and a connected transport has the keys of the
\* handshake of the role it runs in, however often DTLS was reset.
KeysAreVerified ==
  /\ tp.send # 0 \/ tp.recv # 0 => tp.fp = "match"
  /\ tp.dtls = "connected" /\ tp.faults = {} =>
       tp.fp = "match" /\ {tp.send, tp.recv} \subseteq {0, tp.runs}

\* Whichever of ICE and the remote parameters comes first, DTLS runs in the
\* local role as soon as both allow it; a server does not wait for the
\* nomination, a client does.
DtlsFollowsIce ==
  tp.life = "open" /\ tp.faults = {} =>
    /\ tp.ice = "completed" \/ (tp.ice = "connected" /\ tp.local # "client") =>
         IsRunning(tp) /\ tp.role = tp.local
    /\ tp.ice = "new" => tp.role = "none"

\* "Check SSL status and return if it is bad/closed": the DtlsTransport is
\* there when ProcessDtlsData goes on after CheckStatus.
StatusStopsBad == "timeout of a freed DtlsTransport" \notin tp.faults
=============================================================================
