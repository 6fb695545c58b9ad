------------------------ MODULE SoupTransportProofs -------------------------
(***************************************************************************)
(* Theorems about SoupTransport, for any number of tuples and passwords:    *)
(* the transport sends where its IceServer says, SRTP keys are those of a   *)
(* verified handshake, and DTLS runs as soon as ICE and the parameters of   *)
(* the remote end allow it.                                                 *)
(*                                                                          *)
(* A transport is live (L) or has ended (E); the invariant of a live one    *)
(* has a part for the IceServer, one for the DtlsTransport with the SRTP    *)
(* sessions, and one that ties them together, which holds between events    *)
(* but not within them.                                                     *)
(***************************************************************************)
EXTENDS MCSoupParts, Sequences, FiniteSetTheorems, WellFoundedInduction, TLAPS

----------------------------------------------------------------------------
(* The invariant, of any state s of the transport.                          *)

\* The faults a transport can have: all but that of ForceSelectedTuple.
Faults == {"send on a freed connection", "no sending session to destroy",
           "timeout of a freed DtlsTransport", "running a freed DtlsTransport"}

\* The values of the state.
States ==
    [life : {"unborn", "open", "freed"}, socks : SUBSET {"udp", "tcp"},
     conns : SUBSET TcpTuples, dead : SUBSET TcpTuples,
     ice : {"new", "connected", "completed", "disconnected"},
     tuples : Seq(Tp!Tuples), selected : Tp!Tuples \cup {Tp!NoTuple},
     password : 0..MaxPasswords, tsel : Tp!Tuples \cup {Tp!NoTuple},
     local : {"auto", "client", "server"}, given : BOOLEAN,
     role : {"none", "client", "server"},
     dtls : {"new", "connecting", "connected", "closed", "failed"}, done : BOOLEAN,
     fp : {"none", "match", "mismatch"}, timer : BOOLEAN,
     runs : 0..2, ssl : [run : 0..2, cert : BOOLEAN, profile : BOOLEAN],
     send : 0..2, recv : 0..2, faults : SUBSET Faults]

\* No tuple is in the list twice.
NoRepeats(tuples) == \A i, j \in 1..Len(tuples) : tuples[i] = tuples[j] => i = j

\* The tuples of an IceServer, the selected one, the one the transport sends
\* over, and the state of ICE.
IceGood(tuples, selected, tsel, ice) ==
    /\ tuples \in Seq(Tp!Tuples)
    /\ NoRepeats(tuples)
    /\ tsel = selected
    /\ selected = Tp!NoTuple <=> tuples = << >>
    /\ selected # Tp!NoTuple => selected \in Tp!Tuples /\ Tp!Contains(tuples, selected)
    /\ selected = Tp!NoTuple <=> ice = "new"
    /\ ice \in {"new", "connected", "completed"}

\* The tuple list, the two selected tuples and the ICE state agree.
IceOf(s) == IceGood(s.tuples, s.selected, s.tsel, s.ice)

\* The roles: a first handshake may be followed by one more, when the remote
\* parameters make a client of a transport that has begun as a server.
RolesGood(s) ==
    /\ s.role = "none" <=> s.dtls = "new"
    /\ s.runs = 0 <=> s.role = "none"
    /\ s.runs = 2 => s.given /\ s.role = s.local
    /\ s.role = "client" => s.local = "client"
    /\ s.local = "client" => s.given
    /\ s.local = "auto" => s.role = "none"

\* The keys: those of the handshake of the current run, once its certificate
\* is that of the announced fingerprint.
KeysGood(s) ==
    /\ s.dtls \in {"new", "connecting", "connected"}
    /\ s.dtls = "new" => ~s.done
    /\ s.dtls = "connected" =>
         s.done /\ s.fp = "match" /\ s.send \in {0, s.runs} /\ s.recv \in {0, s.runs}
    /\ s.done => s.ssl.run = s.runs
    /\ s.send # 0 \/ s.recv # 0 => s.fp = "match"
    /\ ~s.given => s.fp = "none"

\* What holds within an event as well.
Sound(s) == s \in States /\ s.life = "open" /\ IceOf(s) /\ RolesGood(s) /\ KeysGood(s)

\* DTLS does not run before ICE does.
NotEarly(s) == s.ice = "new" => s.role = "none"

\* DTLS runs in the local role when it may.
InTime(s) ==
    s.ice = "completed" \/ (s.ice = "connected" /\ s.local # "client") => s.role = s.local

\* What holds of a live transport between two events.
Live(s) == Sound(s) /\ NotEarly(s) /\ InTime(s)

\* A transport that is freed has no keys left.
Ended(s) ==
    /\ s \in States /\ s.life = "freed" /\ s.send = 0 /\ s.recv = 0
    /\ s.dtls = "connected" => s.fp = "match"

\* A transport before its birth.
Unborn(s) ==
    /\ s \in States /\ s.life = "unborn"
    /\ s.tuples = << >> /\ s.selected = Tp!NoTuple /\ s.tsel = Tp!NoTuple /\ s.ice = "new"
    /\ s.local = "auto" /\ ~s.given /\ s.role = "none" /\ s.dtls = "new" /\ ~s.done
    /\ s.fp = "none" /\ s.runs = 0 /\ s.send = 0 /\ s.recv = 0 /\ s.faults = {}

\* The inductive invariant: not created, live, or freed.
Inv(s) == Unborn(s) \/ Live(s) \/ Ended(s)
\* The inductive invariant of the specification.
TransportInv == Inv(tp)

----------------------------------------------------------------------------
(* Sending, closing and the timer.                                          *)

\* A step that changes nothing but the faults and the timer.
Quiet(s, t) ==
    /\ t \in States
    /\ t.life = s.life /\ t.tuples = s.tuples /\ t.selected = s.selected /\ t.tsel = s.tsel
    /\ t.ice = s.ice /\ t.local = s.local /\ t.given = s.given /\ t.role = s.role
    /\ t.dtls = s.dtls /\ t.done = s.done /\ t.fp = s.fp /\ t.runs = s.runs /\ t.ssl = s.ssl
    /\ t.send = s.send /\ t.recv = s.recv

\* Such a step keeps the parts of the invariant.
LEMMA QuietSound ==
    ASSUME NEW s, NEW t, Quiet(s, t), Sound(s)
    PROVE  Sound(t)
BY DEF Quiet, Sound, IceOf, RolesGood, KeysGood

\* A quiet step of a live transport leaves it live.
LEMMA QuietLive ==
    ASSUME NEW s, NEW t, Quiet(s, t), Live(s)
    PROVE  Live(t)
<1>1. Sound(t)
  BY QuietSound DEF Live
<1> QED BY <1>1 DEF Quiet, Live, NotEarly, InTime

\* A fault changes nothing else.
LEMMA FaultQuiet ==
    ASSUME NEW s \in States, NEW f \in Faults
    PROVE  Quiet(s, Tp!Fault(s, f))
<1>1. Tp!Fault(s, f) \in States
  BY DEF Tp!Fault, States
<1> QED BY <1>1 DEF Tp!Fault, States, Quiet

\* Nor does a packet that is sent.
LEMMA SendQuiet ==
    ASSUME NEW s \in States, NEW x
    PROVE  Quiet(s, Tp!Send(s, x))
<1>1. Quiet(s, s)
  BY DEF Quiet
<1>2. Quiet(s, Tp!Fault(s, "send on a freed connection"))
  BY FaultQuiet DEF Faults
<1> QED BY <1>1, <1>2 DEF Tp!Send

\* SendPendingOutgoingDtlsData is quiet.
LEMMA DtlsDataQuiet ==
    ASSUME NEW s \in States
    PROVE  Quiet(s, Tp!SendPendingOutgoingDtlsData(s))
<1>1. Quiet(s, s)
  BY DEF Quiet
<1>2. Quiet(s, Tp!Send(s, s.tsel))
  BY SendQuiet
<1> QED BY <1>1, <1>2 DEF Tp!SendPendingOutgoingDtlsData, Tp!OnOutgoingDtlsData

\* Starting or stopping the DTLS timer is quiet.
LEMMA TimerQuiet ==
    ASSUME NEW s \in States, NEW b \in BOOLEAN
    PROVE  Quiet(s, [s EXCEPT !.timer = b])
<1>1. [s EXCEPT !.timer = b] \in States
  BY DEF States
<1> QED BY <1>1 DEF States, Quiet

\* Transport::Destroy leaves a transport that has ended.
LEMMA DestroyEnds ==
    ASSUME NEW s \in States, s.dtls = "connected" => s.fp = "match"
    PROVE  Ended(Tp!Destroy(s))
<1> DEFINE z == [s EXCEPT !.send = 0, !.recv = 0]
           y == IF Tp!IsRunning(z) THEN Tp!SendPendingOutgoingDtlsData(z) ELSE z
           d == [y EXCEPT !.timer = FALSE]
           t == Tp!Destroy(s)
<1>0. z \in States
  <2>1. 0 \in 0..2
    OBVIOUS
  <2> QED BY <2>1 DEF States
<1>1. z \in States /\ z.send = 0 /\ z.recv = 0 /\ z.dtls = s.dtls /\ z.fp = s.fp
  BY <1>0 DEF States
<1> HIDE DEF z
<1>2. Quiet(z, y)
  <2>1. Quiet(z, z)
    BY <1>1 DEF Quiet
  <2>2. Quiet(z, Tp!SendPendingOutgoingDtlsData(z))
    BY <1>1, DtlsDataQuiet
  <2> QED BY <2>1, <2>2
<1>3. d = Tp!DestroyDtls(z)
  BY DEF Tp!DestroyDtls
<1> HIDE DEF y
<1>4. Quiet(y, d)
  BY <1>2, TimerQuiet DEF Quiet
<1>5. t = [d EXCEPT !.tsel = Tp!NoTuple, !.selected = Tp!NoTuple, !.tuples = << >>,
                    !.dead = @ \cup d.conns, !.conns = {}, !.socks = {}, !.life = "freed"]
  BY <1>3 DEF Tp!Destroy, z
<1> HIDE DEF d, t
<1>6. d \in States /\ d.send = 0 /\ d.recv = 0 /\ d.dtls = s.dtls /\ d.fp = s.fp
  BY <1>1, <1>2, <1>4 DEF Quiet
<1>7. t \in States
  <2>1. << >> \in Seq(Tp!Tuples)
    OBVIOUS
  <2> QED BY <1>5, <1>6, <2>1, ZenonT(60) DEF States
<1>8. t.life = "freed" /\ t.send = 0 /\ t.recv = 0 /\ t.dtls = s.dtls /\ t.fp = s.fp
  BY <1>5, <1>6 DEF States
<1>9. Ended(t)
  BY <1>7, <1>8 DEF Ended
<1> QED BY <1>9 DEF t

\* DtlsTransport::Reset keeps a state a state.
LEMMA ResetState ==
    ASSUME NEW s \in States
    PROVE  Tp!Reset(s) \in States
<1>1. [s EXCEPT !.timer = FALSE, !.role = "none", !.dtls = "new", !.done = FALSE] \in States
  BY ZenonT(60) DEF States
<1> QED BY <1>1 DEF Tp!Reset

\* A failure ends the transport.
LEMMA FailEnds ==
    ASSUME NEW s \in States
    PROVE  Ended(Tp!Fail(s))
<1> DEFINE r == Tp!Reset(s)
           f == [r EXCEPT !.dtls = "failed"]
<1>1. r \in States
  BY ResetState
<1> HIDE DEF r
<1>2. f \in States
  BY <1>1, SMTT(60) DEF States
<1>3. f.dtls = "failed"
  BY <1>1 DEF States
<1>4. Tp!Fail(s) = Tp!Destroy(f)
  BY DEF Tp!Fail, Tp!OnDtlsFailed, r
<1> HIDE DEF f
<1>5. Ended(Tp!Destroy(f))
  BY <1>2, <1>3, DestroyEnds
<1> QED BY <1>4, <1>5

\* The timeouts of OpenSSL.
Timeouts == {"none", "short", "long"}

\* SetTimeout sets a timer or ends the transport.
LEMMA SetTimeoutOk ==
    ASSUME NEW s, Live(s), NEW ms \in Timeouts
    PROVE  /\ Live(Tp!SetTimeout(s, ms)) \/ Ended(Tp!SetTimeout(s, ms))
           /\ ms = "short" => Tp!SetTimeout(s, ms) = [s EXCEPT !.timer = TRUE]
<1>0. s \in States
  BY DEF Live, Sound
<1>1. CASE ms = "none"
  <2>1. Tp!SetTimeout(s, ms) = s
    BY <1>1, Zenon DEF Tp!SetTimeout
  <2> QED BY <1>1, <2>1
<1>2. CASE ms = "short"
  <2>1. Tp!SetTimeout(s, ms) = [s EXCEPT !.timer = TRUE]
    BY <1>2, Zenon DEF Tp!SetTimeout
  <2>2. Live([s EXCEPT !.timer = TRUE])
    BY <1>0, TimerQuiet, QuietLive
  <2> QED BY <2>1, <2>2
<1>3. CASE ms = "long"
  <2>1. Tp!SetTimeout(s, ms) = Tp!Fail(s)
    BY <1>3, Zenon DEF Tp!SetTimeout
  <2> QED BY <1>0, <1>3, <2>1, FailEnds
<1> QED BY <1>1, <1>2, <1>3 DEF Timeouts

----------------------------------------------------------------------------
(* Handshakes and keys.                                                     *)

\* A step of the keys alone.
SameCourse(s, t) ==
    /\ t \in States
    /\ t.life = s.life /\ t.tuples = s.tuples /\ t.selected = s.selected /\ t.tsel = s.tsel
    /\ t.ice = s.ice /\ t.local = s.local /\ t.given = s.given /\ t.role = s.role
    /\ t.runs = s.runs
    /\ t.dtls = "new" <=> s.dtls = "new"

\* A change of the keys alone needs only the keys rechecked.
LEMMA CourseSound ==
    ASSUME NEW s, NEW t, Sound(s), SameCourse(s, t), KeysGood(t)
    PROVE  Sound(t)
BY DEF Sound, SameCourse, IceOf, RolesGood

\* A change that leaves the course of the handshake keeps a transport live.
LEMMA CourseLive ==
    ASSUME NEW s, NEW t, Live(s), SameCourse(s, t), Sound(t)
    PROVE  Live(t)
BY DEF Live, SameCourse, NotEarly, InTime

\* OnDtlsConnected: the sessions get the keys of this run, or none.
LEMMA ExtractSrtpKeysOk ==
    ASSUME NEW s, Sound(s), s.done, s.fp = "match", NEW send \in BOOLEAN, NEW recv \in BOOLEAN
    PROVE  /\ SameCourse(s, Tp!ExtractSrtpKeys(s, send, recv))
           /\ KeysGood(Tp!ExtractSrtpKeys(s, send, recv))
<1> DEFINE c == [s EXCEPT !.dtls = "connected"]
           a == Tp!NewSrtpSession(c, send)
           b == Tp!NewSrtpSession(c, recv)
           n == [c EXCEPT !.send = a, !.recv = b]
           m == [n EXCEPT !.send = 0]
           t == Tp!ExtractSrtpKeys(s, send, recv)
<1>0. s \in States /\ s.ssl.run = s.runs /\ s.dtls # "new" /\ (~s.given => s.fp = "none")
  BY DEF Sound, KeysGood
<1>1. c \in States
  BY <1>0 DEF States
<1>2. /\ SameCourse(s, c) /\ c.dtls = "connected" /\ c.done = s.done /\ c.fp = s.fp
      /\ c.ssl = s.ssl
  <2>1. /\ c.dtls = "connected" /\ c.done = s.done /\ c.fp = s.fp /\ c.ssl = s.ssl
        /\ c.life = s.life /\ c.tuples = s.tuples /\ c.selected = s.selected
        /\ c.tsel = s.tsel /\ c.ice = s.ice /\ c.local = s.local /\ c.given = s.given
        /\ c.role = s.role /\ c.runs = s.runs
    BY <1>0 DEF States
  <2> HIDE DEF c
  <2> QED BY <1>0, <1>1, <2>1 DEF SameCourse
<1>3. t = IF recv THEN n ELSE IF send THEN m ELSE Tp!Fault(n, "no sending session to destroy")
  BY DEF Tp!ExtractSrtpKeys, Tp!OnDtlsConnected
<1> HIDE DEF c, t
<1>4. a \in {0, s.runs} /\ b \in {0, s.runs} /\ a \in 0..2 /\ b \in 0..2 /\ (~send => a = 0) /\ (~recv => b = 0)
  BY <1>0, <1>2 DEF Tp!NewSrtpSession, States
<1> HIDE DEF a, b
<1>5. n \in States
  BY <1>1, <1>4 DEF States
<1>6. /\ SameCourse(c, n) /\ n.dtls = c.dtls /\ n.done = c.done /\ n.fp = c.fp /\ n.ssl = c.ssl
      /\ n.send = a /\ n.recv = b
  BY <1>1, <1>5 DEF States, SameCourse
<1> HIDE DEF n
<1>7. m \in States
  BY <1>5 DEF States
<1>8. /\ SameCourse(n, m) /\ m.dtls = n.dtls /\ m.done = n.done /\ m.fp = n.fp /\ m.ssl = n.ssl
      /\ m.send = 0 /\ m.recv = n.recv
  BY <1>5, <1>7 DEF States, SameCourse
<1> HIDE DEF m
<1>9. Quiet(n, Tp!Fault(n, "no sending session to destroy"))
  BY <1>5, FaultQuiet DEF Faults
<1>10. /\ SameCourse(s, t) /\ t.dtls = "connected" /\ t.done = s.done /\ t.fp = s.fp
       /\ t.ssl = s.ssl /\ t.send \in {0, s.runs} /\ t.recv \in {0, s.runs}
  <2>1. CASE recv
    BY <1>2, <1>3, <1>4, <1>6, <2>1, ZenonT(60) DEF SameCourse
  <2>2. CASE ~recv /\ send
    BY <1>2, <1>3, <1>4, <1>6, <1>8, <2>2, ZenonT(60) DEF SameCourse
  <2>3. CASE ~recv /\ ~send
    BY <1>2, <1>3, <1>4, <1>6, <1>9, <2>3, ZenonT(60) DEF SameCourse, Quiet
  <2> QED BY <2>1, <2>2, <2>3
<1>11. KeysGood(t)
  BY <1>0, <1>10 DEF KeysGood, SameCourse
<1> QED BY <1>10, <1>11 DEF t

\* ProcessHandshake waits for the fingerprint, fails, or makes the sessions.
LEMMA ProcessHandshakeOk ==
    ASSUME NEW s, Sound(s), s.done, NEW send \in BOOLEAN, NEW recv \in BOOLEAN
    PROVE  \/ Ended(Tp!ProcessHandshake(s, send, recv))
           \/ /\ SameCourse(s, Tp!ProcessHandshake(s, send, recv))
              /\ Sound(Tp!ProcessHandshake(s, send, recv))
<1>0. s \in States
  BY DEF Sound
<1>1. CASE s.fp = "none"
  <2>1. Tp!ProcessHandshake(s, send, recv) = s
    BY <1>1 DEF Tp!ProcessHandshake
  <2>2. SameCourse(s, s)
    BY <1>0 DEF SameCourse
  <2> QED BY <2>1, <2>2
<1>2. CASE s.fp # "none" /\ (~Tp!CheckRemoteFingerprint(s) \/ ~Tp!GetNegotiatedSrtpProfile(s))
  <2>1. Tp!ProcessHandshake(s, send, recv) = Tp!Fail(s)
    BY <1>2 DEF Tp!ProcessHandshake
  <2> QED BY <1>0, <2>1, FailEnds
<1>3. CASE s.fp # "none" /\ Tp!CheckRemoteFingerprint(s) /\ Tp!GetNegotiatedSrtpProfile(s)
  <2> DEFINE t == Tp!ExtractSrtpKeys(s, send, recv)
  <2>1. Tp!ProcessHandshake(s, send, recv) = t
    BY <1>3 DEF Tp!ProcessHandshake
  <2>2. s.fp = "match"
    BY <1>3 DEF Tp!CheckRemoteFingerprint
  <2>3. SameCourse(s, t) /\ KeysGood(t)
    BY <2>2, ExtractSrtpKeysOk
  <2> HIDE DEF t
  <2>4. Sound(t)
    BY <2>3, CourseSound
  <2> QED BY <2>1, <2>3, <2>4
<1> QED BY <1>1, <1>2, <1>3

\* CheckStatus: what was read leaves a transport that is live or has ended, and
\* a closed one is not gone on with.
LEMMA CheckStatusOk ==
    ASSUME NEW s, Live(s), Tp!IsRunning(s), NEW read \in Tp!Reads
    PROVE  Live(Tp!CheckStatus(s, read).s) \/ Ended(Tp!CheckStatus(s, read).s)
<1>0. s \in States /\ Sound(s)
  BY DEF Live, Sound
<1>1. CASE read.event = "none"
  <2>1. Tp!CheckStatus(s, read) = [s |-> s, ok |-> TRUE]
    BY <1>1, Zenon DEF Tp!CheckStatus
  <2>2. Tp!CheckStatus(s, read).s = s
    BY <2>1
  <2> QED BY <2>2
<1>2. CASE read.event = "handshake"
  <2> DEFINE i == [s EXCEPT !.ssl = [run |-> s.runs, cert |-> read.cert, profile |-> read.profile]]
             d == [i EXCEPT !.done = TRUE, !.timer = FALSE]
             p == Tp!ProcessHandshake(d, read.send, read.recv)
  <2>1. /\ read.cert \in BOOLEAN /\ read.profile \in BOOLEAN
        /\ read.send \in BOOLEAN /\ read.recv \in BOOLEAN
    BY <1>2 DEF Tp!Reads
  <2>2. i \in States
    BY <1>0, <2>1 DEF States
  <2>3. i.ssl.run = s.runs /\ SameCourse(s, i) /\ i.dtls = s.dtls /\ i.fp = s.fp
        /\ i.send = s.send /\ i.recv = s.recv
    BY <1>0, <2>2 DEF States, SameCourse
  <2>4. Tp!CheckStatus(s, read) = [s |-> IF s.done THEN d ELSE p, ok |-> TRUE]
    BY <1>2, Zenon DEF Tp!CheckStatus, Tp!OnSslInfo
  <2> HIDE DEF i
  <2>5. d \in States
    BY <2>2 DEF States
  <2>6. d.ssl = i.ssl /\ SameCourse(i, d) /\ d.dtls = i.dtls /\ d.fp = i.fp /\ d.done
        /\ d.send = i.send /\ d.recv = i.recv
    BY <2>2, <2>5 DEF States, SameCourse
  <2> HIDE DEF d
  <2>7. SameCourse(s, d)
    BY <2>3, <2>6 DEF SameCourse
  <2>8. KeysGood(d)
    BY <1>0, <2>3, <2>6, <2>7 DEF Sound, KeysGood, SameCourse, Tp!IsRunning
  <2>9. Sound(d) /\ Live(d)
    BY <1>0, <2>7, <2>8, CourseSound, CourseLive
  <2>10. Ended(p) \/ (SameCourse(d, p) /\ Sound(p))
    BY <2>1, <2>6, <2>9, ProcessHandshakeOk
  <2> HIDE DEF p
  <2>11. Ended(p) \/ Live(p)
    BY <2>9, <2>10, CourseLive
  <2>12. Tp!CheckStatus(s, read).s = IF s.done THEN d ELSE p
    BY <2>4
  <2> QED BY <2>9, <2>11, <2>12
<1>3. CASE read.event = "closed"
  <2> DEFINE r == Tp!Reset(s)
             z == [r EXCEPT !.dtls = "closed"]
  <2>1. Tp!CheckStatus(s, read) =
          [s |-> IF s.dtls = "connected" THEN Tp!OnDtlsClosed(z) ELSE Tp!Fail(s), ok |-> FALSE]
    BY <1>3, Zenon DEF Tp!CheckStatus
  <2>2. Tp!CheckStatus(s, read).s = IF s.dtls = "connected" THEN Tp!OnDtlsClosed(z) ELSE Tp!Fail(s)
    BY <2>1
  <2>3. r \in States
    BY <1>0, ResetState
  <2> HIDE DEF r
  <2>4. z \in States
    BY <2>3, SMTT(60) DEF States
  <2>5. z.dtls = "closed"
    BY <2>3 DEF States
  <2> HIDE DEF z
  <2>6. Ended(Tp!OnDtlsClosed(z))
    BY <2>4, <2>5, DestroyEnds DEF Tp!OnDtlsClosed
  <2>7. Ended(Tp!Fail(s))
    BY <1>0, FailEnds
  <2> QED BY <2>2, <2>6, <2>7
<1> QED BY <1>1, <1>2, <1>3 DEF Tp!Reads

\* ProcessDtlsData goes on after a failed handshake, but stays within the states.
LEMMA ProcessDtlsDataOk ==
    ASSUME NEW s, Live(s), NEW read \in Tp!Reads, NEW ms \in Timeouts
    PROVE  Live(Tp!ProcessDtlsData(s, read, ms)) \/ Ended(Tp!ProcessDtlsData(s, read, ms))
<1> DEFINE q == Tp!SendPendingOutgoingDtlsData(s)
           c == Tp!CheckStatus(q, read)
           t == Tp!ProcessDtlsData(s, read, ms)
<1>1. CASE ~Tp!IsRunning(s)
  BY <1>1 DEF Tp!ProcessDtlsData
<1>2. CASE Tp!IsRunning(s)
  <2>1. Quiet(s, q)
    BY DtlsDataQuiet DEF Live, Sound
  <2>2. t = IF ~c.ok THEN c.s
            ELSE IF c.s.life = "freed" THEN Tp!Fault(c.s, "timeout of a freed DtlsTransport")
            ELSE Tp!SetTimeout(c.s, ms)
    BY <1>2 DEF Tp!ProcessDtlsData
  <2> HIDE DEF q, t
  <2>3. Live(q) /\ Tp!IsRunning(q)
    BY <1>2, <2>1, QuietLive DEF Quiet, Tp!IsRunning
  <2>4. Live(c.s) \/ Ended(c.s)
    BY <2>3, CheckStatusOk
  <2> HIDE DEF c
  <2>5. CASE Live(c.s)
    <3>1. c.s.life # "freed"
      BY <2>5 DEF Live, Sound
    <3>2. Live(Tp!SetTimeout(c.s, ms)) \/ Ended(Tp!SetTimeout(c.s, ms))
      BY <2>5, SetTimeoutOk
    <3>3. Live(t) \/ Ended(t)
      BY <2>2, <2>5, <3>1, <3>2
    <3> QED BY <3>3 DEF t
  <2>6. CASE Ended(c.s)
    <3>1. c.s.life = "freed" /\ c.s \in States
      BY <2>6 DEF Ended
    <3> DEFINE f == Tp!Fault(c.s, "timeout of a freed DtlsTransport")
    <3>2. Quiet(c.s, f)
      BY <3>1, FaultQuiet DEF Faults
    <3> HIDE DEF f
    <3>3. Ended(f)
      BY <2>6, <3>2 DEF Quiet, Ended
    <3>4. Ended(t)
      BY <2>2, <2>6, <3>1, <3>3 DEF f
    <3> QED BY <3>4 DEF t
  <2> QED BY <2>4, <2>5, <2>6
<1> QED BY <1>1, <1>2

----------------------------------------------------------------------------
(* Running DTLS.                                                            *)

\* A step that leaves ICE alone.
IceStays(s, t) ==
    /\ t.life = s.life /\ t.tuples = s.tuples /\ t.selected = s.selected /\ t.tsel = s.tsel
    /\ t.ice = s.ice

\* DtlsTransport::Run in the local role, which it did not run in.
LEMMA RunOk ==
    ASSUME NEW s, Sound(s), s.local # "auto", s.role # s.local
    PROVE  /\ Sound(Tp!Run(s, s.local)) /\ IceStays(s, Tp!Run(s, s.local))
           /\ Tp!Run(s, s.local).role = s.local /\ Tp!Run(s, s.local).local = s.local
<1> DEFINE z == Tp!Reset(s)
           r == [z EXCEPT !.role = s.local, !.dtls = "connecting", !.runs = @ + 1]
           q == Tp!SendPendingOutgoingDtlsData(r)
           t == Tp!Run(s, s.local)
<1>0. s \in States /\ s.local \in {"client", "server"}
  BY DEF Sound, States
<1>1. z \in States
  BY <1>0, ResetState
<1>2. /\ IceStays(s, z) /\ z.local = s.local /\ z.given = s.given /\ z.fp = s.fp
      /\ z.runs = s.runs /\ z.ssl = s.ssl /\ z.send = s.send /\ z.recv = s.recv /\ ~z.done
  <2>1. CASE ~Tp!IsRunning(s)
    BY <2>1 DEF Tp!Reset, IceStays, Tp!IsRunning, Sound, KeysGood
  <2>2. CASE Tp!IsRunning(s)
    BY <1>0, <2>2 DEF Tp!Reset, IceStays, States
  <2> QED BY <2>1, <2>2
<1>3. s.runs \in {0, 1} /\ (s.runs = 1 => s.given)
  <2>1. s.runs \in {0, 1, 2}
    BY <1>0 DEF States
  <2>2. s.runs # 2
    BY DEF Sound, RolesGood
  <2>3. s.runs = 1 => s.role \in {"client", "server"}
    BY <1>0 DEF Sound, RolesGood, States
  <2>4. s.role \in {"client", "server"} => s.given
    BY <1>0 DEF Sound, RolesGood
  <2> QED BY <2>1, <2>2, <2>3, <2>4
<1> HIDE DEF z
<1>4. r \in States
  <2>1. z.runs + 1 \in 0..2
    BY <1>2, <1>3
  <2>2. ASSUME NEW n \in 0..2, NEW l \in {"none", "client", "server"}
        PROVE  [z EXCEPT !.role = l, !.dtls = "connecting", !.runs = n] \in States
    BY <1>1, ZenonT(60) DEF States
  <2> QED BY <1>0, <2>1, <2>2
<1>5. /\ IceStays(z, r) /\ r.local = z.local /\ r.given = z.given /\ r.fp = z.fp
      /\ r.ssl = z.ssl /\ r.send = z.send /\ r.recv = z.recv /\ r.done = z.done
      /\ r.role = s.local /\ r.dtls = "connecting" /\ r.runs = z.runs + 1
  BY <1>1 DEF States, IceStays
<1>6. t = IF s.local = "client" THEN Tp!SetTimeout(q, "short") ELSE r
  BY DEF Tp!Run, z
<1> HIDE DEF r, t
<1>7. IceStays(s, r)
  BY <1>2, <1>5 DEF IceStays
<1>8. IceOf(r) /\ r.life = "open"
  BY <1>7 DEF IceStays, Sound, IceOf
<1>9. RolesGood(r)
  BY <1>0, <1>2, <1>3, <1>5 DEF Sound, RolesGood
<1>10. KeysGood(r)
  BY <1>2, <1>5 DEF Sound, KeysGood
<1>11. Sound(r)
  BY <1>4, <1>8, <1>9, <1>10 DEF Sound
<1>12. Quiet(r, q)
  BY <1>4, DtlsDataQuiet
<1> HIDE DEF q
<1>13. Tp!SetTimeout(q, "short") = [q EXCEPT !.timer = TRUE]
  BY Zenon DEF Tp!SetTimeout
<1>14. Quiet(q, [q EXCEPT !.timer = TRUE])
  BY <1>12, TimerQuiet DEF Quiet
<1>15. Quiet(r, t)
  <2>1. CASE s.local = "client"
    <3>1. t = [q EXCEPT !.timer = TRUE]
      BY <1>6, <1>13, <2>1
    <3>2. Quiet(q, t)
      BY <1>14, <3>1
    <3> QED BY <1>12, <3>2 DEF Quiet
  <2>2. CASE s.local # "client"
    BY <1>4, <1>6, <2>2 DEF Quiet
  <2> QED BY <2>1, <2>2
<1>16. Sound(t)
  BY <1>11, <1>15, QuietSound
<1>17. IceStays(s, t) /\ t.role = s.local /\ t.local = s.local
  BY <1>2, <1>5, <1>7, <1>15 DEF Quiet, IceStays
<1> QED BY <1>16, <1>17 DEF t

\* MayRunDtlsTransport, after any change of ICE or of the parameters: DTLS runs
\* in the local role if it may.
LEMMA MayRunOk ==
    ASSUME NEW s, Sound(s), NotEarly(s)
    PROVE  Live(Tp!MayRunDtlsTransport(s))
<1> DEFINE t == Tp!MayRunDtlsTransport(s)
           connected == s.ice \in {"connected", "completed"}
           a == [s EXCEPT !.local = "server"]
<1>0. s \in States /\ s.local \in {"auto", "client", "server"} /\ s.ice \in {"new", "connected", "completed"}
  BY DEF Sound, States, IceOf, IceGood
<1>1. CASE s.role = s.local
  <2>1. t = s
    BY <1>1, Zenon DEF Tp!MayRunDtlsTransport
  <2> QED BY <1>1, <2>1 DEF Live, InTime
<1>2. CASE s.role # s.local /\ s.local = "auto"
  <2>1. t = IF connected THEN Tp!Run(a, "server") ELSE s
    BY <1>2, Zenon DEF Tp!MayRunDtlsTransport
  <2>2. CASE ~connected
    BY <1>0, <2>1, <2>2 DEF Live, InTime
  <2>3. CASE connected
    <3>1. a \in States
      BY <1>0 DEF States
    <3>2. /\ IceStays(s, a) /\ a.local = "server" /\ a.given = s.given /\ a.fp = s.fp
          /\ a.role = s.role /\ a.dtls = s.dtls /\ a.done = s.done
          /\ a.runs = s.runs /\ a.ssl = s.ssl /\ a.send = s.send /\ a.recv = s.recv
      BY <1>0 DEF States, IceStays
    <3> HIDE DEF a
    <3>3. s.role = "none" /\ s.runs # 2
      BY <1>2 DEF Sound, RolesGood
    <3>4. Sound(a)
      BY <3>1, <3>2, <3>3 DEF Sound, IceStays, IceOf, RolesGood, KeysGood
    <3>5. Sound(Tp!Run(a, a.local)) /\ IceStays(a, Tp!Run(a, a.local)) /\ Tp!Run(a, a.local).role = a.local
          /\ Tp!Run(a, a.local).local = a.local
      BY <3>2, <3>3, <3>4, RunOk
    <3>6. t = Tp!Run(a, a.local)
      BY <2>1, <2>3, <3>2
    <3> HIDE DEF t
    <3>7. Sound(t) /\ t.ice = s.ice /\ t.role = t.local
      BY <3>2, <3>5, <3>6 DEF IceStays
    <3>8. Live(t)
      BY <2>3, <3>7 DEF Live, NotEarly, InTime
    <3> QED BY <3>8 DEF t
  <2> QED BY <2>2, <2>3
<1>3. CASE s.role # s.local /\ s.local # "auto"
  <2> DEFINE r == Tp!Run(s, s.local)
  <2>1. t = IF s.local = "client" THEN (IF s.ice = "completed" THEN r ELSE s)
            ELSE IF connected THEN r ELSE s
    <3>1. CASE s.local = "client"
      BY <1>3, <3>1, Zenon DEF Tp!MayRunDtlsTransport
    <3>2. CASE s.local = "server"
      BY <1>3, <3>2, Zenon DEF Tp!MayRunDtlsTransport
    <3> QED BY <1>0, <1>3, <3>1, <3>2
  <2>2. Sound(r) /\ IceStays(s, r) /\ r.role = s.local /\ r.local = s.local
    BY <1>3, RunOk
  <2> HIDE DEF r, t
  <2>3. CASE t = s
    <3>1. s.ice = "new" \/ (s.local = "client" /\ s.ice = "connected") \/ t = r
      BY <1>0, <2>1
    <3>2. CASE t = r
      BY <1>3, <2>2, <2>3, <3>2
    <3>3. CASE t # r
      <4>1. Live(s)
        BY <3>1, <3>3 DEF Live, InTime
      <4> QED BY <2>3, <4>1 DEF t
    <3> QED BY <3>2, <3>3
  <2>4. CASE t # s
    <3>1. t = r /\ s.ice # "new"
      BY <1>0, <2>1, <2>4
    <3>2. Live(r)
      BY <2>2, <3>1 DEF Live, NotEarly, InTime, IceStays
    <3> QED BY <3>1, <3>2 DEF t
  <2> QED BY <2>3, <2>4
<1> QED BY <1>1, <1>2, <1>3

----------------------------------------------------------------------------
(* The list of tuples.                                                      *)

\* A set of positions that is not empty has a first one.
LEMMA MinIn ==
    ASSUME NEW S \in SUBSET Nat, S # {}
    PROVE  Tp!Min(S) \in S
<1>1. IsWellFoundedOn(OpToRel(<, Nat), Nat)
  BY NatLessThanWellFounded, Zenon
<1>2. \E x \in S : \A y \in S : ~(<<y, x>> \in OpToRel(<, Nat))
  BY <1>1, WFMin, Zenon
<1>3. \A x, y \in Nat : ~(<<y, x>> \in OpToRel(<, Nat)) => x <= y
  BY SMT DEF OpToRel
<1>4. \E x \in S : \A y \in S : x <= y
  BY <1>2, <1>3, Zenon
<1> QED BY <1>4 DEF Tp!Min

\* A tuple is put at the head of the list.
LEMMA ConsTuple ==
    ASSUME NEW q \in Seq(Tp!Tuples), NEW x \in Tp!Tuples
    PROVE  /\ <<x>> \o q \in Seq(Tp!Tuples) /\ <<x>> \o q # << >>
           /\ \A y : Tp!Contains(<<x>> \o q, y) <=> y = x \/ Tp!Contains(q, y)
           /\ NoRepeats(q) /\ ~Tp!Contains(q, x) => NoRepeats(<<x>> \o q)
<1> DEFINE r == <<x>> \o q
<1>1. /\ r \in Seq(Tp!Tuples) /\ Len(r) = Len(q) + 1 /\ r[1] = x
      /\ \A i \in 1..Len(q) : r[i + 1] = q[i]
  OBVIOUS
<1> HIDE DEF r
<1>2. Len(q) \in Nat /\ r # << >>
  BY <1>1
<1>3. \A i \in 1..Len(r) : i = 1 \/ (i - 1 \in 1..Len(q) /\ r[i] = q[i - 1])
  <2> SUFFICES ASSUME NEW i \in 1..Len(r), i # 1
               PROVE  i - 1 \in 1..Len(q) /\ r[i] = q[i - 1]
    OBVIOUS
  <2>1. i - 1 \in 1..Len(q) /\ (i - 1) + 1 = i
    BY <1>1, <1>2
  <2> QED BY <1>1, <2>1
<1>4. ASSUME NEW y PROVE Tp!Contains(r, y) <=> y = x \/ Tp!Contains(q, y)
  <2>1. ASSUME Tp!Contains(r, y) PROVE y = x \/ Tp!Contains(q, y)
    BY <1>1, <1>3, <2>1 DEF Tp!Contains
  <2>2. ASSUME y = x PROVE Tp!Contains(r, y)
    BY <1>1, <1>2, <2>2 DEF Tp!Contains
  <2>3. ASSUME Tp!Contains(q, y) PROVE Tp!Contains(r, y)
    <3>1. PICK i \in 1..Len(q) : q[i] = y
      BY <2>3 DEF Tp!Contains
    <3>2. i + 1 \in 1..Len(r) /\ r[i + 1] = y
      BY <1>1, <1>2, <3>1
    <3> QED BY <3>2 DEF Tp!Contains
  <2> QED BY <2>1, <2>2, <2>3
<1>5. ASSUME NoRepeats(q), ~Tp!Contains(q, x) PROVE NoRepeats(r)
  <2> SUFFICES ASSUME NEW i \in 1..Len(r), NEW j \in 1..Len(r), r[i] = r[j] PROVE i = j
    BY DEF NoRepeats
  <2>1. CASE i = 1 /\ j = 1
    BY <2>1
  <2>2. CASE i = 1 /\ j # 1
    BY <1>1, <1>3, <1>5, <2>2 DEF Tp!Contains
  <2>3. CASE i # 1 /\ j = 1
    BY <1>1, <1>3, <1>5, <2>3 DEF Tp!Contains
  <2>4. CASE i # 1 /\ j # 1
    <3>1. i - 1 = j - 1
      BY <1>3, <1>5, <2>4 DEF NoRepeats
    <3> QED BY <1>2, <3>1
  <2> QED BY <2>1, <2>2, <2>3, <2>4
<1>6. /\ r \in Seq(Tp!Tuples) /\ r # << >>
      /\ \A y : Tp!Contains(r, y) <=> y = x \/ Tp!Contains(q, y)
      /\ NoRepeats(q) /\ ~Tp!Contains(q, x) => NoRepeats(r)
  BY <1>1, <1>2, <1>4, <1>5
<1> QED BY <1>6 DEF r

\* A tuple that is in the list once is taken out of it.
LEMMA RemoveFromList ==
    ASSUME NEW q \in Seq(Tp!Tuples), NEW x, Tp!Contains(q, x), NoRepeats(q)
    PROVE  /\ Tp!RemoveFirst(q, x) \in Seq(Tp!Tuples) /\ NoRepeats(Tp!RemoveFirst(q, x))
           /\ \A y : Tp!Contains(Tp!RemoveFirst(q, x), y) <=> y # x /\ Tp!Contains(q, y)
<1> DEFINE I == {i \in 1..Len(q) : q[i] = x}
           m == Tp!Min(I)
           r == Tp!RemoveFirst(q, x)
<1>0. Len(q) \in Nat
  OBVIOUS
<1>1. m \in 1..Len(q) /\ q[m] = x
  <2>1. I \in SUBSET Nat /\ I # {}
    BY DEF Tp!Contains
  <2>2. Tp!Min(I) \in I
    BY <2>1, MinIn
  <2> QED BY <2>2
<1>2. r = SubSeq(q, 1, m - 1) \o SubSeq(q, m + 1, Len(q))
  <2>1. I # {}
    BY DEF Tp!Contains
  <2> QED BY <2>1 DEF Tp!RemoveFirst, Tp!RemoveAt, Tp!SelectInSeq, Tp!Contains
<1> HIDE DEF m, r, I
<1>3. /\ r \in Seq(Tp!Tuples) /\ Len(r) = Len(q) - 1
      /\ \A i \in 1..Len(r) : r[i] = IF i < m THEN q[i] ELSE q[i + 1]
  <2> DEFINE a == SubSeq(q, 1, m - 1)
             b == SubSeq(q, m + 1, Len(q))
  <2>1. a \in Seq(Tp!Tuples) /\ Len(a) = m - 1 /\ \A i \in 1..(m - 1) : a[i] = q[i]
    BY <1>0, <1>1
  <2>2. b \in Seq(Tp!Tuples) /\ Len(b) = Len(q) - m /\ \A i \in 1..(Len(q) - m) : b[i] = q[m + i]
    BY <1>0, <1>1
  <2> HIDE DEF a, b
  <2>3. r \in Seq(Tp!Tuples) /\ Len(r) = Len(a) + Len(b)
    BY <1>2, <2>1, <2>2 DEF a, b
  <2>4. \A i \in 1..Len(r) : r[i] = IF i <= Len(a) THEN a[i] ELSE b[i - Len(a)]
    <3>1. r = a \o b
      BY <1>2 DEF a, b
    <3>2. \A i \in 1..(Len(a) + Len(b)) : (a \o b)[i] = IF i <= Len(a) THEN a[i] ELSE b[i - Len(a)]
      <4> DEFINE X == Tp!Tuples
      <4> HIDE DEF X
      <4>1. a \in Seq(X) /\ b \in Seq(X)
        BY <2>1, <2>2 DEF X
      <4> QED BY <4>1
    <3> QED BY <2>3, <3>1, <3>2
  <2>5. ASSUME NEW i \in 1..Len(r) PROVE r[i] = IF i < m THEN q[i] ELSE q[i + 1]
    <3>1. CASE i < m
      BY <1>0, <1>1, <2>1, <2>4, <3>1
    <3>2. CASE ~(i < m)
      <4>1. i - (m - 1) \in 1..(Len(q) - m) /\ m + (i - (m - 1)) = i + 1
        BY <1>0, <1>1, <2>1, <2>2, <2>3, <3>2
      <4>2. r[i] = b[i - (m - 1)]
        BY <1>0, <1>1, <2>1, <2>4, <3>2
      <4> QED BY <2>2, <3>2, <4>1, <4>2
    <3> QED BY <3>1, <3>2
  <2> QED BY <1>0, <1>1, <2>1, <2>2, <2>3, <2>5
<1>4. \A i \in 1..Len(r) : \E k \in 1..Len(q) : k = (IF i < m THEN i ELSE i + 1) /\ k # m /\ r[i] = q[k]
  <2> SUFFICES ASSUME NEW i \in 1..Len(r)
               PROVE  \E k \in 1..Len(q) : /\ k = (IF i < m THEN i ELSE i + 1)
                                           /\ k # m /\ r[i] = q[k]
    OBVIOUS
  <2>1. CASE i < m
    <3>1. i \in 1..Len(q) /\ i # m /\ r[i] = q[i]
      BY <1>0, <1>1, <1>3, <2>1
    <3> QED BY <2>1, <3>1
  <2>2. CASE ~(i < m)
    <3>1. i + 1 \in 1..Len(q) /\ i + 1 # m /\ r[i] = q[i + 1]
      BY <1>0, <1>1, <1>3, <2>2
    <3> QED BY <2>2, <3>1
  <2> QED BY <2>1, <2>2
<1>5. \A k \in 1..Len(q) : k # m => \E i \in 1..Len(r) : r[i] = q[k]
  <2> SUFFICES ASSUME NEW k \in 1..Len(q), k # m PROVE \E i \in 1..Len(r) : r[i] = q[k]
    OBVIOUS
  <2>1. CASE k < m
    <3>1. k \in 1..Len(r) /\ r[k] = q[k]
      BY <1>0, <1>1, <1>3, <2>1
    <3> QED BY <3>1
  <2>2. CASE k > m
    <3>1. k - 1 \in 1..Len(r) /\ ~(k - 1 < m) /\ (k - 1) + 1 = k
      BY <1>0, <1>1, <1>3, <2>2
    <3>2. r[k - 1] = q[k]
      BY <1>3, <3>1
    <3> QED BY <3>1, <3>2
  <2> QED BY <1>1, <2>1, <2>2
<1>6. NoRepeats(r)
  <2> SUFFICES ASSUME NEW i \in 1..Len(r), NEW j \in 1..Len(r), r[i] = r[j] PROVE i = j
    BY DEF NoRepeats
  <2>1. PICK k \in 1..Len(q) : k = (IF i < m THEN i ELSE i + 1) /\ r[i] = q[k]
    BY <1>4
  <2>2. PICK l \in 1..Len(q) : l = (IF j < m THEN j ELSE j + 1) /\ r[j] = q[l]
    BY <1>4
  <2>3. k = l
    BY <2>1, <2>2 DEF NoRepeats
  <2> QED BY <1>0, <1>1, <1>3, <2>1, <2>2, <2>3
<1>7. ASSUME NEW y PROVE Tp!Contains(r, y) <=> y # x /\ Tp!Contains(q, y)
  <2>1. ASSUME Tp!Contains(r, y) PROVE y # x /\ Tp!Contains(q, y)
    <3>1. PICK i \in 1..Len(r) : r[i] = y
      BY <2>1 DEF Tp!Contains
    <3>2. PICK k \in 1..Len(q) : k # m /\ r[i] = q[k]
      BY <1>4
    <3> QED BY <1>1, <3>1, <3>2 DEF Tp!Contains, NoRepeats
  <2>2. ASSUME y # x, Tp!Contains(q, y) PROVE Tp!Contains(r, y)
    <3>1. PICK k \in 1..Len(q) : q[k] = y
      BY <2>2 DEF Tp!Contains
    <3>2. k # m
      BY <1>1, <2>2, <3>1
    <3> QED BY <1>5, <3>1, <3>2 DEF Tp!Contains
  <2> QED BY <2>1, <2>2
<1> QED BY <1>3, <1>6, <1>7 DEF r

----------------------------------------------------------------------------
(* ICE.                                                                     *)

\* A step that leaves DTLS and the keys alone.
DtlsStays(s, t) ==
    /\ t \in States
    /\ t.life = s.life /\ t.local = s.local /\ t.given = s.given /\ t.role = s.role
    /\ t.dtls = s.dtls /\ t.done = s.done /\ t.fp = s.fp /\ t.runs = s.runs /\ t.ssl = s.ssl
    /\ t.send = s.send /\ t.recv = s.recv

\* A change of the ICE state alone needs only the ICE state rechecked.
LEMMA IceSound ==
    ASSUME NEW s, NEW t, Sound(s), DtlsStays(s, t), IceOf(t)
    PROVE  Sound(t)
BY DEF Sound, DtlsStays, RolesGood, KeysGood

\* A change of the tuples that leaves the ICE state keeps a transport live.
LEMMA IceLive ==
    ASSUME NEW s, NEW t, Live(s), DtlsStays(s, t), IceOf(t), t.ice = s.ice
    PROVE  Live(t)
<1>1. Sound(t)
  BY IceSound DEF Live
<1> QED BY <1>1 DEF Live, DtlsStays, NotEarly, InTime

\* The list of tuples changes, and nothing else.
LEMMA TuplesSet ==
    ASSUME NEW s \in States, NEW q \in Seq(Tp!Tuples)
    PROVE  /\ DtlsStays(s, [s EXCEPT !.tuples = q]) /\ [s EXCEPT !.tuples = q].tuples = q
           /\ [s EXCEPT !.tuples = q].selected = s.selected
           /\ [s EXCEPT !.tuples = q].tsel = s.tsel
           /\ [s EXCEPT !.tuples = q].ice = s.ice
<1>1. [s EXCEPT !.tuples = q] \in States
  BY DEF States
<1> QED BY <1>1 DEF States, DtlsStays

\* The selected tuple of the IceServer changes, and nothing else.
LEMMA SelectedSet ==
    ASSUME NEW s \in States, NEW x \in Tp!Tuples \cup {Tp!NoTuple}
    PROVE  /\ DtlsStays(s, [s EXCEPT !.selected = x]) /\ [s EXCEPT !.selected = x].selected = x
           /\ [s EXCEPT !.selected = x].tuples = s.tuples
           /\ [s EXCEPT !.selected = x].tsel = s.tsel
           /\ [s EXCEPT !.selected = x].ice = s.ice
<1>1. [s EXCEPT !.selected = x] \in States
  BY DEF States
<1> QED BY <1>1 DEF States, DtlsStays

\* The tuple of the transport changes, and nothing else.
LEMMA TselSet ==
    ASSUME NEW s \in States, NEW x \in Tp!Tuples \cup {Tp!NoTuple}
    PROVE  /\ DtlsStays(s, [s EXCEPT !.tsel = x]) /\ [s EXCEPT !.tsel = x].tsel = x
           /\ [s EXCEPT !.tsel = x].tuples = s.tuples
           /\ [s EXCEPT !.tsel = x].selected = s.selected
           /\ [s EXCEPT !.tsel = x].ice = s.ice
<1>1. [s EXCEPT !.tsel = x] \in States
  BY DEF States
<1> QED BY <1>1 DEF States, DtlsStays

\* SetSelectedTuple tells the transport, unless the tuple is selected already.
LEMMA SetSelectedIs ==
    ASSUME NEW s \in States, NEW x \in Tp!Tuples
    PROVE  /\ DtlsStays(s, Tp!SetSelectedTuple(s, x))
           /\ Tp!SetSelectedTuple(s, x).tuples = s.tuples
           /\ Tp!SetSelectedTuple(s, x).selected = x
           /\ Tp!SetSelectedTuple(s, x).tsel = IF s.selected = x THEN s.tsel ELSE x
           /\ Tp!SetSelectedTuple(s, x).ice = s.ice
<1>1. CASE s.selected = x
  BY <1>1 DEF Tp!SetSelectedTuple, DtlsStays
<1>2. CASE s.selected # x
  <2> DEFINE a == [s EXCEPT !.selected = x]
             b == [a EXCEPT !.tsel = x]
  <2>1. Tp!SetSelectedTuple(s, x) = b
    BY <1>2 DEF Tp!SetSelectedTuple, Tp!OnIceSelectedTuple
  <2>2. /\ DtlsStays(s, a) /\ a.tuples = s.tuples /\ a.selected = x /\ a.ice = s.ice
    BY SelectedSet
  <2> HIDE DEF a
  <2>0. a \in States
    BY <2>2 DEF DtlsStays
  <2>3. /\ DtlsStays(a, b) /\ b.tuples = a.tuples /\ b.selected = a.selected /\ b.tsel = x
        /\ b.ice = a.ice
    BY <2>0, TselSet
  <2> HIDE DEF b
  <2>4. DtlsStays(s, b)
    BY <2>2, <2>3 DEF DtlsStays
  <2> QED BY <1>2, <2>1, <2>2, <2>3, <2>4
<1> QED BY <1>1, <1>2

\* AddTuple.
LEMMA AddTupleIs ==
    ASSUME NEW s \in States, NEW x \in Tp!Tuples
    PROVE  /\ DtlsStays(s, Tp!AddTuple(s, x))
           /\ Tp!AddTuple(s, x).tuples = <<x>> \o s.tuples
           /\ Tp!AddTuple(s, x).selected = s.selected
           /\ Tp!AddTuple(s, x).tsel = s.tsel
           /\ Tp!AddTuple(s, x).ice = s.ice
<1> DEFINE q == <<x>> \o s.tuples
<1>1. q \in Seq(Tp!Tuples)
  BY DEF States
<1>2. Tp!AddTuple(s, x) = [s EXCEPT !.tuples = q]
  BY DEF Tp!AddTuple
<1> HIDE DEF q
<1>3. /\ DtlsStays(s, [s EXCEPT !.tuples = q])
      /\ [s EXCEPT !.tuples = q].tuples = q
      /\ [s EXCEPT !.tuples = q].selected = s.selected
      /\ [s EXCEPT !.tuples = q].tsel = s.tsel
      /\ [s EXCEPT !.tuples = q].ice = s.ice
  BY <1>1, TuplesSet
<1> QED BY <1>2, <1>3 DEF q

\* A tuple of the list is selected, by a nomination or because data came over it.
LEMMA SelectOk ==
    ASSUME NEW s, IceOf(s), s \in States, NEW x \in Tp!Tuples, Tp!Contains(s.tuples, x),
           Tp!NoTuple \notin Tp!Tuples
    PROVE  /\ DtlsStays(s, Tp!SetSelectedTuple(s, x)) /\ IceOf(Tp!SetSelectedTuple(s, x))
           /\ Tp!SetSelectedTuple(s, x).ice = s.ice
<1> DEFINE t == Tp!SetSelectedTuple(s, x)
<1>1. /\ DtlsStays(s, t) /\ t.tuples = s.tuples /\ t.selected = x /\ t.ice = s.ice
      /\ t.tsel = IF s.selected = x THEN s.tsel ELSE x
  BY SetSelectedIs
<1> HIDE DEF t
<1>2. s.tuples # << >>
  BY DEF Tp!Contains, IceOf, IceGood
<1>3. IceGood(s.tuples, x, x, s.ice)
  BY <1>2 DEF IceOf, IceGood
<1>4. t.tsel = x
  BY <1>1 DEF IceOf, IceGood
<1>5. IceOf(t)
  BY <1>1, <1>3, <1>4 DEF IceOf
<1> QED BY <1>1, <1>5 DEF t

\* A tuple is added unless it is known.
LEMMA KnownOk ==
    ASSUME NEW s, IceOf(s), s \in States, s.ice # "new", NEW x \in Tp!Tuples,
           NEW k, k = IF Tp!HasTuple(s, x) THEN s ELSE Tp!AddTuple(s, x)
    PROVE  DtlsStays(s, k) /\ IceOf(k) /\ Tp!Contains(k.tuples, x) /\ k.ice = s.ice
<1>0. s.selected # Tp!NoTuple /\ s.tuples \in Seq(Tp!Tuples) /\ NoRepeats(s.tuples)
  BY DEF IceOf, IceGood
<1>1. CASE Tp!HasTuple(s, x)
  BY <1>1 DEF Tp!HasTuple, DtlsStays
<1>2. CASE ~Tp!HasTuple(s, x)
  <2> DEFINE q == <<x>> \o s.tuples
  <2>1. ~Tp!Contains(s.tuples, x)
    BY <1>0, <1>2 DEF Tp!HasTuple
  <2>2. /\ q \in Seq(Tp!Tuples) /\ q # << >>
        /\ \A y : Tp!Contains(q, y) <=> y = x \/ Tp!Contains(s.tuples, y)
        /\ NoRepeats(s.tuples) /\ ~Tp!Contains(s.tuples, x) => NoRepeats(q)
    BY <1>0, ConsTuple
  <2>3. /\ DtlsStays(s, k) /\ k.tuples = q /\ k.selected = s.selected /\ k.tsel = s.tsel
        /\ k.ice = s.ice
    BY <1>2, AddTupleIs
  <2> HIDE DEF q
  <2>4. IceGood(q, s.selected, s.tsel, s.ice)
    BY <1>0, <2>1, <2>2 DEF IceOf, IceGood
  <2> QED BY <2>2, <2>3, <2>4 DEF IceOf
<1> QED BY <1>1, <1>2

\* The state of ICE changes, within an event.
LEMMA IceChanges ==
    ASSUME NEW s \in States, NEW i \in {"new", "connected", "completed", "disconnected"}
    PROVE  /\ DtlsStays(s, [s EXCEPT !.ice = i])
           /\ [s EXCEPT !.ice = i].ice = i
           /\ [s EXCEPT !.ice = i].tuples = s.tuples
           /\ [s EXCEPT !.ice = i].selected = s.selected
           /\ [s EXCEPT !.ice = i].tsel = s.tsel
<1>1. [s EXCEPT !.ice = i] \in States
  BY DEF States
<1> QED BY <1>1 DEF States, DtlsStays

\* ICE gets on to i, with a selected tuple, and DTLS may run.
LEMMA AdvanceOk ==
    ASSUME NEW s, Sound(s), NEW a, DtlsStays(s, a), NEW i \in {"connected", "completed"},
           IceGood(a.tuples, a.selected, a.tsel, i)
    PROVE  Live(Tp!MayRunDtlsTransport([a EXCEPT !.ice = i]))
<1> DEFINE b == [a EXCEPT !.ice = i]
<1>0. a \in States /\ i \in {"new", "connected", "completed", "disconnected"}
  BY DEF DtlsStays
<1>1. /\ DtlsStays(a, b) /\ b.ice = i /\ b.tuples = a.tuples /\ b.selected = a.selected
      /\ b.tsel = a.tsel
  BY <1>0, IceChanges
<1> HIDE DEF b
<1>2. DtlsStays(s, b)
  BY <1>1 DEF DtlsStays
<1>3. IceOf(b)
  BY <1>1 DEF IceOf
<1>4. Sound(b) /\ NotEarly(b)
  BY <1>1, <1>2, <1>3, IceSound DEF NotEarly
<1>5. Live(Tp!MayRunDtlsTransport(b))
  BY <1>4, MayRunOk
<1> QED BY <1>5 DEF b

\* HandleTuple: a valid binding request over tuple x.
LEMMA HandleTupleOk ==
    ASSUME NEW s, Live(s), NEW x \in Tp!Tuples, NEW use \in BOOLEAN, Tp!NoTuple \notin Tp!Tuples
    PROVE  Live(Tp!HandleTuple(s, x, use))
<1> DEFINE t == Tp!HandleTuple(s, x, use)
           k == IF Tp!HasTuple(s, x) THEN s ELSE Tp!AddTuple(s, x)
<1>0. s \in States /\ Sound(s) /\ IceOf(s) /\ s.ice \in {"new", "connected", "completed"}
  BY DEF Live, Sound, IceOf, IceGood
<1>1. CASE s.ice = "new"
  <2> DEFINE d == Tp!AddTuple(s, x)
             a == Tp!SetSelectedTuple(d, x)
             i == IF use THEN "completed" ELSE "connected"
  <2>1. t = Tp!FirstTuple(s, x, use)
    BY <1>1, Zenon DEF Tp!HandleTuple
  <2>2. Tp!FirstTuple(s, x, use) = Tp!MayRunDtlsTransport([a EXCEPT !.ice = i])
    BY DEF Tp!FirstTuple, Tp!OnIceCompleted, Tp!OnIceConnected
  <2>3. s.tuples = << >> /\ s.selected = Tp!NoTuple
    BY <1>0, <1>1 DEF IceOf, IceGood
  <2>4. DtlsStays(s, d) /\ d.tuples = <<x>> \o s.tuples /\ d.selected = s.selected
    BY <1>0, AddTupleIs
  <2> HIDE DEF d
  <2>5. d \in States /\ d.selected # x
    BY <2>3, <2>4 DEF DtlsStays
  <2>6. DtlsStays(d, a) /\ a.tuples = d.tuples /\ a.selected = x /\ a.tsel = x
    BY <2>5, SetSelectedIs
  <2> HIDE DEF a
  <2>7. DtlsStays(s, a) /\ a.tuples = <<x>> /\ a.selected = x /\ a.tsel = x
    BY <2>3, <2>4, <2>6 DEF DtlsStays
  <2>8. IceGood(<<x>>, x, x, i)
    BY DEF IceGood, NoRepeats, Tp!Contains
  <2>9. IceGood(a.tuples, a.selected, a.tsel, i) /\ i \in {"connected", "completed"}
    BY <2>7, <2>8
  <2> HIDE DEF i
  <2>10. Live(Tp!MayRunDtlsTransport([a EXCEPT !.ice = i]))
    BY <1>0, <2>7, <2>9, AdvanceOk
  <2> QED BY <2>1, <2>2, <2>10
<1>2. CASE s.ice # "new"
  <2>1. DtlsStays(s, k) /\ IceOf(k) /\ Tp!Contains(k.tuples, x) /\ k.ice = s.ice
    BY <1>0, <1>2, KnownOk
  <2>2. CASE ~use
    <3>1. t = k
      BY <1>0, <1>2, <2>2, Zenon DEF Tp!HandleTuple
    <3> HIDE DEF k
    <3>2. Live(k)
      BY <2>1, IceLive
    <3> QED BY <3>1, <3>2
  <2>3. CASE use
    <3> DEFINE u == Tp!SetSelectedTuple(k, x)
    <3>1. s.ice = "connected" => t = Tp!MayRunDtlsTransport([u EXCEPT !.ice = "completed"])
      BY <2>3, Zenon DEF Tp!HandleTuple, Tp!OnIceCompleted
    <3>2. s.ice = "completed" => t = u
      BY <2>3, Zenon DEF Tp!HandleTuple
    <3> HIDE DEF k
    <3>3. k \in States
      BY <2>1 DEF DtlsStays
    <3>4. DtlsStays(k, u) /\ IceOf(u) /\ u.ice = k.ice
      BY <2>1, <3>3, SelectOk
    <3> HIDE DEF u
    <3>5. DtlsStays(s, u) /\ u.ice = s.ice
      BY <2>1, <3>4 DEF DtlsStays
    <3>6. CASE s.ice = "completed"
      <4>1. Live(u)
        BY <3>4, <3>5, IceLive
      <4> QED BY <3>2, <3>6, <4>1
    <3>7. CASE s.ice = "connected"
      <4>1. IceGood(u.tuples, u.selected, u.tsel, "completed")
        BY <3>4, <3>5, <3>7 DEF IceOf, IceGood
      <4>2. Live(Tp!MayRunDtlsTransport([u EXCEPT !.ice = "completed"]))
        BY <1>0, <3>5, <4>1, AdvanceOk
      <4> QED BY <3>1, <3>7, <4>2
    <3> QED BY <1>0, <1>2, <3>6, <3>7
  <2> QED BY <2>2, <2>3
<1> QED BY <1>1, <1>2

\* RemoveTuple: another tuple is selected, or ICE is disconnected and the
\* transport ends.
LEMMA RemoveTupleOk ==
    ASSUME NEW s, Live(s), NEW x, Tp!NoTuple \notin Tp!Tuples
    PROVE  Live(Tp!RemoveTuple(s, x)) \/ Ended(Tp!RemoveTuple(s, x))
<1> DEFINE t == Tp!RemoveTuple(s, x)
           q == Tp!RemoveFirst(s.tuples, x)
           r == [s EXCEPT !.tuples = q]
           z == [r EXCEPT !.selected = Tp!NoTuple]
<1>0. s \in States /\ IceOf(s) /\ (s.dtls = "connected" => s.fp = "match")
  BY DEF Live, Sound, KeysGood
<1>1. CASE ~Tp!HasTuple(s, x)
  BY <1>1 DEF Tp!RemoveTuple
<1>2. CASE Tp!HasTuple(s, x)
  <2>1. /\ t = IF s.selected # x THEN r
               ELSE IF r.tuples # << >> THEN Tp!SetSelectedTuple(z, r.tuples[1])
               ELSE Tp!OnIceDisconnected([r EXCEPT !.selected = Tp!NoTuple, !.ice = "disconnected"])
    BY <1>2 DEF Tp!RemoveTuple
  <2>2. /\ s.tuples \in Seq(Tp!Tuples) /\ NoRepeats(s.tuples) /\ Tp!Contains(s.tuples, x)
        /\ s.selected # Tp!NoTuple /\ s.tsel = s.selected
        /\ s.ice \in {"connected", "completed"}
    BY <1>0, <1>2 DEF Tp!HasTuple, IceOf, IceGood
  <2>3. /\ q \in Seq(Tp!Tuples) /\ NoRepeats(q)
        /\ \A y : Tp!Contains(q, y) <=> y # x /\ Tp!Contains(s.tuples, y)
    BY <2>2, RemoveFromList
  <2> HIDE DEF q, t
  <2>4. /\ DtlsStays(s, r) /\ r.tuples = q /\ r.selected = s.selected /\ r.tsel = s.tsel
        /\ r.ice = s.ice
    BY <1>0, <2>3, TuplesSet
  <2> HIDE DEF r
  <2>5. r \in States
    BY <2>4 DEF DtlsStays
  <2>6. CASE s.selected # x
    <3>1. Tp!Contains(q, s.selected) /\ s.selected \in Tp!Tuples
      BY <1>0, <2>2, <2>3, <2>6 DEF IceOf, IceGood
    <3>2. q # << >>
      BY <3>1 DEF Tp!Contains
    <3>3. IceOf(r)
      BY <2>2, <2>3, <2>4, <3>1, <3>2 DEF IceOf, IceGood
    <3>4. Live(r)
      BY <2>4, <3>3, IceLive
    <3> QED BY <2>1, <2>6, <3>4 DEF t
  <2>7. CASE s.selected = x /\ r.tuples # << >>
    <3> DEFINE y == r.tuples[1]
               u == Tp!SetSelectedTuple(z, y)
    <3>1. y \in Tp!Tuples /\ Tp!Contains(q, y)
      BY <2>3, <2>4, <2>7 DEF Tp!Contains
    <3>2. /\ DtlsStays(r, z) /\ z.selected = Tp!NoTuple /\ z.tuples = r.tuples /\ z.ice = r.ice
      BY <2>5, SelectedSet
    <3>3. t = u
      BY <2>1, <2>7
    <3> HIDE DEF y, z
    <3>4. z \in States /\ z.selected # y
      BY <3>1, <3>2 DEF DtlsStays
    <3>5. DtlsStays(z, u) /\ u.tuples = z.tuples /\ u.selected = y /\ u.tsel = y /\ u.ice = z.ice
      BY <3>1, <3>4, SetSelectedIs
    <3> HIDE DEF u
    <3>6. DtlsStays(s, u) /\ u.tuples = q /\ u.ice = s.ice
      BY <2>4, <3>2, <3>5 DEF DtlsStays
    <3>7. IceGood(q, y, y, s.ice)
      BY <2>2, <2>3, <2>4, <2>7, <3>1 DEF IceGood
    <3>8. IceOf(u)
      BY <3>5, <3>6, <3>7 DEF IceOf
    <3>9. Live(u)
      BY <3>6, <3>8, IceLive
    <3> QED BY <3>3, <3>9 DEF t
  <2>8. CASE s.selected = x /\ r.tuples = << >>
    <3> DEFINE d == [r EXCEPT !.selected = Tp!NoTuple, !.ice = "disconnected"]
               e == [d EXCEPT !.tsel = Tp!NoTuple]
    <3>1. t = Tp!Destroy(e)
      BY <2>1, <2>8 DEF Tp!OnIceDisconnected
    <3>2. d \in States
      BY <2>5 DEF States
    <3>3. d.dtls = r.dtls /\ d.fp = r.fp
      BY <2>5 DEF States
    <3> HIDE DEF d
    <3>4. DtlsStays(d, e)
      BY <3>2, TselSet
    <3> HIDE DEF e
    <3>5. e \in States /\ (e.dtls = "connected" => e.fp = "match")
      BY <1>0, <2>4, <3>3, <3>4 DEF DtlsStays
    <3>6. Ended(t)
      BY <3>1, <3>5, DestroyEnds
    <3> QED BY <3>6 DEF t
  <2> QED BY <2>6, <2>7, <2>8
<1> QED BY <1>1, <1>2

----------------------------------------------------------------------------
(* The actions.                                                             *)

\* The invariant holds initially.
LEMMA InitInv == Tp!Init /\ MaxPasswords \in Nat => TransportInv
<1> SUFFICES ASSUME Tp!Init, MaxPasswords \in Nat PROVE Unborn(tp)
  BY DEF TransportInv, Inv
<1>1. << >> \in Seq(Tp!Tuples) /\ 0 \in 0..MaxPasswords /\ 0 \in 0..2
  OBVIOUS
<1>2. tp \in States
  BY <1>1 DEF Tp!Init, States, Tp!NoHandshake
<1>3. /\ tp.life = "unborn"
      /\ tp.tuples = << >> /\ tp.selected = Tp!NoTuple /\ tp.tsel = Tp!NoTuple /\ tp.ice = "new"
      /\ tp.local = "auto" /\ ~tp.given /\ tp.role = "none" /\ tp.dtls = "new" /\ ~tp.done
      /\ tp.fp = "none" /\ tp.runs = 0 /\ tp.send = 0 /\ tp.recv = 0 /\ tp.faults = {}
  BY DEF Tp!Init
<1> QED BY <1>2, <1>3 DEF Unborn

\* An event meets a live transport.
LEMMA OpenLive ==
    ASSUME TransportInv, Tp!Open
    PROVE  Live(tp)
BY DEF TransportInv, Inv, Tp!Open, Unborn, Ended

\* A packet comes over a tuple.
LEMMA SourceTuple ==
    ASSUME Live(tp), NEW t \in Tp!Sources
    PROVE  t \in Tp!Tuples
BY DEF Live, Sound, States, Tp!Sources, Tp!Tuples

\* The transport is created.
LEMMA NewOk ==
    ASSUME TransportInv, NEW socks \in SUBSET {"udp", "tcp"}, Tp!New(socks)
    PROVE  Live(tp')
<1> DEFINE t == [tp EXCEPT !.life = "open", !.socks = socks]
<1>1. Unborn(tp) /\ tp' = t
  BY DEF Tp!New, TransportInv, Inv, Live, Sound, Ended
<1>2. t \in States
  BY <1>1 DEF Unborn, States
<1>3. /\ t.life = "open"
      /\ t.tuples = << >> /\ t.selected = Tp!NoTuple /\ t.tsel = Tp!NoTuple /\ t.ice = "new"
      /\ t.local = "auto" /\ ~t.given /\ t.role = "none" /\ t.dtls = "new" /\ ~t.done
      /\ t.fp = "none" /\ t.runs = 0 /\ t.send = 0 /\ t.recv = 0
  BY <1>1 DEF Unborn, States
<1> HIDE DEF t
<1>4. IceGood(<< >>, Tp!NoTuple, Tp!NoTuple, "new")
  BY DEF IceGood, NoRepeats
<1>5. IceOf(t) /\ RolesGood(t) /\ KeysGood(t)
  BY <1>3, <1>4 DEF IceOf, RolesGood, KeysGood
<1>6. Live(t)
  BY <1>2, <1>3, <1>5 DEF Live, Sound, NotEarly, InTime
<1> QED BY <1>1, <1>6

\* A TCP connection is accepted.
LEMMA AcceptOk ==
    ASSUME Live(tp), NEW c \in TcpTuples, Tp!Accept(c)
    PROVE  Live(tp')
<1> DEFINE t == [tp EXCEPT !.conns = @ \cup {c}]
<1>0. tp \in States
  BY DEF Live, Sound
<1>1. t \in States
  BY <1>0, SMTT(60) DEF States
<1>2. Quiet(tp, t)
  BY <1>0, <1>1 DEF Quiet, States
<1> HIDE DEF t
<1>3. Live(t)
  BY <1>2, QuietLive
<1> QED BY <1>3 DEF Tp!Accept, t

\* A STUN message.
LEMMA OnStunDataRecvOk ==
    ASSUME Live(tp), NEW x, NEW p, NEW use \in BOOLEAN, Tp!OnStunDataRecv(x, p, use),
           Tp!NoTuple \notin Tp!Tuples
    PROVE  Live(tp')
<1>1. x \in Tp!Tuples
  BY SourceTuple DEF Tp!OnStunDataRecv
<1> DEFINE q == Tp!Send(tp, x)
<1>2. Quiet(tp, q)
  BY SendQuiet DEF Live, Sound
<1>3. tp' = tp \/ tp' = Tp!HandleTuple(q, x, use)
  BY DEF Tp!OnStunDataRecv, Tp!ProcessStunMessage
<1> HIDE DEF q
<1>4. Live(q)
  BY <1>2, QuietLive
<1>5. Live(Tp!HandleTuple(q, x, use))
  BY <1>1, <1>4, HandleTupleOk
<1> QED BY <1>3, <1>5

\* ForceSelectedTuple is called with a tuple that is valid.
LEMMA ForceOk ==
    ASSUME NEW s, Live(s), NEW x \in Tp!Tuples, Tp!HasTuple(s, x), Tp!NoTuple \notin Tp!Tuples
    PROVE  Live(Tp!ForceSelectedTuple(s, x))
<1> DEFINE u == Tp!SetSelectedTuple(s, x)
<1>1. Tp!ForceSelectedTuple(s, x) = u
  BY DEF Tp!ForceSelectedTuple, Tp!HasTuple
<1>2. s \in States /\ IceOf(s) /\ Tp!Contains(s.tuples, x)
  BY DEF Live, Sound, Tp!HasTuple
<1>3. DtlsStays(s, u) /\ IceOf(u) /\ u.ice = s.ice
  BY <1>2, SelectOk
<1> HIDE DEF u
<1>4. Live(u)
  BY <1>3, IceLive
<1> QED BY <1>1, <1>4

\* A DTLS packet.
LEMMA OnDtlsDataRecvOk ==
    ASSUME Live(tp), NEW x, NEW read \in Tp!Reads, NEW ms \in Timeouts, Tp!OnDtlsDataRecv(x, read, ms),
           Tp!NoTuple \notin Tp!Tuples
    PROVE  Live(tp') \/ Ended(tp')
<1> DEFINE f == Tp!ForceSelectedTuple(tp, x)
<1>1. x \in Tp!Tuples /\ Tp!HasTuple(tp, x)
  BY SourceTuple DEF Tp!OnDtlsDataRecv
<1>2. Live(f)
  BY <1>1, ForceOk
<1>3. tp' = IF Tp!IsRunning(f) THEN Tp!ProcessDtlsData(f, read, ms) ELSE f
  BY DEF Tp!OnDtlsDataRecv
<1> HIDE DEF f
<1>4. Live(Tp!ProcessDtlsData(f, read, ms)) \/ Ended(Tp!ProcessDtlsData(f, read, ms))
  BY <1>2, ProcessDtlsDataOk
<1> QED BY <1>2, <1>3, <1>4

\* An RTP packet.
LEMMA OnRtpDataRecvOk ==
    ASSUME Live(tp), NEW x, Tp!OnRtpDataRecv(x), Tp!NoTuple \notin Tp!Tuples
    PROVE  Live(tp')
<1>1. x \in Tp!Tuples /\ Tp!HasTuple(tp, x)
  BY SourceTuple DEF Tp!OnRtpDataRecv
<1>2. Live(Tp!ForceSelectedTuple(tp, x))
  BY <1>1, ForceOk
<1> QED BY <1>2 DEF Tp!OnRtpDataRecv

\* The timer of DTLS.
LEMMA DtlsTimerOk ==
    ASSUME Live(tp), NEW ms \in Timeouts, Tp!DtlsTimer(ms)
    PROVE  Live(tp') \/ Ended(tp')
<1> DEFINE a == [tp EXCEPT !.timer = FALSE]
           q == Tp!SendPendingOutgoingDtlsData(a)
<1>1. tp \in States
  BY DEF Live, Sound
<1>2. Quiet(tp, a)
  BY <1>1, TimerQuiet
<1>3. tp' = Tp!SetTimeout(q, ms)
  BY DEF Tp!DtlsTimer, Tp!OnTimer
<1> HIDE DEF a
<1>4. a \in States /\ Live(a)
  BY <1>2, QuietLive DEF Quiet
<1>5. Quiet(a, q)
  BY <1>4, DtlsDataQuiet
<1> HIDE DEF q
<1>6. Live(q)
  BY <1>4, <1>5, QuietLive
<1>7. Live(Tp!SetTimeout(q, ms)) \/ Ended(Tp!SetTimeout(q, ms))
  BY <1>6, SetTimeoutOk
<1> QED BY <1>3, <1>7

\* Media is sent.
LEMMA SendMediaOk ==
    ASSUME Live(tp), Tp!SendMedia
    PROVE  Live(tp')
<1>1. tp' = tp \/ tp' = Tp!Send(tp, tp.tsel)
  BY DEF Tp!SendMedia, Tp!SendRtpPacket, Tp!SendRtcpPacket, Tp!SendRtcpCompoundPacket
<1>2. Quiet(tp, Tp!Send(tp, tp.tsel))
  BY SendQuiet DEF Live, Sound
<1>3. Live(Tp!Send(tp, tp.tsel))
  BY <1>2, QuietLive
<1> QED BY <1>1, <1>3

\* A TCP connection is closed.
LEMMA OnRtcTcpConnectionClosedOk ==
    ASSUME Live(tp), NEW c, NEW b \in BOOLEAN, Tp!OnRtcTcpConnectionClosed(c, b), Tp!NoTuple \notin Tp!Tuples
    PROVE  Live(tp') \/ Ended(tp')
<1> DEFINE g == [tp EXCEPT !.conns = @ \ {c}, !.dead = @ \cup {c}]
<1>0. tp \in States /\ c \in tp.conns
  BY DEF Live, Sound, Tp!OnRtcTcpConnectionClosed
<1>1. c \in TcpTuples
  BY <1>0 DEF States
<1>2. g \in States
  BY <1>0, <1>1, ZenonT(60) DEF States
<1>3. Quiet(tp, g)
  BY <1>0, <1>2 DEF Quiet, States
<1>4. tp' = IF b THEN Tp!RemoveTuple(g, c) ELSE g
  BY DEF Tp!OnRtcTcpConnectionClosed
<1> HIDE DEF g
<1>5. Live(g)
  BY <1>3, QuietLive
<1>6. Live(Tp!RemoveTuple(g, c)) \/ Ended(Tp!RemoveTuple(g, c))
  BY <1>5, RemoveTupleOk
<1> QED BY <1>4, <1>5, <1>6

\* The remote parameters, which come once.
LEMMA SetRemoteDtlsParametersOk ==
    ASSUME Live(tp), NEW valid \in BOOLEAN, NEW send \in BOOLEAN, NEW recv \in BOOLEAN,
           NEW remote \in {"none", "auto", "client", "server"}, NEW fp \in {"match", "mismatch"},
           Tp!SetRemoteDtlsParameters(valid, remote, fp, send, recv)
    PROVE  Live(tp') \/ Ended(tp')
<1> DEFINE g == [tp EXCEPT !.given = TRUE]
           role == IF remote = "client" THEN "server" ELSE "client"
           l == [g EXCEPT !.local = role]
           e == [l EXCEPT !.fp = fp]
           f == Tp!SetRemoteFingerprint(l, fp, send, recv)
<1>0. tp \in States /\ ~tp.given /\ Sound(tp) /\ NotEarly(tp)
  BY DEF Live, Sound, Tp!SetRemoteDtlsParameters
<1>1. tp' = IF ~valid \/ remote = "none" THEN g
            ELSE IF f.life = "freed" THEN Tp!Fault(f, "running a freed DtlsTransport")
            ELSE Tp!MayRunDtlsTransport(f)
  BY DEF Tp!SetRemoteDtlsParameters
<1>2. /\ tp.fp = "none" /\ tp.send = 0 /\ tp.recv = 0 /\ tp.dtls # "connected"
      /\ tp.runs # 2 /\ tp.role # "client" /\ tp.local # "client"
  BY <1>0 DEF Sound, KeysGood, RolesGood
<1>3. g \in States
  BY <1>0 DEF States
<1>4. /\ IceStays(tp, g) /\ g.local = tp.local /\ g.given /\ g.role = tp.role
      /\ g.dtls = tp.dtls /\ g.done = tp.done /\ g.fp = tp.fp /\ g.runs = tp.runs
      /\ g.ssl = tp.ssl /\ g.send = tp.send /\ g.recv = tp.recv
  BY <1>0 DEF States, IceStays
<1> HIDE DEF g
<1>5. Live(g)
  <2>1. IceOf(g) /\ g.life = "open"
    BY <1>0, <1>4 DEF Sound, IceStays, IceOf
  <2>2. RolesGood(g) /\ KeysGood(g)
    BY <1>0, <1>2, <1>4 DEF Sound, RolesGood, KeysGood
  <2> QED BY <1>3, <1>4, <2>1, <2>2 DEF Live, Sound, NotEarly, InTime, IceStays
<1>6. l \in States
  BY <1>3 DEF States
<1>7. /\ IceStays(g, l) /\ l.local = role /\ l.given = g.given /\ l.role = g.role
      /\ l.dtls = g.dtls /\ l.done = g.done /\ l.fp = g.fp /\ l.runs = g.runs
      /\ l.ssl = g.ssl /\ l.send = g.send /\ l.recv = g.recv
  BY <1>3 DEF States, IceStays
<1>8. role \in {"client", "server"}
  OBVIOUS
<1> HIDE DEF l, role
<1>9. e \in States
  BY <1>6 DEF States
<1>10. /\ IceStays(l, e) /\ e.local = l.local /\ e.given = l.given /\ e.role = l.role
       /\ e.dtls = l.dtls /\ e.done = l.done /\ e.fp = fp /\ e.runs = l.runs
       /\ e.ssl = l.ssl /\ e.send = l.send /\ e.recv = l.recv
  BY <1>6 DEF States, IceStays
<1>11. f = IF l.done /\ l.dtls # "connected" THEN Tp!ProcessHandshake(e, send, recv) ELSE e
  BY DEF Tp!SetRemoteFingerprint
<1> HIDE DEF e, f
<1>12. /\ IceStays(tp, e) /\ e.local = role /\ e.given /\ e.role = tp.role
       /\ e.dtls = tp.dtls /\ e.done = tp.done /\ e.runs = tp.runs
       /\ e.ssl = tp.ssl /\ e.send = 0 /\ e.recv = 0
  BY <1>2, <1>4, <1>7, <1>10 DEF IceStays
<1>13. IceOf(e) /\ e.life = "open"
  BY <1>0, <1>12 DEF Sound, IceStays, IceOf
<1>14. RolesGood(e)
  BY <1>0, <1>2, <1>8, <1>12 DEF Sound, RolesGood
<1>15. KeysGood(e)
  BY <1>0, <1>2, <1>12 DEF Sound, KeysGood
<1>16. Sound(e) /\ NotEarly(e)
  BY <1>0, <1>9, <1>12, <1>13, <1>14, <1>15 DEF Sound, NotEarly, IceStays
<1>17. Ended(f) \/ (Sound(f) /\ NotEarly(f))
  <2>1. CASE ~(l.done /\ l.dtls # "connected")
    BY <1>11, <1>16, <2>1
  <2>2. CASE l.done /\ l.dtls # "connected"
    <3>1. f = Tp!ProcessHandshake(e, send, recv) /\ e.done
      BY <1>10, <1>11, <2>2
    <3>2. Ended(f) \/ (SameCourse(e, f) /\ Sound(f))
      BY <1>16, <3>1, ProcessHandshakeOk
    <3> QED BY <1>16, <3>2 DEF SameCourse, NotEarly
  <2> QED BY <2>1, <2>2
<1>18. CASE ~valid \/ remote = "none"
  BY <1>1, <1>5, <1>18
<1>19. CASE valid /\ remote # "none" /\ Ended(f)
  <2> DEFINE h == Tp!Fault(f, "running a freed DtlsTransport")
  <2>1. f.life = "freed" /\ f \in States
    BY <1>19 DEF Ended
  <2>2. Quiet(f, h)
    BY <2>1, FaultQuiet DEF Faults
  <2>3. tp' = h
    BY <1>1, <1>19, <2>1
  <2> HIDE DEF h
  <2>4. Ended(h)
    BY <1>19, <2>2 DEF Quiet, Ended
  <2> QED BY <2>3, <2>4
<1>20. CASE valid /\ remote # "none" /\ Sound(f) /\ NotEarly(f)
  <2>1. f.life # "freed"
    BY <1>20 DEF Sound
  <2>2. tp' = Tp!MayRunDtlsTransport(f)
    BY <1>1, <1>20, <2>1
  <2> QED BY <1>20, <2>2, MayRunOk
<1> QED BY <1>17, <1>18, <1>19, <1>20

\* The user and password of ICE change.
LEMMA ChangeUfragPwdOk ==
    ASSUME Live(tp), Tp!ChangeUfragPwd, MaxPasswords \in Nat
    PROVE  Live(tp')
<1> DEFINE t == [tp EXCEPT !.password = @ + 1]
<1>0. tp \in States
  BY DEF Live, Sound
<1>1. tp.password + 1 \in 0..MaxPasswords
  BY <1>0 DEF Tp!ChangeUfragPwd, States
<1>2. t \in States
  <2>1. ASSUME NEW n \in 0..MaxPasswords PROVE [tp EXCEPT !.password = n] \in States
    BY <1>0 DEF States
  <2> QED BY <1>1, <2>1
<1>3. Quiet(tp, t)
  BY <1>0, <1>2 DEF Quiet, States
<1> HIDE DEF t
<1>4. Live(t)
  BY <1>3, QuietLive
<1> QED BY <1>4 DEF Tp!ChangeUfragPwd, t

\* Every step keeps the invariant.
LEMMA NextInv ==
    ASSUME Tp!NoTuple \notin Tp!Tuples, MaxPasswords \in Nat
    PROVE  TransportInv /\ [Tp!Next]_tp => TransportInv'
<1> SUFFICES ASSUME TransportInv, [Tp!Next]_tp PROVE TransportInv'
  OBVIOUS
<1>0. Live(tp') \/ Ended(tp') => TransportInv'
  BY DEF TransportInv, Inv
<1>1. ASSUME NEW socks \in SUBSET {"udp", "tcp"}, Tp!New(socks) PROVE TransportInv'
  BY <1>0, <1>1, NewOk
<1>2. ASSUME NEW c \in TcpTuples, Tp!Accept(c) PROVE TransportInv'
  BY <1>0, <1>2, OpenLive, AcceptOk DEF Tp!Accept
<1>3. ASSUME NEW t \in Tp!Tuples, NEW p \in 0..MaxPasswords, NEW use \in BOOLEAN,
             Tp!OnStunDataRecv(t, p, use)
      PROVE  TransportInv'
  <2>1. Live(tp)
    BY <1>3, OpenLive DEF Tp!OnStunDataRecv
  <2> QED BY <1>0, <1>3, <2>1, OnStunDataRecvOk
<1>4. ASSUME NEW t \in Tp!Tuples, NEW read \in Tp!Reads, NEW ms \in Timeouts, Tp!OnDtlsDataRecv(t, read, ms)
      PROVE  TransportInv'
  <2>1. Live(tp)
    BY <1>4, OpenLive DEF Tp!OnDtlsDataRecv
  <2> QED BY <1>0, <1>4, <2>1, OnDtlsDataRecvOk
<1>5. ASSUME NEW t \in Tp!Tuples, Tp!OnRtpDataRecv(t) PROVE TransportInv'
  <2>1. Live(tp)
    BY <1>5, OpenLive DEF Tp!OnRtpDataRecv
  <2> QED BY <1>0, <1>5, <2>1, OnRtpDataRecvOk
<1>6. ASSUME NEW ms \in Timeouts, Tp!DtlsTimer(ms) PROVE TransportInv'
  <2>1. Live(tp)
    BY <1>6, OpenLive DEF Tp!DtlsTimer
  <2> QED BY <1>0, <1>6, <2>1, DtlsTimerOk
<1>7. ASSUME Tp!SendMedia PROVE TransportInv'
  <2>1. Live(tp)
    BY <1>7, OpenLive DEF Tp!SendMedia
  <2> QED BY <1>0, <1>7, <2>1, SendMediaOk
<1>8. ASSUME NEW c \in TcpTuples, NEW b \in BOOLEAN, Tp!OnRtcTcpConnectionClosed(c, b)
      PROVE  TransportInv'
  <2>1. Live(tp)
    BY <1>8, OpenLive DEF Tp!OnRtcTcpConnectionClosed
  <2> QED BY <1>0, <1>8, <2>1, OnRtcTcpConnectionClosedOk
<1>9. ASSUME NEW valid \in BOOLEAN, NEW send \in BOOLEAN, NEW recv \in BOOLEAN,
             NEW role \in {"none", "auto", "client", "server"}, NEW fp \in {"match", "mismatch"},
             Tp!SetRemoteDtlsParameters(valid, role, fp, send, recv)
      PROVE  TransportInv'
  <2>1. Live(tp)
    BY <1>9, OpenLive DEF Tp!SetRemoteDtlsParameters
  <2> QED BY <1>0, <1>9, <2>1, SetRemoteDtlsParametersOk
<1>10. ASSUME Tp!ChangeUfragPwd PROVE TransportInv'
  <2>1. Live(tp)
    BY <1>10, OpenLive DEF Tp!ChangeUfragPwd
  <2> QED BY <1>0, <1>10, <2>1, ChangeUfragPwdOk
<1>11. ASSUME Tp!Close PROVE TransportInv'
  <2>1. Live(tp) /\ tp' = Tp!Destroy(tp)
    BY <1>11, OpenLive DEF Tp!Close
  <2>2. Ended(Tp!Destroy(tp))
    BY <2>1, DestroyEnds DEF Live, Sound, KeysGood
  <2> QED BY <1>0, <2>1, <2>2
<1>12. CASE UNCHANGED tp
  BY <1>12 DEF TransportInv, Inv, Unborn, Live, Ended, Sound, NotEarly, InTime, IceOf, RolesGood,
               KeysGood
<1> QED BY <1>1, <1>2, <1>3, <1>4, <1>5, <1>6, <1>7, <1>8, <1>9, <1>10, <1>11, <1>12
        DEF Tp!Next, Timeouts

\* The invariant says what the runs check.
LEMMA InvImplies ==
    TransportInv => Tp!TypeOK /\ Tp!SelectedAgrees /\ Tp!KeysAreVerified /\ Tp!DtlsFollowsIce
<1> SUFFICES ASSUME TransportInv
             PROVE  Tp!TypeOK /\ Tp!SelectedAgrees /\ Tp!KeysAreVerified /\ Tp!DtlsFollowsIce
  OBVIOUS
<1>0. tp \in States
  BY DEF TransportInv, Inv, Unborn, Live, Sound, Ended
<1>1. Tp!TypeOK
  BY <1>0 DEF Tp!TypeOK, States, Faults
<1>2. tp.life = "open" => Live(tp)
  BY DEF TransportInv, Inv, Unborn, Ended
<1>3. Tp!SelectedAgrees
  <2> SUFFICES ASSUME Live(tp) PROVE Tp!SelectedAgrees
    BY <1>2 DEF Tp!SelectedAgrees
  <2>1. "forced a tuple that is not valid" \notin tp.faults
    BY <1>0 DEF States, Faults
  <2>2. IceGood(tp.tuples, tp.selected, tp.tsel, tp.ice)
    BY DEF Live, Sound, IceOf
  <2> QED BY <2>1, <2>2 DEF Tp!SelectedAgrees, IceGood, NoRepeats
<1>4. Tp!KeysAreVerified
  <2>1. CASE Unborn(tp)
    BY <2>1 DEF Unborn, Tp!KeysAreVerified
  <2>2. CASE Live(tp)
    BY <2>2 DEF Live, Sound, KeysGood, Tp!KeysAreVerified
  <2>3. CASE Ended(tp)
    BY <2>3 DEF Ended, Tp!KeysAreVerified
  <2> QED BY <2>1, <2>2, <2>3 DEF TransportInv, Inv
<1>5. Tp!DtlsFollowsIce
  <2> SUFFICES ASSUME Live(tp) PROVE Tp!DtlsFollowsIce
    BY <1>2 DEF Tp!DtlsFollowsIce
  <2>1. tp.role = tp.local => tp.dtls # "new"
    BY <1>0 DEF Live, Sound, RolesGood, States
  <2>2. tp.role = tp.local => Tp!IsRunning(tp)
    BY <2>1 DEF Live, Sound, KeysGood, Tp!IsRunning
  <2> QED BY <2>2 DEF Live, NotEarly, InTime, Tp!DtlsFollowsIce
<1> QED BY <1>1, <1>3, <1>4, <1>5

----------------------------------------------------------------------------
(* Theorems.  The first is about the transport alone, the others also about *)
(* the worker whose parts are worked one at a time.                         *)

\* The transport keeps its invariant.  MaxPasswords bounds a counter of the
\* model; the other hypothesis says that no tuple is the null pointer.
THEOREM TransportInvariant ==
    ASSUME Tp!NoTuple \notin Tp!Tuples, MaxPasswords \in Nat
    PROVE  Tp!Spec => []TransportInv
<1> QED BY InitInv, NextInv, PTL DEF Tp!Spec

\* A step of the worker is a step of its transport, or leaves it alone.
LEMMA PartsTransport ==
    ASSUME Tp!NoTuple \notin Tp!Tuples, MaxPasswords \in Nat
    PROVE  PartsSpec => []TransportInv
<1>1. PartsInit => Tp!Init
  BY DEF PartsInit
<1>2. [PartsNext]_<<vars, partVars, part>> => [Tp!Next]_tp
  BY DEF PartsNext, partVars
<1> QED BY <1>1, <1>2, InitInv, NextInv, PTL DEF PartsSpec

\* TypeOK: in particular DTLS is run at most twice in the life of a transport.
THEOREM TypeOKHolds ==
    ASSUME Tp!NoTuple \notin Tp!Tuples, MaxPasswords \in Nat
    PROVE  Tp!Spec => []Tp!TypeOK
<1> QED BY TransportInvariant, InvImplies, PTL

\* SelectedAgrees: the transport sends over the tuple its IceServer selected,
\* which is one of the list, whatever adds, forces and removes tuples; the
\* assertion of ForceSelectedTuple holds.
THEOREM SelectedAgreesHolds ==
    ASSUME Tp!NoTuple \notin Tp!Tuples, MaxPasswords \in Nat
    PROVE  Tp!Spec \/ PartsSpec => []SelectedAgrees
<1>1. TransportInv => SelectedAgrees
  BY InvImplies DEF SelectedAgrees
<1> QED BY <1>1, TransportInvariant, PartsTransport, PTL

\* KeysAreVerified: an SRTP session has the keys of a handshake whose
\* certificate matches the announced fingerprint, of the current run if DTLS
\* is connected.
THEOREM KeysAreVerifiedHolds ==
    ASSUME Tp!NoTuple \notin Tp!Tuples, MaxPasswords \in Nat
    PROVE  Tp!Spec \/ PartsSpec => []KeysAreVerified
<1>1. TransportInv => KeysAreVerified
  BY InvImplies DEF KeysAreVerified
<1> QED BY <1>1, TransportInvariant, PartsTransport, PTL

\* DtlsFollowsIce: DTLS runs in the local role as soon as ICE and the remote
\* parameters allow it, in whichever order they come.
THEOREM DtlsFollowsIceHolds ==
    ASSUME Tp!NoTuple \notin Tp!Tuples, MaxPasswords \in Nat
    PROVE  Tp!Spec \/ PartsSpec => []DtlsFollowsIce
<1>1. TransportInv => DtlsFollowsIce
  BY InvImplies DEF DtlsFollowsIce
<1> QED BY <1>1, TransportInvariant, PartsTransport, PTL
=============================================================================
