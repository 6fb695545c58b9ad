------------------------------ MODULE SoupStun ------------------------------
(***************************************************************************)
(* STUN messages of mediasoup_1 (RTC/StunMessage) byte by byte: what        *)
(* Serialize writes, what Parse and CheckAuthentication make of it, and     *)
(* the answer the IceServer gives.  A peer writes a request; on its way a   *)
(* byte may change or the end may be cut.                                   *)
(*                                                                          *)
(* A message is a record of its attributes; numbers of four or eight bytes  *)
(* are kept as their bytes.  Where the code reads behind the end of a       *)
(* datagram it finds what an earlier one left in the buffer.                *)
(***************************************************************************)
EXTENDS SoupBytes, Integers, Sequences, FiniteSets, SequencesExt, Bitwise

CONSTANTS
  Focuses,      \* what a peer writes: [methods (1 is Binding), usernames, passwords (bytes),
                \* addresses: [family, port, ip], changes: what is added to a byte that changes]
  LocalUsername, LocalPassword,   \* usernameFragment and password of the IceServer
  Stale         \* bytes that may lie behind the end of a datagram

VARIABLE sm
(***************************************************************************)
(* sent    message the peer wrote, key: the password it used               *)
(* data    the datagram, changed: whether it is not what was written       *)
(* got     << >> or the message that was parsed; reply: << >> or bytes     *)
(* after   the datagram after it was processed; from: its sender's address *)
(***************************************************************************)
REQUEST == 0
INDICATION == 1
SUCCESS_RESPONSE == 2
ERROR_RESPONSE == 3
BINDING == 1

USERNAME == 6
MESSAGE_INTEGRITY == 8
ERROR_CODE == 9
XOR_MAPPED_ADDRESS == 32
PRIORITY == 36
USE_CANDIDATE == 37
FINGERPRINT == 32808
ICE_CONTROLLED == 32809
ICE_CONTROLLING == 32810

MagicCookie == <<33, 18, 164, 66>>
None == << >>

Message(klass, method, tid) ==
  [klass |-> klass, method |-> method, tid |-> tid, username |-> << >>, priority |-> Zeros(4),
   controlling |-> Zeros(8), controlled |-> Zeros(8), useCandidate |-> FALSE, address |-> None,
   errorCode |-> 0]

----------------------------------------------------------------------------
\* Checksums: like CRC-32, and HMAC with a key, they tell two byte strings
\* apart that differ in one byte.

Checksum(d) ==
  LET h[i \in 0..Len(d)] == IF i = 0 THEN 7 ELSE (h[i - 1] * 257 + d[i] + 1) % 65521 IN h[Len(d)]
XorBytes(a, b) == [i \in DOMAIN a |-> a[i] ^^ b[i]]
GetCRC32(d) == Put4(Checksum(d))
GetHmacShA1(key, d) == LET h == Put2(Checksum(key \o <<0>> \o d)) IN [i \in 1..20 |-> h[1 + (i % 2)]]
ComputedFingerprint(d) == XorBytes(GetCRC32(d), <<83, 84, 85, 78>>)

----------------------------------------------------------------------------
\* Writing.

\* The class is spread between the bits of the method.
TypeField(m) ==
  (m.method \div 128) * 512 + ((m.method \div 16) % 8) * 32 + (m.method % 16)
    + (m.klass \div 2) * 256 + (m.klass % 2) * 16

AddXorMappedAddress(m) ==
  m.address # None /\ m.method = BINDING /\ m.klass = SUCCESS_RESPONSE
    /\ m.address.family \in {"inet", "inet6"}
AddErrorCode(m) == m.errorCode # 0 /\ m.klass = ERROR_RESPONSE
AddMessageIntegrity(m, password) == m.klass # ERROR_RESPONSE /\ password # << >>

SizeIf(c, n) == IF c THEN n ELSE 0
GetSize(m, password) ==
  20 + SizeIf(m.username # << >>, 4 + PadTo4Bytes(Len(m.username)))
     + SizeIf(m.priority # Zeros(4), 4 + 4)
     + SizeIf(m.controlling # Zeros(8), 4 + 8) + SizeIf(m.controlled # Zeros(8), 4 + 8)
     + SizeIf(m.useCandidate, 4)
     + (IF ~AddXorMappedAddress(m) THEN 0 ELSE IF m.address.family = "inet" THEN 4 + 8 ELSE 4 + 20)
     + SizeIf(AddErrorCode(m), 4 + 4) + SizeIf(AddMessageIntegrity(m, password), 4 + 20) + (4 + 4)

\* An attribute; behind its value the buffer is left as it was.
Attribute(type, value, stale) ==
  Put2(type) \o Put2(Len(value)) \o value \o [i \in 1..Pad(Len(value)) |-> stale]
AttributeIf(c, type, value, stale) == IF c THEN Attribute(type, value, stale) ELSE << >>

XorMappedAddress(m) ==
  <<0, IF m.address.family = "inet" THEN 1 ELSE 2>> \o XorBytes(m.address.port, MagicCookie)
    \o XorBytes(m.address.ip, MagicCookie \o m.tid)

\* The number is what is left of the low byte of the code.
ErrorCode(code) ==
  LET codeClass == code \div 100 IN <<0, 0, codeClass, ((code % 256) - codeClass * 100) % 256>>

Attributes(m, stale) ==
     AttributeIf(m.username # << >>, USERNAME, m.username, stale)
  \o AttributeIf(m.priority # Zeros(4), PRIORITY, m.priority, stale)
  \o AttributeIf(m.controlling # Zeros(8), ICE_CONTROLLING, m.controlling, stale)
  \o AttributeIf(m.controlled # Zeros(8), ICE_CONTROLLED, m.controlled, stale)
  \o AttributeIf(m.useCandidate, USE_CANDIDATE, << >>, stale)
  \o (IF AddXorMappedAddress(m) THEN Attribute(XOR_MAPPED_ADDRESS, XorMappedAddress(m), stale)
      ELSE << >>)
  \o (IF AddErrorCode(m) THEN Attribute(ERROR_CODE, ErrorCode(m.errorCode), stale) ELSE << >>)

Header(m, size) == Put2(TypeField(m)) \o Put2(size - 20) \o MagicCookie \o m.tid

\* The integrity is computed while the length ends with it, the fingerprint with
\* the length of the whole message.
Serialize_OldLength(m, password, stale) ==
  LET size == GetSize(m, password)
      body == Attributes(m, stale)
      mi == AttributeIf(AddMessageIntegrity(m, password), MESSAGE_INTEGRITY,
                        GetHmacShA1(password, Header(m, size) \o body), stale)
      all == Header(m, size) \o body \o mi
  IN  all \o Attribute(FINGERPRINT, ComputedFingerprint(all), stale)
Serialize(m, password, stale) ==
  LET size == GetSize(m, password)
      body == Attributes(m, stale)
      mi == AttributeIf(AddMessageIntegrity(m, password), MESSAGE_INTEGRITY,
                        GetHmacShA1(password, Header(m, size - 8) \o body), stale)
      all == Header(m, size) \o body \o mi
  IN  all \o Attribute(FINGERPRINT, ComputedFingerprint(all), stale)

----------------------------------------------------------------------------
\* Reading.

IsStun(d) == Len(d) >= 20 /\ d[1] < 3 /\ Bytes(d, 4, 4) = MagicCookie

\* Attributes as far as they lie in the datagram, with the place of each.
AttributesOf_Unpadded(d) ==
  LET f[p \in 0..(Len(d) + 3)] ==
        IF p + 4 > Len(d) THEN << >>
        ELSE LET e == p + 4 + Get2(d, p + 2)
             IN  <<[type |-> Get2(d, p), at |-> p, long |-> Get2(d, p + 2), end |-> e]>>
                   \o (IF e > Len(d) THEN << >> ELSE f[e])
  IN  f[20]
AttributesOf(d) ==
  LET f[p \in 0..(Len(d) + 3)] ==
        IF p + 4 > Len(d) THEN << >>
        ELSE LET e == p + 4 + Get2(d, p + 2)
             IN  <<[type |-> Get2(d, p), at |-> p, long |-> Get2(d, p + 2), end |-> PadTo4Bytes(e)]>>
                   \o (IF e > Len(d) THEN << >> ELSE f[PadTo4Bytes(e)])
  IN  f[20]

\* Nothing follows the fingerprint, only it the integrity, and all ends with the
\* datagram.
WellPlaced(d, a) ==
  /\ \A i, j \in DOMAIN a : i < j => /\ a[i].type # FINGERPRINT
                                     /\ a[i].type = MESSAGE_INTEGRITY => a[j].type = FINGERPRINT
  /\ \A i \in DOMAIN a : a[i].at + 4 + a[i].long <= Len(d)
  /\ (IF a = << >> THEN 20 ELSE a[Len(a)].end) = Len(d)

\* Values are read where they are expected, however long the attribute says it is;
\* of several the first that says something counts, of error codes the last.
ValuesOf(type, n, buffer, a) ==
  LET as == SelectSeq(a, LAMBDA x : x.type = type)
  IN  [i \in DOMAIN as |-> Bytes(buffer, as[i].at + 4, IF n < 0 THEN as[i].long ELSE n)]
FirstOf(values, zero) ==
  LET said == SelectSeq(values, LAMBDA v : v # zero) IN IF said = << >> THEN zero ELSE said[1]
Has(a, type) == \E i \in DOMAIN a : a[i].type = type

\* The fingerprint is the last attribute and of all before it.
FingerprintFits(d, a, print) == print = ComputedFingerprint(Bytes(d, 0, a[Len(a)].at))

SetErrorCode(m, codes) ==
  IF codes = << >> THEN m
  ELSE [m EXCEPT !.errorCode = codes[Len(codes)][3] * 100 + codes[Len(codes)][4]]

\* << >>, or the message with the place of its integrity (0: none) and whether it
\* has a fingerprint.
Parse(d, stale) ==
  LET a == AttributesOf(d)
      buffer == d \o [i \in 1..24 |-> stale]
      t == Get2(d, 0)
      prints == ValuesOf(FINGERPRINT, 4, buffer, a)
      integrities == SelectSeq(a, LAMBDA x : x.type = MESSAGE_INTEGRITY)
      m == [klass |-> (d[1] % 2) * 2 + ((d[2] \div 16) % 2),
            method |-> (t % 16) + ((t \div 32) % 8) * 16 + ((t \div 512) % 32) * 128,
            tid |-> Bytes(d, 8, 12), username |-> FirstOf(ValuesOf(USERNAME, -1, buffer, a), << >>),
            priority |-> FirstOf(ValuesOf(PRIORITY, 4, buffer, a), Zeros(4)),
            controlling |-> FirstOf(ValuesOf(ICE_CONTROLLING, 8, buffer, a), Zeros(8)),
            controlled |-> FirstOf(ValuesOf(ICE_CONTROLLED, 8, buffer, a), Zeros(8)),
            useCandidate |-> Has(a, USE_CANDIDATE), address |-> None, errorCode |-> 0]
  IN  IF \/ ~IsStun(d)
         \/ Get2(d, 2) # Len(d) - 20 \/ Get2(d, 2) % 4 # 0
         \/ ~WellPlaced(d, a)
         \/ prints # << >> /\ ~FingerprintFits(d, a, prints[1])
      THEN << >>
      ELSE <<[of |-> SetErrorCode(m, ValuesOf(ERROR_CODE, 4, buffer, a)),
              integrity |-> IF integrities = << >> THEN 0 ELSE integrities[1].at + 4,
              fingerprint |-> prints # << >>]>>

\* The length in the datagram is changed for the computation, and changed back.
CheckAuthentication_Length(p, d, stale) ==
  LET u == p.of.username
      n == Len(LocalUsername)
      buffer == d \o [i \in 1..24 |-> stale]
  IN  IF p.of.klass \notin {REQUEST, INDICATION} THEN <<"BAD_REQUEST", d>>
      ELSE IF p.integrity = 0 \/ u = << >> THEN <<"BAD_REQUEST", d>>
      ELSE IF Len(u) <= n THEN <<"UNAUTHORIZED", d>>
      ELSE IF u[n + 1] # 58 \/ Bytes(u, 0, n) # LocalUsername THEN <<"UNAUTHORIZED", d>>
      ELSE LET short == IF p.fingerprint THEN Set(d, 2, Put2(Len(d) - 28)) ELSE d
               mi == GetHmacShA1(LocalPassword, Bytes(short, 0, p.integrity - 4))
           IN  <<IF Bytes(buffer, p.integrity, 20) = mi THEN "OK" ELSE "UNAUTHORIZED", short>>
CheckAuthentication(p, d, stale) ==
  LET u == p.of.username
      n == Len(LocalUsername)
      buffer == d \o [i \in 1..24 |-> stale]
  IN  IF p.of.klass \notin {REQUEST, INDICATION} THEN <<"BAD_REQUEST", d>>
      ELSE IF p.integrity = 0 \/ u = << >> THEN <<"BAD_REQUEST", d>>
      ELSE IF Len(u) <= n THEN <<"UNAUTHORIZED", d>>
      ELSE IF u[n + 1] # 58 \/ Bytes(u, 0, n) # LocalUsername THEN <<"UNAUTHORIZED", d>>
      ELSE LET short == IF p.fingerprint THEN Set(d, 2, Put2(Len(d) - 28)) ELSE d
               mi == GetHmacShA1(LocalPassword, Bytes(short, 0, p.integrity - 4))
               result == IF Bytes(buffer, p.integrity, 20) = mi THEN "OK" ELSE "UNAUTHORIZED"
           IN  <<result, IF p.fingerprint THEN Set(short, 2, Put2(Len(d) - 20)) ELSE short>>

----------------------------------------------------------------------------
\* Answers: messages with the password they are authenticated with.

CreateErrorResponse(m, code) ==
  <<[Message(ERROR_RESPONSE, m.method, m.tid) EXCEPT !.errorCode = code], << >> >>
CreateSuccessResponse(m, from) ==
  <<[Message(SUCCESS_RESPONSE, m.method, m.tid) EXCEPT !.address = from], LocalPassword>>

Answer(p, auth, from) ==
  LET m == p.of
      refuse(code) == IF m.klass = REQUEST THEN CreateErrorResponse(m, code) ELSE << >>
  IN  IF m.method # BINDING THEN refuse(400)
      ELSE IF ~p.fingerprint /\ m.klass # INDICATION THEN refuse(400)
      ELSE IF m.klass # REQUEST THEN << >>
      ELSE IF p.integrity = 0 \/ m.priority = Zeros(4) \/ m.username = << >> THEN refuse(400)
      ELSE IF auth = "UNAUTHORIZED" THEN refuse(401)
      ELSE IF auth = "BAD_REQUEST" THEN refuse(400)
      ELSE CreateSuccessResponse(m, from)

\* Whether the IceServer gets as far as the check of the authentication.
Checks(p) ==
  /\ p.of.method = BINDING /\ p.of.klass = REQUEST /\ p.fingerprint
  /\ p.integrity # 0 /\ p.of.priority # Zeros(4) /\ p.of.username # << >>

ProcessStunMessage(s, p, stale) ==
  LET auth == IF Checks(p) THEN CheckAuthentication(p, s.data, stale) ELSE <<"", s.data>>
      a == Answer(p, auth[1], s.from)
  IN  [s EXCEPT !.after = auth[2], !.reply = IF a = << >> THEN << >> ELSE Serialize(a[1], a[2], stale)]

----------------------------------------------------------------------------
\* A peer's message, its way, and the answer.

Tid == [i \in 1..12 |-> 10 * i]
Attributed(f) ==
  LET Of(k, method, u) == [Message(k, method, Tid) EXCEPT !.username = u, !.priority = <<110, 0, 1, 255>>]
      full == {Of(k, method, u) : k \in 0..1, method \in f.methods, u \in f.usernames}
  IN  full \cup {[m EXCEPT !.priority = Zeros(4)] : m \in full}
           \cup {[m EXCEPT !.useCandidate = TRUE, !.controlling = <<1, 2, 3, 4, 5, 6, 7, 8>>] : m \in full}
           \cup {[m EXCEPT !.controlled = <<8, 7, 6, 5, 4, 3, 2, 1>>] : m \in full}
           \cup {[Message(3, method, Tid) EXCEPT !.errorCode = c] :
                   method \in f.methods, c \in {300, 401, 487, 699}}
           \cup {Message(2, method, Tid) : method \in f.methods}

Init ==
  \E f \in Focuses :
    sm \in {[step |-> "written", sent |-> m, key |-> k, data |-> Serialize(m, k, 238),
             changes |-> f.changes, changed |-> FALSE,
             got |-> << >>, reply |-> << >>, after |-> << >>, from |-> a] :
              m \in Attributed(f), k \in f.passwords, a \in f.addresses}

Change(i, v) ==
  /\ sm.step = "written" /\ ~sm.changed
  /\ sm' = [sm EXCEPT !.data[i] = (@ + v) % 256, !.changed = TRUE]
Cut(n) ==
  /\ sm.step = "written" /\ ~sm.changed /\ sm.changes # {}
  /\ sm' = [sm EXCEPT !.data = Bytes(@, 0, n), !.changed = TRUE]

Receive(stale) ==
  LET p == Parse(sm.data, stale)
      s == [sm EXCEPT !.step = "received", !.after = sm.data, !.got = p]
  IN  /\ sm.step = "written"
      /\ sm' = IF p = << >> THEN s ELSE ProcessStunMessage(s, p[1], stale)

Next ==
  \/ \E i \in DOMAIN sm.data, v \in sm.changes : Change(i, v)
  \/ \E n \in 0..(Len(sm.data) - 1) : Cut(n)
  \/ \E stale \in Stale : Receive(stale)
  \/ sm.step = "received" /\ UNCHANGED sm

----------------------------------------------------------------------------
TypeOK ==
  /\ sm.step \in {"written", "received"} /\ sm.changed \in BOOLEAN
  /\ sm.data \in Seq(0..255) /\ sm.reply \in Seq(0..255)

\* StunMessage: the size that is computed before writing is the size written
\* (MS_ASSERT pos == this->size), for messages and for answers.
SizeExact ==
  /\ ~sm.changed => Len(sm.data) = GetSize(sm.sent, sm.key) /\ Get2(sm.data, 2) = Len(sm.data) - 20
  /\ sm.reply # << >> => Get2(sm.reply, 2) = Len(sm.reply) - 20

\* StunMessage: a message that arrives as it was written is read as it was meant,
\* whatever lies behind it.
ReadsBack ==
  sm.step = "received" /\ ~sm.changed =>
    sm.got # << >> /\ sm.got[1].of = sm.sent /\ sm.got[1].fingerprint

\* StunMessage, IceServer: only a request is answered, with its transaction, and
\* with success if and only if what was read is a full request of this peer's
\* with the password; then the answer tells the peer its address and is
\* authenticated.  A datagram changed on its way is never taken for another
\* message.
Answers ==
  LET request == IF sm.got = << >> THEN FALSE ELSE sm.got[1].of.klass = REQUEST
      reply == Parse(sm.reply, 0)[1]
      user == sm.sent.username
      right == /\ sm.sent.method = BINDING /\ sm.sent.priority # Zeros(4) /\ sm.key = LocalPassword
               /\ Len(user) > Len(LocalUsername) /\ IsPrefix(LocalUsername \o <<58>>, user)
  IN  /\ sm.step = "received" => (sm.reply # << >> <=> request)
      /\ sm.reply # << >> =>
           /\ reply.of.tid = sm.got[1].of.tid /\ reply.fingerprint
           /\ reply.of.klass = SUCCESS_RESPONSE =>
                /\ right /\ sm.got[1].of = sm.sent /\ reply.integrity # 0
                /\ LET x == Bytes(sm.reply, 24, IF sm.from.family = "inet" THEN 8 ELSE 20)
                   IN  sm.from.family # "none" =>
                         /\ XorBytes(Bytes(x, 2, 2), MagicCookie) = sm.from.port
                         /\ XorBytes(Bytes(x, 4, Len(x) - 4), MagicCookie \o Tid) = sm.from.ip
           /\ reply.of.klass = ERROR_RESPONSE => reply.of.errorCode \in {400, 401} /\ reply.integrity = 0
           /\ right /\ ~sm.changed => reply.of.klass = SUCCESS_RESPONSE

\* StunMessage::CheckAuthentication: the datagram, whose length it changes for a
\* while, is as it was.
DatagramKept == sm.step = "received" => sm.after = sm.data
=============================================================================
