------------------------------ MODULE SoupSend ------------------------------
(***************************************************************************)
(* RtpSender and RtpStreamSend of mediasoup_1: packets of one receiver sent *)
(* on to another peer, kept in a fixed number of stores and sent again when *)
(* a NACK asks for them; and what the application is told of it.            *)
(***************************************************************************)
EXTENDS RtpSeq, Sequences, SequencesExt, FiniteSets, FiniteSetsExt, Functions

CONSTANTS
  Offers,           \* RtpParameters: ssrc, codecs, nack, rtx
  BufferSize,       \* storage of a stream with NACK, 750
  BitmaskBits,      \* 16
  MaxAge,           \* MaxRetransmissionAge, in packets
  MaxNumber,        \* bound on the numbers sent
  Big,              \* the packets among them that are larger than MtuSize
  Back              \* how far a packet may be behind

Stores == 1..BufferSize
Null == [ssrc |-> 0, codecs |-> {}, nack |-> FALSE, rtx |-> FALSE]

VARIABLE snd
(***************************************************************************)
(* params    rtpParameters (Null: none)                                     *)
(* supportedPayloadTypes, available, disabled, transport                    *)
(* has, x    rtpStream is set, its RtpStream and maxTimestamp               *)
(* buffer    the items, by seq32: store and whether it was resent lately    *)
(* store     what the stores hold (the number of a packet)                  *)
(* high      the highest number sent (history)                              *)
(* told      the application's idea of active; silent: it asked not to be   *)
(*           told of a change                                               *)
(* nack, resent  the last NACK item and the packets sent again for it       *)
(* faults    assertions that failed, null pointers used                     *)
(***************************************************************************)
Init ==
  snd = [params |-> Null, supportedPayloadTypes |-> {}, available |-> FALSE,
         disabled |-> FALSE, transport |-> FALSE, has |-> FALSE, x |-> NewStream,
         maxTimestamp |-> 0, buffer |-> << >>, store |-> [k \in Stores |-> 0], high |-> 0,
         told |-> FALSE, silent |-> FALSE, nack |-> {}, resent |-> << >>, faults |-> {}]

GetActive(s) == s.available /\ s.transport /\ ~s.disabled
Quiet == [snd EXCEPT !.nack = {}, !.resent = << >>]

\* EmitActiveChange, and the events that carry `active`.
Tell(s) == [s EXCEPT !.told = GetActive(s), !.silent = FALSE]
TellChange(old, s) == IF GetActive(old) # GetActive(s) THEN Tell(s) ELSE s

----------------------------------------------------------------------------
\* The buffer of RtpStreamSend.

ClearBuffer(s) == [s EXCEPT !.buffer = << >>]

\* Mutant: the oldest item gives its store away and stays.
Evict_Keeps(s, items) ==
  IF Len(items) <= BufferSize THEN [store |-> Len(items), items |-> items]
  ELSE [store |-> items[1].store, items |-> items]

\* The store of a new item: the next unused one, or that of the oldest item,
\* which goes.
Evict(s, items) ==
  IF Len(items) <= BufferSize THEN [store |-> Len(items), items |-> items]
  ELSE [store |-> items[1].store, items |-> Tail(items)]

\* StorePacket: after the last item with a lower number; a packet older than
\* every item, or larger than MtuSize, is left out.
StorePacket(s, n) ==
  LET seq32 == Extended(s.x, n % RtpSeqMod)
      lower == {i \in 1..Len(s.buffer) : s.buffer[i].seq32 < seq32}
      at == Max(lower)
      item(k) == [seq32 |-> seq32, store |-> k, resent |-> FALSE]
      e == Evict(s, InsertAt(s.buffer, at + 1, item(0)))
      put(k, items) == [s EXCEPT !.store[k] = n,
                          !.buffer = [i \in 1..Len(items) |->
                                        IF items[i].store = 0 THEN item(k) ELSE items[i]]]
  IN  IF n \in Big THEN s
      ELSE IF s.buffer = << >> THEN put(1, <<item(0)>>)
      ELSE IF lower = {} THEN s ELSE put(e.store, e.items)

\* RtpStreamSend::ReceivePacket; the storage is empty without NACK.  Of the
\* count of packets only whether it is zero matters.
StreamReceivePacket(s, n) ==
  LET u == ReceivePacket(s.x, n % RtpSeqMod)
      t == [s EXCEPT !.x = [u.x EXCEPT !.received = Min({@, 1})],
                     !.buffer = IF u.init THEN << >> ELSE @,
                     !.maxTimestamp = IF u.init THEN 0 ELSE @]
      v == [t EXCEPT !.maxTimestamp = Max({@, n})]
  IN  [ok |-> u.ok, s |-> IF u.ok /\ s.params.nack THEN StorePacket(v, n)
                          ELSE IF u.ok THEN v ELSE t]

(***************************************************************************)
(* RequestRtpRetransmission: the window of extended numbers, one cycle      *)
(* lower when it misses the buffer; of the requested ones those that are    *)
(* stored, not too old and not resent within the last RTT.                  *)
(***************************************************************************)
RequestRtpRetransmission(s, seq, bits) ==
  LET b == s.buffer
      first == Extended(s.x, seq)
      misses(k) == k > b[Len(b)].seq32 \/ k + BitmaskBits < b[1].seq32
      start == IF misses(first) /\ s.x.cycles > 0 THEN first - RtpSeqMod ELSE first
      wanted == {start} \cup {start + 1 + k : k \in bits}
      at(k) == {i \in 1..Len(b) : b[i].seq32 = k}
      found == {Min(at(k)) : k \in {j \in wanted : at(j) # {}}}
      good == {i \in found : ~b[i].resent /\ s.maxTimestamp - s.store[b[i].store] <= MaxAge}
  IN  IF ~s.params.nack \/ b = << >> \/ misses(start) THEN s
      ELSE [s EXCEPT !.buffer = [i \in 1..Len(b) |-> [b[i] EXCEPT !.resent = @ \/ i \in good]],
                     !.resent = [i \in 1..Cardinality(good) |->
                                   s.store[b[SetToSortSeq(good, <)[i]].store]]]

----------------------------------------------------------------------------
\* RtpSender.

\* CreateRtpStream: the old stream is gone.
CreateRtpStream(s) == [s EXCEPT !.has = TRUE, !.x = NewStream, !.maxTimestamp = 0,
                                !.buffer = << >>, !.store = [k \in Stores |-> 0]]

(***************************************************************************)
(* Send: every codec matches itself, so none is removed, and the payload    *)
(* types of earlier parameters stay; valid parameters have an encoding.     *)
(* The application is told with "newrtpsender" or "parameterschange".       *)
(***************************************************************************)
Send(p) ==
  snd' = Tell(CreateRtpStream([Quiet EXCEPT !.params = p, !.available = TRUE,
                                 !.supportedPayloadTypes = @ \cup p.codecs]))

SetTransport == snd' = TellChange(snd, [Quiet EXCEPT !.transport = TRUE])
RemoveTransport == snd' = TellChange(snd, [Quiet EXCEPT !.transport = FALSE])

\* Mutant: enabling again is not told.
Disable_Forgets(disabled, emit) ==
  LET s == [Quiet EXCEPT !.disabled = disabled]
  IN  snd' = IF disabled THEN TellChange(snd, s) ELSE s

\* RTP_SENDER_DISABLE.
Disable(disabled, emit) ==
  LET s == [Quiet EXCEPT !.disabled = disabled]
  IN  snd' = IF GetActive(s) = GetActive(snd) THEN s
             ELSE IF emit THEN Tell(s) ELSE [s EXCEPT !.silent = TRUE]

\* SendRtpPacket.
SendRtpPacket(n, ssrc, pt) ==
  /\ GetActive(snd)
  /\ n + Back >= snd.high
  /\ snd' = IF ~snd.has THEN [Quiet EXCEPT !.faults = @ \cup {"no RtpStream set"}]
            ELSE IF ssrc # snd.params.ssrc \/ pt \notin snd.supportedPayloadTypes THEN Quiet
            ELSE LET r == StreamReceivePacket(Quiet, n)
                 IN  IF r.ok THEN [r.s EXCEPT !.high = Max({@, n})] ELSE r.s

\* ReceiveNack with one item, and RetransmitRtpPacket for what it finds.
ReceiveNack(seq, bits) ==
  /\ snd.has
  /\ LET r == RequestRtpRetransmission(Quiet, seq, bits)
         asked == {seq} \cup {(seq + 1 + k) % RtpSeqMod : k \in bits}
     IN  snd' = [r EXCEPT !.nack = asked, !.resent = IF GetActive(snd) THEN @ ELSE << >>]

\* An RTT passes.
RttPasses ==
  /\ \E i \in 1..Len(snd.buffer) : snd.buffer[i].resent
  /\ snd' = [Quiet EXCEPT !.buffer = [i \in DOMAIN @ |-> [@[i] EXCEPT !.resent = FALSE]]]

Next ==
  \/ \E p \in Offers : Send(p)
  \/ SetTransport \/ RemoveTransport
  \/ \E disabled, emit \in BOOLEAN : Disable(disabled, emit)
  \/ \E n \in 1..MaxNumber, p \in Offers, pt \in UNION {q.codecs : q \in Offers} :
       SendRtpPacket(n, p.ssrc, pt)
  \/ \E seq \in 0..(RtpSeqMod - 1), bits \in SUBSET (0..(BitmaskBits - 1)) : ReceiveNack(seq, bits)
  \/ RttPasses

Spec == Init /\ [][Next]_snd

----------------------------------------------------------------------------
TypeOK ==
  /\ snd.params \in Offers \cup {Null} /\ Len(snd.buffer) <= BufferSize
  /\ \A k \in Stores : snd.store[k] \in 0..MaxNumber

(***************************************************************************)
(* Every packet kept for retransmission is still the packet of its number,  *)
(* in a store of its own, through eviction, reordering, a restart of the    *)
(* numbers and new parameters; a NACK is answered with packets it asked     *)
(* for; and an active sender has a stream and transport to send with.       *)
(***************************************************************************)
ResendsExact ==
  /\ \A i, j \in 1..Len(snd.buffer) :
       /\ snd.store[snd.buffer[i].store] % RtpSeqMod = snd.buffer[i].seq32 % RtpSeqMod
       /\ i < j => snd.buffer[i].seq32 <= snd.buffer[j].seq32
                   /\ snd.buffer[i].store # snd.buffer[j].store
  /\ \A i \in 1..Len(snd.resent) : snd.resent[i] % RtpSeqMod \in snd.nack
  /\ snd.faults = {}

\* The application knows whether the sender is active, whatever changed it,
\* unless it asked not to be told.
ActiveTold == snd.told = GetActive(snd) \/ snd.silent
=============================================================================
