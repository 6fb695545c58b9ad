---------------------------- MODULE SoupFraming ----------------------------
(***************************************************************************)
(* RTC::TcpConnection of mediasoup_1: packets over TCP with a length of two *)
(* bytes in front (RFC 4571).  One end writes with uv_try_write and queues  *)
(* what was not taken; the other end reads chunks of any size into a buffer *)
(* and cuts the packets out of it.                                          *)
(*                                                                          *)
(* A byte is a pair of the number of its frame and its place in the frame,  *)
(* places 0 and 1 being the length.                                         *)
(***************************************************************************)
EXTENDS Naturals, Sequences, SequencesExt, FiniteSetsExt

CONSTANTS
  BufferSize,   \* 65536 in the code
  Lengths,      \* lengths of the packets sent
  MaxFrames     \* bound on the packets sent

VARIABLE wire
(***************************************************************************)
(* sent      the lengths of the packets given to Send                       *)
(* queue     bytes of pending uv_write requests                             *)
(* flight    bytes taken by TCP and not yet read                            *)
(* buffer, start     the bytes in the buffer, frameStart                    *)
(* got       the packets given to the listener                              *)
(* closing   isClosing of the reader; over: of the writer                   *)
(***************************************************************************)
Init ==
  wire = [sent |-> << >>, queue |-> << >>, flight |-> << >>, buffer |-> << >>, start |-> 0,
          got |-> << >>, closing |-> FALSE, over |-> FALSE]

\* The bytes of frame i from place a to place b.
Bytes(i, a, b) == [x \in 1..(IF b < a THEN 0 ELSE b - a + 1) |-> <<i, a + x - 1>>]

----------------------------------------------------------------------------
\* What is queued after uv_try_write took the first `written` bytes of the two
\* buffers: the rest of the first is spliced with the second.
Pending(data1, data2, written) ==
  IF written < Len(data1) THEN SubSeq(data1, written + 1, Len(data1)) \o data2
  ELSE SubSeq(data2, written - Len(data1) + 1, Len(data2))

\* libuv takes nothing while requests are queued.
TryWrite(total) == IF wire.queue = << >> THEN 0..total ELSE {0}

\* TcpConnection::Write with two buffers.
Write(data1, data2, written) ==
  [wire EXCEPT !.flight = @ \o SubSeq(data1 \o data2, 1, written),
               !.queue = @ \o Pending(data1, data2, written)]

\* TcpConnection::Send: the length, then the packet.
Send(len) ==
  /\ ~wire.over /\ Len(wire.sent) < MaxFrames
  /\ LET i == Len(wire.sent) + 1
     IN  \E written \in TryWrite(2 + len) :
           wire' = [Write(Bytes(i, 0, 1), Bytes(i, 2, len + 1), written) EXCEPT
                      !.sent = Append(@, len)]

\* uv_try_write fails: the connection is closed and nothing is queued.
SendFails ==
  /\ ~wire.over
  /\ wire' = [wire EXCEPT !.over = TRUE]

\* libuv writes some of what is queued.
Flush ==
  /\ wire.queue # << >>
  /\ \E n \in 1..Len(wire.queue) :
       wire' = [wire EXCEPT !.flight = @ \o SubSeq(wire.queue, 1, n),
                            !.queue = SubSeq(@, n + 1, Len(wire.queue))]

----------------------------------------------------------------------------
\* OnUvReadAlloc: the space after the last byte.
Space(w) == BufferSize - Len(w.buffer)

\* Get2Bytes on the first two bytes of a frame; anything else is not a length.
PacketLen(w) ==
  LET b1 == w.buffer[w.start + 1]
      b2 == w.buffer[w.start + 2]
  IN  IF b1[2] = 0 /\ b2 = <<b1[1], 1>> THEN w.sent[b1[1]] ELSE 0

HasFrame(w) ==
  LET dataLen == Len(w.buffer) - w.start
  IN  dataLen >= 2 /\ dataLen >= 2 + PacketLen(w)

\* The listener gets a packet, unless it is the null packet.
OnPacketRecv(w, len) ==
  IF len = 0 THEN w
  ELSE [w EXCEPT !.got = Append(@, SubSeq(w.buffer, w.start + 3, w.start + 2 + len))]

\* One frame: an exactly filled buffer is emptied, else the next one follows.
TakeFrame(w) ==
  LET len == PacketLen(w)
      n == OnPacketRecv(w, len)
  IN  IF w.start + 2 + len = BufferSize
      THEN [n EXCEPT !.start = 0, !.buffer = << >>]
      ELSE [n EXCEPT !.start = @ + 2 + len]

\* Mutant: a full buffer is moved and the start of the frame is kept.
Incomplete_KeepsStart(w) ==
  IF Len(w.buffer) < BufferSize THEN w
  ELSE IF w.start # 0
       THEN [w EXCEPT !.buffer = SubSeq(@, w.start + 1, BufferSize)]
       ELSE [w EXCEPT !.closing = TRUE]

\* A full buffer is moved to its beginning, or the frame is too long.
Incomplete(w) ==
  IF Len(w.buffer) < BufferSize THEN w
  ELSE IF w.start # 0
       THEN [w EXCEPT !.buffer = SubSeq(@, w.start + 1, BufferSize), !.start = 0]
       ELSE [w EXCEPT !.closing = TRUE]

\* The loop of UserOnTcpConnectionRead, at most BufferSize frames long.  The
\* listener may close the connection with any packet: the loop stops after
\* the packet number `last`.
UserOnTcpConnectionRead(w, last) ==
  LET more(x) == HasFrame(x) /\ ~x.closing
      step(x) == LET t == TakeFrame(x)
                 IN  IF Len(t.got) = last /\ Len(t.got) > Len(x.got)
                     THEN [t EXCEPT !.closing = TRUE] ELSE t
      loop[n \in 0..BufferSize] ==
        IF n = 0 THEN w ELSE IF more(loop[n - 1]) THEN step(loop[n - 1]) ELSE loop[n - 1]
      end == loop[BufferSize]
  IN  IF end.closing \/ Len(end.buffer) = end.start THEN end ELSE Incomplete(end)

\* OnUvRead with n bytes.
OnUvRead(n, last) ==
  /\ ~wire.closing /\ n <= Len(wire.flight) /\ n <= Space(wire)
  /\ wire' = UserOnTcpConnectionRead(
               [wire EXCEPT !.buffer = @ \o SubSeq(wire.flight, 1, n),
                            !.flight = SubSeq(@, n + 1, Len(wire.flight))], last)

Next ==
  \/ \E len \in Lengths : Send(len)
  \/ SendFails
  \/ Flush
  \/ \E n \in 1..BufferSize, last \in 0..1 : OnUvRead(n, last)

Spec == Init /\ [][Next]_wire

----------------------------------------------------------------------------
TypeOK ==
  /\ Len(wire.sent) <= MaxFrames /\ wire.start \in 0..BufferSize
  /\ Len(wire.buffer) <= BufferSize /\ wire.closing \in BOOLEAN /\ wire.over \in BOOLEAN

\* The listener gets the packets that were sent, whole and in order, however
\* TCP cuts them and whatever part of a packet uv_try_write took; a reader
\* that is open has room for more ("no available space in the buffer" never
\* happens); and only a packet longer than the buffer closes it.
FramesIntact ==
  LET full == SelectSeq([i \in 1..Len(wire.sent) |-> i], LAMBDA i : wire.sent[i] # 0)
  IN  /\ Len(wire.got) <= Len(full)
      /\ \A g \in 1..Len(wire.got) : wire.got[g] = Bytes(full[g], 2, wire.sent[full[g]] + 1)
      /\ ~wire.closing => Space(wire) > 0
      /\ wire.closing => \/ Len(wire.got) = 1
                         \/ \E i \in 1..Len(wire.sent) : wire.sent[i] + 2 > BufferSize
=============================================================================
