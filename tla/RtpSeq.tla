------------------------------- MODULE RtpSeq -------------------------------
(***************************************************************************)
(* RtpStream of mediasoup_1: sequence numbers of 16 bits extended to 32 by  *)
(* the count of their cycles (RFC 3550, A.1).  The width is a constant.     *)
(***************************************************************************)
EXTENDS Naturals

CONSTANTS
  RtpSeqMod,     \* 2^16
  MaxDropout,    \* 3000
  MaxMisorder    \* 100

Mod32 == RtpSeqMod * RtpSeqMod

NewStream ==
  [started |-> FALSE, maxSeq |-> 0, cycles |-> 0, baseSeq |-> 0, badSeq |-> 0, received |-> 0,
   expectedPrior |-> 0, receivedPrior |-> 0]

InitSeq(x, seq) ==
  [x EXCEPT !.baseSeq = seq, !.maxSeq = seq, !.badSeq = RtpSeqMod + 1, !.cycles = 0,
            !.received = 0, !.receivedPrior = 0, !.expectedPrior = 0]

Received(x) == [x EXCEPT !.received = @ + 1]
Answer(ok, init, x) == [ok |-> ok, init |-> init, x |-> x]

\* Mutant: the cycle is not counted when the numbers wrap over a gap.
UpdateSeq_NoGap(x, seq) ==
  LET udelta == (seq + RtpSeqMod - x.maxSeq) % RtpSeqMod
  IN  IF udelta < MaxDropout
      THEN Answer(TRUE, FALSE, Received([x EXCEPT
             !.cycles = (@ + IF seq = 0 /\ x.maxSeq # 0 THEN RtpSeqMod ELSE 0) % Mod32,
             !.maxSeq = seq]))
      ELSE IF udelta <= RtpSeqMod - MaxMisorder
           THEN IF seq = x.badSeq THEN Answer(TRUE, TRUE, Received(InitSeq(x, seq)))
                ELSE Answer(FALSE, FALSE, [x EXCEPT !.badSeq = (seq + 1) % RtpSeqMod])
           ELSE Answer(TRUE, FALSE, Received(x))

(***************************************************************************)
(* UpdateSeq: whether the packet is valid, whether OnInitSeq was called,    *)
(* and the stream after it.  MinSequential is 0: there is no probation.     *)
(***************************************************************************)
UpdateSeq(x, seq) ==
  LET udelta == (seq + RtpSeqMod - x.maxSeq) % RtpSeqMod
  IN  IF udelta < MaxDropout
      THEN Answer(TRUE, FALSE, Received([x EXCEPT
             !.cycles = (@ + IF seq < x.maxSeq THEN RtpSeqMod ELSE 0) % Mod32,
             !.maxSeq = seq]))
      ELSE IF udelta <= RtpSeqMod - MaxMisorder
           THEN IF seq = x.badSeq THEN Answer(TRUE, TRUE, Received(InitSeq(x, seq)))
                ELSE Answer(FALSE, FALSE, [x EXCEPT !.badSeq = (seq + 1) % RtpSeqMod])
           ELSE Answer(TRUE, FALSE, Received(x))

\* ReceivePacket: the first packet initialises the stream.
ReceivePacket(x, seq) ==
  IF x.started THEN UpdateSeq(x, seq)
  ELSE LET first == [InitSeq(x, seq) EXCEPT !.started = TRUE,
                                            !.maxSeq = (seq + RtpSeqMod - 1) % RtpSeqMod]
       IN  [UpdateSeq(first, seq) EXCEPT !.init = TRUE]

\* The extended number of a packet that was let through.
Extended(x, seq) == (x.cycles + seq) % Mod32
=============================================================================
