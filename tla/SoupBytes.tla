----------------------------- MODULE SoupBytes -----------------------------
(***************************************************************************)
(* Bytes of mediasoup_1's packets (Utils::Byte): a packet is a sequence of  *)
(* bytes, offsets count from 0, numbers are in network byte order.          *)
(***************************************************************************)
EXTENDS Integers, Sequences

Put2(v) == <<v \div 256, v % 256>>
Put3(v) == <<v \div 65536>> \o Put2(v % 65536)
Put4(v) == <<v \div 16777216>> \o Put3(v % 16777216)
Bytes(d, o, n) == SubSeq(d, o + 1, o + n)
Get2(d, o) == d[o + 1] * 256 + d[o + 2]
Get3(d, o) == d[o + 1] * 65536 + Get2(d, o + 1)
Get4(d, o) == d[o + 1] * 16777216 + Get3(d, o + 1)

\* d with the bytes b written at o.
Set(d, o, b) == [i \in DOMAIN d |-> IF i > o /\ i <= o + Len(b) THEN b[i - o] ELSE d[i]]

\* What is missing to a multiple of four, and the multiple.
Pad(n) == (4 - (n % 4)) % 4
PadTo4Bytes(n) == n + Pad(n)
Zeros(n) == [i \in 1..n |-> 0]
=============================================================================
