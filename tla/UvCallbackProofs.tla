-------------------------- MODULE UvCallbackProofs --------------------------
(* Theorems about UvCallback, for every set of callers and every number of   *)
(* calls: the queue implements CallFifo, no wake-up is lost, and a call of   *)
(* uv_callback_fire_sync that is not timed out returns its own answer.       *)
(* And about MediasoupChannel, a user of uv_callback (M, the last part), for *)
(* every set of connections: while no freed memory was used, every wait has  *)
(* its letter and its timer, a client is called back once, and kore and the  *)
(* worker agree on the rooms.                                                *)
EXTENDS UvCallback, SequenceTheorems, FiniteSetTheorems, TLAPS

----------------------------------------------------------------------------
(* The queue is linked newest first; read backwards it is a FIFO.          *)

\* What a reversed queue is, entry by entry.
LEMMA ReverseType ==
    ASSUME NEW S, NEW q \in Seq(S)
    PROVE  /\ Reverse(q) \in Seq(S)
           /\ Len(Reverse(q)) = Len(q)
           /\ \A i \in 1..Len(q) : Reverse(q)[i] = q[(Len(q) - i) + 1]
<1>1. Len(q) \in Nat
  OBVIOUS
<1>2. \A i \in 1..Len(q) : q[(Len(q) - i) + 1] \in S
  <2> TAKE i \in 1..Len(q)
  <2>1. (Len(q) - i) + 1 \in 1..Len(q)
    BY <1>1
  <2> QED BY <2>1, ElementOfSeq
<1>3. Reverse(q) \in [1..Len(q) -> S]
  BY <1>2 DEF Reverse
<1>4. Reverse(q) \in Seq(S)
  BY <1>1, <1>3, SeqDef
<1>5. DOMAIN Reverse(q) = 1..Len(q)
  BY DEF Reverse
<1>6. Len(Reverse(q)) = Len(q)
  BY <1>1, <1>4, <1>5, LenProperties
<1> QED BY <1>4, <1>6 DEF Reverse

\* A call linked at the head is the last one when read backwards.
LEMMA ReversePush ==
    ASSUME NEW S, NEW q \in Seq(S), NEW x \in S
    PROVE  Reverse(<<x>> \o q) = Append(Reverse(q), x)
<1> DEFINE p == <<x>> \o q
           r == Append(Reverse(q), x)
<1>1. /\ p \in Seq(S) /\ Len(p) = Len(q) + 1
      /\ \A i \in 1..(Len(q) + 1) : p[i] = IF i = 1 THEN x ELSE q[i - 1]
  <2>1. <<x>> \in Seq(S) /\ Len(<<x>>) = 1 /\ <<x>>[1] = x
    OBVIOUS
  <2>2. /\ p \in Seq(S) /\ Len(p) = 1 + Len(q)
        /\ \A i \in 1..(1 + Len(q)) : p[i] = IF i <= 1 THEN <<x>>[i] ELSE q[i - 1]
    BY <2>1, ConcatProperties
  <2> QED BY <2>1, <2>2
<1>2. /\ r \in Seq(S) /\ Len(r) = Len(q) + 1
      /\ \A i \in 1..(Len(q) + 1) : r[i] = IF i <= Len(q) THEN Reverse(q)[i] ELSE x
  BY ReverseType, AppendProperties
<1> HIDE DEF p, r
<1>3. /\ Reverse(p) \in Seq(S) /\ Len(Reverse(p)) = Len(p)
      /\ \A i \in 1..Len(p) : Reverse(p)[i] = p[(Len(p) - i) + 1]
  BY <1>1, ReverseType
<1>4. ASSUME NEW i \in 1..Len(Reverse(p)) PROVE Reverse(p)[i] = r[i]
  <2>0. Len(q) \in Nat /\ i \in 1..(Len(q) + 1)
    BY <1>1, <1>3
  <2>1. CASE i <= Len(q)
    <3>1. (Len(p) - i) + 1 \in 2..(Len(q) + 1) /\ ((Len(p) - i) + 1) - 1 = (Len(q) - i) + 1
      BY <1>1, <2>0, <2>1
    <3>2. p[(Len(p) - i) + 1] = q[(Len(q) - i) + 1]
      BY <1>1, <2>0, <3>1
    <3>3. r[i] = q[(Len(q) - i) + 1]
      BY <1>2, <2>0, <2>1, ReverseType
    <3> QED BY <1>1, <1>3, <2>0, <3>2, <3>3
  <2>2. CASE i = Len(q) + 1
    BY <1>1, <1>2, <1>3, <2>0, <2>2
  <2> QED BY <2>0, <2>1, <2>2
<1>5. Len(Reverse(p)) = Len(r)
  BY <1>1, <1>2, <1>3
<1>6. Reverse(p) = r
  BY <1>2, <1>3, <1>4, <1>5, SeqEqual
<1> QED BY <1>6 DEF p, r

\* The call unlinked from the tail is the first one when read backwards.
LEMMA ReversePop ==
    ASSUME NEW S, NEW q \in Seq(S), q # <<>>
    PROVE  /\ Last(q) \in S
           /\ Front(q) \in Seq(S)
           /\ Reverse(q) = <<Last(q)>> \o Reverse(Front(q))
<1> DEFINE f == Front(q)
           n == Len(q)
           r == <<Last(q)>> \o Reverse(f)
<1>1. n \in Nat \ {0}
  BY EmptySeq
<1>2. Last(q) \in S /\ Last(q) = q[n]
  BY <1>1, ElementOfSeq DEF Last
<1>3. /\ f \in Seq(S) /\ Len(f) = n - 1
      /\ \A i \in 1..(n - 1) : f[i] = q[i]
  <2>1. \A i \in 1..(n - 1) : q[i] \in S
    BY <1>1, ElementOfSeq
  <2>2. /\ f \in Seq(S)
        /\ Len(f) = IF 1 <= n - 1 THEN (n - 1) - 1 + 1 ELSE 0
        /\ \A i \in 1..((n - 1) - 1 + 1) : f[i] = q[1 + i - 1]
    BY <1>1, <2>1, SubSeqProperties DEF Front
  <2> HIDE DEF f, n
  <2>3. (n - 1) - 1 + 1 = n - 1 /\ \A i \in 1..(n - 1) : 1 + i - 1 = i
    BY <1>1
  <2>4. Len(f) = n - 1
    BY <1>1, <2>2
  <2> QED BY <2>2, <2>3, <2>4
<1> HIDE DEF f
<1>4. /\ Reverse(f) \in Seq(S) /\ Len(Reverse(f)) = n - 1
      /\ \A i \in 1..(n - 1) : Reverse(f)[i] = f[((n - 1) - i) + 1]
  BY <1>3, ReverseType
<1>5. /\ r \in Seq(S) /\ Len(r) = n
      /\ \A i \in 1..n : r[i] = IF i = 1 THEN Last(q) ELSE Reverse(f)[i - 1]
  <2>1. <<Last(q)>> \in Seq(S) /\ Len(<<Last(q)>>) = 1 /\ <<Last(q)>>[1] = Last(q)
    BY <1>2
  <2>2. /\ r \in Seq(S) /\ Len(r) = 1 + (n - 1)
        /\ \A i \in 1..(1 + (n - 1)) : r[i] = IF i <= 1 THEN <<Last(q)>>[i] ELSE Reverse(f)[i - 1]
    BY <1>4, <2>1, ConcatProperties
  <2> QED BY <1>1, <2>1, <2>2
<1> HIDE DEF r
<1>6. /\ Reverse(q) \in Seq(S) /\ Len(Reverse(q)) = n
      /\ \A i \in 1..n : Reverse(q)[i] = q[(n - i) + 1]
  BY ReverseType
<1>7. ASSUME NEW i \in 1..n PROVE Reverse(q)[i] = r[i]
  <2>1. CASE i = 1
    BY <1>1, <1>2, <1>5, <1>6, <2>1
  <2>2. CASE i # 1
    <3>1. /\ i - 1 \in 1..(n - 1)
          /\ ((n - 1) - (i - 1)) + 1 = (n - i) + 1
          /\ (n - i) + 1 \in 1..(n - 1)
      BY <1>1, <2>2
    <3>2. Reverse(f)[i - 1] = q[(n - i) + 1]
      BY <1>3, <1>4, <3>1
    <3> QED BY <1>5, <1>6, <2>2, <3>2
  <2> QED BY <2>1, <2>2
<1>8. Reverse(q) = r
  BY <1>5, <1>6, <1>7, SeqEqual
<1> QED BY <1>2, <1>3, <1>8 DEF f, r

\* An empty queue read backwards is empty.
LEMMA ReverseEmpty == Reverse(<<>>) = <<>>
BY DEF Reverse

----------------------------------------------------------------------------
(* Type correctness.                                                       *)

\* The numbers of a caller in the middle of a call count at least that call,
\* and a call that is being notified has somebody to notify.
Progress ==
    /\ \A t \in Callers : pc[t] \in {"sync_linked", "waiting"} => fired[t] > 0
    /\ lpc = "notify" => current.notify # NoOne

\* Type correctness, with the progress of the callers.
TypeInv == TypeOK /\ Progress

\* Linking a call keeps the queue a sequence of calls.
LEMMA LinkType ==
    ASSUME TypeOK, NEW call \in Call, Link(call)
    PROVE  queue' \in Seq(Call)
BY DEF Link, TypeOK

\* Firing counts one more call of the caller, within the bound.
LEMMA FiresType ==
    ASSUME TypeOK, NEW t \in Callers, NEW kind, Fires(t, kind)
    PROVE  /\ NextId(t) \in Ids
           /\ fired' \in [Callers -> 0..MaxFires]
           /\ fired'[t] > 0
           /\ \A u \in Callers : u # t => fired'[u] = fired[u]
BY CallersAssumption DEF Fires, NextId, Ids, TypeOK

\* dequeue_call keeps the types, and has a call to run unless it goes idle.
LEMMA DequeueType ==
    ASSUME TypeOK, lpc = "poll", DequeueCall
    PROVE  /\ queue' \in Seq(Call)
           /\ idle_active' \in BOOLEAN
           /\ lpc' \in {"poll", "call"}
           /\ current' \in Call \cup {NoCall}
           /\ lpc' = "poll" <=> current' = NoCall
<1>1. CASE queue = <<>>
  BY <1>1 DEF DequeueCall, TypeOK
<1>2. CASE queue # <<>>
  <2>1. Last(queue) \in Call /\ Front(queue) \in Seq(Call)
    BY <1>2, ReversePop DEF TypeOK
  <2> QED BY <1>2, <2>1, CallersAssumption DEF DequeueCall, TypeOK
<1> QED BY <1>1, <1>2

\* The answer found on a frame's own queue is a call's, or none.
LEMMA AnswerType ==
    ASSUME TypeOK, NEW t \in Callers
    PROVE  Answer(t) \in Ids \cup {NoCall}
<1>1. CASE nqueue[t] # <<>>
  BY <1>1, ReversePop DEF Answer, TypeOK
<1>2. CASE nqueue[t] = <<>>
  BY <1>2 DEF Answer
<1> QED BY <1>1, <1>2

\* The part of TypeInv about the queue and the loop.
LoopTypes ==
    /\ queue \in Seq(Call)
    /\ idle_active \in BOOLEAN
    /\ async_sent \in BOOLEAN
    /\ lpc \in {"poll", "call", "notify"}
    /\ current \in Call \cup {NoCall}
    /\ lpc = "poll" <=> current = NoCall
    /\ done \in Seq(Call)
    /\ lpc = "notify" => current.notify # NoOne

\* The part of TypeInv about a coalescing callback.
CoalesceTypes ==
    /\ arg \in Ids \cup {NoCall}
    /\ arg_sent \in BOOLEAN
    /\ arg_seen \in Ids \cup {NoCall}

\* The part of TypeInv about the callers.
CallerTypes ==
    /\ pc \in [Callers -> {"ready", "linked", "sync_linked", "waiting", "arg_written"}]
    /\ fired \in [Callers -> 0..MaxFires]
    /\ \A t \in Callers : pc[t] \in {"sync_linked", "waiting"} => fired[t] > 0

\* The part of TypeInv about the frames of uv_callback_fire_sync.
FrameTypes ==
    /\ nqueue \in [Callers -> Seq(Ids)]
    /\ nsent \in [Callers -> BOOLEAN]
    /\ ret \in [Callers -> [call : Ids \cup {NoCall},
                            rc : {"none", "OK", "ENOMEM", "ETIMEDOUT"},
                            data : Ids \cup {NoCall}]]

\* TypeInv is its four parts.
LEMMA TypeParts == TypeInv <=> LoopTypes /\ CoalesceTypes /\ CallerTypes /\ FrameTypes
BY DEF TypeInv, TypeOK, Progress, LoopTypes, CoalesceTypes, CallerTypes, FrameTypes

\* Returning from uv_callback_fire_sync keeps the types.
LEMMA ReturnsType ==
    ASSUME TypeInv, NEW t \in Callers, pc[t] = "waiting",
           NEW code \in {"OK", "ETIMEDOUT"}, Returns(t, code)
    PROVE  CallerTypes' /\ FrameTypes'
<1>1. <<t, fired[t]>> \in Ids
  BY CallersAssumption DEF TypeInv, TypeOK, Progress, Ids
<1>2. Answer(t) \in Ids \cup {NoCall}
  BY AnswerType DEF TypeInv
<1>3. [call |-> <<t, fired[t]>>, rc |-> code, data |-> Answer(t)]
        \in [call : Ids \cup {NoCall}, rc : {"none", "OK", "ENOMEM", "ETIMEDOUT"},
             data : Ids \cup {NoCall}]
  BY <1>1, <1>2
<1>4. ret' \in [Callers -> [call : Ids \cup {NoCall},
                            rc : {"none", "OK", "ENOMEM", "ETIMEDOUT"},
                            data : Ids \cup {NoCall}]]
  BY <1>3 DEF Returns, TypeInv, TypeOK
<1>5. FrameTypes'
  BY <1>4 DEF Returns, FrameTypes, TypeInv, TypeOK, frame
<1>6. CallerTypes'
  BY DEF Returns, CallerTypes, TypeInv, TypeOK, Progress
<1> QED BY <1>5, <1>6

(***************************************************************************)
(* Every variable keeps its type, and the loop thread holds a call exactly *)
(* while it handles one: it never touches a call it has freed.             *)
(***************************************************************************)
THEOREM TypeCorrect == Spec => []TypeInv
<1>1. Init => TypeInv
  <2> SUFFICES ASSUME Init PROVE LoopTypes /\ CoalesceTypes /\ CallerTypes /\ FrameTypes
    BY TypeParts
  <2>1. LoopTypes /\ CoalesceTypes /\ CallerTypes
    <3>1. LoopTypes
      <4>1. queue \in Seq(Call) /\ done \in Seq(Call)
        BY DEF Init
      <4>2. idle_active \in BOOLEAN /\ async_sent \in BOOLEAN
        BY DEF Init
      <4>3. lpc = "poll" /\ current = NoCall
        BY DEF Init
      <4> QED BY <4>1, <4>2, <4>3 DEF LoopTypes
    <3>2. CoalesceTypes
      BY DEF Init, CoalesceTypes
    <3>3. CallerTypes
      BY CallersAssumption DEF Init, CallerTypes
    <3> QED BY <3>1, <3>2, <3>3
  <2>2. FrameTypes
    BY DEF Init, FrameTypes
  <2> QED BY <2>1, <2>2
<1>2. TypeInv /\ [Next]_vars => TypeInv'
  <2> SUFFICES ASSUME TypeInv, [Next]_vars
               PROVE  LoopTypes' /\ CoalesceTypes' /\ CallerTypes' /\ FrameTypes'
    BY DEF TypeInv, TypeOK, Progress, LoopTypes, CoalesceTypes, CallerTypes, FrameTypes
  <2>0. LoopTypes /\ CoalesceTypes /\ CallerTypes /\ FrameTypes /\ TypeOK
    BY TypeParts DEF TypeInv
  <2>1. ASSUME UNCHANGED loop PROVE LoopTypes'
    BY <2>0, <2>1 DEF loop, LoopTypes
  <2>2. ASSUME UNCHANGED coalesce PROVE CoalesceTypes'
    BY <2>0, <2>2 DEF coalesce, CoalesceTypes
  <2>3. ASSUME UNCHANGED <<pc, fired>> PROVE CallerTypes'
    BY <2>0, <2>3 DEF CallerTypes
  <2>4. ASSUME UNCHANGED <<frame, ret>> PROVE FrameTypes'
    BY <2>0, <2>4 DEF frame, FrameTypes
  <2>5. CASE UNCHANGED vars
    BY <2>1, <2>2, <2>3, <2>4, <2>5 DEF vars
  <2>6. ASSUME NEW t \in Callers, Fire(t)
        PROVE  LoopTypes' /\ CoalesceTypes' /\ CallerTypes' /\ FrameTypes'
    <3>1. PICK n \in {NoOne, "result"} :
             Link([id |-> NextId(t), fn |-> "work", notify |-> n])
      BY <2>6 DEF Fire
    <3>2. NextId(t) \in Ids /\ fired' \in [Callers -> 0..MaxFires] /\ fired'[t] > 0
          /\ \A u \in Callers : u # t => fired'[u] = fired[u]
      BY <2>0, <2>6, FiresType DEF Fire
    <3>3. [id |-> NextId(t), fn |-> "work", notify |-> n] \in Call
      BY <3>2 DEF Call
    <3>4. queue' \in Seq(Call)
      BY <2>0, <3>1, <3>3, LinkType
    <3>5. LoopTypes'
      BY <2>0, <2>6, <3>4 DEF Fire, LoopTypes
    <3>6. CallerTypes'
      BY <2>0, <2>6, <3>2 DEF Fire, CallerTypes
    <3> QED BY <2>2, <2>4, <2>6, <3>5, <3>6 DEF Fire
  <2>7. ASSUME NEW t \in Callers, FireSync(t)
        PROVE  LoopTypes' /\ CoalesceTypes' /\ CallerTypes' /\ FrameTypes'
    <3>1. NextId(t) \in Ids /\ fired' \in [Callers -> 0..MaxFires] /\ fired'[t] > 0
          /\ \A u \in Callers : u # t => fired'[u] = fired[u]
      BY <2>0, <2>7, FiresType DEF FireSync
    <3>2. [id |-> NextId(t), fn |-> "work", notify |-> t] \in Call
      BY <3>1 DEF Call
    <3>3. queue' \in Seq(Call)
      BY <2>0, <2>7, <3>2, LinkType DEF FireSync
    <3>4. LoopTypes'
      BY <2>0, <2>7, <3>3 DEF FireSync, LoopTypes
    <3>5. CallerTypes'
      BY <2>0, <2>7, <3>1 DEF FireSync, CallerTypes
    <3>6. FrameTypes'
      BY <2>0, <2>7 DEF FireSync, FrameTypes
    <3> QED BY <2>2, <2>7, <3>4, <3>5, <3>6 DEF FireSync
  <2>8. ASSUME NEW t \in Callers, FireFails(t)
        PROVE  LoopTypes' /\ CoalesceTypes' /\ CallerTypes' /\ FrameTypes'
    <3>1. NextId(t) \in Ids /\ fired' \in [Callers -> 0..MaxFires] /\ fired'[t] > 0
          /\ \A u \in Callers : u # t => fired'[u] = fired[u]
      BY <2>0, <2>8, FiresType DEF FireFails
    <3>2. CallerTypes'
      BY <2>0, <2>8, <3>1 DEF FireFails, CallerTypes
    <3>3. FrameTypes'
      <4>1. CASE UNCHANGED ret
        BY <2>0, <2>8, <3>1, <4>1 DEF FireFails, FrameTypes, frame
      <4>2. CASE ret' = [ret EXCEPT ![t] =
                   [call |-> NextId(t), rc |-> "ENOMEM", data |-> NoCall]]
        BY <2>0, <2>8, <3>1, <4>2 DEF FireFails, FrameTypes, frame
      <4> QED BY <2>8, <4>1, <4>2 DEF FireFails
    <3> QED BY <2>1, <2>2, <2>8, <3>2, <3>3 DEF FireFails
  <2>9. ASSUME NEW t \in Callers, AsyncSend(t)
        PROVE  LoopTypes' /\ CoalesceTypes' /\ CallerTypes' /\ FrameTypes'
    <3>1. LoopTypes'
      BY <2>0, <2>9 DEF AsyncSend, LoopTypes
    <3>2. CallerTypes'
      BY <2>0, <2>9 DEF AsyncSend, CallerTypes
    <3> QED BY <2>2, <2>4, <2>9, <3>1, <3>2 DEF AsyncSend
  <2>10. ASSUME NEW t \in Callers, SyncAnswered(t) \/ SyncTimesOut(t)
         PROVE  LoopTypes' /\ CoalesceTypes' /\ CallerTypes' /\ FrameTypes'
    <3>1. UNCHANGED <<loop, coalesce>>
      BY <2>10 DEF SyncAnswered, SyncTimesOut, Returns
    <3> QED BY <2>1, <2>2, <2>10, <3>1, ReturnsType DEF SyncAnswered, SyncTimesOut
  <2>11. ASSUME NEW t \in Callers, FireCoalesced(t)
         PROVE  LoopTypes' /\ CoalesceTypes' /\ CallerTypes' /\ FrameTypes'
    <3>1. NextId(t) \in Ids /\ fired' \in [Callers -> 0..MaxFires] /\ fired'[t] > 0
          /\ \A u \in Callers : u # t => fired'[u] = fired[u]
      BY <2>0, <2>11, FiresType DEF FireCoalesced
    <3>2. CallerTypes'
      BY <2>0, <2>11, <3>1 DEF FireCoalesced, CallerTypes
    <3>3. CoalesceTypes'
      BY <2>0, <2>11, <3>1 DEF FireCoalesced, CoalesceTypes
    <3> QED BY <2>1, <2>4, <2>11, <3>2, <3>3 DEF FireCoalesced
  <2>12. ASSUME NEW t \in Callers, SendCoalesced(t)
         PROVE  LoopTypes' /\ CoalesceTypes' /\ CallerTypes' /\ FrameTypes'
    <3>1. CallerTypes' /\ CoalesceTypes'
      BY <2>0, <2>12 DEF SendCoalesced, CallerTypes, CoalesceTypes
    <3> QED BY <2>1, <2>4, <2>12, <3>1 DEF SendCoalesced
  <2>13. CASE AsyncCb \/ IdleCb
    <3>1. lpc = "poll" /\ DequeueCall
      BY <2>13 DEF AsyncCb, IdleCb
    <3>2. LoopTypes'
      BY <2>0, <2>13, <3>1, DequeueType DEF AsyncCb, IdleCb, LoopTypes
    <3> QED BY <2>2, <2>3, <2>4, <2>13, <3>2 DEF AsyncCb, IdleCb
  <2>14. CASE CallFunction
    <3>1. current \in Call
      BY <2>0, <2>14 DEF CallFunction, LoopTypes
    <3>2. done' \in Seq(Call)
      BY <2>0, <2>14, <3>1 DEF CallFunction, LoopTypes
    <3>3. CASE Rearm /\ UNCHANGED <<queue, nqueue>>
      <4>1. LoopTypes'
        BY <2>0, <2>14, <3>2, <3>3 DEF CallFunction, Rearm, LoopTypes
      <4> QED BY <2>2, <2>3, <2>4, <2>14, <3>3, <4>1 DEF CallFunction, frame
    <3>4. CASE /\ current.notify = "result"
               /\ Link([id |-> current.id, fn |-> "result", notify |-> NoOne])
               /\ lpc' = "notify"
               /\ UNCHANGED <<idle_active, current, nqueue>>
      <4>1. [id |-> current.id, fn |-> "result", notify |-> NoOne] \in Call
        BY <3>1 DEF Call
      <4>2. queue' \in Seq(Call)
        BY <2>0, <3>4, <4>1, LinkType
      <4>3. LoopTypes'
        BY <2>0, <2>14, <3>1, <3>2, <3>4, <4>2, CallersAssumption DEF CallFunction, LoopTypes
      <4> QED BY <2>2, <2>3, <2>4, <2>14, <3>4, <4>3 DEF CallFunction, frame
    <3>5. CASE /\ current.notify \in Callers
               /\ nqueue' = IF Alive(current.notify)
                            THEN [nqueue EXCEPT ![current.notify] = <<current.id>> \o @]
                            ELSE nqueue
               /\ lpc' = "notify"
               /\ UNCHANGED <<queue, idle_active, current>>
      <4>1. LoopTypes'
        BY <2>0, <2>14, <3>1, <3>2, <3>5, CallersAssumption DEF CallFunction, LoopTypes
      <4>2. current.id \in Ids
        BY <3>1 DEF Call
      <4>3. <<current.id>> \o nqueue[current.notify] \in Seq(Ids)
        BY <2>0, <3>5, <4>2 DEF FrameTypes
      <4>4. FrameTypes'
        BY <2>0, <2>14, <3>5, <4>3 DEF CallFunction, FrameTypes
      <4> QED BY <2>2, <2>3, <2>14, <4>1, <4>4 DEF CallFunction
    <3> QED BY <2>14, <3>3, <3>4, <3>5 DEF CallFunction
  <2>15. CASE NotifySend
    <3>1. LoopTypes'
      BY <2>0, <2>15 DEF NotifySend, Rearm, LoopTypes
    <3>2. FrameTypes'
      <4>1. CASE UNCHANGED nsent
        BY <2>0, <2>15, <4>1 DEF NotifySend, FrameTypes
      <4>2. CASE nsent' = [nsent EXCEPT ![current.notify] = @ \/ Alive(current.notify)]
        BY <2>0, <2>15, <4>2 DEF NotifySend, FrameTypes, Alive
      <4> QED BY <2>15, <4>1, <4>2 DEF NotifySend
    <3> QED BY <2>2, <2>3, <2>15, <3>1, <3>2 DEF NotifySend
  <2>16. CASE CoalescedCb
    <3>1. CoalesceTypes'
      BY <2>0, <2>16 DEF CoalescedCb, CoalesceTypes
    <3> QED BY <2>1, <2>3, <2>4, <2>16, <3>1 DEF CoalescedCb
  <2> QED BY <2>5, <2>6, <2>7, <2>8, <2>9, <2>10, <2>11, <2>12, <2>13, <2>14, <2>15, <2>16
        DEF Next
<1> QED BY <1>1, <1>2, PTL DEF Spec

\* TypeOK, as the runs check it.
THEOREM TypeOKHolds == Spec => []TypeOK
BY TypeCorrect, PTL DEF TypeInv

----------------------------------------------------------------------------
(* No wake-up is lost.                                                     *)

(***************************************************************************)
(* Whenever a call is in the queue somebody will come for it, whatever the *)
(* order in which threads link and send and libuv coalesces what is sent.  *)
(* The interesting step is the end of a call: it starts the idle handle    *)
(* whether or not the queue is empty, because a thread may have linked a   *)
(* call whose uv_async_send was merged with an earlier one.                *)
(***************************************************************************)
THEOREM NoLostCallHolds == Spec => []NoLostCall
<1>1. Init => NoLostCall
  BY DEF Init, NoLostCall
<1>2. TypeInv /\ NoLostCall /\ [Next]_vars => NoLostCall'
  <2> SUFFICES ASSUME TypeInv, NoLostCall, [Next]_vars PROVE NoLostCall'
    OBVIOUS
  <2>0. pc \in [Callers -> {"ready", "linked", "sync_linked", "waiting", "arg_written"}]
    BY DEF TypeInv, TypeOK
  <2>1. CASE UNCHANGED vars
    BY <2>1 DEF NoLostCall, vars, loop
  <2>2. ASSUME NEW t \in Callers, Fire(t) \/ FireSync(t) PROVE NoLostCall'
    BY <2>0, <2>2 DEF Fire, FireSync, NoLostCall
  <2>3. ASSUME NEW t \in Callers, AsyncSend(t) PROVE NoLostCall'
    BY <2>3 DEF AsyncSend, NoLostCall
  <2>4. ASSUME NEW t \in Callers, FireFails(t) PROVE NoLostCall'
    BY <2>4 DEF FireFails, NoLostCall, loop
  <2>5. ASSUME NEW t \in Callers, SyncAnswered(t) \/ SyncTimesOut(t) \/ FireCoalesced(t)
               \/ SendCoalesced(t)
        PROVE  NoLostCall'
    <3>1. UNCHANGED loop
      BY <2>5 DEF SyncAnswered, SyncTimesOut, Returns, FireCoalesced, SendCoalesced
    <3>2. \A u \in Callers : pc[u] \in {"linked", "sync_linked"} => pc'[u] = pc[u]
      BY <2>0, <2>5
         DEF SyncAnswered, SyncTimesOut, Returns, FireCoalesced, SendCoalesced, Fires
    <3> QED BY <3>1, <3>2 DEF NoLostCall, loop
  <2>6. CASE AsyncCb \/ IdleCb
    <3>1. CASE queue = <<>>
      BY <2>6, <3>1 DEF AsyncCb, IdleCb, DequeueCall, NoLostCall
    <3>2. CASE queue # <<>>
      BY <2>6, <3>2 DEF AsyncCb, IdleCb, DequeueCall, NoLostCall
    <3> QED BY <3>1, <3>2
  <2>7. CASE CallFunction
    BY <2>7 DEF CallFunction, Rearm, NoLostCall
  <2>8. CASE NotifySend
    BY <2>8 DEF NotifySend, Rearm, NoLostCall
  <2>9. CASE CoalescedCb
    BY <2>9 DEF CoalescedCb, NoLostCall, loop
  <2> QED BY <2>1, <2>2, <2>3, <2>4, <2>5, <2>6, <2>7, <2>8, <2>9 DEF Next
<1> QED BY <1>1, <1>2, TypeCorrect, PTL DEF Spec

----------------------------------------------------------------------------
(* The coalescing callback.                                                *)

(***************************************************************************)
(* What was written last to callback->arg is never missed: threads write   *)
(* it without a lock, but each of them sends after it has written, and the *)
(* loop thread reads after it has taken the send.                          *)
(***************************************************************************)
THEOREM CoalescedLatestHolds == Spec => []CoalescedLatest
<1>1. Init => CoalescedLatest
  BY DEF Init, CoalescedLatest
<1>2. TypeInv /\ CoalescedLatest /\ [Next]_vars => CoalescedLatest'
  <2> SUFFICES ASSUME TypeInv, CoalescedLatest, [Next]_vars PROVE CoalescedLatest'
    OBVIOUS
  <2>0. pc \in [Callers -> {"ready", "linked", "sync_linked", "waiting", "arg_written"}]
    BY DEF TypeInv, TypeOK
  <2>1. ASSUME UNCHANGED coalesce,
               \A u \in Callers : pc[u] = "arg_written" => pc'[u] = pc[u]
        PROVE  CoalescedLatest'
    BY <2>1 DEF CoalescedLatest, coalesce
  <2>2. CASE UNCHANGED vars
    BY <2>1, <2>2 DEF vars
  <2>3. ASSUME NEW t \in Callers, Fire(t) \/ FireSync(t) \/ FireFails(t)
        PROVE  CoalescedLatest'
    BY <2>0, <2>1, <2>3 DEF Fire, FireSync, FireFails, Fires
  <2>4. ASSUME NEW t \in Callers, AsyncSend(t) \/ SyncAnswered(t) \/ SyncTimesOut(t)
        PROVE  CoalescedLatest'
    BY <2>0, <2>1, <2>4 DEF AsyncSend, SyncAnswered, SyncTimesOut, Returns
  <2>5. ASSUME NEW t \in Callers, FireCoalesced(t) PROVE CoalescedLatest'
    BY <2>0, <2>5 DEF FireCoalesced, CoalescedLatest
  <2>6. ASSUME NEW t \in Callers, SendCoalesced(t) PROVE CoalescedLatest'
    BY <2>6 DEF SendCoalesced, CoalescedLatest
  <2>7. CASE AsyncCb \/ IdleCb \/ CallFunction \/ NotifySend
    BY <2>1, <2>7 DEF AsyncCb, IdleCb, CallFunction, NotifySend
  <2>8. CASE CoalescedCb
    BY <2>8 DEF CoalescedCb, CoalescedLatest
  <2> QED BY <2>2, <2>3, <2>4, <2>5, <2>6, <2>7, <2>8 DEF Next
<1> QED BY <1>1, <1>2, TypeCorrect, PTL DEF Spec

----------------------------------------------------------------------------
(* The queue implements CallFifo.                                          *)

\* The calls still to run are a sequence of calls.
LEMMA WaitingType ==
    ASSUME TypeInv
    PROVE  Waiting \in Seq(Call) /\ Reverse(queue) \in Seq(Call)
<1>1. Reverse(queue) \in Seq(Call)
  BY ReverseType DEF TypeInv, TypeOK
<1>2. CASE lpc = "call"
  <2>1. current \in Call
    BY <1>2 DEF TypeInv, TypeOK
  <2> QED BY <1>1, <1>2, <2>1 DEF Waiting
<1>3. CASE lpc # "call"
  BY <1>1, <1>3 DEF Waiting
<1> QED BY <1>1, <1>2, <1>3

\* A link while the loop thread does not move is an Accept.
LEMMA LinkAccepts ==
    ASSUME TypeInv, NEW call \in Call, Link(call), UNCHANGED <<lpc, current, done>>
    PROVE  Fifo!Next
<1> DEFINE pre == IF lpc = "call" THEN <<current>> ELSE <<>>
<1>1. pre \in Seq(Call)
  BY DEF TypeInv, TypeOK
<1>2. Reverse(queue) \in Seq(Call)
  BY WaitingType
<1>3. Reverse(queue') = Append(Reverse(queue), call)
  BY ReversePush DEF Link, TypeInv, TypeOK
<1>4. Waiting = pre \o Reverse(queue) /\ Waiting' = pre \o Reverse(queue')
  BY DEF Waiting
<1> HIDE DEF pre
<1>5. pre \o Append(Reverse(queue), call) = Append(pre \o Reverse(queue), call)
  <2>1. Append(Reverse(queue), call) = Reverse(queue) \o <<call>>
    BY <1>2, AppendIsConcat
  <2>2. pre \o Reverse(queue) \in Seq(Call)
    BY <1>1, <1>2, ConcatProperties
  <2>3. Append(pre \o Reverse(queue), call) = (pre \o Reverse(queue)) \o <<call>>
    BY <2>2, AppendIsConcat
  <2>4. <<call>> \in Seq(Call)
    OBVIOUS
  <2> QED BY <1>1, <1>2, <2>1, <2>3, <2>4, ConcatAssociative
<1>6. Waiting' = Append(Waiting, call)
  BY <1>3, <1>4, <1>5
<1>7. Fifo!Accept(call)
  BY <1>6 DEF Fifo!Accept
<1> QED BY <1>7 DEF Fifo!Next

\* Taking a call off the queue changes nothing of what is still to run.
LEMMA DequeueStutters ==
    ASSUME TypeInv, lpc = "poll", DequeueCall
    PROVE  Waiting' = Waiting
<1>1. Reverse(queue) \in Seq(Call) /\ queue \in Seq(Call)
  BY WaitingType DEF TypeInv, TypeOK
<1>2. Waiting = Reverse(queue)
  BY <1>1, ConcatEmptySeq DEF Waiting
<1>3. CASE queue = <<>>
  BY <1>3 DEF DequeueCall, Waiting
<1>4. CASE queue # <<>>
  <2>1. Reverse(queue) = <<Last(queue)>> \o Reverse(Front(queue))
    BY <1>1, <1>4, ReversePop
  <2>2. Waiting' = <<Last(queue)>> \o Reverse(Front(queue))
    BY <1>4 DEF DequeueCall, Waiting
  <2> QED BY <1>2, <2>1, <2>2
<1> QED BY <1>3, <1>4

\* Running a call is the abstract queue's step: the oldest call runs.
LEMMA CallRuns ==
    ASSUME TypeInv, CallFunction
    PROVE  Fifo!Next
<1> DEFINE r == Reverse(queue)
<1>1. lpc = "call" /\ current \in Call /\ r \in Seq(Call) /\ queue \in Seq(Call)
  BY WaitingType DEF CallFunction, TypeInv, TypeOK
<1>2. Waiting = <<current>> \o r
  BY <1>1 DEF Waiting
<1>3. Waiting # <<>> /\ Head(Waiting) = current /\ Tail(Waiting) = r
  <2> HIDE DEF r
  <2>1. <<current>> \o r # <<>> /\ Head(<<current>> \o r) = current
    BY <1>1
  <2>2. Tail(<<current>> \o r) = r
    <3> DEFINE s == <<current>> \o r
    <3>1. /\ s \in Seq(Call) /\ Len(s) = 1 + Len(r)
          /\ \A i \in 1..(1 + Len(r)) : s[i] = IF i <= 1 THEN <<current>>[i] ELSE r[i - 1]
      <4>1. <<current>> \in Seq(Call) /\ Len(<<current>>) = 1
        BY <1>1
      <4> QED BY <1>1, <4>1, ConcatProperties
    <3>2. s # <<>>
      BY <2>1
    <3> HIDE DEF s
    <3>3. /\ Tail(s) \in Seq(Call) /\ Len(Tail(s)) = Len(s) - 1
          /\ \A i \in 1..Len(Tail(s)) : Tail(s)[i] = s[i + 1]
      BY <3>1, <3>2, HeadTailProperties
    <3>4. Len(r) \in Nat
      BY <1>1
    <3>5. Len(Tail(s)) = Len(r) /\ \A i \in 1..Len(Tail(s)) : Tail(s)[i] = r[i]
      BY <3>1, <3>3, <3>4
    <3>6. Tail(s) = r
      BY <1>1, <3>3, <3>5, SeqEqual
    <3> QED BY <3>6 DEF s
  <2> QED BY <1>2, <2>1, <2>2
<1>4. done' = Append(done, current) /\ lpc' # "call"
  BY DEF CallFunction, Rearm
<1>5. CASE queue' = queue
  <2>1. Waiting' = <<>> \o r
    BY <1>4, <1>5 DEF Waiting
  <2>2. Waiting' = r \o <<>>
    BY <1>1, <2>1, ConcatEmptySeq
  <2>3. Fifo!Run(<<>>)
    BY <1>3, <1>4, <2>2 DEF Fifo!Run
  <2> QED BY <2>3 DEF Fifo!Next, Fifo!RunOne
<1>6. CASE Link([id |-> current.id, fn |-> "result", notify |-> NoOne])
  <2> DEFINE c == [id |-> current.id, fn |-> "result", notify |-> NoOne]
  <2>1. c \in Call
    BY <1>1 DEF Call
  <2> HIDE DEF c
  <2>2. Reverse(queue') = Append(r, c)
    BY <1>1, <1>6, <2>1, ReversePush DEF Link, c
  <2>3. Append(r, c) = r \o <<c>> /\ Append(r, c) \in Seq(Call)
    BY <1>1, <2>1, AppendIsConcat, AppendProperties
  <2>4. Waiting' = <<>> \o Reverse(queue')
    BY <1>4 DEF Waiting
  <2>5. Waiting' = r \o <<c>>
    BY <2>2, <2>3, <2>4, ConcatEmptySeq
  <2>6. Fifo!Run(<<c>>)
    BY <1>3, <1>4, <2>5 DEF Fifo!Run
  <2> QED BY <2>1, <2>6 DEF Fifo!Next, Fifo!RunOne
<1> QED BY <1>5, <1>6 DEF CallFunction

(***************************************************************************)
(* uv_callback.c implements CallFifo: calls are run in the order in which  *)
(* they were linked, each once, however many threads fire, whatever        *)
(* fire_sync gives up on.                                                  *)
(***************************************************************************)
THEOREM CallsInOrderHolds == Spec => CallsInOrder
<1>1. Init => Fifo!Init
  <2> SUFFICES ASSUME Init PROVE Fifo!Init
    OBVIOUS
  <2>1. Waiting = <<>> \o <<>>
    BY ReverseEmpty DEF Init, Waiting
  <2>2. <<>> \o <<>> = <<>>
    BY EmptySeq, ConcatEmptySeq
  <2> QED BY <2>1, <2>2 DEF Init, Fifo!Init
<1>2. TypeInv /\ [Next]_vars => [Fifo!Next]_(Fifo!vars)
  <2> SUFFICES ASSUME TypeInv, [Next]_vars
               PROVE  Fifo!Next \/ (Waiting' = Waiting /\ done' = done)
    BY DEF Fifo!vars
  <2>1. ASSUME UNCHANGED <<queue, lpc, current>> PROVE Waiting' = Waiting
    BY <2>1 DEF Waiting
  <2>2. CASE UNCHANGED vars
    BY <2>1, <2>2 DEF vars, loop
  <2>3. ASSUME NEW t \in Callers, Fire(t) PROVE Fifo!Next
    <3>1. PICK n \in {NoOne, "result"} :
             Link([id |-> NextId(t), fn |-> "work", notify |-> n])
      BY <2>3 DEF Fire
    <3>2. NextId(t) \in Ids
      BY <2>3, FiresType DEF Fire, TypeInv
    <3>3. [id |-> NextId(t), fn |-> "work", notify |-> n] \in Call
      BY <3>2 DEF Call
    <3> QED BY <2>3, <3>1, <3>3, LinkAccepts DEF Fire
  <2>4. ASSUME NEW t \in Callers, FireSync(t) PROVE Fifo!Next
    <3>1. NextId(t) \in Ids
      BY <2>4, FiresType DEF FireSync, TypeInv
    <3>2. [id |-> NextId(t), fn |-> "work", notify |-> t] \in Call
      BY <3>1 DEF Call
    <3> QED BY <2>4, <3>2, LinkAccepts DEF FireSync
  <2>5. ASSUME NEW t \in Callers, FireFails(t) \/ AsyncSend(t) \/ SyncAnswered(t)
               \/ SyncTimesOut(t) \/ FireCoalesced(t) \/ SendCoalesced(t)
        PROVE  Waiting' = Waiting /\ done' = done
    <3>1. UNCHANGED <<queue, lpc, current, done>>
      BY <2>5 DEF FireFails, AsyncSend, SyncAnswered, SyncTimesOut, Returns, FireCoalesced,
                  SendCoalesced, loop
    <3> QED BY <2>1, <3>1
  <2>6. CASE AsyncCb \/ IdleCb
    BY <2>6, DequeueStutters DEF AsyncCb, IdleCb
  <2>7. CASE CallFunction
    BY <2>7, CallRuns
  <2>8. CASE NotifySend
    BY <2>8 DEF NotifySend, Rearm, Waiting
  <2>9. CASE CoalescedCb
    BY <2>1, <2>9 DEF CoalescedCb, loop
  <2> QED BY <2>2, <2>3, <2>4, <2>5, <2>6, <2>7, <2>8, <2>9 DEF Next
<1> QED BY <1>1, <1>2, TypeCorrect, PTL DEF Spec, CallsInOrder, Fifo!Spec
----------------------------------------------------------------------------
(* fire_sync answers its own call.                                         *)

\* A call that will notify t: the fire_sync of t it belongs to is the one
\* that is waiting, and nothing has been sent to it yet.
OwnsFrame(call, t) == Alive(t) /\ call.id = <<t, fired[t]>> /\ ~nsent[t]

\* What is queued to notify a caller is that caller's only call.
QueuedSync ==
    \A i \in DOMAIN queue : queue[i].notify \in Callers =>
        /\ OwnsFrame(queue[i], queue[i].notify)
        /\ \A j \in DOMAIN queue : queue[j].notify = queue[i].notify => j = i

\* So is the one the loop thread is handling.
HandledSync ==
    (lpc # "poll" /\ current.notify \in Callers) =>
        /\ OwnsFrame(current, current.notify)
        /\ \A j \in DOMAIN queue : queue[j].notify # current.notify

\* What is in the frame of a waiting fire_sync is the result of its call.
FrameSync ==
    \A t \in Callers : Alive(t) =>
        \A k \in DOMAIN nqueue[t] : nqueue[t][k] = <<t, fired[t]>>

\* The inductive invariant of synchronous calls.
SyncInv == QueuedSync /\ HandledSync /\ FrameSync /\ SyncAnswersItsCall

\* The entries of a queue with one more call at its head.
LEMMA PushEntries ==
    ASSUME NEW S, NEW q \in Seq(S), NEW x \in S
    PROVE  /\ DOMAIN (<<x>> \o q) = 1..(Len(q) + 1)
           /\ (<<x>> \o q)[1] = x
           /\ \A i \in 2..(Len(q) + 1) : /\ i - 1 \in DOMAIN q
                                        /\ (<<x>> \o q)[i] = q[i - 1]
<1> DEFINE p == <<x>> \o q
<1>1. <<x>> \in Seq(S) /\ Len(<<x>>) = 1 /\ <<x>>[1] = x
  OBVIOUS
<1>2. /\ p \in Seq(S) /\ Len(p) = 1 + Len(q)
      /\ \A i \in 1..(1 + Len(q)) : p[i] = IF i <= 1 THEN <<x>>[i] ELSE q[i - 1]
  BY <1>1, ConcatProperties
<1> HIDE DEF p
<1>3. Len(q) \in Nat /\ DOMAIN q = 1..Len(q)
  BY LenProperties
<1>4. DOMAIN p = 1..(Len(q) + 1)
  BY <1>2, <1>3, LenProperties
<1>5. p[1] = x
  BY <1>1, <1>2, <1>3
<1>6. \A i \in 2..(Len(q) + 1) : i - 1 \in DOMAIN q /\ p[i] = q[i - 1]
  BY <1>2, <1>3
<1> QED BY <1>4, <1>5, <1>6 DEF p

\* The entries of a queue without its oldest call.
LEMMA PopEntries ==
    ASSUME NEW S, NEW q \in Seq(S), q # <<>>
    PROVE  /\ Len(q) \in DOMAIN q
           /\ Last(q) = q[Len(q)]
           /\ \A i \in DOMAIN Front(q) : /\ i \in DOMAIN q
                                         /\ i # Len(q)
                                         /\ Front(q)[i] = q[i]
<1> DEFINE f == Front(q)
           n == Len(q)
<1>1. n \in Nat \ {0} /\ DOMAIN q = 1..n
  BY EmptySeq, LenProperties
<1>2. \A i \in 1..(n - 1) : q[i] \in S
  BY <1>1, ElementOfSeq
<1>3. /\ f \in Seq(S)
      /\ Len(f) = IF 1 <= n - 1 THEN (n - 1) - 1 + 1 ELSE 0
      /\ \A i \in 1..((n - 1) - 1 + 1) : f[i] = q[1 + i - 1]
  BY <1>1, <1>2, SubSeqProperties DEF Front
<1>4. Last(q) = q[n]
  BY DEF Last
<1> HIDE DEF f, n
<1>5. (n - 1) - 1 + 1 = n - 1 /\ \A i \in 1..(n - 1) : 1 + i - 1 = i
  BY <1>1
<1>6. Len(f) = n - 1
  BY <1>1, <1>3
<1>7. DOMAIN f = 1..(n - 1)
  BY <1>3, <1>6, LenProperties
<1>8. \A i \in DOMAIN f : i \in DOMAIN q /\ i # n /\ f[i] = q[i]
  BY <1>1, <1>3, <1>5, <1>7
<1> QED BY <1>1, <1>4, <1>8 DEF f, n

\* A step that leaves the loop thread, its queue and the frames of waiting
\* callers alone, and lets nobody begin or end a fire_sync.
SyncQuiet ==
    /\ UNCHANGED <<queue, lpc, current>>
    /\ \A u \in Callers : Alive(u)' = Alive(u)
    /\ \A u \in Callers : Alive(u) => /\ fired'[u] = fired[u]
                                      /\ nsent'[u] = nsent[u]
                                      /\ nqueue'[u] = nqueue[u]

\* Such a step keeps SyncInv when what fire_sync has returned stays right.
LEMMA QuietInv ==
    ASSUME SyncInv, SyncQuiet, SyncAnswersItsCall'
    PROVE  SyncInv'
<1>1. QueuedSync'
  BY DEF SyncInv, QueuedSync, SyncQuiet, OwnsFrame
<1>2. HandledSync'
  BY DEF SyncInv, HandledSync, SyncQuiet, OwnsFrame
<1>3. FrameSync'
  BY DEF SyncInv, FrameSync, SyncQuiet
<1> QED BY <1>1, <1>2, <1>3 DEF SyncInv

\* The frames of callers in a fire_sync stay as they are.
FramesStay ==
    \A u \in Callers : Alive(u) => /\ Alive(u)'
                                   /\ fired'[u] = fired[u]
                                   /\ nsent'[u] = nsent[u]

\* Linking a call keeps QueuedSync when it notifies no caller, or a caller
\* for whom nothing is queued.
LEMMA LinkSync ==
    ASSUME TypeOK, QueuedSync, NEW call \in Call, Link(call), FramesStay,
           call.notify \in Callers =>
               /\ OwnsFrame(call, call.notify)'
               /\ \A j \in DOMAIN queue : queue[j].notify # call.notify
    PROVE  QueuedSync'
<1>1. /\ DOMAIN queue' = 1..(Len(queue) + 1)
      /\ queue'[1] = call
      /\ \A i \in 2..(Len(queue) + 1) : i - 1 \in DOMAIN queue /\ queue'[i] = queue[i - 1]
  BY PushEntries DEF Link, TypeOK
<1>2. Len(queue) \in Nat
  BY DEF TypeOK
<1> SUFFICES ASSUME NEW i \in DOMAIN queue', queue'[i].notify \in Callers
             PROVE  /\ OwnsFrame(queue[i], queue[i].notify)'
                    /\ \A j \in DOMAIN queue' : queue'[j].notify = queue'[i].notify => j = i
  BY DEF QueuedSync
<1>3. CASE i = 1
  <2>1. OwnsFrame(queue[i], queue[i].notify)'
    BY <1>1, <1>3 DEF OwnsFrame
  <2>2. ASSUME NEW j \in DOMAIN queue', queue'[j].notify = queue'[i].notify, j # i
        PROVE  FALSE
    <3>1. j \in 2..(Len(queue) + 1)
      BY <1>1, <1>2, <1>3, <2>2
    <3> QED BY <1>1, <1>3, <2>2, <3>1
  <2> QED BY <2>1, <2>2
<1>4. CASE i # 1
  <2>1. i \in 2..(Len(queue) + 1)
    BY <1>1, <1>2, <1>4
  <2>2. i - 1 \in DOMAIN queue /\ queue'[i] = queue[i - 1]
    BY <1>1, <2>1
  <2>3. OwnsFrame(queue[i - 1], queue[i - 1].notify)
    BY <2>2 DEF QueuedSync
  <2>4. OwnsFrame(queue[i], queue[i].notify)'
    BY <2>2, <2>3 DEF OwnsFrame, FramesStay
  <2>5. ASSUME NEW j \in DOMAIN queue', queue'[j].notify = queue'[i].notify PROVE j = i
    <3>1. j # 1
      BY <1>1, <2>2, <2>5
    <3>2. j \in 2..(Len(queue) + 1)
      BY <1>1, <1>2, <3>1
    <3>3. j - 1 \in DOMAIN queue /\ queue'[j] = queue[j - 1]
      BY <1>1, <3>2
    <3>4. j - 1 = i - 1
      BY <2>2, <2>5, <3>3 DEF QueuedSync
    <3> QED BY <1>2, <2>1, <3>2, <3>4
  <2> QED BY <2>4, <2>5
<1> QED BY <1>3, <1>4

\* After a link the call in the hands of the loop thread still is the only
\* one of its caller.
LEMMA LinkHandled ==
    ASSUME TypeOK, HandledSync, NEW call \in Call, Link(call), FramesStay,
           UNCHANGED current, lpc # "poll",
           current.notify \in Callers => call.notify # current.notify
    PROVE  HandledSync'
<1>1. /\ DOMAIN queue' = 1..(Len(queue) + 1)
      /\ queue'[1] = call
      /\ \A i \in 2..(Len(queue) + 1) : i - 1 \in DOMAIN queue /\ queue'[i] = queue[i - 1]
  BY PushEntries DEF Link, TypeOK
<1>2. Len(queue) \in Nat
  BY DEF TypeOK
<1> SUFFICES ASSUME current.notify \in Callers
             PROVE  /\ OwnsFrame(current, current.notify)'
                    /\ \A j \in DOMAIN queue' : queue'[j].notify # current.notify
  BY DEF HandledSync
<1>3. OwnsFrame(current, current.notify)'
  BY DEF HandledSync, OwnsFrame, FramesStay
<1>4. ASSUME NEW j \in DOMAIN queue' PROVE queue'[j].notify # current.notify
  <2>1. CASE j = 1
    BY <1>1, <2>1
  <2>2. CASE j # 1
    <3>1. j \in 2..(Len(queue) + 1)
      BY <1>1, <1>2, <2>2
    <3> QED BY <1>1, <3>1 DEF HandledSync
  <2> QED BY <2>1, <2>2
<1> QED BY <1>3, <1>4

\* uv_callback_fire does not concern the callers in a fire_sync.
LEMMA FireInv ==
    ASSUME TypeInv, SyncInv, NEW t \in Callers, Fire(t)
    PROVE  SyncInv'
<1>1. PICK n \in {NoOne, "result"} :
         Link([id |-> NextId(t), fn |-> "work", notify |-> n])
  BY DEF Fire
<1>2. PICK call \in Call : call = [id |-> NextId(t), fn |-> "work", notify |-> n]
  <2>1. NextId(t) \in Ids
    BY FiresType DEF Fire, TypeInv
  <2> QED BY <2>1 DEF Call
<1>3. call.notify \notin Callers
  BY <1>2, CallersAssumption
<1>4. /\ Link(call) /\ UNCHANGED <<lpc, current, nqueue, nsent, ret>>
      /\ pc[t] = "ready" /\ pc' = [pc EXCEPT ![t] = "linked"]
      /\ fired' = [fired EXCEPT ![t] = @ + 1]
  BY <1>1, <1>2 DEF Fire, Fires, frame
<1>5. /\ \A u \in Callers : Alive(u)' = Alive(u)
      /\ \A u \in Callers : Alive(u) => fired'[u] = fired[u]
  BY <1>4 DEF TypeInv, TypeOK, Alive
<1>6. FramesStay
  BY <1>4, <1>5 DEF FramesStay
<1>7. QueuedSync'
  BY <1>2, <1>3, <1>4, <1>6, LinkSync DEF TypeInv, SyncInv
<1>8. HandledSync'
  <2>1. CASE lpc = "poll"
    BY <1>4, <2>1 DEF HandledSync
  <2>2. CASE lpc # "poll"
    BY <1>2, <1>3, <1>4, <1>6, <2>2, LinkHandled DEF TypeInv, SyncInv
  <2> QED BY <2>1, <2>2
<1>9. FrameSync'
  BY <1>4, <1>5 DEF SyncInv, FrameSync
<1>10. SyncAnswersItsCall'
  BY <1>4 DEF SyncInv, SyncAnswersItsCall
<1> QED BY <1>7, <1>8, <1>9, <1>10 DEF SyncInv

\* fire_sync begins with an empty frame, and nothing of an earlier call of
\* this caller is left that could be answered into it.
LEMMA FireSyncInv ==
    ASSUME TypeInv, SyncInv, NEW t \in Callers, FireSync(t)
    PROVE  SyncInv'
<1>0. PICK call \in Call : call = [id |-> NextId(t), fn |-> "work", notify |-> t]
  <2>1. NextId(t) \in Ids
    BY FiresType DEF FireSync, TypeInv
  <2> QED BY <2>1 DEF Call
<1>1. call \in Call /\ call.notify = t /\ call.id = <<t, fired[t] + 1>>
  BY <1>0 DEF NextId
<1>2. /\ Link(call) /\ UNCHANGED <<lpc, current, ret>>
      /\ pc[t] = "ready" /\ pc' = [pc EXCEPT ![t] = "sync_linked"]
      /\ fired' = [fired EXCEPT ![t] = @ + 1]
      /\ nqueue' = [nqueue EXCEPT ![t] = <<>>]
      /\ nsent' = [nsent EXCEPT ![t] = FALSE]
  BY <1>0 DEF FireSync, Fires
<1>3. ~Alive(t)
  BY <1>2 DEF Alive
<1>4. /\ Alive(t)' /\ fired'[t] = fired[t] + 1 /\ nsent'[t] = FALSE /\ nqueue'[t] = <<>>
      /\ \A u \in Callers : u # t => /\ Alive(u)' = Alive(u)
                                     /\ fired'[u] = fired[u]
                                     /\ nsent'[u] = nsent[u]
                                     /\ nqueue'[u] = nqueue[u]
  BY <1>2 DEF TypeInv, TypeOK, Alive
<1>5. FramesStay
  BY <1>3, <1>4 DEF FramesStay
<1>6. \A j \in DOMAIN queue : queue[j].notify # t
  BY <1>3 DEF SyncInv, QueuedSync, OwnsFrame
<1>7. OwnsFrame(call, t)'
  BY <1>1, <1>4 DEF OwnsFrame
<1>8. QueuedSync'
  BY <1>1, <1>2, <1>5, <1>6, <1>7, LinkSync DEF TypeInv, SyncInv
<1>9. HandledSync'
  <2>1. CASE lpc = "poll"
    BY <1>2, <2>1 DEF HandledSync
  <2>2. CASE lpc # "poll"
    <3>1. current.notify \in Callers => current.notify # t
      BY <1>3, <2>2 DEF SyncInv, HandledSync, OwnsFrame
    <3> QED BY <1>1, <1>2, <1>5, <2>2, <3>1, LinkHandled DEF TypeInv, SyncInv
  <2> QED BY <2>1, <2>2
<1>10. FrameSync'
  BY <1>4 DEF SyncInv, FrameSync
<1>11. SyncAnswersItsCall'
  BY <1>2 DEF SyncInv, SyncAnswersItsCall
<1> QED BY <1>8, <1>9, <1>10, <1>11 DEF SyncInv

\* The loop thread takes the oldest call into its hands: by QueuedSync
\* nothing else in the queue is for the same caller.
LEMMA DequeueInv ==
    ASSUME TypeInv, SyncInv, AsyncCb \/ IdleCb
    PROVE  SyncInv'
<1>1. lpc = "poll" /\ DequeueCall /\ UNCHANGED <<pc, fired, nqueue, nsent, ret>>
  BY DEF AsyncCb, IdleCb, frame
<1>2. \A u \in Callers : Alive(u)' = Alive(u)
  BY <1>1 DEF Alive
<1>3. FrameSync' /\ SyncAnswersItsCall'
  BY <1>1, <1>2 DEF SyncInv, FrameSync, SyncAnswersItsCall
<1>4. CASE queue = <<>>
  <2>1. UNCHANGED <<queue, lpc, current>>
    BY <1>1, <1>4 DEF DequeueCall
  <2>2. QueuedSync'
    BY <1>1, <1>2, <2>1 DEF SyncInv, QueuedSync, OwnsFrame
  <2>3. HandledSync'
    BY <1>1, <2>1 DEF HandledSync
  <2> QED BY <1>3, <2>2, <2>3 DEF SyncInv
<1>5. CASE queue # <<>>
  <2>1. queue' = Front(queue) /\ current' = Last(queue) /\ lpc' = "call"
    BY <1>1, <1>5 DEF DequeueCall
  <2>2. /\ Len(queue) \in DOMAIN queue
        /\ current' = queue[Len(queue)]
        /\ \A i \in DOMAIN queue' : /\ i \in DOMAIN queue
                                    /\ i # Len(queue)
                                    /\ queue'[i] = queue[i]
    BY <1>5, <2>1, PopEntries DEF TypeInv, TypeOK
  <2>3. QueuedSync'
    BY <1>1, <1>2, <2>2 DEF SyncInv, QueuedSync, OwnsFrame
  <2>4. HandledSync'
    BY <1>1, <1>2, <2>2 DEF SyncInv, QueuedSync, HandledSync, OwnsFrame
  <2> QED BY <1>3, <2>3, <2>4 DEF SyncInv
<1> QED BY <1>4, <1>5

\* The function is called; its result goes to the frame it belongs to.
LEMMA CallFunctionInv ==
    ASSUME TypeInv, SyncInv, CallFunction
    PROVE  SyncInv'
<1>1. lpc = "call" /\ current \in Call /\ UNCHANGED <<pc, fired, nsent, ret>>
  BY DEF CallFunction, TypeInv, TypeOK
<1>2. FramesStay /\ \A u \in Callers : Alive(u)' = Alive(u)
  BY <1>1 DEF Alive, FramesStay
<1>3. SyncAnswersItsCall'
  BY <1>1 DEF SyncInv, SyncAnswersItsCall
<1>4. CASE Rearm /\ UNCHANGED <<queue, nqueue>>
  <2>1. QueuedSync'
    BY <1>1, <1>2, <1>4 DEF SyncInv, QueuedSync, OwnsFrame
  <2>2. HandledSync'
    BY <1>4 DEF HandledSync, Rearm
  <2>3. FrameSync'
    BY <1>1, <1>2, <1>4 DEF SyncInv, FrameSync
  <2> QED BY <1>3, <2>1, <2>2, <2>3 DEF SyncInv
<1>5. CASE /\ current.notify = "result"
           /\ Link([id |-> current.id, fn |-> "result", notify |-> NoOne])
           /\ lpc' = "notify"
           /\ UNCHANGED <<idle_active, current, nqueue>>
  <2>1. PICK call \in Call : call = [id |-> current.id, fn |-> "result", notify |-> NoOne]
    BY <1>1 DEF Call
  <2>2. Link(call) /\ call.notify \notin Callers
    BY <1>5, <2>1, CallersAssumption
  <2>3. QueuedSync'
    BY <1>2, <2>2, LinkSync DEF TypeInv, SyncInv
  <2>4. HandledSync'
    BY <1>5, CallersAssumption DEF HandledSync
  <2>5. FrameSync'
    BY <1>1, <1>2, <1>5 DEF SyncInv, FrameSync
  <2> QED BY <1>3, <2>3, <2>4, <2>5 DEF SyncInv
<1>6. CASE /\ current.notify \in Callers
           /\ nqueue' = IF Alive(current.notify)
                        THEN [nqueue EXCEPT ![current.notify] = <<current.id>> \o @]
                        ELSE nqueue
           /\ lpc' = "notify"
           /\ UNCHANGED <<queue, idle_active, current>>
  <2>1. PICK t \in Callers : t = current.notify
    BY <1>6
  <2>2. OwnsFrame(current, t)
    BY <1>1, <1>6, <2>1 DEF SyncInv, HandledSync
  <2>3. nqueue' = [nqueue EXCEPT ![t] = <<current.id>> \o @]
    BY <1>6, <2>1, <2>2 DEF OwnsFrame
  <2>4. /\ nqueue'[t] = <<current.id>> \o nqueue[t]
        /\ \A u \in Callers : u # t => nqueue'[u] = nqueue[u]
    BY <2>3 DEF TypeInv, TypeOK
  <2>5. QueuedSync'
    BY <1>1, <1>2, <1>6 DEF SyncInv, QueuedSync, OwnsFrame
  <2>6. HandledSync'
    BY <1>1, <1>2, <1>6 DEF SyncInv, HandledSync, OwnsFrame
  <2>7. \A k \in DOMAIN nqueue'[t] : nqueue'[t][k] = <<t, fired[t]>>
    <3>1. nqueue[t] \in Seq(Ids) /\ current.id \in Ids
      BY <1>1 DEF TypeInv, TypeOK, Call
    <3>2. /\ DOMAIN nqueue'[t] = 1..(Len(nqueue[t]) + 1)
          /\ nqueue'[t][1] = current.id
          /\ \A k \in 2..(Len(nqueue[t]) + 1) : /\ k - 1 \in DOMAIN nqueue[t]
                                               /\ nqueue'[t][k] = nqueue[t][k - 1]
      BY <2>4, <3>1, PushEntries
    <3>3. \A k \in DOMAIN nqueue[t] : nqueue[t][k] = <<t, fired[t]>>
      BY <2>2 DEF SyncInv, FrameSync, OwnsFrame
    <3> SUFFICES ASSUME NEW k \in DOMAIN nqueue'[t] PROVE nqueue'[t][k] = <<t, fired[t]>>
      OBVIOUS
    <3>4. CASE k = 1
      BY <2>2, <3>2, <3>4 DEF OwnsFrame
    <3>5. CASE k # 1
      <4>1. k \in 2..(Len(nqueue[t]) + 1)
        BY <3>1, <3>2, <3>5
      <4> QED BY <3>2, <3>3, <4>1
    <3> QED BY <3>4, <3>5
  <2>8. FrameSync'
    BY <1>1, <1>2, <2>4, <2>7 DEF SyncInv, FrameSync
  <2> QED BY <1>3, <2>5, <2>6, <2>8 DEF SyncInv
<1> QED BY <1>4, <1>5, <1>6 DEF CallFunction

\* The result is sent: from here on nothing that would notify the same
\* caller is in the queue or in the hands of the loop thread.
LEMMA NotifySendInv ==
    ASSUME TypeInv, SyncInv, NotifySend
    PROVE  SyncInv'
<1>1. /\ lpc = "notify" /\ lpc' = "poll" /\ current' = NoCall
      /\ UNCHANGED <<queue, pc, fired, nqueue, ret>>
  BY DEF NotifySend, Rearm
<1>2. \A u \in Callers : Alive(u)' = Alive(u)
  BY <1>1 DEF Alive
<1>3. HandledSync' /\ FrameSync' /\ SyncAnswersItsCall'
  BY <1>1, <1>2 DEF SyncInv, HandledSync, FrameSync, SyncAnswersItsCall
<1>4. QueuedSync'
  <2>1. CASE UNCHANGED nsent
    BY <1>1, <1>2, <2>1 DEF SyncInv, QueuedSync, OwnsFrame
  <2>2. CASE /\ current.notify \in Callers
             /\ nsent' = [nsent EXCEPT ![current.notify] = @ \/ Alive(current.notify)]
    <3>1. \A j \in DOMAIN queue : queue[j].notify # current.notify
      BY <1>1, <2>2 DEF SyncInv, HandledSync
    <3>2. \A u \in Callers : u # current.notify => nsent'[u] = nsent[u]
      BY <2>2 DEF TypeInv, TypeOK
    <3> QED BY <1>1, <1>2, <3>1, <3>2 DEF SyncInv, QueuedSync, OwnsFrame
  <2> QED BY <2>1, <2>2 DEF NotifySend
<1> QED BY <1>3, <1>4 DEF SyncInv

\* fire_sync returns with the result of its own call, and leaves no call
\* behind that would write to its frame.
LEMMA AnsweredInv ==
    ASSUME TypeInv, SyncInv, NEW t \in Callers, SyncAnswered(t)
    PROVE  SyncInv'
<1>1. /\ pc[t] = "waiting" /\ Answer(t) # NoCall
      /\ ret' = [ret EXCEPT ![t] =
            [call |-> <<t, fired[t]>>, rc |-> "OK", data |-> Answer(t)]]
      /\ pc' = [pc EXCEPT ![t] = "ready"]
      /\ UNCHANGED <<queue, lpc, current, fired, nqueue, nsent>>
  BY DEF SyncAnswered, Returns, loop, frame
<1>2. nsent[t] /\ nqueue[t] # <<>> /\ Answer(t) = Last(nqueue[t])
  BY <1>1 DEF Answer
<1>3. Answer(t) = <<t, fired[t]>>
  <2>1. Len(nqueue[t]) \in DOMAIN nqueue[t] /\ Last(nqueue[t]) = nqueue[t][Len(nqueue[t])]
    BY <1>2, PopEntries DEF TypeInv, TypeOK
  <2> QED BY <1>1, <1>2, <2>1 DEF SyncInv, FrameSync, Alive
<1>4. ~Alive(t)' /\ \A u \in Callers : u # t => Alive(u)' = Alive(u)
  BY <1>1 DEF TypeInv, TypeOK, Alive
<1>5. QueuedSync'
  BY <1>1, <1>2, <1>4 DEF SyncInv, QueuedSync, OwnsFrame
<1>6. HandledSync'
  BY <1>1, <1>2, <1>4 DEF SyncInv, HandledSync, OwnsFrame
<1>7. FrameSync'
  BY <1>1, <1>4 DEF SyncInv, FrameSync
<1>8. SyncAnswersItsCall'
  BY <1>1, <1>3 DEF SyncInv, SyncAnswersItsCall, TypeInv, TypeOK
<1> QED BY <1>5, <1>6, <1>7, <1>8 DEF SyncInv

(***************************************************************************)
(* A fire_sync that is given no timeout and succeeds hands its caller the  *)
(* result of the call it fired, for any number of threads firing in every  *)
(* way at once, and also when the allocation of a call or of a result      *)
(* fails.  The proof needs that a fire_sync returns only after the loop    *)
(* thread has done with its call; a timeout breaks exactly that, and TLC   *)
(* then finds the result of an older call in a newer frame.                *)
(***************************************************************************)
THEOREM SyncAnswersItsCallHolds ==
    ASSUME ~MayTimeout
    PROVE  Spec => []SyncAnswersItsCall
<1>1. Init => SyncInv
  <2> SUFFICES ASSUME Init PROVE SyncInv
    OBVIOUS
  <2>1. QueuedSync /\ HandledSync
    BY DEF Init, QueuedSync, HandledSync
  <2>2. FrameSync
    BY DEF Init, FrameSync
  <2>3. SyncAnswersItsCall
    BY DEF Init, SyncAnswersItsCall
  <2> QED BY <2>1, <2>2, <2>3 DEF SyncInv
<1>2. TypeInv /\ SyncInv /\ [Next]_vars => SyncInv'
  <2> SUFFICES ASSUME TypeInv, SyncInv, [Next]_vars PROVE SyncInv'
    OBVIOUS
  <2>1. CASE UNCHANGED vars
    <3>1. UNCHANGED <<queue, lpc, current, pc, fired, nqueue, nsent, ret>>
      BY <2>1 DEF vars, loop, frame
    <3>2. SyncQuiet /\ SyncAnswersItsCall'
      BY <3>1 DEF SyncQuiet, Alive, SyncInv, SyncAnswersItsCall
    <3> QED BY <3>2, QuietInv
  <2>2. ASSUME NEW t \in Callers, FireFails(t) PROVE SyncInv'
    <3>1. /\ UNCHANGED <<queue, lpc, current, pc, nqueue, nsent>>
          /\ pc[t] = "ready" /\ fired' = [fired EXCEPT ![t] = @ + 1]
      BY <2>2 DEF FireFails, Fires, loop, frame
    <3>2. SyncQuiet
      BY <3>1 DEF SyncQuiet, Alive, TypeInv, TypeOK
    <3>3. SyncAnswersItsCall'
      <4>1. CASE UNCHANGED ret
        BY <4>1 DEF SyncInv, SyncAnswersItsCall
      <4>2. CASE ret' = [ret EXCEPT ![t] =
                   [call |-> NextId(t), rc |-> "ENOMEM", data |-> NoCall]]
        BY <4>2 DEF SyncInv, SyncAnswersItsCall, TypeInv, TypeOK
      <4> QED BY <2>2, <4>1, <4>2 DEF FireFails
    <3> QED BY <3>2, <3>3, QuietInv
  <2>3. ASSUME NEW t \in Callers, AsyncSend(t) \/ FireCoalesced(t) \/ SendCoalesced(t)
        PROVE  SyncInv'
    <3>1. UNCHANGED <<queue, lpc, current, nqueue, nsent, ret>>
      BY <2>3 DEF AsyncSend, FireCoalesced, SendCoalesced, loop, frame
    <3>2. \A u \in Callers : /\ Alive(u)' = Alive(u)
                             /\ Alive(u) => fired'[u] = fired[u]
      BY <2>3 DEF AsyncSend, FireCoalesced, SendCoalesced, Fires, Alive, TypeInv, TypeOK
    <3>3. SyncQuiet /\ SyncAnswersItsCall'
      BY <3>1, <3>2 DEF SyncQuiet, SyncInv, SyncAnswersItsCall
    <3> QED BY <3>3, QuietInv
  <2>4. CASE CoalescedCb
    <3>1. UNCHANGED <<queue, lpc, current, pc, fired, nqueue, nsent, ret>>
      BY <2>4 DEF CoalescedCb, loop, frame
    <3>2. SyncQuiet /\ SyncAnswersItsCall'
      BY <3>1 DEF SyncQuiet, Alive, SyncInv, SyncAnswersItsCall
    <3> QED BY <3>2, QuietInv
  <2>5. ASSUME NEW t \in Callers, SyncTimesOut(t) PROVE FALSE
    BY <2>5 DEF SyncTimesOut
  <2> QED BY <2>1, <2>2, <2>3, <2>4, <2>5, FireInv, FireSyncInv, DequeueInv,
             CallFunctionInv, NotifySendInv, AnsweredInv DEF Next
<1> QED BY <1>1, <1>2, TypeCorrect, PTL DEF Spec, SyncInv

----------------------------------------------------------------------------
(* The channel of the first mediasoup server (MediasoupChannel).            *)

CONSTANTS Conns, MaxWild
VARIABLE ms
M == INSTANCE MediasoupChannel

MsSoups ==
    [life : {"none", "live", "freed"}, state : {"INIT", "WAIT", "RESULT", "ERROR", "DONE"}, id : Nat,
     room : Nat, name : BOOLEAN, cbs : Nat]
MsLetters == [id : Nat, c : Conns, timer : BOOLEAN]
MsAsked == [id : Nat, room : Nat, heap : BOOLEAN]
MsTold == [kind : {"answer", "event"}, id : Nat, ok : BOOLEAN]
MsTasks ==
    {"starting", "running", "closing", "deleted", "closed", "unlooped", "destroyed", "ended", "aborted"}
MsFaults ==
    {"handler", "json", "loop", "race", "soup", "name", "early", "buffer", "channel", "map", "letter", "server"}
MsStates ==
    [s : [Conns -> MsSoups], letters : SUBSET MsLetters, w : {<< >>} \cup {<<l>> : l \in MsLetters},
     t : {<< >>} \cup {<<c>> : c \in Conns}, in : Seq(MsAsked), out : Seq(MsTold),
     req : {<< >>} \cup {<<q>> : q \in MsAsked}, rooms : SUBSET Nat, listeners : SUBSET Nat,
     rejected : SUBSET Nat, todo : SUBSET Nat, late : SUBSET Nat, task : MsTasks, unavailable : BOOLEAN, server : {"live", "freed"}, crypto : Nat, next : Nat,
     faults : SUBSET MsFaults, wild : Nat]

\* No thread has used what the other has freed, nor met it at one letter.
MsSound(m) == m.faults \subseteq {"handler", "json", "loop"} /\ m.server = "live"

\* A soup waits and was not called back, or is done and was called back once; a soup that
\* waits has the letter with its id, which is the number drawn after that of its room; a
\* letter is that of a soup that waits or of one that is being answered or told of its
\* timeout, never both; letters have different ids.
MsSettled(m, c) ==
    IF m.s[c].life = "none" THEN m.s[c].state = "INIT" /\ m.s[c].cbs = 0
    ELSE \/ m.s[c].state = "WAIT" /\ m.s[c].cbs = 0
         \/ m.s[c].state = "DONE" /\ m.s[c].cbs = 1
MsPosted(m, c) ==
    m.s[c].life = "live" /\ m.s[c].state = "WAIT" =>
      [id |-> m.s[c].id, c |-> c, timer |-> TRUE] \in m.letters /\ m.s[c].id = m.s[c].room + 1
MsKept(m, l) ==
    /\ l.timer /\ m.s[l.c].life # "none" /\ l.id = m.s[l.c].room + 1
    /\ m.s[l.c].life = "live" => m.s[l.c].state = "WAIT" \/ m.w = <<l>> \/ m.t = <<l.c>>
MsAnswering(m) == m.w # << >> => m.w[1] \in m.letters /\ m.s[m.w[1].c].state = "DONE"
MsTiming(m) ==
    \A c \in Conns : m.t = <<c>> =>
      /\ m.s[c].life = "live" /\ m.s[c].state = "DONE" /\ m.s[c].id = m.s[c].room + 1
      /\ (\E l \in m.letters : l.c = c) /\ (\A l \in MsLetters : m.w = <<l>> => l.c # c)
MsWaits(m) ==
    /\ \A c \in Conns : MsSettled(m, c) /\ MsPosted(m, c) /\ m.s[c].room < m.next
    /\ \A l \in m.letters : MsKept(m, l)
    /\ \A k, l \in m.letters : k.id = l.id => k = l
    /\ MsAnswering(m) /\ MsTiming(m)

\* Before the end: a room is asked for by a soup, and made for one that is gone, done, or
\* whose answer is on its way; a soup that is done has its room or gave it up; what the
\* worker tells are answers, and those that accept are about rooms it has.
MsOf(m, c, r) == m.s[c].life # "none" /\ m.s[c].room = r
MsComing(m, r) == \E i \in DOMAIN m.out : m.out[i].id = r + 1
MsAsking(m, q) == q.heap => q.id = q.room + 1 /\ \E c \in Conns : MsOf(m, c, q.room)
MsTelling(m, a) == a.kind = "answer" /\ (a.ok => \E r \in m.rooms : a.id = r + 1)
MsMade(m, r) ==
    \E c \in Conns :
      MsOf(m, c, r) /\ (m.s[c].life = "freed" \/ m.s[c].state = "DONE" \/ MsComing(m, r))
MsMirror(m) ==
    /\ \A i \in DOMAIN m.in : MsAsking(m, m.in[i])
    /\ \A i \in DOMAIN m.out : MsTelling(m, m.out[i])
    /\ \A r \in m.rooms : MsMade(m, r)
    /\ \A c \in Conns : m.s[c].state = "DONE" => m.s[c].room \in m.rejected \cup m.listeners
    /\ m.listeners \subseteq m.rooms
    /\ \A q \in MsAsked : m.req = <<q>> => q.heap /\ MsAsking(m, q)

\* From the beginning of Close on: what is left to destroy, and what came too late for it.
MsSwept(m) ==
    /\ m.task = "closing" => m.rooms \ m.late \subseteq m.todo
    /\ m.task \in {"deleted", "closed", "unlooped", "destroyed"} => m.rooms \subseteq m.late

MsInv(m) ==
    /\ m \in MsStates
    /\ MsSound(m) => MsWaits(m)
    /\ MsSound(m) /\ m.task \in {"starting", "running"} => MsMirror(m)
    /\ MsSwept(m)
MsAll == MsInv(ms)

----------------------------------------------------------------------------
(* What the functions leave.                                                *)

\* Everything but the soups, the rooms kore knows or gave up, and the faults.
MsSame(b, m) ==
    /\ m.letters = b.letters /\ m.w = b.w /\ m.in = b.in /\ m.out = b.out /\ m.rooms = b.rooms
    /\ m.t = b.t /\ m.req = b.req /\ m.todo = b.todo /\ m.late = b.late
    /\ m.task = b.task /\ m.unavailable = b.unavailable /\ m.server = b.server /\ m.crypto = b.crypto
    /\ m.next = b.next /\ m.wild = b.wild

\* A fault is remembered and changes nothing else.
LEMMA MsFault ==
    ASSUME NEW b \in MsStates, NEW f \in MsFaults
    PROVE  /\ M!Fault(b, f) \in MsStates /\ MsSame(b, M!Fault(b, f)) /\ M!Fault(b, f).s = b.s
           /\ M!Fault(b, f).listeners = b.listeners /\ M!Fault(b, f).rejected = b.rejected
           /\ M!Fault(b, f).faults = b.faults \cup {f}
<1>1. b.faults \cup {f} \in SUBSET MsFaults
  BY DEF MsStates
<1> QED BY <1>1 DEF M!Fault, MsStates, MsSame

\* The callback of a client: it is done, and has its room or gives it up.
MsCalled(b, c, m) ==
    /\ m \in MsStates /\ MsSame(b, m) /\ b.faults \subseteq m.faults
    /\ b.s[c].life = "freed" => "soup" \in m.faults
    /\ \A d \in Conns \ {c} : m.s[d] = b.s[d]
    /\ m.s[c].life = b.s[c].life /\ m.s[c].id = b.s[c].id /\ m.s[c].room = b.s[c].room
    /\ m.s[c].state = "DONE" /\ m.s[c].cbs = b.s[c].cbs + 1
    /\ IF b.s[c].state = "RESULT"
       THEN m.listeners = b.listeners \cup {b.s[c].room} /\ m.rejected = b.rejected
       ELSE m.rejected = b.rejected \cup {b.s[c].room} /\ m.listeners = b.listeners

LEMMA MsCallback ==
    ASSUME NEW b \in MsStates, NEW c \in Conns
    PROVE  MsCalled(b, c, M!Callback(b, c))
<1> DEFINE g == IF b.s[c].life = "freed" THEN M!Fault(b, "soup") ELSE b
           h == IF g.s[c].name THEN g ELSE M!Fault(g, "name")
           d == IF g.s[c].state = "RESULT" THEN [h EXCEPT !.listeners = @ \cup {g.s[c].room}]
                ELSE [g EXCEPT !.rejected = @ \cup {g.s[c].room}]
           x == [d.s[c] EXCEPT !.state = "DONE", !.cbs = d.s[c].cbs + 1, !.name = FALSE]
           m == [d EXCEPT !.s = [d.s EXCEPT ![c] = x]]
<1>1. /\ g \in MsStates /\ MsSame(b, g) /\ g.s = b.s /\ g.listeners = b.listeners /\ g.rejected = b.rejected
      /\ b.faults \subseteq g.faults /\ (b.s[c].life = "freed" => "soup" \in g.faults)
  <2>1. CASE b.s[c].life = "freed"
    BY <2>1, MsFault DEF MsFaults
  <2>2. CASE b.s[c].life # "freed"
    BY <2>2 DEF MsSame
  <2> QED BY <2>1, <2>2
<1> HIDE DEF g
<1>2. /\ h \in MsStates /\ MsSame(g, h) /\ h.s = g.s /\ h.listeners = g.listeners /\ h.rejected = g.rejected
      /\ g.faults \subseteq h.faults
  <2>1. CASE g.s[c].name
    BY <1>1, <2>1 DEF MsSame
  <2>2. CASE ~g.s[c].name
    <3>1. h = M!Fault(g, "name") /\ "name" \in MsFaults
      BY <2>2 DEF MsFaults
    <3> HIDE DEF h
    <3>2. /\ h \in MsStates /\ MsSame(g, h) /\ h.s = g.s /\ h.listeners = g.listeners /\ h.rejected = g.rejected
          /\ h.faults = g.faults \cup {"name"}
      BY <1>1, <3>1, MsFault
    <3> QED BY <3>2
  <2> QED BY <2>1, <2>2
<1>3. M!Callback(b, c) = M!soup_continue([d EXCEPT !.s[c].state = "DONE", !.s[c].cbs = @ + 1], c)
  BY Zenon DEF M!Callback, M!we_can_work_it_out, M!room_new, M!ee_on, g
<1> HIDE DEF h
<1>4. g.s[c] \in MsSoups /\ g.s[c].room \in Nat
  BY <1>1 DEF MsStates, MsSoups
<1>5. /\ d \in MsStates /\ MsSame(g, d) /\ d.s = g.s /\ g.faults \subseteq d.faults
      /\ IF g.s[c].state = "RESULT"
         THEN d.listeners = g.listeners \cup {g.s[c].room} /\ d.rejected = g.rejected
         ELSE d.rejected = g.rejected \cup {g.s[c].room} /\ d.listeners = g.listeners
  <2>1. CASE g.s[c].state = "RESULT"
    <3>1. h.listeners \cup {g.s[c].room} \in SUBSET Nat
      BY <1>2, <1>4 DEF MsStates
    <3> QED BY <1>2, <2>1, <3>1 DEF MsStates, MsSame
  <2>2. CASE g.s[c].state # "RESULT"
    <3>1. g.rejected \cup {g.s[c].room} \in SUBSET Nat
      BY <1>1, <1>4 DEF MsStates
    <3> QED BY <1>1, <2>2, <3>1 DEF MsStates, MsSame
  <2> QED BY <2>1, <2>2
<1> HIDE DEF d
<1>9. M!Callback(b, c) = m
  <2>1. d.s \in [Conns -> MsSoups]
    BY <1>5 DEF MsStates
  <2>2. M!Callback(b, c) = [[d EXCEPT !.s[c].state = "DONE", !.s[c].cbs = @ + 1] EXCEPT !.s[c].name = FALSE]
    BY <1>3 DEF M!soup_continue
  <2> DEFINE y == [d.s[c] EXCEPT !.state = "DONE", !.cbs = d.s[c].cbs + 1]
             e == [d EXCEPT !.s = [d.s EXCEPT ![c] = y]]
  <2>3. [d EXCEPT !.s[c].state = "DONE", !.s[c].cbs = @ + 1] = e
    <3>1. [d EXCEPT !.s[c].state = "DONE"] = [d EXCEPT !.s = [d.s EXCEPT ![c] = [d.s[c] EXCEPT !.state = "DONE"]]]
      BY <1>5, <2>1 DEF MsStates, MsSoups
    <3> QED BY <1>5, <2>1 DEF MsStates, MsSoups
  <2>4. M!Callback(b, c) = [e EXCEPT !.s[c].name = FALSE]
    BY <2>2, <2>3
  <2>5. e.s = [d.s EXCEPT ![c] = y] /\ e.s[c] = y
    BY <1>5, <2>1 DEF MsStates
  <2>6. M!Callback(b, c) = [e EXCEPT !.s = [e.s EXCEPT ![c] = [y EXCEPT !.name = FALSE]]]
    BY <2>4, <2>5
  <2>7. [y EXCEPT !.name = FALSE] = x
    BY <2>1 DEF MsSoups
  <2> HIDE DEF y, x
  <2>8. [e.s EXCEPT ![c] = x] = [d.s EXCEPT ![c] = x]
    BY <2>5, <2>1
  <2> QED BY <1>5, <2>6, <2>7, <2>8 DEF MsStates
<1>6. /\ x \in MsSoups /\ x.life = d.s[c].life /\ x.id = d.s[c].id /\ x.room = d.s[c].room
      /\ x.state = "DONE" /\ x.cbs = d.s[c].cbs + 1
  <2>1. d.s[c] \in MsSoups /\ d.s[c].cbs \in Nat
    BY <1>4, <1>5 DEF MsSoups
  <2>2. d.s[c].cbs + 1 \in Nat
    BY <2>1
  <2> QED BY <2>1, <2>2 DEF MsSoups
<1> HIDE DEF x
<1>7. /\ m \in MsStates /\ MsSame(d, m) /\ m.s[c] = x /\ (\A e \in Conns \ {c} : m.s[e] = d.s[e])
      /\ m.faults = d.faults /\ m.listeners = d.listeners /\ m.rejected = d.rejected
  <2>1. [d.s EXCEPT ![c] = x] \in [Conns -> MsSoups]
    BY <1>5, <1>6 DEF MsStates
  <2> QED BY <1>5, <1>6, <2>1 DEF MsStates, MsSame
<1> HIDE DEF m
<1>8. MsSame(b, m)
  BY <1>1, <1>5, <1>7 DEF MsSame
<1> QED BY <1>1, <1>9, <1>5, <1>6, <1>7, <1>8 DEF MsCalled

\* uv_callback_fire: the message is queued, or the fire has failed in a way the faults tell.
MsQueued(b, q, m) == m.in = b.in \/ m.in = Append(b.in, q)
MsFired(b, q, m) ==
    /\ m \in MsStates /\ b.faults \subseteq m.faults
    /\ m.s = b.s /\ m.letters = b.letters /\ m.w = b.w /\ m.out = b.out /\ m.rooms = b.rooms
    /\ m.t = b.t /\ m.req = b.req /\ m.todo = b.todo /\ m.late = b.late
    /\ m.listeners = b.listeners /\ m.rejected = b.rejected /\ m.server = b.server /\ m.next = b.next
    /\ m.wild = b.wild
    /\ m.task = b.task \/ (m.task = "aborted" /\ "early" \in m.faults)
    /\ b.task = "starting" => "early" \in m.faults
    /\ MsQueued(b, q, m)

LEMMA MsFire ==
    ASSUME NEW b \in MsStates, NEW q \in MsAsked
    PROVE  MsFired(b, q, M!Fire(b, q))
<1> DEFINE m == M!Fire(b, q)
<1>1. CASE b.task = "starting"
  <2> DEFINE g == M!Fault(b, "early")
  <2>1. "early" \in MsFaults /\ "aborted" \in MsTasks
    BY DEF MsFaults, MsTasks
  <2>2. /\ g \in MsStates /\ MsSame(b, g) /\ g.s = b.s /\ g.listeners = b.listeners /\ g.rejected = b.rejected
        /\ g.faults = b.faults \cup {"early"}
    BY <2>1, MsFault
  <2>3. m = [g EXCEPT !.task = "aborted"]
    BY <1>1 DEF M!Fire, M!Goes
  <2> HIDE DEF g, m
  <2>4. /\ m \in MsStates /\ m.s = g.s /\ m.letters = g.letters /\ m.w = g.w /\ m.out = g.out /\ m.rooms = g.rooms
        /\ m.t = g.t /\ m.req = g.req /\ m.todo = g.todo /\ m.late = g.late
        /\ m.listeners = g.listeners /\ m.rejected = g.rejected /\ m.server = g.server /\ m.next = g.next
        /\ m.wild = g.wild /\ m.task = "aborted" /\ m.faults = g.faults /\ m.in = g.in
    BY <2>1, <2>2, <2>3 DEF MsStates
  <2>5. MsQueued(b, q, m)
    BY <2>2, <2>4, Zenon DEF MsQueued, MsSame
  <2>6. MsFired(b, q, m)
    BY <2>2, <2>4, <2>5 DEF MsFired, MsSame
  <2> QED BY <2>6 DEF m
<1>2. CASE b.task \in {"closed", "unlooped", "destroyed", "ended"}
  <2>1. "loop" \in MsFaults
    BY DEF MsFaults
  <2>2. m = M!Fault(b, "loop")
    BY <1>2 DEF M!Fire
  <2> HIDE DEF m
  <2>3. /\ m \in MsStates /\ MsSame(b, m) /\ m.s = b.s /\ m.listeners = b.listeners /\ m.rejected = b.rejected
        /\ m.faults = b.faults \cup {"loop"}
    BY <2>1, <2>2, MsFault
  <2>4. /\ m.letters = b.letters /\ m.w = b.w /\ m.out = b.out /\ m.rooms = b.rooms /\ m.server = b.server
        /\ m.t = b.t /\ m.req = b.req /\ m.todo = b.todo /\ m.late = b.late
        /\ m.next = b.next /\ m.wild = b.wild /\ m.task = b.task /\ m.in = b.in
    BY <2>3, Zenon DEF MsSame
  <2>5. b.faults \subseteq m.faults
    BY <2>3
  <2>6. b.task # "starting"
    BY <1>2
  <2>7. MsQueued(b, q, m)
    BY <2>4, Zenon DEF MsQueued
  <2>8. MsFired(b, q, m)
    BY <2>3, <2>4, <2>5, <2>6, <2>7 DEF MsFired
  <2> QED BY <2>8 DEF m
<1>3. CASE b.task \notin {"starting", "closed", "unlooped", "destroyed", "ended"}
  <2>1. Append(b.in, q) \in Seq(MsAsked)
    BY DEF MsStates
  <2>2. m = [b EXCEPT !.in = Append(b.in, q)]
    BY <1>3 DEF M!Fire
  <2> HIDE DEF m
  <2>3. /\ m \in MsStates /\ m.s = b.s /\ m.letters = b.letters /\ m.w = b.w /\ m.out = b.out /\ m.rooms = b.rooms
        /\ m.t = b.t /\ m.req = b.req /\ m.todo = b.todo /\ m.late = b.late
        /\ m.listeners = b.listeners /\ m.rejected = b.rejected /\ m.server = b.server /\ m.next = b.next
        /\ m.wild = b.wild /\ m.task = b.task /\ m.faults = b.faults /\ m.in = Append(b.in, q)
    BY <2>1, <2>2 DEF MsStates
  <2>4. b.faults \subseteq m.faults
    BY <2>3
  <2>5. b.task # "starting"
    BY <1>3
  <2>6. MsQueued(b, q, m)
    BY <2>3, Zenon DEF MsQueued
  <2>7. MsFired(b, q, m)
    BY <2>3, <2>4, <2>5, <2>6 DEF MsFired
  <2> QED BY <2>7 DEF m
<1> QED BY <1>1, <1>2, <1>3

----------------------------------------------------------------------------
(* What a step keeps.                                                       *)

\* A step that leaves the soups and the letters.
MsRest(b, m) ==
    /\ m.s = b.s /\ m.letters = b.letters /\ m.w = b.w /\ m.t = b.t /\ m.next = b.next
    /\ b.faults \subseteq m.faults /\ (m.server = "live" => b.server = "live")

LEMMA MsResting ==
    ASSUME NEW b, NEW m, MsInv(b), MsRest(b, m), MsSound(m)
    PROVE  MsSound(b) /\ MsWaits(m)
<1>1. MsSound(b)
  BY DEF MsRest, MsSound
<1>2. MsWaits(b)
  BY <1>1 DEF MsInv
<1> QED BY <1>1, <1>2 DEF MsRest, MsWaits, MsSettled, MsPosted, MsKept, MsAnswering, MsTiming

\* A step that also leaves what the threads tell each other.
LEMMA MsMirrored ==
    ASSUME NEW b, NEW m, MsMirror(b), m.s = b.s, m.in = b.in, m.out = b.out, m.req = b.req,
           m.rooms = b.rooms, m.listeners = b.listeners, m.rejected = b.rejected
    PROVE  MsMirror(m)
BY DEF MsMirror, MsAsking, MsTelling, MsMade, MsOf, MsComing

\* A step that may also give soups other ids.
LEMMA MsMirrorAlike ==
    ASSUME NEW b, NEW m, MsMirror(b), m.in = b.in, m.out = b.out, m.req = b.req,
           m.rooms = b.rooms, m.listeners = b.listeners, m.rejected = b.rejected,
           \A d \in Conns : m.s[d].life = b.s[d].life /\ m.s[d].room = b.s[d].room /\ m.s[d].state = b.s[d].state
    PROVE  MsMirror(m)
<1>1. \A d \in Conns : \A r : MsOf(b, d, r) => MsOf(m, d, r)
  BY DEF MsOf
<1>2. \A q : MsAsking(b, q) => MsAsking(m, q)
  BY <1>1 DEF MsAsking
<1>3. /\ \A i \in DOMAIN m.in : MsAsking(m, m.in[i])
      /\ \A q \in MsAsked : m.req = <<q>> => q.heap /\ MsAsking(m, q)
  BY <1>2 DEF MsMirror
<1>4. \A i \in DOMAIN m.out : MsTelling(m, m.out[i])
  BY DEF MsMirror, MsTelling
<1>5. \A r \in m.rooms : MsMade(m, r)
  BY <1>1 DEF MsMirror, MsMade, MsComing
<1>6. \A d \in Conns : m.s[d].state = "DONE" => m.s[d].room \in m.rejected \cup m.listeners
  BY DEF MsMirror
<1>7. m.listeners \subseteq m.rooms
  BY DEF MsMirror
<1> QED BY <1>3, <1>4, <1>5, <1>6, <1>7 DEF MsMirror

\* The worker's thread starts, the loop ends, and the exit of the server.
LEMMA MsLife ==
    ASSUME MsAll, M!libuv_task \/ M!on_walk \/ M!class_destroy \/ M!TaskDestroys \/ M!TaskEnds
    PROVE  MsAll'
<1>1. /\ ms \in MsStates /\ MsInv(ms)
  BY DEF MsAll, MsInv
<1>2. ASSUME NEW t \in MsTasks, NEW u \in BOOLEAN, NEW k \in Nat, NEW i \in Seq(MsAsked), NEW o \in Seq(MsTold),
             ms' = [ms EXCEPT !.task = t, !.unavailable = u, !.crypto = k, !.in = i, !.out = o],
             \/ ms.task = "starting" /\ t = "running" /\ i = ms.in /\ o = ms.out
             \/ t = "ended"
             \/ ms.task \in {"deleted", "closed", "unlooped", "destroyed"} /\ t \notin {"starting", "running"}
      PROVE  MsAll'
  <2> DEFINE m == [ms EXCEPT !.task = t, !.unavailable = u, !.crypto = k, !.in = i, !.out = o]
  <2>1. /\ m \in MsStates /\ m.s = ms.s /\ m.letters = ms.letters /\ m.w = ms.w /\ m.next = ms.next
        /\ m.faults = ms.faults /\ m.server = ms.server /\ m.rooms = ms.rooms /\ m.listeners = ms.listeners
        /\ m.t = ms.t /\ m.req = ms.req /\ m.todo = ms.todo /\ m.late = ms.late
        /\ m.rejected = ms.rejected /\ m.task = t /\ m.in = i /\ m.out = o
    BY <1>1, <1>2 DEF MsStates
  <2> HIDE DEF m
  <2>2. MsRest(ms, m)
    BY <2>1 DEF MsRest
  <2>3. MsSound(m) => MsWaits(m)
    BY <1>1, <2>2, MsResting
  <2>4. MsSound(m) /\ m.task \in {"starting", "running"} => MsMirror(m)
    <3> SUFFICES ASSUME MsSound(m), m.task \in {"starting", "running"} PROVE MsMirror(m)
      OBVIOUS
    <3>1. t = "running" /\ ms.task = "starting" /\ i = ms.in /\ o = ms.out
      BY <1>2, <2>1
    <3>2. MsSound(ms)
      BY <2>1 DEF MsSound
    <3>3. MsMirror(ms)
      BY <1>1, <3>1, <3>2 DEF MsInv
    <3> QED BY <2>1, <3>1, <3>3, MsMirrored
  <2>5. MsSwept(m)
    BY <1>1, <1>2, <2>1 DEF MsInv, MsSwept
  <2>6. MsInv(m)
    BY <2>1, <2>3, <2>4, <2>5 DEF MsInv
  <2> QED BY <1>2, <2>6 DEF MsAll, m
<1>3. /\ ms.in \in Seq(MsAsked) /\ ms.out \in Seq(MsTold) /\ ms.crypto \in Nat /\ ms.unavailable \in BOOLEAN
      /\ ms.task \in MsTasks /\ << >> \in Seq(MsAsked) /\ << >> \in Seq(MsTold) /\ ms.crypto + 1 \in Nat
      /\ {"running", "ended", "closed", "unlooped", "destroyed"} \subseteq MsTasks
  BY <1>1 DEF MsStates, MsTasks
<1>4. CASE M!libuv_task
  <2>1. CASE ms' = M!Goes(ms, "running")
    <3>1. ms' = [ms EXCEPT !.task = "running", !.unavailable = ms.unavailable, !.crypto = ms.crypto,
                           !.in = ms.in, !.out = ms.out]
      BY <1>1, <2>1 DEF M!Goes, MsStates
    <3> QED BY <1>2, <1>3, <1>4, <3>1 DEF M!libuv_task
  <2>2. CASE ms' = [M!Goes(ms, "ended") EXCEPT !.unavailable = TRUE]
    <3>1. ms' = [ms EXCEPT !.task = "ended", !.unavailable = TRUE, !.crypto = ms.crypto,
                           !.in = ms.in, !.out = ms.out]
      BY <1>1, <2>2 DEF M!Goes, MsStates
    <3> QED BY <1>2, <1>3, <3>1
  <2> QED BY <1>4, <2>1, <2>2 DEF M!libuv_task
<1>5. CASE M!on_walk
  <2>1. ms' = [ms EXCEPT !.task = "closed", !.unavailable = ms.unavailable, !.crypto = ms.crypto,
                         !.in = << >>, !.out = << >>]
    BY <1>1, <1>5 DEF M!on_walk, M!Goes, MsStates
  <2>2. ms.task = "deleted"
    BY <1>5 DEF M!on_walk
  <2> QED BY <1>2, <1>3, <2>1, <2>2
<1>6. CASE M!class_destroy
  <2>1. ms' = [ms EXCEPT !.task = "unlooped", !.unavailable = ms.unavailable, !.crypto = ms.crypto,
                         !.in = ms.in, !.out = ms.out]
    BY <1>1, <1>6 DEF M!class_destroy, M!Goes, MsStates
  <2>2. ms.task = "closed"
    BY <1>6 DEF M!class_destroy
  <2> QED BY <1>2, <1>3, <2>1, <2>2
<1>7. CASE M!TaskDestroys
  <2>1. ms' = [ms EXCEPT !.task = "destroyed", !.unavailable = ms.unavailable, !.crypto = ms.crypto + 1,
                         !.in = ms.in, !.out = ms.out]
    BY <1>1, <1>7 DEF M!TaskDestroys, M!m_destroy, M!Goes, MsStates
  <2>2. ms.task = "unlooped"
    BY <1>7 DEF M!TaskDestroys
  <2> QED BY <1>2, <1>3, <2>1, <2>2
<1>8. CASE M!TaskEnds
  <2>1. ms' = [ms EXCEPT !.task = "ended", !.unavailable = TRUE, !.crypto = ms.crypto,
                         !.in = ms.in, !.out = ms.out]
    BY <1>1, <1>8 DEF M!TaskEnds, M!Goes, MsStates
  <2> QED BY <1>2, <1>3, <2>1
<1> QED BY <1>4, <1>5, <1>6, <1>7, <1>8

\* After a fault only the types and the rooms of the worker count.
LEMMA MsUnsound ==
    ASSUME NEW m \in MsStates, ~MsSound(m),
           MsSwept(m)
    PROVE  MsInv(m)
BY DEF MsInv

\* A step that aborts: it is known by its fault.
LEMMA MsAborts ==
    ASSUME NEW b \in MsStates, NEW f \in {"early", "buffer", "channel", "map"},
           ms' = M!Goes(M!Fault(b, f), "aborted")
    PROVE  MsAll'
<1> DEFINE g == M!Fault(b, f)
<1>1. f \in MsFaults /\ f \notin {"handler", "json", "loop"} /\ "aborted" \in MsTasks
  BY DEF MsFaults, MsTasks
<1>2. g \in MsStates /\ g.faults = b.faults \cup {f}
  BY <1>1, MsFault
<1>3. ms' = [g EXCEPT !.task = "aborted"]
  BY DEF M!Goes
<1> HIDE DEF g
<1>4. ms' \in MsStates /\ ms'.faults = g.faults /\ ms'.task = "aborted"
  BY <1>1, <1>2, <1>3 DEF MsStates
<1>5. ~MsSound(ms') /\ MsSwept(ms')
  BY <1>1, <1>2, <1>4 DEF MsSound, MsSwept
<1>6. MsInv(ms')
  BY <1>4, <1>5, MsUnsound
<1> QED BY <1>6 DEF MsAll

\* The steps of Loop::Close on kore's thread.
LEMMA MsCloses ==
    ASSUME MsAll, M!im_down \/ M!CloseChannel \/ \E room \in ms.todo : M!DestroyRoom(room)
    PROVE  MsAll'
<1>1. ms \in MsStates /\ MsInv(ms) /\ ms.out \in Seq(MsTold) /\ ms.rooms \in SUBSET Nat /\ ms.todo \in SUBSET Nat
  BY DEF MsAll, MsInv, MsStates
<1>2. ASSUME NEW t \in {"closing", "deleted"}, NEW T \in SUBSET Nat, NEW R \in SUBSET Nat, NEW o \in Seq(MsTold),
             ms' = [ms EXCEPT !.task = t, !.todo = T, !.rooms = R, !.out = o],
             R \ ms.late \subseteq T, t = "deleted" => T = {}
      PROVE  MsAll'
  <2> DEFINE m == [ms EXCEPT !.task = t, !.todo = T, !.rooms = R, !.out = o]
  <2>1. t \in MsTasks /\ t \notin {"starting", "running", "closed", "unlooped", "destroyed"}
    BY DEF MsTasks
  <2>2. /\ m \in MsStates /\ m.s = ms.s /\ m.letters = ms.letters /\ m.w = ms.w /\ m.t = ms.t /\ m.next = ms.next
        /\ m.faults = ms.faults /\ m.server = ms.server /\ m.rooms = R /\ m.todo = T /\ m.late = ms.late /\ m.task = t
    BY <1>1, <2>1 DEF MsStates
  <2> HIDE DEF m
  <2>3. MsRest(ms, m)
    BY <2>2 DEF MsRest
  <2>4. MsSound(m) => MsWaits(m)
    BY <1>1, <2>3, MsResting
  <2>5. MsSwept(m)
    BY <1>2, <2>1, <2>2 DEF MsSwept
  <2>6. MsInv(m)
    BY <2>1, <2>2, <2>4, <2>5 DEF MsInv
  <2> QED BY <1>2, <2>6 DEF MsAll, m
<1>3. CASE M!im_down
  <2>1. CASE ms.task = "starting"
    BY <1>1, <1>3, <2>1, MsAborts DEF M!im_down
  <2>2. CASE ms.task # "starting"
    <3>1. ms' = M!Close(ms)
      BY <1>3, <2>2 DEF M!im_down
    <3>2. ms' = [ms EXCEPT !.task = "closing", !.todo = ms.rooms, !.rooms = ms.rooms, !.out = ms.out]
      BY <1>1, <3>1 DEF M!Close, M!Goes, MsStates
    <3> QED BY <1>1, <1>2, <3>2
  <2> QED BY <2>1, <2>2
<1>4. CASE M!CloseChannel
  <2>1. ms.task = "closing" /\ ms.todo = {} /\ ms' = M!Goes(ms, "deleted")
    BY <1>4 DEF M!CloseChannel
  <2>2. ms' = [ms EXCEPT !.task = "deleted", !.todo = {}, !.rooms = ms.rooms, !.out = ms.out]
    BY <1>1, <2>1 DEF M!Goes, MsStates
  <2>3. ms.rooms \ ms.late \subseteq {}
    BY <1>1, <2>1 DEF MsInv, MsSwept
  <2>4. {} \in SUBSET Nat
    OBVIOUS
  <2> QED BY <1>1, <1>2, <2>2, <2>3, <2>4
<1>5. ASSUME NEW room \in ms.todo, M!DestroyRoom(room) PROVE MsAll'
  <2> DEFINE o == Append(ms.out, M!Emit(room))
             T == ms.todo \ {room}
             R == ms.rooms \ {room}
  <2>1. ms.task = "closing" /\ ms' = M!Send([ms EXCEPT !.todo = @ \ {room}, !.rooms = @ \ {room}], M!Emit(room))
    BY <1>5 DEF M!DestroyRoom
  <2>2. ms' = [ms EXCEPT !.task = "closing", !.todo = T, !.rooms = R, !.out = o]
    BY <1>1, <2>1 DEF M!Send, MsStates
  <2>3. o \in Seq(MsTold)
    <3>1. M!Emit(room) \in MsTold
      BY <1>1 DEF M!Emit, MsTold
    <3> QED BY <1>1, <3>1
  <2>4. T \in SUBSET Nat /\ R \in SUBSET Nat /\ R \ ms.late \subseteq T
    BY <1>1, <2>1 DEF MsInv, MsSwept
  <2> HIDE DEF o, T, R
  <2> QED BY <1>2, <2>2, <2>3, <2>4
<1> QED BY <1>3, <1>4, <1>5

\* The soup of a connection goes; its letter stays.
LEMMA MsGone ==
    ASSUME MsAll, NEW c \in Conns, M!websocket_disconnect(c)
    PROVE  MsAll'
<1> DEFINE x == [ms.s[c] EXCEPT !.life = "freed"]
           m == [ms EXCEPT !.s = [ms.s EXCEPT ![c] = x]]
<1>1. ms \in MsStates /\ ms.s[c] \in MsSoups /\ ms.s \in [Conns -> MsSoups]
  BY DEF MsAll, MsInv, MsStates
<1>2. ms' = m /\ ms.s[c].life = "live" /\ ms.t = << >>
  BY <1>1 DEF M!websocket_disconnect, M!Kore, MsStates
<1>3. /\ x \in MsSoups /\ x.life = "freed" /\ x.state = ms.s[c].state /\ x.id = ms.s[c].id
      /\ x.room = ms.s[c].room /\ x.cbs = ms.s[c].cbs
  BY <1>1 DEF MsSoups
<1> HIDE DEF x
<1>4. /\ m \in MsStates /\ m.s[c] = x /\ (\A d \in Conns : d # c => m.s[d] = ms.s[d])
      /\ m.letters = ms.letters /\ m.w = ms.w /\ m.next = ms.next /\ m.in = ms.in /\ m.out = ms.out
      /\ m.faults = ms.faults /\ m.server = ms.server /\ m.rooms = ms.rooms /\ m.task = ms.task
      /\ m.t = ms.t /\ m.req = ms.req /\ m.todo = ms.todo /\ m.late = ms.late
      /\ m.listeners = ms.listeners /\ m.rejected = ms.rejected
  <2>1. [ms.s EXCEPT ![c] = x] \in [Conns -> MsSoups]
    BY <1>1, <1>3
  <2> QED BY <1>1, <2>1 DEF MsStates
<1> HIDE DEF m
<1>5. /\ \A d \in Conns : m.s[d].state = ms.s[d].state /\ m.s[d].room = ms.s[d].room /\ m.s[d].id = ms.s[d].id
                          /\ m.s[d].cbs = ms.s[d].cbs
      /\ \A d \in Conns : \/ m.s[d].life = ms.s[d].life
                          \/ m.s[d].life = "freed" /\ ms.s[d].life = "live"
  BY <1>2, <1>3, <1>4
<1>6. ASSUME MsSound(m) PROVE MsWaits(m)
  <2>1. MsWaits(ms)
    BY <1>4, <1>6 DEF MsAll, MsInv, MsSound
  <2>2. \A d \in Conns : MsSettled(m, d) /\ MsPosted(m, d) /\ m.s[d].room < m.next
    BY <1>4, <1>5, <2>1 DEF MsWaits, MsSettled, MsPosted
  <2>3. \A l \in m.letters : l.c \in Conns
    BY <1>4 DEF MsStates, MsLetters
  <2>4. \A l \in m.letters : MsKept(m, l)
    BY <1>4, <1>5, <2>1, <2>3 DEF MsWaits, MsKept
  <2>5. m.w # << >> => m.w[1].c \in Conns
    BY <1>4 DEF MsStates, MsLetters
  <2>6. MsAnswering(m)
    BY <1>4, <1>5, <2>1, <2>5 DEF MsWaits, MsAnswering
  <2>7. \A k, l \in m.letters : k.id = l.id => k = l
    BY <1>4, <2>1 DEF MsWaits
  <2>8. MsTiming(m)
    <3>1. \A d \in Conns : m.t # <<d>>
      BY <1>2, <1>4
    <3> QED BY <3>1 DEF MsTiming
  <2> QED BY <2>2, <2>4, <2>6, <2>7, <2>8 DEF MsWaits
<1>7. ASSUME MsSound(m), m.task \in {"starting", "running"} PROVE MsMirror(m)
  <2>1. MsMirror(ms)
    BY <1>4, <1>7 DEF MsAll, MsInv, MsSound
  <2>2. \A d \in Conns : \A r : MsOf(ms, d, r) => MsOf(m, d, r)
    BY <1>5 DEF MsOf
  <2>3. \A i \in DOMAIN m.in : MsAsking(m, m.in[i])
    BY <1>4, <2>1, <2>2 DEF MsMirror, MsAsking
  <2>4. \A i \in DOMAIN m.out : MsTelling(m, m.out[i])
    BY <1>4, <2>1 DEF MsMirror, MsTelling
  <2>5. \A r \in m.rooms : MsMade(m, r)
    BY <1>4, <1>5, <2>1, <2>2 DEF MsMirror, MsMade, MsComing
  <2>6. \A d \in Conns : m.s[d].state = "DONE" => m.s[d].room \in m.rejected \cup m.listeners
    BY <1>4, <1>5, <2>1 DEF MsMirror
  <2>7. m.listeners \subseteq m.rooms
    BY <1>4, <2>1 DEF MsMirror
  <2>8. \A q \in MsAsked : m.req = <<q>> => q.heap /\ MsAsking(m, q)
    BY <1>4, <2>1, <2>2 DEF MsMirror, MsAsking
  <2> QED BY <2>3, <2>4, <2>5, <2>6, <2>7, <2>8 DEF MsMirror
<1>8. MsInv(m)
  BY <1>1, <1>4, <1>6, <1>7 DEF MsInv, MsAll, MsSwept
<1> QED BY <1>2, <1>8 DEF MsAll

\* han: the server is gone, and nothing is claimed any more.
LEMMA MsExit ==
    ASSUME MsAll, M!han
    PROVE  MsAll'
<1> DEFINE b == IF ms.unavailable THEN ms ELSE [ms EXCEPT !.crypto = ms.crypto + 1]
           g == IF ms.w # << >> THEN M!Fault(b, "server") ELSE b
           m == [g EXCEPT !.letters = {}, !.listeners = {}, !.server = "freed"]
<1>1. ms \in MsStates
  BY DEF MsAll, MsInv
<1>2. b \in MsStates /\ b.rooms = ms.rooms /\ b.todo = ms.todo /\ b.late = ms.late /\ b.task = ms.task
  <2>1. ms.crypto \in Nat
    BY <1>1 DEF MsStates
  <2>2. ms.crypto + 1 \in Nat
    BY <2>1
  <2> QED BY <1>1, <2>2 DEF MsStates
<1>3. b = IF ms.unavailable THEN ms ELSE M!m_destroy(ms)
  BY DEF M!m_destroy
<1> HIDE DEF b
<1>4. g \in MsStates /\ g.rooms = b.rooms /\ g.todo = b.todo /\ g.late = b.late /\ g.task = b.task
  <2>1. "server" \in MsFaults
    BY DEF MsFaults
  <2> QED BY <1>2, <2>1, MsFault DEF MsSame
<1>5. ms' = M!md_destroy(g)
  BY <1>3 DEF M!han
<1> HIDE DEF g
<1>6. ms' = m
  BY <1>4, <1>5 DEF M!md_destroy, M!channel_close, M!pending_close, MsStates
<1>7. m \in MsStates /\ m.rooms = g.rooms /\ m.todo = g.todo /\ m.late = g.late /\ m.task = g.task /\ m.server = "freed"
  BY <1>4 DEF MsStates
<1> HIDE DEF m
<1>8. MsSwept(m)
  BY <1>2, <1>4, <1>7 DEF MsAll, MsInv, MsSwept
<1>9. ~MsSound(m)
  BY <1>7 DEF MsSound
<1>10. MsInv(m)
  BY <1>1, <1>2, <1>4, <1>7, <1>8, <1>9, MsUnsound
<1> QED BY <1>6, <1>10 DEF MsAll

\* A request that is queued for the worker.
LEMMA MsQueueing ==
    ASSUME NEW b \in MsStates, NEW m, NEW q \in MsAsked, MsQueued(b, q, m),
           \A i \in DOMAIN b.in : MsAsking(m, b.in[i]), MsAsking(m, q)
    PROVE  \A i \in DOMAIN m.in : MsAsking(m, m.in[i])
<1>1. b.in \in Seq(MsAsked)
  BY DEF MsStates
<1>2. CASE m.in = b.in
  BY <1>2
<1>3. CASE m.in = Append(b.in, q)
  <2> DEFINE a == Append(b.in, q)
  <2>1. \A i \in DOMAIN a : (i \in DOMAIN b.in /\ a[i] = b.in[i]) \/ a[i] = q
    BY <1>1
  <2> HIDE DEF a
  <2> QED BY <1>3, <2>1 DEF a
<1> QED BY <1>2, <1>3 DEF MsQueued

\* A message of the websocket that fires a buffer which is not on the heap.
LEMMA MsMessage ==
    ASSUME MsAll, M!websocket_message
    PROVE  MsAll'
<1> DEFINE q == [id |-> 0, room |-> 0, heap |-> FALSE]
           f == M!Fire(ms, q)
           m == [f EXCEPT !.wild = f.wild + 1]
<1>1. ms \in MsStates /\ MsInv(ms)
  BY DEF MsAll, MsInv
<1>2. q \in MsAsked /\ ~q.heap
  BY DEF MsAsked
<1>3. ms' = m
  BY DEF M!websocket_message
<1> HIDE DEF q
<1>4. MsFired(ms, q, f)
  BY <1>1, <1>2, MsFire
<1> HIDE DEF f
<1>5. f \in MsStates /\ f.wild \in Nat
  BY <1>4 DEF MsFired, MsStates
<1>6. f.wild + 1 \in Nat
  BY <1>5
<1>7. /\ m \in MsStates /\ m.s = f.s /\ m.letters = f.letters /\ m.w = f.w /\ m.next = f.next /\ m.in = f.in
      /\ m.out = f.out /\ m.faults = f.faults /\ m.server = f.server /\ m.rooms = f.rooms /\ m.task = f.task
      /\ m.t = f.t /\ m.req = f.req /\ m.todo = f.todo /\ m.late = f.late
      /\ m.listeners = f.listeners /\ m.rejected = f.rejected
  BY <1>5, <1>6 DEF MsStates
<1> HIDE DEF m
<1>8. /\ m.s = ms.s /\ m.letters = ms.letters /\ m.w = ms.w /\ m.next = ms.next /\ MsQueued(ms, q, m)
      /\ m.out = ms.out /\ ms.faults \subseteq m.faults /\ m.server = ms.server /\ m.rooms = ms.rooms
      /\ m.t = ms.t /\ m.req = ms.req /\ m.todo = ms.todo /\ m.late = ms.late
      /\ m.listeners = ms.listeners /\ m.rejected = ms.rejected
      /\ m.task = ms.task \/ (m.task = "aborted" /\ "early" \in m.faults)
  BY <1>4, <1>7 DEF MsFired, MsQueued
<1>9. MsRest(ms, m)
  BY <1>8 DEF MsRest
<1>10. MsSound(m) => MsWaits(m)
  BY <1>1, <1>9, MsResting
<1>11. ASSUME MsSound(m), m.task \in {"starting", "running"} PROVE MsMirror(m)
  <2>1. MsMirror(ms)
    BY <1>1, <1>8, <1>11 DEF MsInv, MsSound
  <2>2. \A i \in DOMAIN ms.in : MsAsking(m, ms.in[i])
    BY <1>8, <2>1 DEF MsMirror, MsAsking, MsOf
  <2>3. MsAsking(m, q)
    BY <1>2 DEF MsAsking
  <2>4. \A i \in DOMAIN m.in : MsAsking(m, m.in[i])
    BY <1>1, <1>2, <1>8, <2>2, <2>3, MsQueueing
  <2>5. \A i \in DOMAIN m.out : MsTelling(m, m.out[i])
    BY <1>8, <2>1 DEF MsMirror, MsTelling
  <2>6. \A r \in m.rooms : MsMade(m, r)
    BY <1>8, <2>1 DEF MsMirror, MsMade, MsOf, MsComing
  <2>7. /\ \A c \in Conns : m.s[c].state = "DONE" => m.s[c].room \in m.rejected \cup m.listeners
        /\ m.listeners \subseteq m.rooms
    BY <1>8, <2>1 DEF MsMirror
  <2>8. \A r \in MsAsked : m.req = <<r>> => r.heap /\ MsAsking(m, r)
    BY <1>8, <2>1 DEF MsMirror, MsAsking, MsOf
  <2> QED BY <2>4, <2>5, <2>6, <2>7, <2>8 DEF MsMirror
<1>12. MsSwept(m)
  BY <1>1, <1>8 DEF MsInv, MsSwept
<1>13. MsInv(m)
  BY <1>1, <1>7, <1>8, <1>10, <1>11, <1>12 DEF MsInv
<1> QED BY <1>3, <1>13 DEF MsAll

\* The worker's thread answers a request about a room it has, or has just made.
MsReply(i, q, ok, T, W) ==
    [ms EXCEPT !.in = i, !.req = << >>, !.rooms = ms.rooms \cup {q.room},
               !.out = Append(ms.out, [kind |-> "answer", id |-> q.id, ok |-> ok]), !.todo = T, !.late = W]
MsReplies(i, q, T, W) ==
    /\ \A j \in DOMAIN i : \E k \in DOMAIN ms.in : i[j] = ms.in[k]
    /\ MsMirror(ms) => q.heap /\ MsAsking(ms, q)
    /\ ms.task \in {"running", "closing"}
    /\ ms.task = "closing" => (ms.rooms \cup {q.room}) \ W \subseteq T

LEMMA MsTells ==
    ASSUME MsAll, NEW i \in Seq(MsAsked), NEW q \in MsAsked, NEW ok \in BOOLEAN, NEW T \in SUBSET Nat,
           NEW W \in SUBSET Nat, MsReplies(i, q, T, W)
    PROVE  MsInv(MsReply(i, q, ok, T, W))
<1> DEFINE R == ms.rooms \cup {q.room}
           a == [kind |-> "answer", id |-> q.id, ok |-> ok]
           v == << >>
           m == MsReply(i, q, ok, T, W)
           o == Append(ms.out, a)
<1>1. ms \in MsStates /\ MsInv(ms) /\ ms.out \in Seq(MsTold)
  BY DEF MsAll, MsInv, MsStates
<1>x. v = << >> /\ v \in {<< >>} \cup {<<r>> : r \in MsAsked} /\ \A r : v # <<r>>
  OBVIOUS
<1>y. /\ \A j \in DOMAIN i : \E k \in DOMAIN ms.in : i[j] = ms.in[k]
      /\ MsMirror(ms) => q.heap /\ MsAsking(ms, q)
      /\ ms.task \in {"running", "closing"}
      /\ ms.task = "closing" => R \ W \subseteq T
  BY DEF MsReplies
<1>2. q.room \in Nat /\ q.id \in Nat
  BY DEF MsAsked
<1>3. a \in MsTold /\ a.kind = "answer" /\ a.id = q.id
  BY <1>2 DEF MsTold
<1>4. /\ o \in Seq(MsTold) /\ Len(ms.out) + 1 \in DOMAIN o /\ o[Len(ms.out) + 1] = a
      /\ \A j \in DOMAIN ms.out : j \in DOMAIN o /\ o[j] = ms.out[j]
      /\ \A j \in DOMAIN o : (j \in DOMAIN ms.out /\ o[j] = ms.out[j]) \/ o[j] = a
  BY <1>1, <1>3
<1>5. R \in SUBSET Nat /\ ms.rooms \subseteq R /\ q.room \in R
  BY <1>1, <1>2 DEF MsStates
<1>6. m = [ms EXCEPT !.in = i, !.req = v, !.rooms = R, !.out = o, !.todo = T, !.late = W]
  BY DEF MsReply
<1>z. \A r \in R : r \in ms.rooms \/ r = q.room
  OBVIOUS
<1> HIDE DEF o, v, R, a, m
<1>7. /\ m \in MsStates /\ m.s = ms.s /\ m.letters = ms.letters /\ m.w = ms.w /\ m.t = ms.t /\ m.next = ms.next
      /\ m.in = i /\ m.req = v /\ m.todo = T /\ m.late = W
      /\ m.out = o /\ m.faults = ms.faults /\ m.server = ms.server /\ m.rooms = R /\ m.task = ms.task
      /\ m.listeners = ms.listeners /\ m.rejected = ms.rejected
  BY <1>1, <1>4, <1>5, <1>6, <1>x DEF MsStates
<1>8. MsRest(ms, m)
  BY <1>7 DEF MsRest
<1>9. MsSound(m) => MsWaits(m)
  BY <1>1, <1>8, MsResting
<1>10. ASSUME MsSound(m), m.task \in {"starting", "running"} PROVE MsMirror(m)
  <2>1. MsMirror(ms)
    BY <1>1, <1>7, <1>10 DEF MsInv, MsSound
  <2>2. \A j \in DOMAIN ms.in : MsAsking(m, ms.in[j])
    BY <1>7, <2>1 DEF MsMirror, MsAsking, MsOf
  <2>3. \A j \in DOMAIN m.in : MsAsking(m, m.in[j])
    <3> SUFFICES ASSUME NEW j \in DOMAIN i PROVE MsAsking(m, i[j])
      BY <1>7
    <3>1. PICK k \in DOMAIN ms.in : i[j] = ms.in[k]
      BY <1>y
    <3> QED BY <2>2, <3>1
  <2>4. q.id = q.room + 1 /\ \E c \in Conns : MsOf(m, c, q.room)
    BY <1>7, <1>y, <2>1 DEF MsAsking, MsOf
  <2>5. \A j \in DOMAIN m.out : MsTelling(m, m.out[j])
    <3>1. \A j \in DOMAIN ms.out : MsTelling(m, ms.out[j])
      BY <1>5, <1>7, <2>1 DEF MsMirror, MsTelling
    <3>2. MsTelling(m, a)
      BY <1>3, <1>5, <1>7, <2>4 DEF MsTelling
    <3> QED BY <1>4, <1>7, <3>1, <3>2
  <2>6. \A r \in m.rooms : MsMade(m, r)
    <3>1. MsComing(m, q.room)
      BY <1>3, <1>4, <1>7, <2>4 DEF MsComing
    <3>2. MsMade(m, q.room)
      BY <2>4, <3>1 DEF MsMade
    <3>3. \A r \in ms.rooms : MsComing(ms, r) => MsComing(m, r)
      BY <1>4, <1>7 DEF MsComing
    <3>4. \A r \in ms.rooms : MsMade(m, r)
      BY <1>7, <2>1, <3>3 DEF MsMirror, MsMade, MsOf
    <3> QED BY <1>7, <1>z, <3>2, <3>4
  <2>7. /\ \A c \in Conns : m.s[c].state = "DONE" => m.s[c].room \in m.rejected \cup m.listeners
        /\ m.listeners \subseteq m.rooms
    BY <1>5, <1>7, <2>1 DEF MsMirror
  <2>8. \A r \in MsAsked : m.req = <<r>> => r.heap /\ MsAsking(m, r)
    BY <1>7, <1>x
  <2> QED BY <2>3, <2>5, <2>6, <2>7, <2>8 DEF MsMirror
<1>11. MsSwept(m)
  BY <1>7, <1>y DEF MsSwept
<1>12. MsInv(m)
  BY <1>7, <1>9, <1>10, <1>11 DEF MsInv
<1> QED BY <1>12 DEF m

\* A request is read by the worker: it is refused, or its room is made next.
LEMMA MsReads ==
    ASSUME MsAll, M!on_to_cpp
    PROVE  MsAll'
<1> DEFINE i == Tail(ms.in)
           b == [ms EXCEPT !.in = i]
           q == Head(ms.in)
<1>1. ms \in MsStates /\ MsInv(ms) /\ ms.in \in Seq(MsAsked) /\ ms.out \in Seq(MsTold)
      /\ ms.todo \in SUBSET Nat /\ ms.late \in SUBSET Nat
  BY DEF MsAll, MsInv, MsStates
<1>2. ms.in # << >> /\ ms.task \in {"running", "closing", "deleted"} /\ ms.req = << >>
  BY DEF M!on_to_cpp, M!Worker
<1>3. i \in Seq(MsAsked) /\ q \in MsAsked /\ q = ms.in[1] /\ 1 \in DOMAIN ms.in
  BY <1>1, <1>2
<1>4. \A j \in DOMAIN i : \E k \in DOMAIN ms.in : i[j] = ms.in[k]
  <2>1. \A j \in DOMAIN i : j + 1 \in DOMAIN ms.in /\ i[j] = ms.in[j + 1]
    BY <1>1, <1>2
  <2> HIDE DEF i
  <2> QED BY <2>1
<1>5. ms' = IF ms.task = "deleted" THEN M!Goes(M!Fault(b, "channel"), "aborted")
            ELSE M!UserOnUnixStreamRead(b, q)
  BY DEF M!on_to_cpp
<1> HIDE DEF i, q
<1>6. b \in MsStates /\ b.rooms = ms.rooms /\ b.out = ms.out
  BY <1>1, <1>3 DEF MsStates
<1>7. CASE ms.task = "deleted" \/ ~q.heap
  <2>1. PICK f \in {"buffer", "channel"} : ms' = M!Goes(M!Fault(b, f), "aborted")
    BY <1>5, <1>7 DEF M!UserOnUnixStreamRead
  <2> QED BY <1>6, <2>1, MsAborts
<1>8. CASE ms.task # "deleted" /\ q.heap
  <2>1. ms' = M!OnChannelRequest(b, q)
    BY <1>5, <1>8 DEF M!UserOnUnixStreamRead
  <2>2. MsMirror(ms) => MsAsking(ms, q)
    BY <1>3 DEF MsMirror
  <2>3. CASE q.room \in ms.rooms
    <3> DEFINE m == MsReply(i, q, FALSE, ms.todo, ms.late)
    <3>1. ms' = M!Reject(b, q)
      BY <1>6, <2>1, <2>3 DEF M!OnChannelRequest, M!GetRoomFromRequest
    <3>2. ms.rooms \cup {q.room} = ms.rooms
      BY <2>3
    <3>3. ms' = [b EXCEPT !.out = Append(ms.out, [kind |-> "answer", id |-> q.id, ok |-> FALSE])]
      BY <1>6, <3>1 DEF M!Reject, M!Send
    <3>4. ms' = m
      BY <1>1, <1>2, <3>2, <3>3 DEF MsStates, MsReply
    <3>5. MsReplies(i, q, ms.todo, ms.late)
      BY <1>1, <1>2, <1>4, <1>8, <2>2, <3>2 DEF MsInv, MsSwept, MsReplies
    <3>6. MsInv(m)
      BY <1>1, <1>3, <3>5, MsTells
    <3> QED BY <3>4, <3>6 DEF MsAll
  <2>4. CASE q.room \notin ms.rooms
    <3> DEFINE v == <<q>>
               m == [ms EXCEPT !.in = i, !.req = v]
    <3>1. ms' = [b EXCEPT !.req = v]
      BY <1>6, <2>1, <2>4 DEF M!OnChannelRequest, M!GetRoomFromRequest
    <3>2. v \in {<< >>} \cup {<<r>> : r \in MsAsked} /\ \A r : v = <<r>> => r = q
      BY <1>3
    <3> HIDE DEF v
    <3>3. ms' = m
      BY <3>1
    <3>4. /\ m \in MsStates /\ m.s = ms.s /\ m.letters = ms.letters /\ m.w = ms.w /\ m.t = ms.t /\ m.next = ms.next
          /\ m.in = i /\ m.req = v /\ m.todo = ms.todo /\ m.late = ms.late
          /\ m.out = ms.out /\ m.faults = ms.faults /\ m.server = ms.server /\ m.rooms = ms.rooms /\ m.task = ms.task
          /\ m.listeners = ms.listeners /\ m.rejected = ms.rejected
      BY <1>1, <1>3, <3>2 DEF MsStates
    <3> HIDE DEF m
    <3>5. MsRest(ms, m)
      BY <3>4 DEF MsRest
    <3>6. MsSound(m) => MsWaits(m)
      BY <1>1, <3>5, MsResting
    <3>7. ASSUME MsSound(m), m.task \in {"starting", "running"} PROVE MsMirror(m)
      <4>1. MsMirror(ms)
        BY <1>1, <3>4, <3>7 DEF MsInv, MsSound
      <4>2. \A r : MsAsking(ms, r) => MsAsking(m, r)
        BY <3>4 DEF MsAsking, MsOf
      <4>3. \A j \in DOMAIN m.in : MsAsking(m, m.in[j])
        <5> SUFFICES ASSUME NEW j \in DOMAIN i PROVE MsAsking(m, i[j])
          BY <3>4
        <5>1. PICK k \in DOMAIN ms.in : i[j] = ms.in[k]
          BY <1>4
        <5> QED BY <4>1, <4>2, <5>1 DEF MsMirror
      <4>4. \A r \in MsAsked : m.req = <<r>> => r.heap /\ MsAsking(m, r)
        BY <1>8, <2>2, <3>2, <3>4, <4>1, <4>2
      <4>5. \A j \in DOMAIN m.out : MsTelling(m, m.out[j])
        BY <3>4, <4>1 DEF MsMirror, MsTelling
      <4>6. \A r \in m.rooms : MsMade(m, r)
        BY <3>4, <4>1 DEF MsMirror, MsMade, MsOf, MsComing
      <4>7. /\ \A c \in Conns : m.s[c].state = "DONE" => m.s[c].room \in m.rejected \cup m.listeners
            /\ m.listeners \subseteq m.rooms
        BY <3>4, <4>1 DEF MsMirror
      <4> QED BY <4>3, <4>4, <4>5, <4>6, <4>7 DEF MsMirror
    <3>8. MsInv(m)
      BY <1>1, <3>4, <3>6, <3>7 DEF MsInv, MsSwept
    <3> QED BY <3>3, <3>8 DEF MsAll
  <2> QED BY <2>3, <2>4
<1> QED BY <1>7, <1>8

\* The room is put into the map, beside Close or after it.
LEMMA MsRoom ==
    ASSUME MsAll, M!CreateRoom
    PROVE  MsAll'
<1> DEFINE q == ms.req[1]
           R == ms.rooms \cup {q.room}
           W == ms.late \cup {q.room}
           b == [ms EXCEPT !.rooms = R, !.req = << >>]
           d == [b EXCEPT !.late = W]
<1>1. /\ ms \in MsStates /\ MsInv(ms) /\ ms.in \in Seq(MsAsked) /\ ms.todo \in SUBSET Nat /\ ms.late \in SUBSET Nat
      /\ ms.rooms \in SUBSET Nat /\ ms.req \in {<< >>} \cup {<<r>> : r \in MsAsked}
  BY DEF MsAll, MsInv, MsStates
<1>2. q \in MsAsked /\ ms.req = <<q>>
  <2>1. ms.req # << >>
    BY DEF M!CreateRoom
  <2>2. PICK r \in MsAsked : ms.req = <<r>>
    BY <1>1, <2>1
  <2> QED BY <2>2
<1>3. \/ ms.task = "running" /\ ms' = M!Accept(b, q)
      \/ ms.task = "closing" /\ ms' = M!Accept(d, q)
      \/ ms.task = "closing" /\ ms' = M!Accept([d EXCEPT !.todo = @ \cup {q.room}], q)
      \/ \E f \in {"map", "channel"} : ms' = M!Goes(M!Fault(d, f), "aborted")
  <2>1. b = [M!NewRoom(ms, q.room) EXCEPT !.req = << >>] /\ d = [b EXCEPT !.late = @ \cup {q.room}]
    BY <1>1 DEF M!NewRoom, MsStates
  <2> HIDE DEF b, d, q
  <2> QED BY <2>1 DEF M!CreateRoom, q
<1>4. q.room \in Nat
  BY <1>2 DEF MsAsked
<1> HIDE DEF q
<1>5. R \in SUBSET Nat /\ W \in SUBSET Nat /\ ms.todo \cup {q.room} \in SUBSET Nat
  BY <1>1, <1>4
<1>6. d \in MsStates
  BY <1>1, <1>5 DEF MsStates
<1>7. MsMirror(ms) => q.heap /\ MsAsking(ms, q)
  BY <1>2 DEF MsMirror
<1>8. \A j \in DOMAIN ms.in : \E k \in DOMAIN ms.in : ms.in[j] = ms.in[k]
  OBVIOUS
<1>9. ASSUME NEW T \in SUBSET Nat, NEW V \in SUBSET Nat, ms' = MsReply(ms.in, q, TRUE, T, V),
             ms.task \in {"running", "closing"}, ms.task = "closing" => R \ V \subseteq T
      PROVE  MsAll'
  <2>1. MsReplies(ms.in, q, T, V)
    BY <1>7, <1>8, <1>9 DEF MsReplies
  <2>2. MsInv(MsReply(ms.in, q, TRUE, T, V))
    BY <1>1, <1>2, <2>1, MsTells
  <2> QED BY <1>9, <2>2 DEF MsAll
<1>10. CASE ms.task = "running" /\ ms' = M!Accept(b, q)
  <2>1. ms' = MsReply(ms.in, q, TRUE, ms.todo, ms.late)
    BY <1>1, <1>10 DEF M!Accept, M!Send, MsStates, MsReply
  <2> QED BY <1>1, <1>9, <1>10, <2>1
<1>11. ASSUME NEW T \in {ms.todo, ms.todo \cup {q.room}}, ms.task = "closing", ms' = M!Accept([d EXCEPT !.todo = T], q)
       PROVE  MsAll'
  <2>1. T \in SUBSET Nat
    BY <1>1, <1>5
  <2>2. ms' = MsReply(ms.in, q, TRUE, T, W)
    BY <1>1, <1>11 DEF M!Accept, M!Send, MsStates, MsReply
  <2>3. R \ W \subseteq T
    BY <1>1, <1>11 DEF MsInv, MsSwept
  <2> HIDE DEF R, W
  <2> QED BY <1>5, <1>9, <1>11, <2>1, <2>2, <2>3
<1>12. CASE ms.task = "closing" /\ ms' = M!Accept(d, q)
  <2>1. d = [d EXCEPT !.todo = ms.todo]
    BY <1>1, <1>6 DEF MsStates
  <2> QED BY <1>11, <1>12, <2>1
<1>13. CASE ms.task = "closing" /\ ms' = M!Accept([d EXCEPT !.todo = @ \cup {q.room}], q)
  <2>1. [d EXCEPT !.todo = @ \cup {q.room}] = [d EXCEPT !.todo = ms.todo \cup {q.room}]
    BY <1>1 DEF MsStates
  <2> QED BY <1>11, <1>13, <2>1
<1>14. ASSUME NEW f \in {"map", "channel"}, ms' = M!Goes(M!Fault(d, f), "aborted") PROVE MsAll'
  BY <1>6, <1>14, MsAborts
<1> QED BY <1>3, <1>10, <1>12, <1>13, <1>14

----------------------------------------------------------------------------
(* What happens to a soup.                                                  *)

\* The state with another soup of c.
MsPut(b, c, x) == [b EXCEPT !.s = [b.s EXCEPT ![c] = x]]

MsHas(b, c, x, m) ==
    /\ m \in MsStates /\ MsSame(b, m) /\ m.s[c] = x /\ (\A d \in Conns \ {c} : m.s[d] = b.s[d])
    /\ m.faults = b.faults /\ m.listeners = b.listeners /\ m.rejected = b.rejected

LEMMA MsPuts ==
    ASSUME NEW b \in MsStates, NEW c \in Conns, NEW x \in MsSoups
    PROVE  MsHas(b, c, x, MsPut(b, c, x))
<1>1. b.s \in [Conns -> MsSoups]
  BY DEF MsStates
<1>2. [b.s EXCEPT ![c] = x] \in [Conns -> MsSoups]
  BY <1>1
<1> QED BY <1>1, <1>2 DEF MsHas, MsPut, MsStates, MsSame

\* A soup that is called back with an answer, or with an error.
MsDone(b, c, ok, m) ==
    /\ m \in MsStates /\ MsSame(b, m) /\ b.faults \subseteq m.faults
    /\ b.s[c].life = "freed" => "soup" \in m.faults
    /\ \A d \in Conns \ {c} : m.s[d] = b.s[d]
    /\ m.s[c].life = b.s[c].life /\ m.s[c].id = b.s[c].id /\ m.s[c].room = b.s[c].room
    /\ m.s[c].state = "DONE" /\ m.s[c].cbs = b.s[c].cbs + 1
    /\ IF ok THEN m.listeners = b.listeners \cup {b.s[c].room} /\ m.rejected = b.rejected
       ELSE m.rejected = b.rejected \cup {b.s[c].room} /\ m.listeners = b.listeners

LEMMA MsCalling ==
    ASSUME NEW b \in MsStates, NEW c \in Conns, NEW ok \in BOOLEAN, NEW e,
           e = IF ok THEN [b EXCEPT !.s[c].state = "RESULT"] ELSE M!soup_set_error(b, c)
    PROVE  MsDone(b, c, ok, M!Callback(e, c))
<1> DEFINE v == IF ok THEN "RESULT" ELSE "ERROR"
           x == [b.s[c] EXCEPT !.state = v]
           m == M!Callback(e, c)
<1>1. b.s \in [Conns -> MsSoups] /\ b.s[c] \in MsSoups
  BY DEF MsStates
<1>2. e = MsPut(b, c, x)
  <2>1. CASE ok
    BY <1>1, <2>1 DEF MsPut, MsStates, MsSoups
  <2>2. CASE ~ok
    BY <1>1, <2>2 DEF MsPut, M!soup_set_error, MsStates, MsSoups
  <2> QED BY <2>1, <2>2
<1>3. /\ x \in MsSoups /\ x.state = v /\ x.life = b.s[c].life /\ x.id = b.s[c].id /\ x.room = b.s[c].room
      /\ x.cbs = b.s[c].cbs
  BY <1>1 DEF MsSoups
<1> HIDE DEF x
<1>4. /\ e \in MsStates /\ MsSame(b, e) /\ e.s[c] = x /\ (\A d \in Conns \ {c} : e.s[d] = b.s[d])
      /\ e.faults = b.faults /\ e.listeners = b.listeners /\ e.rejected = b.rejected
  <2>1. MsHas(b, c, x, MsPut(b, c, x))
    BY <1>3, MsPuts
  <2> QED BY <1>2, <2>1 DEF MsHas
<1>5. MsCalled(e, c, m)
  BY <1>4, MsCallback
<1> HIDE DEF m
<1>6. MsSame(b, m)
  BY <1>4, <1>5 DEF MsCalled, MsSame
<1>7. v = "RESULT" <=> ok
  OBVIOUS
<1> HIDE DEF v
<1>8. IF ok THEN m.listeners = b.listeners \cup {b.s[c].room} /\ m.rejected = b.rejected
      ELSE m.rejected = b.rejected \cup {b.s[c].room} /\ m.listeners = b.listeners
  <2>1. IF v = "RESULT"
        THEN m.listeners = e.listeners \cup {x.room} /\ m.rejected = e.rejected
        ELSE m.rejected = e.rejected \cup {x.room} /\ m.listeners = e.listeners
    BY <1>3, <1>4, <1>5 DEF MsCalled
  <2> QED BY <1>3, <1>4, <1>7, <2>1
<1>9. /\ m \in MsStates /\ b.faults \subseteq m.faults
      /\ b.s[c].life = "freed" => "soup" \in m.faults
      /\ m.s[c].life = b.s[c].life /\ m.s[c].id = b.s[c].id /\ m.s[c].room = b.s[c].room
      /\ m.s[c].state = "DONE" /\ m.s[c].cbs = b.s[c].cbs + 1
  BY <1>3, <1>4, <1>5 DEF MsCalled
<1>10. \A d \in Conns \ {c} : m.s[d] = b.s[d]
  BY <1>4, <1>5 DEF MsCalled
<1>11. MsDone(b, c, ok, m)
  BY <1>6, <1>8, <1>9, <1>10 DEF MsDone
<1> QED BY <1>11 DEF m

\* The id of a soup is cleared and its letter taken out.
MsClear(b, c, L, v, t) == [b EXCEPT !.letters = L, !.w = v, !.t = t, !.s[c].id = 0]
MsCleared(b, c, L, v, t, m) ==
    /\ m \in MsStates /\ m.letters = L /\ m.w = v /\ m.in = b.in /\ m.out = b.out /\ m.rooms = b.rooms
    /\ m.t = t /\ m.req = b.req /\ m.todo = b.todo /\ m.late = b.late
    /\ m.task = b.task /\ m.server = b.server /\ m.next = b.next /\ m.faults = b.faults
    /\ m.listeners = b.listeners /\ m.rejected = b.rejected
    /\ \A d \in Conns \ {c} : m.s[d] = b.s[d]
    /\ m.s[c].life = b.s[c].life /\ m.s[c].room = b.s[c].room /\ m.s[c].state = b.s[c].state
    /\ m.s[c].cbs = b.s[c].cbs

LEMMA MsClears ==
    ASSUME NEW b \in MsStates, NEW c \in Conns, NEW L \in SUBSET MsLetters,
           NEW v \in {<< >>} \cup {<<l>> : l \in MsLetters}, NEW t \in {<< >>} \cup {<<d>> : d \in Conns}
    PROVE  MsCleared(b, c, L, v, t, MsClear(b, c, L, v, t))
<1> DEFINE m == MsClear(b, c, L, v, t)
           x == [b.s[c] EXCEPT !.id = 0]
           f == [b EXCEPT !.letters = L, !.w = v, !.t = t]
<1>1. b.s \in [Conns -> MsSoups] /\ b.s[c] \in MsSoups
  BY DEF MsStates
<1>2. x \in MsSoups /\ x.life = b.s[c].life /\ x.room = b.s[c].room /\ x.state = b.s[c].state /\ x.cbs = b.s[c].cbs
  BY <1>1 DEF MsSoups
<1>3. /\ f \in MsStates /\ f.letters = L /\ f.w = v /\ f.in = b.in /\ f.out = b.out /\ f.rooms = b.rooms
      /\ f.t = t /\ f.req = b.req /\ f.todo = b.todo /\ f.late = b.late
      /\ f.task = b.task /\ f.server = b.server /\ f.next = b.next /\ f.faults = b.faults /\ f.s = b.s
      /\ f.listeners = b.listeners /\ f.rejected = b.rejected
  BY DEF MsStates
<1>4. m = MsPut(f, c, x)
  BY <1>1 DEF MsClear, MsPut, MsStates
<1> HIDE DEF x, f, m
<1>5. /\ m \in MsStates /\ MsSame(f, m) /\ m.s[c] = x /\ (\A d \in Conns \ {c} : m.s[d] = f.s[d])
      /\ m.faults = f.faults /\ m.listeners = f.listeners /\ m.rejected = f.rejected
  <2>1. MsHas(f, c, x, MsPut(f, c, x))
    BY <1>2, <1>3, MsPuts
  <2> QED BY <1>4, <2>1 DEF MsHas
<1>6. MsCleared(b, c, L, v, t, m)
  BY <1>2, <1>3, <1>5 DEF MsSame, MsCleared
<1> QED BY <1>6 DEF m

\* The rest of an answer: the letter is taken out.
LEMMA MsAnswers ==
    ASSUME MsAll, M!Answered
    PROVE  MsAll'
<1> DEFINE l == ms.w[1]
           L == {k \in ms.letters : k.id # l.id}
           v == << >>
           b == MsClear(ms, l.c, L, v, ms.t)
<1>1. /\ ms \in MsStates /\ MsInv(ms) /\ ms.w # << >>
      /\ ms.letters \in SUBSET MsLetters /\ ms.w \in {<< >>} \cup {<<k>> : k \in MsLetters}
      /\ ms.t \in {<< >>} \cup {<<d>> : d \in Conns}
  BY DEF MsAll, MsInv, M!Answered, MsStates
<1>2. l \in MsLetters /\ ms.w = <<l>>
  <2>1. PICK k \in MsLetters : ms.w = <<k>>
    BY <1>1
  <2> QED BY <2>1
<1>3. l.c \in Conns
  BY <1>2 DEF MsLetters
<1>4. ms' \in {b, M!Fault(b, "letter"), M!Fault(b, "soup")}
  <2>1. b = [M!TakeOut(ms, l.id) EXCEPT !.w = << >>, !.s[l.c].id = 0]
    BY <1>1, <1>3 DEF M!TakeOut, MsClear, MsStates
  <2> HIDE DEF b
  <2> QED BY <2>1 DEF M!Answered
<1>5. L \in SUBSET MsLetters /\ v \in {<< >>} \cup {<<k>> : k \in MsLetters}
  <2>1. L \in SUBSET MsLetters
    BY <1>1
  <2>2. v \in {<< >>} \cup {<<k>> : k \in MsLetters}
    OBVIOUS
  <2> QED BY <2>1, <2>2
<1>x. v = << >>
  BY SMTT(60)
<1> HIDE DEF v, L
<1>6. /\ b \in MsStates /\ b.letters = L /\ b.w = v /\ b.in = ms.in /\ b.out = ms.out /\ b.rooms = ms.rooms
      /\ b.t = ms.t /\ b.req = ms.req /\ b.todo = ms.todo /\ b.late = ms.late
      /\ b.task = ms.task /\ b.server = ms.server /\ b.next = ms.next /\ b.faults = ms.faults
      /\ b.listeners = ms.listeners /\ b.rejected = ms.rejected
      /\ \A d \in Conns \ {l.c} : b.s[d] = ms.s[d]
      /\ b.s[l.c].life = ms.s[l.c].life /\ b.s[l.c].room = ms.s[l.c].room /\ b.s[l.c].state = ms.s[l.c].state
      /\ b.s[l.c].cbs = ms.s[l.c].cbs
  <2>1. MsCleared(ms, l.c, L, v, ms.t, b)
    BY <1>1, <1>3, <1>5, MsClears
  <2> QED BY <2>1 DEF MsCleared
<1> HIDE DEF b, l
<1>7. MsSwept(b)
  BY <1>1, <1>6 DEF MsInv, MsSwept
<1>8. ASSUME NEW f \in {"letter", "soup"}, ms' = M!Fault(b, f) PROVE MsAll'
  <2>1. f \in MsFaults /\ f \notin {"handler", "json", "loop"}
    BY DEF MsFaults
  <2>2. ms' \in MsStates /\ ms'.rooms = b.rooms /\ ms'.todo = b.todo /\ ms'.late = b.late /\ ms'.task = b.task /\ ms'.faults = b.faults \cup {f}
    BY <1>6, <1>8, <2>1, MsFault DEF MsSame
  <2>3. ~MsSound(ms')
    BY <2>1, <2>2 DEF MsSound
  <2>4. MsInv(ms')
    BY <1>6, <1>7, <2>2, <2>3, MsUnsound DEF MsSwept
  <2> QED BY <2>4 DEF MsAll
<1>9. \A d \in Conns : /\ b.s[d].life = ms.s[d].life /\ b.s[d].room = ms.s[d].room
                       /\ b.s[d].state = ms.s[d].state /\ b.s[d].cbs = ms.s[d].cbs
  BY <1>6
<1>10. ASSUME MsSound(b) PROVE MsWaits(b)
  <2>1. MsWaits(ms)
    BY <1>1, <1>6, <1>10 DEF MsInv, MsSound
  <2>2. ms.s[l.c].state = "DONE" /\ l \in ms.letters
    BY <1>1, <2>1 DEF MsWaits, MsAnswering, l
  <2>3. \A d \in Conns : MsSettled(b, d) /\ b.s[d].room < b.next
    BY <1>6, <1>9, <2>1 DEF MsWaits, MsSettled
  <2>4. \A d \in Conns : MsPosted(b, d)
    <3> SUFFICES ASSUME NEW d \in Conns, b.s[d].life = "live", b.s[d].state = "WAIT"
                 PROVE  [id |-> b.s[d].id, c |-> d, timer |-> TRUE] \in b.letters /\ b.s[d].id = b.s[d].room + 1
      BY DEF MsPosted
    <3>1. d # l.c /\ b.s[d] = ms.s[d]
      BY <1>6, <1>9, <2>2
    <3> DEFINE k == [id |-> ms.s[d].id, c |-> d, timer |-> TRUE]
    <3>2. k \in ms.letters /\ ms.s[d].id = ms.s[d].room + 1 /\ k.c = d /\ k.id = ms.s[d].id
      BY <1>9, <2>1 DEF MsWaits, MsPosted
    <3>3. k.id # l.id
      BY <2>1, <2>2, <3>1, <3>2 DEF MsWaits
    <3> HIDE DEF k
    <3> QED BY <1>6, <3>1, <3>2, <3>3 DEF L, k
  <2>5. \A k \in b.letters : k \in ms.letters /\ k.id # l.id /\ k.c \in Conns
    BY <1>1, <1>6 DEF L, MsLetters
  <2>6. \A k \in b.letters : MsKept(b, k)
    <3> SUFFICES ASSUME NEW k \in b.letters PROVE MsKept(b, k)
      OBVIOUS
    <3>1. MsKept(ms, k) /\ k.id # l.id /\ k.c \in Conns
      BY <2>1, <2>5 DEF MsWaits
    <3>2. ms.w # <<k>>
      BY <1>2, <3>1
    <3>3. b.t = ms.t
      BY <1>6
    <3> QED BY <1>9, <3>1, <3>2, <3>3 DEF MsKept
  <2>7. \A j, k \in b.letters : j.id = k.id => j = k
    BY <2>1, <2>5 DEF MsWaits
  <2>8. MsAnswering(b)
    BY <1>6, <1>x DEF MsAnswering
  <2>9. MsTiming(b)
    <3> SUFFICES ASSUME NEW d \in Conns, b.t = <<d>>
                 PROVE  /\ b.s[d].life = "live" /\ b.s[d].state = "DONE" /\ b.s[d].id = b.s[d].room + 1
                        /\ \E k \in b.letters : k.c = d
                        /\ \A k \in MsLetters : b.w = <<k>> => k.c # d
      BY DEF MsTiming
    <3>1. /\ ms.s[d].life = "live" /\ ms.s[d].state = "DONE" /\ ms.s[d].id = ms.s[d].room + 1
          /\ \E k \in ms.letters : k.c = d
      BY <1>6, <2>1 DEF MsWaits, MsTiming
    <3>2. l.c # d
      BY <1>2, <1>6, <2>1 DEF MsWaits, MsTiming
    <3>3. b.s[d] = ms.s[d]
      BY <1>6, <3>2
    <3>4. PICK k \in ms.letters : k.c = d
      BY <3>1
    <3>5. k.id # l.id
      BY <2>1, <2>2, <3>2, <3>4 DEF MsWaits
    <3>6. k \in b.letters
      BY <1>6, <3>4, <3>5 DEF L
    <3>7. \A j \in MsLetters : b.w # <<j>>
      BY <1>6, <1>x
    <3> QED BY <3>1, <3>3, <3>4, <3>6, <3>7
  <2> QED BY <2>3, <2>4, <2>6, <2>7, <2>8, <2>9 DEF MsWaits
<1>11. ASSUME MsSound(b), b.task \in {"starting", "running"} PROVE MsMirror(b)
  <2>1. MsMirror(ms)
    BY <1>1, <1>6, <1>11 DEF MsInv, MsSound
  <2> QED BY <1>6, <1>9, <2>1, MsMirrorAlike
<1>12. MsInv(b)
  BY <1>1, <1>6, <1>7, <1>10, <1>11 DEF MsInv
<1>13. CASE ms' = b
  BY <1>12, <1>13 DEF MsAll
<1> QED BY <1>4, <1>8, <1>13

\* A soup that waits is called back: it is done, and every other soup is as it was.
MsEnds(b, c, ok, m) ==
    /\ b.s[c].life = "live" /\ b.s[c].state = "WAIT"
    /\ \A d \in Conns \ {c} : m.s[d] = b.s[d]
    /\ m.s[c].life = "live" /\ m.s[c].room = b.s[c].room /\ m.s[c].state = "DONE" /\ m.s[c].cbs = 1
    /\ m.next = b.next /\ m.in = b.in /\ m.req = b.req /\ m.rooms = b.rooms
    /\ IF ok THEN m.listeners = b.listeners \cup {b.s[c].room} /\ m.rejected = b.rejected
       ELSE m.rejected = b.rejected \cup {b.s[c].room} /\ m.listeners = b.listeners

\* Its letter stays, for the timer or for the answer that has called it back.
LEMMA MsEndWaits ==
    ASSUME NEW b \in MsStates, NEW m \in MsStates, NEW c \in Conns, NEW ok \in BOOLEAN, MsEnds(b, c, ok, m),
           MsWaits(b), NEW l \in b.letters, l.c = c,
           m.letters = b.letters,
           \/ /\ m.w = b.w /\ b.t = << >> /\ m.t = <<c>> /\ m.s[c].id = b.s[c].id
              /\ \A k \in MsLetters : b.w = <<k>> => k.c # c
           \/ b.w = << >> /\ m.w = <<l>> /\ m.t = b.t /\ b.t # <<c>>
    PROVE  MsWaits(m)
<1>1. /\ \A k \in b.letters : k \in MsLetters /\ k.c \in Conns
      /\ m.letters \subseteq b.letters
  BY DEF MsStates, MsLetters
<1>2. \A k \in b.letters : k.c = c <=> k = l
  <2>1. \A k \in b.letters : k.c = c => k.id = b.s[c].room + 1
    BY DEF MsWaits, MsKept
  <2> QED BY <2>1 DEF MsWaits
<1>3. \A k \in b.letters : k # l => k.id # l.id
  BY DEF MsWaits
<1>4. \A k \in b.letters : k # l => k \in m.letters
  BY <1>3
<1>x. \A d \in Conns : d # c => <<d>> # <<c>>
  OBVIOUS
<1>5. \A d \in Conns : MsSettled(m, d) /\ m.s[d].room < m.next
  <2>1. MsSettled(m, c) /\ m.s[c].room < m.next
    BY DEF MsEnds, MsWaits, MsSettled
  <2>2. \A d \in Conns \ {c} : MsSettled(m, d) /\ m.s[d].room < m.next
    BY DEF MsEnds, MsWaits, MsSettled
  <2> QED BY <2>1, <2>2
<1>6. \A d \in Conns : MsPosted(m, d)
  <2> SUFFICES ASSUME NEW d \in Conns, m.s[d].life = "live", m.s[d].state = "WAIT"
               PROVE  [id |-> m.s[d].id, c |-> d, timer |-> TRUE] \in m.letters /\ m.s[d].id = m.s[d].room + 1
    BY DEF MsPosted
  <2>1. d # c /\ m.s[d] = b.s[d]
    BY DEF MsEnds
  <2> DEFINE k == [id |-> b.s[d].id, c |-> d, timer |-> TRUE]
  <2>2. k \in b.letters /\ b.s[d].id = b.s[d].room + 1 /\ k.c = d
    BY <2>1 DEF MsWaits, MsPosted
  <2> HIDE DEF k
  <2>3. k # l
    BY <2>1, <2>2
  <2> QED BY <1>4, <2>1, <2>2, <2>3 DEF k
<1>7. \A k \in m.letters : MsKept(m, k)
  <2> SUFFICES ASSUME NEW k \in m.letters PROVE MsKept(m, k)
    OBVIOUS
  <2>1. k \in b.letters /\ MsKept(b, k) /\ k.c \in Conns
    BY <1>1 DEF MsWaits
  <2>2. CASE k = l
    BY <2>1, <2>2 DEF MsEnds, MsKept
  <2>3. CASE k # l
    <3>1. m.s[k.c] = b.s[k.c]
      BY <1>2, <2>1, <2>3 DEF MsEnds
    <3>2. (b.w = <<k>> => m.w = <<k>>) /\ (b.t = <<k.c>> => m.t = <<k.c>>)
      OBVIOUS
    <3> QED BY <2>1, <3>1, <3>2 DEF MsKept
  <2> QED BY <2>2, <2>3
<1>8. \A j, k \in m.letters : j.id = k.id => j = k
  BY <1>1 DEF MsWaits
<1>9. MsAnswering(m)
  <2>1. CASE m.w = <<l>> /\ m.letters = b.letters
    <3>1. m.w[1] = l
      BY <2>1
    <3> QED BY <2>1, <3>1 DEF MsAnswering, MsEnds
  <2>2. CASE m.w = b.w /\ \A k \in MsLetters : b.w = <<k>> => k.c # c
    <3> SUFFICES ASSUME m.w # << >> PROVE m.w[1] \in m.letters /\ m.s[m.w[1].c].state = "DONE"
      BY DEF MsAnswering
    <3>1. PICK k \in MsLetters : b.w = <<k>>
      BY <2>2 DEF MsStates
    <3>2. k # l /\ m.w[1] = k /\ b.w[1] = k /\ b.w # << >>
      BY <1>2, <2>2, <3>1
    <3>3. k \in b.letters /\ b.s[k.c].state = "DONE"
      BY <3>2 DEF MsWaits, MsAnswering
    <3>4. m.s[k.c] = b.s[k.c]
      BY <1>1, <1>2, <3>2, <3>3 DEF MsEnds
    <3> QED BY <1>4, <3>2, <3>3, <3>4
  <2> QED BY <2>1, <2>2
<1>10. MsTiming(m)
  <2> SUFFICES ASSUME NEW d \in Conns, m.t = <<d>>
               PROVE  /\ m.s[d].life = "live" /\ m.s[d].state = "DONE" /\ m.s[d].id = m.s[d].room + 1
                      /\ \E k \in m.letters : k.c = d
                      /\ \A k \in MsLetters : m.w = <<k>> => k.c # d
    BY DEF MsTiming
  <2>1. CASE m.w = b.w /\ m.t = <<c>> /\ m.s[c].id = b.s[c].id /\ \A k \in MsLetters : b.w = <<k>> => k.c # c
    <3>1. d = c
      BY <2>1
    <3>2. b.s[c].id = b.s[c].room + 1
      BY DEF MsEnds, MsWaits, MsPosted
    <3> QED BY <2>1, <3>1, <3>2 DEF MsEnds
  <2>2. CASE m.w = <<l>> /\ m.t = b.t /\ b.t # <<c>>
    <3>1. d # c /\ b.t = <<d>>
      BY <2>2
    <3>2. m.s[d] = b.s[d]
      BY <3>1 DEF MsEnds
    <3>3. /\ b.s[d].life = "live" /\ b.s[d].state = "DONE" /\ b.s[d].id = b.s[d].room + 1
          /\ \E k \in b.letters : k.c = d
      BY <3>1 DEF MsWaits, MsTiming
    <3>4. \A k \in MsLetters : m.w = <<k>> => k = l
      BY <2>2
    <3> QED BY <3>1, <3>2, <3>3, <3>4
  <2> QED BY <2>1, <2>2
<1> QED BY <1>5, <1>6, <1>7, <1>8, <1>9, <1>10 DEF MsWaits

\* It has its room if the worker has, or gave it up; the answer that ended the wait may be gone.
LEMMA MsEndMirror ==
    ASSUME NEW b \in MsStates, NEW m \in MsStates, NEW c \in Conns, NEW ok \in BOOLEAN, MsEnds(b, c, ok, m),
           MsWaits(b), MsMirror(b), ok => b.s[c].room \in b.rooms,
           \A i \in DOMAIN m.out : \E j \in DOMAIN b.out : m.out[i] = b.out[j],
           \A r \in b.rooms : \/ MsComing(b, r) => MsComing(m, r)
                              \/ \A d \in Conns : b.s[d].room = r /\ b.s[d].life = "live" /\ b.s[d].state = "WAIT" => d = c
    PROVE  MsMirror(m)
<1>1. \A d \in Conns : /\ m.s[d].life = b.s[d].life /\ m.s[d].room = b.s[d].room
                       /\ m.s[d].state = IF d = c THEN "DONE" ELSE b.s[d].state
  BY DEF MsEnds
<1>2. \A d \in Conns : \A r : MsOf(b, d, r) => MsOf(m, d, r)
  BY <1>1 DEF MsOf
<1>3. \A i \in DOMAIN m.in : MsAsking(m, m.in[i])
  BY <1>2 DEF MsEnds, MsMirror, MsAsking
<1>4. \A i \in DOMAIN m.out : MsTelling(m, m.out[i])
  <2> SUFFICES ASSUME NEW i \in DOMAIN m.out PROVE MsTelling(m, m.out[i])
    OBVIOUS
  <2>1. PICK j \in DOMAIN b.out : m.out[i] = b.out[j]
    OBVIOUS
  <2>2. MsTelling(b, b.out[j])
    BY DEF MsMirror
  <2> QED BY <2>1, <2>2 DEF MsEnds, MsTelling
<1>5. \A r \in m.rooms : MsMade(m, r)
  <2> SUFFICES ASSUME NEW r \in m.rooms PROVE MsMade(m, r)
    OBVIOUS
  <2>0. r \in b.rooms
    BY DEF MsEnds
  <2>1. PICK d \in Conns :
          MsOf(b, d, r) /\ (b.s[d].life = "freed" \/ b.s[d].state = "DONE" \/ MsComing(b, r))
    BY <2>0 DEF MsMirror, MsMade
  <2>2. m.s[d].life = "freed" \/ m.s[d].state = "DONE" \/ MsComing(m, r)
    <3>1. CASE b.s[d].life = "freed" \/ b.s[d].state = "DONE"
      BY <1>1, <3>1
    <3>2. CASE b.s[d].life # "freed" /\ b.s[d].state # "DONE" /\ MsComing(b, r)
      <4>1. b.s[d].life = "live" /\ b.s[d].state = "WAIT" /\ b.s[d].room = r
        <5>1. b.s[d] \in MsSoups /\ MsSettled(b, d)
          BY DEF MsStates, MsWaits
        <5>2. b.s[d].life \in {"none", "live", "freed"}
          BY <5>1 DEF MsSoups
        <5> QED BY <2>1, <3>2, <5>1, <5>2 DEF MsSettled, MsOf
      <4> QED BY <1>1, <2>0, <3>2, <4>1
    <3> QED BY <2>1, <3>1, <3>2
  <2> QED BY <1>2, <2>1, <2>2 DEF MsMade
<1>6. \A d \in Conns : m.s[d].state = "DONE" => m.s[d].room \in m.rejected \cup m.listeners
  <2>1. m.s[c].room \in m.rejected \cup m.listeners
    BY DEF MsEnds
  <2>2. \A d \in Conns \ {c} : m.s[d].state = "DONE" => m.s[d].room \in m.rejected \cup m.listeners
    <3>1. b.rejected \cup b.listeners \subseteq m.rejected \cup m.listeners
      BY DEF MsEnds
    <3> QED BY <1>1, <3>1 DEF MsMirror
  <2> QED BY <2>1, <2>2
<1>7. m.listeners \subseteq m.rooms
  BY DEF MsEnds, MsMirror
<1>8. \A q \in MsAsked : m.req = <<q>> => q.heap /\ MsAsking(m, q)
  BY <1>2 DEF MsEnds, MsMirror, MsAsking
<1> QED BY <1>3, <1>4, <1>5, <1>6, <1>7, <1>8 DEF MsMirror

\* The timer of a request calls its client back.
LEMMA MsTimeout ==
    ASSUME MsAll, NEW c \in Conns, M!on_timeout(c)
    PROVE  MsAll'
<1>1. ms \in MsStates /\ MsInv(ms)
  BY DEF MsAll, MsInv
<1>2. PICK l \in ms.letters : l.c = c
  BY Zenon DEF M!on_timeout
<1> DEFINE races == ms.w # << >> /\ ms.w[1].c = c
           b == IF races THEN M!Fault(ms, "race") ELSE ms
           e == M!soup_set_error(b, c)
           d == M!Callback(e, c)
           v == <<c>>
           m == [d EXCEPT !.t = v]
<1>3. /\ b \in MsStates /\ MsSame(ms, b) /\ b.s = ms.s /\ b.listeners = ms.listeners /\ b.rejected = ms.rejected
      /\ ms.faults \subseteq b.faults /\ (races => "race" \in b.faults)
  <2>1. CASE races
    <3>1. "race" \in MsFaults /\ b = M!Fault(ms, "race")
      BY <2>1 DEF MsFaults
    <3> HIDE DEF b
    <3>2. /\ b \in MsStates /\ MsSame(ms, b) /\ b.s = ms.s /\ b.listeners = ms.listeners
          /\ b.rejected = ms.rejected /\ b.faults = ms.faults \cup {"race"}
      BY <1>1, <3>1, MsFault
    <3> QED BY <3>2
  <2>2. CASE ~races
    <3>1. b = ms
      BY <2>2
    <3> QED BY <1>1, <2>2, <3>1 DEF MsSame
  <2> QED BY <2>1, <2>2
<1>4. ms' = m /\ ms.t = << >>
  BY Zenon DEF M!on_timeout, M!Kore
<1> HIDE DEF b, races
<1>5. MsDone(b, c, FALSE, d)
  <2>1. e = IF FALSE THEN [b EXCEPT !.s[c].state = "RESULT"] ELSE M!soup_set_error(b, c)
    OBVIOUS
  <2> HIDE DEF e
  <2> QED BY <1>3, <2>1, MsCalling
<1> HIDE DEF d
<1>6. d \in MsStates /\ MsSame(b, d) /\ MsSame(ms, d)
  BY <1>3, <1>5 DEF MsDone, MsSame
<1>7. v \in {<< >>} \cup {<<k>> : k \in Conns}
  OBVIOUS
<1>x. v = <<c>>
  OBVIOUS
<1> HIDE DEF v
<1>8. /\ m \in MsStates /\ m.s = d.s /\ m.letters = d.letters /\ m.w = d.w /\ m.t = v /\ m.next = d.next
      /\ m.in = d.in /\ m.out = d.out /\ m.req = d.req /\ m.rooms = d.rooms /\ m.todo = d.todo /\ m.late = d.late
      /\ m.task = d.task /\ m.server = d.server /\ m.faults = d.faults
      /\ m.listeners = d.listeners /\ m.rejected = d.rejected
  BY <1>6, <1>7 DEF MsStates
<1> HIDE DEF m
<1>9. /\ m.letters = ms.letters /\ m.w = ms.w /\ m.next = ms.next /\ m.in = ms.in /\ m.out = ms.out
      /\ m.req = ms.req /\ m.rooms = ms.rooms /\ m.todo = ms.todo /\ m.late = ms.late /\ m.task = ms.task
      /\ m.server = ms.server
  BY <1>6, <1>8 DEF MsSame
<1>10. MsSwept(m)
  BY <1>1, <1>9 DEF MsInv, MsSwept
<1>11. CASE ~MsSound(m)
  <2>1. MsInv(m)
    BY <1>8, <1>10, <1>11, MsUnsound
  <2> QED BY <1>4, <2>1 DEF MsAll
<1>12. CASE MsSound(m)
  <2>1. /\ d.faults \subseteq {"handler", "json", "loop"} /\ ms.server = "live" /\ b.faults \subseteq d.faults
        /\ (b.s[c].life = "freed" => "soup" \in d.faults)
    BY <1>5, <1>8, <1>9, <1>12 DEF MsSound, MsDone
  <2>2. ~races /\ ms.s[c].life # "freed" /\ MsSound(ms)
    BY <1>3, <2>1 DEF MsSound
  <2>3. MsWaits(ms)
    BY <1>1, <2>2 DEF MsInv
  <2>4. \A k \in MsLetters : ms.w = <<k>> => k.c # c
    BY <2>2 DEF races
  <2>5. ms.s[c].life = "live" /\ ms.s[c].state = "WAIT" /\ ms.s[c].cbs = 0
    <3>1. ms.s[c] \in MsSoups /\ l \in MsLetters
      BY <1>1, <1>2 DEF MsStates
    <3>2. ms.s[c].life \in {"none", "live", "freed"}
      BY <3>1 DEF MsSoups
    <3>3. MsKept(ms, l) /\ MsSettled(ms, c)
      BY <1>2, <2>3 DEF MsWaits
    <3>4. ms.w # <<l>> /\ ms.t # <<l.c>>
      BY <1>2, <1>4, <2>4, <3>1
    <3> QED BY <1>2, <2>2, <3>2, <3>3, <3>4 DEF MsKept, MsSettled
  <2>6. MsEnds(ms, c, FALSE, m) /\ m.s[c].id = ms.s[c].id
    <3>1. m.rejected = ms.rejected \cup {ms.s[c].room} /\ m.listeners = ms.listeners
      BY <1>3, <1>5, <1>8 DEF MsDone
    <3>2. \A k \in Conns \ {c} : m.s[k] = ms.s[k]
      BY <1>3, <1>5, <1>8 DEF MsDone
    <3>3. /\ m.s[c].life = "live" /\ m.s[c].room = ms.s[c].room /\ m.s[c].state = "DONE" /\ m.s[c].cbs = 1
          /\ m.s[c].id = ms.s[c].id
      BY <1>3, <1>5, <1>8, <2>5 DEF MsDone
    <3> QED BY <1>9, <2>5, <3>1, <3>2, <3>3 DEF MsEnds
  <2>7. MsWaits(m)
    BY <1>1, <1>2, <1>4, <1>8, <1>9, <1>x, <2>3, <2>4, <2>6, MsEndWaits
  <2>8. ASSUME m.task \in {"starting", "running"} PROVE MsMirror(m)
    <3>1. MsMirror(ms)
      BY <1>1, <1>9, <2>2, <2>8 DEF MsInv
    <3>2. /\ \A i \in DOMAIN m.out : \E j \in DOMAIN ms.out : m.out[i] = ms.out[j]
          /\ \A r \in ms.rooms : MsComing(ms, r) => MsComing(m, r)
      BY <1>9 DEF MsComing
    <3> QED BY <1>1, <1>8, <2>3, <2>6, <3>1, <3>2, MsEndMirror
  <2>9. MsInv(m)
    BY <1>8, <1>10, <2>7, <2>8 DEF MsInv
  <2> QED BY <1>4, <2>9 DEF MsAll
<1> QED BY <1>11, <1>12

\* The rest of a timeout: the letter that has the id of the soup is taken out.
LEMMA MsTimedOut ==
    ASSUME MsAll, M!TimedOut
    PROVE  MsAll'
<1> DEFINE c == ms.t[1]
           n == ms.s[c].id
           L == {k \in ms.letters : k.id # n}
           v == << >>
           g == [ms EXCEPT !.t = v]
           b == MsClear(ms, c, L, ms.w, v)
<1>1. /\ ms \in MsStates /\ MsInv(ms) /\ ms.t # << >> /\ ms.t \in {<< >>} \cup {<<d>> : d \in Conns}
      /\ ms.letters \in SUBSET MsLetters /\ ms.w \in {<< >>} \cup {<<k>> : k \in MsLetters}
  BY DEF MsAll, MsInv, M!TimedOut, MsStates
<1>2. c \in Conns /\ ms.t = <<c>>
  <2>1. PICK d \in Conns : ms.t = <<d>>
    BY <1>1
  <2> QED BY <2>1
<1>3. ms' = IF M!LetterOf(ms, n) = {} THEN g ELSE b
  <2>1. b = [M!TakeOut([ms EXCEPT !.t = << >>], n) EXCEPT !.s[c].id = 0]
    BY <1>1, <1>2 DEF M!TakeOut, MsClear, MsStates
  <2> HIDE DEF b
  <2> QED BY <2>1 DEF M!TimedOut
<1> HIDE DEF c
<1>4. L \in SUBSET MsLetters /\ v \in {<< >>} \cup {<<d>> : d \in Conns}
  <2>1. L \in SUBSET MsLetters
    BY <1>1
  <2> QED BY <2>1
<1>x. v = << >>
  OBVIOUS
<1>5. ms.s[c] \in MsSoups /\ n \in Nat
  BY <1>1, <1>2 DEF MsStates, MsSoups
<1> HIDE DEF v, L, n
<1>6. /\ g \in MsStates /\ g.rooms = ms.rooms /\ g.todo = ms.todo /\ g.late = ms.late /\ g.task = ms.task
      /\ g.faults = ms.faults /\ g.server = ms.server
  BY <1>1, <1>4 DEF MsStates
<1>7. /\ b \in MsStates /\ b.letters = L /\ b.w = ms.w /\ b.t = v /\ b.in = ms.in /\ b.out = ms.out
      /\ b.rooms = ms.rooms /\ b.req = ms.req /\ b.todo = ms.todo /\ b.late = ms.late
      /\ b.task = ms.task /\ b.server = ms.server /\ b.next = ms.next /\ b.faults = ms.faults
      /\ b.listeners = ms.listeners /\ b.rejected = ms.rejected
      /\ \A d \in Conns \ {c} : b.s[d] = ms.s[d]
      /\ b.s[c].life = ms.s[c].life /\ b.s[c].room = ms.s[c].room /\ b.s[c].state = ms.s[c].state
      /\ b.s[c].cbs = ms.s[c].cbs
  <2>1. MsCleared(ms, c, L, ms.w, v, b)
    BY <1>1, <1>2, <1>4, MsClears
  <2> QED BY <2>1 DEF MsCleared
<1> HIDE DEF b, g
<1>8. MsSwept(g) /\ MsSwept(b) /\ (MsSound(g) <=> MsSound(ms)) /\ (MsSound(b) <=> MsSound(ms))
  BY <1>1, <1>6, <1>7 DEF MsInv, MsSwept, MsSound
<1>9. CASE ~MsSound(ms)
  <2>1. MsInv(g) /\ MsInv(b)
    BY <1>6, <1>7, <1>8, <1>9, MsUnsound
  <2> QED BY <1>3, <2>1 DEF MsAll
<1>10. CASE MsSound(ms)
  <2>1. MsWaits(ms)
    BY <1>1, <1>10 DEF MsInv
  <2>2. /\ ms.s[c].life = "live" /\ ms.s[c].state = "DONE" /\ n = ms.s[c].room + 1
        /\ (\E k \in ms.letters : k.c = c) /\ (\A k \in MsLetters : ms.w = <<k>> => k.c # c)
    BY <1>2, <2>1 DEF MsWaits, MsTiming, n
  <2>3. PICK l \in ms.letters : l.c = c
    BY <2>2
  <2>4. l.id = n
    BY <2>1, <2>2, <2>3 DEF MsWaits, MsKept
  <2>5. ms' = b
    <3>1. l \in M!LetterOf(ms, n)
      BY <2>4 DEF M!LetterOf
    <3> QED BY <1>3, <3>1
  <2>6. \A k \in ms.letters : k.c = c <=> k.id = n
    <3>1. \A k \in ms.letters : k.c = c => k.id = n
      BY <2>1, <2>2 DEF MsWaits, MsKept
    <3>2. \A k \in ms.letters : k.id = n => k = l
      BY <2>1, <2>4 DEF MsWaits
    <3> QED BY <2>3, <3>1, <3>2
  <2>7. \A k \in b.letters : k \in ms.letters /\ k.c # c /\ k.c \in Conns
    BY <1>1, <1>7, <2>6 DEF L, MsLetters
  <2>8. \A k \in ms.letters : k.c # c => k \in b.letters
    BY <1>7, <2>6 DEF L
  <2>9. \A d \in Conns : MsSettled(b, d) /\ b.s[d].room < b.next
    <3>1. \A d \in Conns : /\ b.s[d].life = ms.s[d].life /\ b.s[d].room = ms.s[d].room
                            /\ b.s[d].state = ms.s[d].state /\ b.s[d].cbs = ms.s[d].cbs
      BY <1>7
    <3> QED BY <1>7, <2>1, <3>1 DEF MsWaits, MsSettled
  <2>10. \A d \in Conns : MsPosted(b, d)
    <3> SUFFICES ASSUME NEW d \in Conns, b.s[d].life = "live", b.s[d].state = "WAIT"
                 PROVE  [id |-> b.s[d].id, c |-> d, timer |-> TRUE] \in b.letters /\ b.s[d].id = b.s[d].room + 1
      BY DEF MsPosted
    <3>1. d # c /\ b.s[d] = ms.s[d]
      BY <1>7, <2>2
    <3> DEFINE k == [id |-> ms.s[d].id, c |-> d, timer |-> TRUE]
    <3>2. k \in ms.letters /\ ms.s[d].id = ms.s[d].room + 1 /\ k.c = d
      BY <2>1, <3>1 DEF MsWaits, MsPosted
    <3> HIDE DEF k
    <3>3. k \in b.letters
      BY <2>8, <3>1, <3>2
    <3> QED BY <3>1, <3>2, <3>3 DEF k
  <2>11. \A k \in b.letters : MsKept(b, k)
    <3> SUFFICES ASSUME NEW k \in b.letters PROVE MsKept(b, k)
      OBVIOUS
    <3>1. MsKept(ms, k) /\ k.c # c /\ b.s[k.c] = ms.s[k.c]
      BY <1>7, <2>1, <2>7 DEF MsWaits
    <3>2. ms.t # <<k.c>>
      BY <1>2, <3>1
    <3> QED BY <1>7, <3>1, <3>2 DEF MsKept
  <2>12. \A j, k \in b.letters : j.id = k.id => j = k
    BY <2>1, <2>7 DEF MsWaits
  <2>13. MsAnswering(b)
    <3> SUFFICES ASSUME ms.w # << >> PROVE ms.w[1] \in b.letters /\ b.s[ms.w[1].c].state = "DONE"
      BY <1>7 DEF MsAnswering
    <3>1. PICK k \in MsLetters : ms.w = <<k>>
      BY <1>1
    <3>2. ms.w[1] = k /\ k.c # c /\ k.c \in Conns
      BY <2>2, <3>1 DEF MsLetters
    <3>3. k \in ms.letters /\ ms.s[k.c].state = "DONE"
      BY <2>1, <3>2 DEF MsWaits, MsAnswering
    <3> QED BY <1>7, <2>8, <3>2, <3>3
  <2>14. MsTiming(b)
    <3>1. \A d \in Conns : b.t # <<d>>
      BY <1>7, <1>x
    <3> QED BY <3>1 DEF MsTiming
  <2>15. MsWaits(b)
    BY <2>9, <2>10, <2>11, <2>12, <2>13, <2>14 DEF MsWaits
  <2>16. ASSUME b.task \in {"starting", "running"} PROVE MsMirror(b)
    <3>1. MsMirror(ms)
      BY <1>1, <1>7, <1>10, <2>16 DEF MsInv
    <3>2. \A d \in Conns : b.s[d].life = ms.s[d].life /\ b.s[d].room = ms.s[d].room /\ b.s[d].state = ms.s[d].state
      BY <1>7
    <3> QED BY <1>7, <3>1, <3>2, MsMirrorAlike
  <2>17. MsInv(b)
    BY <1>7, <1>8, <2>15, <2>16 DEF MsInv
  <2> QED BY <2>5, <2>17 DEF MsAll
<1> QED BY <1>9, <1>10

\* An answer without a letter is dropped, and a room that is destroyed is forgotten.
LEMMA MsDrops ==
    ASSUME MsAll, NEW o \in Seq(MsTold), NEW R \in SUBSET Nat, NEW F \in SUBSET MsFaults, NEW m,
           m = [ms EXCEPT !.out = o, !.listeners = R, !.faults = F], ms.faults \subseteq F,
           MsSound(m) /\ MsMirror(ms) /\ ms.task = "running" => MsMirror(m), ms.task \in {"running", "closing", "deleted"}
    PROVE  MsInv(m)
<1>1. ms \in MsStates /\ MsInv(ms)
  BY DEF MsAll, MsInv
<1>2. /\ m \in MsStates /\ m.s = ms.s /\ m.letters = ms.letters /\ m.w = ms.w /\ m.next = ms.next
      /\ m.faults = F /\ m.server = ms.server /\ m.rooms = ms.rooms /\ m.task = ms.task
      /\ m.t = ms.t /\ m.req = ms.req /\ m.todo = ms.todo /\ m.late = ms.late
  BY <1>1 DEF MsStates
<1>3. MsRest(ms, m)
  BY <1>2 DEF MsRest
<1>4. MsSound(m) => MsSound(ms) /\ MsWaits(m)
  BY <1>1, <1>3, MsResting
<1>5. MsSound(m) /\ m.task \in {"starting", "running"} => MsMirror(m)
  BY <1>1, <1>2, <1>4 DEF MsInv
<1>6. MsSwept(m)
  BY <1>1, <1>2 DEF MsInv, MsSwept
<1> QED BY <1>1, <1>2, <1>4, <1>5, <1>6 DEF MsInv

\* Something the worker told is read.
LEMMA MsReceives ==
    ASSUME MsAll, M!on_from_cpp
    PROVE  MsAll'
<1> DEFINE o == Tail(ms.out)
           b == [ms EXCEPT !.out = o]
           a == Head(ms.out)
<1>1. ms \in MsStates /\ MsInv(ms) /\ ms.out \in Seq(MsTold)
  BY DEF MsAll, MsInv, MsStates
<1>2. ms.out # << >> /\ ms.task \in {"running", "closing", "deleted"} /\ ms.w = << >>
  BY DEF M!on_from_cpp, M!Worker
<1>3. o \in Seq(MsTold) /\ a \in MsTold /\ a = ms.out[1] /\ 1 \in DOMAIN ms.out
  BY <1>1, <1>2
<1>4. /\ \A j \in DOMAIN o : j + 1 \in DOMAIN ms.out /\ o[j] = ms.out[j + 1]
      /\ \A j \in DOMAIN ms.out : j = 1 \/ (j - 1 \in DOMAIN o /\ o[j - 1] = ms.out[j])
  BY <1>1, <1>2
<1>5. ms' = IF b.server = "freed" THEN b ELSE M!invoke_for_dummy(b, a)
  BY DEF M!on_from_cpp
<1> HIDE DEF o, a
<1>6. /\ b \in MsStates /\ b.s = ms.s /\ b.letters = ms.letters /\ b.w = ms.w /\ b.next = ms.next /\ b.in = ms.in
      /\ b.out = o /\ b.faults = ms.faults /\ b.server = ms.server /\ b.rooms = ms.rooms /\ b.task = ms.task
      /\ b.t = ms.t /\ b.req = ms.req /\ b.todo = ms.todo /\ b.late = ms.late
      /\ b.listeners = ms.listeners /\ b.rejected = ms.rejected
  BY <1>1, <1>3 DEF MsStates
<1>7. /\ ms.listeners \in SUBSET Nat /\ ms.faults \in SUBSET MsFaults
      /\ b = [ms EXCEPT !.out = o, !.listeners = ms.listeners, !.faults = ms.faults]
  BY <1>1 DEF MsStates
<1> HIDE DEF b
<1>8. \A i \in DOMAIN o : \E j \in DOMAIN ms.out : o[i] = ms.out[j]
  BY <1>4
<1>9. CASE b.server = "freed"
  <2>1. MsSound(b) /\ MsMirror(ms) /\ ms.task = "running" => MsMirror(b)
    BY <1>9 DEF MsSound
  <2>2. MsInv(b)
    BY <1>2, <1>3, <1>7, <2>1, MsDrops
  <2> QED BY <1>5, <1>9, <2>2 DEF MsAll
<1>10. CASE b.server # "freed" /\ a.kind = "event"
  <2>1. ms' = M!ee_emit(b, a.id)
    BY <1>5, <1>10 DEF M!invoke_for_dummy
  <2>2. ASSUME MsMirror(ms) PROVE FALSE
    BY <1>3, <1>10, <2>2 DEF MsMirror, MsTelling
  <2>3. CASE a.id \notin b.listeners
    <3>1. ms' = b
      BY <2>1, <2>3 DEF M!ee_emit
    <3>2. MsInv(b)
      BY <1>2, <1>3, <1>7, <2>2, MsDrops
    <3> QED BY <3>1, <3>2 DEF MsAll
  <2>4. CASE a.id \in b.listeners
    <3> DEFINE R == ms.listeners \ {a.id}
               F == ms.faults \cup {"handler"}
               m == [ms EXCEPT !.out = o, !.listeners = R, !.faults = F]
    <3>1. ms' = M!Fault([b EXCEPT !.listeners = b.listeners \ {a.id}], "handler")
      BY <2>1, <2>4 DEF M!ee_emit, M!on_room_targetId, M!room_close, M!ee_remove_all_listeners
    <3>2. ms' = m
      BY <1>1, <1>6, <3>1 DEF M!Fault, MsStates, b
    <3>3. R \in SUBSET Nat /\ F \in SUBSET MsFaults /\ ms.faults \subseteq F
      BY <1>7 DEF MsFaults
    <3> HIDE DEF R, F
    <3>4. MsInv(m)
      BY <1>2, <1>3, <2>2, <3>3, MsDrops
    <3> QED BY <3>2, <3>4 DEF MsAll
  <2> QED BY <2>3, <2>4
<1>11. CASE b.server # "freed" /\ a.kind # "event" /\ M!LetterOf(b, a.id) = {}
  <2>1. ms' = b
    BY <1>5, <1>11 DEF M!invoke_for_dummy
  <2>2. ASSUME MsSound(b), MsMirror(ms), ms.task = "running" PROVE MsMirror(b)
    <3>1. MsWaits(ms)
      BY <1>1, <1>6, <2>2 DEF MsInv, MsSound
    <3>2. \A d \in Conns : \A r : MsOf(ms, d, r) => MsOf(b, d, r)
      BY <1>6 DEF MsOf
    <3>3. \A i \in DOMAIN b.in : MsAsking(b, b.in[i])
      BY <1>6, <2>2, <3>2 DEF MsMirror, MsAsking
    <3>4. \A i \in DOMAIN b.out : MsTelling(b, b.out[i])
      BY <1>6, <1>8, <2>2 DEF MsMirror, MsTelling
    <3>5. \A r \in b.rooms : MsMade(b, r)
      <4> SUFFICES ASSUME NEW r \in b.rooms PROVE MsMade(b, r)
        OBVIOUS
      <4>1. PICK d \in Conns :
              MsOf(ms, d, r) /\ (ms.s[d].life = "freed" \/ ms.s[d].state = "DONE" \/ MsComing(ms, r))
        BY <1>6, <2>2 DEF MsMirror, MsMade
      <4>2. CASE ms.s[d].life = "freed" \/ ms.s[d].state = "DONE"
        BY <1>6, <3>2, <4>1, <4>2 DEF MsMade
      <4>3. CASE ms.s[d].life # "freed" /\ ms.s[d].state # "DONE"
        <5>1. ms.s[d].life = "live" /\ ms.s[d].state = "WAIT" /\ ms.s[d].room = r
          <6>1. ms.s[d] \in MsSoups /\ MsSettled(ms, d)
            BY <1>1, <3>1 DEF MsStates, MsWaits
          <6>2. ms.s[d].life \in {"none", "live", "freed"}
            BY <6>1 DEF MsSoups
          <6> QED BY <4>1, <4>3, <6>1, <6>2 DEF MsSettled, MsOf
        <5> DEFINE k == [id |-> ms.s[d].id, c |-> d, timer |-> TRUE]
        <5>2. k \in ms.letters /\ k.id = r + 1
          BY <3>1, <5>1 DEF MsWaits, MsPosted
        <5> HIDE DEF k
        <5>3. a.id # r + 1
          BY <1>6, <1>11, <5>2 DEF M!LetterOf
        <5>4. MsComing(b, r)
          BY <1>3, <1>4, <1>6, <4>1, <4>3, <5>3 DEF MsComing
        <5> QED BY <3>2, <4>1, <5>4 DEF MsMade
      <4> QED BY <4>2, <4>3
    <3>6. /\ \A d \in Conns : b.s[d].state = "DONE" => b.s[d].room \in b.rejected \cup b.listeners
          /\ b.listeners \subseteq b.rooms
      BY <1>6, <2>2 DEF MsMirror
    <3>7. \A q \in MsAsked : b.req = <<q>> => q.heap /\ MsAsking(b, q)
      BY <1>6, <2>2, <3>2 DEF MsMirror, MsAsking
    <3> QED BY <3>3, <3>4, <3>5, <3>6, <3>7 DEF MsMirror
  <2>3. MsInv(b)
    BY <1>2, <1>3, <1>7, <2>2, MsDrops
  <2> QED BY <2>1, <2>3 DEF MsAll
<1>12. CASE b.server # "freed" /\ a.kind # "event" /\ M!LetterOf(b, a.id) # {}
  <2> DEFINE l == CHOOSE x \in M!LetterOf(b, a.id) : TRUE
             c == l.c
             races == b.t = <<c>>
             h == IF races THEN M!Fault(b, "race") ELSE b
             e == IF a.ok THEN [h EXCEPT !.s[c].state = "RESULT"] ELSE M!soup_set_error(h, c)
             g == M!Callback(e, c)
             m == [g EXCEPT !.w = <<l>>]
  <2>1. ms' = m
    BY <1>5, <1>12 DEF M!invoke_for_dummy
  <2>2. l \in ms.letters /\ l.id = a.id
    <3>1. l \in M!LetterOf(b, a.id)
      BY <1>12
    <3> HIDE DEF l
    <3> QED BY <1>6, <3>1 DEF M!LetterOf
  <2> HIDE DEF l
  <2>3. l \in MsLetters /\ c \in Conns /\ a.ok \in BOOLEAN
    BY <1>1, <1>3, <2>2 DEF MsStates, MsLetters, MsTold
  <2>x. /\ h \in MsStates /\ MsSame(b, h) /\ h.s = b.s /\ h.listeners = b.listeners /\ h.rejected = b.rejected
        /\ b.faults \subseteq h.faults /\ (races => "race" \in h.faults)
    <3>1. CASE races
      <4>1. "race" \in MsFaults /\ h = M!Fault(b, "race")
        BY <3>1 DEF MsFaults
      <4> HIDE DEF h
      <4>2. /\ h \in MsStates /\ MsSame(b, h) /\ h.s = b.s /\ h.listeners = b.listeners
            /\ h.rejected = b.rejected /\ h.faults = b.faults \cup {"race"}
        BY <1>6, <4>1, MsFault
      <4> QED BY <4>2
    <3>2. CASE ~races
      <4>1. h = b
        BY <3>2
      <4> QED BY <1>6, <3>2, <4>1 DEF MsSame
    <3> QED BY <3>1, <3>2
  <2>4. MsDone(h, c, a.ok, g)
    <3>1. e = IF a.ok THEN [h EXCEPT !.s[c].state = "RESULT"] ELSE M!soup_set_error(h, c)
      OBVIOUS
    <3> HIDE DEF e, h
    <3> QED BY <2>3, <2>x, <3>1, MsCalling
  <2> HIDE DEF g, h, races
  <2>5. g \in MsStates /\ MsSame(b, g) /\ <<l>> \in {<< >>} \cup {<<k>> : k \in MsLetters}
    BY <2>3, <2>4, <2>x DEF MsDone, MsSame
  <2>6. /\ m \in MsStates /\ m.s = g.s /\ m.letters = g.letters /\ m.w = <<l>> /\ m.next = g.next /\ m.in = g.in
        /\ m.out = g.out /\ m.faults = g.faults /\ m.server = g.server /\ m.rooms = g.rooms /\ m.task = g.task
        /\ m.t = g.t /\ m.req = g.req /\ m.todo = g.todo /\ m.late = g.late
        /\ m.listeners = g.listeners /\ m.rejected = g.rejected
    BY <2>5 DEF MsStates
  <2> HIDE DEF m
  <2>7. /\ m.letters = ms.letters /\ m.next = ms.next /\ m.in = ms.in /\ m.out = o /\ m.server = ms.server
        /\ m.rooms = ms.rooms /\ m.task = ms.task
        /\ m.t = ms.t /\ m.req = ms.req /\ m.todo = ms.todo /\ m.late = ms.late
    BY <1>6, <2>5, <2>6 DEF MsSame
  <2>8. MsSwept(m)
    BY <1>1, <2>7 DEF MsInv, MsSwept
  <2>9. CASE ~MsSound(m)
    <3>1. MsInv(m)
      BY <1>1, <2>6, <2>7, <2>8, <2>9, MsUnsound
    <3> QED BY <2>1, <3>1 DEF MsAll
  <2>10. CASE MsSound(m)
    <3>1. /\ g.faults \subseteq {"handler", "json", "loop"} /\ ms.server = "live" /\ h.faults \subseteq g.faults
          /\ (b.s[c].life = "freed" => "soup" \in g.faults)
      BY <2>4, <2>6, <2>7, <2>10, <2>x DEF MsSound, MsDone
    <3>2. ms.s[c].life # "freed" /\ MsSound(ms) /\ ~races
      BY <1>6, <2>x, <3>1 DEF MsSound
    <3>3. MsWaits(ms)
      BY <1>1, <3>2 DEF MsInv
    <3>4. ms.s[c].life = "live" /\ ms.s[c].state = "WAIT" /\ ms.s[c].cbs = 0 /\ l.id = ms.s[c].room + 1
      <4>1. ms.s[c] \in MsSoups
        BY <1>1, <2>3 DEF MsStates
      <4>2. ms.s[c].life \in {"none", "live", "freed"}
        BY <4>1 DEF MsSoups
      <4>3. MsKept(ms, l) /\ MsSettled(ms, c)
        BY <2>2, <2>3, <3>3 DEF MsWaits
      <4>4. ms.w # <<l>> /\ ms.t # <<l.c>>
        BY <1>2, <1>6, <3>2 DEF races
      <4> QED BY <3>2, <4>2, <4>3, <4>4 DEF MsKept, MsSettled
    <3>5. MsEnds(ms, c, a.ok, m)
      <4>1. IF a.ok THEN m.listeners = ms.listeners \cup {ms.s[c].room} /\ m.rejected = ms.rejected
            ELSE m.rejected = ms.rejected \cup {ms.s[c].room} /\ m.listeners = ms.listeners
        BY <1>6, <2>4, <2>6, <2>x DEF MsDone
      <4>2. \A k \in Conns \ {c} : m.s[k] = ms.s[k]
        BY <1>6, <2>4, <2>6, <2>x DEF MsDone
      <4>3. m.s[c].life = "live" /\ m.s[c].room = ms.s[c].room /\ m.s[c].state = "DONE" /\ m.s[c].cbs = 1
        BY <1>6, <2>4, <2>6, <2>x, <3>4 DEF MsDone
      <4> HIDE DEF c
      <4> QED BY <2>7, <3>4, <4>1, <4>2, <4>3 DEF MsEnds
    <3>6. MsWaits(m)
      <4>1. ms.t # <<c>>
        BY <1>6, <3>2 DEF races
      <4> HIDE DEF c
      <4> QED BY <1>1, <1>2, <2>2, <2>3, <2>6, <2>7, <3>3, <3>5, <4>1, MsEndWaits DEF c
    <3>7. ASSUME m.task \in {"starting", "running"} PROVE MsMirror(m)
      <4>1. MsMirror(ms)
        BY <1>1, <2>7, <3>2, <3>7 DEF MsInv
      <4>2. a.ok => ms.s[c].room \in ms.rooms
        <5> SUFFICES ASSUME a.ok PROVE ms.s[c].room \in ms.rooms
          OBVIOUS
        <5>1. PICK r \in ms.rooms : a.id = r + 1
          BY <1>3, <4>1 DEF MsMirror, MsTelling
        <5>2. r \in Nat /\ ms.s[c].room \in Nat
          BY <1>1, <2>3 DEF MsStates, MsSoups
        <5> DEFINE n == ms.s[c].room
        <5>3. a.id = n + 1 /\ n \in Nat
          BY <2>2, <3>4, <5>2
        <5> HIDE DEF n
        <5>4. r = n
          BY <5>1, <5>2, <5>3
        <5> QED BY <5>4 DEF n
      <4>3. \A i \in DOMAIN m.out : \E j \in DOMAIN ms.out : m.out[i] = ms.out[j]
        BY <1>8, <2>7
      <4>4. \A r \in ms.rooms :
              \/ MsComing(ms, r) => MsComing(m, r)
              \/ \A d \in Conns : ms.s[d].room = r /\ ms.s[d].life = "live" /\ ms.s[d].state = "WAIT" => d = c
        <5> SUFFICES ASSUME NEW r \in ms.rooms, MsComing(ms, r), ~MsComing(m, r), NEW d \in Conns,
                            ms.s[d].room = r, ms.s[d].life = "live", ms.s[d].state = "WAIT"
                     PROVE  d = c
          OBVIOUS
        <5>1. a.id = r + 1
          BY <1>3, <1>4, <2>7 DEF MsComing
        <5> DEFINE k == [id |-> ms.s[d].id, c |-> d, timer |-> TRUE]
        <5>2. k \in ms.letters /\ k.id = r + 1 /\ k.c = d
          BY <3>3 DEF MsWaits, MsPosted
        <5> HIDE DEF k
        <5>3. k = l
          BY <2>2, <3>3, <5>1, <5>2 DEF MsWaits
        <5> QED BY <5>2, <5>3
      <4> HIDE DEF c
      <4> QED BY <1>1, <2>3, <2>6, <3>3, <3>5, <4>1, <4>2, <4>3, <4>4, MsEndMirror
    <3>8. MsInv(m)
      BY <1>1, <2>6, <2>7, <2>8, <3>6, <3>7 DEF MsInv
    <3> QED BY <2>1, <3>8 DEF MsAll
  <2> QED BY <2>9, <2>10
<1> QED BY <1>9, <1>10, <1>11, <1>12

\* A new soup.
MsFresh == [M!NoSoup EXCEPT !.life = "live"]
LEMMA MsNewSoup ==
    ASSUME NEW b \in MsStates, NEW c \in Conns
    PROVE  /\ M!soup_init(b, c) = MsPut(b, c, MsFresh)
           /\ MsFresh \in MsSoups /\ MsFresh.life = "live" /\ MsFresh.cbs = 0
<1>1. M!NoSoup \in MsSoups /\ M!NoSoup.cbs = 0
  BY DEF M!NoSoup, MsSoups
<1>2. MsFresh \in MsSoups /\ MsFresh.life = "live" /\ MsFresh.cbs = 0
  BY <1>1 DEF MsFresh, MsSoups
<1>3. b.s \in [Conns -> MsSoups]
  BY DEF MsStates
<1>4. M!soup_init(b, c) = [b EXCEPT !.s[c] = MsFresh]
  BY Zenon DEF M!soup_init, MsFresh
<1>5. [b EXCEPT !.s[c] = MsFresh] = MsPut(b, c, MsFresh)
  BY <1>2, <1>3 DEF MsPut, MsStates
<1> QED BY <1>2, <1>4, <1>5

\* A number is drawn, and the soup of c is another one.
MsDraw(b, c, x) == [b EXCEPT !.next = b.next + 1, !.s = [b.s EXCEPT ![c] = x]]
MsDrawn(b, c, x, m) ==
    /\ m \in MsStates /\ m.letters = b.letters /\ m.w = b.w /\ m.in = b.in /\ m.out = b.out /\ m.rooms = b.rooms
    /\ m.t = b.t /\ m.req = b.req /\ m.todo = b.todo /\ m.late = b.late
    /\ m.task = b.task /\ m.server = b.server /\ m.next = b.next + 1 /\ m.faults = b.faults
    /\ m.listeners = b.listeners /\ m.rejected = b.rejected
    /\ m.s[c] = x /\ (\A d \in Conns \ {c} : m.s[d] = b.s[d])

LEMMA MsDraws ==
    ASSUME NEW b \in MsStates, NEW c \in Conns, NEW x \in MsSoups
    PROVE  MsDrawn(b, c, x, MsDraw(b, c, x))
<1>1. b.s \in [Conns -> MsSoups] /\ b.next \in Nat
  BY DEF MsStates
<1>2. [b.s EXCEPT ![c] = x] \in [Conns -> MsSoups] /\ b.next + 1 \in Nat
  BY <1>1
<1> QED BY <1>1, <1>2 DEF MsDrawn, MsDraw, MsStates

\* A client that asks: two numbers are drawn, for its room and for its request.
MsAsker(b, c, m) ==
    /\ m \in MsStates /\ m.letters = b.letters /\ m.w = b.w /\ m.in = b.in /\ m.out = b.out /\ m.rooms = b.rooms
    /\ m.t = b.t /\ m.req = b.req /\ m.todo = b.todo /\ m.late = b.late
    /\ m.task = b.task /\ m.server = b.server /\ m.next = b.next + 2 /\ m.faults = b.faults \cup {"json"}
    /\ m.listeners = b.listeners /\ m.rejected = b.rejected
    /\ \A d \in Conns \ {c} : m.s[d] = b.s[d]
    /\ m.s[c].life = "live" /\ m.s[c].state = "WAIT" /\ m.s[c].cbs = 0
    /\ m.s[c].room = b.next /\ m.s[c].id = b.next + 1

MsLetter(b, c) == [id |-> b.next + 1, c |-> c, timer |-> TRUE]
MsRequest(b) == [id |-> b.next + 1, room |-> b.next, heap |-> TRUE]
MsSends(b, c, ok, m, r) ==
    r = IF ok THEN M!Fire([m EXCEPT !.letters = m.letters \cup {MsLetter(b, c)}], MsRequest(b))
        ELSE [M!Callback(M!soup_set_error(m, c), c) EXCEPT !.s[c].id = 0]

\* What make_room does with the soup that soup_init has left.
LEMMA MsAsks ==
    ASSUME NEW b \in MsStates, NEW c \in Conns, NEW ok \in BOOLEAN, b.server # "freed"
    PROVE  \E m : MsAsker(b, c, m) /\ MsSends(b, c, ok, m, M!make_room(M!soup_init(b, c), c, ok))
<1> DEFINE n == b.next
           x == MsFresh
           y == [x EXCEPT !.name = TRUE]
           z == [y EXCEPT !.room = n]
           u == [z EXCEPT !.id = n + 1, !.state = "WAIT"]
           e == MsPut(b, c, x)
           f == MsPut(e, c, y)
           g == MsDraw(f, c, z)
           j == M!Fault(g, "json")
           m == MsDraw(j, c, u)
<1>1. n \in Nat /\ n + 1 \in Nat
  BY DEF MsStates
<1>2. x \in MsSoups /\ y \in MsSoups /\ z \in MsSoups /\ u \in MsSoups
  BY <1>1, MsNewSoup DEF MsSoups
<1>3. u.life = "live" /\ u.state = "WAIT" /\ u.cbs = 0 /\ u.room = n /\ u.id = n + 1
  BY <1>2, MsNewSoup DEF MsSoups
<1>4. M!soup_init(b, c) = e
  BY MsNewSoup
<1>5. MsHas(b, c, x, e)
  BY <1>2, MsPuts
<1>6. e \in MsStates /\ e.s[c] = x /\ e.s \in [Conns -> MsSoups] /\ e.server = b.server /\ e.next = n
  BY <1>5 DEF MsHas, MsSame, MsStates
<1> HIDE DEF e, x, n
<1>7. [e EXCEPT !.s[c].name = TRUE] = f
  BY <1>6 DEF MsPut, MsStates
<1>8. MsHas(e, c, y, f)
  BY <1>2, <1>6, MsPuts
<1>9. f \in MsStates /\ f.s[c] = y /\ f.s \in [Conns -> MsSoups] /\ f.next = n
  BY <1>6, <1>8 DEF MsHas, MsSame, MsStates
<1> HIDE DEF f, y
<1>10. [f EXCEPT !.next = @ + 1, !.s[c].room = f.next] = g
  BY <1>9 DEF MsDraw, MsStates
<1>11. MsDrawn(f, c, z, g)
  BY <1>2, <1>9, MsDraws
<1>12. g \in MsStates /\ g.s[c] = z /\ g.s \in [Conns -> MsSoups] /\ g.next = n + 1
  BY <1>9, <1>11 DEF MsDrawn, MsStates
<1> HIDE DEF g, z
<1>x. /\ j \in MsStates /\ MsSame(g, j) /\ j.s = g.s /\ j.listeners = g.listeners /\ j.rejected = g.rejected
      /\ j.faults = g.faults \cup {"json"}
  BY <1>12, MsFault DEF MsFaults
<1>y. j.s[c] = z /\ j.s \in [Conns -> MsSoups] /\ j.next = n + 1
  BY <1>12, <1>x DEF MsSame
<1> HIDE DEF j
<1>13. [j EXCEPT !.next = @ + 1, !.s[c].id = n + 1, !.s[c].state = "WAIT"] = m
  <2>1. [z EXCEPT !.id = n + 1, !.state = "WAIT"] = u
    OBVIOUS
  <2> DEFINE v == [z EXCEPT !.id = n + 1]
             h == [j EXCEPT !.next = j.next + 1, !.s = [j.s EXCEPT ![c] = v]]
  <2>2. [j EXCEPT !.next = @ + 1, !.s[c].id = n + 1] = h
    BY <1>x, <1>y DEF MsStates
  <2>3. [v EXCEPT !.state = "WAIT"] = u
    BY <1>2 DEF MsSoups
  <2>4. h.s = [j.s EXCEPT ![c] = v] /\ h.s[c] = v
    BY <1>x, <1>y DEF MsStates
  <2> HIDE DEF v, u
  <2>5. [h EXCEPT !.s[c].state = "WAIT"] = [h EXCEPT !.s = [h.s EXCEPT ![c] = u]]
    BY <2>3, <2>4
  <2>6. [h.s EXCEPT ![c] = u] = [j.s EXCEPT ![c] = u]
    BY <1>x, <1>y, <2>4
  <2>7. [h EXCEPT !.s = [j.s EXCEPT ![c] = u]] = m
    BY <1>x, <1>y DEF MsDraw, MsStates
  <2>8. [j EXCEPT !.next = @ + 1, !.s[c].id = n + 1, !.s[c].state = "WAIT"] = [h EXCEPT !.s[c].state = "WAIT"]
    BY <2>2, Zenon
  <2> QED BY <2>5, <2>6, <2>7, <2>8
<1>14. MsDrawn(j, c, u, m)
  BY <1>2, <1>x, MsDraws
<1> HIDE DEF m, u
<1>15. MsAsker(b, c, m)
  <2>1. /\ m \in MsStates /\ m.letters = b.letters /\ m.w = b.w /\ m.in = b.in /\ m.out = b.out /\ m.rooms = b.rooms
        /\ m.t = b.t /\ m.req = b.req /\ m.todo = b.todo /\ m.late = b.late
        /\ m.task = b.task /\ m.server = b.server /\ m.faults = b.faults \cup {"json"}
        /\ m.listeners = b.listeners /\ m.rejected = b.rejected
    BY <1>5, <1>8, <1>11, <1>14, <1>x DEF MsHas, MsSame, MsDrawn
  <2>2. m.next = b.next + 2
    BY <1>1, <1>14, <1>y DEF MsDrawn, n
  <2>3. \A d \in Conns \ {c} : m.s[d] = b.s[d]
    BY <1>5, <1>8, <1>11, <1>14, <1>x DEF MsHas, MsDrawn
  <2>4. m.s[c] = u
    BY <1>14 DEF MsDrawn
  <2> QED BY <1>3, <2>1, <2>2, <2>3, <2>4 DEF MsAsker, n
<1>16. M!make_room(M!soup_init(b, c), c, ok) = M!create_room([e EXCEPT !.s[c].name = TRUE], c, ok)
  BY <1>4, <1>6 DEF M!make_room
<1>17. M!create_room(f, c, ok) = M!channel_send(g, c, n, ok)
  BY <1>9, <1>10 DEF M!create_room
<1>18. M!channel_send(g, c, n, ok) =
         IF ok THEN M!Fire([m EXCEPT !.letters = m.letters \cup {MsLetter(b, c)}], MsRequest(b))
         ELSE [M!Callback(M!soup_set_error(m, c), c) EXCEPT !.s[c].id = 0]
  <2>1. g.next = n + 1
    BY <1>12
  <2> DEFINE k == g.next
             h == [j EXCEPT !.next = @ + 1, !.s[c].id = k, !.s[c].state = "WAIT"]
  <2>2. M!channel_send(g, c, n, ok) =
          IF ok THEN M!Fire([h EXCEPT !.letters = @ \cup {[id |-> k, c |-> c, timer |-> TRUE]}],
                            [id |-> k, room |-> n, heap |-> TRUE])
          ELSE [M!Callback(M!soup_set_error(h, c), c) EXCEPT !.s[c].id = 0]
    BY Zenon DEF M!channel_send, j
  <2>3. k = n + 1
    BY <2>1
  <2>4. h = m
    BY <1>13, <2>3
  <2> HIDE DEF h, k
  <2>5. [id |-> k, c |-> c, timer |-> TRUE] = MsLetter(b, c) /\ [id |-> k, room |-> n, heap |-> TRUE] = MsRequest(b)
    BY <2>3, Zenon DEF MsLetter, MsRequest, n
  <2>6. [h EXCEPT !.letters = @ \cup {[id |-> k, c |-> c, timer |-> TRUE]}]
          = [m EXCEPT !.letters = m.letters \cup {MsLetter(b, c)}]
    BY <2>4, <2>5
  <2> QED BY <2>2, <2>4, <2>5, <2>6
<1>19. M!make_room(M!soup_init(b, c), c, ok) =
         IF ok THEN M!Fire([m EXCEPT !.letters = m.letters \cup {MsLetter(b, c)}], MsRequest(b))
         ELSE [M!Callback(M!soup_set_error(m, c), c) EXCEPT !.s[c].id = 0]
  BY <1>7, <1>16, <1>17, <1>18, Zenon
<1>20. MsSends(b, c, ok, m, M!make_room(M!soup_init(b, c), c, ok))
  BY <1>19, Zenon DEF MsSends
<1> QED BY <1>15, <1>20, Zenon

\* A client has come: it waits and has a letter, or was called back at once.
MsJoined(b, c, m) ==
    /\ b.s[c].life = "none" /\ m.s[c].life = "live" /\ m.s[c].room = b.next /\ m.next = b.next + 2 /\ m.w = b.w
    /\ m.t = << >> /\ b.t = << >> /\ m.req = b.req /\ m.out = b.out /\ m.rooms = b.rooms /\ m.listeners = b.listeners /\ b.rejected \subseteq m.rejected
    /\ \A d \in Conns \ {c} : m.s[d] = b.s[d]
    /\ MsQueued(b, MsRequest(b), m)
    /\ \/ /\ m.s[c].state = "WAIT" /\ m.s[c].cbs = 0 /\ m.s[c].id = b.next + 1
          /\ m.letters = b.letters \cup {MsLetter(b, c)}
       \/ /\ m.s[c].state = "DONE" /\ m.s[c].cbs = 1 /\ b.next \in m.rejected
          /\ m.letters = b.letters

\* Its letter is the only one with its id.
LEMMA MsJoinWaits ==
    ASSUME NEW b \in MsStates, NEW m \in MsStates, NEW c \in Conns, MsJoined(b, c, m), MsWaits(b)
    PROVE  MsWaits(m)
<1> DEFINE x == MsLetter(b, c)
<1>1. b.next \in Nat /\ (\A d \in Conns : b.s[d].room \in Nat) /\ (\A l \in b.letters : l.c \in Conns)
  BY DEF MsStates, MsSoups, MsLetters
<1>2. x.id = b.next + 1 /\ x.c = c /\ x.timer
  BY DEF MsLetter
<1>3. \A l \in b.letters : MsKept(b, l) /\ l.c # c /\ l.c \in Conns
  BY <1>1 DEF MsWaits, MsKept, MsJoined
<1>4. \A l \in b.letters : l.id # b.next + 1
  <2> SUFFICES ASSUME NEW l \in b.letters PROVE l.id # b.next + 1
    OBVIOUS
  <2>1. l.id = b.s[l.c].room + 1 /\ b.s[l.c].room < b.next /\ b.s[l.c].room \in Nat
    BY <1>1, <1>3 DEF MsKept, MsWaits
  <2> QED BY <1>1, <2>1
<1>5. \A l \in m.letters : l \in b.letters \/ (l = x /\ m.s[c].state = "WAIT")
  BY DEF MsJoined
<1>6. \A d \in Conns : MsSettled(m, d) /\ m.s[d].room < m.next
  <2>1. MsSettled(m, c) /\ m.s[c].room < m.next
    BY <1>1 DEF MsJoined, MsSettled
  <2>2. \A d \in Conns \ {c} : MsSettled(m, d) /\ m.s[d].room < m.next
    BY <1>1 DEF MsJoined, MsWaits, MsSettled
  <2> QED BY <2>1, <2>2
<1>7. \A d \in Conns : MsPosted(m, d)
  <2>1. MsPosted(m, c)
    <3> SUFFICES ASSUME m.s[c].state = "WAIT"
                 PROVE  [id |-> m.s[c].id, c |-> c, timer |-> TRUE] \in m.letters /\ m.s[c].id = m.s[c].room + 1
      BY DEF MsPosted
    <3>1. m.s[c].id = b.next + 1 /\ m.letters = b.letters \cup {MsLetter(b, c)} /\ m.s[c].room = b.next
      BY DEF MsJoined
    <3> QED BY <3>1 DEF MsLetter
  <2>2. \A d \in Conns \ {c} : MsPosted(m, d)
    <3>1. b.letters \subseteq m.letters
      BY DEF MsJoined
    <3> QED BY <3>1 DEF MsJoined, MsWaits, MsPosted
  <2> QED BY <2>1, <2>2
<1> HIDE DEF x
<1>8. \A l \in m.letters : MsKept(m, l)
  <2> SUFFICES ASSUME NEW l \in m.letters PROVE MsKept(m, l)
    OBVIOUS
  <2>1. CASE l \in b.letters
    <3>1. MsKept(b, l) /\ m.s[l.c] = b.s[l.c]
      BY <1>3, <2>1 DEF MsJoined
    <3> QED BY <3>1 DEF MsKept, MsJoined
  <2>2. CASE l = x /\ m.s[c].state = "WAIT"
    BY <1>2, <2>2 DEF MsKept, MsJoined
  <2> QED BY <1>5, <2>1, <2>2
<1>9. \A k, l \in m.letters : k.id = l.id => k = l
  BY <1>2, <1>4, <1>5 DEF MsWaits
<1>10. MsAnswering(m)
  <2> SUFFICES ASSUME m.w # << >> PROVE m.w[1] \in m.letters /\ m.s[m.w[1].c].state = "DONE"
    BY DEF MsAnswering
  <2>1. m.w = b.w /\ b.w[1] \in b.letters /\ b.s[b.w[1].c].state = "DONE"
    BY DEF MsJoined, MsWaits, MsAnswering
  <2>2. m.s[b.w[1].c] = b.s[b.w[1].c]
    BY <1>3, <2>1 DEF MsJoined
  <2> QED BY <2>1, <2>2 DEF MsJoined
<1>11. MsTiming(m)
  <2>1. \A d \in Conns : m.t # <<d>>
    BY DEF MsJoined
  <2> QED BY <2>1 DEF MsTiming
<1> QED BY <1>6, <1>7, <1>8, <1>9, <1>10, <1>11 DEF MsWaits

\* Its request is about the room it asks for.
LEMMA MsJoinMirror ==
    ASSUME NEW b \in MsStates, NEW m \in MsStates, NEW c \in Conns, MsJoined(b, c, m), MsMirror(b)
    PROVE  MsMirror(m)
<1>1. \A d \in Conns : \A r : MsOf(b, d, r) => d # c /\ MsOf(m, d, r)
  BY DEF MsOf, MsJoined
<1>2. \A i \in DOMAIN m.in : MsAsking(m, m.in[i])
  <2> DEFINE q == MsRequest(b)
  <2>1. \A i \in DOMAIN b.in : MsAsking(m, b.in[i])
    BY <1>1 DEF MsMirror, MsAsking
  <2>2. q \in MsAsked /\ q.id = b.next + 1 /\ q.room = b.next
    <3>1. b.next \in Nat
      BY DEF MsStates
    <3> QED BY <3>1 DEF MsRequest, MsAsked
  <2> HIDE DEF q
  <2>3. MsAsking(m, q)
    BY <2>2 DEF MsAsking, MsOf, MsJoined
  <2>4. MsQueued(b, q, m)
    BY DEF MsJoined, q
  <2> QED BY <2>1, <2>2, <2>3, <2>4, MsQueueing
<1>3. \A i \in DOMAIN m.out : MsTelling(m, m.out[i])
  BY DEF MsMirror, MsTelling, MsJoined
<1>4. \A r \in m.rooms : MsMade(m, r)
  <2> SUFFICES ASSUME NEW r \in m.rooms PROVE MsMade(m, r)
    OBVIOUS
  <2>1. PICK d \in Conns :
          MsOf(b, d, r) /\ (b.s[d].life = "freed" \/ b.s[d].state = "DONE" \/ MsComing(b, r))
    BY DEF MsMirror, MsMade, MsJoined
  <2>2. m.s[d] = b.s[d] /\ MsOf(m, d, r)
    BY <1>1, <2>1 DEF MsJoined
  <2>3. MsComing(b, r) => MsComing(m, r)
    BY DEF MsComing, MsJoined
  <2> QED BY <2>1, <2>2, <2>3 DEF MsMade
<1>5. \A d \in Conns : m.s[d].state = "DONE" => m.s[d].room \in m.rejected \cup m.listeners
  <2>1. m.s[c].state = "DONE" => m.s[c].room \in m.rejected \cup m.listeners
    BY DEF MsJoined
  <2>2. \A d \in Conns \ {c} : m.s[d].state = "DONE" => m.s[d].room \in m.rejected \cup m.listeners
    BY DEF MsJoined, MsMirror
  <2> QED BY <2>1, <2>2
<1>6. m.listeners \subseteq m.rooms
  BY DEF MsJoined, MsMirror
<1>7. \A r \in MsAsked : m.req = <<r>> => r.heap /\ MsAsking(m, r)
  BY <1>1 DEF MsJoined, MsMirror, MsAsking
<1> QED BY <1>2, <1>3, <1>4, <1>5, <1>6, <1>7 DEF MsMirror

\* A client that has come keeps the invariant.
LEMMA MsJoins ==
    ASSUME NEW b \in MsStates, NEW m \in MsStates, NEW c \in Conns, MsInv(b), m.rooms = b.rooms,
           m.todo = b.todo, m.late = b.late,
           b.faults \subseteq m.faults, m.server = b.server,
           m.task = b.task \/ (m.task = "aborted" /\ "early" \in m.faults),
           MsSound(m) => MsJoined(b, c, m)
    PROVE  MsInv(m)
<1>1. MsSwept(m)
  BY DEF MsInv, MsSwept
<1>2. ASSUME MsSound(m) PROVE MsWaits(m) /\ (m.task \in {"starting", "running"} => MsMirror(m))
  <2>1. MsSound(b) /\ m.task = b.task /\ MsJoined(b, c, m)
    BY <1>2 DEF MsSound
  <2>2. MsWaits(b) /\ (b.task \in {"starting", "running"} => MsMirror(b))
    BY <2>1 DEF MsInv
  <2>3. MsWaits(m)
    BY <2>1, <2>2, MsJoinWaits
  <2>4. m.task \in {"starting", "running"} => MsMirror(m)
    BY <2>1, <2>2, MsJoinMirror
  <2> QED BY <2>3, <2>4
<1> QED BY <1>1, <1>2 DEF MsInv

\* A connection opens, and asks for its room.
LEMMA MsConnect ==
    ASSUME MsAll, NEW c \in Conns, M!websocket_connect(c)
    PROVE  MsAll'
<1>1. ms \in MsStates /\ MsInv(ms) /\ ms.s[c].life = "none" /\ ms.t = << >> /\ ms.next \in Nat
  BY DEF MsAll, MsInv, MsStates, M!websocket_connect, M!Kore
<1>2. PICK ok \in BOOLEAN : ms' = M!make_room(M!soup_init(ms, c), c, ok)
  BY DEF M!websocket_connect
<1>3. CASE ms.server = "freed"
  <2> DEFINE e == MsPut(ms, c, MsFresh)
  <2>1. MsFresh \in MsSoups
    BY <1>1, MsNewSoup
  <2>2. M!soup_init(ms, c) = e
    BY <1>1, MsNewSoup
  <2>3. MsHas(ms, c, MsFresh, e)
    BY <1>1, <2>1, MsPuts
  <2> HIDE DEF e
  <2>4. e \in MsStates /\ e.server = ms.server /\ e.rooms = ms.rooms /\ e.todo = ms.todo /\ e.late = ms.late /\ e.task = ms.task /\ e.faults = ms.faults
    BY <2>3 DEF MsHas, MsSame
  <2>5. ms' = e
    BY <1>2, <1>3, <2>2, <2>4 DEF M!make_room
  <2>6. ~MsSound(e)
    BY <1>3, <2>4 DEF MsSound
  <2>7. MsInv(e)
    BY <1>1, <2>4, <2>6, MsJoins
  <2> QED BY <2>5, <2>7 DEF MsAll
<1>4. CASE ms.server # "freed"
  <2>0. PICK d : MsAsker(ms, c, d) /\ MsSends(ms, c, ok, d, M!make_room(M!soup_init(ms, c), c, ok))
    BY <1>1, <1>4, MsAsks
  <2>1. /\ MsAsker(ms, c, d)
        /\ ms' = IF ok THEN M!Fire([d EXCEPT !.letters = d.letters \cup {MsLetter(ms, c)}], MsRequest(ms))
                 ELSE [M!Callback(M!soup_set_error(d, c), c) EXCEPT !.s[c].id = 0]
    BY <1>2, <2>0, Zenon DEF MsSends
  <2>2. d \in MsStates /\ d.letters \in SUBSET MsLetters
    BY <2>1 DEF MsAsker, MsStates
  <2>3. MsLetter(ms, c) \in MsLetters /\ MsRequest(ms) \in MsAsked
    <3>1. ms.next + 1 \in Nat
      BY <1>1
    <3> QED BY <1>1, <3>1 DEF MsLetter, MsLetters, MsRequest, MsAsked
  <2>4. CASE ok
    <3> DEFINE q == MsRequest(ms)
               L == d.letters \cup {MsLetter(ms, c)}
               f == [d EXCEPT !.letters = L]
               m == M!Fire(f, q)
    <3>1. ms' = m
      BY <2>1, <2>4
    <3>2. L \in SUBSET MsLetters /\ q \in MsAsked
      BY <2>2, <2>3
    <3> HIDE DEF L, q
    <3>3. /\ f \in MsStates /\ f.s = d.s /\ f.letters = L /\ f.w = d.w /\ f.in = d.in /\ f.out = d.out
          /\ f.rooms = d.rooms /\ f.task = d.task /\ f.server = d.server /\ f.next = d.next /\ f.faults = d.faults
          /\ f.t = d.t /\ f.req = d.req /\ f.todo = d.todo /\ f.late = d.late
          /\ f.listeners = d.listeners /\ f.rejected = d.rejected
      BY <2>2, <3>2 DEF MsStates
    <3> HIDE DEF f
    <3>4. MsFired(f, q, m)
      BY <3>2, <3>3, MsFire
    <3> HIDE DEF m
    <3>5. /\ m \in MsStates /\ m.rooms = ms.rooms /\ ms.faults \subseteq m.faults /\ m.server = ms.server
          /\ m.t = ms.t /\ m.req = ms.req /\ m.todo = ms.todo /\ m.late = ms.late
          /\ (m.task = ms.task \/ (m.task = "aborted" /\ "early" \in m.faults))
      BY <2>1, <3>3, <3>4 DEF MsFired, MsAsker
    <3>6. /\ m.s = d.s /\ m.w = ms.w /\ m.out = ms.out /\ m.listeners = ms.listeners /\ m.rejected = ms.rejected
          /\ m.next = ms.next + 2 /\ m.letters = L
      BY <2>1, <3>3, <3>4 DEF MsFired, MsAsker
    <3>7. MsQueued(ms, q, m)
      BY <2>1, <3>3, <3>4, Zenon DEF MsFired, MsQueued, MsAsker
    <3>8. m.letters = ms.letters \cup {MsLetter(ms, c)}
      BY <2>1, <3>6 DEF MsAsker, L
    <3>9. /\ m.s[c].life = "live" /\ m.s[c].state = "WAIT" /\ m.s[c].cbs = 0
          /\ m.s[c].room = ms.next /\ m.s[c].id = ms.next + 1 /\ \A k \in Conns \ {c} : m.s[k] = ms.s[k]
      BY <2>1, <3>6 DEF MsAsker
    <3>10. MsJoined(ms, c, m)
      BY <1>1, <3>5, <3>6, <3>7, <3>8, <3>9 DEF MsJoined, q
    <3>11. MsInv(m)
      BY <1>1, <3>5, <3>10, MsJoins
    <3> QED BY <3>1, <3>11 DEF MsAll
  <2>5. CASE ~ok
    <3> DEFINE e == M!soup_set_error(d, c)
               g == M!Callback(e, c)
               L == g.letters
               v == g.w
               m == MsClear(g, c, L, v, g.t)
    <3>1. ms' = [g EXCEPT !.s[c].id = 0]
      BY <2>1, <2>5
    <3>2. MsDone(d, c, FALSE, g)
      <4>1. e = IF FALSE THEN [d EXCEPT !.s[c].state = "RESULT"] ELSE M!soup_set_error(d, c)
        OBVIOUS
      <4> HIDE DEF e
      <4> QED BY <2>2, <4>1, MsCalling
    <3> HIDE DEF g
    <3>3. /\ g \in MsStates /\ L \in SUBSET MsLetters /\ v \in {<< >>} \cup {<<l>> : l \in MsLetters}
          /\ g.t \in {<< >>} \cup {<<k>> : k \in Conns}
      BY <3>2 DEF MsDone, MsStates
    <3>4. ms' = m
      BY <3>1, <3>3 DEF MsClear, MsStates
    <3>5. MsCleared(g, c, L, v, g.t, m)
      BY <3>3, MsClears
    <3> HIDE DEF m
    <3>6. /\ m \in MsStates /\ m.rooms = ms.rooms /\ ms.faults \subseteq m.faults /\ m.server = ms.server
          /\ m.t = ms.t /\ m.req = ms.req /\ m.todo = ms.todo /\ m.late = ms.late
          /\ m.task = ms.task
      BY <2>1, <3>2, <3>5 DEF MsCleared, MsDone, MsSame, MsAsker
    <3>7. /\ m.w = ms.w /\ m.out = ms.out /\ m.in = ms.in /\ m.next = ms.next + 2 /\ m.letters = ms.letters
      BY <2>1, <3>2, <3>5 DEF MsCleared, MsDone, MsSame, MsAsker
    <3>8. m.listeners = ms.listeners /\ m.rejected = ms.rejected \cup {ms.next}
      BY <2>1, <3>2, <3>5 DEF MsCleared, MsDone, MsAsker
    <3>9. m.s[c].life = "live" /\ m.s[c].state = "DONE" /\ m.s[c].cbs = 1 /\ m.s[c].room = ms.next
      BY <2>1, <3>2, <3>5 DEF MsCleared, MsDone, MsAsker
    <3>10. \A k \in Conns \ {c} : m.s[k] = ms.s[k]
      BY <2>1, <3>2, <3>5 DEF MsCleared, MsDone, MsAsker
    <3>11. MsQueued(ms, MsRequest(ms), m)
      BY <3>7, Zenon DEF MsQueued
    <3>12. MsJoined(ms, c, m)
      BY <1>1, <3>6, <3>7, <3>8, <3>9, <3>10, <3>11 DEF MsJoined
    <3>13. MsInv(m)
      BY <1>1, <3>6, <3>12, MsJoins
    <3> QED BY <3>4, <3>13 DEF MsAll
  <2> QED BY <2>4, <2>5
<1> QED BY <1>3, <1>4

----------------------------------------------------------------------------
(* The theorems.                                                            *)

\* At the start nothing was asked for.
LEMMA MsInit ==
    ASSUME M!Init
    PROVE  MsAll
<1> DEFINE x == [life |-> "none", state |-> "INIT", id |-> 0, room |-> 0, name |-> FALSE, cbs |-> 0]
           S == [c \in Conns |-> x]
<1>1. x \in MsSoups /\ x.life = "none" /\ x.state = "INIT" /\ x.cbs = 0 /\ x.room = 0
  BY DEF MsSoups
<1>2. /\ ms = [s |-> S, letters |-> {}, w |-> << >>, t |-> << >>, in |-> << >>, out |-> << >>, req |-> << >>,
               rooms |-> {}, listeners |-> {}, rejected |-> {}, todo |-> {}, late |-> {}, task |-> "starting", unavailable |-> FALSE,
               server |-> "live", crypto |-> 0, next |-> 1, faults |-> {}, wild |-> 0]
  BY DEF M!Init, M!NoSoup
<1> HIDE DEF x
<1>3. S \in [Conns -> MsSoups] /\ \A c \in Conns : S[c] = x
  BY <1>1
<1>4. << >> \in Seq(MsAsked) /\ << >> \in Seq(MsTold)
  OBVIOUS
<1> HIDE DEF S
<1>5. ms \in MsStates
  BY <1>2, <1>3, <1>4 DEF MsStates, MsTasks
<1>6. MsSwept(ms)
  BY <1>2 DEF MsSwept
<1>7. MsWaits(ms)
  BY <1>1, <1>2, <1>3 DEF MsWaits, MsSettled, MsPosted, MsAnswering, MsTiming
<1>8. MsMirror(ms)
  BY <1>1, <1>2, <1>3 DEF MsMirror
<1> QED BY <1>5, <1>6, <1>7, <1>8, <1>2 DEF MsAll, MsInv

\* Every step keeps the invariant.
LEMMA MsNext ==
    ASSUME MsAll, [M!Next]_ms
    PROVE  MsAll'
<1>1. CASE UNCHANGED ms
  BY <1>1 DEF MsAll
<1>2. ASSUME NEW c \in Conns, M!websocket_connect(c) \/ M!websocket_disconnect(c) \/ M!on_timeout(c)
      PROVE  MsAll'
  BY <1>2, MsConnect, MsGone, MsTimeout
<1>3. CASE M!libuv_task \/ M!on_walk \/ M!class_destroy \/ M!TaskDestroys \/ M!TaskEnds
  BY <1>3, MsLife
<1>4. CASE M!websocket_message \/ M!TimedOut \/ M!on_to_cpp \/ M!CreateRoom \/ M!on_from_cpp \/ M!Answered \/ M!han
  BY <1>4, MsMessage, MsTimedOut, MsReads, MsRoom, MsReceives, MsAnswers, MsExit
<1>5. CASE M!im_down \/ M!CloseChannel \/ \E room \in ms.todo : M!DestroyRoom(room)
  BY <1>5, MsCloses
<1> QED BY <1>1, <1>2, <1>3, <1>4, <1>5 DEF M!Next

\* The invariant holds in every state of the channel of the first mediasoup server.
THEOREM MsInvariant == M!Spec => []MsAll
<1>1. M!Init => MsAll
  BY MsInit
<1>2. MsAll /\ [M!Next]_ms => MsAll'
  BY MsNext
<1> QED BY <1>1, <1>2, PTL DEF M!Spec

\* The state keeps its type.
THEOREM MsTypeCorrect == M!Spec => []M!TypeOK
<1>1. MsAll => M!TypeOK
  <2> SUFFICES ASSUME MsAll PROVE M!TypeOK
    OBVIOUS
  <2>1. ms \in MsStates
    BY DEF MsAll, MsInv
  <2>2. \A c \in Conns : ms.s[c] \in MsSoups
    BY <2>1 DEF MsStates
  <2>3. \A c \in Conns : /\ ms.s[c].life \in {"none", "live", "freed"}
                         /\ ms.s[c].state \in {"INIT", "WAIT", "RESULT", "ERROR", "DONE"}
    BY <2>2 DEF MsSoups
  <2>4. ASSUME NEW x, NEW S, x \in {<< >>} \cup {<<l>> : l \in S} PROVE Len(x) <= 1
    <3>1. CASE x = << >>
      BY <3>1
    <3>2. ASSUME NEW l \in S, x = <<l>> PROVE Len(x) <= 1
      <4>1. Len(<<l>>) = 1
        OBVIOUS
      <4> QED BY <3>2, <4>1
    <3> QED BY <2>4, <3>1, <3>2
  <2>5. Len(ms.w) <= 1 /\ Len(ms.t) <= 1 /\ Len(ms.req) <= 1
    <3>1. /\ ms.w \in {<< >>} \cup {<<l>> : l \in MsLetters} /\ ms.t \in {<< >>} \cup {<<c>> : c \in Conns}
          /\ ms.req \in {<< >>} \cup {<<q>> : q \in MsAsked}
      BY <2>1 DEF MsStates
    <3> QED BY <2>4, <3>1
  <2>6. ms.server \in {"live", "freed"}
    BY <2>1 DEF MsStates
  <2> QED BY <2>3, <2>5, <2>6 DEF M!TypeOK
<1> QED BY <1>1, MsInvariant, PTL

\* While no thread has used what the other has freed, nor met it at one letter, every client
\* that waits for its room has one letter with
\* a timer that ends the wait, and no letter is left behind by a client that was called
\* back: channel_send, on_timeout and on_from_cpp keep the list exact.
THEOREM MsWaitsEnd == M!Spec => []M!WaitsEnd
<1>1. MsAll => M!WaitsEnd
  <2> SUFFICES ASSUME MsAll, M!Sound
               PROVE  /\ \A c \in Conns : ms.s[c].life = "live" /\ ms.s[c].state = "WAIT" =>
                           [id |-> ms.s[c].id, c |-> c, timer |-> TRUE] \in ms.letters
                      /\ \A l, m \in ms.letters : l.id = m.id => l = m
                      /\ \A l \in ms.letters : ms.s[l.c].life = "live" => 
                           ms.s[l.c].state = "WAIT" \/ ms.w = <<l>> \/ ms.t = <<l.c>>
    BY DEF M!WaitsEnd
  <2>1. MsWaits(ms)
    BY DEF MsAll, MsInv, MsSound, M!Sound
  <2>2. \A c \in Conns : MsPosted(ms, c)
    BY <2>1 DEF MsWaits
  <2>3. \A l \in ms.letters : MsKept(ms, l)
    BY <2>1 DEF MsWaits
  <2>4. \A l, m \in ms.letters : l.id = m.id => l = m
    BY <2>1 DEF MsWaits
  <2> QED BY <2>2, <2>3, <2>4 DEF MsPosted, MsKept
<1> QED BY <1>1, MsInvariant, PTL

\* While no thread has used what the other has freed, nor met it at one letter, the callback
\* of a client is called once: by the answer
\* on the worker's thread or by the timer on kore's, never by both.
THEOREM MsCalledBackOnce == M!Spec => []M!CalledBackOnce
<1>1. MsAll => M!CalledBackOnce
  <2> SUFFICES ASSUME MsAll, M!Sound, NEW c \in Conns
               PROVE  ms.s[c].cbs <= 1 /\ (ms.s[c].cbs = 1 <=> ms.s[c].state = "DONE")
    BY DEF M!CalledBackOnce
  <2>1. MsSettled(ms, c)
    BY DEF MsAll, MsInv, MsSound, M!Sound, MsWaits
  <2> QED BY <2>1 DEF MsSettled
<1> QED BY <1>1, MsInvariant, PTL

\* While no thread has used what the other has freed, nor met it at one letter, and the
\* worker runs, kore knows exactly the rooms of the
\* worker, but for those given up by a timeout and those whose answer is on its way or whose
\* client is gone.
THEOREM MsRoomsMirrored == M!Spec => []M!RoomsMirrored
<1>1. MsAll => M!RoomsMirrored
  <2> SUFFICES ASSUME MsAll, M!Sound, ms.task = "running"
               PROVE  /\ ms.listeners \subseteq ms.rooms \cup {ms.out[i].id : i \in DOMAIN ms.out}
                      /\ \A r \in ms.rooms \ ms.listeners :
                           \/ r \in ms.rejected
                           \/ \E c \in Conns : ms.s[c].room = r /\
                                (ms.s[c].life = "freed" \/ \E i \in DOMAIN ms.out : ms.out[i].id = ms.s[c].id)
    BY DEF M!RoomsMirrored
  <2>1. MsWaits(ms) /\ MsMirror(ms) /\ ms \in MsStates
    BY DEF MsAll, MsInv, MsSound, M!Sound
  <2>2. ms.listeners \subseteq ms.rooms
    BY <2>1 DEF MsMirror
  <2>3. ASSUME NEW r \in ms.rooms, r \notin ms.listeners, r \notin ms.rejected
        PROVE  \E c \in Conns : ms.s[c].room = r /\
                 (ms.s[c].life = "freed" \/ \E i \in DOMAIN ms.out : ms.out[i].id = ms.s[c].id)
    <3>1. PICK c \in Conns :
            MsOf(ms, c, r) /\ (ms.s[c].life = "freed" \/ ms.s[c].state = "DONE" \/ MsComing(ms, r))
      BY <2>1 DEF MsMirror, MsMade
    <3>2. ms.s[c].state # "DONE"
      BY <2>1, <2>3, <3>1 DEF MsMirror, MsOf
    <3>3. CASE ms.s[c].life = "freed"
      BY <3>1, <3>3 DEF MsOf
    <3>4. CASE ms.s[c].life # "freed"
      <4>1. ms.s[c] \in MsSoups /\ MsSettled(ms, c) /\ MsPosted(ms, c)
        BY <2>1 DEF MsStates, MsWaits
      <4>2. ms.s[c].life \in {"none", "live", "freed"}
        BY <4>1 DEF MsSoups
      <4>3. ms.s[c].life = "live" /\ ms.s[c].state = "WAIT" /\ ms.s[c].room = r
        BY <3>1, <3>2, <3>4, <4>1, <4>2 DEF MsOf, MsSettled
      <4>4. ms.s[c].id = r + 1
        BY <4>1, <4>3 DEF MsPosted
      <4>5. PICK i \in DOMAIN ms.out : ms.out[i].id = r + 1
        BY <3>1, <3>2, <3>4 DEF MsComing
      <4> QED BY <4>3, <4>4, <4>5
    <3> QED BY <3>3, <3>4
  <2> QED BY <2>2, <2>3
<1> QED BY <1>1, MsInvariant, PTL

\* While Loop::Close runs, every room that was there when it began is destroyed or has yet to
\* be; once it is through, none is left but those the worker's thread has put into the map
\* meanwhile, in Loop::OnChannelRequest, which takes no lock.
THEOREM MsNoRoomLeft == M!Spec => []M!NoRoomLeft
<1>1. MsAll => M!NoRoomLeft
  BY DEF MsAll, MsInv, MsSwept, M!NoRoomLeft
<1> QED BY <1>1, MsInvariant, PTL
=============================================================================
