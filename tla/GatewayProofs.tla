--------------------------- MODULE GatewayProofs ---------------------------
(***************************************************************************)
(* Theorems about the gateways, for every value of the constants.           *)
(*                                                                          *)
(* First the event handler of the janus bridge (EventHandler, kore_msg.c):  *)
(* no event is lost, sent twice or out of order, the plugin's thread is     *)
(* gone before its queue, and the references of an event are counted.       *)
(*                                                                          *)
(* Then the negotiations of the two gateways (WsNegotiation, websocket_10;  *)
(* JanusNegotiation, pjanus.c), each under the name MCKoreParts gives its   *)
(* instance, for any number of candidates, messages and plugin events: the  *)
(* flag PROCESSING_OFFER never outlives what it guards, and a candidate the *)
(* client sent is applied once or still waits for a reason.  The two differ *)
(* in what they refuse and when, so each has its own lemmas; the invariant  *)
(* is the same predicate over both records.                                 *)
(*                                                                          *)
(* Next the sessions and handles of websocket_10 (WsSessions, helper.c),    *)
(* for any number of connections, sessions and handles: each session is in  *)
(* one table, is freed once, and is not used afterwards but in the two      *)
(* cases the property names.                                                *)
(*                                                                          *)
(* Last the admin API of the janus bridge (JanusAdmin, pjanus.c), for any   *)
(* tokens, plugins and numbers that are sent.                               *)
(***************************************************************************)
EXTENDS EventHandler, SequenceTheorems, FiniteSetTheorems, TLAPS

\* What is assumed of the constants: the mark at the end of the queue is no event, a
\* group holds some event, and numbers of configurations and requests are integers.
EhAssumption ==
    /\ "exit" \notin Events /\ GroupMax \in Nat \ {0}
    /\ \A c \in Configs : c # << >> => c[1].retr \in Int /\ c[1].backoff \in Int /\ c[1].group \in BOOLEAN
    /\ \A q \in Tweaks : q.retr \in Int /\ q.backoff \in Int

----------------------------------------------------------------------------
(* The invariant of the event handler.                                      *)

EhSettings == [backend : {"NULL", "http"}, retr : Nat, backoff : Nat, group : BOOLEAN]
\* A request with the settings before and after it.
EhRequests ==
    {x \in [was : EhSettings, now : EhSettings, ok : BOOLEAN] : ~x.ok => x.now = x.was}
EhStates ==
    [initialized : BOOLEAN, stopping : BOOLEAN, set : EhSettings, memory : {"none", "live", "freed"},
     core : {"off", "failed", "up", "joining", "freed", "down"}, queue : Seq(Events \cup {"exit"}),
     alive : BOOLEAN, thread : {"none", "start", "check", "pop", "took", "send", "unref", "left"},
     max : Nat, event : Events \cup {"NULL"}, output : Seq(Events), array : BOOLEAN,
     entering : SUBSET Events, tweaking : SUBSET Tweaks, refs : [Events -> 0..2],
     holds : SUBSET Events, handed : SUBSET Events, pushed : Seq(Events), sent : Seq(Seq(Events)),
     dropped : SUBSET Events, ungrouped : SUBSET Events, last : {<< >>} \cup {<<x>> : x \in EhRequests},
     tweaks : Int, faults : SUBSET {"event_freed", "array_freed", "queue_freed", "backend_freed"}]

\* Where the server is decides what the plugin has and where its thread can be.
Phased(s) ==
    /\ s.initialized <=> s.core \in {"up", "joining", "freed"}
    /\ s.stopping <=> s.core \in {"joining", "freed"}
    /\ s.core \in {"up", "joining"} => s.alive
    /\ s.core \in {"off", "freed", "down"} => ~s.alive
    /\ s.core \in {"freed", "down"} => s.thread = "left" /\ s.queue = << >>
    /\ s.core \in {"off", "failed"} <=> s.thread = "none"
    /\ s.core \in {"off", "failed"} => s.entering = {}
    /\ s.memory = "freed" \/ s.dropped # {} => s.core \in {"freed", "down"}

\* The thread's locals: the group it makes is within the maximum, and what it sent last
\* is what it unreferences.
Local(s) ==
    /\ s.thread \in {"none", "start", "check", "pop", "left"} => s.output = << >>
    /\ s.thread \in {"none", "start"} => s.sent = << >>
    /\ s.thread \notin {"none", "start"} => s.max # 0
    /\ s.thread = "took" => s.event \in Events /\ Len(s.output) < s.max
    /\ s.thread \in {"send", "unref"} => Len(s.output) \in 1..s.max /\ (s.array \/ Len(s.output) = 1)
    /\ s.thread = "unref" => \E i \in DOMAIN s.sent : s.sent[i] = s.output
    /\ \A i \in DOMAIN s.sent : Len(s.sent[i]) \in 1..s.max

\* The event x came before y.
Before(p, x, y) == \E i, j \in DOMAIN p : i < j /\ p[i] = x /\ p[j] = y
\* The events of a queue, those of the group that is being made or sent, those that were
\* sent, and those the thread is done with.
Waiting(q) == {e \in Events : \E i \in DOMAIN q : q[i] = e}
Taking(thread, output, event) ==
    IF thread = "took" THEN Waiting(output) \cup {event}
    ELSE IF thread = "send" THEN Waiting(output) ELSE {}
Gone(sent) == {e \in Events : \E i \in DOMAIN sent : \E j \in DOMAIN sent[i] : sent[i][j] = e}

\* A sequence of events, and perhaps the mark, is in the order in which they came.
InOrder(p, q) ==
    \A i, j \in DOMAIN q : i < j /\ q[i] \in Events /\ q[j] \in Events => Before(p, q[i], q[j])
\* All of X came before all of Y.
AllBefore(p, X, Y) == \A x \in X, y \in Y : Before(p, x, y)

\* What came is in one place, in the order in which it came.
Carried(s) ==
    /\ \A i, j \in DOMAIN s.pushed : s.pushed[i] = s.pushed[j] => i = j
    /\ Waiting(s.pushed) = Waiting(s.queue) \cup Taking(s.thread, s.output, s.event)
                             \cup Gone(s.sent) \cup s.ungrouped \cup s.dropped
    /\ InOrder(s.pushed, s.queue) /\ InOrder(s.pushed, s.output)
    /\ s.thread = "took" => AllBefore(s.pushed, Waiting(s.output), {s.event})
    /\ AllBefore(s.pushed, Taking(s.thread, s.output, s.event), Waiting(s.queue))
    /\ AllBefore(s.pushed, Gone(s.sent) \cup s.ungrouped,
                 Taking(s.thread, s.output, s.event) \cup Waiting(s.queue))
    /\ \A i \in DOMAIN s.sent : InOrder(s.pushed, s.sent[i])
    /\ \A i, j \in DOMAIN s.sent : i < j => AllBefore(s.pushed, Waiting(s.sent[i]), Waiting(s.sent[j]))
    /\ Gone(s.sent) \cap s.ungrouped = {}
    /\ s.dropped \cap (Gone(s.sent) \cup s.ungrouped) = {}

\* Who refers to e: the event thread, the queue, the group, and an array that was
\* forgotten.
One(X, e) == IF e \in X THEN 1 ELSE 0
Referring(s, e) ==
    One(s.holds, e) + One(Waiting(s.queue), e) + One(Taking(s.thread, s.output, s.event), e)
      + One(s.ungrouped, e)
Alone(sent, e) == \E i \in DOMAIN sent : sent[i] = <<e>>
\* An event has at least the references that are in use, and no others as long as no
\* memory was used after it was freed, until it was sent alone.
Referred(s) ==
    /\ s.entering \subseteq s.holds /\ s.holds \subseteq s.handed
    /\ Waiting(s.pushed) \subseteq s.handed \ s.entering
    /\ \A e \in s.entering : s.refs[e] = 1
    /\ \A e \in Events : Alone(s.sent, e) \/ s.refs[e] >= Referring(s, e)
    /\ \A e \in Events : \/ Alone(s.sent, e) \/ s.refs[e] = Referring(s, e)
                         \/ s.faults \cap {"event_freed", "queue_freed"} # {}

\* What every fault comes from.
Caused(s) ==
    /\ "array_freed" \in s.faults => s.sent # << >>
    /\ s.faults \cap {"queue_freed", "backend_freed"} # {} => s.core \in {"freed", "down"}
    /\ "event_freed" \in s.faults => \E i \in DOMAIN s.sent : Len(s.sent[i]) = 1

EhInv(s) == s \in EhStates /\ Phased(s) /\ Local(s) /\ Carried(s) /\ Referred(s) /\ Caused(s)
EhAll == EhInv(eh)

EhSpec == Init /\ [][Next]_eh

----------------------------------------------------------------------------
(* Sequences of events and the order in which they came.                    *)

\* What came before stays before.
LEMMA BeforeGrows ==
    ASSUME NEW p \in Seq(Events), NEW e, NEW x, NEW y, Before(p, x, y)
    PROVE  Before(Append(p, e), x, y)
<1>1. PICK i \in DOMAIN p, j \in DOMAIN p : i < j /\ p[i] = x /\ p[j] = y
  BY DEF Before
<1>2. /\ i \in DOMAIN Append(p, e) /\ j \in DOMAIN Append(p, e)
      /\ Append(p, e)[i] = x /\ Append(p, e)[j] = y
  BY <1>1
<1> QED BY <1>1, <1>2 DEF Before

\* Everything that came before comes before what comes now.
LEMMA BeforeNew ==
    ASSUME NEW p \in Seq(Events), NEW e, NEW x \in Waiting(p)
    PROVE  Before(Append(p, e), x, e)
<1>1. PICK i \in DOMAIN p : p[i] = x
  BY DEF Waiting
<1> DEFINE j == Len(p) + 1
<1>2. /\ i \in DOMAIN Append(p, e) /\ j \in DOMAIN Append(p, e) /\ i < j
      /\ Append(p, e)[i] = x /\ Append(p, e)[j] = e
  BY <1>1
<1> QED BY <1>2 DEF Before

\* Nothing comes before itself.
LEMMA BeforeSelf ==
    ASSUME NEW p \in Seq(Events), \A i, j \in DOMAIN p : p[i] = p[j] => i = j, NEW x
    PROVE  ~Before(p, x, x)
<1> SUFFICES ASSUME Before(p, x, x) PROVE FALSE
  OBVIOUS
<1>1. PICK i \in DOMAIN p, j \in DOMAIN p : i < j /\ p[i] = x /\ p[j] = x
  BY DEF Before
<1>2. i \in Int /\ j \in Int /\ i = j
  BY <1>1
<1> QED BY <1>1, <1>2

\* The events of the empty sequence, and of one that grew or lost its head.
LEMMA WaitingEmpty == Waiting(<< >>) = {}
BY DEF Waiting

\* The events of a sequence of one.
LEMMA WaitingOne ==
    ASSUME NEW e \in Events
    PROVE  Waiting(<<e>>) = {e}
BY DEF Waiting

\* The events of a sequence that grew.
LEMMA WaitingAppend ==
    ASSUME NEW X, NEW q \in Seq(X), NEW e
    PROVE  Waiting(Append(q, e)) = Waiting(q) \cup ({e} \cap Events)
<1>1. /\ DOMAIN Append(q, e) = DOMAIN q \cup {Len(q) + 1}
      /\ \A i \in DOMAIN q : Append(q, e)[i] = q[i]
      /\ Append(q, e)[Len(q) + 1] = e
  OBVIOUS
<1> QED BY <1>1, Zenon DEF Waiting

\* The elements of a sequence that lost its head.
LEMMA TailElements ==
    ASSUME NEW X, NEW q \in Seq(X), q # << >>
    PROVE  /\ 1 \in DOMAIN q /\ q[1] \in X /\ Tail(q) \in Seq(X) /\ DOMAIN q \subseteq Int
           /\ \A i \in DOMAIN Tail(q) : i \in Int /\ i + 1 \in DOMAIN q /\ Tail(q)[i] = q[i + 1] /\ 1 < i + 1
           /\ \A i \in DOMAIN q : i # 1 => i - 1 \in DOMAIN Tail(q) /\ Tail(q)[i - 1] = q[i]
OBVIOUS

\* The events of a sequence that lost its head.
LEMMA WaitingTail ==
    ASSUME NEW X, NEW q \in Seq(X), q # << >>
    PROVE  Waiting(q) = Waiting(Tail(q)) \cup ({q[1]} \cap Events)
<1>1. ASSUME NEW e \in Waiting(q) PROVE e \in Waiting(Tail(q)) \cup ({q[1]} \cap Events)
  <2>1. PICK i \in DOMAIN q : q[i] = e
    BY DEF Waiting
  <2>2. CASE i = 1
    BY <2>1, <2>2 DEF Waiting
  <2>3. CASE i # 1
    <3>1. i - 1 \in DOMAIN Tail(q) /\ Tail(q)[i - 1] = e
      BY <2>1, <2>3, TailElements
    <3> QED BY <3>1 DEF Waiting
  <2> QED BY <2>2, <2>3
<1>2. ASSUME NEW e \in Waiting(Tail(q)) PROVE e \in Waiting(q)
  <2>1. PICK i \in DOMAIN Tail(q) : Tail(q)[i] = e
    BY DEF Waiting
  <2>2. i + 1 \in DOMAIN q /\ q[i + 1] = e
    BY <2>1, TailElements
  <2> QED BY <2>2 DEF Waiting
<1>3. {q[1]} \cap Events \subseteq Waiting(q)
  BY TailElements DEF Waiting
<1> QED BY <1>1, <1>2, <1>3

\* The elements of a sequence are its events, and perhaps the mark.
LEMMA Elements ==
    ASSUME EhAssumption, NEW q \in Seq(Events \cup {"exit"})
    PROVE  ToSet(q) \ {"exit"} = Waiting(q)
<1>1. \A i \in DOMAIN q : q[i] \in Events \cup {"exit"}
  OBVIOUS
<1> QED BY <1>1 DEF ToSet, Waiting, EhAssumption

\* The elements of a sequence of events.
LEMMA EventElements ==
    ASSUME NEW q \in Seq(Events)
    PROVE  ToSet(q) = Waiting(q)
<1>1. \A i \in DOMAIN q : q[i] \in Events
  OBVIOUS
<1> QED BY <1>1 DEF ToSet, Waiting

\* An ordered sequence grows in order.
LEMMA OrderAppend ==
    ASSUME NEW p, NEW X, NEW q \in Seq(X), NEW e, InOrder(p, q), AllBefore(p, Waiting(q), {e} \cap Events)
    PROVE  InOrder(p, Append(q, e))
<1>1. /\ DOMAIN Append(q, e) = DOMAIN q \cup {Len(q) + 1}
      /\ \A i \in DOMAIN q : Append(q, e)[i] = q[i] /\ i \in Int /\ i < Len(q) + 1
      /\ Append(q, e)[Len(q) + 1] = e /\ Len(q) + 1 \in Int
  OBVIOUS
<1> DEFINE a == Append(q, e)
           n == Len(q) + 1
<1> HIDE DEF a, n
<1>2. SUFFICES ASSUME NEW i \in DOMAIN a, NEW j \in DOMAIN a, i < j, a[i] \in Events, a[j] \in Events
               PROVE  Before(p, a[i], a[j])
  BY DEF InOrder, a
<1>3. i \in DOMAIN q
  BY <1>1, <1>2 DEF a, n
<1>4. CASE j \in DOMAIN q
  BY <1>1, <1>2, <1>3, <1>4 DEF InOrder, a, n
<1>5. CASE j = n
  BY <1>1, <1>2, <1>3, <1>5 DEF AllBefore, Waiting, a, n
<1> QED BY <1>1, <1>4, <1>5 DEF a, n

\* An ordered sequence stays ordered without its head, which came first.
LEMMA OrderTail ==
    ASSUME NEW p, NEW X, NEW q \in Seq(X), q # << >>, InOrder(p, q)
    PROVE  InOrder(p, Tail(q)) /\ AllBefore(p, {q[1]} \cap Events, Waiting(Tail(q)))
<1> DEFINE t == Tail(q)
<1>1. /\ 1 \in DOMAIN q
      /\ \A i \in DOMAIN t : i \in Int /\ i + 1 \in DOMAIN q /\ t[i] = q[i + 1] /\ 1 < i + 1
  BY TailElements
<1> HIDE DEF t
<1>2. ASSUME NEW i \in DOMAIN t, NEW j \in DOMAIN t, i < j, t[i] \in Events, t[j] \in Events
      PROVE  Before(p, t[i], t[j])
  <2>1. i + 1 \in DOMAIN q /\ j + 1 \in DOMAIN q /\ i + 1 < j + 1 /\ t[i] = q[i + 1] /\ t[j] = q[j + 1]
    BY <1>1, <1>2
  <2> QED BY <1>2, <2>1 DEF InOrder
<1>3. ASSUME NEW x \in {q[1]} \cap Events, NEW y \in Waiting(t) PROVE Before(p, x, y)
  <2>1. PICK j \in DOMAIN t : t[j] = y
    BY DEF Waiting
  <2>2. j + 1 \in DOMAIN q /\ 1 < j + 1 /\ q[j + 1] = y /\ y \in Events
    BY <1>1, <2>1 DEF Waiting
  <2> QED BY <1>1, <2>2 DEF InOrder
<1> QED BY <1>2, <1>3 DEF InOrder, AllBefore, t

\* The order stays as it is when another event comes.
LEMMA OrderGrows ==
    ASSUME NEW p \in Seq(Events), NEW e
    PROVE  /\ \A q : InOrder(p, q) => InOrder(Append(p, e), q)
           /\ \A X, Y : AllBefore(p, X, Y) => AllBefore(Append(p, e), X, Y)
           /\ \A X : X \subseteq Waiting(p) => AllBefore(Append(p, e), X, {e})
<1> DEFINE a == Append(p, e)
<1>1. \A x, y : Before(p, x, y) => Before(a, x, y)
  BY BeforeGrows
<1>2. \A x \in Waiting(p) : Before(a, x, e)
  BY BeforeNew
<1> HIDE DEF a
<1>3. \A q : InOrder(p, q) => InOrder(a, q)
  BY <1>1 DEF InOrder
<1>4. \A X, Y : AllBefore(p, X, Y) => AllBefore(a, X, Y)
  BY <1>1 DEF AllBefore
<1>5. \A X : X \subseteq Waiting(p) => AllBefore(a, X, {e})
  BY <1>2 DEF AllBefore
<1> QED BY <1>3, <1>4, <1>5 DEF a

\* What was sent after another group.
LEMMA GoneAppend ==
    ASSUME NEW h \in Seq(Seq(Events)), NEW q
    PROVE  Gone(Append(h, q)) = Gone(h) \cup Waiting(q)
<1>1. /\ DOMAIN Append(h, q) = DOMAIN h \cup {Len(h) + 1}
      /\ \A i \in DOMAIN h : Append(h, q)[i] = h[i]
      /\ Append(h, q)[Len(h) + 1] = q
  OBVIOUS
<1> DEFINE a == Append(h, q)
           n == Len(h) + 1
<1> HIDE DEF a, n
<1>2. ASSUME NEW e \in Gone(a) PROVE e \in Gone(h) \cup Waiting(q)
  <2>1. PICK i \in DOMAIN a : \E j \in DOMAIN a[i] : a[i][j] = e
    BY DEF Gone
  <2>2. e \in Events
    BY DEF Gone
  <2> QED BY <1>1, <2>1, <2>2 DEF Gone, Waiting, a, n
<1>3. ASSUME NEW e \in Gone(h) PROVE e \in Gone(a)
  BY <1>1 DEF Gone, a
<1>4. ASSUME NEW e \in Waiting(q) PROVE e \in Gone(a)
  BY <1>1 DEF Gone, Waiting, a, n
<1> QED BY <1>2, <1>3, <1>4 DEF a

----------------------------------------------------------------------------
(* What keeps the parts of the invariant.                                   *)

\* No event moves: the thread keeps what it has, or it has nothing before and after.
Still(s, m) ==
    /\ m.pushed = s.pushed /\ m.queue = s.queue /\ m.sent = s.sent
    /\ m.ungrouped = s.ungrouped /\ m.dropped = s.dropped
    /\ \/ m.thread = s.thread /\ m.output = s.output /\ m.event = s.event
       \/ /\ s.thread \notin {"took", "send"} /\ m.thread \notin {"took", "send"}
          /\ m.output \in {<< >>, s.output}
\* Nobody takes or drops a reference.
Steady(s, m) ==
    /\ m.refs = s.refs /\ m.holds = s.holds /\ m.entering = s.entering /\ m.handed = s.handed
    /\ s.faults \subseteq m.faults

\* The group that is being made stays.
LEMMA StillTaking ==
    ASSUME NEW s, NEW m, Still(s, m)
    PROVE  Taking(m.thread, m.output, m.event) = Taking(s.thread, s.output, s.event)
BY DEF Still, Taking

\* The empty sequence is in order.
LEMMA OrderEmpty == \A p : InOrder(p, << >>)
BY DEF InOrder

\* Events that do not move stay in order.
LEMMA StillCarried ==
    ASSUME NEW s, NEW m, Carried(s), Still(s, m)
    PROVE  Carried(m)
<1>1. Taking(m.thread, m.output, m.event) = Taking(s.thread, s.output, s.event)
  BY StillTaking
<1>2. InOrder(m.pushed, m.output)
  BY OrderEmpty DEF Carried, Still
<1>3. m.thread = "took" => AllBefore(m.pushed, Waiting(m.output), {m.event})
  BY DEF Carried, Still
<1> QED BY <1>1, <1>2, <1>3 DEF Carried, Still

\* Events that do not move have the references they had.
LEMMA StillReferred ==
    ASSUME NEW s, NEW m, Referred(s), Still(s, m), Steady(s, m)
    PROVE  Referred(m)
<1>1. Taking(m.thread, m.output, m.event) = Taking(s.thread, s.output, s.event)
  BY StillTaking
<1>2. m.queue = s.queue /\ m.holds = s.holds /\ m.ungrouped = s.ungrouped
  BY DEF Still, Steady
<1>3. \A e : Referring(m, e) = Referring(s, e)
  BY <1>1, <1>2 DEF Referring
<1> HIDE DEF Referring
<1>4. /\ m.refs = s.refs /\ m.sent = s.sent /\ m.entering = s.entering /\ m.handed = s.handed
      /\ m.pushed = s.pushed /\ s.faults \subseteq m.faults
  BY DEF Still, Steady
<1>5. \A e \in Events : Alone(m.sent, e) \/ m.refs[e] >= Referring(m, e)
  BY <1>3, <1>4 DEF Referred
<1>6. \A e \in Events : \/ Alone(m.sent, e) \/ m.refs[e] = Referring(m, e)
                        \/ m.faults \cap {"event_freed", "queue_freed"} # {}
  BY <1>3, <1>4 DEF Referred
<1> QED BY <1>2, <1>4, <1>5, <1>6 DEF Referred

----------------------------------------------------------------------------
(* Start, end and settings.                                                 *)

\* A record of settings.
LEMMA Settings ==
    ASSUME NEW a \in {"NULL", "http"}, NEW b \in Nat, NEW c \in Nat, NEW d \in BOOLEAN
    PROVE  [backend |-> a, retr |-> b, backoff |-> c, group |-> d] \in EhSettings
BY DEF EhSettings

\* Nothing has happened yet.
LEMMA EhStart ==
    ASSUME EhAssumption, Init
    PROVE  EhInv(eh)
<1>t. eh \in EhStates
  <2>1. Defaults \in EhSettings
    <3>1. 5 \in Nat /\ 100 \in Nat
      OBVIOUS
    <3> QED BY <3>1, Settings, Zenon DEF Defaults
  <2>2. [e \in Events |-> 0] \in [Events -> 0..2]
    OBVIOUS
  <2>3. << >> \in Seq(Events) /\ << >> \in Seq(Events \cup {"exit"}) /\ << >> \in Seq(Seq(Events))
    OBVIOUS
  <2> HIDE DEF Defaults, EhSettings
  <2>4. 0 \in Nat /\ 0 \in Int
    OBVIOUS
  <2> QED BY <2>1, <2>2, <2>3, <2>4, ZenonT(60) DEF Init, EhStates
<1> USE DEF Init
<1>p. Phased(eh)
  BY DEF Phased
<1>l. Local(eh)
  BY DEF Local
<1>w. Waiting(<< >>) = {} /\ Gone(<< >>) = {} /\ Taking("none", << >>, "NULL") = {}
  BY WaitingEmpty DEF Gone, Taking
<1>c. Carried(eh)
  <2>1. /\ eh.pushed = << >> /\ eh.queue = << >> /\ eh.sent = << >> /\ eh.ungrouped = {} /\ eh.dropped = {}
        /\ eh.thread = "none" /\ eh.output = << >> /\ eh.event = "NULL"
    OBVIOUS
  <2> QED BY <1>w, <2>1, OrderEmpty DEF Carried, AllBefore
<1>r. Referred(eh)
  <2>1. \A e \in Events : eh.refs[e] = 0 /\ Referring(eh, e) = 0
    <3>1. /\ eh.holds = {} /\ Waiting(eh.queue) = {} /\ eh.ungrouped = {}
          /\ Taking(eh.thread, eh.output, eh.event) = {}
      BY <1>w
    <3>2. \A e : One({}, e) = 0
      BY DEF One
    <3>3. \A e \in Events : eh.refs[e] = 0
      OBVIOUS
    <3> HIDE DEF Init
    <3>4. \A e : Referring(eh, e) = 0
      BY <3>1, <3>2 DEF Referring
    <3> QED BY <3>3, <3>4
  <2>2. \A e \in Events : eh.refs[e] >= Referring(eh, e)
    <3> HIDE DEF Init
    <3> QED BY <2>1
  <2>3. Waiting(eh.pushed) = {} /\ eh.entering = {} /\ eh.holds = {}
    BY <1>w
  <2> QED BY <2>1, <2>2, <2>3 DEF Referred
<1>f. Caused(eh)
  BY DEF Caused
<1> QED BY <1>t, <1>p, <1>l, <1>c, <1>r, <1>f DEF EhInv

\* Settings of a configuration.
LEMMA SetBy ==
    ASSUME EhAssumption, NEW c \in Configs, c # << >>, c[1].backend = "http"
    PROVE  Configured(c[1]) \in EhSettings
<1>1. c[1].retr \in Int /\ c[1].backoff \in Int /\ c[1].group \in BOOLEAN
  BY DEF EhAssumption
<1>2. /\ (IF c[1].retr < 0 THEN 5 ELSE c[1].retr) \in Nat
      /\ (IF c[1].backoff <= 0 THEN 100 ELSE c[1].backoff) \in Nat
  BY <1>1
<1> QED BY <1>1, <1>2, Settings DEF Configured, Defaults

\* janus_sampleevh_init keeps the invariant.
LEMMA EhInitKeeps ==
    ASSUME EhAssumption, EhInv(eh), NEW c \in Configs, NEW threads \in BOOLEAN,
           janus_sampleevh_init(c, threads)
    PROVE  EhInv(eh')
<1> DEFINE s == eh
           m == eh'
<1>0. s \in EhStates /\ s.core = "off" /\ s.thread = "none"
  BY DEF EhInv, janus_sampleevh_init, Phased
<1>1. CASE m = [s EXCEPT !.core = "failed"]
  <2>t. m \in EhStates
    BY <1>0, <1>1, ZenonT(60) DEF EhStates
  <2>1. Still(s, m) /\ Steady(s, m)
    BY <1>0, <1>1 DEF Still, Steady, EhStates
  <2>p. Phased(m) /\ Local(m) /\ Caused(m)
    BY <1>0, <1>1 DEF EhInv, Phased, Local, Caused, EhStates
  <2> QED BY <2>t, <2>p, <2>1, StillCarried, StillReferred DEF EhInv
<1>2. ASSUME NEW g \in EhSettings,
             m = [s EXCEPT !.set = g, !.memory = "live", !.alive = TRUE, !.core = "failed"]
      PROVE  EhInv(m)
  <2>t. m \in EhStates /\ Still(s, m) /\ Steady(s, m)
    BY <1>0, <1>2, ZenonT(60) DEF Still, Steady, EhStates
  <2>p. Phased(m) /\ Local(m) /\ Caused(m)
    BY <1>0, <1>2 DEF EhInv, Phased, Local, Caused, EhStates
  <2> QED BY <2>t, <2>p, StillCarried, StillReferred DEF EhInv
<1>3. ASSUME NEW g \in EhSettings,
             m = [s EXCEPT !.set = g, !.memory = "live", !.alive = TRUE, !.initialized = TRUE,
                           !.core = "up", !.thread = "start"]
      PROVE  EhInv(m)
  <2>t. m \in EhStates /\ Still(s, m) /\ Steady(s, m)
    BY <1>0, <1>3, ZenonT(60) DEF Still, Steady, EhStates
  <2>p. Phased(m) /\ Local(m) /\ Caused(m)
    BY <1>0, <1>3 DEF EhInv, Phased, Local, Caused, EhStates
  <2> QED BY <2>t, <2>p, StillCarried, StillReferred DEF EhInv
<1>4. CASE c # << >> /\ c[1].backend = "http"
  <2>1. Configured(c[1]) \in EhSettings
    BY <1>4, SetBy
  <2> DEFINE a == [s EXCEPT !.set = Configured(c[1]), !.memory = "live", !.alive = TRUE]
  <2>2. \/ m = [s EXCEPT !.core = "failed"]
        \/ m = [a EXCEPT !.core = "failed"]
        \/ m = [a EXCEPT !.initialized = TRUE, !.core = "up", !.thread = "start"]
    BY <1>4 DEF janus_sampleevh_init
  <2>3. [a EXCEPT !.core = "failed"]
          = [s EXCEPT !.set = Configured(c[1]), !.memory = "live", !.alive = TRUE, !.core = "failed"]
    BY <1>0 DEF EhStates
  <2>4. [a EXCEPT !.initialized = TRUE, !.core = "up", !.thread = "start"]
          = [s EXCEPT !.set = Configured(c[1]), !.memory = "live", !.alive = TRUE, !.initialized = TRUE,
                      !.core = "up", !.thread = "start"]
    BY <1>0 DEF EhStates
  <2> HIDE DEF a
  <2> QED BY <1>1, <1>2, <1>3, <2>1, <2>2, <2>3, <2>4
<1>5. CASE c = << >> \/ c[1].backend # "http"
  BY <1>1, <1>5 DEF janus_sampleevh_init
<1> QED BY <1>4, <1>5

\* A step that moves no event and touches no reference and no local of the thread.
LEMMA Aside ==
    ASSUME NEW s, NEW m, EhInv(s), m \in EhStates, Still(s, m), Steady(s, m),
           Phased(m), Local(m), Caused(m)
    PROVE  EhInv(m)
BY StillCarried, StillReferred DEF EhInv

\* The end of janus_sampleevh_destroy, and the thread's steps that look at flags.
LEMMA EhFlags ==
    ASSUME EhAssumption, EhInv(eh), DestroyDone \/ HandlerStart \/ HandlerCheck
    PROVE  EhInv(eh')
<1> DEFINE s == eh
           m == eh'
<1>0. s \in EhStates
  BY DEF EhInv
<1>1. CASE DestroyDone
  <2>0. s.core = "freed" /\ m = [s EXCEPT !.core = "down", !.initialized = FALSE, !.stopping = FALSE]
    BY <1>1 DEF DestroyDone
  <2>t. m \in EhStates /\ Still(s, m) /\ Steady(s, m)
    BY <1>0, <2>0, ZenonT(60) DEF EhStates, Still, Steady
  <2>p. Phased(m) /\ Local(m) /\ Caused(m)
    BY <1>0, <2>0 DEF EhInv, Phased, Local, Caused, EhStates
  <2> QED BY <2>t, <2>p, Aside
<1>2. CASE HandlerStart
  <2> DEFINE k == IF s.set.group THEN GroupMax ELSE 1
  <2>0. k \in Nat \ {0} /\ s.thread = "start" /\ m = [s EXCEPT !.thread = "check", !.max = k]
    BY <1>2 DEF HandlerStart, EhAssumption
  <2> HIDE DEF k
  <2>t. m \in EhStates /\ Still(s, m) /\ Steady(s, m)
    BY <1>0, <2>0, ZenonT(60) DEF EhStates, Still, Steady
  <2>p. Phased(m) /\ Local(m) /\ Caused(m)
    BY <1>0, <2>0 DEF EhInv, Phased, Local, Caused, EhStates
  <2> QED BY <2>t, <2>p, Aside
<1>3. CASE HandlerCheck
  <2>0. PICK k \in {"pop", "left"} : s.thread = "check" /\ m = [s EXCEPT !.thread = k]
    BY <1>3 DEF HandlerCheck
  <2>t. m \in EhStates /\ Still(s, m) /\ Steady(s, m)
    BY <1>0, <2>0, ZenonT(60) DEF EhStates, Still, Steady
  <2>p. Phased(m) /\ Local(m) /\ Caused(m)
    BY <1>0, <2>0, ZenonT(60) DEF EhInv, Phased, Local, Caused, EhStates
  <2> QED BY <2>t, <2>p, Aside
<1> QED BY <1>1, <1>2, <1>3

\* Requests of the admin API.
LEMMA EhTweaks ==
    ASSUME EhAssumption, EhInv(eh), NEW q \in Tweaks, HandleCheck(q) \/ janus_sampleevh_handle_request(q)
    PROVE  EhInv(eh')
<1> DEFINE s == eh
           m == eh'
<1>0. s \in EhStates
  BY DEF EhInv
<1>1. CASE HandleCheck(q)
  <2>0. m = [s EXCEPT !.tweaks = @ + 1, !.tweaking = @ \cup {q}]
    BY <1>1 DEF HandleCheck
  <2>1. s.tweaks + 1 \in Int /\ s.tweaking \cup {q} \in SUBSET Tweaks
    BY <1>0 DEF EhStates
  <2>t. m \in EhStates /\ Still(s, m) /\ Steady(s, m)
    BY <1>0, <2>0, <2>1, ZenonT(60) DEF EhStates, Still, Steady
  <2>p. Phased(m) /\ Local(m) /\ Caused(m)
    BY <1>0, <2>0 DEF EhInv, Phased, Local, Caused, EhStates
  <2> QED BY <2>t, <2>p, Aside
<1>2. CASE janus_sampleevh_handle_request(q)
  <2> DEFINE set == IF Valid(q) THEN Enforced(s.set, q) ELSE s.set
             l == <<[was |-> s.set, now |-> set, ok |-> Valid(q)]>>
             f == IF Valid(q) /\ q.backend # "" /\ s.memory = "freed" THEN s.faults \cup {"backend_freed"}
                  ELSE s.faults
  <2>1. set \in EhSettings /\ s.set \in EhSettings
    <3>1. s.set \in EhSettings /\ q.retr \in Int /\ q.backoff \in Int
      BY <1>0 DEF EhStates, EhAssumption
    <3>2. ASSUME Valid(q) PROVE Enforced(s.set, q) \in EhSettings
      <4> DEFINE x == s.set
      <4>1. x.retr \in Nat /\ x.backoff \in Nat /\ x.group \in BOOLEAN /\ x.backend \in {"NULL", "http"}
        BY <3>1 DEF EhSettings
      <4> HIDE DEF x
      <4>2. /\ (IF q.retr > -1 THEN q.retr ELSE x.retr) \in Nat
            /\ (IF q.backoff > -1 THEN q.backoff ELSE x.backoff) \in Nat
        BY <3>1, <4>1
      <4>3. (IF q.group = "" THEN x.group ELSE q.group = "yes") \in BOOLEAN
        BY <4>1
      <4>4. (IF q.backend = "" THEN x.backend ELSE q.backend) \in {"NULL", "http"}
        BY <3>2, <4>1 DEF Valid
      <4>5. Enforced(x, q) \in EhSettings
        BY <4>2, <4>3, <4>4, Settings, ZenonT(60) DEF Enforced
      <4> QED BY <4>5 DEF x
    <3> QED BY <3>1, <3>2
  <2>2. Valid(q) \in BOOLEAN
    BY DEF Valid
  <2>3. l \in {<< >>} \cup {<<x>> : x \in EhRequests}
    <3>1. [was |-> s.set, now |-> set, ok |-> Valid(q)] \in EhRequests
      BY <2>1, <2>2 DEF EhRequests
    <3> QED BY <3>1
  <2>4. m = [s EXCEPT !.tweaking = @ \ {q}, !.set = set, !.last = l, !.faults = f]
    <3> DEFINE a == [s EXCEPT !.tweaking = @ \ {q}, !.set = set, !.last = l]
    <3>1. m = IF Valid(q) /\ q.backend # "" /\ s.memory = "freed" THEN Fault(a, "backend_freed") ELSE a
      BY <1>2 DEF janus_sampleevh_handle_request
    <3> HIDE DEF set, l
    <3>2. Fault(a, "backend_freed") = [a EXCEPT !.faults = s.faults \cup {"backend_freed"}]
      BY <1>0 DEF Fault, EhStates
    <3>3. a = [a EXCEPT !.faults = s.faults]
      BY <1>0 DEF EhStates
    <3> QED BY <1>0, <3>1, <3>2, <3>3 DEF EhStates
  <2>5. f \in SUBSET {"event_freed", "array_freed", "queue_freed", "backend_freed"} /\ s.faults \subseteq f
        /\ f \subseteq s.faults \cup {"backend_freed"} /\ (f = s.faults \/ s.memory = "freed")
    BY <1>0 DEF EhStates
  <2> HIDE DEF set, l, f
  <2>t. m \in EhStates /\ Still(s, m) /\ Steady(s, m)
    BY <1>0, <2>1, <2>3, <2>4, <2>5, ZenonT(60) DEF EhStates, Still, Steady
  <2>p. Phased(m) /\ Local(m)
    BY <1>0, <2>4 DEF EhInv, Phased, Local, EhStates
  <2>c. Caused(m)
    <3>1. m.faults = f /\ m.sent = s.sent /\ m.core = s.core
      BY <1>0, <2>4 DEF EhStates
    <3>2. s.memory = "freed" => s.core \in {"freed", "down"}
      BY DEF EhInv, Phased
    <3> QED BY <2>5, <3>1, <3>2 DEF EhInv, Caused
  <2> QED BY <2>t, <2>p, <2>c, Aside
<1> QED BY <1>1, <1>2

----------------------------------------------------------------------------
(* References.                                                              *)

\* How many refer to an event is a number.
LEMMA ReferringNumber ==
    ASSUME NEW s, NEW e
    PROVE  Referring(s, e) \in Nat
<1>1. \A X : One(X, e) \in Nat
  BY DEF One
<1> HIDE DEF One
<1> QED BY <1>1 DEF Referring

\* An event is in one place, and nowhere before it is handed over.
Apart(s) ==
    /\ Waiting(s.queue) \cap Taking(s.thread, s.output, s.event) = {}
    /\ (Gone(s.sent) \cup s.ungrouped) \cap (Taking(s.thread, s.output, s.event) \cup Waiting(s.queue)) = {}
    /\ s.thread = "took" => s.event \notin Waiting(s.output)
    /\ s.queue # << >> => s.queue[1] \notin Waiting(Tail(s.queue))
    /\ s.entering \cap (Waiting(s.queue) \cup Taking(s.thread, s.output, s.event)
                          \cup Gone(s.sent) \cup s.ungrouped \cup s.dropped) = {}

\* Sets of which all of one came before all of the other have nothing in common.
LEMMA BeforeApart ==
    ASSUME NEW p \in Seq(Events), \A i, j \in DOMAIN p : p[i] = p[j] => i = j,
           NEW X, NEW Y, AllBefore(p, X, Y)
    PROVE  X \cap Y = {}
BY BeforeSelf DEF AllBefore

\* Events that are in order are in one place.
LEMMA EhApart ==
    ASSUME NEW s, EhInv(s)
    PROVE  Apart(s)
<1> DEFINE T == Taking(s.thread, s.output, s.event)
           W == Waiting(s.queue)
           P == s.pushed
<1>0. /\ P \in Seq(Events) /\ \A i, j \in DOMAIN P : P[i] = P[j] => i = j
      /\ s.queue \in Seq(Events \cup {"exit"})
  BY DEF EhInv, Carried, EhStates
<1>1. /\ AllBefore(P, T, W) /\ AllBefore(P, Gone(s.sent) \cup s.ungrouped, T \cup W)
      /\ s.thread = "took" => AllBefore(P, Waiting(s.output), {s.event})
      /\ InOrder(P, s.queue)
  BY DEF EhInv, Carried
<1>2. s.queue # << >> => AllBefore(P, {s.queue[1]} \cap Events, Waiting(Tail(s.queue)))
  BY <1>0, <1>1, OrderTail
<1>3. /\ Waiting(P) = W \cup T \cup Gone(s.sent) \cup s.ungrouped \cup s.dropped
      /\ Waiting(P) \subseteq s.handed \ s.entering
  BY DEF EhInv, Carried, Referred
<1> HIDE DEF T, W, P
<1>4. T \cap W = {} /\ (Gone(s.sent) \cup s.ungrouped) \cap (T \cup W) = {}
  <2> DEFINE R == Gone(s.sent) \cup s.ungrouped
             Y == T \cup W
  <2>1. AllBefore(P, T, W) /\ AllBefore(P, R, Y)
    BY <1>1
  <2> HIDE DEF R, Y
  <2>2. T \cap W = {}
    BY <1>0, <2>1, BeforeApart
  <2>3. R \cap Y = {}
    BY <1>0, <2>1, BeforeApart
  <2> QED BY <2>2, <2>3 DEF R, Y
<1>5. s.thread = "took" => s.event \notin Waiting(s.output)
  BY <1>0, <1>1, BeforeApart
<1>6. s.queue # << >> => s.queue[1] \notin Waiting(Tail(s.queue))
  <2>1. s.queue # << >> => ({s.queue[1]} \cap Events) \cap Waiting(Tail(s.queue)) = {}
    BY <1>0, <1>2, BeforeApart
  <2>2. Waiting(Tail(s.queue)) \subseteq Events
    BY DEF Waiting
  <2> QED BY <2>1, <2>2
<1>7. s.entering \cap (W \cup T \cup Gone(s.sent) \cup s.ungrouped \cup s.dropped) = {}
  BY <1>3
<1> QED BY <1>4, <1>5, <1>6, <1>7 DEF Apart, T, W

\* What was sent alone was sent.
LEMMA AloneGone ==
    ASSUME NEW h, NEW e \in Events, Alone(h, e)
    PROVE  e \in Gone(h)
<1>1. PICK i \in DOMAIN h : h[i] = <<e>>
  BY DEF Alone
<1>2. 1 \in DOMAIN h[i] /\ h[i][1] = e
  BY <1>1
<1> QED BY <1>1, <1>2 DEF Gone

\* The references of e follow who refers to it, from s to m.
Balanced(s, m, e) ==
    \/ Alone(m.sent, e)
    \/ m.refs[e] = Referring(m, e)
    \/ m.refs[e] = s.refs[e] + Referring(m, e) - Referring(s, e)
    \/ /\ m.refs[e] >= s.refs[e] + Referring(m, e) - Referring(s, e)
       /\ m.faults \cap {"event_freed", "queue_freed"} # {}

\* Who entered, who is held, and what was sent alone.
Entered(s, m) ==
    /\ m.entering \subseteq m.holds /\ m.holds \subseteq m.handed
    /\ Waiting(m.pushed) \subseteq m.handed \ m.entering
    /\ \A e \in m.entering : m.refs[e] = 1
    /\ \A e \in Events : Alone(s.sent, e) => Alone(m.sent, e)
    /\ s.faults \subseteq m.faults

\* References that follow stay right.
LEMMA Balance ==
    ASSUME NEW s, NEW m, EhInv(s), m \in EhStates, Entered(s, m), \A e \in Events : Balanced(s, m, e)
    PROVE  Referred(m)
<1>1. /\ \A e \in Events : Alone(s.sent, e) \/ s.refs[e] >= Referring(s, e)
      /\ \A e \in Events : \/ Alone(s.sent, e) \/ s.refs[e] = Referring(s, e)
                           \/ s.faults \cap {"event_freed", "queue_freed"} # {}
  BY DEF EhInv, Referred
<1>2. \A e \in Events : /\ Referring(s, e) \in Nat /\ Referring(m, e) \in Nat
                        /\ s.refs[e] \in Int /\ m.refs[e] \in Int
  BY ReferringNumber DEF EhInv, EhStates
<1>3. ASSUME NEW e \in Events, ~Alone(m.sent, e)
      PROVE  /\ m.refs[e] >= Referring(m, e)
             /\ m.refs[e] = Referring(m, e) \/ m.faults \cap {"event_freed", "queue_freed"} # {}
  <2>0. ~Alone(s.sent, e) /\ s.faults \subseteq m.faults
    BY <1>3 DEF Entered
  <2> DEFINE a == s.refs[e]
             b == m.refs[e]
             x == Referring(s, e)
             y == Referring(m, e)
             F == m.faults \cap {"event_freed", "queue_freed"} # {}
             R == s.faults \cap {"event_freed", "queue_freed"} # {}
  <2>1. a \in Int /\ b \in Int /\ x \in Nat /\ y \in Nat /\ a >= x /\ (a = x \/ R) /\ (R => F)
    BY <1>1, <1>2, <2>0
  <2>2. b = y \/ b = a + y - x \/ (b >= a + y - x /\ F)
    BY <1>3 DEF Balanced
  <2> HIDE DEF a, b, x, y, F, R
  <2>3. b >= y /\ (b = y \/ F)
    BY <2>1, <2>2
  <2> QED BY <2>3 DEF b, y, F
<1> QED BY <1>3 DEF Referred, Entered

\* An event that is waiting or in a group has a reference.
LEMMA HasReference ==
    ASSUME NEW s, EhInv(s), NEW e \in Waiting(s.queue) \cup Taking(s.thread, s.output, s.event), e \in Events
    PROVE  s.refs[e] >= 1 /\ s.refs[e] \in 0..2
<1>1. Apart(s)
  BY EhApart
<1>2. ~Alone(s.sent, e)
  BY <1>1, AloneGone DEF Apart
<1>3. s.refs[e] >= Referring(s, e) /\ s.refs[e] \in 0..2
  <2>1. s.refs \in [Events -> 0..2]
    BY DEF EhInv, EhStates
  <2>2. s.refs[e] >= Referring(s, e)
    BY <1>2, Zenon DEF EhInv, Referred
  <2> QED BY <2>1, <2>2
<1>4. Referring(s, e) >= 1
  <2>1. \A X : One(X, e) \in {0, 1} /\ (e \in X => One(X, e) = 1)
    BY DEF One
  <2> HIDE DEF One
  <2> QED BY <2>1 DEF Referring
<1> QED BY <1>3, <1>4, ReferringNumber

----------------------------------------------------------------------------
(* Events come and their thread returns.                                    *)

\* A step between two phases of the server, or none, that leaves the thread alone.
Calm(s, m) ==
    /\ m.core = s.core /\ m.initialized = s.initialized /\ m.stopping = s.stopping /\ m.alive = s.alive
    /\ m.memory = s.memory /\ m.dropped = s.dropped /\ m.thread = s.thread /\ m.output = s.output
    /\ m.event = s.event /\ m.max = s.max /\ m.array = s.array /\ m.sent = s.sent

\* It keeps where the server and the thread are.
LEMMA CalmKeeps ==
    ASSUME NEW s, NEW m, EhInv(s), Calm(s, m),
           s.core \in {"off", "failed"} => m.entering = {},
           s.core \in {"freed", "down"} => m.queue = << >>
    PROVE  Phased(m) /\ Local(m)
<1>1. Phased(m)
  BY DEF EhInv, Phased, Calm
<1>2. Local(m)
  BY DEF EhInv, Local, Calm
<1> QED BY <1>1, <1>2

\* An event that was handed over is nowhere yet when it is not.
LEMMA Nowhere ==
    ASSUME NEW s, EhInv(s), NEW e \in Events \ s.handed
    PROVE  Referring(s, e) = 0 /\ e \notin Waiting(s.pushed) /\ e \notin s.holds
<1>1. e \notin Waiting(s.pushed) /\ e \notin s.holds
  BY DEF EhInv, Referred
<1>2. e \notin Waiting(s.queue) /\ e \notin Taking(s.thread, s.output, s.event) /\ e \notin s.ungrouped
  BY <1>1 DEF EhInv, Carried
<1>3. \A X : e \notin X => One(X, e) = 0
  BY DEF One
<1> HIDE DEF One
<1> QED BY <1>1, <1>2, <1>3 DEF Referring

\* An event is handed over.
LEMMA EhIncomingCheck ==
    ASSUME EhAssumption, EhInv(eh), NEW e \in Events, IncomingCheck(e)
    PROVE  EhInv(eh')
<1> DEFINE s == eh
           m == eh'
<1>0. s \in EhStates /\ e \notin s.handed
  BY DEF EhInv, IncomingCheck
<1>1. CASE ~Running
  <2>0. m = [s EXCEPT !.handed = @ \cup {e}]
    BY <1>1 DEF IncomingCheck
  <2>h. s.handed \cup {e} \in SUBSET Events
    BY <1>0 DEF EhStates
  <2>t. m \in EhStates
    BY <1>0, <2>0, <2>h, ZenonT(60) DEF EhStates
  <2>1. /\ Calm(s, m) /\ Still(s, m) /\ m.refs = s.refs /\ m.holds = s.holds /\ m.entering = s.entering
        /\ m.faults = s.faults /\ m.handed = s.handed \cup {e} /\ m.queue = s.queue
    BY <1>0, <2>0 DEF EhStates, Still, Calm
  <2>2. Phased(m) /\ Local(m)
    BY <2>1, CalmKeeps DEF EhInv, Phased
  <2>3. Carried(m)
    BY <2>1, StillCarried DEF EhInv
  <2>4. \A x \in Events : Referring(m, x) = Referring(s, x)
    BY <2>1, StillTaking DEF Referring, Still
  <2>5. Referred(m)
    <3>1. Entered(s, m)
      BY <2>1 DEF EhInv, Referred, Entered, Still
    <3>2. ASSUME NEW x \in Events PROVE Balanced(s, m, x)
      <4>1. m.refs[x] = s.refs[x] /\ s.refs[x] \in Int /\ Referring(s, x) \in Nat
        BY <1>0, <2>1, ReferringNumber DEF EhStates
      <4>2. m.refs[x] = s.refs[x] + Referring(m, x) - Referring(s, x)
        BY <2>4, <4>1
      <4> QED BY <4>2 DEF Balanced
    <3> QED BY <2>t, <3>1, <3>2, Balance
  <2>6. Caused(m)
    BY <2>1 DEF EhInv, Caused, Calm
  <2> QED BY <2>t, <2>2, <2>3, <2>5, <2>6 DEF EhInv
<1>2. CASE Running
  <2> DEFINE k == [s.refs EXCEPT ![e] = 1]
  <2>0. m = [s EXCEPT !.handed = @ \cup {e}, !.entering = @ \cup {e}, !.holds = @ \cup {e}, !.refs = k]
    BY <1>0, <1>2 DEF IncomingCheck, EhStates
  <2>k. k \in [Events -> 0..2] /\ k[e] = 1 /\ \A x \in Events \ {e} : k[x] = s.refs[x]
    BY <1>0 DEF EhStates
  <2> HIDE DEF k
  <2>t. m \in EhStates
    <3>1. /\ s.handed \cup {e} \in SUBSET Events /\ s.entering \cup {e} \in SUBSET Events
          /\ s.holds \cup {e} \in SUBSET Events
      BY <1>0 DEF EhStates
    <3> QED BY <1>0, <2>0, <2>k, <3>1, ZenonT(60) DEF EhStates
  <2>1. /\ Calm(s, m) /\ Still(s, m) /\ m.refs = k /\ m.holds = s.holds \cup {e}
        /\ m.entering = s.entering \cup {e} /\ m.queue = s.queue
        /\ m.faults = s.faults /\ m.handed = s.handed \cup {e}
    BY <1>0, <2>0 DEF EhStates, Still, Calm
  <2>c. s.core = "up"
    BY <1>2 DEF EhInv, Phased, Running
  <2>2. Phased(m) /\ Local(m)
    BY <2>1, <2>c, CalmKeeps
  <2>3. Carried(m)
    BY <2>1, StillCarried DEF EhInv
  <2>4. Referring(s, e) = 0 /\ e \notin Waiting(s.pushed) /\ e \notin s.holds
    BY <1>0, Nowhere
  <2>5. Taking(m.thread, m.output, m.event) = Taking(s.thread, s.output, s.event)
    BY <2>1, StillTaking
  <2>6. \A x \in Events \ {e} : Referring(m, x) = Referring(s, x)
    <3>1. \A x \in Events \ {e} : One(m.holds, x) = One(s.holds, x)
      BY <2>1 DEF One
    <3> HIDE DEF One
    <3> QED BY <2>1, <2>5, <3>1 DEF Referring, Still
  <2>7. Referring(m, e) = 1
    <3>1. One(m.holds, e) = 1 /\ One(s.holds, e) = 0 /\ \A X : One(X, e) \in Nat
      BY <2>1, <2>4 DEF One
    <3> HIDE DEF One
    <3> DEFINE y == One(Waiting(s.queue), e) + One(Taking(s.thread, s.output, s.event), e) + One(s.ungrouped, e)
    <3>2. Referring(s, e) = 0 + y /\ Referring(m, e) = 1 + y /\ y \in Nat
      BY <2>1, <2>5, <3>1 DEF Referring, Still
    <3> HIDE DEF y
    <3> QED BY <2>4, <3>2
  <2>8. Referred(m)
    <3>1. Entered(s, m)
      <4>1. \A x \in m.entering : m.refs[x] = 1
        BY <1>0, <2>1, <2>k DEF EhInv, Referred, EhStates
      <4>2. /\ s.entering \subseteq s.holds /\ s.holds \subseteq s.handed
            /\ Waiting(s.pushed) \subseteq s.handed \ s.entering /\ m.pushed = s.pushed /\ m.sent = s.sent
        BY <2>1 DEF EhInv, Referred, Still
      <4> QED BY <2>1, <2>4, <4>1, <4>2 DEF Entered
    <3>2. ASSUME NEW x \in Events PROVE Balanced(s, m, x)
      <4>1. CASE x = e
        BY <2>1, <2>k, <2>7, <4>1 DEF Balanced
      <4>2. CASE x # e
        <5>1. m.refs[x] = s.refs[x] /\ s.refs[x] \in Int /\ Referring(s, x) \in Nat
          BY <1>0, <2>1, <2>k, <4>2, ReferringNumber DEF EhStates
        <5>2. m.refs[x] = s.refs[x] + Referring(m, x) - Referring(s, x)
          BY <2>6, <4>2, <5>1
        <5> QED BY <5>2 DEF Balanced
      <4> QED BY <4>1, <4>2
    <3> QED BY <2>t, <3>1, <3>2, Balance
  <2>9. Caused(m)
    BY <2>1 DEF EhInv, Caused, Calm
  <2> QED BY <2>t, <2>2, <2>3, <2>8, <2>9 DEF EhInv
<1> QED BY <1>1, <1>2

\* All of a set came before both of two.
LEMMA BeforeBoth ==
    ASSUME NEW p, NEW X, NEW Y, NEW Z, AllBefore(p, X, Y), AllBefore(p, X, Z)
    PROVE  AllBefore(p, X, Y \cup Z)
BY DEF AllBefore

\* All of both of two sets came before a third.
LEMMA BothBefore ==
    ASSUME NEW p, NEW X, NEW Y, NEW Z, AllBefore(p, X, Z), AllBefore(p, Y, Z)
    PROVE  AllBefore(p, X \cup Y, Z)
BY DEF AllBefore

\* Parts of sets.
LEMMA BeforeParts ==
    ASSUME NEW p, NEW X, NEW Y, AllBefore(p, X, Y), NEW A \in SUBSET X, NEW B \in SUBSET Y
    PROVE  AllBefore(p, A, B)
BY DEF AllBefore

\* A new event comes to the end of the queue.
Pushes(s, m, e) ==
    /\ m.pushed = Append(s.pushed, e) /\ m.queue = Append(s.queue, e) /\ m.sent = s.sent
    /\ m.ungrouped = s.ungrouped /\ m.dropped = s.dropped /\ m.thread = s.thread
    /\ m.output = s.output /\ m.event = s.event

\* It comes in order.
LEMMA PushesCarried ==
    ASSUME NEW s, NEW m, EhInv(s), NEW e \in Events, e \notin Waiting(s.pushed), Pushes(s, m, e)
    PROVE  Carried(m)
<1> DEFINE p == s.pushed
           q == s.queue
           T == Taking(s.thread, s.output, s.event)
           R == Gone(s.sent) \cup s.ungrouped
           a == Append(p, e)
           b == Append(q, e)
<1>0. p \in Seq(Events) /\ q \in Seq(Events \cup {"exit"})
  BY DEF EhInv, EhStates
<1>1. /\ \A i, j \in DOMAIN p : p[i] = p[j] => i = j
      /\ Waiting(p) = Waiting(q) \cup T \cup Gone(s.sent) \cup s.ungrouped \cup s.dropped
      /\ InOrder(p, q) /\ InOrder(p, s.output)
      /\ s.thread = "took" => AllBefore(p, Waiting(s.output), {s.event})
      /\ AllBefore(p, T, Waiting(q)) /\ AllBefore(p, R, T \cup Waiting(q))
      /\ \A i \in DOMAIN s.sent : InOrder(p, s.sent[i])
      /\ \A i, j \in DOMAIN s.sent : i < j => AllBefore(p, Waiting(s.sent[i]), Waiting(s.sent[j]))
      /\ Gone(s.sent) \cap s.ungrouped = {} /\ s.dropped \cap R = {}
  BY DEF EhInv, Carried
<1>2. Waiting(a) = Waiting(p) \cup {e} /\ Waiting(b) = Waiting(q) \cup {e}
  BY <1>0, WaitingAppend
<1>3. /\ \A x : InOrder(p, x) => InOrder(a, x)
      /\ \A X, Y : AllBefore(p, X, Y) => AllBefore(a, X, Y)
      /\ \A X : X \subseteq Waiting(p) => AllBefore(a, X, {e})
  BY <1>0, OrderGrows
<1>4. \A i, j \in DOMAIN a : a[i] = a[j] => i = j
  <2>1. /\ DOMAIN a = DOMAIN p \cup {Len(p) + 1} /\ a[Len(p) + 1] = e
        /\ \A i \in DOMAIN p : a[i] = p[i]
    BY <1>0
  <2>2. \A i \in DOMAIN p : p[i] # e
    BY DEF Waiting
  <2> HIDE DEF a, p
  <2> QED BY <1>1, <2>1, <2>2
<1> HIDE DEF p, q, a, b, T, R
<1>5. InOrder(a, b)
  <2>1. AllBefore(a, Waiting(q), {e} \cap Events) /\ InOrder(a, q)
    <3>1. {e} \cap Events = {e} /\ Waiting(q) \subseteq Waiting(p)
      BY <1>1
    <3> QED BY <1>1, <1>3, <3>1
  <2> QED BY <1>0, <2>1, OrderAppend DEF b
<1>6. AllBefore(a, T, Waiting(b))
  <2>1. AllBefore(a, T, Waiting(q)) /\ AllBefore(a, T, {e})
    BY <1>1, <1>3
  <2> QED BY <1>2, <2>1, BeforeBoth
<1>7. AllBefore(a, R, T \cup Waiting(b))
  <2>1. AllBefore(a, R, T \cup Waiting(q)) /\ AllBefore(a, R, {e})
    BY <1>1, <1>3 DEF R
  <2>2. T \cup Waiting(b) = (T \cup Waiting(q)) \cup {e}
    BY <1>2
  <2> QED BY <2>1, <2>2, BeforeBoth
<1>8. /\ m.pushed = a /\ m.queue = b /\ m.sent = s.sent /\ m.ungrouped = s.ungrouped /\ m.dropped = s.dropped
      /\ m.thread = s.thread /\ m.output = s.output /\ m.event = s.event
      /\ Taking(m.thread, m.output, m.event) = T /\ Gone(m.sent) \cup m.ungrouped = R
  BY DEF Pushes, a, b, p, q, T, R
<1>9. Waiting(a) = Waiting(b) \cup T \cup Gone(m.sent) \cup m.ungrouped \cup m.dropped
  BY <1>1, <1>2, <1>8
<1>10. InOrder(a, m.output) /\ (m.thread = "took" => AllBefore(a, Waiting(m.output), {m.event}))
  BY <1>1, <1>3, <1>8
<1>11. /\ \A i \in DOMAIN m.sent : InOrder(a, m.sent[i])
       /\ \A i, j \in DOMAIN m.sent : i < j => AllBefore(a, Waiting(m.sent[i]), Waiting(m.sent[j]))
  BY <1>1, <1>3, <1>8
<1>12. Gone(m.sent) \cap m.ungrouped = {} /\ m.dropped \cap (Gone(m.sent) \cup m.ungrouped) = {}
  BY <1>1, <1>8
<1> QED BY <1>4, <1>5, <1>6, <1>7, <1>8, <1>9, <1>10, <1>11, <1>12 DEF Carried

\* janus_sampleevh_incoming_event, when the queue is there and when it is gone.
LEMMA EhIncoming ==
    ASSUME EhAssumption, EhInv(eh), NEW e \in Events, janus_sampleevh_incoming_event(e)
    PROVE  EhInv(eh')
<1> DEFINE s == eh
           m == eh'
           k == [s.refs EXCEPT ![e] = 2]
<1>0. s \in EhStates /\ e \in s.entering
  BY DEF EhInv, janus_sampleevh_incoming_event
<1>a. Apart(s)
  BY EhApart
<1>r. s.refs[e] = 1 /\ e \in s.holds /\ e \notin Waiting(s.pushed)
  BY <1>0 DEF EhInv, Referred
<1>k. k \in [Events -> 0..2] /\ k[e] = 2 /\ \A x \in Events \ {e} : k[x] = s.refs[x]
  BY <1>0 DEF EhStates
<1>b. [s EXCEPT !.entering = @ \ {e}, !.refs[e] = @ + 1] = [s EXCEPT !.entering = s.entering \ {e}, !.refs = k]
  BY <1>0, <1>r DEF EhStates
<1>c. s.core \notin {"off", "failed"} /\ (~s.alive => s.core \in {"freed", "down"})
      /\ (s.core \in {"freed", "down"} => ~s.alive)
  BY <1>0 DEF EhInv, Phased, EhStates
<1>i. s.entering \ {e} \in SUBSET Events
  BY <1>0 DEF EhStates
<1>e. \A x \in s.entering \ {e} : k[x] = 1
  <2>1. s.entering \subseteq Events /\ \A x \in s.entering : s.refs[x] = 1
    BY <1>0 DEF EhInv, Referred, EhStates
  <2> QED BY <1>k, <2>1
<1> HIDE DEF k
<1>1. CASE s.alive
  <2>0. m = [s EXCEPT !.entering = s.entering \ {e}, !.refs = k, !.queue = Append(s.queue, e),
                      !.pushed = Append(s.pushed, e)]
    <3> DEFINE a == [s EXCEPT !.entering = s.entering \ {e}, !.refs = k]
    <3>1. m = [a EXCEPT !.queue = Append(@, e), !.pushed = Append(@, e)]
      BY <1>b, <1>1 DEF janus_sampleevh_incoming_event
    <3> QED BY <1>0, <3>1 DEF EhStates
  <2>q. Append(s.queue, e) \in Seq(Events \cup {"exit"}) /\ Append(s.pushed, e) \in Seq(Events)
    BY <1>0 DEF EhStates
  <2>t. m \in EhStates
    BY <1>0, <1>k, <1>i, <2>0, <2>q, ZenonT(60) DEF EhStates
  <2>1. /\ Calm(s, m) /\ Pushes(s, m, e) /\ m.refs = k /\ m.holds = s.holds
        /\ m.entering = s.entering \ {e} /\ m.faults = s.faults /\ m.handed = s.handed
    BY <1>0, <2>0 DEF EhStates, Calm, Pushes
  <2>2. Phased(m) /\ Local(m)
    BY <1>1, <1>c, <2>1, CalmKeeps
  <2>3. Carried(m)
    BY <1>r, <2>1, PushesCarried
  <2>4. Waiting(m.queue) = Waiting(s.queue) \cup {e} /\ Waiting(m.pushed) = Waiting(s.pushed) \cup {e}
    <3>1. s.queue \in Seq(Events \cup {"exit"}) /\ s.pushed \in Seq(Events) /\ {e} \cap Events = {e}
      BY <1>0 DEF EhStates
    <3> QED BY <2>1, <3>1, WaitingAppend DEF Pushes
  <2>5. /\ m.holds = s.holds /\ m.ungrouped = s.ungrouped
        /\ Taking(m.thread, m.output, m.event) = Taking(s.thread, s.output, s.event)
    BY <2>1 DEF Pushes
  <2>6. \A x \in Events : Referring(m, x) = Referring(s, x) + (IF x = e THEN 1 ELSE 0)
    <3>1. e \notin Waiting(s.queue)
      BY <1>0, <1>a DEF Apart
    <3>2. \A x \in Events : One(Waiting(m.queue), x) = One(Waiting(s.queue), x) + (IF x = e THEN 1 ELSE 0)
      BY <2>4, <3>1 DEF One
    <3>3. \A X, x : One(X, x) \in Nat
      BY DEF One
    <3> HIDE DEF One
    <3> QED BY <2>5, <3>2, <3>3 DEF Referring
  <2>7. Referred(m)
    <3>1. Entered(s, m)
      <4>1. /\ s.entering \subseteq s.holds /\ s.holds \subseteq s.handed /\ e \in s.handed
            /\ Waiting(s.pushed) \subseteq s.handed \ s.entering /\ m.sent = s.sent
        BY <1>r, <2>1 DEF EhInv, Referred, Pushes
      <4> QED BY <1>e, <2>1, <2>4, <4>1 DEF Entered
    <3>2. ASSUME NEW x \in Events PROVE Balanced(s, m, x)
      <4>1. m.refs[x] = s.refs[x] + (IF x = e THEN 1 ELSE 0) /\ s.refs[x] \in Int /\ Referring(s, x) \in Nat
        BY <1>0, <1>k, <1>r, <2>1, ReferringNumber DEF EhStates
      <4>2. m.refs[x] = s.refs[x] + Referring(m, x) - Referring(s, x)
        BY <2>6, <4>1
      <4> QED BY <4>2 DEF Balanced
    <3> QED BY <2>t, <3>1, <3>2, Balance
  <2>8. Caused(m)
    BY <2>1 DEF EhInv, Caused, Calm
  <2> QED BY <2>t, <2>2, <2>3, <2>7, <2>8 DEF EhInv
<1>2. CASE ~s.alive
  <2>0. m = [s EXCEPT !.entering = s.entering \ {e}, !.refs = k, !.faults = s.faults \cup {"queue_freed"}]
    <3> DEFINE a == [s EXCEPT !.entering = s.entering \ {e}, !.refs = k]
    <3>1. m = [a EXCEPT !.faults = @ \cup {"queue_freed"}]
      BY <1>b, <1>2 DEF janus_sampleevh_incoming_event, Fault
    <3> QED BY <1>0, <3>1 DEF EhStates
  <2>t. m \in EhStates
    BY <1>0, <1>k, <1>i, <2>0, ZenonT(60) DEF EhStates
  <2>1. /\ Calm(s, m) /\ Still(s, m) /\ m.refs = k /\ m.holds = s.holds /\ m.queue = s.queue
        /\ m.entering = s.entering \ {e} /\ m.faults = s.faults \cup {"queue_freed"} /\ m.handed = s.handed
    BY <1>0, <2>0 DEF EhStates, Calm, Still
  <2>2. Phased(m) /\ Local(m)
    BY <1>c, <2>1, CalmKeeps DEF EhInv, Phased
  <2>3. Carried(m)
    BY <2>1, StillCarried DEF EhInv
  <2>4. \A x \in Events : Referring(m, x) = Referring(s, x)
    BY <2>1, StillTaking DEF Referring, Still
  <2>5. Referred(m)
    <3>1. Entered(s, m)
      <4>1. /\ s.entering \subseteq s.holds /\ s.holds \subseteq s.handed /\ m.pushed = s.pushed
            /\ Waiting(s.pushed) \subseteq s.handed \ s.entering /\ m.sent = s.sent
        BY <2>1 DEF EhInv, Referred, Still
      <4> QED BY <1>e, <2>1, <4>1 DEF Entered
    <3>2. ASSUME NEW x \in Events PROVE Balanced(s, m, x)
      <4>1. m.refs[x] >= s.refs[x] /\ s.refs[x] \in Int /\ m.refs[x] \in Int /\ Referring(s, x) \in Nat
        BY <1>0, <1>k, <1>r, <2>1, ReferringNumber DEF EhStates
      <4>2. m.refs[x] >= s.refs[x] + Referring(m, x) - Referring(s, x)
        BY <2>4, <4>1
      <4>3. m.faults \cap {"event_freed", "queue_freed"} # {}
        BY <2>1
      <4> QED BY <4>2, <4>3 DEF Balanced
    <3> QED BY <2>t, <3>1, <3>2, Balance
  <2>6. Caused(m)
    BY <1>2, <1>c, <2>1 DEF EhInv, Caused, Calm
  <2> QED BY <2>t, <2>2, <2>3, <2>5, <2>6 DEF EhInv
<1> QED BY <1>1, <1>2

\* The references of e after one was dropped, and the faults.
Fewer(refs, e) == [refs EXCEPT ![e] = IF refs[e] = 0 THEN 0 ELSE refs[e] - 1]
Freed(faults, refs, e) == IF refs[e] = 0 THEN faults \cup {"event_freed"} ELSE faults

\* Two ways to write the same step.
LEMMA SameRefs ==
    ASSUME NEW s \in EhStates, NEW f
    PROVE  /\ [s EXCEPT !.faults = f] = [s EXCEPT !.refs = s.refs, !.faults = f]
           /\ [s EXCEPT !.refs = f] = [s EXCEPT !.refs = f, !.faults = s.faults]
BY DEF EhStates

\* json_decref.
LEMMA Unreferenced ==
    ASSUME NEW s \in EhStates, NEW e \in Events
    PROVE  /\ Unref(s, e) = [s EXCEPT !.refs = Fewer(s.refs, e), !.faults = Freed(s.faults, s.refs, e)]
           /\ Fewer(s.refs, e) \in [Events -> 0..2]
           /\ \A x \in Events \ {e} : Fewer(s.refs, e)[x] = s.refs[x]
           /\ Fewer(s.refs, e)[e] = IF s.refs[e] = 0 THEN 0 ELSE s.refs[e] - 1
           /\ Freed(s.faults, s.refs, e) \in SUBSET {"event_freed", "array_freed", "queue_freed", "backend_freed"}
           /\ s.refs[e] \in 0..2
<1>0. /\ s.refs \in [Events -> 0..2]
      /\ s.faults \in SUBSET {"event_freed", "array_freed", "queue_freed", "backend_freed"}
  BY DEF EhStates
<1>1. s.refs[e] \in 0..2
  BY <1>0
<1>2. /\ Fewer(s.refs, e) \in [Events -> 0..2]
      /\ \A x \in Events \ {e} : Fewer(s.refs, e)[x] = s.refs[x]
      /\ Fewer(s.refs, e)[e] = IF s.refs[e] = 0 THEN 0 ELSE s.refs[e] - 1
  BY <1>0, <1>1 DEF Fewer
<1>3. Freed(s.faults, s.refs, e) \in SUBSET {"event_freed", "array_freed", "queue_freed", "backend_freed"}
  BY <1>0 DEF Freed
<1>4. Unref(s, e) = [s EXCEPT !.refs = Fewer(s.refs, e), !.faults = Freed(s.faults, s.refs, e)]
  <2>1. CASE s.refs[e] = 0
    <3>1. Fewer(s.refs, e) = s.refs /\ Freed(s.faults, s.refs, e) = s.faults \cup {"event_freed"}
      BY <1>0, <2>1 DEF Fewer, Freed
    <3>2. Unref(s, e) = [s EXCEPT !.faults = s.faults \cup {"event_freed"}]
      BY <2>1 DEF Unref, Fault
    <3> DEFINE f == s.faults \cup {"event_freed"}
    <3> HIDE DEF f
    <3>3. [s EXCEPT !.faults = f] = [s EXCEPT !.refs = s.refs, !.faults = f]
      BY SameRefs
    <3> QED BY <3>1, <3>2, <3>3, Zenon DEF f
  <2>2. CASE s.refs[e] # 0
    <3>1. Fewer(s.refs, e) = [s.refs EXCEPT ![e] = s.refs[e] - 1] /\ Freed(s.faults, s.refs, e) = s.faults
      BY <1>0, <2>2 DEF Fewer, Freed
    <3>2. Unref(s, e) = [s EXCEPT !.refs = [s.refs EXCEPT ![e] = s.refs[e] - 1]]
      BY <2>2 DEF Unref
    <3> DEFINE f == [s.refs EXCEPT ![e] = s.refs[e] - 1]
    <3> HIDE DEF f
    <3>3. [s EXCEPT !.refs = f] = [s EXCEPT !.refs = f, !.faults = s.faults]
      BY SameRefs
    <3> QED BY <3>1, <3>2, <3>3, Zenon DEF f
  <2> QED BY <2>1, <2>2, SMTT(60)
<1> QED BY <1>1, <1>2, <1>3, <1>4

\* The event thread drops its reference.
LEMMA EhReturned ==
    ASSUME EhAssumption, EhInv(eh), NEW e \in Events, Returned(e)
    PROVE  EhInv(eh')
<1> DEFINE s == eh
           m == eh'
           k == Fewer(s.refs, e)
           f == Freed(s.faults, s.refs, e)
<1>0. s \in EhStates /\ e \in s.holds /\ e \notin s.entering
  BY DEF EhInv, Returned
<1>1. /\ k \in [Events -> 0..2] /\ \A x \in Events \ {e} : k[x] = s.refs[x]
      /\ k[e] = IF s.refs[e] = 0 THEN 0 ELSE s.refs[e] - 1
      /\ f \in SUBSET {"event_freed", "array_freed", "queue_freed", "backend_freed"} /\ s.refs[e] \in 0..2
  BY <1>0, Unreferenced
<1>2. m = [s EXCEPT !.holds = s.holds \ {e}, !.refs = k, !.faults = f]
  <2> DEFINE a == [s EXCEPT !.holds = @ \ {e}]
  <2>1. a \in EhStates /\ a.refs = s.refs /\ a.faults = s.faults
    BY <1>0 DEF EhStates
  <2>2. m = Unref(a, e)
    BY DEF Returned
  <2> HIDE DEF a, k, f
  <2>3. m = [a EXCEPT !.refs = k, !.faults = f]
    <3>1. Unref(a, e) = [a EXCEPT !.refs = Fewer(a.refs, e), !.faults = Freed(a.faults, a.refs, e)]
      BY <2>1, Unreferenced
    <3> QED BY <2>1, <2>2, <3>1 DEF k, f
  <2> QED BY <1>0, <2>3 DEF a, EhStates
<1>3. f = IF s.refs[e] = 0 THEN s.faults \cup {"event_freed"} ELSE s.faults
  BY DEF Freed
<1> HIDE DEF k, f
<1>t. m \in EhStates
  <2>1. s.holds \ {e} \in SUBSET Events
    BY <1>0 DEF EhStates
  <2> QED BY <1>0, <1>1, <1>2, <2>1, ZenonT(60) DEF EhStates
<1>4. /\ Calm(s, m) /\ Still(s, m) /\ m.refs = k /\ m.holds = s.holds \ {e} /\ m.queue = s.queue
      /\ m.entering = s.entering /\ m.faults = f /\ m.handed = s.handed
  BY <1>0, <1>2 DEF EhStates, Calm, Still
<1>5. Phased(m) /\ Local(m)
  BY <1>4, CalmKeeps DEF EhInv, Phased
<1>6. Carried(m)
  BY <1>4, StillCarried DEF EhInv
<1>7. \A x \in Events : Referring(m, x) = Referring(s, x) - (IF x = e THEN 1 ELSE 0)
  <2>1. \A x \in Events : One(m.holds, x) = One(s.holds, x) - (IF x = e THEN 1 ELSE 0)
    BY <1>0, <1>4 DEF One
  <2>2. \A X, x : One(X, x) \in Nat
    BY DEF One
  <2>3. Taking(m.thread, m.output, m.event) = Taking(s.thread, s.output, s.event)
    BY <1>4, StillTaking
  <2>4. m.queue = s.queue /\ m.ungrouped = s.ungrouped
    BY <1>4 DEF Still
  <2> HIDE DEF One
  <2> TAKE x \in Events
  <2> DEFINE u == One(Waiting(s.queue), x)
             v == One(Taking(s.thread, s.output, s.event), x)
             w == One(s.ungrouped, x)
             y == One(s.holds, x)
             z == One(m.holds, x)
  <2>5. Referring(s, x) = y + u + v + w /\ Referring(m, x) = z + u + v + w
    BY <2>3, <2>4 DEF Referring
  <2>6. /\ u \in Nat /\ v \in Nat /\ w \in Nat /\ y \in Nat /\ z \in Nat
        /\ z = y - (IF x = e THEN 1 ELSE 0)
    BY <2>1, <2>2
  <2> HIDE DEF u, v, w, y, z
  <2> QED BY <2>5, <2>6
<1>8. s.refs[e] = 0 => Alone(s.sent, e)
  <2>1. Referring(s, e) >= 1
    <3>1. Referring(m, e) = Referring(s, e) - 1 /\ Referring(m, e) \in Nat /\ Referring(s, e) \in Nat
      BY <1>7, ReferringNumber
    <3> QED BY <3>1
  <2>2. Alone(s.sent, e) \/ s.refs[e] >= Referring(s, e)
    BY Zenon DEF EhInv, Referred
  <2> QED BY <2>1, <2>2, ReferringNumber
<1>9. Referred(m)
  <2>1. Entered(s, m)
    <3>1. /\ s.entering \subseteq s.holds /\ s.holds \subseteq s.handed /\ m.pushed = s.pushed
          /\ Waiting(s.pushed) \subseteq s.handed \ s.entering /\ m.sent = s.sent
          /\ \A x \in s.entering : s.refs[x] = 1 /\ x \in Events
      BY <1>0, <1>4 DEF EhInv, Referred, Still, EhStates
    <3>2. \A x \in s.entering : k[x] = 1
      BY <1>0, <1>1, <3>1
    <3> QED BY <1>0, <1>3, <1>4, <3>1, <3>2 DEF Entered
  <2>2. ASSUME NEW x \in Events PROVE Balanced(s, m, x)
    <3>1. CASE x = e /\ s.refs[e] = 0
      BY <1>4, <1>8, <3>1 DEF Balanced, Still
    <3>2. CASE ~(x = e /\ s.refs[e] = 0)
      <4>1. m.refs[x] = s.refs[x] - (IF x = e THEN 1 ELSE 0) /\ s.refs[x] \in Int /\ Referring(s, x) \in Nat
        BY <1>0, <1>1, <1>4, <3>2, ReferringNumber DEF EhStates
      <4>2. m.refs[x] = s.refs[x] + Referring(m, x) - Referring(s, x)
        BY <1>7, <4>1
      <4> QED BY <4>2 DEF Balanced
    <3> QED BY <3>1, <3>2
  <2> QED BY <1>t, <2>1, <2>2, Balance
<1>10. Caused(m)
  <2>1. Alone(s.sent, e) => \E i \in DOMAIN s.sent : Len(s.sent[i]) = 1
    BY DEF Alone
  <2>2. m.sent = s.sent /\ m.core = s.core /\ m.faults = f
    BY <1>4 DEF Calm
  <2>3. CASE s.refs[e] = 0
    BY <1>3, <1>8, <2>1, <2>2, <2>3 DEF EhInv, Caused
  <2>4. CASE s.refs[e] # 0
    BY <1>3, <2>2, <2>4 DEF EhInv, Caused
  <2> QED BY <2>3, <2>4
<1> QED BY <1>t, <1>5, <1>6, <1>9, <1>10 DEF EhInv

\* output is unreferenced once more.
LEMMA EhUnref ==
    ASSUME EhAssumption, EhInv(eh), HandlerUnref
    PROVE  EhInv(eh')
<1> DEFINE s == eh
           m == eh'
           a == [s EXCEPT !.thread = "check", !.output = << >>, !.event = "NULL"]
<1>0. s \in EhStates /\ s.thread = "unref"
  BY DEF EhInv, HandlerUnref
<1>1. PICK i \in DOMAIN s.sent : s.sent[i] = s.output
  BY <1>0 DEF EhInv, Local
<1>n. << >> \in Seq(Events)
  OBVIOUS
<1>2. a \in EhStates /\ a.refs = s.refs /\ a.faults = s.faults
  BY <1>0, <1>n DEF EhStates
<1>3. /\ s.thread \notin {"took", "send"} /\ s.max # 0
      /\ \A j \in DOMAIN s.sent : Len(s.sent[j]) \in 1..s.max
  BY <1>0 DEF EhInv, Local
<1>4. ASSUME NEW k \in [Events -> 0..2],
             NEW f \in SUBSET {"event_freed", "array_freed", "queue_freed", "backend_freed"},
             m = [s EXCEPT !.thread = "check", !.output = << >>, !.event = "NULL", !.refs = k, !.faults = f]
      PROVE  /\ m \in EhStates /\ Still(s, m) /\ Phased(m) /\ Local(m) /\ Carried(m)
             /\ m.refs = k /\ m.faults = f /\ m.holds = s.holds /\ m.entering = s.entering
             /\ m.handed = s.handed /\ m.core = s.core
  <2>t. m \in EhStates
    BY <1>0, <1>n, <1>4, ZenonT(60) DEF EhStates
  <2>1. /\ m.thread = "check" /\ m.output = << >> /\ m.refs = k /\ m.faults = f /\ m.holds = s.holds
        /\ m.entering = s.entering /\ m.handed = s.handed /\ m.core = s.core /\ m.initialized = s.initialized
        /\ m.stopping = s.stopping /\ m.alive = s.alive /\ m.queue = s.queue /\ m.memory = s.memory
        /\ m.dropped = s.dropped /\ m.sent = s.sent /\ m.max = s.max /\ m.pushed = s.pushed
        /\ m.ungrouped = s.ungrouped
    BY <1>0, <1>4 DEF EhStates
  <2>2. Still(s, m)
    BY <1>0, <2>1 DEF Still
  <2>3. Phased(m)
    BY <1>0, <2>1 DEF EhInv, Phased
  <2>4. Local(m)
    BY <1>3, <2>1 DEF Local
  <2>5. Carried(m)
    BY <2>2, StillCarried DEF EhInv
  <2> QED BY <2>t, <2>1, <2>2, <2>3, <2>4, <2>5
<1>5. CASE s.array
  <2> DEFINE f == s.faults \cup {"array_freed"}
  <2>0. f \in SUBSET {"event_freed", "array_freed", "queue_freed", "backend_freed"} /\ s.refs \in [Events -> 0..2]
    BY <1>0 DEF EhStates
  <2>1. m = [s EXCEPT !.thread = "check", !.output = << >>, !.event = "NULL", !.refs = s.refs, !.faults = f]
    <3>1. m = [a EXCEPT !.faults = @ \cup {"array_freed"}]
      BY <1>5 DEF HandlerUnref, Fault
    <3> QED BY <1>0, <3>1 DEF EhStates
  <2> HIDE DEF f
  <2>2. /\ m \in EhStates /\ Still(s, m) /\ Phased(m) /\ Local(m) /\ Carried(m)
        /\ m.refs = s.refs /\ m.faults = f /\ m.holds = s.holds /\ m.entering = s.entering
        /\ m.handed = s.handed /\ m.core = s.core
    BY <1>4, <2>0, <2>1
  <2>3. Steady(s, m) /\ m.sent = s.sent
    BY <2>2 DEF Steady, Still, f
  <2>4. Referred(m)
    BY <2>2, <2>3, StillReferred DEF EhInv
  <2>5. Caused(m)
    <3>1. s.sent # << >>
      BY <1>1
    <3> QED BY <2>2, <2>3, <3>1 DEF EhInv, Caused, f
  <2> QED BY <2>2, <2>4, <2>5 DEF EhInv
<1>6. CASE ~s.array
  <2> DEFINE e == s.output[1]
             k == Fewer(s.refs, e)
             f == Freed(s.faults, s.refs, e)
  <2>0. e \in Events /\ s.output = <<e>>
    <3>1. s.output \in Seq(Events) /\ Len(s.output) = 1
      BY <1>0, <1>6 DEF EhInv, Local, EhStates
    <3> QED BY <3>1
  <2>1. Alone(s.sent, e)
    BY <1>1, <2>0 DEF Alone
  <2>2. m = Unref(a, e)
    BY <1>6 DEF HandlerUnref
  <2> HIDE DEF a, e
  <2>3. /\ m = [a EXCEPT !.refs = k, !.faults = f] /\ k \in [Events -> 0..2]
        /\ \A x \in Events \ {e} : k[x] = s.refs[x]
        /\ f \in SUBSET {"event_freed", "array_freed", "queue_freed", "backend_freed"}
    <3>1. /\ Unref(a, e) = [a EXCEPT !.refs = Fewer(a.refs, e), !.faults = Freed(a.faults, a.refs, e)]
          /\ Fewer(a.refs, e) \in [Events -> 0..2]
          /\ \A x \in Events \ {e} : Fewer(a.refs, e)[x] = a.refs[x]
          /\ Freed(a.faults, a.refs, e) \in SUBSET {"event_freed", "array_freed", "queue_freed", "backend_freed"}
      BY <1>2, <2>0, Unreferenced
    <3> QED BY <1>2, <2>2, <3>1
  <2>f. s.faults \subseteq f /\ f \subseteq s.faults \cup {"event_freed"}
    BY DEF Freed
  <2> HIDE DEF k, f
  <2>4. m = [s EXCEPT !.thread = "check", !.output = << >>, !.event = "NULL", !.refs = k, !.faults = f]
    BY <1>0, <2>3 DEF EhStates, a
  <2>5. /\ m \in EhStates /\ Still(s, m) /\ Phased(m) /\ Local(m) /\ Carried(m)
        /\ m.refs = k /\ m.faults = f /\ m.holds = s.holds /\ m.entering = s.entering
        /\ m.handed = s.handed /\ m.core = s.core
    BY <1>4, <2>3, <2>4
  <2>6. e \notin s.entering
    <3>1. Apart(s) /\ e \in Gone(s.sent)
      BY <2>0, <2>1, EhApart, AloneGone
    <3> QED BY <3>1 DEF Apart
  <2>7. \A x \in Events : Referring(m, x) = Referring(s, x)
    BY <2>5, StillTaking DEF Referring, Still
  <2>8. Referred(m)
    <3>1. Entered(s, m)
      <4>1. /\ s.entering \subseteq s.holds /\ s.holds \subseteq s.handed /\ m.pushed = s.pushed
            /\ Waiting(s.pushed) \subseteq s.handed \ s.entering /\ m.sent = s.sent
            /\ \A x \in s.entering : s.refs[x] = 1 /\ x \in Events
        BY <1>0, <2>5 DEF EhInv, Referred, Still, EhStates
      <4>2. \A x \in s.entering : k[x] = 1
        BY <2>3, <2>6, <4>1
      <4> QED BY <2>5, <2>f, <4>1, <4>2 DEF Entered
    <3>2. ASSUME NEW x \in Events PROVE Balanced(s, m, x)
      <4>1. CASE x = e
        BY <2>1, <2>5, <4>1 DEF Balanced, Still
      <4>2. CASE x # e
        <5>1. m.refs[x] = s.refs[x] /\ s.refs[x] \in Int /\ Referring(s, x) \in Nat
          BY <1>0, <2>3, <2>5, <4>2, ReferringNumber, SMTT(60) DEF EhStates
        <5>2. m.refs[x] = s.refs[x] + Referring(m, x) - Referring(s, x)
          BY <2>7, <5>1
        <5> QED BY <5>2 DEF Balanced
      <4> QED BY <4>1, <4>2
    <3> QED BY <2>5, <3>1, <3>2, Balance
  <2>9. Caused(m)
    <3>1. \E j \in DOMAIN s.sent : Len(s.sent[j]) = 1
      BY <2>1 DEF Alone
    <3>2. m.sent = s.sent
      BY <2>5 DEF Still
    <3> QED BY <2>f, <2>5, <3>1, <3>2 DEF EhInv, Caused
  <2> QED BY <2>5, <2>8, <2>9 DEF EhInv
<1> QED BY <1>5, <1>6

----------------------------------------------------------------------------
(* Events move.                                                             *)

\* The events somebody in the plugin refers to.
Kin(s) == Waiting(s.queue) \cup Taking(s.thread, s.output, s.event) \cup s.ungrouped

\* They are in one place each, so who refers to one can be counted over all.
LEMMA ReferringSum ==
    ASSUME NEW s \in EhStates, Carried(s), NEW x
    PROVE  Referring(s, x) = One(s.holds, x) + One(Kin(s), x)
<1> DEFINE T == Taking(s.thread, s.output, s.event)
           W == Waiting(s.queue)
           U == s.ungrouped
           P == s.pushed
<1>0. P \in Seq(Events) /\ \A i, j \in DOMAIN P : P[i] = P[j] => i = j
  BY DEF Carried, EhStates
<1>1. AllBefore(P, T, W) /\ AllBefore(P, U, T \cup W)
  <2>1. AllBefore(P, T, W) /\ AllBefore(P, Gone(s.sent) \cup U, T \cup W)
    BY DEF Carried
  <2> HIDE DEF P, T, W, U
  <2>2. AllBefore(P, U, T \cup W)
    BY <2>1, BeforeParts
  <2> QED BY <2>1, <2>2
<1> HIDE DEF P, T, W, U
<1>2. T \cap W = {}
  BY <1>0, <1>1, BeforeApart
<1>3. U \cap (T \cup W) = {}
  <2> DEFINE Y == T \cup W
  <2>1. AllBefore(P, U, Y)
    BY <1>1
  <2> HIDE DEF Y
  <2>2. U \cap Y = {}
    BY <1>0, <2>1, BeforeApart
  <2> QED BY <2>2 DEF Y
<1>4. One(W, x) + One(T, x) + One(U, x) = One(W \cup T \cup U, x)
  BY <1>2, <1>3 DEF One
<1>5. \A X : One(X, x) \in Nat
  BY DEF One
<1>6. Referring(s, x) = One(s.holds, x) + One(W, x) + One(T, x) + One(U, x) /\ Kin(s) = W \cup T \cup U
  BY DEF Referring, Kin, T, W, U
<1> HIDE DEF One
<1> QED BY <1>4, <1>5, <1>6

\* The thread moves events between the queue, its group and the forgotten ones.
Moves(s, m) ==
    /\ m.pushed = s.pushed /\ m.sent = s.sent /\ m.dropped = s.dropped /\ Kin(m) = Kin(s)
    /\ InOrder(s.pushed, m.queue) /\ InOrder(s.pushed, m.output)
    /\ m.thread = "took" => AllBefore(s.pushed, Waiting(m.output), {m.event})
    /\ AllBefore(s.pushed, Taking(m.thread, m.output, m.event), Waiting(m.queue))
    /\ AllBefore(s.pushed, Gone(s.sent) \cup m.ungrouped,
                 Taking(m.thread, m.output, m.event) \cup Waiting(m.queue))
    /\ m.ungrouped \cap (Gone(s.sent) \cup s.dropped) = {}

\* They stay in order.
LEMMA MovesCarried ==
    ASSUME NEW s, NEW m, Carried(s), Moves(s, m)
    PROVE  Carried(m)
<1>1. /\ \A i, j \in DOMAIN m.pushed : m.pushed[i] = m.pushed[j] => i = j
      /\ \A i \in DOMAIN m.sent : InOrder(m.pushed, m.sent[i])
      /\ \A i, j \in DOMAIN m.sent : i < j => AllBefore(m.pushed, Waiting(m.sent[i]), Waiting(m.sent[j]))
  BY DEF Carried, Moves
<1>2. Waiting(m.pushed) = Waiting(m.queue) \cup Taking(m.thread, m.output, m.event)
                            \cup Gone(m.sent) \cup m.ungrouped \cup m.dropped
  <2>1. Waiting(s.pushed) = Kin(s) \cup Gone(s.sent) \cup s.dropped
    BY DEF Carried, Kin
  <2>2. Waiting(m.pushed) = Kin(m) \cup Gone(m.sent) \cup m.dropped
    BY <2>1 DEF Moves
  <2> QED BY <2>2 DEF Kin
<1>3. Gone(m.sent) \cap m.ungrouped = {} /\ m.dropped \cap (Gone(m.sent) \cup m.ungrouped) = {}
  BY DEF Carried, Moves
<1> QED BY <1>1, <1>2, <1>3 DEF Carried, Moves

\* Events that move have the references they had.
LEMMA MovesReferred ==
    ASSUME NEW s, NEW m, EhInv(s), m \in EhStates, Moves(s, m), Steady(s, m)
    PROVE  Referred(m)
<1>1. Carried(m) /\ Carried(s) /\ s \in EhStates
  BY MovesCarried DEF EhInv
<1>2. \A x \in Events : Referring(m, x) = Referring(s, x)
  <2>1. m.holds = s.holds /\ Kin(m) = Kin(s)
    BY DEF Moves, Steady
  <2> QED BY <1>1, <2>1, ReferringSum
<1>3. Entered(s, m)
  BY DEF EhInv, Referred, Entered, Moves, Steady
<1>4. ASSUME NEW x \in Events PROVE Balanced(s, m, x)
  <2>1. m.refs[x] = s.refs[x] /\ s.refs[x] \in Int /\ Referring(s, x) \in Nat
    BY <1>1, ReferringNumber, SMTT(60) DEF EhStates, Steady
  <2>2. m.refs[x] = s.refs[x] + Referring(m, x) - Referring(s, x)
    BY <1>2, <2>1
  <2> QED BY <2>2 DEF Balanced
<1> QED BY <1>3, <1>4, Balance

\* The references after one to each of the events D was dropped.
Less(refs, D) == [e \in Events |-> refs[e] - One(D, e)]

\* json_decref of an array, and of a queue.
LEMMA UnreferencedAll ==
    ASSUME NEW s \in EhStates, NEW D \in SUBSET Events, \A e \in D : s.refs[e] >= 1
    PROVE  UnrefAll(s, D) = [s EXCEPT !.refs = Less(s.refs, D)] /\ Less(s.refs, D) \in [Events -> 0..2]
<1>0. s.refs \in [Events -> 0..2]
  BY DEF EhStates
<1>1. {e \in D : s.refs[e] = 0} = {}
  BY <1>0
<1>2. [e \in Events |-> IF e \in D \ {} THEN s.refs[e] - 1 ELSE s.refs[e]] = Less(s.refs, D)
  <2>1. \A e \in Events : (IF e \in D \ {} THEN s.refs[e] - 1 ELSE s.refs[e]) = s.refs[e] - One(D, e)
    BY <1>0 DEF One
  <2> QED BY <2>1 DEF Less
<1>3. Less(s.refs, D) \in [Events -> 0..2]
  <2>1. \A e \in Events : s.refs[e] - One(D, e) \in 0..2
    BY <1>0 DEF One
  <2> QED BY <2>1 DEF Less
<1>4. UnrefAll(s, D) = [s EXCEPT !.refs = Less(s.refs, D), !.faults = s.faults]
  <2>1. s.faults \cup {"event_freed" : e \in {}} = s.faults
    OBVIOUS
  <2> QED BY <1>1, <1>2, <2>1 DEF UnrefAll
<1> QED BY <1>3, <1>4, SameRefs

\* The events D leave the plugin, each with its reference.
Drops(s, m, D) ==
    /\ D \subseteq Waiting(s.queue) \cup Taking(s.thread, s.output, s.event)
    /\ Kin(m) = Kin(s) \ D /\ m.refs = Less(s.refs, D) /\ m.pushed = s.pushed /\ m.holds = s.holds
    /\ m.entering = s.entering /\ m.handed = s.handed /\ m.faults = s.faults
    /\ \A e \in Events : Alone(s.sent, e) => Alone(m.sent, e)

\* The others keep theirs.
LEMMA DropsReferred ==
    ASSUME NEW s, NEW m, EhInv(s), m \in EhStates, Carried(m), NEW D, Drops(s, m, D)
    PROVE  Referred(m)
<1>1. Carried(s) /\ s \in EhStates /\ Apart(s)
  BY EhApart DEF EhInv
<1>2. ASSUME NEW x \in Events PROVE Balanced(s, m, x)
  <2> DEFINE h == One(s.holds, x)
             a == One(Kin(s), x)
             b == One(Kin(m), x)
             d == One(D, x)
  <2>1. Referring(s, x) = h + a /\ Referring(m, x) = h + b
    BY <1>1, ReferringSum DEF Drops
  <2>2. h \in Nat /\ a \in Nat /\ b = a - d /\ d \in Nat
    <3>1. D \subseteq Kin(s) /\ Kin(m) = Kin(s) \ D
      BY DEF Drops, Kin
    <3> QED BY <3>1 DEF One
  <2>3. m.refs[x] = s.refs[x] - d /\ s.refs[x] \in Int
    BY <1>1 DEF Drops, Less, EhStates
  <2> HIDE DEF h, a, b, d
  <2>4. m.refs[x] = s.refs[x] + Referring(m, x) - Referring(s, x)
    BY <2>1, <2>2, <2>3
  <2> QED BY <2>4 DEF Balanced
<1>3. Entered(s, m)
  <2>1. /\ s.entering \subseteq s.holds /\ s.holds \subseteq s.handed
        /\ Waiting(s.pushed) \subseteq s.handed \ s.entering
        /\ \A x \in s.entering : s.refs[x] = 1 /\ x \in Events
    BY <1>1 DEF EhInv, Referred, EhStates
  <2>2. \A x \in s.entering : x \notin D
    BY <1>1 DEF Apart, Drops
  <2>3. \A x \in s.entering : m.refs[x] = 1
    BY <2>1, <2>2 DEF Drops, Less, One
  <2> QED BY <2>1, <2>3 DEF Entered, Drops
<1> QED BY <1>2, <1>3, Balance

----------------------------------------------------------------------------
(* The end of the server, and the thread.                                   *)

\* janus_sampleevh_destroy puts the mark at the end of the queue.
LEMMA EhDestroy ==
    ASSUME EhAssumption, EhInv(eh), janus_sampleevh_destroy
    PROVE  EhInv(eh')
<1> DEFINE s == eh
           m == eh'
           q == Append(s.queue, "exit")
<1>0. /\ s \in EhStates /\ s.core = "up" /\ s.queue \in Seq(Events \cup {"exit"})
      /\ m = [s EXCEPT !.core = "joining", !.stopping = TRUE, !.queue = q]
  BY DEF EhInv, EhStates, janus_sampleevh_destroy
<1>1. q \in Seq(Events \cup {"exit"})
  BY <1>0
<1>2. Waiting(q) = Waiting(s.queue)
  <2>1. {"exit"} \cap Events = {}
    BY DEF EhAssumption
  <2>2. Waiting(q) = Waiting(s.queue) \cup ({"exit"} \cap Events)
    BY <1>0, WaitingAppend
  <2> QED BY <2>1, <2>2
<1>3. InOrder(s.pushed, q)
  <2>1. InOrder(s.pushed, s.queue) /\ AllBefore(s.pushed, Waiting(s.queue), {"exit"} \cap Events)
    BY DEF EhInv, Carried, AllBefore, EhAssumption
  <2> QED BY <1>0, <2>1, OrderAppend
<1> HIDE DEF q
<1>t. m \in EhStates
  BY <1>0, <1>1, ZenonT(60) DEF EhStates
<1>4. /\ m.core = "joining" /\ m.stopping = TRUE /\ m.queue = q /\ m.pushed = s.pushed /\ m.sent = s.sent
      /\ m.dropped = s.dropped /\ m.thread = s.thread /\ m.output = s.output /\ m.event = s.event
      /\ m.ungrouped = s.ungrouped /\ m.initialized = s.initialized /\ m.alive = s.alive
      /\ m.memory = s.memory /\ m.max = s.max /\ m.array = s.array /\ m.entering = s.entering
      /\ m.faults = s.faults /\ Steady(s, m)
  BY <1>0 DEF EhStates, Steady
<1>5. Phased(m)
  BY <1>0, <1>4 DEF EhInv, Phased
<1>6. Local(m) /\ Caused(m)
  BY <1>0, <1>4 DEF EhInv, Local, Caused
<1>7. Moves(s, m)
  BY <1>2, <1>3, <1>4 DEF EhInv, Carried, Moves, Kin
<1>8. Carried(m) /\ Referred(m)
  BY <1>t, <1>4, <1>7, MovesCarried, MovesReferred DEF EhInv
<1> QED BY <1>t, <1>5, <1>6, <1>8 DEF EhInv

\* The queue and what is in it are freed.
LEMMA EhFree ==
    ASSUME EhAssumption, EhInv(eh), DestroyFree
    PROVE  EhInv(eh')
<1> DEFINE s == eh
           m == eh'
           D == Waiting(s.queue)
           k == Less(s.refs, D)
<1>0. s \in EhStates /\ s.core = "joining" /\ s.thread = "left" /\ s.queue \in Seq(Events \cup {"exit"})
  BY DEF EhInv, EhStates, DestroyFree
<1>1. ToSet(s.queue) \ {"exit"} = D /\ D \in SUBSET Events /\ \A e \in D : s.refs[e] >= 1
  <2>1. D \subseteq Events
    BY DEF Waiting
  <2> QED BY <1>0, <2>1, Elements, HasReference
<1>2. UnrefAll(s, D) = [s EXCEPT !.refs = k] /\ k \in [Events -> 0..2]
  BY <1>0, <1>1, UnreferencedAll
<1>3. s.dropped = {} /\ s.dropped \cup D = D
  BY <1>0 DEF EhInv, Phased
<1>a. Apart(s)
  BY EhApart
<1> HIDE DEF k, D
<1>4. m = [s EXCEPT !.refs = k, !.core = "freed", !.alive = FALSE, !.queue = << >>, !.memory = "freed",
                    !.dropped = D]
  <2> DEFINE a == [s EXCEPT !.refs = k]
  <2>1. m = [a EXCEPT !.core = "freed", !.alive = FALSE, !.queue = << >>, !.memory = "freed",
                      !.dropped = @ \cup D]
    BY <1>1, <1>2 DEF DestroyFree
  <2> QED BY <1>0, <1>3, <2>1 DEF EhStates
<1>n. << >> \in Seq(Events \cup {"exit"})
  OBVIOUS
<1>t. m \in EhStates
  <2>1. D \in SUBSET Events /\ k \in [Events -> 0..2]
    BY <1>1, <1>2
  <2> QED BY <1>0, <1>4, <1>n, <2>1, ZenonT(60) DEF EhStates
<1>5. /\ m.refs = k /\ m.core = "freed" /\ m.alive = FALSE /\ m.queue = << >> /\ m.memory = "freed"
      /\ m.dropped = D /\ m.pushed = s.pushed /\ m.sent = s.sent /\ m.thread = s.thread
      /\ m.output = s.output /\ m.event = s.event /\ m.ungrouped = s.ungrouped
      /\ m.initialized = s.initialized /\ m.stopping = s.stopping /\ m.max = s.max /\ m.array = s.array
      /\ m.entering = s.entering /\ m.holds = s.holds /\ m.handed = s.handed /\ m.faults = s.faults
  BY <1>0, <1>4 DEF EhStates
<1>6. Phased(m)
  BY <1>0, <1>5 DEF EhInv, Phased
<1>7. Local(m) /\ Caused(m)
  BY <1>0, <1>5 DEF EhInv, Local, Caused
<1>8. /\ Taking(s.thread, s.output, s.event) = {} /\ Taking(m.thread, m.output, m.event) = {}
      /\ Waiting(m.queue) = {} /\ D = Waiting(s.queue)
  BY <1>0, <1>5, WaitingEmpty DEF Taking, D
<1>9. Carried(m)
  <2>1. Waiting(s.pushed) = D \cup Gone(s.sent) \cup s.ungrouped
    BY <1>3, <1>8 DEF EhInv, Carried
  <2>2. Waiting(m.pushed) = Waiting(m.queue) \cup Taking(m.thread, m.output, m.event)
                              \cup Gone(m.sent) \cup m.ungrouped \cup m.dropped
    BY <1>5, <1>8, <2>1
  <2>3. InOrder(m.pushed, m.queue)
    BY <1>5, OrderEmpty
  <2>4. \A X : AllBefore(m.pushed, X, {}) /\ AllBefore(m.pushed, {}, X)
    BY DEF AllBefore
  <2>5. m.dropped \cap (Gone(m.sent) \cup m.ungrouped) = {} /\ Gone(m.sent) \cap m.ungrouped = {}
    BY <1>5, <1>8, <1>a DEF Apart, EhInv, Carried
  <2>6. /\ AllBefore(m.pushed, Taking(m.thread, m.output, m.event), Waiting(m.queue))
        /\ AllBefore(m.pushed, Gone(m.sent) \cup m.ungrouped,
                     Taking(m.thread, m.output, m.event) \cup Waiting(m.queue))
    BY <1>8, <2>4
  <2>7. m.thread # "took"
    BY <1>0, <1>5
  <2> QED BY <1>5, <2>2, <2>3, <2>5, <2>6, <2>7 DEF EhInv, Carried
<1>10. Referred(m)
  <2>1. Kin(m) = Kin(s) \ D
    BY <1>5, <1>8, <1>a DEF Kin, Apart
  <2>2. Drops(s, m, D)
    BY <1>5, <1>8, <2>1 DEF Drops, k
  <2> QED BY <1>t, <1>9, <2>2, DropsReferred
<1> QED BY <1>t, <1>6, <1>7, <1>9, <1>10 DEF EhInv

\* The head of the queue, and the rest.
LEMMA Head1 ==
    ASSUME EhAssumption, NEW s, EhInv(s), s.queue # << >>
    PROVE  LET h == s.queue[1]
           IN  /\ h \in Events \cup {"exit"} /\ Tail(s.queue) \in Seq(Events \cup {"exit"})
               /\ InOrder(s.pushed, Tail(s.queue))
               /\ h = "exit" => Waiting(Tail(s.queue)) = Waiting(s.queue)
               /\ h # "exit" => /\ Waiting(s.queue) = Waiting(Tail(s.queue)) \cup {h}
                                /\ AllBefore(s.pushed, {h}, Waiting(Tail(s.queue)))
<1> DEFINE h == s.queue[1]
           q == Tail(s.queue)
<1>0. s.queue \in Seq(Events \cup {"exit"}) /\ InOrder(s.pushed, s.queue)
  BY DEF EhInv, EhStates, Carried
<1>1. h \in Events \cup {"exit"} /\ q \in Seq(Events \cup {"exit"})
  BY <1>0
<1>2. Waiting(s.queue) = Waiting(q) \cup ({h} \cap Events)
  BY <1>0, WaitingTail
<1>3. InOrder(s.pushed, q) /\ AllBefore(s.pushed, {h} \cap Events, Waiting(q))
  BY <1>0, OrderTail
<1> HIDE DEF h, q
<1>4. h = "exit" => {h} \cap Events = {}
  BY DEF EhAssumption
<1>5. h # "exit" => {h} \cap Events = {h}
  BY <1>1
<1>6. /\ h = "exit" => Waiting(q) = Waiting(s.queue)
      /\ h # "exit" => Waiting(s.queue) = Waiting(q) \cup {h} /\ AllBefore(s.pushed, {h}, Waiting(q))
  BY <1>2, <1>3, <1>4, <1>5
<1> QED BY <1>1, <1>3, <1>6 DEF h, q

\* The thread takes the head of the queue.
LEMMA EhPop ==
    ASSUME EhAssumption, EhInv(eh), HandlerPop
    PROVE  EhInv(eh')
<1> DEFINE s == eh
           m == eh'
           h == s.queue[1]
           q == Tail(s.queue)
<1>0. s \in EhStates /\ s.thread = "pop" /\ s.queue # << >> /\ s.output = << >> /\ s.core \in {"up", "joining"}
  BY DEF EhInv, HandlerPop, Local, Phased, EhStates
<1>1. /\ h \in Events \cup {"exit"} /\ q \in Seq(Events \cup {"exit"}) /\ InOrder(s.pushed, q)
      /\ h = "exit" => Waiting(q) = Waiting(s.queue)
      /\ h # "exit" => Waiting(s.queue) = Waiting(q) \cup {h} /\ AllBefore(s.pushed, {h}, Waiting(q))
  BY <1>0, Head1
<1>T. Taking(s.thread, s.output, s.event) = {}
  BY <1>0 DEF Taking
<1>e. \A p, X : AllBefore(p, X, {}) /\ AllBefore(p, {}, X)
  BY DEF AllBefore
<1>g. AllBefore(s.pushed, Gone(s.sent) \cup s.ungrouped, Waiting(s.queue))
  <2>1. AllBefore(s.pushed, Gone(s.sent) \cup s.ungrouped, {} \cup Waiting(s.queue))
    BY <1>T DEF EhInv, Carried
  <2> QED BY <2>1
<1>u. s.ungrouped \cap (Gone(s.sent) \cup s.dropped) = {}
  BY DEF EhInv, Carried
<1>2. CASE h = "exit"
  <2>0. m = [s EXCEPT !.queue = q, !.thread = "left"]
    BY <1>0, <1>2 DEF HandlerPop
  <2> HIDE DEF h, q
  <2>t. m \in EhStates
    BY <1>0, <1>1, <2>0, ZenonT(60) DEF EhStates
  <2>1. /\ m.queue = q /\ m.thread = "left" /\ m.pushed = s.pushed /\ m.sent = s.sent
        /\ m.dropped = s.dropped /\ m.output = s.output /\ m.event = s.event
        /\ m.ungrouped = s.ungrouped /\ m.initialized = s.initialized /\ m.alive = s.alive
        /\ m.memory = s.memory /\ m.max = s.max /\ m.array = s.array /\ m.entering = s.entering
        /\ m.core = s.core /\ m.stopping = s.stopping /\ m.faults = s.faults /\ Steady(s, m)
    BY <1>0, <2>0 DEF EhStates, Steady
  <2>2. Phased(m)
    BY <1>0, <2>1 DEF EhInv, Phased
  <2>3. Local(m) /\ Caused(m)
    BY <1>0, <2>1 DEF EhInv, Local, Caused
  <2>4. Taking(m.thread, m.output, m.event) = {} /\ Waiting(m.queue) = Waiting(s.queue)
    BY <1>1, <1>2, <2>1 DEF Taking
  <2>5. Moves(s, m)
    <3>1. Kin(m) = Kin(s) /\ InOrder(s.pushed, m.queue) /\ InOrder(s.pushed, m.output)
      BY <1>0, <1>1, <1>T, <2>1, <2>4, OrderEmpty DEF Kin
    <3>2. AllBefore(s.pushed, Gone(s.sent) \cup m.ungrouped, {} \cup Waiting(m.queue))
      BY <1>g, <2>1, <2>4
    <3> QED BY <1>e, <1>u, <2>1, <2>4, <3>1, <3>2 DEF Moves
  <2> QED BY <2>t, <2>1, <2>2, <2>3, <2>5, MovesCarried, MovesReferred DEF EhInv
<1>3. CASE h # "exit"
  <2>0. m = [s EXCEPT !.queue = q, !.event = h, !.thread = "took", !.output = << >>, !.array = FALSE]
    BY <1>0, <1>3 DEF HandlerPop
  <2> HIDE DEF h, q
  <2>h. h \in Events
    BY <1>1, <1>3
  <2>n. << >> \in Seq(Events)
    OBVIOUS
  <2>t. m \in EhStates
    BY <1>0, <1>1, <2>0, <2>h, <2>n, ZenonT(60) DEF EhStates
  <2>1. /\ m.queue = q /\ m.thread = "took" /\ m.pushed = s.pushed /\ m.sent = s.sent
        /\ m.dropped = s.dropped /\ m.output = << >> /\ m.event = h
        /\ m.ungrouped = s.ungrouped /\ m.initialized = s.initialized /\ m.alive = s.alive
        /\ m.memory = s.memory /\ m.max = s.max /\ m.entering = s.entering
        /\ m.core = s.core /\ m.stopping = s.stopping /\ m.faults = s.faults /\ Steady(s, m)
    BY <1>0, <2>0 DEF EhStates, Steady
  <2>2. Phased(m)
    BY <1>0, <2>1 DEF EhInv, Phased
  <2>3. Local(m)
    <3>1. s.max # 0 /\ s.max \in Nat /\ \A i \in DOMAIN s.sent : Len(s.sent[i]) \in 1..s.max
      BY <1>0 DEF EhInv, Local, EhStates
    <3>2. Len(m.output) = 0
      BY <2>1
    <3>3. 0 < s.max
      BY <3>1
    <3> QED BY <2>h, <2>1, <3>1, <3>2, <3>3 DEF Local
  <2>c. Caused(m)
    BY <2>1 DEF EhInv, Caused
  <2>4. Taking(m.thread, m.output, m.event) = {h}
    BY <2>1, WaitingEmpty DEF Taking
  <2>5. Moves(s, m)
    <3>1. Kin(m) = Kin(s) /\ InOrder(s.pushed, m.queue) /\ InOrder(s.pushed, m.output)
      BY <1>1, <1>3, <1>T, <2>1, <2>4, OrderEmpty DEF Kin
    <3>2. {h} \cup Waiting(m.queue) = Waiting(s.queue)
      BY <1>1, <1>3, <2>1
    <3>3. AllBefore(s.pushed, Gone(s.sent) \cup m.ungrouped, {h} \cup Waiting(m.queue))
      BY <1>g, <2>1, <3>2
    <3>4. Waiting(m.output) = {} /\ AllBefore(s.pushed, {h}, Waiting(m.queue))
      BY <1>1, <1>3, <2>1, WaitingEmpty
    <3>5. /\ AllBefore(s.pushed, Waiting(m.output), {m.event})
          /\ AllBefore(s.pushed, Taking(m.thread, m.output, m.event), Waiting(m.queue))
          /\ AllBefore(s.pushed, Gone(s.sent) \cup m.ungrouped,
                       Taking(m.thread, m.output, m.event) \cup Waiting(m.queue))
      BY <1>e, <2>4, <3>3, <3>4
    <3>6. m.ungrouped \cap (Gone(s.sent) \cup s.dropped) = {}
      BY <1>u, <2>1
    <3> QED BY <2>1, <3>1, <3>5, <3>6 DEF Moves
  <2> QED BY <2>t, <2>1, <2>2, <2>3, <2>c, <2>5, MovesCarried, MovesReferred DEF EhInv
<1> QED BY <1>2, <1>3

\* What the thread has and where the server is while it makes a group.
LEMMA Grouping ==
    ASSUME NEW s, EhInv(s), s.thread = "took"
    PROVE  /\ s \in EhStates /\ s.event \in Events /\ s.output \in Seq(Events) /\ Len(s.output) < s.max
           /\ s.max \in Nat /\ s.core \in {"up", "joining"} /\ s.dropped = {}
           /\ \A i \in DOMAIN s.sent : Len(s.sent[i]) \in 1..s.max
           /\ Taking(s.thread, s.output, s.event) = Waiting(s.output) \cup {s.event}
           /\ InOrder(s.pushed, s.output) /\ InOrder(s.pushed, s.queue)
           /\ AllBefore(s.pushed, Waiting(s.output), {s.event})
           /\ AllBefore(s.pushed, Waiting(s.output) \cup {s.event}, Waiting(s.queue))
           /\ AllBefore(s.pushed, Gone(s.sent) \cup s.ungrouped,
                        (Waiting(s.output) \cup {s.event}) \cup Waiting(s.queue))
           /\ s.ungrouped \cap (Gone(s.sent) \cup s.dropped) = {}
<1>1. s \in EhStates /\ s.event \in Events /\ s.output \in Seq(Events) /\ Len(s.output) < s.max /\ s.max \in Nat
  BY DEF EhInv, EhStates, Local
<1>2. s.core \in {"up", "joining"} /\ s.dropped = {}
  BY <1>1 DEF EhInv, Phased, EhStates
<1>3. \A i \in DOMAIN s.sent : Len(s.sent[i]) \in 1..s.max
  BY DEF EhInv, Local
<1>4. Taking(s.thread, s.output, s.event) = Waiting(s.output) \cup {s.event}
  BY DEF Taking
<1> QED BY <1>1, <1>2, <1>3, <1>4 DEF EhInv, Carried

\* The thread has another group, and perhaps the server has not: its locals are n.
Regroups(s, m, q, thread, output, event, array, ungrouped) ==
    m = [s EXCEPT !.queue = q, !.thread = thread, !.output = output, !.event = event,
                  !.array = array, !.ungrouped = ungrouped]

\* Events move in order and the group is within its bounds.
Regroup(s, m, q, thread, output, event, array, ungrouped) ==
    /\ q \in Seq(Events \cup {"exit"}) /\ thread \in {"took", "send"} /\ output \in Seq(Events)
    /\ event \in Events /\ array \in BOOLEAN /\ ungrouped \in SUBSET Events
    /\ Regroups(s, m, q, thread, output, event, array, ungrouped)
    /\ thread = "took" => Len(output) < s.max
    /\ thread = "send" => Len(output) \in 1..s.max /\ (array \/ Len(output) = 1)
    /\ Kin(m) = Kin(s) /\ InOrder(s.pushed, q) /\ InOrder(s.pushed, output)
    /\ thread = "took" => AllBefore(s.pushed, Waiting(output), {event})
    /\ AllBefore(s.pushed, Taking(thread, output, event), Waiting(q))
    /\ AllBefore(s.pushed, Gone(s.sent) \cup ungrouped, Taking(thread, output, event) \cup Waiting(q))
    /\ ungrouped \cap Gone(s.sent) = {}

\* Such a step keeps the invariant.
LEMMA RegroupKeeps ==
    ASSUME NEW s, NEW m, EhInv(s), s.thread = "took",
           NEW q, NEW thread, NEW output, NEW event, NEW array, NEW ungrouped,
           Regroup(s, m, q, thread, output, event, array, ungrouped)
    PROVE  EhInv(m)
<1> USE DEF Regroup
<1>0. /\ s \in EhStates /\ s.core \in {"up", "joining"} /\ s.dropped = {} /\ s.max \in Nat /\ s.max # 0
      /\ \A i \in DOMAIN s.sent : Len(s.sent[i]) \in 1..s.max
  <2>1. s.max # 0
    BY DEF EhInv, Local
  <2> QED BY <2>1, Grouping
<1>t. m \in EhStates
  BY <1>0, ZenonT(60) DEF EhStates, Regroups
<1>1. /\ m.queue = q /\ m.thread = thread /\ m.pushed = s.pushed /\ m.sent = s.sent
      /\ m.dropped = s.dropped /\ m.output = output /\ m.event = event /\ m.array = array
      /\ m.ungrouped = ungrouped /\ m.initialized = s.initialized /\ m.alive = s.alive
      /\ m.memory = s.memory /\ m.max = s.max /\ m.entering = s.entering
      /\ m.core = s.core /\ m.stopping = s.stopping /\ m.faults = s.faults /\ Steady(s, m)
  BY <1>0 DEF EhStates, Steady, Regroups
<1>2. Phased(m)
  BY <1>0, <1>1 DEF EhInv, Phased
<1>3. Local(m)
  BY <1>0, <1>1 DEF Local
<1>4. Caused(m)
  BY <1>1 DEF EhInv, Caused
<1>5. Moves(s, m)
  BY <1>0, <1>1 DEF Moves
<1> QED BY <1>t, <1>1, <1>2, <1>3, <1>4, <1>5, MovesCarried, MovesReferred DEF EhInv

\* The same record, written as one change.
LEMMA OneChange ==
    ASSUME NEW s \in EhStates, s.thread = "took", NEW n, NEW h, NEW q
    PROVE  Regroups(s, [[s EXCEPT !.output = n, !.array = TRUE] EXCEPT !.event = h, !.queue = q],
                    q, "took", n, h, TRUE, s.ungrouped)
BY DEF Regroups, EhStates

\* The thread sends what it took alone, or takes one more of the group, or sends the group.
LEMMA EhGroup ==
    ASSUME EhAssumption, EhInv(eh), HandlerGroup
    PROVE  EhInv(eh')
<1> DEFINE s == eh
           m == eh'
           e == s.event
           O == Waiting(s.output)
           n == Append(s.output, s.event)
           R == Gone(s.sent) \cup s.ungrouped
<1>0. s.thread = "took" /\ m = Grouped(s)
  BY DEF HandlerGroup
<1>1. /\ s \in EhStates /\ e \in Events /\ s.output \in Seq(Events) /\ Len(s.output) < s.max
      /\ s.max \in Nat /\ Taking(s.thread, s.output, s.event) = O \cup {e}
      /\ InOrder(s.pushed, s.output) /\ InOrder(s.pushed, s.queue)
      /\ AllBefore(s.pushed, O, {e}) /\ AllBefore(s.pushed, O \cup {e}, Waiting(s.queue))
      /\ AllBefore(s.pushed, R, (O \cup {e}) \cup Waiting(s.queue))
      /\ s.ungrouped \cap Gone(s.sent) = {}
  BY <1>0, Grouping
<1>2. /\ s.queue \in Seq(Events \cup {"exit"}) /\ s.ungrouped \in SUBSET Events /\ s.array \in BOOLEAN
  BY <1>1 DEF EhStates
<1>3. n \in Seq(Events) /\ Len(n) = Len(s.output) + 1 /\ Len(n) \in 1..s.max
  BY <1>1
<1>4. Waiting(n) = O \cup {e}
  <2>1. Waiting(n) = O \cup ({e} \cap Events)
    BY <1>1, WaitingAppend
  <2> QED BY <1>1, <2>1
<1>5. InOrder(s.pushed, n)
  <2>1. {e} \cap Events = {e}
    BY <1>1
  <2>2. AllBefore(s.pushed, O, {e} \cap Events)
    BY <1>1, <2>1
  <2> QED BY <1>1, <2>2, OrderAppend
<1>6. ToSet(s.output) = O /\ O \subseteq Events
  BY <1>1, EventElements DEF Waiting
<1>7. Taking("send", n, e) = O \cup {e} /\ Taking("send", <<e>>, e) = {e}
      /\ \A x : Taking("took", n, x) = (O \cup {e}) \cup {x}
  BY <1>1, <1>4, WaitingOne DEF Taking
<1>8. Kin(s) = Waiting(s.queue) \cup (O \cup {e}) \cup s.ungrouped
  BY <1>1 DEF Kin
<1>a. Apart(s)
  BY EhApart
<1>9. CASE ~s.set.group
  <2> DEFINE u == s.ungrouped \cup O
  <2>1. Regroups(s, m, s.queue, "send", <<e>>, e, FALSE, u)
    <3>1. m = [s EXCEPT !.output = <<e>>, !.array = FALSE, !.thread = "send", !.ungrouped = u]
      BY <1>0, <1>6, <1>9 DEF Grouped
    <3> HIDE DEF u
    <3> QED BY <1>1, <3>1 DEF Regroups, EhStates
  <2>2. <<e>> \in Seq(Events) /\ Len(<<e>>) = 1 /\ 1 \in 1..s.max /\ u \in SUBSET Events
    BY <1>1, <1>2, <1>6
  <2>3. Kin(m) = Kin(s)
    <3>1. m.queue = s.queue /\ m.thread = "send" /\ m.output = <<e>> /\ m.event = e /\ m.ungrouped = u
      BY <1>1, <2>1 DEF Regroups, EhStates
    <3> QED BY <1>7, <1>8, <3>1 DEF Kin
  <2>4. InOrder(s.pushed, <<e>>)
    BY DEF InOrder
  <2>5. AllBefore(s.pushed, {e}, Waiting(s.queue))
    BY <1>1, BeforeParts
  <2>6. AllBefore(s.pushed, Gone(s.sent) \cup u, {e} \cup Waiting(s.queue))
    <3>1. AllBefore(s.pushed, R, {e} \cup Waiting(s.queue))
      BY <1>1, BeforeParts
    <3>2. AllBefore(s.pushed, O, Waiting(s.queue))
      BY <1>1, BeforeParts
    <3>3. AllBefore(s.pushed, O, {e} \cup Waiting(s.queue))
      BY <1>1, <3>2, BeforeBoth
    <3>4. Gone(s.sent) \cup u = R \cup O
      OBVIOUS
    <3> QED BY <3>1, <3>3, <3>4, BothBefore
  <2>7. u \cap Gone(s.sent) = {}
    BY <1>1, <1>a DEF Apart
  <2> HIDE DEF m, u
  <2>8. Regroup(s, m, s.queue, "send", <<e>>, e, FALSE, u)
    BY <1>1, <1>2, <1>7, <2>1, <2>2, <2>3, <2>4, <2>5, <2>6, <2>7 DEF Regroup
  <2>9. EhInv(m)
    BY <1>0, <2>8, RegroupKeeps
  <2> QED BY <2>9 DEF m
<1>10. CASE s.set.group /\ (Len(n) = s.max \/ s.queue = << >>)
  <2>1. Regroups(s, m, s.queue, "send", n, e, TRUE, s.ungrouped)
    <3> DEFINE a == [s EXCEPT !.output = n, !.array = TRUE]
    <3>0. a.output = n /\ a.queue = s.queue
      BY <1>1 DEF EhStates
    <3>1. m = [a EXCEPT !.thread = "send"]
      BY <1>0, <1>10, <3>0 DEF Grouped
    <3> HIDE DEF n
    <3> QED BY <1>1, <3>1 DEF Regroups, EhStates
  <2>3. Kin(m) = Kin(s)
    <3>1. m.queue = s.queue /\ m.thread = "send" /\ m.output = n /\ m.event = e /\ m.ungrouped = s.ungrouped
      BY <1>1, <2>1 DEF Regroups, EhStates
    <3> QED BY <1>7, <1>8, <3>1 DEF Kin
  <2> HIDE DEF m, n
  <2>4. Regroup(s, m, s.queue, "send", n, e, TRUE, s.ungrouped)
    BY <1>1, <1>2, <1>3, <1>5, <1>7, <2>1, <2>3 DEF Regroup
  <2>5. EhInv(m)
    BY <1>0, <2>4, RegroupKeeps
  <2> QED BY <2>5 DEF m
<1>11. CASE s.set.group /\ Len(n) # s.max /\ s.queue # << >>
  <2> DEFINE h == s.queue[1]
             q == Tail(s.queue)
             a == [s EXCEPT !.output = n, !.array = TRUE]
  <2>0. /\ h \in Events \cup {"exit"} /\ q \in Seq(Events \cup {"exit"}) /\ InOrder(s.pushed, q)
        /\ h = "exit" => Waiting(q) = Waiting(s.queue)
        /\ h # "exit" => Waiting(s.queue) = Waiting(q) \cup {h} /\ AllBefore(s.pushed, {h}, Waiting(q))
    BY <1>11, Head1
  <2>1. a.output = n /\ a.queue = s.queue
    BY <1>1 DEF EhStates
  <2>2. CASE h = "exit"
    <3>1. Regroups(s, m, q, "send", n, e, TRUE, s.ungrouped)
      <4>1. m = [a EXCEPT !.thread = "send", !.queue = Tail(@)]
        BY <1>0, <1>11, <2>1, <2>2 DEF Grouped
      <4> HIDE DEF n
      <4> QED BY <1>1, <4>1 DEF Regroups, EhStates
    <3>2. Kin(m) = Kin(s)
      <4>1. m.queue = q /\ m.thread = "send" /\ m.output = n /\ m.event = e /\ m.ungrouped = s.ungrouped
        BY <1>1, <3>1 DEF Regroups, EhStates
      <4> HIDE DEF q, h
      <4> QED BY <1>7, <1>8, <2>0, <2>2, <4>1 DEF Kin
    <3>3. /\ AllBefore(s.pushed, O \cup {e}, Waiting(q))
          /\ AllBefore(s.pushed, Gone(s.sent) \cup s.ungrouped, (O \cup {e}) \cup Waiting(q))
      <4> HIDE DEF q, h
      <4> QED BY <1>1, <2>0, <2>2
    <3> HIDE DEF m, n, q, h
    <3>4. Regroup(s, m, q, "send", n, e, TRUE, s.ungrouped)
      BY <1>1, <1>2, <1>3, <1>5, <1>7, <2>0, <3>1, <3>2, <3>3 DEF Regroup
    <3>5. EhInv(m)
      BY <1>0, <3>4, RegroupKeeps
    <3> QED BY <3>5 DEF m
  <2>3. CASE h # "exit"
    <3>h. h \in Events /\ Len(n) < s.max
      <4>1. h \in Events
        BY <2>0, <2>3
      <4> QED BY <1>1, <1>3, <1>11, <4>1
    <3>1. Regroups(s, m, q, "took", n, h, TRUE, s.ungrouped)
      <4>1. m = [a EXCEPT !.event = h, !.queue = Tail(@)]
        BY <1>0, <1>11, <2>1, <2>3 DEF Grouped
      <4>2. Tail(a.queue) = q
        BY <2>1
      <4>3. m = [a EXCEPT !.event = h, !.queue = q]
        BY <4>1, <4>2
      <4>4. Regroups(s, [a EXCEPT !.event = h, !.queue = q], q, "took", n, h, TRUE, s.ungrouped)
        <5> HIDE DEF n, h, q
        <5> QED BY <1>0, <1>1, OneChange
      <4> HIDE DEF n, h, q, a, m
      <4> QED BY <4>3, <4>4
    <3>2. Kin(m) = Kin(s)
      <4>1. m.queue = q /\ m.thread = "took" /\ m.output = n /\ m.event = h /\ m.ungrouped = s.ungrouped
        <5> HIDE DEF h
        <5> QED BY <1>1, <3>1 DEF Regroups, EhStates
      <4> HIDE DEF q, h
      <4> QED BY <1>7, <1>8, <2>0, <2>3, <4>1 DEF Kin
    <3> HIDE DEF q, h
    <3>3. AllBefore(s.pushed, O \cup {e}, {h}) /\ AllBefore(s.pushed, O \cup {e}, Waiting(q))
      <4>1. {h} \in SUBSET Waiting(s.queue) /\ Waiting(q) \in SUBSET Waiting(s.queue)
        BY <2>0, <2>3
      <4> QED BY <1>1, <4>1, BeforeParts
    <3>4. AllBefore(s.pushed, (O \cup {e}) \cup {h}, Waiting(q))
      BY <2>0, <2>3, <3>3, BothBefore
    <3>5. AllBefore(s.pushed, Gone(s.sent) \cup s.ungrouped, ((O \cup {e}) \cup {h}) \cup Waiting(q))
      <4>1. ((O \cup {e}) \cup {h}) \cup Waiting(q) = (O \cup {e}) \cup Waiting(s.queue)
        BY <2>0, <2>3
      <4> QED BY <1>1, <4>1
    <3>6. Taking("took", n, h) = (O \cup {e}) \cup {h} /\ AllBefore(s.pushed, Waiting(n), {h})
      BY <1>4, <1>7, <3>3
    <3> HIDE DEF m, n
    <3>7. Regroup(s, m, q, "took", n, h, TRUE, s.ungrouped)
      BY <1>1, <1>2, <1>3, <1>5, <2>0, <3>h, <3>1, <3>2, <3>4, <3>5, <3>6 DEF Regroup
    <3>8. EhInv(m)
      BY <1>0, <3>7, RegroupKeeps
    <3> QED BY <3>8 DEF m
  <2> QED BY <2>2, <2>3
<1> QED BY <1>9, <1>10, <1>11

\* A group that is sent comes after what was sent before.
LEMMA OrderSent ==
    ASSUME NEW p, NEW h \in Seq(Seq(Events)), NEW q \in Seq(Events), InOrder(p, q),
           \A i \in DOMAIN h : InOrder(p, h[i]),
           \A i, j \in DOMAIN h : i < j => AllBefore(p, Waiting(h[i]), Waiting(h[j])),
           AllBefore(p, Gone(h), Waiting(q))
    PROVE  LET a == Append(h, q)
           IN  /\ \A i \in DOMAIN a : InOrder(p, a[i])
               /\ \A i, j \in DOMAIN a : i < j => AllBefore(p, Waiting(a[i]), Waiting(a[j]))
<1> DEFINE a == Append(h, q)
           n == Len(h) + 1
<1>1. /\ DOMAIN a = DOMAIN h \cup {n} /\ a[n] = q /\ n \in Int
      /\ \A i \in DOMAIN h : a[i] = h[i] /\ i \in Int /\ i < n
  OBVIOUS
<1> HIDE DEF a, n
<1>2. \A i \in DOMAIN a : InOrder(p, a[i])
  BY <1>1
<1>3. ASSUME NEW i \in DOMAIN a, NEW j \in DOMAIN a, i < j
      PROVE  AllBefore(p, Waiting(a[i]), Waiting(a[j]))
  <2>1. i \in DOMAIN h
    BY <1>1, <1>3
  <2>2. CASE j \in DOMAIN h
    BY <1>1, <1>3, <2>1, <2>2
  <2>3. CASE j = n
    <3>1. Waiting(h[i]) \in SUBSET Gone(h)
      BY <2>1 DEF Waiting, Gone
    <3>2. AllBefore(p, Waiting(h[i]), Waiting(q))
      BY <3>1, BeforeParts
    <3> QED BY <1>1, <2>1, <2>3, <3>2
  <2> QED BY <1>1, <2>2, <2>3
<1> QED BY <1>2, <1>3 DEF a

\* What was sent stays sent.
LEMMA SentGrows ==
    ASSUME NEW h \in Seq(Seq(Events)), NEW q \in Seq(Events)
    PROVE  LET a == Append(h, q)
           IN  /\ a \in Seq(Seq(Events)) /\ a # << >>
               /\ \E i \in DOMAIN a : a[i] = q
               /\ \A i \in DOMAIN a : a[i] = q \/ (i \in DOMAIN h /\ a[i] = h[i])
               /\ \A i \in DOMAIN h : i \in DOMAIN a /\ a[i] = h[i]
               /\ \A e : Alone(h, e) => Alone(a, e)
<1> DEFINE a == Append(h, q)
           n == Len(h) + 1
<1>1. /\ DOMAIN a = DOMAIN h \cup {n} /\ a[n] = q
      /\ \A i \in DOMAIN h : a[i] = h[i]
  OBVIOUS
<1>2. a \in Seq(Seq(Events)) /\ a # << >>
  <2> DEFINE X == Seq(Events)
  <2> HIDE DEF X
  <2>1. h \in Seq(X) /\ q \in X
    BY DEF X
  <2>2. a \in Seq(X) /\ a # << >>
    BY <2>1
  <2> QED BY <2>2 DEF X
<1> HIDE DEF a, n
<1>3. \A e : Alone(h, e) => Alone(a, e)
  BY <1>1 DEF Alone
<1> QED BY <1>1, <1>2, <1>3 DEF a

\* kore_msg_send: the group goes, and its events with it.
LEMMA EhSend ==
    ASSUME EhAssumption, EhInv(eh), HandlerSend
    PROVE  EhInv(eh')
<1> DEFINE s == eh
           m == eh'
           D == Waiting(s.output)
           k == Less(s.refs, D)
           a == Append(s.sent, s.output)
<1>0. /\ s \in EhStates /\ s.thread = "send" /\ s.output \in Seq(Events) /\ s.sent \in Seq(Seq(Events))
      /\ s.pushed \in Seq(Events)
  BY DEF EhInv, EhStates, HandlerSend
<1>T. Taking(s.thread, s.output, s.event) = D
  BY <1>0 DEF Taking
<1>1. ToSet(s.output) = D /\ D \in SUBSET Events /\ \A e \in D : s.refs[e] >= 1
  <2>1. D \subseteq Events
    BY DEF Waiting
  <2>2. ToSet(s.output) = D
    BY <1>0, EventElements
  <2>3. \A e \in D : s.refs[e] >= 1
    BY <1>T, <2>1, HasReference
  <2> QED BY <2>1, <2>2, <2>3
<1>2. UnrefAll(s, D) = [s EXCEPT !.refs = k] /\ k \in [Events -> 0..2]
  BY <1>0, <1>1, UnreferencedAll
<1>a. Apart(s)
  BY EhApart
<1>3. /\ a \in Seq(Seq(Events)) /\ a # << >>
      /\ \E i \in DOMAIN a : a[i] = s.output
      /\ \A i \in DOMAIN a : a[i] = s.output \/ (i \in DOMAIN s.sent /\ a[i] = s.sent[i])
      /\ \A i \in DOMAIN s.sent : i \in DOMAIN a /\ a[i] = s.sent[i]
      /\ \A e : Alone(s.sent, e) => Alone(a, e)
  BY <1>0, SentGrows
<1>g. Gone(a) = Gone(s.sent) \cup D
  BY <1>0, GoneAppend
<1>c. /\ AllBefore(s.pushed, D, Waiting(s.queue))
      /\ AllBefore(s.pushed, Gone(s.sent) \cup s.ungrouped, D \cup Waiting(s.queue))
      /\ InOrder(s.pushed, s.output)
      /\ \A i \in DOMAIN s.sent : InOrder(s.pushed, s.sent[i])
      /\ \A i, j \in DOMAIN s.sent : i < j => AllBefore(s.pushed, Waiting(s.sent[i]), Waiting(s.sent[j]))
  BY <1>T DEF EhInv, Carried
<1>o. /\ \A i \in DOMAIN a : InOrder(s.pushed, a[i])
      /\ \A i, j \in DOMAIN a : i < j => AllBefore(s.pushed, Waiting(a[i]), Waiting(a[j]))
  <2>1. AllBefore(s.pushed, Gone(s.sent), D)
    BY <1>c, BeforeParts
  <2> QED BY <1>0, <1>c, <2>1, OrderSent
<1> HIDE DEF k, D, a
<1>4. m = [s EXCEPT !.refs = k, !.sent = a, !.thread = "unref"]
  <2> DEFINE b == [s EXCEPT !.refs = k]
  <2>1. m = [b EXCEPT !.sent = Append(@, s.output), !.thread = "unref"]
    BY <1>1, <1>2 DEF HandlerSend
  <2>2. b.sent = s.sent
    BY <1>0 DEF EhStates
  <2>3. m = [b EXCEPT !.sent = a, !.thread = "unref"]
    BY <2>1, <2>2 DEF a
  <2> QED BY <1>0, <2>3 DEF EhStates
<1>t. m \in EhStates
  BY <1>0, <1>2, <1>3, <1>4, ZenonT(60) DEF EhStates
<1>5. /\ m.refs = k /\ m.sent = a /\ m.thread = "unref" /\ m.pushed = s.pushed /\ m.queue = s.queue
      /\ m.core = s.core /\ m.alive = s.alive /\ m.memory = s.memory /\ m.dropped = s.dropped
      /\ m.output = s.output /\ m.event = s.event /\ m.ungrouped = s.ungrouped
      /\ m.initialized = s.initialized /\ m.stopping = s.stopping /\ m.max = s.max /\ m.array = s.array
      /\ m.entering = s.entering /\ m.holds = s.holds /\ m.handed = s.handed /\ m.faults = s.faults
  BY <1>0, <1>4 DEF EhStates
<1>6. Phased(m)
  BY <1>0, <1>5 DEF EhInv, Phased
<1>7. Local(m)
  <2>1. /\ Len(s.output) \in 1..s.max /\ (s.array \/ Len(s.output) = 1) /\ s.max # 0
        /\ \A i \in DOMAIN s.sent : Len(s.sent[i]) \in 1..s.max
    BY <1>0 DEF EhInv, Local
  <2>2. \A i \in DOMAIN a : Len(a[i]) \in 1..s.max
    BY <1>3, <2>1
  <2> QED BY <1>3, <1>5, <2>1, <2>2 DEF Local
<1>8. Caused(m)
  BY <1>3, <1>5 DEF EhInv, Caused
<1>9. s.dropped = {}
  BY <1>0 DEF EhInv, Phased
<1>10. Taking(m.thread, m.output, m.event) = {}
  BY <1>5 DEF Taking
<1>11. Carried(m)
  <2>1. /\ \A i, j \in DOMAIN m.pushed : m.pushed[i] = m.pushed[j] => i = j
        /\ InOrder(m.pushed, m.queue) /\ InOrder(m.pushed, m.output) /\ m.thread # "took"
    BY <1>5 DEF EhInv, Carried
  <2>2. Waiting(m.pushed) = Waiting(m.queue) \cup Taking(m.thread, m.output, m.event)
                              \cup Gone(m.sent) \cup m.ungrouped \cup m.dropped
    <3>1. Waiting(s.pushed) = Waiting(s.queue) \cup D \cup Gone(s.sent) \cup s.ungrouped \cup s.dropped
      BY <1>T DEF EhInv, Carried
    <3> QED BY <1>5, <1>10, <1>g, <3>1
  <2>3. AllBefore(m.pushed, Taking(m.thread, m.output, m.event), Waiting(m.queue))
    BY <1>10 DEF AllBefore
  <2>4. AllBefore(m.pushed, Gone(m.sent) \cup m.ungrouped,
                  Taking(m.thread, m.output, m.event) \cup Waiting(m.queue))
    <3>1. AllBefore(s.pushed, Gone(s.sent) \cup s.ungrouped, Waiting(s.queue))
      BY <1>c, BeforeParts
    <3>2. AllBefore(s.pushed, (Gone(s.sent) \cup s.ungrouped) \cup D, Waiting(s.queue))
      BY <1>c, <3>1, BothBefore
    <3>3. /\ (Gone(s.sent) \cup s.ungrouped) \cup D = Gone(m.sent) \cup m.ungrouped
          /\ Waiting(s.queue) = Taking(m.thread, m.output, m.event) \cup Waiting(m.queue)
      BY <1>5, <1>10, <1>g
    <3> QED BY <1>5, <3>2, <3>3
  <2>5. Gone(m.sent) \cap m.ungrouped = {} /\ m.dropped \cap (Gone(m.sent) \cup m.ungrouped) = {}
    <3>1. Gone(s.sent) \cap s.ungrouped = {} /\ D \cap s.ungrouped = {}
      BY <1>T, <1>a DEF EhInv, Carried, Apart
    <3> QED BY <1>5, <1>9, <1>g, <3>1
  <2> QED BY <1>5, <1>o, <2>1, <2>2, <2>3, <2>4, <2>5 DEF Carried
<1>12. Referred(m)
  <2>1. Kin(m) = Kin(s) \ D
    BY <1>5, <1>10, <1>T, <1>a DEF Kin, Apart
  <2>2. Drops(s, m, D)
    BY <1>3, <1>5, <1>T, <2>1 DEF Drops, k
  <2> QED BY <1>t, <1>11, <2>2, DropsReferred
<1> QED BY <1>t, <1>6, <1>7, <1>8, <1>11, <1>12 DEF EhInv

----------------------------------------------------------------------------
(* Theorems about the event handler.                                        *)

\* The invariant holds, whatever the server, its event thread, the plugin's thread and
\* the admin API do between each other's steps.
THEOREM EhInvariant ==
    ASSUME EhAssumption
    PROVE  EhSpec => []EhAll
<1>1. Init => EhAll
  BY EhStart DEF EhAll
<1>2. EhAll /\ [Next]_eh => EhAll'
  <2> SUFFICES ASSUME EhInv(eh), [Next]_eh PROVE EhInv(eh')
    BY DEF EhAll
  <2>1. ASSUME NEW c \in Configs, NEW threads \in BOOLEAN, janus_sampleevh_init(c, threads) PROVE EhInv(eh')
    BY <2>1, EhInitKeeps
  <2>2. CASE janus_sampleevh_destroy
    BY <2>2, EhDestroy
  <2>3. CASE DestroyFree
    BY <2>3, EhFree
  <2>4. CASE DestroyDone \/ HandlerStart \/ HandlerCheck
    BY <2>4, EhFlags
  <2>5. ASSUME NEW e \in Events, IncomingCheck(e) PROVE EhInv(eh')
    BY <2>5, EhIncomingCheck
  <2>6. ASSUME NEW e \in Events, janus_sampleevh_incoming_event(e) PROVE EhInv(eh')
    BY <2>6, EhIncoming
  <2>7. ASSUME NEW e \in Events, Returned(e) PROVE EhInv(eh')
    BY <2>7, EhReturned
  <2>8. CASE HandlerPop
    BY <2>8, EhPop
  <2>9. CASE HandlerGroup
    BY <2>9, EhGroup
  <2>10. CASE HandlerSend
    BY <2>10, EhSend
  <2>11. CASE HandlerUnref
    BY <2>11, EhUnref
  <2>12. ASSUME NEW q \in Tweaks, HandleCheck(q) \/ janus_sampleevh_handle_request(q) PROVE EhInv(eh')
    BY <2>12, EhTweaks
  <2>13. CASE UNCHANGED eh
    BY <2>13
  <2> QED BY <2>1, <2>2, <2>3, <2>4, <2>5, <2>6, <2>7, <2>8, <2>9, <2>10, <2>11, <2>12, <2>13, Zenon DEF Next
<1> QED BY <1>1, <1>2, PTL DEF EhSpec

\* The type invariant of the event handler.
THEOREM EhTypeCorrect ==
    ASSUME EhAssumption
    PROVE  EhSpec => []TypeOK
<1>1. EhAll => TypeOK
  <2> SUFFICES ASSUME eh \in EhStates PROVE TypeOK
    BY DEF EhAll, EhInv
  <2>1. /\ eh.initialized \in BOOLEAN /\ eh.stopping \in BOOLEAN
        /\ eh.queue \in Seq(Events \cup {"exit"}) /\ eh.refs \in [Events -> 0..2]
        /\ eh.thread \in {"none", "start", "check", "pop", "took", "send", "unref", "left"}
    BY DEF EhStates
  <2>2. \A i \in DOMAIN eh.queue : eh.queue[i] \in Events \cup {"exit"}
    BY <2>1
  <2> QED BY <2>1, <2>2 DEF TypeOK, ToSet
<1> QED BY <1>1, EhInvariant, PTL

\* Every event that came in is in one place: it waits in the queue, is in the group that
\* is being made, was sent, was freed with the queue, or was in a group when grouping was
\* switched off; and events are sent in the order in which they came, in groups within
\* the maximum of the thread.
EventsOnce ==
    LET T == Taking(eh.thread, eh.output, eh.event)
        W == Waiting(eh.queue)
        S == Gone(eh.sent)
        P == eh.pushed
    IN  /\ Waiting(P) = W \cup T \cup S \cup eh.ungrouped \cup eh.dropped
        /\ W \cap T = {} /\ (S \cup eh.ungrouped) \cap (T \cup W) = {} /\ S \cap eh.ungrouped = {}
        /\ eh.dropped \cap (S \cup eh.ungrouped) = {}
        /\ InOrder(P, eh.queue) /\ AllBefore(P, T, W) /\ AllBefore(P, S, T \cup W)
        /\ \A i \in DOMAIN eh.sent : InOrder(P, eh.sent[i]) /\ Len(eh.sent[i]) \in 1..eh.max
        /\ \A i, j \in DOMAIN eh.sent : i < j => AllBefore(P, Waiting(eh.sent[i]), Waiting(eh.sent[j]))

\* No event is lost, sent twice or out of order by the plugin's thread, whatever the
\* admin API does to grouping meanwhile.
THEOREM EhEventsOnce ==
    ASSUME EhAssumption
    PROVE  EhSpec => []EventsOnce
<1>1. EhAll => EventsOnce
  <2> SUFFICES ASSUME EhInv(eh) PROVE EventsOnce
    BY DEF EhAll
  <2>1. Apart(eh)
    BY EhApart
  <2>2. AllBefore(eh.pushed, Gone(eh.sent), Taking(eh.thread, eh.output, eh.event) \cup Waiting(eh.queue))
    BY BeforeParts DEF EhInv, Carried
  <2> QED BY <2>1, <2>2 DEF EhInv, Carried, Local, Apart, EventsOnce
<1> QED BY <1>1, EhInvariant, PTL

\* The thread has left before the queue is freed, and nothing is sent afterwards.
THEOREM EhEndsInOrder ==
    ASSUME EhAssumption
    PROVE  EhSpec => []EndsInOrder
<1>1. EhAll => EndsInOrder
  <2> SUFFICES ASSUME EhInv(eh), ~eh.alive PROVE eh.thread \in {"none", "left"} /\ eh.output = << >>
    BY DEF EhAll, EndsInOrder
  <2>1. eh.core \in {"off", "failed", "freed", "down"}
    BY DEF EhInv, Phased, EhStates
  <2>2. eh.thread \in {"none", "left"}
    BY <2>1 DEF EhInv, Phased
  <2> QED BY <2>2 DEF EhInv, Local
<1> QED BY <1>1, EhInvariant, PTL

\* The references of a set with at most the event e.
LEMMA OneCounts ==
    ASSUME NEW e, NEW X
    PROVE  Cardinality({e} \cap X) = One(X, e)
<1>1. CASE e \in X
  <2>1. {e} \cap X = {e}
    BY <1>1
  <2> QED BY <1>1, <2>1, FS_Singleton DEF One
<1>2. CASE e \notin X
  <2>1. {e} \cap X = {}
    BY <1>2
  <2> QED BY <1>2, <2>1, FS_EmptySet DEF One
<1> QED BY <1>1, <1>2

\* An event has as many references as there are who refer to it, as long as it was not
\* sent alone (and unreferenced twice) and no freed memory was used.
THEOREM EhRefsExact ==
    ASSUME EhAssumption
    PROVE  EhSpec => []RefsExact
<1>1. EhAll => RefsExact
  <2> SUFFICES ASSUME EhInv(eh), NEW e \in Events,
                      <<e>> \notin ToSet(eh.sent), eh.faults \ {"array_freed", "backend_freed"} = {}
               PROVE  eh.refs[e] = Cardinality({e} \cap eh.holds) + Cardinality({e} \cap ToSet(eh.queue))
                                   + Cardinality({e} \cap ToSet(Took)) + Cardinality({e} \cap eh.ungrouped)
    BY DEF EhAll, RefsExact
  <2>0. eh \in EhStates
    BY DEF EhInv
  <2>1. ~Alone(eh.sent, e)
    BY DEF Alone, ToSet
  <2>2. eh.faults \cap {"event_freed", "queue_freed"} = {}
    OBVIOUS
  <2>3. eh.refs[e] = Referring(eh, e)
    BY <2>1, <2>2, Zenon DEF EhInv, Referred
  <2>4. {e} \cap ToSet(eh.queue) = {e} \cap Waiting(eh.queue)
    <3>1. eh.queue \in Seq(Events \cup {"exit"})
      BY <2>0 DEF EhStates
    <3>2. ToSet(eh.queue) \ {"exit"} = Waiting(eh.queue)
      BY <3>1, Elements
    <3> QED BY <3>2 DEF EhAssumption
  <2>5. ToSet(Took) = Taking(eh.thread, eh.output, eh.event)
    <3>1. eh.output \in Seq(Events)
      BY <2>0 DEF EhStates
    <3>2. CASE eh.thread = "took"
      <4>1. eh.event \in Events
        BY <3>2 DEF EhInv, Local
      <4>2. Append(eh.output, eh.event) \in Seq(Events)
        BY <3>1, <4>1
      <4>3. ToSet(Append(eh.output, eh.event)) = Waiting(Append(eh.output, eh.event))
        BY <4>2, EventElements
      <4>4. Waiting(Append(eh.output, eh.event)) = Waiting(eh.output) \cup ({eh.event} \cap Events)
        BY <3>1, WaitingAppend
      <4> QED BY <3>2, <4>1, <4>3, <4>4 DEF Took, Taking
    <3>3. CASE eh.thread = "send"
      BY <3>1, <3>3, EventElements DEF Took, Taking
    <3>4. CASE eh.thread \notin {"took", "send"}
      <4>1. ToSet(<< >>) = {}
        BY DEF ToSet
      <4> QED BY <3>4, <4>1 DEF Took, Taking
    <3> QED BY <3>2, <3>3, <3>4
  <2>6. /\ Cardinality({e} \cap eh.holds) = One(eh.holds, e)
        /\ Cardinality({e} \cap ToSet(eh.queue)) = One(Waiting(eh.queue), e)
        /\ Cardinality({e} \cap ToSet(Took)) = One(Taking(eh.thread, eh.output, eh.event), e)
        /\ Cardinality({e} \cap eh.ungrouped) = One(eh.ungrouped, e)
    BY <2>4, <2>5, OneCounts
  <2> QED BY <2>3, <2>6 DEF Referring
<1> QED BY <1>1, EhInvariant, PTL

\* A request that is refused changes nothing, and no setting becomes negative.
THEOREM EhRequestsSettled ==
    ASSUME EhAssumption
    PROVE  EhSpec => []RequestsSettled
<1>1. EhAll => RequestsSettled
  <2> SUFFICES ASSUME eh \in EhStates PROVE RequestsSettled
    BY DEF EhAll, EhInv
  <2>1. eh.set \in EhSettings /\ eh.last \in {<< >>} \cup {<<x>> : x \in EhRequests}
    BY DEF EhStates
  <2>2. eh.set.retr \in Nat /\ eh.set.backoff \in Nat
    BY <2>1 DEF EhSettings
  <2>3. eh.set.retr >= 0 /\ eh.set.backoff >= 0
    BY <2>2
  <2>4. ASSUME NEW i \in DOMAIN eh.last, ~eh.last[i].ok PROVE eh.last[i].now = eh.last[i].was
    <3>1. eh.last # << >>
      OBVIOUS
    <3>2. PICK x \in EhRequests : eh.last = <<x>>
      BY <2>1, <3>1
    <3>3. eh.last[i] = x
      BY <3>2
    <3> QED BY <2>4, <3>2, <3>3 DEF EhRequests
  <2> QED BY <2>3, <2>4 DEF RequestsSettled
<1> QED BY <1>1, EhInvariant, PTL

\* Freed memory is used only by calls that passed their check before the end of the
\* server, and by the second unreference of what was sent.
THEOREM EhFaultsKnown ==
    ASSUME EhAssumption
    PROVE  EhSpec => []FaultsKnown
<1>1. EhAll => FaultsKnown
  BY DEF EhAll, EhInv, Caused, FaultsKnown
<1> QED BY <1>1, EhInvariant, PTL

----------------------------------------------------------------------------
(* The negotiations.                                                        *)

CONSTANTS MaxTrickles, MaxMessages, MaxEvents, FullTrickle, LowType, HighType, Ptypes
VARIABLES wn, ng
V == INSTANCE WsNegotiation
G == INSTANCE JanusNegotiation

\* What is assumed of the constants: the candidates a client sends are bounded,
\* and a handle is full-trickle or it is not.
WnAssumption == MaxTrickles \in Nat
NgAssumption == MaxTrickles \in Nat /\ FullTrickle \subseteq BOOLEAN

----------------------------------------------------------------------------
(* The invariant of a negotiation.                                          *)

\* Where the processing of a description may fail; "ok" when it does not.
Stages == {"invalid", "setup", "process", "anonymize", "merge", "ok"}
\* Descriptions, the work on one, and the states of a handle of websocket_10.
WnSdps == [type : {"offer", "answer", "other"}, gets : Stages, restart : BOOLEAN]
WnTypes == {V!Rtx!RtxPayloadTypes(types) : types \in Ptypes} \cup {<< >>}
WnWork(pcs) == [pc : pcs, sdp : WnSdps \cup {<< >>}, updating : BOOLEAN]
WnStates ==
    [flags : SUBSET V!Rtx!Flags, agent : BOOLEAN, cdone : {"no", "yes", "err"}, pend : Seq(Nat),
     applied : Seq(Nat), sent : 0..MaxTrickles, remote : BOOLEAN, rtx : WnTypes, lock : Nat,
     w : WnWork({"idle", "cleaning", "unlocked"}),
     p : WnWork({"idle", "cleaning", "gathering", "merge"}), messages : Nat, events : Nat,
     offered : BOOLEAN, skipped : BOOLEAN]

\* The candidates that wait and those that were applied: none twice.
Once(a, b, k) ==
    /\ \A i \in DOMAIN a : a[i] \in 1..k
    /\ \A i \in DOMAIN b : b[i] \in 1..k
    /\ \A i \in DOMAIN a, j \in DOMAIN b : a[i] # b[j]
    /\ \A i, j \in DOMAIN a : a[i] = a[j] => i = j
    /\ \A i, j \in DOMAIN b : b[i] = b[j] => i = j

\* The part every state in the middle of a function has as well.
WnBase(n) ==
    /\ n \in WnStates
    /\ Once(n.applied, n.pend, n.sent)
    /\ n.p.pc = "cleaning" \/ n.p.updating => n.p.sdp.type = "offer"
    /\ n.w.pc = "cleaning" => n.w.sdp.type \in {"offer", "answer", "other"}

\* A plugin's answer is under way: it is known, and not yet merged.
Answering(n) == n.p.pc # "idle" /\ n.p.sdp.type = "answer"
\* The flag PROCESSING_OFFER is up only while the worker has let go of the mutex in the
\* middle of a message, or after an offer of the plugin's that has no answer yet.
Processing(n) == "PROCESSING_OFFER" \in n.flags => n.w.pc = "unlocked" \/ n.offered
\* With both descriptions known and nothing under way that will take them, no candidate
\* waits, but after a message that was refused in the middle.
Flow(n) ==
    /\ {"GOT_OFFER", "GOT_ANSWER"} \subseteq n.flags /\ n.agent /\ ~Answering(n)
    /\ "PROCESSING_OFFER" \in n.flags => n.w.pc = "unlocked"
    => n.pend = << >> \/ n.skipped

\* The invariant, of a record and of the variable.
WnInv(n) == WnBase(n) /\ Processing(n) /\ Flow(n)
WnAll == WnInv(wn)

----------------------------------------------------------------------------
(* The negotiation of websocket_10; first what both need of sequences.      *)

\* All that waited is applied, or what was applied is gone with its agent.
LEMMA OnceJoined ==
    ASSUME NEW a \in Seq(Nat), NEW b \in Seq(Nat), NEW e \in Seq(Nat), e = << >>, NEW k \in Nat, Once(a, b, k)
    PROVE  /\ a \o b \in Seq(Nat)
           /\ Once(a \o b, e, k) /\ Once(e, b, k) /\ Once(e, e, k)
<1>1. DOMAIN e = {}
  OBVIOUS
<1>2. a \o b \in Seq(Nat) /\ DOMAIN a = 1..Len(a) /\ DOMAIN b = 1..Len(b) /\ Len(a) \in Nat /\ Len(b) \in Nat
  OBVIOUS
<1>3. /\ DOMAIN (a \o b) = 1..(Len(a) + Len(b))
      /\ \A i \in DOMAIN (a \o b) : \/ i \in DOMAIN a /\ (a \o b)[i] = a[i]
                                    \/ i - Len(a) \in DOMAIN b /\ (a \o b)[i] = b[i - Len(a)]
  OBVIOUS
<1>4. Once(e, b, k) /\ Once(e, e, k)
  BY <1>1 DEF Once
<1> DEFINE c == a \o b
<1>5. \A i \in DOMAIN c : c[i] \in 1..k
  BY <1>3 DEF Once
<1>6. \A i, j \in DOMAIN c : c[i] = c[j] => i = j
  BY <1>2, <1>3, SMTT(60) DEF Once
<1> HIDE DEF c
<1>7. Once(c, e, k)
  BY <1>1, <1>5, <1>6 DEF Once
<1> QED BY <1>2, <1>4, <1>7 DEF c

\* A new candidate is neither applied nor waiting, and joins either.
LEMMA OnceMore ==
    ASSUME NEW a \in Seq(Nat), NEW b \in Seq(Nat), NEW k \in Nat, Once(a, b, k)
    PROVE  /\ Append(a, k + 1) \in Seq(Nat) /\ Append(b, k + 1) \in Seq(Nat)
           /\ Once(Append(a, k + 1), b, k + 1) /\ Once(a, Append(b, k + 1), k + 1) /\ Once(a, b, k + 1)
<1>1. \A s \in Seq(Nat) :
         /\ Append(s, k + 1) \in Seq(Nat)
         /\ \A i \in DOMAIN Append(s, k + 1) :
              \/ i \in DOMAIN s /\ Append(s, k + 1)[i] = s[i]
              \/ i = Len(s) + 1 /\ Append(s, k + 1)[i] = k + 1
  OBVIOUS
<1>2. Once(a, b, k + 1)
  BY DEF Once
<1>3. Once(Append(a, k + 1), b, k + 1)
  <2> DEFINE c == Append(a, k + 1)
  <2>1. \A i \in DOMAIN c : (i \in DOMAIN a /\ c[i] = a[i]) \/ (i = Len(a) + 1 /\ c[i] = k + 1)
    BY <1>1
  <2> HIDE DEF c
  <2>a. \A i \in DOMAIN a : a[i] \in Nat /\ 1 <= a[i] /\ a[i] <= k
    BY DEF Once
  <2>b. \A i \in DOMAIN b : b[i] \in Nat /\ 1 <= b[i] /\ b[i] <= k
    BY DEF Once
  <2>c. \A i \in DOMAIN c : c[i] \in Nat /\ 1 <= c[i] /\ c[i] <= k + 1
    BY <2>1, <2>a
  <2>h. \A i \in DOMAIN b : b[i] # k + 1
    BY <2>b
  <2>i. \A i \in DOMAIN a, j \in DOMAIN b : a[i] # b[j]
    BY Zenon DEF Once
  <2>d. \A i \in DOMAIN c, j \in DOMAIN b : c[i] # b[j]
    BY <2>1, <2>h, <2>i, Zenon
  <2>f. \A i \in DOMAIN a : a[i] # k + 1
    BY <2>a
  <2>g. \A i, j \in DOMAIN a : a[i] = a[j] => i = j
    BY DEF Once
  <2>e. \A i, j \in DOMAIN c : c[i] = c[j] => i = j
    BY <2>1, <2>f, <2>g, Zenon
  <2>2. Once(c, b, k + 1)
    BY <2>a, <2>b, <2>c, <2>d, <2>e DEF Once
  <2> QED BY <2>2 DEF c
<1>4. Once(a, Append(b, k + 1), k + 1)
  <2> DEFINE c == Append(b, k + 1)
  <2>1. \A i \in DOMAIN c : (i \in DOMAIN b /\ c[i] = b[i]) \/ (i = Len(b) + 1 /\ c[i] = k + 1)
    BY <1>1
  <2> HIDE DEF c
  <2>a. \A i \in DOMAIN a : a[i] \in Nat /\ 1 <= a[i] /\ a[i] <= k
    BY DEF Once
  <2>b. \A i \in DOMAIN b : b[i] \in Nat /\ 1 <= b[i] /\ b[i] <= k
    BY DEF Once
  <2>c. \A i \in DOMAIN c : c[i] \in Nat /\ 1 <= c[i] /\ c[i] <= k + 1
    BY <2>1, <2>b
  <2>h. \A i \in DOMAIN a : a[i] # k + 1
    BY <2>a
  <2>i. \A i \in DOMAIN b, j \in DOMAIN a : b[i] # a[j]
    BY Zenon DEF Once
  <2>d. \A i \in DOMAIN c, j \in DOMAIN a : c[i] # a[j]
    BY <2>1, <2>h, <2>i, Zenon
  <2>f. \A i \in DOMAIN b : b[i] # k + 1
    BY <2>b
  <2>g. \A i, j \in DOMAIN b : b[i] = b[j] => i = j
    BY DEF Once
  <2>e. \A i, j \in DOMAIN c : c[i] = c[j] => i = j
    BY <2>1, <2>f, <2>g, Zenon
  <2>2. Once(a, c, k + 1)
    BY <2>a, <2>b, <2>c, <2>d, <2>e DEF Once
  <2> QED BY <2>2 DEF c
<1> QED BY <1>1, <1>2, <1>3, <1>4

\* No work is work of either kind.
LEMMA WnIdle ==
    /\ V!Idle \in WnWork({"idle", "cleaning", "unlocked"})
    /\ V!Idle \in WnWork({"idle", "cleaning", "gathering", "merge"})
    /\ V!Idle.pc = "idle" /\ V!Idle.updating = FALSE
BY DEF V!Idle, WnWork

\* The descriptions that arrive are descriptions, and have a type.
LEMMA WnSdpTypes ==
    /\ V!Sdps({"invalid", "setup", "process", "anonymize"}) \subseteq WnSdps
    /\ V!Sdps({"invalid", "setup", "anonymize", "merge"}) \subseteq WnSdps
    /\ \A sdp \in WnSdps : sdp.type \in {"offer", "answer", "other"}
<1>1. ASSUME NEW S \in SUBSET Stages PROVE V!Sdps(S) \subseteq WnSdps
  <2>1. [type : {"offer", "answer"}, gets : S \cup {"ok"}, restart : {FALSE}] \subseteq WnSdps
    BY DEF WnSdps, Stages
  <2>2. /\ [type |-> "offer", gets |-> "ok", restart |-> TRUE] \in WnSdps
        /\ [type |-> "other", gets |-> "ok", restart |-> FALSE] \in WnSdps
    BY DEF WnSdps, Stages
  <2> QED BY <2>1, <2>2, Zenon DEF V!Sdps
<1> QED BY <1>1 DEF WnSdps, Stages

\* A refused message takes the flag down.
LEMMA WnRefuse ==
    ASSUME NEW n, WnBase(n)
    PROVE  WnInv(V!Refuse(n))
<1>1. V!Refuse(n) \in WnStates
  BY WnIdle DEF WnBase, WnStates, V!Refuse, V!Clear
<1>2. /\ V!Refuse(n).flags = n.flags \ {"PROCESSING_OFFER"} /\ V!Refuse(n).skipped
      /\ V!Refuse(n).applied = n.applied /\ V!Refuse(n).pend = n.pend /\ V!Refuse(n).sent = n.sent
      /\ V!Refuse(n).p = n.p /\ V!Refuse(n).w.pc = "idle"
  BY WnIdle DEF WnBase, WnStates, V!Refuse, V!Clear
<1> QED BY <1>1, <1>2 DEF WnInv, WnBase, Processing, Flow

\* The candidates that waited are applied.
LEMMA WnPending ==
    ASSUME NEW n, WnBase(n), WnAssumption
    PROVE  WnInv(V!PendingTrickles(n))
<1> DEFINE m == V!PendingTrickles(n)
           e == << >>
           b == [n EXCEPT !.pend = e, !.applied = n.applied \o n.pend, !.offered = FALSE, !.skipped = FALSE]
<1>0. /\ n.applied \in Seq(Nat) /\ n.pend \in Seq(Nat) /\ n.sent \in Nat
      /\ e \in Seq(Nat)
  BY DEF WnBase, WnStates, WnAssumption
<1>a. n.applied \o n.pend \in Seq(Nat) /\ Once(n.applied \o n.pend, e, n.sent)
  BY <1>0, OnceJoined DEF WnBase
<1>1. m = [b EXCEPT !.flags = IF "TRICKLE" \in n.flags THEN (n.flags \ {"PROCESSING_OFFER"}) \cup {"START"}
                              ELSE n.flags \ {"PROCESSING_OFFER"}]
  <2>1. n.flags = b.flags /\ n \in WnStates
    BY DEF WnBase, WnStates
  <2> QED BY <2>1 DEF WnStates, V!PendingTrickles, V!Clear, V!Set, V!Has
<1> HIDE DEF m, e
<1>2. b \in WnStates
  BY <1>0, <1>a DEF WnBase, WnStates
<1>3. /\ b.applied = n.applied \o n.pend /\ b.pend = e /\ b.sent = n.sent /\ b.p = n.p /\ b.w = n.w /\ b.flags = n.flags
  BY DEF WnBase, WnStates
<1> HIDE DEF b
<1>4. m.flags \subseteq V!Rtx!Flags /\ "PROCESSING_OFFER" \notin m.flags
  BY <1>1, <1>2, <1>3 DEF WnStates, V!Rtx!Flags
<1>5. m \in WnStates
  BY <1>1, <1>2, <1>4 DEF WnStates
<1>6. /\ m.applied = n.applied \o n.pend /\ m.pend = e /\ m.sent = n.sent /\ m.p = n.p /\ m.w = n.w
  BY <1>1, <1>2, <1>3 DEF WnStates
<1>7. WnInv(m)
  BY <1>a, <1>4, <1>5, <1>6 DEF WnInv, WnBase, Processing, Flow, e
<1> QED BY <1>7 DEF m

\* A fresh agent; the candidates applied to the old one are gone.
LEMMA WnSetup ==
    ASSUME NEW n, WnBase(n), WnAssumption
    PROVE  LET m == V!janus_ice_setup_local(n)
           IN  /\ WnBase(m)
               /\ m.flags = n.flags \ {"ALERT"} /\ m.skipped = ("GOT_ANSWER" \in n.flags)
               /\ m.w = n.w /\ m.p = n.p /\ m.offered = n.offered
<1> DEFINE e == << >>
           f == n.flags \ {"ALERT"}
           g == ("GOT_ANSWER" \in n.flags)
           m == [n EXCEPT !.flags = f, !.agent = TRUE, !.cdone = "no", !.applied = e, !.remote = FALSE,
                          !.skipped = g]
<1>0. V!janus_ice_setup_local(n) = m
  BY DEF V!janus_ice_setup_local, V!Clear, V!Has, WnBase, WnStates
<1>1. n.applied \in Seq(Nat) /\ n.pend \in Seq(Nat) /\ n.sent \in Nat /\ e \in Seq(Nat)
  BY DEF WnBase, WnStates, WnAssumption
<1>2. Once(e, n.pend, n.sent)
  BY <1>1, OnceJoined DEF WnBase
<1>3. f \in SUBSET V!Rtx!Flags /\ g \in BOOLEAN
  BY DEF WnBase, WnStates
<1> HIDE DEF e, f, g
<1>4. m \in WnStates
  BY <1>1, <1>3 DEF WnBase, WnStates
<1>5. /\ m.applied = e /\ m.pend = n.pend /\ m.sent = n.sent /\ m.w = n.w /\ m.p = n.p
      /\ m.offered = n.offered /\ m.flags = f /\ m.skipped = g
  BY DEF WnBase, WnStates
<1> HIDE DEF m
<1>6. WnBase(m)
  BY <1>2, <1>4, <1>5 DEF WnBase
<1> QED BY <1>0, <1>5, <1>6 DEF f, g

\* The client's SDP, once its type is noted: whatever becomes of it the
\* invariant holds again.
LEMMA WnNewSession ==
    ASSUME NEW n, WnBase(n), NEW sdp, WnAssumption,
           sdp.type \in {"offer", "answer"},
           sdp.type = "offer" => "GOT_ANSWER" \notin n.flags
    PROVE  WnInv(V!NewSession(n, sdp))
<1>1. CASE sdp.type = "offer"
  <2> DEFINE o == V!janus_ice_setup_local(n)
             r == [o EXCEPT !.remote = TRUE, !.w.pc = "unlocked"]
  <2>1. V!NewSession(n, sdp) = IF sdp.gets = "setup" THEN V!Refuse(n)
                               ELSE IF sdp.gets = "process" THEN V!Refuse(o) ELSE r
    BY <1>1 DEF V!NewSession
  <2>2. WnBase(o) /\ o.flags = n.flags \ {"ALERT"} /\ o.p = n.p
    BY WnSetup
  <2> HIDE DEF o
  <2>3. r \in WnStates
    BY <2>2 DEF WnBase, WnStates, WnWork
  <2>4. /\ r.flags = o.flags /\ r.p = o.p /\ r.w.pc = "unlocked" /\ r.applied = o.applied
        /\ r.pend = o.pend /\ r.sent = o.sent
    BY <2>2 DEF WnBase, WnStates, WnWork
  <2> HIDE DEF r
  <2>5. WnInv(r)
    BY <1>1, <2>2, <2>3, <2>4 DEF WnInv, WnBase, Processing, Flow
  <2> QED BY <2>1, <2>2, <2>5, WnRefuse
<1>2. CASE sdp.type = "answer"
  <2> DEFINE r == [n EXCEPT !.remote = TRUE, !.w.pc = "unlocked"]
             t == V!Set(r, {"TRICKLE"})
  <2>1. V!NewSession(n, sdp) = IF ~n.agent \/ sdp.gets = "process" THEN V!Refuse(n)
                               ELSE V!PendingTrickles(t)
    BY <1>2 DEF V!NewSession
  <2>2. r \in WnStates /\ r.w.pc = "unlocked" /\ r.p = n.p /\ r.applied = n.applied /\ r.pend = n.pend /\ r.sent = n.sent
    BY DEF WnBase, WnStates, WnWork
  <2> HIDE DEF r
  <2>3. t \in WnStates /\ t.w = r.w /\ t.p = r.p /\ t.applied = r.applied /\ t.pend = r.pend /\ t.sent = r.sent
    BY <2>2 DEF WnStates, V!Set, V!Rtx!Flags
  <2> HIDE DEF t
  <2>4. WnBase(t)
    BY <2>2, <2>3 DEF WnBase
  <2> QED BY <2>1, <2>4, WnRefuse, WnPending
<1> QED BY <1>1, <1>2

\* The same for a description that arrives when there already is an agent.
LEMMA WnRenegotiation ==
    ASSUME NEW n, WnBase(n), NEW sdp,
           sdp.type \in {"offer", "answer"},
           sdp.type = "offer" => "GOT_ANSWER" \notin n.flags
    PROVE  WnInv(V!Renegotiation(n, sdp))
<1> DEFINE g == (sdp.type = "answer")
           r == [n EXCEPT !.w.pc = "unlocked", !.remote = TRUE, !.offered = FALSE, !.skipped = g]
           c == [r EXCEPT !.flags = r.flags \ {"ICE_RESTART"}]
<1>1. V!Renegotiation(n, sdp) = IF sdp.gets = "process" THEN V!Refuse(n)
                                ELSE IF sdp.type = "answer" THEN c ELSE r
  BY DEF V!Renegotiation, V!Clear
<1>2. g \in BOOLEAN
  OBVIOUS
<1> HIDE DEF g
<1>3. r \in WnStates
  BY <1>2 DEF WnBase, WnStates, WnWork
<1>4. /\ r.flags = n.flags /\ r.w.pc = "unlocked" /\ r.p = n.p /\ r.skipped = g /\ r.applied = n.applied
      /\ r.pend = n.pend /\ r.sent = n.sent
  BY DEF WnBase, WnStates, WnWork
<1> HIDE DEF r
<1>5. c \in WnStates
  BY <1>3 DEF WnStates
<1>6. /\ c.flags = r.flags \ {"ICE_RESTART"} /\ c.w = r.w /\ c.p = r.p /\ c.skipped = r.skipped
      /\ c.applied = r.applied /\ c.pend = r.pend /\ c.sent = r.sent
  BY <1>3 DEF WnStates
<1> HIDE DEF c
<1>7. WnInv(r)
  BY <1>3, <1>4 DEF WnInv, WnBase, Processing, Flow, g
<1>8. sdp.type = "answer" => WnInv(c)
  BY <1>4, <1>5, <1>6, ZenonT(60) DEF WnInv, WnBase, Processing, Flow, g
<1> QED BY <1>1, <1>7, <1>8, WnRefuse

\* The whole of what is done under the mutex.
LEMMA WnJsep ==
    ASSUME NEW n, WnBase(n), NEW sdp, sdp.type \in {"offer", "answer", "other"}, WnAssumption
    PROVE  WnInv(V!Jsep(n, sdp))
<1> DEFINE f == IF sdp.type = "offer" THEN (n.flags \cup {"PROCESSING_OFFER", "GOT_OFFER"}) \ {"GOT_ANSWER"}
                ELSE IF sdp.type = "answer" THEN n.flags \cup {"GOT_ANSWER"} ELSE n.flags
           m == [n EXCEPT !.flags = f]
<1>1. V!JsepType(n, sdp.type) = m
  BY DEF V!JsepType, V!Set, V!Clear, WnBase, WnStates
<1>2. f \in SUBSET V!Rtx!Flags
  BY DEF WnBase, WnStates, V!Rtx!Flags
<1>3. sdp.type = "offer" => "GOT_ANSWER" \notin f
  OBVIOUS
<1> HIDE DEF f
<1>4. m \in WnStates /\ m.flags = f /\ m.p = n.p /\ m.w = n.w /\ m.applied = n.applied /\ m.pend = n.pend /\ m.sent = n.sent
  BY <1>2 DEF WnBase, WnStates
<1> HIDE DEF m
<1>5. WnBase(m)
  BY <1>4 DEF WnBase
<1>6. \/ V!Jsep(n, sdp) = V!Refuse(m)
      \/ sdp.type # "other" /\ V!Jsep(n, sdp) = V!Renegotiation(m, sdp)
      \/ sdp.type # "other" /\ V!Jsep(n, sdp) = V!NewSession(m, sdp)
  BY <1>1 DEF V!Jsep
<1> QED BY <1>3, <1>4, <1>5, <1>6, WnRefuse, WnRenegotiation, WnNewSession

\* NULL is returned to the plugin.
LEMMA WnGiveUp ==
    ASSUME NEW n, WnBase(n), Processing(n),
           Flow(n) \/ n.p.sdp.type = "answer"
    PROVE  WnInv(V!GiveUp(n))
<1> DEFINE g == n.skipped \/ n.p.sdp.type = "answer"
           idle == V!Idle
           m == [n EXCEPT !.p = idle, !.skipped = g]
<1>1. V!GiveUp(n) = m
  BY DEF V!GiveUp, WnBase, WnStates
<1>2. g \in BOOLEAN /\ idle \in WnWork({"idle", "cleaning", "gathering", "merge"})
      /\ idle.pc = "idle" /\ idle.updating = FALSE
  BY WnIdle
<1> HIDE DEF idle, g
<1>3. m \in WnStates
  BY <1>2 DEF WnBase, WnStates
<1>4. /\ m.flags = n.flags /\ m.agent = n.agent /\ m.w = n.w /\ m.p = idle /\ m.skipped = g
      /\ m.applied = n.applied /\ m.pend = n.pend /\ m.sent = n.sent /\ m.offered = n.offered
  BY <1>2 DEF WnBase, WnStates
<1> HIDE DEF m
<1>5. WnBase(m)
  BY <1>2, <1>3, <1>4 DEF WnBase
<1>6. Processing(m)
  BY <1>4 DEF Processing
<1>7. Flow(m)
  BY <1>4, <1>2 DEF Flow, Answering, g
<1> QED BY <1>1, <1>5, <1>6, <1>7 DEF WnInv

\* A plugin's offer, after the clean-up of what was before.
LEMMA WnLocalOffer ==
    ASSUME NEW n, WnInv(n), NEW sdp, n.p.sdp.type = "offer", WnAssumption
    PROVE  WnInv(V!LocalOffer(n, sdp))
<1> DEFINE m == [n EXCEPT !.p.pc = "merge", !.p.updating = TRUE]
           o == V!janus_ice_setup_local(n)
           q == [o EXCEPT !.p.pc = "gathering"]
<1>1. \/ V!LocalOffer(n, sdp) = m \/ V!LocalOffer(n, sdp) = V!GiveUp(n)
      \/ V!LocalOffer(n, sdp) = q
  BY DEF V!LocalOffer
<1>2. m \in WnStates
  BY DEF WnInv, WnBase, WnStates, WnWork
<1>3. /\ m.flags = n.flags /\ m.agent = n.agent /\ m.w = n.w /\ m.skipped = n.skipped /\ m.p.sdp = n.p.sdp
      /\ m.applied = n.applied /\ m.pend = n.pend /\ m.sent = n.sent /\ m.offered = n.offered
  BY DEF WnInv, WnBase, WnStates, WnWork
<1> HIDE DEF m
<1>4. WnInv(m)
  BY <1>2, <1>3 DEF WnInv, WnBase, Processing, Flow, Answering
<1>5. /\ WnBase(o) /\ o.flags = n.flags \ {"ALERT"} /\ o.skipped = ("GOT_ANSWER" \in n.flags)
      /\ o.w = n.w /\ o.p = n.p /\ o.offered = n.offered
  BY WnSetup DEF WnInv
<1> HIDE DEF o
<1>6. q \in WnStates
  BY <1>5 DEF WnBase, WnStates, WnWork
<1>7. /\ q.flags = o.flags /\ q.w = o.w /\ q.skipped = o.skipped /\ q.p.sdp = o.p.sdp
      /\ q.applied = o.applied /\ q.pend = o.pend /\ q.sent = o.sent /\ q.offered = o.offered
  BY <1>5 DEF WnBase, WnStates, WnWork
<1> HIDE DEF q
<1>8. WnInv(q)
  BY <1>5, <1>6, <1>7 DEF WnInv, WnBase, Processing, Flow
<1> QED BY <1>1, <1>4, <1>8, WnGiveUp DEF WnInv

----------------------------------------------------------------------------
(* The actions.                                                              *)

\* A step that leaves alone what the invariant is about.
LEMMA WnQuiet ==
    ASSUME NEW n, WnInv(n), NEW m \in WnStates,
           m.applied = n.applied, m.pend = n.pend, m.sent = n.sent, m.p = n.p,
           m.offered = n.offered, m.skipped = n.skipped, m.agent => n.agent,
           \A f \in {"PROCESSING_OFFER", "GOT_OFFER", "GOT_ANSWER"} : f \in m.flags <=> f \in n.flags,
           \/ m.w = n.w
           \/ /\ m.w.pc # "unlocked" /\ n.w.pc # "unlocked"
              /\ m.w.pc = "cleaning" => m.w.sdp.type \in {"offer", "answer", "other"}
    PROVE  WnInv(m)
BY DEF WnInv, WnBase, Processing, Flow, Answering

\* A new handle.
LEMMA WnInitial == ASSUME WnAssumption, V!Init PROVE WnInv(wn)
<1> DEFINE e == << >>
           idle == V!Idle
           none == {}
<1>1. wn = [flags |-> none, agent |-> FALSE, cdone |-> "no", pend |-> e, applied |-> e, sent |-> 0,
            remote |-> FALSE, rtx |-> e, lock |-> 0, w |-> idle, p |-> idle, messages |-> 0,
            events |-> 0, offered |-> FALSE, skipped |-> FALSE]
  BY DEF V!Init
<1>2. /\ e \in Seq(Nat) /\ DOMAIN e = {} /\ e \in WnTypes
      /\ none \in SUBSET V!Rtx!Flags /\ "PROCESSING_OFFER" \notin none /\ "GOT_OFFER" \notin none
  BY DEF WnTypes
<1>3. /\ idle \in WnWork({"idle", "cleaning", "unlocked"})
      /\ idle \in WnWork({"idle", "cleaning", "gathering", "merge"})
      /\ idle.pc = "idle" /\ idle.updating = FALSE
  BY WnIdle
<1> HIDE DEF e, idle, none
<1>4. wn \in WnStates
  BY <1>1, <1>2, <1>3 DEF WnStates, WnAssumption
<1>5. wn.flags = none /\ wn.pend = e /\ wn.applied = e /\ wn.p = idle /\ wn.w = idle
  BY <1>1
<1> QED BY <1>2, <1>3, <1>4, <1>5 DEF WnInv, WnBase, Processing, Flow, Once

\* The steps of the ICE thread: gathering, candidates done, the alert.
LEMMA WnIce ==
    ASSUME WnInv(wn), WnAssumption,
           (\E r \in {"yes", "err"} : V!CandidatesDone(r)) \/ V!WebrtcUp \/ V!WebrtcHangup
    PROVE  WnInv(wn')
<1>0. wn \in WnStates
  BY DEF WnInv, WnBase
<1>1. ASSUME NEW r \in {"yes", "err"}, V!CandidatesDone(r) PROVE WnInv(wn')
  <2>1. wn' = [wn EXCEPT !.cdone = r]
    BY <1>1 DEF V!CandidatesDone
  <2>2. wn' \in WnStates
    BY <1>0, <2>1 DEF WnStates
  <2>3. /\ wn'.applied = wn.applied /\ wn'.pend = wn.pend /\ wn'.sent = wn.sent /\ wn'.p = wn.p
        /\ wn'.offered = wn.offered /\ wn'.skipped = wn.skipped /\ wn'.agent = wn.agent
        /\ wn'.flags = wn.flags /\ wn'.w = wn.w
    BY <1>0, <2>1 DEF WnStates
  <2> QED BY <2>2, <2>3, WnQuiet
<1>2. ASSUME NEW fs \in SUBSET {"READY", "ALERT", "CLEANING"}, wn' = V!Set(wn, fs) PROVE WnInv(wn')
  <2>2. wn' \in WnStates
    BY <1>0, <1>2 DEF WnStates, V!Set, V!Rtx!Flags
  <2>3. /\ wn'.applied = wn.applied /\ wn'.pend = wn.pend /\ wn'.sent = wn.sent /\ wn'.p = wn.p
        /\ wn'.offered = wn.offered /\ wn'.skipped = wn.skipped /\ wn'.agent = wn.agent
        /\ wn'.flags = wn.flags \cup fs /\ wn'.w = wn.w
    BY <1>0, <1>2 DEF WnStates, V!Set
  <2> QED BY <2>2, <2>3, WnQuiet
<1>3. CASE V!WebrtcUp
  BY <1>2, <1>3 DEF V!WebrtcUp
<1>4. CASE V!WebrtcHangup
  BY <1>2, <1>4 DEF V!WebrtcHangup
<1> QED BY <1>1, <1>3, <1>4

\* janus_ice_webrtc_free takes the agent and its candidates.
LEMMA WnFree == ASSUME WnInv(wn), WnAssumption, V!WebrtcFree PROVE WnInv(wn')
<1> DEFINE e == << >>
           f == wn.flags \ {"CLEANING", "READY", "START", "ICE_RESTART"}
<1>0. wn \in WnStates
  BY DEF WnInv, WnBase
<1>1. wn' = [wn EXCEPT !.flags = f, !.agent = FALSE, !.cdone = "no", !.pend = e, !.applied = e, !.rtx = e,
                       !.remote = FALSE]
  BY <1>0 DEF V!WebrtcFree, V!Clear, WnStates
<1>2. f \in SUBSET V!Rtx!Flags /\ e \in Seq(Nat) /\ e \in WnTypes /\ DOMAIN e = {}
      /\ ("PROCESSING_OFFER" \in f => "PROCESSING_OFFER" \in wn.flags)
  BY <1>0 DEF WnTypes, WnStates
<1> HIDE DEF e, f
<1>3. wn' \in WnStates
  BY <1>0, <1>1, <1>2 DEF WnStates
<1>4. /\ wn'.flags = f /\ wn'.pend = e /\ wn'.applied = e /\ wn'.p = wn.p /\ wn'.w = wn.w
      /\ wn'.offered = wn.offered /\ wn'.agent = FALSE
  BY <1>0, <1>1 DEF WnStates
<1> QED BY <1>2, <1>3, <1>4 DEF WnInv, WnBase, Processing, Flow, Once

\* The client's messages.
LEMMA WnMessage ==
    ASSUME WnInv(wn), WnAssumption,
           NEW sdp \in V!Sdps({"invalid", "setup", "process", "anonymize"}), V!incoming_message(sdp)
    PROVE  WnInv(wn')
<1> DEFINE work == [V!Idle EXCEPT !.pc = "cleaning", !.sdp = sdp]
           k == wn.messages + 1
           n == [wn EXCEPT !.w = work, !.messages = k]
<1>0. wn \in WnStates
  BY DEF WnInv, WnBase
<1>k. k \in Nat
  BY <1>0 DEF WnStates
<1>1. wn.w.pc = "idle" /\ wn' = IF "CLEANING" \in n.flags THEN n ELSE V!Jsep(n, sdp)
  BY <1>0 DEF V!incoming_message, V!Has, WnStates
<1>2. sdp \in WnSdps /\ sdp.type \in {"offer", "answer", "other"}
  BY WnSdpTypes
<1>3. work \in WnWork({"idle", "cleaning", "unlocked"}) /\ work.pc = "cleaning" /\ work.sdp = sdp
  <2> DEFINE idle == V!Idle
  <2>1. idle \in WnWork({"idle", "cleaning", "unlocked"})
    BY WnIdle
  <2> HIDE DEF idle
  <2>2. [idle EXCEPT !.pc = "cleaning", !.sdp = sdp] \in WnWork({"idle", "cleaning", "unlocked"})
        /\ [idle EXCEPT !.pc = "cleaning", !.sdp = sdp].pc = "cleaning"
        /\ [idle EXCEPT !.pc = "cleaning", !.sdp = sdp].sdp = sdp
    BY <1>2, <2>1 DEF WnWork
  <2> QED BY <2>2 DEF idle
<1> HIDE DEF work, k
<1>4. n \in WnStates
  BY <1>0, <1>3, <1>k DEF WnStates
<1>5. /\ n.applied = wn.applied /\ n.pend = wn.pend /\ n.sent = wn.sent /\ n.p = wn.p
      /\ n.offered = wn.offered /\ n.skipped = wn.skipped /\ n.agent = wn.agent
      /\ n.flags = wn.flags /\ n.w = work
  BY <1>0 DEF WnStates
<1> HIDE DEF n
<1>6. WnInv(n)
  BY <1>1, <1>2, <1>3, <1>4, <1>5, WnQuiet
<1> QED BY <1>1, <1>2, <1>6, WnJsep DEF WnInv

\* The steps of the worker after it has waited or let go of the mutex.
LEMMA WnWorker ==
    ASSUME WnInv(wn), WnAssumption, V!Cleaned \/ V!WaitedEnough \/ V!ToPlugin
    PROVE  WnInv(wn')
<1> DEFINE idle == V!Idle
<1>0. wn \in WnStates /\ WnBase(wn)
  BY DEF WnInv, WnBase
<1>i. idle \in WnWork({"idle", "cleaning", "unlocked"}) /\ idle.pc = "idle"
  BY WnIdle
<1>1. CASE V!Cleaned
  <2>1. wn.w.sdp.type \in {"offer", "answer", "other"}
    BY <1>0, <1>1 DEF WnBase, V!Cleaned
  <2> QED BY <1>0, <1>1, <2>1, WnJsep DEF V!Cleaned
<1>2. CASE V!WaitedEnough
  <2>1. wn' = [wn EXCEPT !.w = idle] /\ wn.w.pc = "cleaning"
    BY <1>2 DEF V!WaitedEnough
  <2> HIDE DEF idle
  <2>2. wn' \in WnStates
    BY <1>0, <1>i, <2>1 DEF WnStates
  <2>3. /\ wn'.applied = wn.applied /\ wn'.pend = wn.pend /\ wn'.sent = wn.sent /\ wn'.p = wn.p
        /\ wn'.offered = wn.offered /\ wn'.skipped = wn.skipped /\ wn'.agent = wn.agent
        /\ wn'.flags = wn.flags /\ wn'.w = idle
    BY <1>0, <2>1 DEF WnStates
  <2> QED BY <1>i, <2>1, <2>2, <2>3, WnQuiet
<1>3. CASE V!ToPlugin
  <2> DEFINE f == wn.flags \ {"PROCESSING_OFFER"}
             m == [wn EXCEPT !.flags = f, !.w = idle]
  <2>1. wn.w.pc = "unlocked" /\ (wn' = V!Refuse(wn) \/ wn' = m)
    BY <1>0, <1>3 DEF V!ToPlugin, V!Clear, WnStates
  <2>2. f \in SUBSET V!Rtx!Flags /\ "PROCESSING_OFFER" \notin f /\ f \subseteq wn.flags
    BY <1>0 DEF WnStates
  <2> HIDE DEF f, idle
  <2>3. m \in WnStates
    BY <1>0, <1>i, <2>2 DEF WnStates
  <2>4. /\ m.applied = wn.applied /\ m.pend = wn.pend /\ m.sent = wn.sent /\ m.p = wn.p
        /\ m.skipped = wn.skipped /\ m.agent = wn.agent /\ m.flags = f /\ m.w = idle
    BY <1>0 DEF WnStates
  <2> HIDE DEF m
  <2>5. WnInv(m)
    BY <1>i, <2>1, <2>2, <2>3, <2>4 DEF WnInv, WnBase, Processing, Flow, Answering
  <2> QED BY <1>0, <2>1, <2>5, WnRefuse
<1> QED BY <1>1, <1>2, <1>3

\* A candidate of the client: it waits, it is applied, or it is not a candidate.
LEMMA WnTrickle ==
    ASSUME WnInv(wn), WnAssumption, NEW parses \in BOOLEAN, V!do_trickle(parses)
    PROVE  WnInv(wn')
<1> DEFINE f == wn.flags \cup {"TRICKLE"}
           k == wn.sent + 1
           a == Append(wn.applied, k)
           b == Append(wn.pend, k)
           l == wn.lock + 1
           n == [wn EXCEPT !.flags = f, !.sent = k]
           waits == [n EXCEPT !.pend = b]
           applies == [n EXCEPT !.applied = a]
           fails == [n EXCEPT !.lock = l]
<1>0. wn \in WnStates
  BY DEF WnInv, WnBase
<1>1. /\ wn.w.pc = "idle" /\ wn.sent < MaxTrickles
      /\ \/ wn' = waits /\ (\/ ~wn.agent \/ "PROCESSING_OFFER" \in wn.flags
                            \/ ~({"GOT_OFFER", "GOT_ANSWER"} \subseteq wn.flags))
         \/ wn' = applies \/ wn' = fails
  BY <1>0 DEF V!do_trickle, V!Set, V!Has, WnStates
<1>2. /\ f \in SUBSET V!Rtx!Flags /\ wn.sent \in Nat /\ k \in 0..MaxTrickles /\ l \in Nat
      /\ wn.applied \in Seq(Nat) /\ wn.pend \in Seq(Nat)
  BY <1>0, <1>1 DEF WnStates, WnAssumption, V!Rtx!Flags
<1>3. /\ a \in Seq(Nat) /\ b \in Seq(Nat)
      /\ Once(a, wn.pend, k) /\ Once(wn.applied, b, k) /\ Once(wn.applied, wn.pend, k)
  BY <1>2, OnceMore DEF WnInv, WnBase
<1>4. \A g \in {"PROCESSING_OFFER", "GOT_OFFER", "GOT_ANSWER"} : g \in f <=> g \in wn.flags
  OBVIOUS
<1> HIDE DEF f, k, a, b, l
<1>5. n \in WnStates
  BY <1>0, <1>2 DEF WnStates
<1>6. /\ n.flags = f /\ n.sent = k /\ n.applied = wn.applied /\ n.pend = wn.pend /\ n.w = wn.w /\ n.p = wn.p
      /\ n.agent = wn.agent /\ n.offered = wn.offered /\ n.skipped = wn.skipped
  BY <1>0 DEF WnStates
<1> HIDE DEF n
<1>7. CASE wn' = waits /\ (\/ ~wn.agent \/ "PROCESSING_OFFER" \in wn.flags
                           \/ ~({"GOT_OFFER", "GOT_ANSWER"} \subseteq wn.flags))
  <2>1. waits \in WnStates
    BY <1>3, <1>5 DEF WnStates
  <2>2. /\ waits.flags = f /\ waits.sent = k /\ waits.applied = wn.applied /\ waits.pend = b
        /\ waits.w = wn.w /\ waits.p = wn.p
        /\ waits.agent = wn.agent /\ waits.offered = wn.offered /\ waits.skipped = wn.skipped
    BY <1>5, <1>6 DEF WnStates
  <2> HIDE DEF waits
  <2> QED BY <1>1, <1>3, <1>4, <1>7, <2>1, <2>2 DEF WnInv, WnBase, Processing, Flow
<1>8. CASE wn' = applies
  <2>1. applies \in WnStates
    BY <1>3, <1>5 DEF WnStates
  <2>2. /\ applies.flags = f /\ applies.sent = k /\ applies.applied = a /\ applies.pend = wn.pend
        /\ applies.w = wn.w /\ applies.p = wn.p
        /\ applies.agent = wn.agent /\ applies.offered = wn.offered /\ applies.skipped = wn.skipped
    BY <1>5, <1>6 DEF WnStates
  <2> HIDE DEF applies
  <2> QED BY <1>1, <1>3, <1>4, <1>8, <2>1, <2>2 DEF WnInv, WnBase, Processing, Flow, Answering
<1>9. CASE wn' = fails
  <2>1. fails \in WnStates
    BY <1>2, <1>5 DEF WnStates
  <2>2. /\ fails.flags = f /\ fails.sent = k /\ fails.applied = wn.applied /\ fails.pend = wn.pend
        /\ fails.w = wn.w /\ fails.p = wn.p
        /\ fails.agent = wn.agent /\ fails.offered = wn.offered /\ fails.skipped = wn.skipped
    BY <1>5, <1>6 DEF WnStates
  <2> HIDE DEF fails
  <2> QED BY <1>1, <1>3, <1>4, <1>9, <2>1, <2>2 DEF WnInv, WnBase, Processing, Flow, Answering
<1> QED BY <1>1, <1>7, <1>8, <1>9

\* The plugin's SDP arrives: an offer makes the last answer void, an answer is
\* under way until it is merged.
LEMMA WnPluginSdp ==
    ASSUME WnInv(wn), WnAssumption,
           NEW sdp \in V!Sdps({"invalid", "setup", "anonymize", "merge"}),
           V!janus_plugin_handle_sdp(sdp)
    PROVE  WnInv(wn')
<1> DEFINE work == [V!Idle EXCEPT !.sdp = sdp]
           k == wn.events + 1
           f == IF sdp.type = "offer" THEN (wn.flags \cup {"GOT_OFFER"}) \ {"GOT_ANSWER"}
                ELSE IF sdp.type = "answer" THEN wn.flags \cup {"GOT_ANSWER"} ELSE wn.flags
           m == [wn EXCEPT !.p = work, !.events = k, !.flags = f]
           gathers == [m EXCEPT !.p.pc = "gathering"]
           cleans == [m EXCEPT !.p.pc = "cleaning"]
<1>0. wn \in WnStates
  BY DEF WnInv, WnBase
<1>1. /\ wn.p.pc = "idle"
      /\ \/ wn' = V!GiveUp(m) \/ (wn' = gathers /\ sdp.type = "answer")
         \/ (wn' = cleans /\ sdp.type = "offer") \/ (wn' = V!LocalOffer(m, sdp) /\ sdp.type = "offer")
  <2>1. sdp.type \in {"offer", "answer", "other"}
    BY WnSdpTypes
  <2> QED BY <1>0, <2>1 DEF V!janus_plugin_handle_sdp, V!Set, V!Clear, V!Has, WnStates
<1>2. sdp \in WnSdps /\ sdp.type \in {"offer", "answer", "other"}
  BY WnSdpTypes
<1>3. /\ work \in WnWork({"idle", "cleaning", "gathering", "merge"})
      /\ work.pc = "idle" /\ work.sdp = sdp /\ work.updating = FALSE
  <2> DEFINE idle == V!Idle
  <2>1. idle \in WnWork({"idle", "cleaning", "gathering", "merge"}) /\ idle.pc = "idle" /\ idle.updating = FALSE
    BY WnIdle
  <2> HIDE DEF idle
  <2>2. LET x == [idle EXCEPT !.sdp = sdp]
        IN x \in WnWork({"idle", "cleaning", "gathering", "merge"})
           /\ x.pc = "idle" /\ x.sdp = sdp /\ x.updating = FALSE
    BY <1>2, <2>1 DEF WnWork
  <2> QED BY <2>2 DEF idle
<1>4. k \in Nat /\ f \in SUBSET V!Rtx!Flags
  BY <1>0 DEF WnStates, V!Rtx!Flags
<1>5. /\ "PROCESSING_OFFER" \in f <=> "PROCESSING_OFFER" \in wn.flags
      /\ sdp.type = "offer" => "GOT_ANSWER" \notin f
      /\ sdp.type = "other" => f = wn.flags
  OBVIOUS
<1> HIDE DEF work, k, f
<1>6. m \in WnStates
  BY <1>0, <1>3, <1>4 DEF WnStates
<1>7. /\ m.flags = f /\ m.sent = wn.sent /\ m.applied = wn.applied /\ m.pend = wn.pend /\ m.w = wn.w
      /\ m.p = work /\ m.agent = wn.agent /\ m.offered = wn.offered /\ m.skipped = wn.skipped
  BY <1>0 DEF WnStates
<1> HIDE DEF m
<1>8. WnBase(m) /\ Processing(m)
  BY <1>3, <1>5, <1>6, <1>7 DEF WnInv, WnBase, Processing
<1>9. sdp.type # "answer" => Flow(m)
  BY <1>1, <1>2, <1>5, <1>7 DEF WnInv, Flow, Answering
<1>10. CASE wn' = V!GiveUp(m)
  BY <1>3, <1>7, <1>8, <1>9, <1>10, WnGiveUp
<1>11. CASE wn' = gathers /\ sdp.type = "answer"
  <2>1. gathers \in WnStates
    BY <1>6 DEF WnStates, WnWork
  <2>2. /\ gathers.flags = f /\ gathers.sent = wn.sent /\ gathers.applied = wn.applied
        /\ gathers.pend = wn.pend /\ gathers.w = wn.w /\ gathers.p.pc = "gathering"
        /\ gathers.p.sdp = sdp /\ gathers.p.updating = FALSE /\ gathers.offered = wn.offered
    BY <1>3, <1>6, <1>7 DEF WnStates, WnWork
  <2> HIDE DEF gathers
  <2> QED BY <1>5, <1>11, <2>1, <2>2 DEF WnInv, WnBase, Processing, Flow, Answering
<1>12. CASE wn' = cleans /\ sdp.type = "offer"
  <2>1. cleans \in WnStates
    BY <1>6 DEF WnStates, WnWork
  <2>2. /\ cleans.flags = f /\ cleans.sent = wn.sent /\ cleans.applied = wn.applied
        /\ cleans.pend = wn.pend /\ cleans.w = wn.w
        /\ cleans.p.sdp = sdp /\ cleans.offered = wn.offered
    BY <1>3, <1>6, <1>7 DEF WnStates, WnWork
  <2> HIDE DEF cleans
  <2> QED BY <1>5, <1>12, <2>1, <2>2 DEF WnInv, WnBase, Processing, Flow
<1>13. CASE wn' = V!LocalOffer(m, sdp) /\ sdp.type = "offer"
  BY <1>3, <1>7, <1>8, <1>9, <1>13, WnLocalOffer DEF WnInv
<1> QED BY <1>1, <1>10, <1>11, <1>12, <1>13

\* The steps of a plugin's description before it is merged.
LEMMA WnPlugin ==
    ASSUME WnInv(wn), WnAssumption, V!PluginCleaned \/ V!Gathered
    PROVE  WnInv(wn')
<1> DEFINE m == [wn EXCEPT !.p.pc = "merge"]
<1>0. wn \in WnStates
  BY DEF WnInv, WnBase
<1>1. CASE V!PluginCleaned
  <2>1. wn.p.sdp.type = "offer"
    BY <1>1 DEF WnInv, WnBase, V!PluginCleaned
  <2> QED BY <1>1, <2>1, WnGiveUp, WnLocalOffer DEF WnInv, V!PluginCleaned
<1>2. CASE V!Gathered
  <2>1. wn.p.pc = "gathering" /\ (wn' = m \/ wn' = V!GiveUp(wn))
    BY <1>2 DEF V!Gathered
  <2>2. m \in WnStates
    BY <1>0 DEF WnStates, WnWork
  <2>3. /\ m.flags = wn.flags /\ m.sent = wn.sent /\ m.applied = wn.applied /\ m.pend = wn.pend /\ m.w = wn.w
        /\ m.p.pc = "merge" /\ m.p.sdp = wn.p.sdp /\ m.p.updating = wn.p.updating
        /\ m.agent = wn.agent /\ m.offered = wn.offered /\ m.skipped = wn.skipped
    BY <1>0 DEF WnStates, WnWork
  <2> HIDE DEF m
  <2>4. WnInv(m)
    BY <2>1, <2>2, <2>3 DEF WnInv, WnBase, Processing, Flow, Answering
  <2> QED BY <2>1, <2>4, WnGiveUp DEF WnInv
<1> QED BY <1>1, <1>2

\* The plugin's SDP is merged: an offer holds candidates back until its answer,
\* an answer lets go of all that waited.
LEMMA WnMerge ==
    ASSUME WnInv(wn), WnAssumption, NEW types \in Ptypes, V!Merge(types)
    PROVE  WnInv(wn')
<1> DEFINE sdp == wn.p.sdp
           idle == V!Idle
           r == IF sdp.type = "offer" /\ sdp.restart THEN V!Set(wn, {"ICE_RESTART"}) ELSE wn
           n == V!RtxTypes(r, types)
           done == [n EXCEPT !.p = idle]
           offers == [V!Set(done, {"PROCESSING_OFFER"}) EXCEPT !.offered = TRUE]
<1>0. wn \in WnStates
  BY DEF WnInv, WnBase
<1>1. /\ wn.p.pc = "merge"
      /\ \/ wn' = V!GiveUp(wn) \/ wn' = V!GiveUp(n)
         \/ (wn.p.updating /\ wn' = done)
         \/ (sdp.type = "offer" /\ wn' = offers)
         \/ wn' = V!PendingTrickles(done)
  BY DEF V!Merge
<1>2. /\ r \in WnStates
      /\ \A f \in {"PROCESSING_OFFER", "GOT_OFFER", "GOT_ANSWER"} : f \in r.flags <=> f \in wn.flags
      /\ r.sent = wn.sent /\ r.applied = wn.applied /\ r.pend = wn.pend /\ r.w = wn.w /\ r.p = wn.p
      /\ r.agent = wn.agent /\ r.offered = wn.offered /\ r.skipped = wn.skipped
  <2>1. CASE r = wn
    BY <1>0, <2>1
  <2>2. CASE r = V!Set(wn, {"ICE_RESTART"})
    BY <1>0, <2>2 DEF WnStates, V!Set, V!Rtx!Flags
  <2> QED BY <2>1, <2>2
<1> HIDE DEF r
<1>3. n \in WnStates /\ n.flags = r.flags /\ n.sent = r.sent /\ n.applied = r.applied /\ n.pend = r.pend
      /\ n.w = r.w /\ n.p = r.p /\ n.agent = r.agent /\ n.offered = r.offered /\ n.skipped = r.skipped
  <2> DEFINE t == V!Rtx!RtxPayloadTypes(types)
             x == [r EXCEPT !.rtx = t]
  <2>1. n = r \/ n = x
    BY DEF V!RtxTypes
  <2>2. t \in WnTypes
    BY DEF WnTypes
  <2> HIDE DEF t, n
  <2>3. x \in WnStates /\ x.flags = r.flags /\ x.sent = r.sent /\ x.applied = r.applied /\ x.pend = r.pend
        /\ x.w = r.w /\ x.p = r.p /\ x.agent = r.agent /\ x.offered = r.offered /\ x.skipped = r.skipped
    BY <1>2, <2>2 DEF WnStates
  <2> QED BY <1>2, <2>1, <2>3
<1> HIDE DEF n
<1>4. WnInv(n)
  BY <1>2, <1>3, WnQuiet
<1>5. /\ idle \in WnWork({"idle", "cleaning", "gathering", "merge"})
      /\ idle.pc = "idle" /\ idle.updating = FALSE
  BY WnIdle
<1> HIDE DEF idle
<1>6. /\ done \in WnStates /\ done.flags = n.flags /\ done.sent = n.sent /\ done.applied = n.applied
      /\ done.pend = n.pend /\ done.w = n.w /\ done.p = idle /\ done.agent = n.agent
      /\ done.offered = n.offered /\ done.skipped = n.skipped
  BY <1>3, <1>5 DEF WnStates
<1> HIDE DEF done
<1>7. WnBase(done)
  BY <1>4, <1>5, <1>6 DEF WnInv, WnBase
<1>8. sdp.type = "offer" => WnInv(done)
  BY <1>1, <1>2, <1>3, <1>4, <1>6, <1>7 DEF WnInv, Processing, Flow, Answering
<1>9. CASE wn.p.updating /\ wn' = done
  BY <1>8, <1>9 DEF WnInv, WnBase
<1>10. CASE sdp.type = "offer" /\ wn' = offers
  <2>1. /\ offers \in WnStates /\ offers.flags = done.flags \cup {"PROCESSING_OFFER"} /\ offers.sent = done.sent
        /\ offers.applied = done.applied /\ offers.pend = done.pend /\ offers.w = done.w
        /\ offers.p = done.p /\ offers.agent = done.agent /\ offers.offered /\ offers.skipped = done.skipped
    BY <1>6 DEF WnStates, V!Set, V!Rtx!Flags
  <2> HIDE DEF offers
  <2> QED BY <1>7, <1>8, <1>10, <2>1 DEF WnInv, WnBase, Processing, Flow, Answering
<1> QED BY <1>1, <1>4, <1>7, <1>9, <1>10, WnGiveUp, WnPending DEF WnInv

\* Every step keeps the invariant.
LEMMA WnStep ==
    ASSUME WnInv(wn), WnAssumption, [V!Next]_wn
    PROVE  WnInv(wn')
<1>1. CASE UNCHANGED wn
  BY <1>1
<1>2. CASE V!Next
  BY <1>2, WnIce, WnFree, WnMessage, WnWorker, WnTrickle, WnPluginSdp, WnPlugin, WnMerge DEF V!Next
<1> QED BY <1>1, <1>2

\* The inductive invariant of the negotiation of websocket_10 holds in every reachable
\* state, whatever the order of client, worker, ICE thread and plugin.
THEOREM WnInvariant == ASSUME WnAssumption PROVE V!Spec => []WnAll
<1>1. V!Init => WnAll
  BY WnInitial DEF WnAll
<1>2. WnAll /\ [V!Next]_wn => WnAll'
  BY WnStep DEF WnAll
<1> QED BY <1>1, <1>2, PTL DEF V!Spec

\* The type invariant of WsNegotiation (janus_ice_handle in websocket_10).
THEOREM WnTypeCorrect == ASSUME WnAssumption PROVE V!Spec => []V!TypeOK
<1>1. WnAll => V!TypeOK
  <2> SUFFICES ASSUME WnInv(wn) PROVE V!TypeOK
    BY DEF WnAll
  <2>1. /\ wn.flags \subseteq V!Rtx!Flags /\ wn.cdone \in {"no", "yes", "err"}
        /\ wn.w.pc \in {"idle", "cleaning", "unlocked"}
        /\ wn.p.pc \in {"idle", "cleaning", "gathering", "merge"}
    BY DEF WnInv, WnBase, WnStates, WnWork
  <2>2. V!ToSet(wn.pend) \cup V!ToSet(wn.applied) \subseteq 1..MaxTrickles
    BY DEF WnInv, WnBase, WnStates, Once, V!ToSet, WnAssumption
  <2> QED BY <2>1, <2>2 DEF V!TypeOK
<1> QED BY <1>1, WnInvariant, PTL

\* In websocket_10 PROCESSING_OFFER is up only while a message is being worked on or an
\* offer of the plugin awaits its answer: no error path leaves it up, which would keep
\* every later candidate waiting.
THEOREM WnProcessingEnds == ASSUME WnAssumption PROVE V!Spec => []V!ProcessingEnds
<1>1. WnAll => V!ProcessingEnds
  BY DEF WnAll, WnInv, Processing, V!ProcessingEnds, V!Has
<1> QED BY <1>1, WnInvariant, PTL

\* In websocket_10 no candidate is applied twice, and none is left waiting once both
\* descriptions are there and nobody is working, but after a refused message.
THEOREM WnCandidatesFlow == ASSUME WnAssumption PROVE V!Spec => []V!CandidatesFlow
<1>1. WnAll => V!CandidatesFlow
  <2> SUFFICES ASSUME WnInv(wn) PROVE V!CandidatesFlow
    BY DEF WnAll
  <2>1. V!ToSet(wn.pend) \cap V!ToSet(wn.applied) = {}
    BY DEF WnInv, WnBase, Once, V!ToSet
  <2>2. V!IsInjective(wn.applied)
    BY DEF WnInv, WnBase, Once, V!IsInjective
  <2>3. /\ {"GOT_OFFER", "GOT_ANSWER"} \subseteq wn.flags /\ wn.agent /\ ~V!Has(wn, "PROCESSING_OFFER")
        /\ wn.w.pc = "idle" /\ wn.p.pc = "idle" /\ ~V!Has(wn, "CLEANING")
        => wn.pend = << >> \/ wn.skipped
    BY DEF WnInv, Flow, Answering, V!Has
  <2> QED BY <2>1, <2>2, <2>3 DEF V!CandidatesFlow
<1> QED BY <1>1, WnInvariant, PTL

----------------------------------------------------------------------------
(* The negotiation of the janus bridge.                                     *)

\* Descriptions, the work on one, and the states of a handle of pjanus.c.
NgSdps == [type : {"offer", "answer", "other"}, gets : Stages, restart : BOOLEAN, trickle : BOOLEAN]
NgTypes == {G!RtxPayloadTypes(types) : types \in Ptypes} \cup {<< >>}
NgWork(pcs) == [pc : pcs, sdp : NgSdps \cup {<< >>}, updating : BOOLEAN]
NgStates ==
    [flags : SUBSET G!Flags, agent : BOOLEAN, cdone : {"no", "yes", "err"}, full : BOOLEAN, pend : Seq(Nat),
     applied : Seq(Nat), sent : 0..MaxTrickles, remote : BOOLEAN, rtx : NgTypes,
     w : NgWork({"idle", "cleaning", "unlocked"}),
     p : NgWork({"idle", "cleaning", "gathering", "merge"}), messages : Nat, events : Nat,
     offered : BOOLEAN, skipped : BOOLEAN]

\* The part every state in the middle of a function has as well.
NgBase(n) ==
    /\ n \in NgStates
    /\ Once(n.applied, n.pend, n.sent)
    /\ n.p.pc = "cleaning" \/ n.p.updating => n.p.sdp.type = "offer"
    /\ n.w.pc = "cleaning" => n.w.sdp.type \in {"offer", "answer", "other"}

\* The invariant, of a record and of the variable.
NgInv(n) == NgBase(n) /\ Processing(n) /\ Flow(n)
NgAll == NgInv(ng)

\* No work is work of either kind.
LEMMA NgIdle ==
    /\ G!Idle \in NgWork({"idle", "cleaning", "unlocked"})
    /\ G!Idle \in NgWork({"idle", "cleaning", "gathering", "merge"})
    /\ G!Idle.pc = "idle" /\ G!Idle.updating = FALSE
BY DEF G!Idle, NgWork

\* The descriptions that arrive are descriptions, and have a type.
LEMMA NgSdpTypes ==
    /\ G!Sdps({"invalid", "setup", "process", "anonymize"}) \subseteq NgSdps
    /\ G!Sdps({"invalid", "setup", "anonymize", "merge"}) \subseteq NgSdps
    /\ \A sdp \in NgSdps : sdp.type \in {"offer", "answer", "other"}
<1>1. ASSUME NEW S \in SUBSET Stages PROVE G!Sdps(S) \subseteq NgSdps
  <2>1. [type : {"offer", "answer"}, gets : S, restart : {FALSE}, trickle : {TRUE}] \subseteq NgSdps
    BY DEF NgSdps
  <2>2. [type : {"offer"}, gets : {"ok"}, restart : BOOLEAN, trickle : {TRUE}] \subseteq NgSdps
    BY DEF NgSdps, Stages
  <2>3. [type : {"answer"}, gets : {"ok"}, restart : {FALSE}, trickle : BOOLEAN] \subseteq NgSdps
    BY DEF NgSdps, Stages
  <2>4. [type : {"other"}, gets : {"ok"}, restart : {FALSE}, trickle : {TRUE}] \subseteq NgSdps
    BY DEF NgSdps, Stages
  <2> QED BY <2>1, <2>2, <2>3, <2>4, Zenon DEF G!Sdps
<1> QED BY <1>1 DEF NgSdps, Stages

\* A refused message takes the flag down.
LEMMA NgRefuse ==
    ASSUME NEW n, NgBase(n)
    PROVE  NgInv(G!Refuse(n))
<1>1. G!Refuse(n) \in NgStates
  BY NgIdle DEF NgBase, NgStates, G!Refuse, G!Clear
<1>2. /\ G!Refuse(n).flags = n.flags \ {"PROCESSING_OFFER"} /\ G!Refuse(n).skipped
      /\ G!Refuse(n).applied = n.applied /\ G!Refuse(n).pend = n.pend /\ G!Refuse(n).sent = n.sent
      /\ G!Refuse(n).p = n.p /\ G!Refuse(n).w.pc = "idle"
  BY NgIdle DEF NgBase, NgStates, G!Refuse, G!Clear
<1> QED BY <1>1, <1>2 DEF NgInv, NgBase, Processing, Flow

\* The candidates that waited are applied.
LEMMA NgPending ==
    ASSUME NEW n, NgBase(n), NgAssumption
    PROVE  NgInv(G!janus_request_ice_handle_answer(n))
<1> DEFINE m == G!janus_request_ice_handle_answer(n)
           e == << >>
           b == [n EXCEPT !.pend = e, !.applied = n.applied \o n.pend, !.offered = FALSE, !.skipped = FALSE]
<1>0. /\ n.applied \in Seq(Nat) /\ n.pend \in Seq(Nat) /\ n.sent \in Nat
      /\ e \in Seq(Nat)
  BY DEF NgBase, NgStates, NgAssumption
<1>a. n.applied \o n.pend \in Seq(Nat) /\ Once(n.applied \o n.pend, e, n.sent)
  BY <1>0, OnceJoined DEF NgBase
<1>1. m = [b EXCEPT !.flags = IF "TRICKLE" \in n.flags THEN (n.flags \ {"PROCESSING_OFFER"}) \cup {"START"}
                              ELSE n.flags \ {"PROCESSING_OFFER"}]
  <2>1. n.flags = b.flags /\ n \in NgStates
    BY DEF NgBase, NgStates
  <2> QED BY <2>1 DEF NgStates, G!janus_request_ice_handle_answer, G!Clear, G!Set, G!Has
<1> HIDE DEF m, e
<1>2. b \in NgStates
  BY <1>0, <1>a DEF NgBase, NgStates
<1>3. /\ b.applied = n.applied \o n.pend /\ b.pend = e /\ b.sent = n.sent /\ b.p = n.p /\ b.w = n.w /\ b.flags = n.flags
  BY DEF NgBase, NgStates
<1> HIDE DEF b
<1>4. m.flags \subseteq G!Flags /\ "PROCESSING_OFFER" \notin m.flags
  BY <1>1, <1>2, <1>3 DEF NgStates, G!Flags
<1>5. m \in NgStates
  BY <1>1, <1>2, <1>4 DEF NgStates
<1>6. /\ m.applied = n.applied \o n.pend /\ m.pend = e /\ m.sent = n.sent /\ m.p = n.p /\ m.w = n.w
  BY <1>1, <1>2, <1>3 DEF NgStates
<1>7. NgInv(m)
  BY <1>a, <1>4, <1>5, <1>6 DEF NgInv, NgBase, Processing, Flow, e
<1> QED BY <1>7 DEF m

\* A fresh agent; the candidates applied to the old one are gone.
LEMMA NgSetup ==
    ASSUME NEW n, NgBase(n), NgAssumption
    PROVE  LET m == G!janus_ice_setup_local(n)
           IN  /\ NgBase(m)
               /\ m.flags = n.flags \ {"ALERT"} /\ m.skipped = ("GOT_ANSWER" \in n.flags)
               /\ m.w = n.w /\ m.p = n.p /\ m.offered = n.offered
<1> DEFINE e == << >>
           f == n.flags \ {"ALERT"}
           g == ("GOT_ANSWER" \in n.flags)
           m == [n EXCEPT !.flags = f, !.agent = TRUE, !.cdone = "no", !.applied = e, !.remote = FALSE,
                          !.skipped = g]
<1>0. G!janus_ice_setup_local(n) = m
  BY DEF G!janus_ice_setup_local, G!Clear, G!Has, NgBase, NgStates
<1>1. n.applied \in Seq(Nat) /\ n.pend \in Seq(Nat) /\ n.sent \in Nat /\ e \in Seq(Nat)
  BY DEF NgBase, NgStates, NgAssumption
<1>2. Once(e, n.pend, n.sent)
  BY <1>1, OnceJoined DEF NgBase
<1>3. f \in SUBSET G!Flags /\ g \in BOOLEAN
  BY DEF NgBase, NgStates
<1> HIDE DEF e, f, g
<1>4. m \in NgStates
  BY <1>1, <1>3 DEF NgBase, NgStates
<1>5. /\ m.applied = e /\ m.pend = n.pend /\ m.sent = n.sent /\ m.w = n.w /\ m.p = n.p
      /\ m.offered = n.offered /\ m.flags = f /\ m.skipped = g
  BY DEF NgBase, NgStates
<1> HIDE DEF m
<1>6. NgBase(m)
  BY <1>2, <1>4, <1>5 DEF NgBase
<1> QED BY <1>0, <1>5, <1>6 DEF f, g

\* The client's SDP, once its type is noted: whatever becomes of it the
\* invariant holds again.
LEMMA NgNewSession ==
    ASSUME NEW n, NgBase(n), NEW sdp, NgAssumption,
           sdp.type \in {"offer", "answer"},
           sdp.type = "offer" => "GOT_ANSWER" \notin n.flags
    PROVE  NgInv(G!NewSession(n, sdp))
<1>1. CASE sdp.type = "offer"
  <2> DEFINE o == G!janus_ice_setup_local(n)
             r == [o EXCEPT !.remote = TRUE, !.w.pc = "unlocked"]
  <2>1. G!NewSession(n, sdp) = IF sdp.gets = "setup" THEN G!Refuse(n)
                               ELSE IF sdp.gets = "process" THEN G!Refuse(o) ELSE r
    BY <1>1 DEF G!NewSession
  <2>2. NgBase(o) /\ o.flags = n.flags \ {"ALERT"} /\ o.p = n.p
    BY NgSetup
  <2> HIDE DEF o
  <2>3. r \in NgStates
    BY <2>2 DEF NgBase, NgStates, NgWork
  <2>4. /\ r.flags = o.flags /\ r.p = o.p /\ r.w.pc = "unlocked" /\ r.applied = o.applied
        /\ r.pend = o.pend /\ r.sent = o.sent
    BY <2>2 DEF NgBase, NgStates, NgWork
  <2> HIDE DEF r
  <2>5. NgInv(r)
    BY <1>1, <2>2, <2>3, <2>4 DEF NgInv, NgBase, Processing, Flow
  <2> QED BY <2>1, <2>2, <2>5, NgRefuse
<1>2. CASE sdp.type = "answer"
  <2> DEFINE r == [n EXCEPT !.remote = TRUE, !.w.pc = "unlocked"]
             t == IF sdp.trickle THEN G!Set(r, {"TRICKLE"}) ELSE G!Clear(r, {"TRICKLE"})
  <2>1. G!NewSession(n, sdp) = IF ~n.agent \/ sdp.gets = "process" THEN G!Refuse(n)
                               ELSE G!janus_request_ice_handle_answer(t)
    BY <1>2 DEF G!NewSession
  <2>2. r \in NgStates /\ r.w.pc = "unlocked" /\ r.p = n.p /\ r.applied = n.applied /\ r.pend = n.pend /\ r.sent = n.sent
    BY DEF NgBase, NgStates, NgWork
  <2> HIDE DEF r
  <2>3. t \in NgStates /\ t.w = r.w /\ t.p = r.p /\ t.applied = r.applied /\ t.pend = r.pend /\ t.sent = r.sent
    <3>1. CASE t = G!Set(r, {"TRICKLE"})
      BY <2>2, <3>1 DEF NgStates, G!Set, G!Flags
    <3>2. CASE t = G!Clear(r, {"TRICKLE"})
      BY <2>2, <3>2 DEF NgStates, G!Clear
    <3> QED BY <3>1, <3>2
  <2> HIDE DEF t
  <2>4. NgBase(t)
    BY <2>2, <2>3 DEF NgBase
  <2> QED BY <2>1, <2>4, NgRefuse, NgPending
<1> QED BY <1>1, <1>2

\* A step that leaves alone what the invariant is about.
LEMMA NgQuiet ==
    ASSUME NEW n, NgInv(n), NEW m \in NgStates,
           m.applied = n.applied, m.pend = n.pend, m.sent = n.sent, m.p = n.p,
           m.offered = n.offered, m.skipped = n.skipped, m.agent => n.agent,
           \A f \in {"PROCESSING_OFFER", "GOT_OFFER", "GOT_ANSWER"} : f \in m.flags <=> f \in n.flags,
           \/ m.w = n.w
           \/ /\ m.w.pc # "unlocked" /\ n.w.pc # "unlocked"
              /\ m.w.pc = "cleaning" => m.w.sdp.type \in {"offer", "answer", "other"}
    PROVE  NgInv(m)
BY DEF NgInv, NgBase, Processing, Flow, Answering

\* Flags that play no part in the negotiation come and go.
LEMMA NgMinorFlags ==
    ASSUME NEW n, NgInv(n), NEW fs \in SUBSET {"READY", "ALERT", "CLEANING", "ICE_RESTART", "RESEND_TRICKLES"}
    PROVE  NgInv(G!Set(n, fs)) /\ NgInv(G!Clear(n, fs))
<1> DEFINE s == G!Set(n, fs)
           c == G!Clear(n, fs)
<1>1. n \in NgStates
  BY DEF NgInv, NgBase
<1>2. s \in NgStates /\ c \in NgStates
  BY <1>1 DEF NgStates, G!Set, G!Clear, G!Flags
<1>3. /\ s.applied = n.applied /\ s.pend = n.pend /\ s.sent = n.sent /\ s.p = n.p
      /\ s.offered = n.offered /\ s.skipped = n.skipped /\ s.agent = n.agent
      /\ s.flags = n.flags \cup fs /\ s.w = n.w
  BY <1>1 DEF NgStates, G!Set
<1>4. /\ c.applied = n.applied /\ c.pend = n.pend /\ c.sent = n.sent /\ c.p = n.p
      /\ c.offered = n.offered /\ c.skipped = n.skipped /\ c.agent = n.agent
      /\ c.flags = n.flags \ fs /\ c.w = n.w
  BY <1>1 DEF NgStates, G!Clear
<1> QED BY <1>2, <1>3, <1>4, NgQuiet

\* The same for a description that arrives when there already is an agent.
LEMMA NgRenegotiation ==
    ASSUME NEW n, NgBase(n), NEW sdp,
           sdp.type \in {"offer", "answer"},
           sdp.type = "offer" => "GOT_ANSWER" \notin n.flags
    PROVE  NgInv(G!Renegotiation(n, sdp))
<1> DEFINE g == (sdp.type = "answer")
           r == [n EXCEPT !.w.pc = "unlocked", !.remote = TRUE, !.skipped = g, !.offered = FALSE]
           c == G!Clear(r, {"ICE_RESTART"})
<1>1. \/ G!Renegotiation(n, sdp) = G!Refuse(n)
      \/ \E x \in {r, c} : G!Renegotiation(n, sdp) \in {x, G!Set(x, {"RESEND_TRICKLES"})}
  BY DEF G!Renegotiation
<1>2. g \in BOOLEAN
  OBVIOUS
<1> HIDE DEF g
<1>3. r \in NgStates
  BY <1>2 DEF NgBase, NgStates, NgWork
<1>4. /\ r.flags = n.flags /\ r.w.pc = "unlocked" /\ r.p = n.p /\ r.skipped = g /\ r.applied = n.applied
      /\ r.pend = n.pend /\ r.sent = n.sent
  BY DEF NgBase, NgStates, NgWork
<1> HIDE DEF r
<1>5. NgInv(r)
  BY <1>3, <1>4 DEF NgInv, NgBase, Processing, Flow, g
<1>6. ASSUME NEW x, NgInv(x) PROVE NgInv(G!Clear(x, {"ICE_RESTART"})) /\ NgInv(G!Set(x, {"RESEND_TRICKLES"}))
  BY <1>6, NgMinorFlags
<1> QED BY <1>1, <1>5, <1>6, NgRefuse

\* The whole of what is done under the mutex.
LEMMA NgJsep ==
    ASSUME NEW n, NgBase(n), NEW sdp, sdp.type \in {"offer", "answer", "other"}, NgAssumption
    PROVE  NgInv(G!Jsep(n, sdp))
<1> DEFINE f == IF sdp.type = "offer" THEN (n.flags \cup {"PROCESSING_OFFER", "GOT_OFFER"}) \ {"GOT_ANSWER"}
                ELSE IF sdp.type = "answer" THEN n.flags \cup {"GOT_ANSWER"} ELSE n.flags
           m == [n EXCEPT !.flags = f]
<1>1. sdp.type # "other" => G!JsepType(n, sdp) = m
  BY DEF G!JsepType, G!Set, G!Clear, NgBase, NgStates
<1>2. f \in SUBSET G!Flags
  BY DEF NgBase, NgStates, G!Flags
<1>3. sdp.type = "offer" => "GOT_ANSWER" \notin f
  OBVIOUS
<1> HIDE DEF f
<1>4. m \in NgStates /\ m.flags = f /\ m.p = n.p /\ m.w = n.w /\ m.applied = n.applied /\ m.pend = n.pend /\ m.sent = n.sent
  BY <1>2 DEF NgBase, NgStates
<1> HIDE DEF m
<1>5. NgBase(m)
  BY <1>4 DEF NgBase
<1>6. \/ G!Jsep(n, sdp) \in {G!Refuse(n), G!Refuse(m)}
      \/ sdp.type # "other" /\ G!Jsep(n, sdp) = G!Renegotiation(m, sdp)
      \/ sdp.type # "other" /\ G!Jsep(n, sdp) = G!NewSession(m, sdp)
  BY <1>1 DEF G!Jsep
<1> QED BY <1>3, <1>4, <1>5, <1>6, NgRefuse, NgRenegotiation, NgNewSession

\* NULL is returned to the plugin.
LEMMA NgGiveUp ==
    ASSUME NEW n, NgBase(n), Processing(n),
           Flow(n) \/ n.p.sdp.type = "answer"
    PROVE  NgInv(G!GiveUp(n))
<1> DEFINE g == n.skipped \/ n.p.sdp.type = "answer"
           idle == G!Idle
           m == [n EXCEPT !.p = idle, !.skipped = g]
<1>1. G!GiveUp(n) = m
  BY DEF G!GiveUp, NgBase, NgStates
<1>2. g \in BOOLEAN /\ idle \in NgWork({"idle", "cleaning", "gathering", "merge"})
      /\ idle.pc = "idle" /\ idle.updating = FALSE
  BY NgIdle
<1> HIDE DEF idle, g
<1>3. m \in NgStates
  BY <1>2 DEF NgBase, NgStates
<1>4. /\ m.flags = n.flags /\ m.agent = n.agent /\ m.w = n.w /\ m.p = idle /\ m.skipped = g
      /\ m.applied = n.applied /\ m.pend = n.pend /\ m.sent = n.sent /\ m.offered = n.offered
  BY <1>2 DEF NgBase, NgStates
<1> HIDE DEF m
<1>5. NgBase(m)
  BY <1>2, <1>3, <1>4 DEF NgBase
<1>6. Processing(m)
  BY <1>4 DEF Processing
<1>7. Flow(m)
  BY <1>4, <1>2 DEF Flow, Answering, g
<1> QED BY <1>1, <1>5, <1>6, <1>7 DEF NgInv

\* A plugin's offer, after the clean-up of what was before.
LEMMA NgLocalOffer ==
    ASSUME NEW n, NgInv(n), NEW sdp, n.p.sdp.type = "offer", NgAssumption
    PROVE  NgInv(G!PluginOffer(n, sdp))
<1> DEFINE m == [n EXCEPT !.p.pc = "merge", !.p.updating = TRUE]
           o == G!janus_ice_setup_local(n)
           q == [o EXCEPT !.p.pc = IF n.full THEN "merge" ELSE "gathering"]
<1>1. \/ G!PluginOffer(n, sdp) = m \/ G!PluginOffer(n, sdp) = G!GiveUp(n)
      \/ G!PluginOffer(n, sdp) = q
  BY DEF G!PluginOffer
<1>2. m \in NgStates
  BY DEF NgInv, NgBase, NgStates, NgWork
<1>3. /\ m.flags = n.flags /\ m.agent = n.agent /\ m.w = n.w /\ m.skipped = n.skipped /\ m.p.sdp = n.p.sdp
      /\ m.applied = n.applied /\ m.pend = n.pend /\ m.sent = n.sent /\ m.offered = n.offered
  BY DEF NgInv, NgBase, NgStates, NgWork
<1> HIDE DEF m
<1>4. NgInv(m)
  BY <1>2, <1>3 DEF NgInv, NgBase, Processing, Flow, Answering
<1>5. /\ NgBase(o) /\ o.flags = n.flags \ {"ALERT"} /\ o.skipped = ("GOT_ANSWER" \in n.flags)
      /\ o.w = n.w /\ o.p = n.p /\ o.offered = n.offered
  BY NgSetup DEF NgInv
<1> HIDE DEF o
<1>6. q \in NgStates
  BY <1>5, ZenonT(60) DEF NgBase, NgStates, NgWork
<1>7. /\ q.flags = o.flags /\ q.w = o.w /\ q.skipped = o.skipped /\ q.p.sdp = o.p.sdp
      /\ q.applied = o.applied /\ q.pend = o.pend /\ q.sent = o.sent /\ q.offered = o.offered
  BY <1>5 DEF NgBase, NgStates, NgWork
<1> HIDE DEF q
<1>8. NgInv(q)
  BY <1>5, <1>6, <1>7, ZenonT(60) DEF NgInv, NgBase, Processing, Flow
<1> QED BY <1>1, <1>4, <1>8, NgGiveUp DEF NgInv

----------------------------------------------------------------------------
(* The actions.                                                              *)

\* A new handle.
LEMMA NgInitial == ASSUME NgAssumption, G!Init PROVE NgInv(ng)
<1> DEFINE e == << >>
           idle == G!Idle
           none == {}
<1>1. PICK full \in FullTrickle :
        ng = [flags |-> none, agent |-> FALSE, cdone |-> "no", full |-> full, pend |-> e, applied |-> e,
              sent |-> 0, remote |-> FALSE, rtx |-> e, w |-> idle, p |-> idle, messages |-> 0,
              events |-> 0, offered |-> FALSE, skipped |-> FALSE]
  BY DEF G!Init
<1>2. /\ e \in Seq(Nat) /\ DOMAIN e = {} /\ e \in NgTypes
      /\ none \in SUBSET G!Flags /\ "PROCESSING_OFFER" \notin none /\ "GOT_OFFER" \notin none
  BY DEF NgTypes
<1>3. /\ idle \in NgWork({"idle", "cleaning", "unlocked"})
      /\ idle \in NgWork({"idle", "cleaning", "gathering", "merge"})
      /\ idle.pc = "idle" /\ idle.updating = FALSE
  BY NgIdle
<1> HIDE DEF e, idle, none
<1>4. ng \in NgStates
  BY <1>1, <1>2, <1>3 DEF NgStates, NgAssumption
<1>5. ng.flags = none /\ ng.pend = e /\ ng.applied = e /\ ng.p = idle /\ ng.w = idle
  BY <1>1
<1> QED BY <1>2, <1>3, <1>4, <1>5 DEF NgInv, NgBase, Processing, Flow, Once

\* The steps of the ICE thread: gathering, candidates done, the alert.
LEMMA NgIce ==
    ASSUME NgInv(ng), NgAssumption,
           (\E r \in {"yes", "err"} : G!CandidatesDone(r)) \/ G!WebrtcUp \/ G!WebrtcHangup
    PROVE  NgInv(ng')
<1>0. ng \in NgStates
  BY DEF NgInv, NgBase
<1>1. ASSUME NEW r \in {"yes", "err"}, G!CandidatesDone(r) PROVE NgInv(ng')
  <2>1. ng' = [ng EXCEPT !.cdone = r]
    BY <1>1 DEF G!CandidatesDone
  <2>2. ng' \in NgStates
    BY <1>0, <2>1 DEF NgStates
  <2>3. /\ ng'.applied = ng.applied /\ ng'.pend = ng.pend /\ ng'.sent = ng.sent /\ ng'.p = ng.p
        /\ ng'.offered = ng.offered /\ ng'.skipped = ng.skipped /\ ng'.agent = ng.agent
        /\ ng'.flags = ng.flags /\ ng'.w = ng.w
    BY <1>0, <2>1 DEF NgStates
  <2> QED BY <2>2, <2>3, NgQuiet
<1>2. CASE G!WebrtcUp
  BY <1>2, NgMinorFlags DEF G!WebrtcUp
<1>3. CASE G!WebrtcHangup
  BY <1>3, NgMinorFlags DEF G!WebrtcHangup
<1> QED BY <1>1, <1>2, <1>3

\* janus_ice_webrtc_free takes the agent and its candidates.
LEMMA NgFree == ASSUME NgInv(ng), NgAssumption, G!WebrtcFree PROVE NgInv(ng')
<1> DEFINE e == << >>
           f == ng.flags \ {"CLEANING", "READY", "START", "ICE_RESTART", "RESEND_TRICKLES"}
<1>0. ng \in NgStates
  BY DEF NgInv, NgBase
<1>1. ng' = [ng EXCEPT !.flags = f, !.agent = FALSE, !.cdone = "no", !.pend = e, !.applied = e, !.rtx = e,
                       !.remote = FALSE]
  BY <1>0 DEF G!WebrtcFree, G!Clear, NgStates
<1>2. f \in SUBSET G!Flags /\ e \in Seq(Nat) /\ e \in NgTypes /\ DOMAIN e = {}
      /\ ("PROCESSING_OFFER" \in f => "PROCESSING_OFFER" \in ng.flags)
  BY <1>0 DEF NgTypes, NgStates
<1> HIDE DEF e, f
<1>3. ng' \in NgStates
  BY <1>0, <1>1, <1>2 DEF NgStates
<1>4. /\ ng'.flags = f /\ ng'.pend = e /\ ng'.applied = e /\ ng'.p = ng.p /\ ng'.w = ng.w
      /\ ng'.offered = ng.offered /\ ng'.agent = FALSE
  BY <1>0, <1>1 DEF NgStates
<1> QED BY <1>2, <1>3, <1>4 DEF NgInv, NgBase, Processing, Flow, Once

\* The client's messages.
LEMMA NgMessage ==
    ASSUME NgInv(ng), NgAssumption,
           NEW sdp \in G!Sdps({"invalid", "setup", "process", "anonymize"}), G!Message(sdp)
    PROVE  NgInv(ng')
<1> DEFINE work == [G!Idle EXCEPT !.pc = "cleaning", !.sdp = sdp]
           k == ng.messages + 1
           n == [ng EXCEPT !.w = work, !.messages = k]
<1>0. ng \in NgStates
  BY DEF NgInv, NgBase
<1>k. k \in Nat
  BY <1>0 DEF NgStates
<1>1. ng.w.pc = "idle" /\ ng' = IF "CLEANING" \in n.flags THEN n ELSE G!Jsep(n, sdp)
  BY <1>0 DEF G!Message, G!Has, NgStates
<1>2. sdp \in NgSdps /\ sdp.type \in {"offer", "answer", "other"}
  BY NgSdpTypes
<1>3. work \in NgWork({"idle", "cleaning", "unlocked"}) /\ work.pc = "cleaning" /\ work.sdp = sdp
  <2> DEFINE idle == G!Idle
  <2>1. idle \in NgWork({"idle", "cleaning", "unlocked"})
    BY NgIdle
  <2> HIDE DEF idle
  <2>2. [idle EXCEPT !.pc = "cleaning", !.sdp = sdp] \in NgWork({"idle", "cleaning", "unlocked"})
        /\ [idle EXCEPT !.pc = "cleaning", !.sdp = sdp].pc = "cleaning"
        /\ [idle EXCEPT !.pc = "cleaning", !.sdp = sdp].sdp = sdp
    BY <1>2, <2>1 DEF NgWork
  <2> QED BY <2>2 DEF idle
<1> HIDE DEF work, k
<1>4. n \in NgStates
  BY <1>0, <1>3, <1>k DEF NgStates
<1>5. /\ n.applied = ng.applied /\ n.pend = ng.pend /\ n.sent = ng.sent /\ n.p = ng.p
      /\ n.offered = ng.offered /\ n.skipped = ng.skipped /\ n.agent = ng.agent
      /\ n.flags = ng.flags /\ n.w = work
  BY <1>0 DEF NgStates
<1> HIDE DEF n
<1>6. NgInv(n)
  BY <1>1, <1>2, <1>3, <1>4, <1>5, NgQuiet
<1> QED BY <1>1, <1>2, <1>6, NgJsep DEF NgInv

\* The steps of the worker after it has waited or let go of the mutex.
LEMMA NgWorker ==
    ASSUME NgInv(ng), NgAssumption, G!MessageCleaned \/ G!MessageWaited \/ G!MessageDone
    PROVE  NgInv(ng')
<1> DEFINE idle == G!Idle
<1>0. ng \in NgStates /\ NgBase(ng)
  BY DEF NgInv, NgBase
<1>i. idle \in NgWork({"idle", "cleaning", "unlocked"}) /\ idle.pc = "idle"
  BY NgIdle
<1>1. CASE G!MessageCleaned
  <2>1. ng.w.sdp.type \in {"offer", "answer", "other"}
    BY <1>0, <1>1 DEF NgBase, G!MessageCleaned
  <2> QED BY <1>0, <1>1, <2>1, NgJsep DEF G!MessageCleaned
<1>2. CASE G!MessageWaited
  <2>1. ng' = [ng EXCEPT !.w = idle] /\ ng.w.pc = "cleaning"
    BY <1>2 DEF G!MessageWaited
  <2> HIDE DEF idle
  <2>2. ng' \in NgStates
    BY <1>0, <1>i, <2>1 DEF NgStates
  <2>3. /\ ng'.applied = ng.applied /\ ng'.pend = ng.pend /\ ng'.sent = ng.sent /\ ng'.p = ng.p
        /\ ng'.offered = ng.offered /\ ng'.skipped = ng.skipped /\ ng'.agent = ng.agent
        /\ ng'.flags = ng.flags /\ ng'.w = idle
    BY <1>0, <2>1 DEF NgStates
  <2> QED BY <1>i, <2>1, <2>2, <2>3, NgQuiet
<1>3. CASE G!MessageDone
  <2> DEFINE f == ng.flags \ {"PROCESSING_OFFER"}
             m == [ng EXCEPT !.flags = f, !.w = idle]
  <2>1. ng.w.pc = "unlocked" /\ (ng' = G!Refuse(ng) \/ ng' = m)
    BY <1>0, <1>3 DEF G!MessageDone, G!Clear, NgStates
  <2>2. f \in SUBSET G!Flags /\ "PROCESSING_OFFER" \notin f /\ f \subseteq ng.flags
    BY <1>0 DEF NgStates
  <2> HIDE DEF f, idle
  <2>3. m \in NgStates
    BY <1>0, <1>i, <2>2 DEF NgStates
  <2>4. /\ m.applied = ng.applied /\ m.pend = ng.pend /\ m.sent = ng.sent /\ m.p = ng.p
        /\ m.skipped = ng.skipped /\ m.agent = ng.agent /\ m.flags = f /\ m.w = idle
    BY <1>0 DEF NgStates
  <2> HIDE DEF m
  <2>5. NgInv(m)
    BY <1>i, <2>1, <2>2, <2>3, <2>4 DEF NgInv, NgBase, Processing, Flow, Answering
  <2> QED BY <1>0, <2>1, <2>5, NgRefuse
<1> QED BY <1>1, <1>2, <1>3

\* A candidate of the client: it waits, it is applied, or it is not a candidate.
LEMMA NgTrickle ==
    ASSUME NgInv(ng), NgAssumption, G!Trickle
    PROVE  NgInv(ng')
<1> DEFINE f == ng.flags \cup {"TRICKLE"}
           k == ng.sent + 1
           a == Append(ng.applied, k)
           b == Append(ng.pend, k)
           n == [ng EXCEPT !.flags = f, !.sent = k]
           waits == [n EXCEPT !.pend = b]
           applies == [n EXCEPT !.applied = a]
           ignores == [ng EXCEPT !.sent = k]
<1>0. ng \in NgStates
  BY DEF NgInv, NgBase
<1>1. /\ ng.w.pc = "idle" /\ ng.sent < MaxTrickles
      /\ \/ ng' = waits /\ (\/ ~ng.agent \/ "PROCESSING_OFFER" \in ng.flags
                            \/ ~({"GOT_OFFER", "GOT_ANSWER"} \subseteq ng.flags))
         \/ ng' = applies \/ ng' = ignores
  BY <1>0 DEF G!Trickle, G!Set, G!Has, NgStates
<1>2. /\ f \in SUBSET G!Flags /\ ng.sent \in Nat /\ k \in 0..MaxTrickles
      /\ ng.applied \in Seq(Nat) /\ ng.pend \in Seq(Nat)
  BY <1>0, <1>1 DEF NgStates, NgAssumption, G!Flags
<1>3. /\ a \in Seq(Nat) /\ b \in Seq(Nat)
      /\ Once(a, ng.pend, k) /\ Once(ng.applied, b, k) /\ Once(ng.applied, ng.pend, k)
  BY <1>2, OnceMore DEF NgInv, NgBase
<1>4. \A g \in {"PROCESSING_OFFER", "GOT_OFFER", "GOT_ANSWER"} : g \in f <=> g \in ng.flags
  OBVIOUS
<1> HIDE DEF f, k, a, b
<1>5. n \in NgStates
  BY <1>0, <1>2 DEF NgStates
<1>6. /\ n.flags = f /\ n.sent = k /\ n.applied = ng.applied /\ n.pend = ng.pend /\ n.w = ng.w /\ n.p = ng.p
      /\ n.agent = ng.agent /\ n.offered = ng.offered /\ n.skipped = ng.skipped
  BY <1>0 DEF NgStates
<1> HIDE DEF n
<1>7. CASE ng' = waits /\ (\/ ~ng.agent \/ "PROCESSING_OFFER" \in ng.flags
                           \/ ~({"GOT_OFFER", "GOT_ANSWER"} \subseteq ng.flags))
  <2>1. waits \in NgStates
    BY <1>3, <1>5 DEF NgStates
  <2>2. /\ waits.flags = f /\ waits.sent = k /\ waits.applied = ng.applied /\ waits.pend = b
        /\ waits.w = ng.w /\ waits.p = ng.p
        /\ waits.agent = ng.agent /\ waits.offered = ng.offered /\ waits.skipped = ng.skipped
    BY <1>5, <1>6 DEF NgStates
  <2> HIDE DEF waits
  <2> QED BY <1>1, <1>3, <1>4, <1>7, <2>1, <2>2 DEF NgInv, NgBase, Processing, Flow
<1>8. CASE ng' = applies
  <2>1. applies \in NgStates
    BY <1>3, <1>5 DEF NgStates
  <2>2. /\ applies.flags = f /\ applies.sent = k /\ applies.applied = a /\ applies.pend = ng.pend
        /\ applies.w = ng.w /\ applies.p = ng.p
        /\ applies.agent = ng.agent /\ applies.offered = ng.offered /\ applies.skipped = ng.skipped
    BY <1>5, <1>6 DEF NgStates
  <2> HIDE DEF applies
  <2> QED BY <1>1, <1>3, <1>4, <1>8, <2>1, <2>2 DEF NgInv, NgBase, Processing, Flow, Answering
<1>9. CASE ng' = ignores
  <2>1. ignores \in NgStates
    BY <1>0, <1>2 DEF NgStates
  <2>2. /\ ignores.flags = ng.flags /\ ignores.sent = k /\ ignores.applied = ng.applied /\ ignores.pend = ng.pend
        /\ ignores.w = ng.w /\ ignores.p = ng.p
        /\ ignores.agent = ng.agent /\ ignores.offered = ng.offered /\ ignores.skipped = ng.skipped
    BY <1>0 DEF NgStates
  <2> HIDE DEF ignores
  <2> QED BY <1>1, <1>3, <1>9, <2>1, <2>2 DEF NgInv, NgBase, Processing, Flow, Answering
<1> QED BY <1>1, <1>7, <1>8, <1>9

\* The plugin's SDP arrives: an offer makes the last answer void, an answer is
\* under way until it is merged.
LEMMA NgPluginSdp ==
    ASSUME NgInv(ng), NgAssumption,
           NEW sdp \in G!Sdps({"invalid", "setup", "anonymize", "merge"}),
           G!PluginSdp(sdp)
    PROVE  NgInv(ng')
<1> DEFINE work == [G!Idle EXCEPT !.sdp = sdp]
           k == ng.events + 1
           f == IF sdp.type = "offer" THEN (ng.flags \cup {"GOT_OFFER"}) \ {"GOT_ANSWER"}
                ELSE IF sdp.type = "answer" THEN ng.flags \cup {"GOT_ANSWER"} ELSE ng.flags
           m == [ng EXCEPT !.p = work, !.events = k, !.flags = f]
           gathers == [m EXCEPT !.p.pc = IF ng.full THEN "merge" ELSE "gathering"]
           cleans == [m EXCEPT !.p.pc = "cleaning"]
<1>0. ng \in NgStates
  BY DEF NgInv, NgBase
<1>1. /\ ng.p.pc = "idle"
      /\ \/ ng' = G!GiveUp(m) \/ (ng' = gathers /\ sdp.type = "answer")
         \/ (ng' = cleans /\ sdp.type = "offer") \/ (ng' = G!PluginOffer(m, sdp) /\ sdp.type = "offer")
  <2>1. sdp.type \in {"offer", "answer", "other"}
    BY NgSdpTypes
  <2> QED BY <1>0, <2>1 DEF G!PluginSdp, G!Set, G!Clear, G!Has, NgStates
<1>2. sdp \in NgSdps /\ sdp.type \in {"offer", "answer", "other"}
  BY NgSdpTypes
<1>3. /\ work \in NgWork({"idle", "cleaning", "gathering", "merge"})
      /\ work.pc = "idle" /\ work.sdp = sdp /\ work.updating = FALSE
  <2> DEFINE idle == G!Idle
  <2>1. idle \in NgWork({"idle", "cleaning", "gathering", "merge"}) /\ idle.pc = "idle" /\ idle.updating = FALSE
    BY NgIdle
  <2> HIDE DEF idle
  <2>2. LET x == [idle EXCEPT !.sdp = sdp]
        IN x \in NgWork({"idle", "cleaning", "gathering", "merge"})
           /\ x.pc = "idle" /\ x.sdp = sdp /\ x.updating = FALSE
    BY <1>2, <2>1 DEF NgWork
  <2> QED BY <2>2 DEF idle
<1>4. k \in Nat /\ f \in SUBSET G!Flags
  BY <1>0 DEF NgStates, G!Flags
<1>5. /\ "PROCESSING_OFFER" \in f <=> "PROCESSING_OFFER" \in ng.flags
      /\ sdp.type = "offer" => "GOT_ANSWER" \notin f
      /\ sdp.type = "other" => f = ng.flags
  OBVIOUS
<1> HIDE DEF work, k, f
<1>6. m \in NgStates
  BY <1>0, <1>3, <1>4 DEF NgStates
<1>7. /\ m.flags = f /\ m.sent = ng.sent /\ m.applied = ng.applied /\ m.pend = ng.pend /\ m.w = ng.w
      /\ m.p = work /\ m.agent = ng.agent /\ m.offered = ng.offered /\ m.skipped = ng.skipped
  BY <1>0 DEF NgStates
<1> HIDE DEF m
<1>8. NgBase(m) /\ Processing(m)
  BY <1>3, <1>5, <1>6, <1>7 DEF NgInv, NgBase, Processing
<1>9. sdp.type # "answer" => Flow(m)
  BY <1>1, <1>2, <1>5, <1>7 DEF NgInv, Flow, Answering
<1>10. CASE ng' = G!GiveUp(m)
  BY <1>3, <1>7, <1>8, <1>9, <1>10, NgGiveUp
<1>11. CASE ng' = gathers /\ sdp.type = "answer"
  <2>1. gathers \in NgStates
    BY <1>6 DEF NgStates, NgWork
  <2>2. /\ gathers.flags = f /\ gathers.sent = ng.sent /\ gathers.applied = ng.applied
        /\ gathers.pend = ng.pend /\ gathers.w = ng.w /\ gathers.p.pc # "idle" /\ gathers.p.pc # "cleaning"
        /\ gathers.p.sdp = sdp /\ gathers.p.updating = FALSE /\ gathers.offered = ng.offered
    BY <1>3, <1>6, <1>7 DEF NgStates, NgWork
  <2> HIDE DEF gathers
  <2> QED BY <1>5, <1>11, <2>1, <2>2 DEF NgInv, NgBase, Processing, Flow, Answering
<1>12. CASE ng' = cleans /\ sdp.type = "offer"
  <2>1. cleans \in NgStates
    BY <1>6 DEF NgStates, NgWork
  <2>2. /\ cleans.flags = f /\ cleans.sent = ng.sent /\ cleans.applied = ng.applied
        /\ cleans.pend = ng.pend /\ cleans.w = ng.w
        /\ cleans.p.sdp = sdp /\ cleans.offered = ng.offered
    BY <1>3, <1>6, <1>7 DEF NgStates, NgWork
  <2> HIDE DEF cleans
  <2> QED BY <1>5, <1>12, <2>1, <2>2 DEF NgInv, NgBase, Processing, Flow
<1>13. CASE ng' = G!PluginOffer(m, sdp) /\ sdp.type = "offer"
  BY <1>3, <1>7, <1>8, <1>9, <1>13, NgLocalOffer DEF NgInv
<1> QED BY <1>1, <1>10, <1>11, <1>12, <1>13

\* The steps of a plugin's description before it is merged.
LEMMA NgPlugin ==
    ASSUME NgInv(ng), NgAssumption, G!PluginCleaned \/ G!PluginWaited \/ G!PluginGathered
    PROVE  NgInv(ng')
<1> DEFINE m == [ng EXCEPT !.p.pc = "merge"]
<1>0. ng \in NgStates
  BY DEF NgInv, NgBase
<1>1. CASE G!PluginCleaned
  <2>1. ng.p.sdp.type = "offer"
    BY <1>1 DEF NgInv, NgBase, G!PluginCleaned
  <2> QED BY <1>1, <2>1, NgLocalOffer DEF NgInv, G!PluginCleaned
<1>2. CASE G!PluginGathered
  <2>1. ng.p.pc = "gathering" /\ (ng' = m \/ ng' = G!GiveUp(ng))
    BY <1>2 DEF G!PluginGathered
  <2>2. m \in NgStates
    BY <1>0 DEF NgStates, NgWork
  <2>3. /\ m.flags = ng.flags /\ m.sent = ng.sent /\ m.applied = ng.applied /\ m.pend = ng.pend /\ m.w = ng.w
        /\ m.p.pc = "merge" /\ m.p.sdp = ng.p.sdp /\ m.p.updating = ng.p.updating
        /\ m.agent = ng.agent /\ m.offered = ng.offered /\ m.skipped = ng.skipped
    BY <1>0 DEF NgStates, NgWork
  <2> HIDE DEF m
  <2>4. NgInv(m)
    BY <2>1, <2>2, <2>3 DEF NgInv, NgBase, Processing, Flow, Answering
  <2> QED BY <2>1, <2>4, NgGiveUp DEF NgInv
<1>3. CASE G!PluginWaited
  BY <1>3, NgGiveUp DEF NgInv, G!PluginWaited
<1> QED BY <1>1, <1>2, <1>3

\* The plugin's SDP is merged: an offer holds candidates back until its answer,
\* an answer lets go of all that waited.
LEMMA NgMerge ==
    ASSUME NgInv(ng), NgAssumption, G!PluginMerge
    PROVE  NgInv(ng')
<1>t. PICK types \in Ptypes :
        LET sdp == ng.p.sdp
            offer == sdp.type = "offer"
            restarted == IF offer /\ sdp.restart THEN G!Set(ng, {"ICE_RESTART"}) ELSE ng
            n == IF restarted.rtx = << >>
                 THEN [restarted EXCEPT !.rtx = G!RtxPayloadTypes(types)] ELSE restarted
            done == [n EXCEPT !.p = G!Idle]
        IN  ng' = IF sdp.gets = "anonymize" THEN G!GiveUp(ng)
                  ELSE IF ~ng.agent THEN G!GiveUp(restarted)
                  ELSE IF sdp.gets = "merge" THEN G!GiveUp(n)
                  ELSE IF ng.p.updating THEN done
                  ELSE IF offer THEN [G!Set(done, {"PROCESSING_OFFER"}) EXCEPT !.offered = TRUE]
                  ELSE G!janus_request_ice_handle_answer(done)
  BY ZenonT(60) DEF G!PluginMerge
<1> DEFINE sdp == ng.p.sdp
           idle == G!Idle
           r == IF sdp.type = "offer" /\ sdp.restart THEN G!Set(ng, {"ICE_RESTART"}) ELSE ng
           n == IF r.rtx = << >> THEN [r EXCEPT !.rtx = G!RtxPayloadTypes(types)] ELSE r
           done == [n EXCEPT !.p = idle]
           offers == [G!Set(done, {"PROCESSING_OFFER"}) EXCEPT !.offered = TRUE]
<1>0. ng \in NgStates
  BY SMTT(60) DEF NgInv, NgBase
<1>1. /\ ng.p.pc = "merge"
      /\ \/ ng' = G!GiveUp(ng) \/ ng' = G!GiveUp(r) \/ ng' = G!GiveUp(n)
         \/ (ng.p.updating /\ ng' = done)
         \/ (sdp.type = "offer" /\ ng' = offers)
         \/ ng' = G!janus_request_ice_handle_answer(done)
  BY <1>t, ZenonT(60) DEF G!PluginMerge
<1>2. /\ r \in NgStates
      /\ \A f \in {"PROCESSING_OFFER", "GOT_OFFER", "GOT_ANSWER"} : f \in r.flags <=> f \in ng.flags
      /\ r.sent = ng.sent /\ r.applied = ng.applied /\ r.pend = ng.pend /\ r.w = ng.w /\ r.p = ng.p
      /\ r.agent = ng.agent /\ r.offered = ng.offered /\ r.skipped = ng.skipped
  <2>1. CASE r = ng
    BY <1>0, <2>1
  <2>2. CASE r = G!Set(ng, {"ICE_RESTART"})
    BY <1>0, <2>2 DEF NgStates, G!Set, G!Flags
  <2> QED BY <2>1, <2>2
<1> HIDE DEF r
<1>3. n \in NgStates /\ n.flags = r.flags /\ n.sent = r.sent /\ n.applied = r.applied /\ n.pend = r.pend
      /\ n.w = r.w /\ n.p = r.p /\ n.agent = r.agent /\ n.offered = r.offered /\ n.skipped = r.skipped
  <2> DEFINE t == G!RtxPayloadTypes(types)
             x == [r EXCEPT !.rtx = t]
  <2>1. n = r \/ n = x
    OBVIOUS
  <2>2. t \in NgTypes
    BY DEF NgTypes
  <2> HIDE DEF t, n
  <2>3. x \in NgStates /\ x.flags = r.flags /\ x.sent = r.sent /\ x.applied = r.applied /\ x.pend = r.pend
        /\ x.w = r.w /\ x.p = r.p /\ x.agent = r.agent /\ x.offered = r.offered /\ x.skipped = r.skipped
    BY <1>2, <2>2 DEF NgStates
  <2> QED BY <1>2, <2>1, <2>3
<1> HIDE DEF n
<1>4. NgInv(n) /\ NgInv(r)
  BY <1>2, <1>3, NgQuiet
<1>5. /\ idle \in NgWork({"idle", "cleaning", "gathering", "merge"})
      /\ idle.pc = "idle" /\ idle.updating = FALSE
  BY NgIdle
<1> HIDE DEF idle
<1>6. /\ done \in NgStates /\ done.flags = n.flags /\ done.sent = n.sent /\ done.applied = n.applied
      /\ done.pend = n.pend /\ done.w = n.w /\ done.p = idle /\ done.agent = n.agent
      /\ done.offered = n.offered /\ done.skipped = n.skipped
  BY <1>3, <1>5 DEF NgStates
<1> HIDE DEF done
<1>7. NgBase(done)
  BY <1>4, <1>5, <1>6 DEF NgInv, NgBase
<1>8. sdp.type = "offer" => NgInv(done)
  BY <1>1, <1>2, <1>3, <1>4, <1>6, <1>7 DEF NgInv, Processing, Flow, Answering
<1>9. CASE ng.p.updating /\ ng' = done
  BY <1>8, <1>9 DEF NgInv, NgBase
<1>10. CASE sdp.type = "offer" /\ ng' = offers
  <2>1. /\ offers \in NgStates /\ offers.flags = done.flags \cup {"PROCESSING_OFFER"} /\ offers.sent = done.sent
        /\ offers.applied = done.applied /\ offers.pend = done.pend /\ offers.w = done.w
        /\ offers.p = done.p /\ offers.agent = done.agent /\ offers.offered /\ offers.skipped = done.skipped
    BY <1>6 DEF NgStates, G!Set, G!Flags
  <2> HIDE DEF offers
  <2> QED BY <1>7, <1>8, <1>10, <2>1 DEF NgInv, NgBase, Processing, Flow, Answering
<1> QED BY <1>1, <1>4, <1>7, <1>9, <1>10, NgGiveUp, NgPending, SMTT(60) DEF NgInv

\* Every step keeps the invariant.
LEMMA NgStep ==
    ASSUME NgInv(ng), NgAssumption, [G!Next]_ng
    PROVE  NgInv(ng')
<1>1. CASE UNCHANGED ng
  BY <1>1
<1>2. CASE G!Next
  BY <1>2, NgIce, NgFree, NgMessage, NgWorker, NgTrickle, NgPluginSdp, NgPlugin, NgMerge DEF G!Next
<1> QED BY <1>1, <1>2

\* The inductive invariant of the negotiation of the janus bridge holds in every reachable
\* state, whatever the order of client, worker, ICE thread and plugin.
THEOREM NgInvariant == ASSUME NgAssumption PROVE G!Spec => []NgAll
<1>1. G!Init => NgAll
  BY NgInitial DEF NgAll
<1>2. NgAll /\ [G!Next]_ng => NgAll'
  BY NgStep DEF NgAll
<1> QED BY <1>1, <1>2, PTL DEF G!Spec

\* The type invariant of JanusNegotiation (janus_ice_handle in the janus bridge).
THEOREM NgTypeCorrect == ASSUME NgAssumption PROVE G!Spec => []G!TypeOK
<1>1. NgAll => G!TypeOK
  <2> SUFFICES ASSUME NgInv(ng) PROVE G!TypeOK
    BY DEF NgAll
  <2>1. /\ ng.flags \subseteq G!Flags /\ ng.cdone \in {"no", "yes", "err"}
        /\ ng.w.pc \in {"idle", "cleaning", "unlocked"}
        /\ ng.p.pc \in {"idle", "cleaning", "gathering", "merge"}
    BY DEF NgInv, NgBase, NgStates, NgWork
  <2>2. G!ToSet(ng.pend) \cup G!ToSet(ng.applied) \subseteq 1..MaxTrickles
    BY DEF NgInv, NgBase, NgStates, Once, G!ToSet, NgAssumption
  <2> QED BY <2>1, <2>2 DEF G!TypeOK
<1> QED BY <1>1, NgInvariant, PTL

\* In the janus bridge PROCESSING_OFFER is up only while a message is being worked on or an
\* offer of the plugin awaits its answer.
THEOREM NgProcessingEnds == ASSUME NgAssumption PROVE G!Spec => []G!ProcessingEnds
<1>1. NgAll => G!ProcessingEnds
  BY DEF NgAll, NgInv, Processing, G!ProcessingEnds, G!Has
<1> QED BY <1>1, NgInvariant, PTL

\* In the janus bridge no candidate is applied twice, and none is left waiting once both
\* descriptions are there and nobody is working, but after a refused message.
THEOREM NgCandidatesFlow == ASSUME NgAssumption PROVE G!Spec => []G!CandidatesFlow
<1>1. NgAll => G!CandidatesFlow
  <2> SUFFICES ASSUME NgInv(ng) PROVE G!CandidatesFlow
    BY DEF NgAll
  <2>1. G!ToSet(ng.pend) \cap G!ToSet(ng.applied) = {}
    BY DEF NgInv, NgBase, Once, G!ToSet
  <2>2. \A i, j \in DOMAIN ng.applied : i # j => ng.applied[i] # ng.applied[j]
    BY DEF NgInv, NgBase, Once
  <2>3. /\ {"GOT_OFFER", "GOT_ANSWER"} \subseteq ng.flags /\ ng.agent /\ ~G!Has(ng, "PROCESSING_OFFER")
        /\ ng.w.pc = "idle" /\ ng.p.pc = "idle" /\ ~G!Has(ng, "CLEANING")
        => ng.pend = << >> \/ ng.skipped
    BY DEF NgInv, Flow, Answering, G!Has
  <2> QED BY <2>1, <2>2, <2>3 DEF G!CandidatesFlow
<1> QED BY <1>1, NgInvariant, PTL

----------------------------------------------------------------------------
(* The sessions of websocket_10 (WsSessions).                               *)

CONSTANTS Conns, MaxSessions, MaxHandles
VARIABLE ws
W == INSTANCE WsSessions

\* What is assumed of the constants: sessions and handles are bounded in number.
WsAssumption == MaxSessions \in Nat /\ MaxHandles \in Nat

WsSession == [state : {"none", "live", "freed"}, table : BOOLEAN, old : BOOLEAN, destroy : BOOLEAN,
              timeout : BOOLEAN, idle : BOOLEAN, hs : SUBSET W!Handles, mutex : BOOLEAN,
              timer : {"no", "set", "due"}]
WsHandle == [live : BOOLEAN, s : 0..MaxSessions, app : BOOLEAN, STOP : BOOLEAN, ALERT : BOOLEAN,
             by : Conns \cup {""}, late : BOOLEAN]
WsWorker == [pc : {"idle", "found", "schedule", "waiting", "stuck", "jam"}, c : Conns \cup {""},
             req : W!Types \cup {""}, s : 0..MaxSessions, h : 0..MaxHandles, over : BOOLEAN]
WsPush == [h : 0..MaxHandles, over : BOOLEAN]
WsStates ==
    [s : [W!Sessions -> WsSession], h : [W!Handles -> WsHandle],
     conns : [Conns -> [open : BOOLEAN, sender : 0..MaxHandles]], w : WsWorker,
     d : [pc : {"idle", "reap", "stuck", "jam"}, s : 0..MaxSessions], push : WsPush,
     plugin : BOOLEAN, sent : {<< >>} \cup (W!Handles \X SUBSET Conns),
     faults : SUBSET {"request", "push", "late", "timer", "over"}]

\* A session is in one table at a time, has a timer only among the old ones, and what is
\* missing of that is what the request that destroys it is about to do, or what a thread
\* that is stuck left undone.
InTable(x, mine, d) ==
    /\ x.table => x.state = "live" /\ ~x.old /\ x.timer = "no"
    /\ x.old => x.state = "live" /\ x.destroy
    /\ x.timer # "no" => x.old
    /\ x.destroy => x.state = "live"
    /\ x.state = "live" => x.table \/ x.old \/ d = "stuck"
    /\ x.table /\ x.destroy => mine \/ d = "jam"
    /\ x.old /\ x.timer = "no" => mine
Mine(n, i) == n.w.pc \in {"schedule", "jam"} /\ n.w.s = i
Tabled(n) == \A i \in W!Sessions : InTable(n.s[i], Mine(n, i), n.d.pc)

\* A session that somebody has found lives and is not yet due, until he outlasts its grace
\* period.
Fresh(x) == x.state = "live" /\ x.timer # "due"
Pushing(n) ==
    n.push.h # 0 =>
      /\ n.h[n.push.h].live /\ n.h[n.push.h].s \in W!Sessions
      /\ n.push.over \/ Fresh(n.s[n.h[n.push.h].s])

\* What the threads have in their hands: besides such sessions, the one that is to be
\* scheduled, which has no timer, and the one that is to be reaped, which is in the table.
Working(n) ==
    /\ n.w.pc # "idle" => n.w.s \in W!Sessions /\ n.w.c \in Conns
    /\ n.w.pc \in {"found", "waiting"} => n.w.over \/ Fresh(n.s[n.w.s])
    /\ n.w.pc = "schedule" =>
         n.s[n.w.s].state = "live" /\ n.s[n.w.s].destroy /\ n.s[n.w.s].timer = "no"
    /\ n.w.pc = "found" /\ n.w.req \in {"attach", "attach_fails"} =>
         \E j \in W!Handles : ~n.h[j].live
    /\ n.d.pc = "reap" => n.d.s \in W!Sessions /\ n.s[n.d.s].table
    /\ Pushing(n)

\* A handle that is not stopped is in the table of its session, which has no timer yet,
\* unless it came late; and a connection is told of the handles it attached.
Held(y, x, j) == ~y.STOP /\ ~y.late => j \in x.hs /\ x.state = "live" /\ x.timer = "no"
Attached(n) ==
    /\ \A j \in W!Handles : n.h[j].live => n.h[j].s \in W!Sessions /\ Held(n.h[j], n.s[n.h[j].s], j)
    /\ \A i \in W!Sessions : \A j \in n.s[i].hs : n.h[j].live
    /\ \A c \in Conns : n.conns[c].sender # 0 =>
         n.h[n.conns[c].sender].live /\ n.h[n.conns[c].sender].by = c

\* Nobody is stuck as long as there is the plugin.
Flows(n) ==
    n.plugin => /\ n.w.pc \notin {"stuck", "jam"} /\ n.d.pc \notin {"stuck", "jam"}
                /\ \A i \in W!Sessions : n.s[i].mutex

WsInv(n) ==
    /\ n \in WsStates /\ Tabled(n) /\ Working(n) /\ Attached(n) /\ Flows(n)
    /\ n.faults \subseteq {"over", "late"}
    /\ n.sent # << >> => n.h[n.sent[1]].live /\ \A c \in n.sent[2] : c = n.h[n.sent[1]].by
WsAll == WsInv(ws)

----------------------------------------------------------------------------
(* The fields of a state, and of one in which the event is forgotten.       *)

\* The type of a state, field by field.
LEMMA WsFields ==
    ASSUME NEW n \in WsStates
    PROVE  /\ n.s \in [W!Sessions -> WsSession] /\ n.h \in [W!Handles -> WsHandle]
           /\ n.conns \in [Conns -> [open : BOOLEAN, sender : 0..MaxHandles]] /\ n.w \in WsWorker
           /\ n.d \in [pc : {"idle", "reap", "stuck", "jam"}, s : 0..MaxSessions]
           /\ n.push \in WsPush /\ n.plugin \in BOOLEAN
           /\ n.sent \in {<< >>} \cup (W!Handles \X SUBSET Conns)
           /\ n.faults \in SUBSET {"request", "push", "late", "timer", "over"}
BY DEF WsStates

\* Forgetting the event of the step before keeps the invariant.
LEMMA WsQuiet ==
    ASSUME NEW n, WsInv(n)
    PROVE  /\ WsInv(W!Quiet(n)) /\ W!Quiet(n).sent = << >>
           /\ W!Quiet(n).s = n.s /\ W!Quiet(n).h = n.h /\ W!Quiet(n).conns = n.conns
           /\ W!Quiet(n).w = n.w /\ W!Quiet(n).d = n.d /\ W!Quiet(n).push = n.push
           /\ W!Quiet(n).plugin = n.plugin /\ W!Quiet(n).faults = n.faults
<1> DEFINE q == W!Quiet(n)
<1>1. n \in WsStates
  BY DEF WsInv
<1>2. q = [n EXCEPT !.sent = << >>]
  BY DEF W!Quiet
<1>3. q \in WsStates
  BY <1>1, <1>2 DEF WsStates
<1>4. /\ q.sent = << >> /\ q.s = n.s /\ q.h = n.h /\ q.conns = n.conns /\ q.w = n.w /\ q.d = n.d
      /\ q.push = n.push /\ q.plugin = n.plugin /\ q.faults = n.faults
  BY <1>1, <1>2 DEF WsStates
<1> HIDE DEF q
<1>5. WsInv(q)
  BY <1>3, <1>4 DEF WsInv, Tabled, Mine, Working, Pushing, Attached, Flows
<1> QED BY <1>4, <1>5 DEF q

\* A look at a session that lives, or by one who is known to come too late.
LEMMA WsUse ==
    ASSUME NEW n, WsInv(n), NEW i \in W!Sessions, NEW who \in {"request", "push", "late", "timer", "over"},
           n.s[i].state = "live" \/ who \in {"over", "late"}
    PROVE  LET m == W!Use(n, i, who)
           IN  /\ WsInv(m) /\ m.s = n.s /\ m.h = n.h /\ m.conns = n.conns /\ m.w = n.w /\ m.d = n.d
               /\ m.push = n.push /\ m.plugin = n.plugin /\ m.sent = n.sent
<1> DEFINE m == W!Use(n, i, who)
<1>1. n \in WsStates
  BY DEF WsInv
<1>2. CASE n.s[i].state = "live"
  <2>1. m = n
    BY <1>2 DEF W!Use
  <2> QED BY <2>1
<1>3. CASE n.s[i].state # "live"
  <2>1. m = [n EXCEPT !.faults = @ \cup {who}] /\ who \in {"over", "late"}
    BY <1>3 DEF W!Use
  <2>2. /\ m.s = n.s /\ m.h = n.h /\ m.conns = n.conns /\ m.w = n.w /\ m.d = n.d /\ m.push = n.push
        /\ m.plugin = n.plugin /\ m.sent = n.sent /\ m.faults = n.faults \cup {who}
    BY <1>1, <2>1 DEF WsStates
  <2>3. m \in WsStates
    BY <1>1, <2>1 DEF WsStates
  <2> HIDE DEF m
  <2>4. WsInv(m)
    BY <2>1, <2>2, <2>3 DEF WsInv, Tabled, Mine, Working, Pushing, Attached, Flows
  <2> QED BY <2>2, <2>4 DEF m
<1> QED BY <1>2, <1>3

\* A request that is over leaves nothing behind, if it was not to schedule a session.
LEMMA WsDone ==
    ASSUME NEW n, WsInv(n), WsAssumption,
           \/ n.w.pc \notin {"schedule", "jam"}
           \/ n.w.s \in W!Sessions /\ ~n.s[n.w.s].table /\ n.s[n.w.s].timer # "no"
    PROVE  LET m == W!Done(n)
           IN  /\ WsInv(m) /\ m.s = n.s /\ m.h = n.h /\ m.conns = n.conns /\ m.w = W!Idle /\ m.d = n.d
               /\ m.push = n.push /\ m.plugin = n.plugin /\ m.sent = n.sent
<1> DEFINE m == W!Done(n)
<1>1. n \in WsStates
  BY DEF WsInv
<1>2. m = [n EXCEPT !.w = W!Idle]
  BY DEF W!Done
<1>3. /\ m.s = n.s /\ m.h = n.h /\ m.conns = n.conns /\ m.w = W!Idle /\ m.d = n.d /\ m.push = n.push
      /\ m.plugin = n.plugin /\ m.sent = n.sent /\ m.faults = n.faults
  BY <1>1, <1>2 DEF WsStates
<1>4. W!Idle \in WsWorker /\ W!Idle.pc = "idle"
  BY DEF W!Idle, WsWorker, WsAssumption
<1> HIDE DEF m
<1>5. m \in WsStates
  BY <1>1, <1>2, <1>4 DEF WsStates
<1>6. Tabled(m)
  BY <1>3, <1>4 DEF WsInv, Tabled, InTable, Mine
<1>7. Working(m) /\ Attached(m) /\ Flows(m)
  BY <1>3, <1>4 DEF WsInv, Working, Pushing, Attached, Flows
<1> QED BY <1>3, <1>5, <1>6, <1>7 DEF WsInv, m

\* Nor has an event that is being pushed lost its session.
LEMMA WsPushing ==
    ASSUME NEW n \in WsStates, Pushing(n), NEW m, m.push = n.push,
           \A j \in W!Handles : (m.h[j].live <=> n.h[j].live) /\ m.h[j].s = n.h[j].s,
           \A k \in W!Sessions : Fresh(n.s[k]) => Fresh(m.s[k])
    PROVE  Pushing(m)
<1>1. n.push.h # 0 => n.push.h \in W!Handles
  BY WsFields DEF W!Handles, WsPush
<1> QED BY <1>1 DEF Pushing

\* The threads still have in their hands what they had, if nothing of it was taken away.
LEMMA WsWorking ==
    ASSUME NEW n \in WsStates, Working(n), NEW m, m.w = n.w, m.d = n.d, m.push = n.push,
           \A j \in W!Handles : (m.h[j].live <=> n.h[j].live) /\ m.h[j].s = n.h[j].s,
           \A k \in W!Sessions :
             /\ (n.s[k].state = "live" => m.s[k].state = "live") /\ m.s[k].timer = n.s[k].timer
             /\ (n.s[k].destroy => m.s[k].destroy) /\ (n.s[k].table => m.s[k].table)
    PROVE  Working(m)
<1>1. \A k \in W!Sessions : Fresh(n.s[k]) => Fresh(m.s[k])
  BY DEF Fresh
<1>2. n.w.pc # "idle" => n.w.s \in W!Sessions /\ n.w.c \in Conns
  BY DEF Working
<1>3. n.w.pc \in {"found", "waiting"} => n.w.over \/ Fresh(m.s[n.w.s])
  BY <1>1, <1>2 DEF Working
<1>4. n.w.pc = "schedule" => m.s[n.w.s].state = "live" /\ m.s[n.w.s].destroy /\ m.s[n.w.s].timer = "no"
  BY <1>2 DEF Working
<1>5. n.w.pc = "found" /\ n.w.req \in {"attach", "attach_fails"} => \E j \in W!Handles : ~m.h[j].live
  BY DEF Working
<1>6. n.d.pc = "reap" => n.d.s \in W!Sessions /\ m.s[n.d.s].table
  BY DEF Working
<1>7. Pushing(m)
  BY <1>1, WsPushing DEF Working
<1> QED BY <1>2, <1>3, <1>4, <1>5, <1>6, <1>7 DEF Working

\* A change of one session, of the threads and of the marks of handles: the session is in
\* its table, no handle is forgotten and the threads know what they have in their hands.
Changed(n, m, i, x) ==
    /\ m \in WsStates /\ x \in WsSession
    /\ m.s = [n.s EXCEPT ![i] = x] /\ InTable(x, Mine(m, i), m.d.pc)
    /\ \A k \in W!Sessions : k # i /\ Mine(n, k) => Mine(m, k)
    /\ n.d.pc \in {"stuck", "jam"} => m.d.pc = n.d.pc
    /\ Working(m)
    /\ \A j \in W!Handles :
         /\ (m.h[j].live <=> n.h[j].live) /\ m.h[j].s = n.h[j].s /\ m.h[j].by = n.h[j].by
         /\ (m.h[j].late <=> n.h[j].late) /\ (n.h[j].STOP => m.h[j].STOP)
         /\ n.h[j].live /\ n.h[j].s = i => Held(m.h[j], x, j)
    /\ x.hs \subseteq n.s[i].hs
    /\ \A c \in Conns : m.conns[c].sender \in {0, n.conns[c].sender}
    /\ m.plugin = n.plugin
    /\ m.plugin => x.mutex /\ m.w.pc \notin {"stuck", "jam"} /\ m.d.pc \notin {"stuck", "jam"}
    /\ m.sent = << >> /\ m.faults \subseteq {"over", "late"}

\* Such a change keeps the invariant.
LEMMA WsChange ==
    ASSUME NEW n, WsInv(n), NEW i \in W!Sessions, NEW m, NEW x, Changed(n, m, i, x)
    PROVE  WsInv(m)
<1> USE DEF Changed
<1>1. n \in WsStates /\ Tabled(n) /\ Attached(n) /\ Flows(n)
  BY DEF WsInv
<1>2. /\ n.h \in [W!Handles -> WsHandle] /\ n.s \in [W!Sessions -> WsSession]
      /\ n.conns \in [Conns -> [open : BOOLEAN, sender : 0..MaxHandles]]
  BY <1>1, WsFields
<1>3. m.s[i] = x /\ \A k \in W!Sessions : k # i => m.s[k] = n.s[k]
  BY <1>2
<1>4. Tabled(m)
  <2> SUFFICES ASSUME NEW k \in W!Sessions PROVE InTable(m.s[k], Mine(m, k), m.d.pc)
    BY DEF Tabled
  <2>1. CASE k = i
    BY <1>3, <2>1
  <2>2. CASE k # i
    <3>1. InTable(n.s[k], Mine(n, k), n.d.pc)
      BY <1>1 DEF Tabled
    <3>2. m.s[k] = n.s[k] /\ (Mine(n, k) => Mine(m, k))
      BY <1>3, <2>2
    <3> QED BY <3>1, <3>2 DEF InTable
  <2> QED BY <2>1, <2>2
<1>5. Attached(m)
  <2>1. ASSUME NEW j \in W!Handles, m.h[j].live
        PROVE  m.h[j].s \in W!Sessions /\ Held(m.h[j], m.s[m.h[j].s], j)
    <3>1. n.h[j].live /\ m.h[j].s = n.h[j].s
      BY <2>1
    <3>2. n.h[j].s \in W!Sessions /\ Held(n.h[j], n.s[n.h[j].s], j)
      BY <1>1, <3>1 DEF Attached
    <3>3. CASE n.h[j].s = i
      BY <1>3, <3>1, <3>2, <3>3
    <3>4. CASE n.h[j].s # i
      <4>1. m.s[m.h[j].s] = n.s[n.h[j].s]
        BY <1>3, <3>1, <3>2, <3>4
      <4> QED BY <3>1, <3>2, <4>1 DEF Held
    <3> QED BY <3>3, <3>4
  <2>2. ASSUME NEW k \in W!Sessions, NEW j \in m.s[k].hs PROVE m.h[j].live
    <3>1. j \in n.s[k].hs
      BY <1>3, <2>2
    <3>2. n.s[k].hs \subseteq W!Handles
      BY <1>2 DEF WsSession
    <3> QED BY <1>1, <3>1, <3>2 DEF Attached
  <2>3. ASSUME NEW c \in Conns, m.conns[c].sender # 0
        PROVE  m.h[m.conns[c].sender].live /\ m.h[m.conns[c].sender].by = c
    <3>1. m.conns[c].sender = n.conns[c].sender
      BY <2>3
    <3>2. n.conns[c].sender \in W!Handles
      BY <1>2, <2>3, <3>1 DEF W!Handles
    <3> QED BY <1>1, <2>3, <3>1, <3>2 DEF Attached
  <2> QED BY <2>1, <2>2, <2>3 DEF Attached
<1>6. Flows(m)
  BY <1>1, <1>3 DEF Flows
<1> QED BY <1>4, <1>5, <1>6 DEF WsInv

\* A change of the threads, of connections and of the marks of handles alone.
Rested(n, m) ==
    /\ m \in WsStates /\ m.s = n.s
    /\ \A k \in W!Sessions : Mine(n, k) => Mine(m, k)
    /\ n.d.pc \in {"stuck", "jam"} => m.d.pc = n.d.pc
    /\ Working(m)
    /\ \A j \in W!Handles :
         /\ (m.h[j].live <=> n.h[j].live) /\ m.h[j].s = n.h[j].s /\ m.h[j].by = n.h[j].by
         /\ (m.h[j].late <=> n.h[j].late) /\ (n.h[j].STOP => m.h[j].STOP)
    /\ \A c \in Conns : m.conns[c].sender \in {0, n.conns[c].sender}
    /\ m.plugin = n.plugin
    /\ m.plugin => m.w.pc \notin {"stuck", "jam"} /\ m.d.pc \notin {"stuck", "jam"}
    /\ m.sent = << >> /\ m.faults \subseteq {"over", "late"}

\* It keeps the invariant too.
LEMMA WsRest ==
    ASSUME NEW n, WsInv(n), NEW m, Rested(n, m)
    PROVE  WsInv(m)
<1> USE DEF Rested
<1>1. n \in WsStates /\ Tabled(n) /\ Attached(n) /\ Flows(n)
  BY DEF WsInv
<1>2. CASE W!Sessions = {}
  <2>1. Tabled(m)
    BY <1>2 DEF Tabled
  <2>2. \A j \in W!Handles : ~n.h[j].live
    BY <1>1, <1>2 DEF Attached
  <2>3. \A c \in Conns : m.conns[c].sender # 0 => n.conns[c].sender \in W!Handles
    BY <1>1, WsFields DEF W!Handles
  <2>4. Attached(m)
    BY <1>1, <1>2, <2>2, <2>3 DEF Attached
  <2>5. Flows(m)
    BY <1>1 DEF Flows
  <2> QED BY <2>1, <2>4, <2>5 DEF WsInv
<1>3. CASE W!Sessions # {}
  <2>1. PICK i \in W!Sessions : TRUE
    BY <1>3
  <2>2. n.s \in [W!Sessions -> WsSession]
    BY <1>1, WsFields
  <2> DEFINE x == n.s[i]
  <2>3. x \in WsSession /\ m.s = [n.s EXCEPT ![i] = x]
    BY <2>1, <2>2
  <2>4. InTable(x, Mine(m, i), m.d.pc)
    <3>1. InTable(x, Mine(n, i), n.d.pc)
      BY <1>1, <2>1 DEF Tabled
    <3> HIDE DEF x
    <3> QED BY <2>1, <3>1 DEF InTable
  <2>5. \A j \in W!Handles : n.h[j].live /\ n.h[j].s = i => Held(m.h[j], x, j)
    <3>1. \A j \in W!Handles : n.h[j].live /\ n.h[j].s = i => Held(n.h[j], x, j)
      BY <1>1, <2>1 DEF Attached
    <3> HIDE DEF x
    <3> QED BY <3>1 DEF Held
  <2>6. n.plugin => x.mutex
    BY <1>1, <2>1 DEF Flows
  <2>7. x.hs \subseteq n.s[i].hs
    OBVIOUS
  <2> HIDE DEF x
  <2>8. Changed(n, m, i, x)
    BY <2>1, <2>3, <2>4, <2>5, <2>6, <2>7 DEF Changed
  <2> QED BY <2>1, <2>8, WsChange
<1> QED BY <1>2, <1>3

\* The marks of a session that say how long it has been idle do not matter, and without
\* the plugin neither does its mutex.
LEMMA WsMark ==
    ASSUME NEW n, WsInv(n), n.sent = << >>, NEW i \in W!Sessions, NEW x \in WsSession,
           x.state = n.s[i].state, x.timer = n.s[i].timer, x.hs = n.s[i].hs, x.table <=> n.s[i].table,
           x.old <=> n.s[i].old, x.destroy <=> n.s[i].destroy, n.plugin /\ n.s[i].mutex => x.mutex
    PROVE  LET m == [n EXCEPT !.s[i] = x]
           IN  /\ WsInv(m) /\ m.s = [n.s EXCEPT ![i] = x] /\ m.h = n.h /\ m.conns = n.conns
               /\ m.w = n.w /\ m.d = n.d /\ m.push = n.push /\ m.plugin = n.plugin /\ m.sent = n.sent
<1> DEFINE m == [n EXCEPT !.s[i] = x]
<1>1. n \in WsStates /\ Tabled(n) /\ Working(n) /\ Attached(n) /\ Flows(n)
  BY DEF WsInv
<1>2. /\ m.s = [n.s EXCEPT ![i] = x] /\ m.h = n.h /\ m.conns = n.conns /\ m.w = n.w /\ m.d = n.d
      /\ m.push = n.push /\ m.plugin = n.plugin /\ m.sent = n.sent /\ m.faults = n.faults
  BY <1>1 DEF WsStates
<1>3. n.s \in [W!Sessions -> WsSession]
  BY <1>1, WsFields
<1>4. m \in WsStates
  BY <1>1 DEF WsStates
<1> HIDE DEF m
<1>5. InTable(x, Mine(m, i), m.d.pc)
  <2>1. InTable(n.s[i], Mine(n, i), n.d.pc)
    BY <1>1 DEF Tabled
  <2> QED BY <1>2, <2>1 DEF InTable, Mine
<1>6. \A j \in W!Handles : n.h[j].live /\ n.h[j].s = i => Held(m.h[j], x, j)
  <2>1. \A j \in W!Handles : n.h[j].live /\ n.h[j].s = i => Held(n.h[j], n.s[i], j)
    BY <1>1 DEF Attached
  <2> QED BY <1>2, <2>1 DEF Held
<1>7. \A k \in W!Sessions : m.s[k] = IF k = i THEN x ELSE n.s[k]
  BY <1>2, <1>3
<1>8. Working(m)
  <2>1. \A k \in W!Sessions :
          /\ (n.s[k].state = "live" => m.s[k].state = "live") /\ m.s[k].timer = n.s[k].timer
          /\ (n.s[k].destroy => m.s[k].destroy) /\ (n.s[k].table => m.s[k].table)
    BY <1>7
  <2> QED BY <1>1, <1>2, <2>1, WsWorking
<1>9. n.plugin => x.mutex /\ n.w.pc \notin {"stuck", "jam"} /\ n.d.pc \notin {"stuck", "jam"}
  BY <1>1 DEF Flows
<1>10. \A k \in W!Sessions : Mine(n, k) => Mine(m, k)
  BY <1>2 DEF Mine
<1>11. m.faults \subseteq {"over", "late"}
  BY <1>2 DEF WsInv
<1>12. WsInv(m)
  <2>1. Changed(n, m, i, x)
    BY <1>2, <1>4, <1>5, <1>6, <1>8, <1>9, <1>10, <1>11 DEF Changed
  <2> QED BY <1>2, <2>1, WsChange
<1> QED BY <1>2, <1>12 DEF m

\* Handles that are destroyed are stopped and leave their session's table.
LEMMA WsDrop ==
    ASSUME NEW n, WsInv(n), NEW i \in W!Sessions, NEW js \in SUBSET W!Handles,
           n.sent = << >>
    PROVE  LET m == W!DropHandles(n, i, js)
           IN  /\ WsInv(m) /\ m.conns = n.conns /\ m.w = n.w /\ m.d = n.d
               /\ m.push = n.push /\ m.plugin = n.plugin /\ m.sent = n.sent
               /\ m.s = [n.s EXCEPT ![i].hs = @ \ js] /\ DOMAIN m.h = W!Handles
               /\ \A j \in W!Handles : /\ (m.h[j].live <=> n.h[j].live) /\ m.h[j].s = n.h[j].s
                                       /\ (m.h[j].late <=> n.h[j].late)
                                       /\ (m.h[j].STOP <=> n.h[j].STOP \/ j \in js)
<1> DEFINE m == W!DropHandles(n, i, js)
           h == [j \in W!Handles |-> [n.h[j] EXCEPT !.STOP = @ \/ j \in js]]
           s == [n.s EXCEPT ![i].hs = @ \ js]
<1>1. n \in WsStates
  BY DEF WsInv
<1>2. m = [n EXCEPT !.h = h, !.s = s]
  BY <1>1 DEF W!DropHandles, W!janus_ice_handle_destroy, WsStates
<1>3. /\ m.s = s /\ m.h = h /\ m.conns = n.conns /\ m.w = n.w /\ m.d = n.d /\ m.push = n.push
      /\ m.plugin = n.plugin /\ m.sent = n.sent /\ m.faults = n.faults
  BY <1>1, <1>2 DEF WsStates
<1>4. /\ n.h \in [W!Handles -> WsHandle] /\ n.s \in [W!Sessions -> WsSession]
      /\ n.push \in WsPush /\ n.sent \in {<< >>} \cup (W!Handles \X SUBSET Conns)
      /\ n.conns \in [Conns -> [open : BOOLEAN, sender : 0..MaxHandles]]
      /\ n.w \in WsWorker /\ n.d \in [pc : {"idle", "reap", "stuck", "jam"}, s : 0..MaxSessions]
  BY <1>1, WsFields
<1>5. ASSUME NEW j \in W!Handles
      PROVE  /\ h[j] \in WsHandle
             /\ (h[j].live <=> n.h[j].live) /\ h[j].s = n.h[j].s /\ h[j].by = n.h[j].by
             /\ (h[j].late <=> n.h[j].late) /\ (h[j].STOP <=> n.h[j].STOP \/ j \in js)
  <2>1. n.h[j] \in WsHandle
    BY <1>4
  <2>2. h[j] = [n.h[j] EXCEPT !.STOP = n.h[j].STOP \/ j \in js]
    OBVIOUS
  <2>3. (n.h[j].STOP \/ j \in js) \in BOOLEAN
    OBVIOUS
  <2> HIDE DEF h
  <2> QED BY <2>1, <2>2, <2>3 DEF WsHandle
<1>6. /\ DOMAIN h = W!Handles /\ h \in [W!Handles -> WsHandle]
      /\ \A j \in W!Handles : /\ (h[j].live <=> n.h[j].live) /\ h[j].s = n.h[j].s /\ h[j].by = n.h[j].by
                              /\ (h[j].late <=> n.h[j].late) /\ (h[j].STOP <=> n.h[j].STOP \/ j \in js)
  BY <1>5
<1>7. s \in [W!Sessions -> WsSession]
  BY <1>4 DEF WsSession
<1>8. \A k \in W!Sessions :
        /\ s[k].state = n.s[k].state /\ (s[k].table <=> n.s[k].table) /\ (s[k].old <=> n.s[k].old)
        /\ (s[k].destroy <=> n.s[k].destroy) /\ s[k].timer = n.s[k].timer /\ (s[k].mutex <=> n.s[k].mutex)
        /\ s[k].hs = IF k = i THEN n.s[k].hs \ js ELSE n.s[k].hs
  <2> SUFFICES ASSUME NEW k \in W!Sessions
               PROVE  /\ s[k].state = n.s[k].state /\ (s[k].table <=> n.s[k].table) /\ (s[k].old <=> n.s[k].old)
                      /\ (s[k].destroy <=> n.s[k].destroy) /\ s[k].timer = n.s[k].timer
                      /\ (s[k].mutex <=> n.s[k].mutex)
                      /\ s[k].hs = IF k = i THEN n.s[k].hs \ js ELSE n.s[k].hs
    OBVIOUS
  <2>1. n.s[k] \in WsSession
    BY <1>4
  <2>2. CASE k # i
    BY <1>4, <2>2
  <2>3. CASE k = i
    <3>1. s[k] = [n.s[k] EXCEPT !.hs = @ \ js]
      BY <1>4, <2>3
    <3> HIDE DEF s
    <3> QED BY <2>1, <2>3, <3>1 DEF WsSession
  <2> QED BY <2>2, <2>3
<1> HIDE DEF m, h, s
<1>9. m \in WsStates
  BY <1>1, <1>2, <1>6, <1>7 DEF WsStates
<1>10. InTable(s[i], Mine(m, i), m.d.pc)
  <2>1. InTable(n.s[i], Mine(n, i), n.d.pc)
    BY DEF WsInv, Tabled
  <2> QED BY <1>3, <1>8, <2>1 DEF InTable, Mine
<1>11. Working(m)
  <2>1. Working(n)
    BY DEF WsInv
  <2>2. \A k \in W!Sessions :
          /\ (n.s[k].state = "live" => m.s[k].state = "live") /\ m.s[k].timer = n.s[k].timer
          /\ (n.s[k].destroy => m.s[k].destroy) /\ (n.s[k].table => m.s[k].table)
    BY <1>3, <1>8
  <2> QED BY <1>1, <1>3, <1>6, <2>1, <2>2, WsWorking
<1>12. ASSUME NEW j \in W!Handles, n.h[j].live, n.h[j].s = i PROVE Held(h[j], s[i], j)
  <2>1. Held(n.h[j], n.s[i], j)
    BY <1>12 DEF WsInv, Attached
  <2> QED BY <1>6, <1>8, <2>1 DEF Held
<1>13. n.plugin => n.s[i].mutex /\ n.w.pc \notin {"stuck", "jam"} /\ n.d.pc \notin {"stuck", "jam"}
  BY DEF WsInv, Flows
<1>14. m.s = [n.s EXCEPT ![i] = s[i]] /\ s[i] \in WsSession
  BY <1>3, <1>4, <1>7 DEF s
<1>15. WsInv(m)
  <2>1. \A k \in W!Sessions : k # i /\ Mine(n, k) => Mine(m, k)
    BY <1>3 DEF Mine
  <2>2. \A j \in W!Handles :
          /\ (m.h[j].live <=> n.h[j].live) /\ m.h[j].s = n.h[j].s /\ m.h[j].by = n.h[j].by
          /\ (m.h[j].late <=> n.h[j].late) /\ (n.h[j].STOP => m.h[j].STOP)
          /\ n.h[j].live /\ n.h[j].s = i => Held(m.h[j], s[i], j)
    BY <1>3, <1>6, <1>12
  <2>3. \A c \in Conns : m.conns[c].sender \in {0, n.conns[c].sender}
    BY <1>3
  <2>4. s[i].hs \subseteq n.s[i].hs /\ (m.plugin => s[i].mutex)
    BY <1>3, <1>8, <1>13
  <2>5. m.faults \subseteq {"over", "late"}
    BY <1>3 DEF WsInv
  <2>6. Changed(n, m, i, s[i])
    BY <1>3, <1>9, <1>10, <1>11, <1>13, <1>14, <2>1, <2>2, <2>3, <2>4, <2>5 DEF Changed
  <2> QED BY <1>14, <2>6, WsChange
<1> QED BY <1>3, <1>6, <1>15 DEF m, s, h

----------------------------------------------------------------------------
(* One lemma for each step of the worker, the watchdog and the plugins.     *)

\* The first session or handle that is not in use.
LEMMA WsMin ==
    ASSUME NEW S \in SUBSET Nat, S # {}
    PROVE  W!Min(S) \in S
<1>1. PICK x \in S : \A y \in S : ~ (<<y, x>> \in OpToRel(<, Nat))
  BY NatLessThanWellFounded, WFMin
<1>2. ASSUME NEW y \in S PROVE x <= y
  <2>1. <<y, x>> \in OpToRel(<, Nat) <=> y < x
    BY DEF OpToRel
  <2>2. ~(y < x)
    BY <1>1, <2>1, Zenon
  <2> QED BY <2>2
<1> QED BY <1>2 DEF W!Min

\* websocket_connect: a session is made for a connection.
LEMMA WsConnect ==
    ASSUME WsInv(ws), WsAssumption, NEW c \in Conns, W!websocket_connect(c)
    PROVE  WsInv(ws')
<1> DEFINE i == W!Min(W!Unused)
           x == [W!NoSession EXCEPT !.state = "live", !.table = TRUE]
           q == W!Quiet(ws)
           m == [[q EXCEPT !.s[i] = x] EXCEPT !.conns[c].open = TRUE]
<1>1. ws \in WsStates /\ Tabled(ws) /\ Working(ws) /\ Attached(ws) /\ Flows(ws)
  BY DEF WsInv
<1>2. i \in W!Sessions /\ ws.s[i].state = "none"
  <2>1. W!Unused \in SUBSET Nat /\ W!Unused # {}
    BY DEF W!websocket_connect, W!Unused, W!Sessions, WsAssumption
  <2>2. i \in W!Unused
    BY <2>1, WsMin
  <2> QED BY <2>2 DEF W!Unused
<1>3. ws' = m
  BY DEF W!websocket_connect, W!janus_session_create
<1> HIDE DEF i
<1>4. /\ q \in WsStates /\ q.sent = << >> /\ q.s = ws.s /\ q.h = ws.h /\ q.conns = ws.conns
      /\ q.w = ws.w /\ q.d = ws.d /\ q.push = ws.push /\ q.plugin = ws.plugin /\ q.faults = ws.faults
  BY WsQuiet DEF WsInv
<1> HIDE DEF q
<1>5. x \in WsSession /\ x.state = "live" /\ x.table /\ ~x.old /\ x.timer = "no" /\ x.mutex /\ ~x.destroy /\ x.hs = {}
  BY DEF W!NoSession, WsSession
<1> HIDE DEF x
<1>6. /\ m \in WsStates /\ m.s = [ws.s EXCEPT ![i] = x] /\ m.h = ws.h /\ m.w = ws.w /\ m.d = ws.d
      /\ m.push = ws.push /\ m.plugin = ws.plugin /\ m.faults = ws.faults /\ m.sent = << >>
      /\ m.conns = [ws.conns EXCEPT ![c].open = TRUE]
  <2>1. m = [q EXCEPT !.s = [q.s EXCEPT ![i] = x], !.conns = [q.conns EXCEPT ![c].open = TRUE]]
    BY <1>4 DEF WsStates
  <2>2. [q.conns EXCEPT ![c].open = TRUE] \in [Conns -> [open : BOOLEAN, sender : 0..MaxHandles]]
    <3>1. q.conns \in [Conns -> [open : BOOLEAN, sender : 0..MaxHandles]]
      BY <1>4, WsFields
    <3>2. [q.conns[c] EXCEPT !.open = TRUE] \in [open : BOOLEAN, sender : 0..MaxHandles]
      BY <3>1
    <3> QED BY <3>1, <3>2
  <2>3. [q.s EXCEPT ![i] = x] \in [W!Sessions -> WsSession]
    BY <1>4, <1>5, WsFields
  <2> HIDE DEF m
  <2> QED BY <1>4, <2>1, <2>2, <2>3 DEF WsStates
<1> HIDE DEF m
<1>7. ws.s \in [W!Sessions -> WsSession] /\ ws.conns \in [Conns -> [open : BOOLEAN, sender : 0..MaxHandles]]
  BY <1>1, WsFields
<1>8. InTable(x, Mine(m, i), m.d.pc)
  BY <1>5 DEF InTable
<1>9. \A j \in W!Handles : ws.h[j].live /\ ws.h[j].s = i => Held(m.h[j], x, j)
  <2>1. \A j \in W!Handles : ws.h[j].live /\ ws.h[j].s = i => Held(ws.h[j], ws.s[i], j)
    BY <1>1 DEF Attached
  <2> QED BY <1>2, <1>6, <2>1 DEF Held
<1>10. Working(m)
  <2>1. \A k \in W!Sessions : m.s[k] = IF k = i THEN x ELSE ws.s[k]
    BY <1>6, <1>7
  <2>2. InTable(ws.s[i], Mine(ws, i), ws.d.pc)
    BY <1>1, <1>2 DEF Tabled
  <2>3. ~ws.s[i].destroy /\ ~ws.s[i].table /\ ws.s[i].timer = "no"
    BY <1>2, <2>2 DEF InTable
  <2>4. \A k \in W!Sessions :
          /\ (ws.s[k].state = "live" => m.s[k].state = "live") /\ m.s[k].timer = ws.s[k].timer
          /\ (ws.s[k].destroy => m.s[k].destroy) /\ (ws.s[k].table => m.s[k].table)
    BY <1>5, <2>1, <2>3
  <2> QED BY <1>1, <1>6, <2>4, WsWorking
<1>11. ws.plugin => ws.w.pc \notin {"stuck", "jam"} /\ ws.d.pc \notin {"stuck", "jam"}
  BY <1>1 DEF Flows
<1>12. \A k \in W!Sessions : Mine(ws, k) => Mine(m, k)
  BY <1>6 DEF Mine
<1>13. m.faults \subseteq {"over", "late"}
  BY <1>6 DEF WsInv
<1>14. \A b \in Conns : m.conns[b].sender \in {0, ws.conns[b].sender}
  BY <1>6, <1>7
<1>15. x.hs \subseteq ws.s[i].hs
  BY <1>5
<1>16. WsInv(m)
  <2>1. Changed(ws, m, i, x)
    BY <1>2, <1>5, <1>6, <1>8, <1>9, <1>10, <1>11, <1>12, <1>13, <1>14, <1>15 DEF Changed
  <2> QED BY <1>2, <2>1, WsChange
<1> QED BY <1>3, <1>16

\* websocket_disconnect: the connection forgets its handle.
LEMMA WsDisconnect ==
    ASSUME WsInv(ws), WsAssumption, NEW c \in Conns, W!websocket_disconnect(c)
    PROVE  WsInv(ws')
<1> DEFINE m == [W!Quiet(ws) EXCEPT !.conns[c] = W!NoEx]
<1>1. ws \in WsStates /\ Working(ws) /\ Flows(ws)
  BY DEF WsInv
<1>2. ws' = m
  BY DEF W!websocket_disconnect
<1>3. W!Quiet(ws) \in WsStates
  BY WsQuiet DEF WsInv
<1>4. W!NoEx \in [open : BOOLEAN, sender : 0..MaxHandles] /\ W!NoEx.sender = 0
  BY DEF W!NoEx, WsAssumption
<1>5. /\ m \in WsStates /\ m.s = ws.s /\ m.h = ws.h /\ m.w = ws.w /\ m.d = ws.d
      /\ m.push = ws.push /\ m.plugin = ws.plugin /\ m.faults = ws.faults /\ m.sent = << >>
      /\ m.conns = [ws.conns EXCEPT ![c] = W!NoEx]
  BY <1>3, <1>4, WsQuiet DEF WsStates
<1> HIDE DEF m
<1>6. Working(m)
  BY <1>1, <1>5, WsWorking
<1>7. ws.plugin => ws.w.pc \notin {"stuck", "jam"} /\ ws.d.pc \notin {"stuck", "jam"}
  BY <1>1 DEF Flows
<1>8. \A k \in W!Sessions : Mine(ws, k) => Mine(m, k)
  BY <1>5 DEF Mine
<1>9. m.faults \subseteq {"over", "late"}
  BY <1>5 DEF WsInv
<1>10. \A b \in Conns : m.conns[b].sender \in {0, ws.conns[b].sender}
  BY <1>1, <1>4, <1>5, WsFields
<1>11. WsInv(m)
  <2>1. Rested(ws, m)
    BY <1>5, <1>6, <1>7, <1>8, <1>9, <1>10 DEF Rested
  <2> QED BY <2>1, WsRest
<1> QED BY <1>2, <1>11

\* The worker takes up a request, waits, or gets stuck; the watchdog may pick a session.
LEMMA WsThreads ==
    ASSUME NEW n, WsInv(n), n.sent = << >>, NEW w \in WsWorker, NEW d, NEW p \in WsPush,
           d \in [pc : {"idle", "reap", "stuck", "jam"}, s : 0..MaxSessions],
           Working([n EXCEPT !.w = w, !.d = d, !.push = p]),
           \A k \in W!Sessions : Mine(n, k) => w.pc \in {"schedule", "jam"} /\ w.s = k,
           n.d.pc \in {"stuck", "jam"} => d.pc = n.d.pc,
           n.plugin => w.pc \notin {"stuck", "jam"} /\ d.pc \notin {"stuck", "jam"}
    PROVE  WsInv([n EXCEPT !.w = w, !.d = d, !.push = p])
<1> DEFINE m == [n EXCEPT !.w = w, !.d = d, !.push = p]
<1>1. n \in WsStates
  BY DEF WsInv
<1>2. /\ m \in WsStates /\ m.s = n.s /\ m.h = n.h /\ m.w = w /\ m.d = d
      /\ m.push = p /\ m.plugin = n.plugin /\ m.faults = n.faults /\ m.sent = << >>
      /\ m.conns = n.conns
  BY <1>1 DEF WsStates
<1>3. Working(m)
  OBVIOUS
<1> HIDE DEF m
<1>4. \A k \in W!Sessions : Mine(n, k) => Mine(m, k)
  BY <1>2 DEF Mine
<1>5. m.faults \subseteq {"over", "late"}
  BY <1>2 DEF WsInv
<1>6. WsInv(m)
  <2>1. Rested(n, m)
    BY <1>2, <1>3, <1>4, <1>5 DEF Rested
  <2> QED BY <2>1, WsRest
<1> QED BY <1>6 DEF m

\* The same of the three threads one by one.
LEMMA WsThread ==
    ASSUME NEW n, WsInv(n)
    PROVE  /\ \A w : [n EXCEPT !.w = w] = [n EXCEPT !.w = w, !.d = n.d, !.push = n.push]
           /\ \A d : [n EXCEPT !.d = d] = [n EXCEPT !.w = n.w, !.d = d, !.push = n.push]
           /\ \A p : [n EXCEPT !.push = p] = [n EXCEPT !.w = n.w, !.d = n.d, !.push = p]
BY DEF WsInv, WsStates

\* The fields of a state in which the threads have moved.
LEMMA WsThreadFields ==
    ASSUME NEW n, WsInv(n), NEW w, NEW d, NEW p
    PROVE  LET m == [n EXCEPT !.w = w, !.d = d, !.push = p]
           IN  /\ m.s = n.s /\ m.h = n.h /\ m.conns = n.conns /\ m.w = w /\ m.d = d /\ m.push = p
               /\ m.plugin = n.plugin /\ m.sent = n.sent /\ m.faults = n.faults
BY DEF WsInv, WsStates

\* janus_session_find: what is found is in the table, so that it is not yet due.
LEMMA WsFind ==
    ASSUME WsInv(ws), NEW c \in Conns, NEW i \in W!Sessions, NEW req \in W!Types,
           NEW j \in {0} \cup W!Handles, WsAssumption, W!janus_session_find(c, i, req, j)
    PROVE  WsInv(ws')
<1> DEFINE q == W!Quiet(ws)
           w == [pc |-> "found", c |-> c, req |-> req, s |-> i, h |-> j, over |-> FALSE]
           m == [q EXCEPT !.w = w, !.d = q.d, !.push = q.push]
<1>1. /\ WsInv(q) /\ q.sent = << >> /\ q.s = ws.s /\ q.h = ws.h /\ q.w = ws.w /\ q.d = ws.d
  BY WsQuiet
<1>2. ws' = [q EXCEPT !.w = w] /\ ws.w.pc = "idle" /\ ws.s[i].table
      /\ (req \in {"attach", "attach_fails"} => \E k \in W!Handles : ~ws.h[k].live)
  BY DEF W!janus_session_find, W!UnusedHandles
<1> HIDE DEF q
<1>3. q \in WsStates /\ Tabled(q) /\ Working(q) /\ Flows(q)
  BY <1>1 DEF WsInv
<1>4. w \in WsWorker
  <2>1. i \in 0..MaxSessions /\ j \in 0..MaxHandles
    BY DEF W!Sessions, W!Handles, WsAssumption
  <2> QED BY <2>1 DEF WsWorker
<1>5. ws' = m
  BY <1>1, <1>2, WsThread
<1>6. /\ m.s = q.s /\ m.h = q.h /\ m.w = w /\ m.d = q.d /\ m.push = q.push
  BY <1>1, WsThreadFields
<1>7. w.pc = "found" /\ w.s = i /\ w.c = c /\ w.req = req
  OBVIOUS
<1> HIDE DEF m, w
<1>8. InTable(q.s[i], Mine(q, i), q.d.pc)
  BY <1>3 DEF Tabled
<1>9. q.s[i].state = "live" /\ q.s[i].timer = "no"
  BY <1>1, <1>2, <1>8 DEF InTable
<1>10. Working(m)
  <2>1. Pushing(m)
    BY <1>3, <1>6 DEF Working, Pushing
  <2>2. Fresh(q.s[i])
    BY <1>9 DEF Fresh
  <2> QED BY <1>1, <1>2, <1>3, <1>6, <1>7, <2>1, <2>2 DEF Working
<1>11. \A k \in W!Sessions : ~Mine(q, k)
  BY <1>1, <1>2 DEF Mine
<1>12. /\ q.push \in WsPush /\ q.d \in [pc : {"idle", "reap", "stuck", "jam"}, s : 0..MaxSessions]
  BY <1>3, WsFields
<1>13. q.plugin => w.pc \notin {"stuck", "jam"} /\ q.d.pc \notin {"stuck", "jam"}
  BY <1>3, <1>7 DEF Flows
<1>14. WsInv(m)
  BY <1>1, <1>4, <1>10, <1>11, <1>12, <1>13, WsThreads DEF m
<1> QED BY <1>5, <1>14

\* Waited: the session that was found lives, unless the wait outlasted its grace period.
LEMMA WsWaited ==
    ASSUME WsInv(ws), WsAssumption, W!Waited
    PROVE  WsInv(ws')
<1> DEFINE q == W!Quiet(ws)
           who == W!Slow(ws.w.over, "request")
           u == W!Use(q, ws.w.s, who)
<1>1. WsInv(q) /\ q.w = ws.w /\ q.s = ws.s
  BY WsQuiet
<1>2. ws' = W!Done(u) /\ ws.w.pc = "waiting"
  BY DEF W!Waited
<1>3. ws.w.s \in W!Sessions /\ (ws.w.over \/ ws.s[ws.w.s].state = "live")
  BY <1>2 DEF WsInv, Working, Fresh
<1>6. who \in {"over", "request"} /\ (q.s[ws.w.s].state = "live" \/ who = "over")
  BY <1>1, <1>3 DEF W!Slow
<1> HIDE DEF q, who
<1>4. WsInv(u) /\ u.w = q.w
  BY <1>1, <1>3, <1>6, WsUse
<1> HIDE DEF u
<1>5. u.w.pc \notin {"schedule", "jam"}
  BY <1>1, <1>2, <1>4
<1> QED BY <1>2, <1>4, <1>5, WsDone

\* session_timeout passes.
LEMMA WsExpire ==
    ASSUME WsInv(ws), NEW i \in W!Sessions, W!Expire(i)
    PROVE  WsInv(ws')
<1> DEFINE q == W!Quiet(ws)
           x == [q.s[i] EXCEPT !.idle = TRUE]
<1>1. WsInv(q) /\ q.sent = << >>
  BY WsQuiet
<1>2. ws' = [q EXCEPT !.s[i].idle = TRUE]
  BY DEF W!Expire
<1> HIDE DEF q
<1>3. q \in WsStates /\ Flows(q)
  BY <1>1 DEF WsInv
<1>4. q.s[i] \in WsSession
  BY <1>3, WsFields
<1>5. /\ x \in WsSession /\ x.state = q.s[i].state /\ x.timer = q.s[i].timer /\ x.hs = q.s[i].hs
      /\ (x.table <=> q.s[i].table) /\ (x.old <=> q.s[i].old) /\ (x.destroy <=> q.s[i].destroy)
      /\ (x.mutex <=> q.s[i].mutex)
  BY <1>4 DEF WsSession
<1>6. ws' = [q EXCEPT !.s[i] = x]
  BY <1>2, <1>3 DEF WsStates
<1> HIDE DEF x
<1> QED BY <1>1, <1>5, <1>6, WsMark

\* janus_check_sessions: what is to be reaped is in the table.
LEMMA WsCheck ==
    ASSUME WsInv(ws), NEW i \in W!Sessions, WsAssumption, W!janus_check_sessions(i)
    PROVE  WsInv(ws')
<1> DEFINE q == W!Quiet(ws)
           x == [q.s[i] EXCEPT !.timeout = TRUE]
           d == [pc |-> "reap", s |-> i]
           m == [q EXCEPT !.w = q.w, !.d = d, !.push = q.push]
<1>1. WsInv(q) /\ q.sent = << >> /\ q.s = ws.s /\ q.d = ws.d
  BY WsQuiet
<1>2. /\ \/ ws' = [q EXCEPT !.s[i].timeout = TRUE]
         \/ ws' = [q EXCEPT !.d = d]
      /\ ws.d.pc = "idle" /\ ws.s[i].table
  BY DEF W!janus_check_sessions
<1> HIDE DEF q
<1>3. q \in WsStates /\ Working(q) /\ Flows(q)
  BY <1>1 DEF WsInv
<1>4. q.s[i] \in WsSession /\ q.push \in WsPush /\ q.w \in WsWorker
  BY <1>3, WsFields
<1>5. CASE ws' = [q EXCEPT !.s[i].timeout = TRUE]
  <2>1. /\ x \in WsSession /\ x.state = q.s[i].state /\ x.timer = q.s[i].timer /\ x.hs = q.s[i].hs
        /\ (x.table <=> q.s[i].table) /\ (x.old <=> q.s[i].old) /\ (x.destroy <=> q.s[i].destroy)
        /\ (x.mutex <=> q.s[i].mutex)
    BY <1>4 DEF WsSession
  <2>2. ws' = [q EXCEPT !.s[i] = x]
    BY <1>3, <1>5 DEF WsStates
  <2> HIDE DEF x
  <2> QED BY <1>1, <2>1, <2>2, WsMark
<1>6. CASE ws' = [q EXCEPT !.d = d]
  <2>1. ws' = m
    BY <1>1, <1>6, WsThread
  <2>2. /\ m.s = q.s /\ m.h = q.h /\ m.w = q.w /\ m.d = d /\ m.push = q.push
    BY <1>1, WsThreadFields
  <2>3. d \in [pc : {"idle", "reap", "stuck", "jam"}, s : 0..MaxSessions] /\ d.pc = "reap" /\ d.s = i
    BY DEF W!Sessions, WsAssumption
  <2> HIDE DEF m, d
  <2>4. Working(m)
    BY <1>1, <1>2, <1>3, <2>2, <2>3 DEF Working, Pushing
  <2>5. \A k \in W!Sessions : Mine(q, k) => q.w.pc \in {"schedule", "jam"} /\ q.w.s = k
    BY DEF Mine
  <2>6. q.plugin => q.w.pc \notin {"stuck", "jam"} /\ d.pc \notin {"stuck", "jam"}
    BY <1>3, <2>3 DEF Flows
  <2>7. ~(q.d.pc \in {"stuck", "jam"})
    BY <1>1, <1>2
  <2>8. WsInv(m)
    BY <1>1, <1>4, <2>3, <2>4, <2>5, <2>6, <2>7, WsThreads DEF m
  <2> QED BY <2>1, <2>8
<1> QED BY <1>2, <1>5, <1>6

\* The timer of an old session rings: whoever is at work on it has outlasted its grace
\* period.
LEMMA WsGraceEnds ==
    ASSUME WsInv(ws), NEW i \in W!Sessions, W!GraceEnds(i)
    PROVE  WsInv(ws')
<1> DEFINE q == W!Quiet(ws)
           x == [q.s[i] EXCEPT !.timer = "due"]
           a == q.w.over \/ (q.w.pc \in {"found", "waiting"} /\ q.w.s = i)
           b == q.push.over \/ (q.push.h # 0 /\ q.h[q.push.h].s = i)
           w == [q.w EXCEPT !.over = a]
           p == [q.push EXCEPT !.over = b]
           m == [q EXCEPT !.s = [q.s EXCEPT ![i] = x], !.w = w, !.push = p]
<1>1. WsInv(q) /\ q.sent = << >> /\ q.s = ws.s /\ q.w = ws.w /\ q.h = ws.h /\ q.push = ws.push
  BY WsQuiet
<1>2. /\ ws' = [q EXCEPT !.s[i].timer = "due",
                   !.w.over = @ \/ (ws.w.pc \in {"found", "waiting"} /\ ws.w.s = i),
                   !.push.over = @ \/ (ws.push.h # 0 /\ ws.h[ws.push.h].s = i)]
      /\ ws.s[i].timer = "set"
  BY DEF W!GraceEnds
<1> HIDE DEF q
<1>3. q \in WsStates /\ Tabled(q) /\ Working(q) /\ Attached(q) /\ Flows(q)
  BY <1>1 DEF WsInv
<1>4. q.s[i] \in WsSession /\ q.s \in [W!Sessions -> WsSession] /\ q.w \in WsWorker /\ q.push \in WsPush
  BY <1>3, WsFields
<1>5. /\ x \in WsSession /\ x.state = q.s[i].state /\ x.timer = "due" /\ x.hs = q.s[i].hs
      /\ (x.table <=> q.s[i].table) /\ (x.old <=> q.s[i].old) /\ (x.destroy <=> q.s[i].destroy)
      /\ (x.mutex <=> q.s[i].mutex)
  BY <1>4 DEF WsSession
<1>20. a \in BOOLEAN /\ b \in BOOLEAN
  BY <1>4 DEF WsWorker, WsPush
<1>21. /\ w \in WsWorker /\ w.pc = q.w.pc /\ w.s = q.w.s /\ w.c = q.w.c /\ w.req = q.w.req /\ (w.over <=> a)
       /\ p \in WsPush /\ p.h = q.push.h /\ (p.over <=> b)
  <2> HIDE DEF a, b
  <2> QED BY <1>4, <1>20 DEF WsWorker, WsPush
<1>6. ws' = m
  BY <1>1, <1>2, <1>3 DEF WsStates
<1>22. (a <=> (q.w.over \/ (q.w.pc \in {"found", "waiting"} /\ q.w.s = i)))
       /\ (b <=> (q.push.over \/ (q.push.h # 0 /\ q.h[q.push.h].s = i)))
  OBVIOUS
<1> HIDE DEF x, w, p, a, b
<1>7. /\ m \in WsStates /\ m.s = [q.s EXCEPT ![i] = x] /\ m.h = q.h /\ m.w = w /\ m.d = q.d
      /\ m.push = p /\ m.plugin = q.plugin /\ m.faults = q.faults /\ m.sent = << >>
      /\ m.conns = q.conns
  <2>1. [q.s EXCEPT ![i] = x] \in [W!Sessions -> WsSession]
    BY <1>4, <1>5
  <2> QED BY <1>1, <1>3, <1>21, <2>1 DEF WsStates
<1> HIDE DEF m
<1>8. InTable(q.s[i], Mine(q, i), q.d.pc)
  BY <1>3 DEF Tabled
<1>9. InTable(x, Mine(m, i), m.d.pc)
  BY <1>1, <1>2, <1>5, <1>7, <1>8 DEF InTable, Mine
<1>10. \A j \in W!Handles : q.h[j].live /\ q.h[j].s = i => Held(m.h[j], x, j)
  <2>1. \A j \in W!Handles : q.h[j].live /\ q.h[j].s = i => Held(q.h[j], q.s[i], j)
    BY <1>3 DEF Attached
  <2> QED BY <1>1, <1>2, <1>7, <2>1 DEF Held
<1>11. Working(m)
  <2>1. \A k \in W!Sessions : k # i => m.s[k] = q.s[k]
    BY <1>4, <1>7
  <2>2. m.s[i] = x
    BY <1>4, <1>7
  <2>3. m.d.pc = "reap" => m.d.s \in W!Sessions /\ m.s[m.d.s].table
    BY <1>3, <1>5, <1>7, <2>1, <2>2 DEF Working
  <2>4. m.w.pc # "idle" => m.w.s \in W!Sessions /\ m.w.c \in Conns
    BY <1>3, <1>7, <1>21 DEF Working
  <2>5. m.w.pc = "schedule" =>
          m.s[m.w.s].state = "live" /\ m.s[m.w.s].destroy /\ m.s[m.w.s].timer = "no"
    BY <1>1, <1>2, <1>3, <1>7, <1>21, <2>1, <2>4 DEF Working
  <2>6. m.w.pc \in {"found", "waiting"} => m.w.over \/ Fresh(m.s[m.w.s])
    BY <1>3, <1>7, <1>21, <1>22, <2>1, <2>4 DEF Working
  <2>7. m.w.pc = "found" /\ m.w.req \in {"attach", "attach_fails"} => \E j \in W!Handles : ~m.h[j].live
    BY <1>3, <1>7, <1>21 DEF Working
  <2>8. Pushing(m)
    BY <1>3, <1>7, <1>21, <1>22, <2>1 DEF Working, Pushing
  <2> QED BY <2>3, <2>4, <2>5, <2>6, <2>7, <2>8 DEF Working
<1>12. q.plugin => x.mutex /\ m.w.pc \notin {"stuck", "jam"} /\ q.d.pc \notin {"stuck", "jam"}
  BY <1>3, <1>5, <1>7, <1>21 DEF Flows
<1>13. \A k \in W!Sessions : Mine(q, k) => Mine(m, k)
  BY <1>7, <1>21 DEF Mine
<1>14. m.faults \subseteq {"over", "late"}
  BY <1>1, <1>7 DEF WsInv
<1>15. WsInv(m)
  <2>1. Changed(q, m, i, x)
    BY <1>1, <1>5, <1>7, <1>9, <1>10, <1>11, <1>12, <1>13, <1>14 DEF Changed
  <2> QED BY <1>1, <2>1, WsChange
<1> QED BY <1>6, <1>15

\* A session goes to the old ones, and its timer is set; its handles were dropped before.
LEMMA WsAge ==
    ASSUME NEW n, WsInv(n), n.sent = << >>, NEW i \in W!Sessions, n.s[i].state = "live",
           n.s[i].timer = "no", n.s[i].hs = {}, NEW m \in WsStates, NEW x \in WsSession,
           m.s = [n.s EXCEPT ![i] = x], x.state = "live", ~x.table, x.old, x.destroy, x.timer = "set",
           x.hs = {}, x.mutex <=> n.s[i].mutex, m.h = n.h, m.conns = n.conns, m.push = n.push,
           m.plugin = n.plugin, m.sent = << >>, m.faults = n.faults,
           \A k \in W!Sessions : k # i /\ Mine(n, k) => Mine(m, k),
           n.d.pc \in {"stuck", "jam"} => m.d.pc = n.d.pc,
           m.w = n.w \/ m.w.pc = "idle", m.w.pc = "schedule" => m.w.s # i,
           m.d.pc \notin {"stuck", "jam"} \/ m.d = n.d,
           m.d.pc # "reap"
    PROVE  WsInv(m)
<1>1. n \in WsStates /\ Tabled(n) /\ Working(n) /\ Attached(n) /\ Flows(n)
  BY DEF WsInv
<1>2. n.s[i] \in WsSession /\ n.s \in [W!Sessions -> WsSession]
  BY <1>1, WsFields
<1>3. InTable(x, Mine(m, i), m.d.pc)
  BY DEF InTable
<1>4. \A j \in W!Handles : n.h[j].live /\ n.h[j].s = i => Held(m.h[j], x, j)
  <2>1. \A j \in W!Handles : n.h[j].live /\ n.h[j].s = i => Held(n.h[j], n.s[i], j)
    BY <1>1 DEF Attached
  <2> QED BY <2>1 DEF Held
<1>5. Working(m)
  <2>1. \A k \in W!Sessions : k # i => m.s[k] = n.s[k]
    BY <1>2
  <2>2. m.s[i] = x
    BY <1>2
  <2>3. m.w.pc # "idle" => m.w.s \in W!Sessions /\ m.w.c \in Conns
    BY <1>1 DEF Working
  <2>8. \A k \in W!Sessions : Fresh(n.s[k]) => Fresh(m.s[k])
    BY <2>1, <2>2 DEF Fresh
  <2>4. m.w.pc \in {"found", "waiting"} => m.w.over \/ Fresh(m.s[m.w.s])
    BY <1>1, <2>3, <2>8 DEF Working
  <2>5. m.w.pc = "schedule" =>
          m.s[m.w.s].state = "live" /\ m.s[m.w.s].destroy /\ m.s[m.w.s].timer = "no"
    BY <1>1, <2>1, <2>2, <2>3 DEF Working
  <2>6. m.w.pc = "found" /\ m.w.req \in {"attach", "attach_fails"} => \E j \in W!Handles : ~m.h[j].live
    BY <1>1 DEF Working
  <2>7. Pushing(m)
    BY <1>1, <2>8, WsPushing DEF Working
  <2> QED BY <2>3, <2>4, <2>5, <2>6, <2>7 DEF Working
<1>6. n.plugin => x.mutex /\ m.w.pc \notin {"stuck", "jam"} /\ m.d.pc \notin {"stuck", "jam"}
  BY <1>1 DEF Flows
<1>7. m.faults \subseteq {"over", "late"}
  BY DEF WsInv
<1>8. Changed(n, m, i, x)
  BY <1>3, <1>4, <1>5, <1>6, <1>7 DEF Changed
<1> QED BY <1>3, <1>8, WsChange

\* The threads still have in their hands what they had, after a change of one session.
LEMMA WsWorkingBut ==
    ASSUME NEW n \in WsStates, Working(n), NEW m, NEW i \in W!Sessions, NEW x,
           m.s = [n.s EXCEPT ![i] = x], m.w = n.w \/ m.w.pc = "idle", m.d.pc # "reap", m.push = n.push,
           \A j \in W!Handles : (m.h[j].live <=> n.h[j].live) /\ m.h[j].s = n.h[j].s,
           Fresh(n.s[i]) => Fresh(x),
           m.w.pc = "schedule" /\ m.w.s = i => x.state = "live" /\ x.destroy /\ x.timer = "no"
    PROVE  Working(m)
<1>1. \A k \in W!Sessions : m.s[k] = IF k = i THEN x ELSE n.s[k]
  BY WsFields
<1>2. m.w.pc # "idle" => m.w.s \in W!Sessions /\ m.w.c \in Conns
  BY DEF Working
<1>7. \A k \in W!Sessions : Fresh(n.s[k]) => Fresh(m.s[k])
  BY <1>1
<1>3. m.w.pc \in {"found", "waiting"} => m.w.over \/ Fresh(m.s[m.w.s])
  BY <1>2, <1>7 DEF Working
<1>4. m.w.pc = "schedule" => m.s[m.w.s].state = "live" /\ m.s[m.w.s].destroy /\ m.s[m.w.s].timer = "no"
  BY <1>1, <1>2 DEF Working
<1>5. m.w.pc = "found" /\ m.w.req \in {"attach", "attach_fails"} => \E j \in W!Handles : ~m.h[j].live
  BY DEF Working
<1>6. Pushing(m)
  BY <1>7, WsPushing DEF Working
<1> QED BY <1>2, <1>3, <1>4, <1>5, <1>6 DEF Working

\* janus_session_schedule_destruction, by the request that destroys a session.
LEMMA WsSchedule ==
    ASSUME WsInv(ws), WsAssumption, W!janus_session_schedule_destruction
    PROVE  WsInv(ws')
<1> DEFINE q == W!Quiet(ws)
           i == ws.w.s
           b == W!DropHandles(q, i, q.s[i].hs)
           x == [b.s[i] EXCEPT !.table = FALSE, !.old = TRUE, !.timer = "set"]
           m == [b EXCEPT !.s = [b.s EXCEPT ![i] = x], !.w = W!Idle]
<1>1. WsInv(q) /\ q.sent = << >> /\ q.s = ws.s /\ q.w = ws.w /\ q.d = ws.d
  BY WsQuiet
<1>2. /\ ws' = IF ws.s[i].mutex THEN W!Done(W!Schedule(q, i, TRUE)) ELSE [q EXCEPT !.w.pc = "jam"]
      /\ ws.w.pc = "schedule" /\ ws.d.pc # "reap" /\ ws.d.pc # "jam"
  BY DEF W!janus_session_schedule_destruction, W!Unlocked
<1> HIDE DEF q
<1>3. q \in WsStates /\ Tabled(q) /\ Working(q) /\ Attached(q) /\ Flows(q)
  BY <1>1 DEF WsInv
<1>4. i \in W!Sessions /\ q.s[i].state = "live" /\ q.s[i].destroy /\ q.s[i].timer = "no"
  BY <1>1, <1>2, <1>3 DEF Working
<1> HIDE DEF i
<1>5. q.s \in [W!Sessions -> WsSession] /\ q.s[i] \in WsSession /\ q.s[i].hs \in SUBSET W!Handles
  BY <1>3, <1>4, WsFields DEF WsSession
<1>6. /\ WsInv(b) /\ b.conns = q.conns /\ b.w = q.w /\ b.d = q.d /\ b.push = q.push
      /\ b.plugin = q.plugin /\ b.sent = q.sent /\ b.s = [q.s EXCEPT ![i].hs = @ \ q.s[i].hs]
  BY <1>1, <1>4, <1>5, WsDrop
<1>7. CASE ws.s[i].mutex
  <2>1. W!Done(W!Schedule(q, i, TRUE)) =
          [[b EXCEPT !.s[i] = [b.s[i] EXCEPT !.table = @ /\ ~TRUE, !.old = TRUE, !.timer = "set"]]
             EXCEPT !.w = W!Idle]
    BY DEF W!Done, W!Schedule
  <2> HIDE DEF b
  <2>2. b \in WsStates
    BY <1>6 DEF WsInv
  <2>3. b.s[i] = [q.s[i] EXCEPT !.hs = {}]
    BY <1>4, <1>5, <1>6
  <2>4. /\ b.s[i] \in WsSession /\ b.s[i].state = "live" /\ b.s[i].destroy /\ b.s[i].timer = "no"
        /\ b.s[i].hs = {}
    BY <1>4, <1>5, <2>3 DEF WsSession
  <2>5. ws' = m
    BY <1>2, <1>7, <2>1, <2>2 DEF WsStates
  <2>6. /\ x \in WsSession /\ x.state = "live" /\ ~x.table /\ x.old /\ x.destroy /\ x.timer = "set"
        /\ x.hs = {} /\ (x.mutex <=> b.s[i].mutex)
    BY <2>4 DEF WsSession
  <2> HIDE DEF x
  <2>7. W!Idle \in WsWorker /\ W!Idle.pc = "idle"
    BY DEF W!Idle, WsWorker, WsAssumption
  <2>8. /\ m \in WsStates /\ m.s = [b.s EXCEPT ![i] = x] /\ m.h = b.h /\ m.w = W!Idle /\ m.d = b.d
        /\ m.push = b.push /\ m.plugin = b.plugin /\ m.faults = b.faults /\ m.sent = << >>
        /\ m.conns = b.conns
    <3>1. [b.s EXCEPT ![i] = x] \in [W!Sessions -> WsSession]
      BY <2>2, <2>6, WsFields
    <3> QED BY <1>1, <1>6, <2>2, <2>7, <3>1 DEF WsStates
  <2> HIDE DEF m
  <2>9. \A k \in W!Sessions : k # i /\ Mine(b, k) => Mine(m, k)
    BY <1>1, <1>6 DEF Mine, i
  <2>10. m.w.pc = "idle" /\ m.d = b.d /\ m.d.pc # "reap"
    BY <1>1, <1>2, <1>6, <2>7, <2>8
  <2>11. WsInv(m)
    BY <1>1, <1>4, <1>6, <2>4, <2>6, <2>8, <2>9, <2>10, WsAge, ZenonT(60)
  <2> QED BY <2>5, <2>11
<1>8. CASE ~ws.s[i].mutex
  <2> DEFINE w == [q.w EXCEPT !.pc = "jam"]
             r == [q EXCEPT !.w = w, !.d = q.d, !.push = q.push]
  <2>1. ws' = [q EXCEPT !.w = w]
    BY <1>2, <1>3, <1>8 DEF WsStates
  <2>2. ws' = r
    BY <1>1, <2>1, WsThread
  <2>3. /\ r.s = q.s /\ r.h = q.h /\ r.w = w /\ r.d = q.d /\ r.push = q.push
    BY <1>1, WsThreadFields
  <2>4. q.w \in WsWorker /\ q.push \in WsPush
        /\ q.d \in [pc : {"idle", "reap", "stuck", "jam"}, s : 0..MaxSessions]
    BY <1>3, WsFields
  <2>5. w \in WsWorker /\ w.pc = "jam" /\ w.s = q.w.s /\ w.c = q.w.c
    BY <2>4 DEF WsWorker
  <2> HIDE DEF w, r
  <2>6. Working(r)
    BY <1>1, <1>2, <1>3, <2>3, <2>5 DEF Working, Pushing
  <2>7. \A k \in W!Sessions : Mine(q, k) => w.pc \in {"schedule", "jam"} /\ w.s = k
    BY <2>5 DEF Mine
  <2>8. ~q.plugin
    BY <1>1, <1>3, <1>4, <1>8 DEF Flows
  <2>9. WsInv(r)
    BY <1>1, <2>4, <2>5, <2>6, <2>7, <2>8, WsThreads DEF r
  <2> QED BY <2>2, <2>9
<1> QED BY <1>7, <1>8

\* What an update of one session leaves of a state.
LEMMA WsPut ==
    ASSUME NEW n \in WsStates, NEW i \in W!Sessions, NEW x \in WsSession
    PROVE  LET m == [n EXCEPT !.s[i] = x]
           IN  /\ m \in WsStates /\ m.s = [n.s EXCEPT ![i] = x] /\ m.s[i] = x /\ m.h = n.h
               /\ m.conns = n.conns /\ m.w = n.w /\ m.d = n.d /\ m.push = n.push
               /\ m.plugin = n.plugin /\ m.sent = n.sent /\ m.faults = n.faults
<1> DEFINE S == [n.s EXCEPT ![i] = x]
           m == [n EXCEPT !.s[i] = x]
<1>1. S \in [W!Sessions -> WsSession] /\ S[i] = x
  BY WsFields
<1>2. m = [n EXCEPT !.s = S]
  BY DEF WsStates
<1> HIDE DEF S, m
<1>3. /\ m \in WsStates /\ m.s = S /\ m.h = n.h /\ m.conns = n.conns /\ m.w = n.w /\ m.d = n.d
      /\ m.push = n.push /\ m.plugin = n.plugin /\ m.sent = n.sent /\ m.faults = n.faults
  BY <1>1, <1>2 DEF WsStates
<1> QED BY <1>1, <1>3 DEF S, m

\* What is left of a state whose handles are dropped, whatever else is true of it.
LEMMA WsDropFields ==
    ASSUME NEW n \in WsStates, NEW i \in W!Sessions, NEW js \in SUBSET W!Handles
    PROVE  LET m == W!DropHandles(n, i, js)
           IN  /\ m \in WsStates /\ m.s = [n.s EXCEPT ![i] = [n.s[i] EXCEPT !.hs = @ \ js]]
               /\ m.conns = n.conns /\ m.w = n.w /\ m.d = n.d /\ m.push = n.push
               /\ m.plugin = n.plugin /\ m.sent = n.sent /\ m.faults = n.faults
               /\ \A j \in W!Handles :
                    /\ (m.h[j].live <=> n.h[j].live) /\ m.h[j].s = n.h[j].s /\ m.h[j].by = n.h[j].by
                    /\ (m.h[j].late <=> n.h[j].late) /\ (m.h[j].STOP <=> n.h[j].STOP \/ j \in js)
<1> DEFINE h == [j \in W!Handles |-> [n.h[j] EXCEPT !.STOP = @ \/ j \in js]]
           r == [n EXCEPT !.h = h]
           x == [n.s[i] EXCEPT !.hs = @ \ js]
           m == [r EXCEPT !.s[i] = x]
<1>1. ASSUME NEW j \in W!Handles
      PROVE  /\ h[j] \in WsHandle
             /\ (h[j].live <=> n.h[j].live) /\ h[j].s = n.h[j].s /\ h[j].by = n.h[j].by
             /\ (h[j].late <=> n.h[j].late) /\ (h[j].STOP <=> n.h[j].STOP \/ j \in js)
  <2>1. n.h[j] \in WsHandle
    BY WsFields
  <2>2. h[j] = [n.h[j] EXCEPT !.STOP = n.h[j].STOP \/ j \in js]
    OBVIOUS
  <2>3. (n.h[j].STOP \/ j \in js) \in BOOLEAN
    OBVIOUS
  <2> HIDE DEF h
  <2> QED BY <2>1, <2>2, <2>3 DEF WsHandle
<1>2. h \in [W!Handles -> WsHandle]
  BY <1>1
<1>3. n.s[i] \in WsSession
  BY WsFields
<1>4. x \in WsSession
  BY <1>3 DEF WsSession
<1>5. W!DropHandles(n, i, js) = [r EXCEPT !.s[i].hs = @ \ js]
  BY DEF W!DropHandles, W!janus_ice_handle_destroy
<1> HIDE DEF h
<1>6. /\ r \in WsStates /\ r.s = n.s /\ r.h = h /\ r.conns = n.conns /\ r.w = n.w /\ r.d = n.d
      /\ r.push = n.push /\ r.plugin = n.plugin /\ r.sent = n.sent /\ r.faults = n.faults
  BY <1>2 DEF WsStates
<1> HIDE DEF r
<1>7. W!DropHandles(n, i, js) = m
  BY <1>5, <1>6
<1> HIDE DEF x
<1>8. /\ m \in WsStates /\ m.s = [r.s EXCEPT ![i] = x] /\ m.h = r.h
      /\ m.conns = r.conns /\ m.w = r.w /\ m.d = r.d /\ m.push = r.push
      /\ m.plugin = r.plugin /\ m.sent = r.sent /\ m.faults = r.faults
  BY <1>4, <1>6, WsPut
<1> HIDE DEF m
<1> QED BY <1>1, <1>6, <1>7, <1>8 DEF x

\* The watchdog reaps a session: it is scheduled once, whether a request has begun to
\* destroy it or not.
LEMMA WsReap ==
    ASSUME WsInv(ws), WsAssumption, W!Reap
    PROVE  WsInv(ws')
<1> DEFINE q == W!Quiet(ws)
           i == ws.d.s
           idle == [pc |-> "idle", s |-> 0]
<1>1. WsInv(q) /\ q.sent = << >> /\ q.s = ws.s /\ q.w = ws.w /\ q.d = ws.d
  BY WsQuiet
<1>2. /\ ws.d.pc = "reap"
      /\ LET m == IF q.s[i].destroy THEN q ELSE W!Schedule([q EXCEPT !.s[i].destroy = TRUE], i, FALSE)
         IN  ws' = IF ~q.s[i].destroy /\ ~q.s[i].mutex
                   THEN [q EXCEPT !.s[i].destroy = TRUE, !.d.pc = "jam"]
                   ELSE [m EXCEPT !.d = idle, !.s[i] = [m.s[i] EXCEPT !.table = FALSE, !.old = TRUE]]
  BY DEF W!Reap
<1> HIDE DEF q
<1>3. q \in WsStates /\ Tabled(q) /\ Working(q) /\ Attached(q) /\ Flows(q)
  BY <1>1 DEF WsInv
<1>4. i \in W!Sessions /\ q.s[i].table
  BY <1>1, <1>2, <1>3 DEF Working
<1>5. InTable(q.s[i], Mine(q, i), q.d.pc)
  BY <1>3, <1>4 DEF Tabled
<1>6. q.s[i].state = "live" /\ ~q.s[i].old /\ q.s[i].timer = "no" /\ (q.s[i].destroy => Mine(q, i))
  BY <1>1, <1>2, <1>4, <1>5 DEF InTable
<1> HIDE DEF i
<1>7. /\ q.s \in [W!Sessions -> WsSession] /\ q.s[i] \in WsSession /\ q.s[i].hs \in SUBSET W!Handles
      /\ q.d \in [pc : {"idle", "reap", "stuck", "jam"}, s : 0..MaxSessions]
  BY <1>3, <1>4, WsFields DEF WsSession
<1>8. idle \in [pc : {"idle", "reap", "stuck", "jam"}, s : 0..MaxSessions] /\ idle.pc = "idle"
  BY DEF WsAssumption
<1> HIDE DEF idle
<1>9. \A j \in W!Handles : q.h[j].live /\ q.h[j].s = i => Held(q.h[j], q.s[i], j)
  BY <1>3, <1>4 DEF Attached
<1>10. q.plugin => q.s[i].mutex /\ q.w.pc \notin {"stuck", "jam"}
  BY <1>3, <1>4 DEF Flows
<1>11. q.faults \subseteq {"over", "late"}
  BY <1>1 DEF WsInv
<1>12. CASE q.s[i].destroy
  <2> DEFINE x == [q.s[i] EXCEPT !.table = FALSE, !.old = TRUE]
             m == [q EXCEPT !.s = [q.s EXCEPT ![i] = x], !.d = idle]
  <2>1. ws' = m
    BY <1>2, <1>3, <1>4, <1>7, <1>12 DEF WsStates
  <2>2. /\ x \in WsSession /\ x.state = "live" /\ ~x.table /\ x.old /\ x.destroy /\ x.timer = "no"
        /\ x.hs = q.s[i].hs /\ (x.mutex <=> q.s[i].mutex)
    BY <1>6, <1>7, <1>12 DEF WsSession
  <2> HIDE DEF x
  <2>3. /\ m \in WsStates /\ m.s = [q.s EXCEPT ![i] = x] /\ m.h = q.h /\ m.w = q.w /\ m.d = idle
        /\ m.push = q.push /\ m.plugin = q.plugin /\ m.faults = q.faults /\ m.sent = << >>
        /\ m.conns = q.conns
    <3>1. [q.s EXCEPT ![i] = x] \in [W!Sessions -> WsSession]
      BY <1>7, <2>2
    <3> QED BY <1>1, <1>3, <1>8, <3>1 DEF WsStates
  <2> HIDE DEF m
  <2>4. \A k \in W!Sessions : Mine(q, k) => Mine(m, k)
    BY <2>3 DEF Mine
  <2>5. InTable(x, Mine(m, i), m.d.pc)
    BY <1>4, <1>6, <1>12, <2>2, <2>4 DEF InTable
  <2>6. Working(m)
    <3>1. Fresh(x)
      BY <2>2 DEF Fresh
    <3> QED BY <1>3, <1>4, <1>8, <2>2, <2>3, <3>1, WsWorkingBut
  <2>7. \A j \in W!Handles : q.h[j].live /\ q.h[j].s = i => Held(m.h[j], x, j)
    BY <1>6, <1>9, <2>2, <2>3 DEF Held
  <2>8. WsInv(m)
    <3>1. Changed(q, m, i, x)
      BY <1>1, <1>2, <1>4, <1>8, <1>10, <1>11, <2>2, <2>3, <2>4, <2>5, <2>6, <2>7 DEF Changed
    <3> QED BY <1>1, <1>4, <3>1, WsChange
  <2> QED BY <2>1, <2>8
<1>13. CASE ~q.s[i].destroy /\ ~q.s[i].mutex
  <2> DEFINE x == [q.s[i] EXCEPT !.destroy = TRUE]
             d == [q.d EXCEPT !.pc = "jam"]
             m == [q EXCEPT !.s = [q.s EXCEPT ![i] = x], !.d = d]
  <2>1. ws' = m
    BY <1>2, <1>3, <1>4, <1>7, <1>13 DEF WsStates
  <2>2. /\ x \in WsSession /\ x.state = "live" /\ x.table /\ ~x.old /\ x.destroy /\ x.timer = "no"
        /\ x.hs = q.s[i].hs /\ (x.mutex <=> q.s[i].mutex)
    BY <1>4, <1>6, <1>7, <1>13 DEF WsSession
  <2>3. d \in [pc : {"idle", "reap", "stuck", "jam"}, s : 0..MaxSessions] /\ d.pc = "jam"
    BY <1>7
  <2> HIDE DEF x, d
  <2>4. /\ m \in WsStates /\ m.s = [q.s EXCEPT ![i] = x] /\ m.h = q.h /\ m.w = q.w /\ m.d = d
        /\ m.push = q.push /\ m.plugin = q.plugin /\ m.faults = q.faults /\ m.sent = << >>
        /\ m.conns = q.conns
    <3>1. [q.s EXCEPT ![i] = x] \in [W!Sessions -> WsSession]
      BY <1>7, <2>2
    <3> QED BY <1>1, <1>3, <2>3, <3>1 DEF WsStates
  <2> HIDE DEF m
  <2>5. \A k \in W!Sessions : Mine(q, k) => Mine(m, k)
    BY <2>4 DEF Mine
  <2>6. InTable(x, Mine(m, i), m.d.pc)
    BY <2>2, <2>3, <2>4 DEF InTable
  <2>7. Working(m)
    <3>1. Fresh(x)
      BY <2>2 DEF Fresh
    <3> QED BY <1>3, <1>4, <2>2, <2>3, <2>4, <3>1, WsWorkingBut
  <2>8. \A j \in W!Handles : q.h[j].live /\ q.h[j].s = i => Held(m.h[j], x, j)
    BY <1>6, <1>9, <2>2, <2>4 DEF Held
  <2>9. ~q.plugin /\ q.d.pc \notin {"stuck", "jam"}
    BY <1>1, <1>2, <1>10, <1>13
  <2>10. WsInv(m)
    <3>1. Changed(q, m, i, x)
      BY <1>1, <1>4, <1>11, <2>2, <2>4, <2>5, <2>6, <2>7, <2>8, <2>9 DEF Changed
    <3> QED BY <1>1, <1>4, <3>1, WsChange
  <2> QED BY <2>1, <2>10
<1>14. CASE ~q.s[i].destroy /\ q.s[i].mutex
  <2> DEFINE e == [q.s[i] EXCEPT !.destroy = TRUE]
             p == [q EXCEPT !.s[i] = e]
             b == W!DropHandles(p, i, p.s[i].hs)
             y == [b.s[i] EXCEPT !.table = @ /\ ~FALSE, !.old = TRUE, !.timer = "set"]
             v == [b EXCEPT !.s[i] = y]
             x == [y EXCEPT !.table = FALSE, !.old = TRUE]
             m == [v EXCEPT !.s = [v.s EXCEPT ![i] = x], !.d = idle]
  <2>1. [q EXCEPT !.s[i].destroy = TRUE] = p
    OBVIOUS
  <2>2. LET t == W!Schedule(p, i, FALSE)
        IN  ws' = [t EXCEPT !.d = idle, !.s[i] = [t.s[i] EXCEPT !.table = FALSE, !.old = TRUE]]
    BY <1>2, <1>14, <2>1
  <2>3. /\ e \in WsSession /\ e.hs = q.s[i].hs /\ e.state = "live" /\ e.destroy /\ e.timer = "no"
        /\ (e.mutex <=> q.s[i].mutex)
    BY <1>6, <1>7 DEF WsSession
  <2> HIDE DEF e
  <2>4. /\ p \in WsStates /\ p.s = [q.s EXCEPT ![i] = e] /\ p.s[i] = e /\ p.h = q.h
        /\ p.conns = q.conns /\ p.w = q.w /\ p.d = q.d /\ p.push = q.push
        /\ p.plugin = q.plugin /\ p.sent = q.sent /\ p.faults = q.faults
    BY <1>3, <1>4, <2>3, WsPut
  <2> HIDE DEF p
  <2>5. p.s[i].hs \in SUBSET W!Handles
    BY <1>7, <2>3, <2>4
  <2>6. /\ b \in WsStates /\ b.s = [p.s EXCEPT ![i] = [p.s[i] EXCEPT !.hs = @ \ p.s[i].hs]]
        /\ b.conns = p.conns /\ b.w = p.w /\ b.d = p.d /\ b.push = p.push
        /\ b.plugin = p.plugin /\ b.sent = p.sent /\ b.faults = p.faults
        /\ \A j \in W!Handles :
             /\ (b.h[j].live <=> p.h[j].live) /\ b.h[j].s = p.h[j].s /\ b.h[j].by = p.h[j].by
             /\ (b.h[j].late <=> p.h[j].late) /\ (b.h[j].STOP <=> p.h[j].STOP \/ j \in p.s[i].hs)
    BY <1>4, <2>4, <2>5, WsDropFields
  <2>7. W!Schedule(p, i, FALSE) = v
    BY DEF W!Schedule
  <2> HIDE DEF b
  <2>8. b.s[i] = [e EXCEPT !.hs = {}]
    <3>1. p.s \in [W!Sessions -> WsSession]
      BY <2>4, WsFields
    <3>2. [p.s[i] EXCEPT !.hs = @ \ p.s[i].hs] = [e EXCEPT !.hs = {}]
      BY <2>3, <2>4 DEF WsSession
    <3> QED BY <1>4, <2>6, <3>1, <3>2
  <2>9. /\ b.s[i] \in WsSession /\ b.s[i].hs = {} /\ b.s[i].state = "live" /\ b.s[i].destroy
        /\ (b.s[i].mutex <=> q.s[i].mutex)
    BY <2>3, <2>8 DEF WsSession
  <2>10. /\ y \in WsSession /\ y.hs = {} /\ y.state = "live" /\ y.destroy /\ y.timer = "set"
         /\ (y.mutex <=> q.s[i].mutex)
    BY <2>9 DEF WsSession
  <2> HIDE DEF y
  <2>12. /\ x \in WsSession /\ x.hs = {} /\ x.state = "live" /\ x.destroy /\ x.timer = "set"
         /\ ~x.table /\ x.old /\ (x.mutex <=> q.s[i].mutex)
    BY <2>10 DEF WsSession
  <2>13. /\ v \in WsStates /\ v.s = [b.s EXCEPT ![i] = y] /\ v.s[i] = y /\ v.h = b.h
         /\ v.conns = b.conns /\ v.w = b.w /\ v.d = b.d /\ v.push = b.push
         /\ v.plugin = b.plugin /\ v.sent = b.sent /\ v.faults = b.faults
    BY <1>4, <2>6, <2>10, WsPut
  <2> HIDE DEF v
  <2>14. ws' = [v EXCEPT !.d = idle, !.s[i] = [v.s[i] EXCEPT !.table = FALSE, !.old = TRUE]]
    BY <2>2, <2>7
  <2>15. v.s \in [W!Sessions -> WsSession]
    BY <2>13, WsFields
  <2>16. ws' = m
    BY <1>4, <2>13, <2>14, <2>15 DEF WsStates
  <2> HIDE DEF x
  <2>17. [v.s EXCEPT ![i] = x] \in [W!Sessions -> WsSession]
    BY <2>12, <2>15
  <2>18. /\ m \in WsStates /\ m.s = [v.s EXCEPT ![i] = x] /\ m.h = v.h
         /\ m.conns = v.conns /\ m.w = v.w /\ m.d = idle /\ m.push = v.push
         /\ m.plugin = v.plugin /\ m.sent = v.sent /\ m.faults = v.faults
    BY <1>8, <2>13, <2>17 DEF WsStates
  <2> HIDE DEF m
  <2>19. m.s = [q.s EXCEPT ![i] = x]
    <3>1. v.s = [q.s EXCEPT ![i] = y]
      BY <1>7, <2>4, <2>6, <2>13
    <3> QED BY <1>7, <2>18, <3>1
  <2>20. m.w = q.w /\ m.d = idle /\ m.push = q.push /\ m.plugin = q.plugin /\ m.sent = << >>
         /\ m.faults = q.faults /\ m.conns = q.conns
    BY <1>1, <2>4, <2>6, <2>13, <2>18
  <2>21. \A j \in W!Handles :
           /\ (m.h[j].live <=> q.h[j].live) /\ m.h[j].s = q.h[j].s /\ m.h[j].by = q.h[j].by
           /\ (m.h[j].late <=> q.h[j].late) /\ (m.h[j].STOP <=> q.h[j].STOP \/ j \in q.s[i].hs)
    BY <2>3, <2>4, <2>6, <2>13, <2>18
  <2>22. ASSUME NEW j \in W!Handles, q.h[j].live, q.h[j].s = i PROVE Held(m.h[j], x, j)
    <3>1. Held(q.h[j], q.s[i], j)
      BY <1>9, <2>22
    <3> QED BY <2>21, <3>1 DEF Held
  <2>23. q.w.pc = "schedule" => q.w.s # i
    BY <1>3, <1>14 DEF Working
  <2>24. Working(m)
    <3>1. Fresh(x)
      BY <2>12 DEF Fresh
    <3> QED BY <1>3, <1>4, <1>8, <2>12, <2>18, <2>19, <2>20, <2>21, <2>23, <3>1, WsWorkingBut
  <2>25. InTable(x, Mine(m, i), m.d.pc)
    BY <2>12 DEF InTable
  <2>26. \A k \in W!Sessions : Mine(q, k) => Mine(m, k)
    BY <2>20 DEF Mine
  <2>27. \A j \in W!Handles :
           /\ (m.h[j].live <=> q.h[j].live) /\ m.h[j].s = q.h[j].s /\ m.h[j].by = q.h[j].by
           /\ (m.h[j].late <=> q.h[j].late) /\ (q.h[j].STOP => m.h[j].STOP)
           /\ q.h[j].live /\ q.h[j].s = i => Held(m.h[j], x, j)
    BY <2>21, <2>22
  <2>28. /\ m.plugin = q.plugin /\ m.faults \subseteq {"over", "late"} /\ x.hs \subseteq q.s[i].hs
         /\ (m.plugin => x.mutex /\ m.w.pc \notin {"stuck", "jam"} /\ m.d.pc \notin {"stuck", "jam"})
         /\ q.d.pc \notin {"stuck", "jam"} /\ \A c \in Conns : m.conns[c].sender \in {0, q.conns[c].sender}
    BY <1>1, <1>2, <1>8, <1>10, <1>11, <2>12, <2>20
  <2>29. WsInv(m)
    <3>1. Changed(q, m, i, x)
      BY <1>1, <1>4, <2>12, <2>18, <2>19, <2>20, <2>24, <2>25, <2>26, <2>27, <2>28 DEF Changed
    <3> QED BY <1>1, <1>4, <3>1, WsChange
  <2> QED BY <2>16, <2>29
<1> QED BY <1>12, <1>13, <1>14

\* janus_cleanup_session: the timer finds its session among the old ones, and nobody has a
\* handle of it that is not stopped.
LEMMA WsCleanup ==
    ASSUME WsInv(ws), NEW i \in W!Sessions, WsAssumption, W!janus_cleanup_session(i)
    PROVE  WsInv(ws')
<1> DEFINE q == W!Quiet(ws)
           e == [q.s[i] EXCEPT !.timer = "no"]
           p == [q EXCEPT !.s[i] = e]
<1>1. WsInv(q) /\ q.sent = << >> /\ q.s = ws.s /\ q.w = ws.w /\ q.d = ws.d
  BY WsQuiet
<1>2. /\ LET n == [W!Use(q, i, "timer") EXCEPT !.s[i].timer = "no"]
         IN  ws' = IF ~ws.s[i].old THEN n
                   ELSE IF ~ws.s[i].mutex THEN [n EXCEPT !.s[i].old = FALSE, !.d = [pc |-> "stuck", s |-> i]]
                   ELSE W!janus_session_free(n, i)
      /\ ws.s[i].timer = "due" /\ ws.d.pc = "idle"
  BY DEF W!janus_cleanup_session
<1> HIDE DEF q
<1>3. q \in WsStates /\ Tabled(q) /\ Working(q) /\ Attached(q) /\ Flows(q)
  BY <1>1 DEF WsInv
<1>4. InTable(q.s[i], Mine(q, i), q.d.pc)
  BY <1>3 DEF Tabled
<1>5. q.s[i].state = "live" /\ q.s[i].old /\ ~q.s[i].table /\ q.s[i].destroy /\ q.s[i].timer = "due"
  BY <1>1, <1>2, <1>4 DEF InTable
<1>6. W!Use(q, i, "timer") = q
  BY <1>5 DEF W!Use
<1>7. [q EXCEPT !.s[i].timer = "no"] = p
  OBVIOUS
<1>8. q.s[i] \in WsSession /\ q.s \in [W!Sessions -> WsSession]
  BY <1>3, WsFields
<1>9. /\ e \in WsSession /\ e.hs = q.s[i].hs /\ e.state = "live" /\ e.destroy /\ ~e.table
      /\ e.timer = "no" /\ (e.mutex <=> q.s[i].mutex)
  BY <1>5, <1>8 DEF WsSession
<1> HIDE DEF e
<1>10. /\ p \in WsStates /\ p.s = [q.s EXCEPT ![i] = e] /\ p.s[i] = e /\ p.h = q.h
       /\ p.conns = q.conns /\ p.w = q.w /\ p.d = q.d /\ p.push = q.push
       /\ p.plugin = q.plugin /\ p.sent = q.sent /\ p.faults = q.faults
  BY <1>3, <1>9, WsPut
<1>11. ws' = IF ~ws.s[i].mutex THEN [p EXCEPT !.s[i].old = FALSE, !.d = [pc |-> "stuck", s |-> i]]
             ELSE W!janus_session_free(p, i)
  <2> DEFINE f == [W!Use(q, i, "timer") EXCEPT !.s[i].timer = "no"]
  <2>1. f = p
    BY <1>6, <1>7
  <2>2. ws' = IF ~ws.s[i].mutex THEN [f EXCEPT !.s[i].old = FALSE, !.d = [pc |-> "stuck", s |-> i]]
              ELSE W!janus_session_free(f, i)
    <3>1. ws.s[i].old
      BY <1>1, <1>5
    <3> QED BY <1>2, <3>1, Zenon
  <2> HIDE DEF f, p
  <2> QED BY <2>1, <2>2, Zenon
<1> HIDE DEF p
<1>12. ~Fresh(q.s[i]) /\ (q.w.pc = "schedule" => q.w.s # i)
  BY <1>3, <1>5 DEF Working, Fresh
<1>13. \A j \in W!Handles : q.h[j].live /\ q.h[j].s = i => q.h[j].STOP \/ q.h[j].late
  <2>1. \A j \in W!Handles : q.h[j].live /\ q.h[j].s = i => Held(q.h[j], q.s[i], j)
    BY <1>3 DEF Attached
  <2> QED BY <1>5, <2>1 DEF Held
<1>14. q.faults \subseteq {"over", "late"}
  BY <1>1 DEF WsInv
<1>15. q.plugin => q.s[i].mutex /\ q.w.pc \notin {"stuck", "jam"}
  BY <1>3 DEF Flows
<1>16. CASE ~ws.s[i].mutex
  <2> DEFINE d == [pc |-> "stuck", s |-> i]
             x == [p.s[i] EXCEPT !.old = FALSE]
             m == [p EXCEPT !.s = [p.s EXCEPT ![i] = x], !.d = d]
  <2>1. ws' = m
    BY <1>10, <1>11, <1>16 DEF WsStates
  <2>2. /\ x \in WsSession /\ x.hs = q.s[i].hs /\ x.state = "live" /\ x.destroy /\ ~x.table
        /\ x.timer = "no" /\ ~x.old
    BY <1>9, <1>10 DEF WsSession
  <2>3. d \in [pc : {"idle", "reap", "stuck", "jam"}, s : 0..MaxSessions] /\ d.pc = "stuck"
    BY DEF W!Sessions, WsAssumption
  <2> HIDE DEF x, d
  <2>4. /\ m \in WsStates /\ m.s = [p.s EXCEPT ![i] = x] /\ m.h = p.h /\ m.w = p.w /\ m.d = d
        /\ m.push = p.push /\ m.plugin = p.plugin /\ m.faults = p.faults /\ m.sent = p.sent
        /\ m.conns = p.conns
    <3>1. [p.s EXCEPT ![i] = x] \in [W!Sessions -> WsSession]
      BY <1>10, <2>2, WsFields
    <3> QED BY <1>10, <2>3, <3>1 DEF WsStates
  <2> HIDE DEF m
  <2>5. m.s = [q.s EXCEPT ![i] = x]
    BY <1>8, <1>10, <2>4
  <2>6. Working(m)
    BY <1>3, <1>10, <1>12, <2>3, <2>4, <2>5, WsWorkingBut
  <2>7. \A k \in W!Sessions : Mine(q, k) => Mine(m, k)
    BY <1>10, <2>4 DEF Mine
  <2>8. InTable(x, Mine(m, i), m.d.pc)
    BY <2>2, <2>3, <2>4 DEF InTable
  <2>9. \A j \in W!Handles : q.h[j].live /\ q.h[j].s = i => Held(m.h[j], x, j)
    BY <1>10, <1>13, <2>4 DEF Held
  <2>10. ~q.plugin
    BY <1>1, <1>15, <1>16
  <2>11. WsInv(m)
    <3>1. Changed(q, m, i, x)
      BY <1>1, <1>2, <1>10, <1>14, <2>2, <2>4, <2>5, <2>6, <2>7, <2>8, <2>9, <2>10 DEF Changed
    <3> QED BY <1>1, <3>1, WsChange
  <2> QED BY <2>1, <2>11
<1>17. CASE ws.s[i].mutex
  <2> DEFINE x == [W!NoSession EXCEPT !.state = "freed"]
             m == [p EXCEPT !.s[i] = x]
  <2>1. ws' = m
    BY <1>11, <1>17 DEF W!janus_session_free
  <2>2. /\ x \in WsSession /\ x.hs = {} /\ x.state = "freed" /\ ~x.destroy /\ ~x.table
        /\ x.timer = "no" /\ ~x.old /\ x.mutex
    BY DEF WsSession, W!NoSession
  <2> HIDE DEF x
  <2>3. /\ m \in WsStates /\ m.s = [p.s EXCEPT ![i] = x] /\ m.h = p.h /\ m.w = p.w /\ m.d = p.d
        /\ m.push = p.push /\ m.plugin = p.plugin /\ m.faults = p.faults /\ m.sent = p.sent
        /\ m.conns = p.conns
    BY <1>10, <2>2, WsPut
  <2> HIDE DEF m
  <2>4. m.s = [q.s EXCEPT ![i] = x]
    BY <1>8, <1>10, <2>3
  <2>5. m.d.pc = "idle"
    BY <1>1, <1>2, <1>10, <2>3
  <2>6. Working(m)
    BY <1>3, <1>10, <1>12, <2>3, <2>4, <2>5, WsWorkingBut
  <2>7. \A k \in W!Sessions : Mine(q, k) => Mine(m, k)
    BY <1>10, <2>3 DEF Mine
  <2>8. InTable(x, Mine(m, i), m.d.pc)
    BY <2>2 DEF InTable
  <2>9. \A j \in W!Handles : q.h[j].live /\ q.h[j].s = i => Held(m.h[j], x, j)
    BY <1>10, <1>13, <2>3 DEF Held
  <2>10. /\ x.hs \subseteq q.s[i].hs /\ q.d.pc \notin {"stuck", "jam"}
         /\ (m.plugin => x.mutex /\ m.w.pc \notin {"stuck", "jam"} /\ m.d.pc \notin {"stuck", "jam"})
    BY <1>1, <1>2, <1>10, <1>15, <2>2, <2>3, <2>5
  <2>11. WsInv(m)
    <3>1. Changed(q, m, i, x)
      BY <1>1, <1>10, <1>14, <2>2, <2>3, <2>4, <2>6, <2>7, <2>8, <2>9, <2>10 DEF Changed
    <3> QED BY <1>1, <3>1, WsChange
  <2> QED BY <2>1, <2>11
<1> QED BY <1>16, <1>17

\* The session of a handle that its plugin may use lives, unless the handle came late.
LEMMA WsAlive ==
    ASSUME NEW q, WsInv(q), q.s = ws.s, q.h = ws.h, NEW j \in W!Handles, q.h[j].live, ~q.h[j].STOP
    PROVE  LET u == W!Use(q, ws.h[j].s, W!Who(j))
           IN  /\ ws.h[j].s \in W!Sessions /\ WsInv(u) /\ u.sent = q.sent /\ u.s = q.s /\ u.h = q.h
               /\ u.conns = q.conns /\ u.w = q.w /\ u.d = q.d /\ u.push = q.push /\ u.plugin = q.plugin
<1> DEFINE i == ws.h[j].s
           who == W!Who(j)
<1>1. i \in W!Sessions /\ Held(q.h[j], q.s[i], j)
  BY DEF WsInv, Attached
<1>2. who = "late" \/ q.s[i].state = "live"
  BY <1>1 DEF Held, W!Who
<1> HIDE DEF i, who
<1> DEFINE u == W!Use(q, i, who)
<1>3. /\ WsInv(u) /\ u.s = q.s /\ u.h = q.h /\ u.conns = q.conns /\ u.w = q.w /\ u.d = q.d
      /\ u.push = q.push /\ u.plugin = q.plugin /\ u.sent = q.sent
  <2>1. CASE who = "late"
    BY <1>1, <2>1, WsUse
  <2>2. CASE q.s[i].state = "live"
    <3>1. u = q
      BY <2>2 DEF W!Use
    <3> QED BY <3>1
  <2> QED BY <1>2, <2>1, <2>2
<1> QED BY <1>1, <1>3 DEF i, who

\* The checks of janus_plugin_push_event: a session that is not destroyed has no timer.
LEMMA WsPushBegin ==
    ASSUME WsInv(ws), NEW j \in W!Handles, WsAssumption, W!PushBegin(j)
    PROVE  WsInv(ws')
<1> DEFINE u == W!Use(W!Quiet(ws), ws.h[j].s, W!Who(j))
           i == ws.h[j].s
           p == [h |-> j, over |-> FALSE]
           m == [u EXCEPT !.w = u.w, !.d = u.d, !.push = p]
<1>1. /\ ws' = IF ws.s[i].destroy \/ ws.s[i].state # "live" THEN u ELSE [u EXCEPT !.push = p]
      /\ ws.h[j].live /\ ~ws.h[j].STOP
  BY DEF W!PushBegin, W!Alive
<1>2. WsInv(u) /\ u.sent = << >> /\ u.h = ws.h /\ u.s = ws.s /\ i \in W!Sessions
  <2> DEFINE q == W!Quiet(ws)
  <2>1. WsInv(q) /\ q.sent = << >> /\ q.s = ws.s /\ q.h = ws.h
    BY WsQuiet
  <2> HIDE DEF q
  <2>2. WsInv(W!Use(q, ws.h[j].s, W!Who(j))) /\ W!Use(q, ws.h[j].s, W!Who(j)).sent = q.sent
        /\ W!Use(q, ws.h[j].s, W!Who(j)).h = q.h /\ W!Use(q, ws.h[j].s, W!Who(j)).s = q.s
        /\ ws.h[j].s \in W!Sessions
    BY <1>1, <2>1, WsAlive
  <2> QED BY <2>1, <2>2 DEF q
<1> HIDE DEF u
<1>3. [u EXCEPT !.push = p] = m
  BY <1>2, WsThread
<1>4. /\ m.s = u.s /\ m.h = u.h /\ m.w = u.w /\ m.d = u.d /\ m.push = p
  BY <1>2, WsThreadFields
<1>10. p \in WsPush /\ p.h = j
  BY DEF WsPush, W!Handles, WsAssumption
<1> HIDE DEF m, p, i
<1>5. u \in WsStates /\ Tabled(u) /\ Working(u) /\ Flows(u)
  BY <1>2 DEF WsInv
<1>6. CASE ~ws.s[i].destroy /\ ws.s[i].state = "live"
  <2>1. InTable(u.s[i], Mine(u, i), u.d.pc)
    BY <1>2, <1>5 DEF Tabled
  <2>2. Fresh(u.s[i])
    BY <1>2, <1>6, <2>1 DEF InTable, Fresh
  <2>3. Pushing(m)
    <3>1. m.h[j].live /\ m.h[j].s = i
      BY <1>1, <1>2, <1>4 DEF i
    <3> QED BY <1>2, <1>4, <1>10, <2>2, <3>1 DEF Pushing
  <2>4. Working(m)
    BY <1>4, <1>5, <2>3 DEF Working
  <2>5. u.w \in WsWorker /\ u.d \in [pc : {"idle", "reap", "stuck", "jam"}, s : 0..MaxSessions]
    BY <1>5, WsFields
  <2>6. /\ \A k \in W!Sessions : Mine(u, k) => u.w.pc \in {"schedule", "jam"} /\ u.w.s = k
        /\ u.plugin => u.w.pc \notin {"stuck", "jam"} /\ u.d.pc \notin {"stuck", "jam"}
    BY <1>5 DEF Mine, Flows
  <2>7. WsInv(m)
    BY <1>2, <1>10, <2>4, <2>5, <2>6, WsThreads DEF m
  <2> QED BY <1>1, <1>3, <1>6, <2>7
<1>7. CASE ~(~ws.s[i].destroy /\ ws.s[i].state = "live")
  BY <1>1, <1>2, <1>7
<1> QED BY <1>6, <1>7

\* An event that is pushed no more leaves nothing behind.
LEMMA WsPushOver ==
    ASSUME WsInv(ws), WsAssumption
    PROVE  LET n == [W!Quiet(ws) EXCEPT !.push = W!NoPush]
           IN  WsInv(n) /\ n.s = ws.s /\ n.h = ws.h /\ n.sent = << >>
<1> DEFINE q == W!Quiet(ws)
           n == [q EXCEPT !.push = W!NoPush]
           o == [q EXCEPT !.w = q.w, !.d = q.d, !.push = W!NoPush]
<1>1. /\ WsInv(q) /\ q.sent = << >> /\ q.s = ws.s /\ q.h = ws.h
  BY WsQuiet
<1> HIDE DEF q
<1>2. q \in WsStates /\ Working(q) /\ Flows(q)
  BY <1>1 DEF WsInv
<1>3. n = o
  BY <1>1, WsThread
<1>4. o.s = q.s /\ o.h = q.h /\ o.w = q.w /\ o.d = q.d /\ o.push = W!NoPush /\ o.sent = q.sent
  BY <1>1, WsThreadFields
<1>5. W!NoPush \in WsPush /\ W!NoPush.h = 0
  BY DEF W!NoPush, WsPush, WsAssumption
<1>6. WsInv(o)
  <2> HIDE DEF o
  <2>1. Working(o)
    BY <1>2, <1>4, <1>5 DEF Working, Pushing
  <2>2. /\ q.w \in WsWorker /\ q.d \in [pc : {"idle", "reap", "stuck", "jam"}, s : 0..MaxSessions]
    BY <1>2, WsFields
  <2>3. /\ \A k \in W!Sessions : Mine(q, k) => q.w.pc \in {"schedule", "jam"} /\ q.w.s = k
        /\ q.plugin => q.w.pc \notin {"stuck", "jam"} /\ q.d.pc \notin {"stuck", "jam"}
    BY <1>2 DEF Mine, Flows
  <2> QED BY <1>1, <1>5, <2>1, <2>2, <2>3, WsThreads DEF o
<1> QED BY <1>1, <1>3, <1>4, <1>6 DEF q

\* janus_plugin_push_event: an event goes to the connection that attached its handle, and
\* finds its session, unless the wait for its candidates outlasted the grace period.
LEMMA WsPushEvent ==
    ASSUME WsInv(ws), WsAssumption, W!janus_plugin_push_event
    PROVE  WsInv(ws')
<1> DEFINE j == ws.push.h
           i == ws.h[j].s
           n == [W!Quiet(ws) EXCEPT !.push = W!NoPush]
           who == W!Slow(ws.push.over, W!Who(j))
<1>1. /\ ws' = IF ws.s[i].state # "live" THEN W!Use(n, i, who) ELSE W!janus_session_notify_event(n, j)
      /\ ws.push.h # 0
  BY DEF W!janus_plugin_push_event
<1>2. WsInv(n) /\ n.s = ws.s /\ n.h = ws.h /\ n.sent = << >>
  BY WsPushOver
<1> HIDE DEF n
<1>3. ws \in WsStates /\ Pushing(ws)
  BY DEF WsInv, Working
<1>4. /\ j \in W!Handles /\ ws.h[j].live /\ i \in W!Sessions
      /\ ws.push.over \/ ws.s[i].state = "live"
  BY <1>1, <1>3, WsFields DEF Pushing, Fresh, W!Handles, WsPush
<1>5. CASE ws.s[i].state # "live"
  <2>1. who = "over"
    BY <1>4, <1>5 DEF W!Slow
  <2> HIDE DEF who, i, j
  <2>2. WsInv(W!Use(n, i, who))
    BY <1>2, <1>4, <2>1, WsUse
  <2> QED BY <1>1, <1>5, <2>2
<1>6. CASE ws.s[i].state = "live"
  <2> HIDE DEF who, i
  <2> DEFINE S == {c \in Conns : n.conns[c].open /\ n.conns[c].sender = j}
             m == [n EXCEPT !.sent = <<j, S>>]
  <2>2. ws' = n \/ ws' = m
    BY <1>1, <1>6 DEF W!janus_session_notify_event, W!kore_websocket_broadcast_target
  <2> HIDE DEF j
  <2>3. n \in WsStates /\ Tabled(n) /\ Working(n) /\ Attached(n) /\ Flows(n)
    BY <1>2 DEF WsInv
  <2>4. n.h[j].live /\ \A c \in S : c = n.h[j].by
    <3>1. j # 0
      BY <1>4, WsAssumption DEF W!Handles
    <3>2. ASSUME NEW c \in S PROVE c = n.h[j].by
      <4>1. c \in Conns /\ n.conns[c].sender = j
        OBVIOUS
      <4> HIDE DEF S
      <4> QED BY <2>3, <3>1, <4>1 DEF Attached
    <3>3. n.h[j].live
      BY <1>2, <1>4
    <3> QED BY <3>2, <3>3
  <2>5. S \in SUBSET Conns
    OBVIOUS
  <2> HIDE DEF S
  <2>6. <<j, S>> \in W!Handles \X SUBSET Conns
    BY <1>4, <2>5
  <2>7. /\ m \in WsStates /\ m.s = n.s /\ m.h = n.h /\ m.conns = n.conns /\ m.w = n.w /\ m.d = n.d
        /\ m.push = n.push /\ m.plugin = n.plugin /\ m.sent = <<j, S>> /\ m.faults = n.faults
    BY <2>3, <2>6 DEF WsStates
  <2> HIDE DEF m
  <2>8. Tabled(m) /\ Working(m) /\ Attached(m) /\ Flows(m)
    BY <2>3, <2>7 DEF Tabled, Mine, Working, Pushing, Attached, Flows
  <2>9. m.faults \subseteq {"over", "late"}
    BY <1>2, <2>7 DEF WsInv
  <2>10. WsInv(m)
    <3>1. m.sent[1] = j /\ m.sent[2] = S
      BY <2>7
    <3> QED BY <2>4, <2>7, <2>8, <2>9, <3>1 DEF WsInv
  <2> QED BY <1>2, <2>2, <2>10
<1> QED BY <1>5, <1>6

\* janus_plugin_end_session: the handle is dropped.
LEMMA WsEndSession ==
    ASSUME WsInv(ws), NEW j \in W!Handles, W!janus_plugin_end_session(j)
    PROVE  WsInv(ws')
<1> DEFINE q == W!Quiet(ws)
           i == ws.h[j].s
           u == W!Use(q, i, W!Who(j))
<1>1. WsInv(q) /\ q.sent = << >> /\ q.s = ws.s /\ q.h = ws.h
  BY WsQuiet
<1>2. ws' = W!DropHandles(u, i, {j}) /\ ws.h[j].live /\ ~ws.h[j].STOP
  BY DEF W!janus_plugin_end_session, W!Alive
<1> HIDE DEF q
<1>3. WsInv(u) /\ u.sent = << >> /\ i \in W!Sessions
  BY <1>1, <1>2, WsAlive
<1> HIDE DEF u, i
<1>4. {j} \in SUBSET W!Handles
  OBVIOUS
<1> QED BY <1>2, <1>3, <1>4, WsDrop

\* Marks of a handle that do not say whose it is nor that it is stopped.
LEMMA WsHandleMark ==
    ASSUME NEW n, WsInv(n), n.sent = << >>, NEW j \in W!Handles, NEW y \in WsHandle,
           y.live <=> n.h[j].live, y.s = n.h[j].s, y.by = n.h[j].by, y.late <=> n.h[j].late,
           y.STOP <=> n.h[j].STOP
    PROVE  WsInv([n EXCEPT !.h[j] = y])
<1> DEFINE H == [n.h EXCEPT ![j] = y]
           m == [n EXCEPT !.h[j] = y]
<1>1. n \in WsStates /\ Working(n) /\ Flows(n)
  BY DEF WsInv
<1>2. n.h \in [W!Handles -> WsHandle]
  BY <1>1, WsFields
<1>3. H \in [W!Handles -> WsHandle] /\ \A k \in W!Handles : H[k] = IF k = j THEN y ELSE n.h[k]
  BY <1>2
<1>4. m = [n EXCEPT !.h = H]
  BY <1>1 DEF WsStates
<1> HIDE DEF H, m
<1>5. /\ m \in WsStates /\ m.s = n.s /\ m.h = H /\ m.conns = n.conns /\ m.w = n.w /\ m.d = n.d
      /\ m.push = n.push /\ m.plugin = n.plugin /\ m.sent = n.sent /\ m.faults = n.faults
  BY <1>1, <1>3, <1>4 DEF WsStates
<1>6. \A k \in W!Handles :
        /\ (m.h[k].live <=> n.h[k].live) /\ m.h[k].s = n.h[k].s /\ m.h[k].by = n.h[k].by
        /\ (m.h[k].late <=> n.h[k].late) /\ (n.h[k].STOP => m.h[k].STOP)
  BY <1>3, <1>5
<1>7. Working(m)
  BY <1>1, <1>5, <1>6, WsWorking
<1>8. /\ \A k \in W!Sessions : Mine(n, k) => Mine(m, k)
      /\ (m.plugin => m.w.pc \notin {"stuck", "jam"} /\ m.d.pc \notin {"stuck", "jam"})
  BY <1>1, <1>5 DEF Mine, Flows
<1>9. m.faults \subseteq {"over", "late"}
  BY <1>5 DEF WsInv
<1>10. WsInv(m)
  <2>1. Rested(n, m)
    BY <1>5, <1>6, <1>7, <1>8, <1>9 DEF Rested
  <2> QED BY <2>1, WsRest
<1> QED BY <1>10 DEF m

\* janus_plugin_close_pc, and the clean-up that follows.
LEMMA WsAlert ==
    ASSUME WsInv(ws), NEW j \in W!Handles, W!janus_plugin_close_pc(j) \/ W!IceCleanup(j)
    PROVE  WsInv(ws')
<1> DEFINE q == W!Quiet(ws)
<1>1. WsInv(q) /\ q.sent = << >>
  BY WsQuiet
<1>2. ws' = [q EXCEPT !.h[j].ALERT = TRUE] \/ ws' = [q EXCEPT !.h[j].ALERT = FALSE]
  BY DEF W!janus_plugin_close_pc, W!IceCleanup
<1> HIDE DEF q
<1>3. q.h[j] \in WsHandle
  BY <1>1, WsFields DEF WsInv
<1>4. ASSUME NEW a \in BOOLEAN, ws' = [q EXCEPT !.h[j].ALERT = a] PROVE WsInv(ws')
  <2> DEFINE y == [q.h[j] EXCEPT !.ALERT = a]
  <2>1. ws' = [q EXCEPT !.h[j] = y]
    BY <1>4
  <2>2. /\ y \in WsHandle /\ (y.live <=> q.h[j].live) /\ y.s = q.h[j].s /\ y.by = q.h[j].by
        /\ (y.late <=> q.h[j].late) /\ (y.STOP <=> q.h[j].STOP)
    BY <1>3 DEF WsHandle
  <2> HIDE DEF y
  <2> QED BY <1>1, <2>1, <2>2, WsHandleMark
<1> QED BY <1>2, <1>4

\* "attach" makes the handle j = y, in the table of its session x.
Hatched(n, m, j, x, y) ==
    /\ m \in WsStates /\ x \in WsSession /\ y \in WsHandle
    /\ m.s = [n.s EXCEPT ![n.w.s] = x] /\ m.h = [n.h EXCEPT ![j] = y]
    /\ m.conns = [n.conns EXCEPT ![n.w.c].sender = j] /\ m.w = W!Idle /\ m.d = n.d /\ m.push = n.push
    /\ m.plugin = n.plugin /\ m.sent = << >> /\ m.faults = n.faults
    /\ x.state = n.s[n.w.s].state /\ x.timer = n.s[n.w.s].timer /\ x.hs = n.s[n.w.s].hs \cup {j}
    /\ (x.table <=> n.s[n.w.s].table) /\ (x.old <=> n.s[n.w.s].old) /\ (x.destroy <=> n.s[n.w.s].destroy)
    /\ (x.mutex <=> n.s[n.w.s].mutex)
    /\ y.live /\ y.s = n.w.s /\ y.by = n.w.c /\ (y.late <=> n.s[n.w.s].destroy)

\* The session of a new handle has no timer unless it was destroyed under the request's
\* hands.
LEMMA WsNewHandle ==
    ASSUME NEW n, WsInv(n), n.sent = << >>, n.w.pc = "found", n.s[n.w.s].state = "live",
           NEW j \in W!Handles, ~n.h[j].live, NEW m, NEW x, NEW y, Hatched(n, m, j, x, y)
    PROVE  WsInv(m)
<1> USE DEF Hatched
<1> DEFINE i == n.w.s
           c == n.w.c
<1>1. n \in WsStates /\ Tabled(n) /\ Working(n) /\ Attached(n) /\ Flows(n)
  BY DEF WsInv
<1>2. /\ n.h \in [W!Handles -> WsHandle] /\ n.s \in [W!Sessions -> WsSession]
      /\ n.conns \in [Conns -> [open : BOOLEAN, sender : 0..MaxHandles]] /\ n.push \in WsPush
  BY <1>1, WsFields
<1>3. i \in W!Sessions /\ c \in Conns /\ n.s[i].state = "live"
  BY <1>1 DEF Working
<1>4. W!Idle.pc = "idle"
  BY DEF W!Idle
<1> HIDE DEF i, c
<1>5. \A k \in W!Sessions : m.s[k] = IF k = i THEN x ELSE n.s[k]
  BY <1>2 DEF i
<1>6. \A k \in W!Handles : m.h[k] = IF k = j THEN y ELSE n.h[k]
  BY <1>2
<1>7. \A b \in Conns : m.conns[b].sender = IF b = c THEN j ELSE n.conns[b].sender
  <2>1. ASSUME NEW b \in Conns, b # c PROVE m.conns[b] = n.conns[b]
    BY <1>2, <2>1 DEF c
  <2>2. m.conns[c] = [n.conns[c] EXCEPT !.sender = j]
    BY <1>2, <1>3 DEF c
  <2>3. m.conns[c].sender = j
    BY <1>2, <1>3, <2>2
  <2> QED BY <2>1, <2>3
<1>0. /\ m \in WsStates /\ x \in WsSession /\ y \in WsHandle /\ m.w = W!Idle /\ m.d = n.d
      /\ m.push = n.push /\ m.plugin = n.plugin /\ m.sent = << >> /\ m.faults = n.faults
      /\ x.state = n.s[i].state /\ x.timer = n.s[i].timer /\ x.hs = n.s[i].hs \cup {j}
      /\ (x.table <=> n.s[i].table) /\ (x.old <=> n.s[i].old) /\ (x.destroy <=> n.s[i].destroy)
      /\ (x.mutex <=> n.s[i].mutex) /\ y.live /\ y.s = i /\ y.by = c /\ (y.late <=> n.s[i].destroy)
  BY DEF i, c
<1> HIDE DEF Hatched
<1>8. \A k \in W!Sessions : ~Mine(n, k)
  BY DEF Mine
<1>9. Tabled(m)
  <2> SUFFICES ASSUME NEW k \in W!Sessions PROVE InTable(m.s[k], Mine(m, k), m.d.pc)
    BY DEF Tabled
  <2>1. InTable(n.s[k], FALSE, n.d.pc)
    <3>1. InTable(n.s[k], Mine(n, k), n.d.pc)
      BY <1>0, <1>1, SMTT(60) DEF Tabled
    <3> QED BY <1>0, <1>8, <3>1 DEF InTable
  <2>2. CASE k = i
    BY <1>0, <1>5, <2>1, <2>2 DEF InTable, i
  <2>3. CASE k # i
    BY <1>0, <1>5, <2>1, <2>3 DEF InTable
  <2> QED BY <1>0, <2>2, <2>3
<1>10. Working(m)
  <2>1. n.push.h # 0 =>
          /\ n.push.h \in W!Handles /\ n.h[n.push.h].live /\ n.h[n.push.h].s \in W!Sessions
          /\ n.push.over \/ Fresh(n.s[n.h[n.push.h].s])
    BY <1>0, <1>1, <1>2 DEF Working, Pushing, W!Handles, WsPush
  <2>4. \A k \in W!Sessions : Fresh(n.s[k]) => Fresh(m.s[k])
    BY <1>0, <1>5 DEF Fresh
  <2>5. n.push.h # 0 => m.h[n.push.h] = n.h[n.push.h]
    BY <1>6, <2>1
  <2>2. Pushing(m)
    BY <1>0, <2>1, <2>4, <2>5 DEF Pushing
  <2>3. m.d.pc = "reap" => m.d.s \in W!Sessions /\ m.s[m.d.s].table
    BY <1>0, <1>1, <1>5 DEF Working, i
  <2> QED BY <1>0, <1>4, <2>2, <2>3 DEF Working
<1>11. Held(y, x, j)
  <2>1. InTable(n.s[i], Mine(n, i), n.d.pc)
    BY <1>0, <1>1, <1>3 DEF Tabled
  <2> QED BY <1>0, <1>3, <2>1 DEF Held, InTable, i
<1>12. Attached(m)
  <2>1. ASSUME NEW k \in W!Handles, m.h[k].live
        PROVE  m.h[k].s \in W!Sessions /\ Held(m.h[k], m.s[m.h[k].s], k)
    <3>1. CASE k = j
      <4>1. m.h[k] = y /\ m.s[y.s] = x /\ y.s \in W!Sessions
        BY <1>0, <1>3, <1>5, <1>6, <3>1 DEF i
      <4> QED BY <1>0, <1>11, <3>1, <4>1
    <3>2. CASE k # j
      <4>1. m.h[k] = n.h[k]
        BY <1>0, <1>6, <3>2
      <4>2. n.h[k].s \in W!Sessions /\ Held(n.h[k], n.s[n.h[k].s], k)
        BY <1>0, <1>1, <2>1, <4>1 DEF Attached
      <4>3. CASE n.h[k].s = i
        <5>1. m.s[i] = x
          BY <1>0, <1>3, <1>5
        <5>2. Held(n.h[k], x, k)
          BY <1>0, <4>2, <4>3 DEF Held, i
        <5> QED BY <1>0, <4>1, <4>2, <4>3, <5>1, <5>2
      <4>4. CASE n.h[k].s # i
        BY <1>0, <1>5, <4>1, <4>2, <4>4
      <4> QED BY <1>0, <4>3, <4>4
    <3> QED BY <1>0, <3>1, <3>2
  <2>2. ASSUME NEW k \in W!Sessions, NEW l \in m.s[k].hs PROVE m.h[l].live
    <3>1. l = j \/ l \in n.s[k].hs
      BY <1>0, <1>5, <2>2 DEF i
    <3>2. n.s[k].hs \subseteq W!Handles
      BY <1>0, <1>2 DEF WsSession
    <3>3. CASE l = j
      BY <1>0, <1>6, <3>3
    <3>4. CASE l # j
      BY <1>0, <1>1, <1>6, <3>1, <3>2, <3>4 DEF Attached
    <3> QED BY <1>0, <3>3, <3>4
  <2>3. ASSUME NEW b \in Conns, m.conns[b].sender # 0
        PROVE  m.h[m.conns[b].sender].live /\ m.h[m.conns[b].sender].by = b
    <3>1. CASE b = c
      BY <1>0, <1>6, <1>7, <3>1 DEF c
    <3>2. CASE b # c
      <4>1. m.conns[b].sender = n.conns[b].sender
        BY <1>0, <1>7, <3>2
      <4>2. n.conns[b].sender \in W!Handles
        BY <1>0, <1>2, <2>3, <4>1 DEF W!Handles
      <4>3. n.h[n.conns[b].sender].live /\ n.h[n.conns[b].sender].by = b
        BY <1>0, <1>1, <2>3, <4>1 DEF Attached
      <4>4. n.conns[b].sender # j
        BY <1>0, <4>3
      <4> QED BY <1>0, <1>6, <4>1, <4>2, <4>3, <4>4
    <3> QED BY <1>0, <3>1, <3>2
  <2> QED BY <1>0, <2>1, <2>2, <2>3 DEF Attached
<1>13. Flows(m)
  BY <1>0, <1>1, <1>3, <1>4, <1>5 DEF Flows, i
<1>14. m.faults \subseteq {"over", "late"}
  BY <1>0 DEF WsInv
<1> QED BY <1>0, <1>9, <1>10, <1>12, <1>13, <1>14 DEF WsInv

\* Attach, of a session that was found.
LEMMA WsAttach ==
    ASSUME NEW n, WsInv(n), n.sent = << >>, n.w.pc = "found", n.s[n.w.s].state = "live", n.h = ws.h,
           W!UnusedHandles # {}, WsAssumption
    PROVE  WsInv(W!Attach(n, n.w.s))
<1> DEFINE i == n.w.s
           c == n.w.c
           j == W!Min(W!UnusedHandles)
           y == [W!NoHandle EXCEPT !.live = TRUE, !.s = i, !.by = n.w.c, !.late = n.s[i].destroy]
           x == [n.s[i] EXCEPT !.hs = @ \cup {j}]
           H == [n.h EXCEPT ![j] = y]
           S == [n.s EXCEPT ![i] = x]
           C == [n.conns EXCEPT ![c].sender = j]
           m == W!Done([n EXCEPT !.h[j] = y, !.s[i].hs = @ \cup {j}, !.conns[n.w.c].sender = j])
<1>1. n \in WsStates /\ Working(n)
  BY DEF WsInv
<1>2. i \in W!Sessions /\ c \in Conns
  BY <1>1 DEF Working
<1>3. j \in W!Handles /\ ~n.h[j].live
  <2>1. W!UnusedHandles \in SUBSET Nat
    BY DEF W!UnusedHandles, W!Handles, WsAssumption
  <2>2. j \in W!UnusedHandles
    BY <2>1, WsMin
  <2> QED BY <2>2 DEF W!UnusedHandles
<1>4. W!Attach(n, i) = IF ~n.plugin THEN [m EXCEPT !.s[i].mutex = FALSE]
                       ELSE IF n.w.req = "attach" THEN [m EXCEPT !.h[j].app = TRUE]
                       ELSE W!DropHandles(m, i, {j})
  BY DEF W!Attach
<1> HIDE DEF j
<1>5. /\ n.h \in [W!Handles -> WsHandle] /\ n.s \in [W!Sessions -> WsSession] /\ n.s[i] \in WsSession
      /\ n.conns \in [Conns -> [open : BOOLEAN, sender : 0..MaxHandles]] /\ n.plugin \in BOOLEAN
  BY <1>1, <1>2, WsFields
<1>6. /\ y \in WsHandle /\ y.live /\ y.s = i /\ y.by = c /\ (y.late <=> n.s[i].destroy)
  <2>1. n.s[i].destroy \in BOOLEAN /\ i \in 0..MaxSessions /\ 0 \in 0..MaxSessions
    BY <1>2, <1>5 DEF WsSession, WsAssumption, W!Sessions
  <2> HIDE DEF i, c
  <2> QED BY <1>2, <2>1 DEF W!NoHandle, WsHandle, c
<1>7. /\ x \in WsSession /\ x.state = n.s[i].state /\ x.timer = n.s[i].timer /\ x.hs = n.s[i].hs \cup {j}
      /\ (x.table <=> n.s[i].table) /\ (x.old <=> n.s[i].old) /\ (x.destroy <=> n.s[i].destroy)
      /\ (x.mutex <=> n.s[i].mutex)
  BY <1>3, <1>5 DEF WsSession
<1>8. m = [n EXCEPT !.h = H, !.s = S, !.conns = C, !.w = W!Idle]
  <2> HIDE DEF y
  <2> QED BY <1>1 DEF W!Done, WsStates
<1> HIDE DEF y, x
<1>9. H \in [W!Handles -> WsHandle] /\ S \in [W!Sessions -> WsSession]
  BY <1>5, <1>6, <1>7
<1>10. C \in [Conns -> [open : BOOLEAN, sender : 0..MaxHandles]]
  <2>1. j \in 0..MaxHandles
    BY <1>3 DEF W!Handles, WsAssumption
  <2>2. [n.conns[c] EXCEPT !.sender = j] \in [open : BOOLEAN, sender : 0..MaxHandles]
    BY <1>2, <1>5, <2>1
  <2> QED BY <1>2, <1>5, <2>2
<1>11. W!Idle \in WsWorker
  BY DEF W!Idle, WsWorker, WsAssumption
<1> HIDE DEF H, S, C, m
<1>12. /\ m \in WsStates /\ m.s = S /\ m.h = H /\ m.conns = C /\ m.w = W!Idle /\ m.d = n.d
       /\ m.push = n.push /\ m.plugin = n.plugin /\ m.sent = n.sent /\ m.faults = n.faults
  BY <1>1, <1>8, <1>9, <1>10, <1>11 DEF WsStates
<1>13. m.s = [n.s EXCEPT ![n.w.s] = x] /\ m.h = [n.h EXCEPT ![j] = y]
       /\ m.conns = [n.conns EXCEPT ![n.w.c].sender = j]
  BY <1>12 DEF S, H, C
<1>14. WsInv(m)
  <2>1. Hatched(n, m, j, x, y)
    BY <1>6, <1>7, <1>12, <1>13 DEF Hatched
  <2> QED BY <1>3, <2>1, WsNewHandle
<1> HIDE DEF i
<1>15. CASE ~n.plugin
  <2> DEFINE z == [m.s[i] EXCEPT !.mutex = FALSE]
  <2>1. m.s[i] \in WsSession
    BY <1>2, <1>12, WsFields
  <2>2. /\ z \in WsSession /\ z.state = m.s[i].state /\ z.timer = m.s[i].timer /\ z.hs = m.s[i].hs
        /\ (z.table <=> m.s[i].table) /\ (z.old <=> m.s[i].old) /\ (z.destroy <=> m.s[i].destroy)
    BY <2>1 DEF WsSession
  <2>3. W!Attach(n, i) = [m EXCEPT !.s[i] = z]
    BY <1>4, <1>15
  <2> HIDE DEF z
  <2>4. WsInv([m EXCEPT !.s[i] = z])
    BY <1>2, <1>12, <1>14, <1>15, <2>2, WsMark
  <2> QED BY <2>3, <2>4 DEF i
<1>16. CASE n.plugin /\ n.w.req = "attach"
  <2> DEFINE z == [m.h[j] EXCEPT !.app = TRUE]
  <2>1. m.h[j] \in WsHandle
    BY <1>3, <1>12, WsFields
  <2>2. /\ z \in WsHandle /\ (z.live <=> m.h[j].live) /\ z.s = m.h[j].s /\ z.by = m.h[j].by
        /\ (z.late <=> m.h[j].late) /\ (z.STOP <=> m.h[j].STOP)
    BY <2>1 DEF WsHandle
  <2>3. W!Attach(n, i) = [m EXCEPT !.h[j] = z]
    BY <1>4, <1>16
  <2> HIDE DEF z
  <2>4. WsInv([m EXCEPT !.h[j] = z])
    BY <1>3, <1>12, <1>14, <2>2, WsHandleMark
  <2> QED BY <2>3, <2>4 DEF i
<1>17. CASE n.plugin /\ n.w.req # "attach"
  <2>1. W!Attach(n, i) = W!DropHandles(m, i, {j})
    BY <1>4, <1>17
  <2>2. {j} \in SUBSET W!Handles
    BY <1>3
  <2>3. WsInv(W!DropHandles(m, i, {j}))
    <3>1. m.sent = << >>
      BY <1>12
    <3> DEFINE js == {j}
    <3>2. js \in SUBSET W!Handles
      BY <2>2
    <3> HIDE DEF js
    <3>3. WsInv(W!DropHandles(m, i, js))
      BY <1>2, <1>14, <3>1, <3>2, WsDrop
    <3> QED BY <3>3 DEF js
  <2> QED BY <2>1, <2>3 DEF i
<1> QED BY <1>5, <1>15, <1>16, <1>17 DEF i

\* "destroy" claims a session: from then on the request owes it a place among the old ones.
LEMMA WsClaim ==
    ASSUME NEW n, WsInv(n), n.sent = << >>, n.w.pc = "found", ~n.s[n.w.s].destroy,
           n.s[n.w.s].state = "live"
    PROVE  WsInv([n EXCEPT !.s[n.w.s].destroy = TRUE, !.w.pc = "schedule"])
<1> DEFINE i == n.w.s
           x == [n.s[i] EXCEPT !.destroy = TRUE]
           w == [n.w EXCEPT !.pc = "schedule"]
           S == [n.s EXCEPT ![i] = x]
           m == [n EXCEPT !.s[i].destroy = TRUE, !.w.pc = "schedule"]
<1>1. n \in WsStates /\ Tabled(n) /\ Working(n) /\ Attached(n) /\ Flows(n)
  BY DEF WsInv
<1>2. i \in W!Sessions /\ n.s[i].state = "live" /\ n.w.c \in Conns
  BY <1>1 DEF Working
<1>3. n.s \in [W!Sessions -> WsSession] /\ n.s[i] \in WsSession /\ n.w \in WsWorker
  BY <1>1, <1>2, WsFields
<1>4. InTable(n.s[i], Mine(n, i), n.d.pc)
  BY <1>1, <1>2 DEF Tabled
<1>5. ~n.s[i].old /\ n.s[i].timer = "no"
  BY <1>4 DEF InTable
<1>6. /\ x \in WsSession /\ x.state = "live" /\ x.timer = "no" /\ ~x.old /\ x.destroy
      /\ (x.table <=> n.s[i].table) /\ x.hs = n.s[i].hs /\ (x.mutex <=> n.s[i].mutex)
  BY <1>2, <1>3, <1>5 DEF WsSession
<1>7. w \in WsWorker /\ w.pc = "schedule" /\ w.s = i /\ w.c = n.w.c
  BY <1>3 DEF WsWorker
<1>8. m = [n EXCEPT !.s = S, !.w = w]
  BY <1>1 DEF WsStates
<1> HIDE DEF x, w
<1>9. S \in [W!Sessions -> WsSession]
  BY <1>3, <1>6
<1> HIDE DEF S, m
<1>10. /\ m \in WsStates /\ m.s = S /\ m.h = n.h /\ m.conns = n.conns /\ m.w = w /\ m.d = n.d
       /\ m.push = n.push /\ m.plugin = n.plugin /\ m.sent = n.sent /\ m.faults = n.faults
  BY <1>1, <1>7, <1>8, <1>9 DEF WsStates
<1>11. \A k \in W!Sessions : m.s[k] = IF k = i THEN x ELSE n.s[k]
  BY <1>3, <1>10 DEF S
<1>12. Working(m)
  <2>1. m.d.pc = "reap" => m.d.s \in W!Sessions /\ m.s[m.d.s].table
    BY <1>1, <1>6, <1>10, <1>11 DEF Working
  <2>2. m.s[i] = x
    BY <1>2, <1>11
  <2>5. \A k \in W!Sessions : Fresh(n.s[k]) => Fresh(m.s[k])
    BY <1>6, <1>11 DEF Fresh
  <2>3. Pushing(m)
    BY <1>1, <1>10, <2>5, WsPushing DEF Working
  <2> HIDE DEF i
  <2>4. m.w.pc = "schedule" /\ m.w.s = i /\ m.w.c \in Conns
    BY <1>2, <1>7, <1>10
  <2> QED BY <1>2, <1>6, <2>1, <2>2, <2>3, <2>4 DEF Working
<1>13. Mine(m, i)
  BY <1>7, <1>10 DEF Mine
<1>14. InTable(x, Mine(m, i), m.d.pc)
  BY <1>2, <1>4, <1>5, <1>6, <1>10, <1>13 DEF InTable
<1>15. \A k \in W!Sessions : ~Mine(n, k)
  BY DEF Mine
<1>16. \A j \in W!Handles : n.h[j].live /\ n.h[j].s = i => Held(m.h[j], x, j)
  <2>1. \A j \in W!Handles : n.h[j].live /\ n.h[j].s = i => Held(n.h[j], n.s[i], j)
    BY <1>1, <1>2 DEF Attached
  <2> QED BY <1>6, <1>10, <2>1 DEF Held
<1>17. /\ (m.plugin => x.mutex /\ m.w.pc \notin {"stuck", "jam"} /\ m.d.pc \notin {"stuck", "jam"})
       /\ m.faults \subseteq {"over", "late"} /\ m.s = [n.s EXCEPT ![i] = x]
  BY <1>1, <1>2, <1>6, <1>7, <1>10 DEF Flows, WsInv, S
<1> HIDE DEF i
<1>18. WsInv(m)
  <2>1. \A j \in W!Handles :
          /\ (m.h[j].live <=> n.h[j].live) /\ m.h[j].s = n.h[j].s /\ m.h[j].by = n.h[j].by
          /\ (m.h[j].late <=> n.h[j].late) /\ (n.h[j].STOP => m.h[j].STOP)
          /\ n.h[j].live /\ n.h[j].s = i => Held(m.h[j], x, j)
    BY <1>10, <1>16
  <2>2. x.hs \subseteq n.s[i].hs /\ m.plugin = n.plugin /\ m.sent = << >> /\ m.d = n.d
        /\ \A c \in Conns : m.conns[c].sender \in {0, n.conns[c].sender}
    BY <1>6, <1>10
  <2>3. Changed(n, m, i, x)
    BY <1>2, <1>6, <1>10, <1>12, <1>14, <1>15, <1>17, <2>1, <2>2 DEF Changed
  <2> QED BY <1>2, <2>3, WsChange
<1> QED BY <1>18 DEF m, i

\* The worker gets stuck, or begins to wait, with a request in its hands.
LEMMA WsHalt ==
    ASSUME NEW n, WsInv(n), n.sent = << >>, n.w.pc = "found", NEW w \in WsWorker, w.s = n.w.s, w.c = n.w.c,
           w.over <=> n.w.over, w.pc = "waiting" \/ (w.pc = "stuck" /\ ~n.plugin)
    PROVE  WsInv([n EXCEPT !.w = w])
<1> DEFINE m == [n EXCEPT !.w = w, !.d = n.d, !.push = n.push]
<1>1. n \in WsStates /\ Working(n) /\ Flows(n)
  BY DEF WsInv
<1>2. [n EXCEPT !.w = w] = m
  BY WsThread
<1>3. m.s = n.s /\ m.h = n.h /\ m.w = w /\ m.d = n.d /\ m.push = n.push
  BY WsThreadFields
<1>4. n.d \in [pc : {"idle", "reap", "stuck", "jam"}, s : 0..MaxSessions] /\ n.push \in WsPush
  BY <1>1, WsFields
<1> HIDE DEF m
<1>5. Working(m)
  <2>1. Pushing(m)
    BY <1>1, <1>3 DEF Working, Pushing
  <2> QED BY <1>1, <1>3, <2>1 DEF Working
<1>6. /\ \A k \in W!Sessions : ~Mine(n, k)
      /\ (n.plugin => w.pc \notin {"stuck", "jam"} /\ n.d.pc \notin {"stuck", "jam"})
  BY <1>1 DEF Mine, Flows
<1>7. WsInv(m)
  BY <1>4, <1>5, <1>6, WsThreads DEF m
<1> QED BY <1>2, <1>7

\* websocket_message: the session that was found is still there, unless the request outlasted
\* its grace period.
LEMMA WsMessage ==
    ASSUME WsInv(ws), WsAssumption, W!websocket_message
    PROVE  WsInv(ws')
<1> DEFINE q == W!Quiet(ws)
<1>1. WsInv(q) /\ q.sent = << >> /\ q.s = ws.s /\ q.h = ws.h /\ q.w = ws.w
  BY WsQuiet
<1>2. ws.w.pc = "found"
  BY Zenon DEF W!websocket_message
<1> DEFINE i == ws.w.s
           x == [q.s[i] EXCEPT !.idle = FALSE]
           n == [q EXCEPT !.s[i] = x]
           f == [q EXCEPT !.s[i].idle = FALSE]
           who == W!Slow(ws.w.over, "request")
           j == IF ws.w.h \in ws.s[i].hs THEN ws.w.h ELSE 0
           locks == ws.w.h # 0 \/ ws.w.req \in {"attach", "attach_fails"}
<1>3. /\ ws.s[i].state # "live" => ws' = W!Done(W!Use(q, i, who))
      /\ ws.s[i].state = "live" /\ locks /\ ~ws.s[i].mutex => ws' = [f EXCEPT !.w.pc = "stuck"]
      /\ ws.s[i].state = "live" /\ ~(locks /\ ~ws.s[i].mutex) =>
           CASE ws.w.req \in {"attach", "attach_fails"} -> ws' = IF j # 0 THEN W!Done(f) ELSE W!Attach(f, i)
             [] ws.w.req = "detach" -> ws' = IF j = 0 THEN W!Done(f) ELSE W!Done(W!DropHandles(f, i, {j}))
             [] ws.w.req = "destroy" ->
                  ws' = IF j # 0 \/ ws.s[i].destroy THEN W!Done(f)
                        ELSE [f EXCEPT !.s[i].destroy = TRUE, !.w.pc = "schedule"]
             [] ws.w.req = "janus" ->
                  \/ ws' = W!Done(f)
                  \/ j # 0 /\ ws.h[j].app /\ ws.h[j].ALERT /\ ws' = [f EXCEPT !.w.pc = "waiting", !.w.h = j]
             [] OTHER -> ws' = W!Done(f)
  BY Zenon DEF W!websocket_message
<1> HIDE DEF q
<1>4. q \in WsStates /\ Working(q) /\ Flows(q)
  BY <1>1 DEF WsInv
<1>5. i \in W!Sessions /\ i = q.w.s /\ (q.w.over \/ q.s[i].state = "live")
  BY <1>1, <1>2, <1>4 DEF Working, Fresh
<1>17. CASE ws.s[i].state # "live"
  <2> DEFINE u == W!Use(q, i, who)
  <2>1. who = "over" /\ ws' = W!Done(u)
    BY <1>1, <1>3, <1>5, <1>17 DEF W!Slow
  <2> HIDE DEF i, who
  <2>2. WsInv(u) /\ u.w = q.w
    BY <1>1, <1>5, <2>1, WsUse
  <2> HIDE DEF u
  <2>3. u.w.pc = "found"
    BY <1>1, <1>2, <2>2
  <2>4. WsInv(W!Done(u))
    BY <2>2, <2>3, WsDone
  <2> QED BY <2>1, <2>4
<1>18. SUFFICES ASSUME ws.s[i].state = "live" PROVE WsInv(ws')
  BY <1>17
<1>6. f = n
  OBVIOUS
<1> HIDE DEF f, i
<1>7. q.s[i] \in WsSession
  BY <1>4, <1>5, WsFields
<1>8. /\ x \in WsSession /\ x.state = q.s[i].state /\ x.timer = q.s[i].timer /\ x.hs = q.s[i].hs
      /\ (x.table <=> q.s[i].table) /\ (x.old <=> q.s[i].old) /\ (x.destroy <=> q.s[i].destroy)
      /\ (x.mutex <=> q.s[i].mutex)
  BY <1>7 DEF WsSession
<1> HIDE DEF x
<1>9. /\ WsInv(n) /\ n.s = [q.s EXCEPT ![i] = x] /\ n.h = q.h /\ n.w = q.w /\ n.sent = q.sent
      /\ n.plugin = q.plugin
  BY <1>1, <1>5, <1>8, WsMark
<1>10. n.s[i] = x
  BY <1>4, <1>5, <1>9, WsFields
<1> HIDE DEF n
<1>11. WsInv(f) /\ f.sent = << >> /\ f.w = ws.w /\ f.h = ws.h /\ f.s[i] = x /\ f.plugin = q.plugin
  BY <1>1, <1>6, <1>9, <1>10
<1>12. f.w.pc = "found" /\ f.w.s = i /\ (f.s[i].destroy <=> ws.s[i].destroy) /\ f.s[i].state = "live"
  BY <1>1, <1>2, <1>5, <1>8, <1>11, <1>18
<1>13. WsInv(W!Done(f))
  BY <1>11, <1>12, WsDone
<1>14. f \in WsStates /\ f.w \in WsWorker
  BY <1>11, WsFields DEF WsInv
<1>15. CASE locks /\ ~ws.s[i].mutex
  <2> DEFINE w == [f.w EXCEPT !.pc = "stuck"]
  <2>1. ws' = [f EXCEPT !.w = w]
    BY <1>3, <1>14, <1>15, <1>18 DEF WsStates
  <2>2. w \in WsWorker /\ w.pc = "stuck" /\ w.s = f.w.s /\ w.c = f.w.c /\ (w.over <=> f.w.over)
    BY <1>14 DEF WsWorker
  <2>3. ~f.plugin
    BY <1>1, <1>4, <1>5, <1>11, <1>15 DEF Flows
  <2> HIDE DEF w
  <2>4. WsInv([f EXCEPT !.w = w])
    BY <1>11, <1>12, <2>2, <2>3, WsHalt
  <2> QED BY <2>1, <2>4
<1>16. CASE ~(locks /\ ~ws.s[i].mutex)
  <2>1. CASE ws.w.req \in {"attach", "attach_fails"}
    <3>1. ws' = W!Done(f) \/ ws' = W!Attach(f, i)
      BY <1>3, <1>16, <1>18, <2>1
    <3>2. W!UnusedHandles # {}
      BY <1>1, <1>2, <1>4, <2>1 DEF Working, W!UnusedHandles
    <3>3. WsInv(W!Attach(f, f.w.s))
      BY <1>11, <1>12, <3>2, WsAttach
    <3> QED BY <1>12, <1>13, <3>1, <3>3
  <2>2. CASE ws.w.req = "detach"
    <3> DEFINE js == {j}
    <3>1. ws' = W!Done(f) \/ (j # 0 /\ ws' = W!Done(W!DropHandles(f, i, js)))
      BY <1>3, <1>16, <1>18, <2>2
    <3>2. CASE j # 0
      <4>1. js \in SUBSET W!Handles
        <5>1. j \in q.s[i].hs
          BY <1>1, <3>2
        <5> QED BY <1>7, <5>1 DEF WsSession
      <4> HIDE DEF js, j
      <4> DEFINE b == W!DropHandles(f, i, js)
      <4>2. WsInv(b) /\ b.w = f.w
        <5>1. WsInv(f) /\ f.sent = << >> /\ i \in W!Sessions
          BY <1>5, <1>11
        <5> HIDE DEF f
        <5>2. WsInv(W!DropHandles(f, i, js))
          BY <4>1, <5>1, WsDrop
        <5>3. W!DropHandles(f, i, js).w = f.w
          BY <1>14 DEF W!DropHandles, W!janus_ice_handle_destroy, WsStates
        <5> QED BY <5>2, <5>3
      <4> HIDE DEF b
      <4>3. b.w.pc \notin {"schedule", "jam"}
        BY <1>12, <4>2
      <4>4. WsInv(W!Done(b))
        BY <4>2, <4>3, WsDone
      <4> QED BY <1>13, <3>1, <4>4 DEF b
    <3> QED BY <1>13, <3>1, <3>2
  <2>3. CASE ws.w.req = "destroy"
    <3>1. \/ ws' = W!Done(f)
          \/ ~ws.s[i].destroy /\ ws' = [f EXCEPT !.s[i].destroy = TRUE, !.w.pc = "schedule"]
      BY <1>3, <1>16, <1>18, <2>3, SMTT(60)
    <3>2. ASSUME ~ws.s[i].destroy PROVE WsInv([f EXCEPT !.s[f.w.s].destroy = TRUE, !.w.pc = "schedule"])
      BY <1>11, <1>12, <3>2, WsClaim
    <3> QED BY <1>12, <1>13, <3>1, <3>2
  <2>4. CASE ws.w.req = "janus"
    <3> DEFINE w == [f.w EXCEPT !.pc = "waiting", !.h = j]
    <3>1. ws' = W!Done(f) \/ (j # 0 /\ ws' = [f EXCEPT !.w.pc = "waiting", !.w.h = j])
      BY <1>3, <1>16, <1>18, <2>4
    <3>2. CASE j # 0 /\ ws' = [f EXCEPT !.w.pc = "waiting", !.w.h = j]
      <4>1. j \in 0..MaxHandles
        BY <1>11, <1>14, <3>2 DEF WsWorker
      <4> HIDE DEF j
      <4>2. ws' = [f EXCEPT !.w = w]
        BY <1>14, <3>2 DEF WsStates
      <4>3. w \in WsWorker /\ w.pc = "waiting" /\ w.s = f.w.s /\ w.c = f.w.c /\ (w.over <=> f.w.over)
        BY <1>14, <4>1 DEF WsWorker
      <4> HIDE DEF w
      <4>4. WsInv([f EXCEPT !.w = w])
        BY <1>11, <1>12, <4>3, WsHalt
      <4> QED BY <4>2, <4>4
    <3> QED BY <1>13, <3>1, <3>2
  <2>5. CASE ws.w.req \notin {"attach", "attach_fails", "detach", "destroy", "janus"}
    <3>1. ws' = W!Done(f)
      BY <1>3, <1>16, <1>18, <2>5
    <3> QED BY <1>13, <3>1
  <2> QED BY <2>1, <2>2, <2>3, <2>4, <2>5
<1> QED BY <1>15, <1>16

----------------------------------------------------------------------------
(* The invariant, and what follows from it.                                 *)

\* Nothing is there to begin with.
LEMMA WsInit ==
    ASSUME WsAssumption, W!Init
    PROVE  WsAll
<1>1. PICK plugin \in BOOLEAN :
        ws = [s |-> [i \in W!Sessions |-> W!NoSession], h |-> [j \in W!Handles |-> W!NoHandle],
              conns |-> [c \in Conns |-> W!NoEx], w |-> W!Idle, d |-> [pc |-> "idle", s |-> 0], push |-> W!NoPush,
              plugin |-> plugin, sent |-> << >>, faults |-> {}]
  BY DEF W!Init
<1>2. W!NoSession \in WsSession /\ W!NoHandle \in WsHandle /\ W!Idle \in WsWorker
      /\ W!NoEx \in [open : BOOLEAN, sender : 0..MaxHandles]
      /\ [pc |-> "idle", s |-> 0] \in [pc : {"idle", "reap", "stuck", "jam"}, s : 0..MaxSessions]
      /\ W!NoPush \in WsPush /\ W!NoPush.h = 0
  BY DEF W!NoSession, W!NoHandle, W!Idle, W!NoPush, WsPush, W!NoEx, WsSession, WsHandle, WsWorker, WsAssumption
<1>3. ws \in WsStates
  BY <1>1, <1>2 DEF WsStates
<1>4. /\ \A i \in W!Sessions : ws.s[i] = W!NoSession
      /\ \A j \in W!Handles : ws.h[j] = W!NoHandle
      /\ \A c \in Conns : ws.conns[c] = W!NoEx
      /\ ws.w.pc = "idle" /\ ws.d.pc = "idle" /\ ws.push = W!NoPush /\ ws.sent = << >> /\ ws.faults = {}
  BY <1>1 DEF W!Idle
<1>5. Tabled(ws)
  <2>1. \A mine, d : InTable(W!NoSession, mine, d)
    BY DEF InTable, W!NoSession
  <2> QED BY <1>4, <2>1 DEF Tabled
<1>6. Working(ws)
  BY <1>2, <1>4 DEF Working, Pushing
<1>7. Attached(ws) /\ Flows(ws)
  <2>1. W!NoSession.hs = {} /\ W!NoSession.mutex /\ ~W!NoHandle.live /\ W!NoEx.sender = 0
    BY DEF W!NoSession, W!NoHandle, W!NoEx
  <2>2. Attached(ws)
    BY <1>4, <2>1 DEF Attached
  <2> QED BY <1>4, <2>1, <2>2 DEF Flows
<1> QED BY <1>3, <1>4, <1>5, <1>6, <1>7 DEF WsAll, WsInv

\* Every step keeps the invariant.
LEMMA WsStep ==
    ASSUME WsAssumption, WsAll, [W!Next]_ws
    PROVE  WsAll'
<1>1. WsInv(ws)
  BY DEF WsAll
<1>2. SUFFICES WsInv(ws')
  BY DEF WsAll
<1>3. ASSUME NEW c \in Conns, W!websocket_connect(c) PROVE WsInv(ws')
  BY <1>1, <1>3, WsConnect
<1>4. ASSUME NEW c \in Conns, W!websocket_disconnect(c) PROVE WsInv(ws')
  BY <1>1, <1>4, WsDisconnect
<1>5. ASSUME NEW c \in Conns, NEW i \in W!Sessions, NEW req \in W!Types, NEW j \in {0} \cup W!Handles,
             W!janus_session_find(c, i, req, j)
      PROVE  WsInv(ws')
  BY <1>1, <1>5, WsFind
<1>6. CASE W!websocket_message
  BY <1>1, <1>6, WsMessage
<1>7. CASE W!janus_session_schedule_destruction
  BY <1>1, <1>7, WsSchedule
<1>8. CASE W!Waited
  BY <1>1, <1>8, WsWaited
<1>9. ASSUME NEW i \in W!Sessions, W!Expire(i) PROVE WsInv(ws')
  BY <1>1, <1>9, WsExpire
<1>10. ASSUME NEW i \in W!Sessions, W!janus_check_sessions(i) PROVE WsInv(ws')
  BY <1>1, <1>10, WsCheck
<1>11. ASSUME NEW i \in W!Sessions, W!GraceEnds(i) PROVE WsInv(ws')
  BY <1>1, <1>11, WsGraceEnds
<1>12. ASSUME NEW i \in W!Sessions, W!janus_cleanup_session(i) PROVE WsInv(ws')
  BY <1>1, <1>12, WsCleanup
<1>13. CASE W!Reap
  BY <1>1, <1>13, WsReap
<1>14. ASSUME NEW j \in W!Handles, W!PushBegin(j) PROVE WsInv(ws')
  BY <1>1, <1>14, WsPushBegin
<1>15. ASSUME NEW j \in W!Handles, W!janus_plugin_end_session(j) PROVE WsInv(ws')
  BY <1>1, <1>15, WsEndSession
<1>16. ASSUME NEW j \in W!Handles, W!janus_plugin_close_pc(j) \/ W!IceCleanup(j) PROVE WsInv(ws')
  BY <1>1, <1>16, WsAlert
<1>17. CASE W!janus_plugin_push_event
  BY <1>1, <1>17, WsPushEvent
<1>19. CASE W!PushGivesUp
  <2>1. ws' = [W!Quiet(ws) EXCEPT !.push = W!NoPush]
    BY <1>19 DEF W!PushGivesUp
  <2> QED BY <1>1, <2>1, WsPushOver
<1>18. CASE UNCHANGED ws
  BY <1>1, <1>18
<1> QED BY <1>3, <1>4, <1>5, <1>6, <1>7, <1>8, <1>9, <1>10, <1>11, <1>12, <1>13, <1>14, <1>15, <1>16, <1>17,
           <1>18, <1>19 DEF W!Next

(***************************************************************************)
(* The inductive invariant of the sessions of websocket_10: tables, threads *)
(* and handles agree in every state, however requests, the watchdog, its    *)
(* timers and the plugins meet.                                             *)
(***************************************************************************)
THEOREM WsInvariant ==
    ASSUME WsAssumption
    PROVE  W!Spec => []WsAll
<1>1. W!Init => WsAll
  BY WsInit
<1>2. WsAll /\ [W!Next]_ws => WsAll'
  BY WsStep
<1> QED BY <1>1, <1>2, PTL DEF W!Spec

\* Objects, program counters and timers are of their types.
THEOREM WsTypeCorrect ==
    ASSUME WsAssumption
    PROVE  W!Spec => []W!TypeOK
<1>1. WsAll => W!TypeOK
  <2> SUFFICES ASSUME WsAll PROVE W!TypeOK
    OBVIOUS
  <2>1. ws \in WsStates
    BY DEF WsAll, WsInv
  <2>2. ws.s \in [W!Sessions -> WsSession] /\ ws.w \in WsWorker /\ ws.push \in WsPush
        /\ ws.d \in [pc : {"idle", "reap", "stuck", "jam"}, s : 0..MaxSessions]
    BY <2>1, WsFields
  <2> QED BY <2>2 DEF W!TypeOK, WsSession, WsWorker, WsPush
<1> QED BY <1>1, WsInvariant, PTL

(***************************************************************************)
(* However a request that destroys a session (helper.c,                     *)
(* janus_session_schedule_destruction) and the watchdog that reaps it       *)
(* (janus_check_sessions) meet, a session nobody is at work on is in one    *)
(* table at most, has a timer exactly if it is old, and is freed once.      *)
(***************************************************************************)
THEOREM WsSessionsSettled ==
    ASSUME WsAssumption
    PROVE  W!Spec => []W!SessionsSettled
<1>1. WsAll => W!SessionsSettled
  <2> SUFFICES ASSUME WsAll, NEW i \in W!Sessions, ~W!Moving(i), ~W!Jammed
               PROVE  \/ ws.s[i].state # "live" /\ ~ws.s[i].table /\ ~ws.s[i].old /\ ws.s[i].timer = "no"
                      \/ /\ ws.s[i].state = "live" /\ ws.s[i].table /\ ~ws.s[i].old /\ ~ws.s[i].destroy
                         /\ ws.s[i].timer = "no"
                      \/ /\ ws.s[i].state = "live" /\ ~ws.s[i].table /\ ws.s[i].old /\ ws.s[i].destroy
                         /\ ws.s[i].timer # "no"
    BY DEF W!SessionsSettled
  <2>1. ws \in WsStates /\ Tabled(ws)
    BY DEF WsAll, WsInv
  <2>2. InTable(ws.s[i], Mine(ws, i), ws.d.pc) /\ ws.s[i] \in WsSession
    BY <2>1, WsFields DEF Tabled
  <2>3. ws.w.pc \notin {"stuck", "jam"} /\ ws.d.pc \notin {"stuck", "jam"}
    BY DEF W!Jammed
  <2>4. ~Mine(ws, i)
    BY <2>3 DEF Mine, W!Moving
  <2> QED BY <2>2, <2>3, <2>4 DEF InTable
<1> QED BY <1>1, WsInvariant, PTL

(***************************************************************************)
(* The three seconds between the destruction of a session and its release   *)
(* protect whoever takes no longer: a freed session is used only by one who *)
(* had found it before they were over (a request, or an event on its way    *)
(* through janus_plugin_handle_sdp), and by the plugin of a handle attached *)
(* too late.                                                                *)
(***************************************************************************)
THEOREM WsGraceSuffices ==
    ASSUME WsAssumption
    PROVE  W!Spec => []W!GraceSuffices
<1>1. WsAll => W!GraceSuffices
  BY DEF WsAll, WsInv, W!GraceSuffices
<1> QED BY <1>1, WsInvariant, PTL

\* The handles of a freed session are stopped, apart from those attached too late.
THEOREM WsHandlesStopped ==
    ASSUME WsAssumption
    PROVE  W!Spec => []W!HandlesStopped
<1>1. WsAll => W!HandlesStopped
  <2> SUFFICES ASSUME WsAll, NEW j \in W!Handles, ws.h[j].live, ~ws.h[j].late,
                      ws.s[ws.h[j].s].state = "freed", ~ws.h[j].STOP
               PROVE  FALSE
    BY DEF W!HandlesStopped
  <2>1. Held(ws.h[j], ws.s[ws.h[j].s], j)
    BY DEF WsAll, WsInv, Attached
  <2> QED BY <2>1 DEF Held
<1> QED BY <1>1, WsInvariant, PTL

\* kore_websocket_broadcast_target: an event reaches no connection but the one that attached
\* its handle.
THEOREM WsEventsReachOwner ==
    ASSUME WsAssumption
    PROVE  W!Spec => []W!EventsReachOwner
<1>1. WsAll => W!EventsReachOwner
  BY DEF WsAll, WsInv, W!EventsReachOwner
<1> QED BY <1>1, WsInvariant, PTL

\* With the plugin registered no mutex is left locked, and no thread waits for one.
THEOREM WsNeverJams ==
    ASSUME WsAssumption
    PROVE  W!Spec => []W!NeverJams
<1>1. WsAll => W!NeverJams
  <2> SUFFICES ASSUME WsAll, ws.plugin
               PROVE  ~W!Jammed /\ \A i \in W!Sessions : ws.s[i].mutex
    BY DEF W!NeverJams
  <2>1. Flows(ws)
    BY DEF WsAll, WsInv
  <2> QED BY <2>1 DEF Flows, W!Jammed
<1> QED BY <1>1, WsInvariant, PTL

----------------------------------------------------------------------------
(* The admin API of the janus bridge (JanusAdmin).                          *)

CONSTANTS Tokens, Plugins, Unknown, Numbers, MaxLevel, MinNackQueue, MaxChanges
VARIABLE ad
A == INSTANCE JanusAdmin

\* What is assumed of the constants: a number that is sent is an integer, LOG_MAX and the
\* least length of a queue are natural numbers, and a token is not the empty string.
AdAssumption == Numbers \subseteq Int /\ MaxLevel \in Nat /\ MinNackQueue \in Nat /\ "" \notin Tokens

\* Tokens and the plugins they may use.
AdTokens == UNION {[T -> SUBSET Plugins] : T \in SUBSET Tokens}
AdAttached == BOOLEAN \X (Tokens \cup {""}) \X Plugins
AdStates ==
    [session_timeout : Nat, log_level : 0..MaxLevel, no_media_timer : Int,
     max_nack_queue : {v \in Int : v = 0 \/ v >= MinNackQueue}, on : SUBSET A!Settings,
     enabled : BOOLEAN, stored : BOOLEAN, secret : BOOLEAN, admin_secret : BOOLEAN, tokens : AdTokens,
     dump : BOOLEAN, pcap : BOOLEAN, reply : {"", "success", "error"}, attached : {<< >>} \cup AdAttached, changes : Nat]

\* The settings and tokens are valid, packets are dumped while there is a file, and whoever
\* was attached last was allowed to be.
AdInv(n) ==
    /\ n \in AdStates /\ (n.dump <=> n.pcap)
    /\ n.attached # << >> =>
         \/ n.enabled /\ n.attached[2] \in DOMAIN n.tokens /\ n.attached[3] \in n.tokens[n.attached[2]]
         \/ n.secret /\ n.attached[1] /\ (n.enabled => n.attached[2] = "")
         \/ ~n.secret /\ ~n.enabled
AdAll == AdInv(ad)

\* What is asked of a step: it keeps the invariant, and changes nothing if it is answered
\* with an error.
AdGood == AdInv(ad') /\ A!ErrorStep

\* The reply "success", after a change that leaves the settings valid.
LEMMA AdSuccess ==
    ASSUME AdAll, NEW n \in AdStates, n.dump <=> n.pcap, A!janus_process_success(n)
    PROVE  AdGood
<1> DEFINE k == IF n = ad THEN n.changes ELSE n.changes + 1
           m == [n EXCEPT !.attached = << >>, !.reply = "success", !.changes = k]
<1>1. ad' = m
  <2> DEFINE q == A!Quiet(n)
  <2>1. q = [n EXCEPT !.attached = << >>] /\ q.changes = n.changes
    BY DEF A!Quiet, AdStates
  <2>2. ad' = [q EXCEPT !.reply = "success", !.changes = IF n = ad THEN q.changes ELSE q.changes + 1]
    BY DEF A!janus_process_success
  <2>3. ad' = [q EXCEPT !.reply = "success", !.changes = k]
    BY <2>1, <2>2
  <2> HIDE DEF k, q
  <2>4. ad' = [[n EXCEPT !.attached = << >>] EXCEPT !.reply = "success", !.changes = k]
    BY <2>1, <2>3, Zenon
  <2> QED BY <2>4 DEF AdStates
<1>2. k \in Nat
  <2>1. n.changes \in Nat
    BY DEF AdStates
  <2> QED BY <2>1
<1> HIDE DEF k
<1>3. /\ m \in AdStates /\ m.attached = << >> /\ m.reply = "success" /\ m.dump = n.dump /\ m.pcap = n.pcap
  BY <1>2 DEF AdStates
<1> HIDE DEF m
<1> QED BY <1>1, <1>3 DEF AdGood, AdInv, A!ErrorStep

\* The reply "error".
LEMMA AdError ==
    ASSUME AdAll, A!janus_process_error
    PROVE  AdGood
<1> DEFINE m == [ad EXCEPT !.reply = "error", !.attached = << >>]
<1>1. ad \in AdStates /\ (ad.dump <=> ad.pcap)
  BY DEF AdAll, AdInv
<1>2. ad' = m
  BY <1>1 DEF A!janus_process_error, A!Quiet, AdStates
<1>3. m \in AdStates /\ m.attached = << >> /\ m.dump = ad.dump /\ m.pcap = ad.pcap
  BY <1>1 DEF AdStates
<1>4. A!ErrorStep
  BY <1>2 DEF A!ErrorStep
<1> HIDE DEF m
<1> QED BY <1>1, <1>2, <1>3, <1>4 DEF AdGood, AdInv

\* A number is stored only if it is valid.
LEMMA AdNumber ==
    ASSUME AdAll, AdAssumption, NEW v \in Numbers, NEW ok, NEW secret,
           \/ A!set_session_timeout(v, ok, secret) \/ A!set_log_level(v, ok, secret)
           \/ A!set_max_nack_queue(v, ok, secret) \/ A!set_no_media_timer(v, ok, secret)
    PROVE  AdGood
<1>1. ad \in AdStates /\ (ad.dump <=> ad.pcap) /\ v \in Int
  BY DEF AdAll, AdInv, AdAssumption
<1>2. CASE A!janus_process_error
  BY <1>2, AdError
<1>3. CASE v >= 0 /\ A!janus_process_success([ad EXCEPT !["session_timeout"] = v])
  <2> DEFINE n == [ad EXCEPT !["session_timeout"] = v]
  <2>1. v \in Nat
    BY <1>1, <1>3
  <2>2. n \in AdStates /\ (n.dump <=> n.pcap)
    BY <1>1, <2>1 DEF AdStates
  <2> HIDE DEF n
  <2> QED BY <1>3, <2>2, AdSuccess DEF n
<1>4. CASE v \in 0..MaxLevel /\ A!janus_process_success([ad EXCEPT !["log_level"] = v])
  <2> DEFINE n == [ad EXCEPT !["log_level"] = v]
  <2>1. n \in AdStates /\ (n.dump <=> n.pcap)
    BY <1>1, <1>4 DEF AdStates
  <2> HIDE DEF n
  <2> QED BY <1>4, <2>1, AdSuccess DEF n
<1>5. CASE (v = 0 \/ v >= MinNackQueue) /\ A!janus_process_success([ad EXCEPT !["max_nack_queue"] = v])
  <2> DEFINE n == [ad EXCEPT !["max_nack_queue"] = v]
  <2>1. n \in AdStates /\ (n.dump <=> n.pcap)
    BY <1>1, <1>5 DEF AdStates
  <2> HIDE DEF n
  <2> QED BY <1>5, <2>1, AdSuccess DEF n
<1>6. CASE A!janus_process_success([ad EXCEPT !["no_media_timer"] = v])
  <2> DEFINE n == [ad EXCEPT !["no_media_timer"] = v]
  <2>1. n \in AdStates /\ (n.dump <=> n.pcap)
    BY <1>1 DEF AdStates
  <2> HIDE DEF n
  <2> QED BY <1>6, <2>1, AdSuccess DEF n
<1> QED BY <1>2, <1>3, <1>4, <1>5, <1>6 DEF A!SetNumber, A!set_session_timeout, A!set_log_level,
           A!set_max_nack_queue, A!set_no_media_timer

\* A setting is switched on or off.
LEMMA AdBoolean ==
    ASSUME AdAll, NEW name \in A!Settings, NEW v \in BOOLEAN, NEW ok, NEW secret,
           A!SetBoolean(name, v, ok, secret)
    PROVE  AdGood
<1> DEFINE on == IF v THEN ad.on \cup {name} ELSE ad.on \ {name}
           n == [ad EXCEPT !.on = on]
<1>1. ad \in AdStates /\ (ad.dump <=> ad.pcap)
  BY DEF AdAll, AdInv
<1>2. on \in SUBSET A!Settings
  BY <1>1 DEF AdStates
<1>3. A!janus_process_error \/ A!janus_process_success(n)
  BY DEF A!SetBoolean
<1> HIDE DEF on
<1>4. n \in AdStates /\ (n.dump <=> n.pcap)
  BY <1>1, <1>2 DEF AdStates
<1> HIDE DEF n
<1> QED BY <1>3, <1>4, AdSuccess, AdError

\* A change of the tokens.
LEMMA AdTokensChange ==
    ASSUME AdAll, NEW tokens \in AdTokens, A!janus_process_success([ad EXCEPT !.tokens = tokens])
    PROVE  AdGood
<1> DEFINE n == [ad EXCEPT !.tokens = tokens]
<1>1. ad \in AdStates /\ (ad.dump <=> ad.pcap)
  BY DEF AdAll, AdInv
<1>2. n \in AdStates /\ (n.dump <=> n.pcap)
  BY <1>1 DEF AdStates
<1> HIDE DEF n
<1> QED BY <1>2, AdSuccess DEF n

\* janus_request_allow_token stores plugins that are loaded, and no others.
LEMMA AdAllow ==
    ASSUME AdAll, NEW t \in Tokens, NEW allowed, NEW allow \in BOOLEAN, NEW add \in BOOLEAN, NEW ok, NEW secret,
           A!janus_request_allow_token(t, allowed, allow, add, ok, secret)
    PROVE  AdGood
<1> DEFINE all == IF allowed = << >> THEN Plugins ELSE A!ToSet(allowed) \cap Plugins
           old == IF t \in DOMAIN ad.tokens THEN ad.tokens[t] ELSE {}
           new == IF allow THEN old \cup all ELSE old \ all
           tokens == [x \in DOMAIN ad.tokens \cup {t} |-> IF x = t THEN new ELSE ad.tokens[x]]
<1>1. ad.tokens \in AdTokens
  BY DEF AdAll, AdInv, AdStates
<1>2. PICK T \in SUBSET Tokens : ad.tokens \in [T -> SUBSET Plugins]
  BY <1>1 DEF AdTokens
<1>3. new \in SUBSET Plugins
  BY <1>2
<1>4. A!janus_process_error \/ A!janus_process_success([ad EXCEPT !.tokens = tokens])
  BY DEF A!janus_request_allow_token
<1> HIDE DEF new
<1>5. tokens \in [T \cup {t} -> SUBSET Plugins] /\ T \cup {t} \in SUBSET Tokens
  BY <1>2, <1>3
<1> HIDE DEF tokens
<1>6. tokens \in AdTokens
  BY <1>5 DEF AdTokens
<1> QED BY <1>4, <1>6, AdTokensChange, AdError

\* A token is removed.
LEMMA AdRemove ==
    ASSUME AdAll, NEW t \in Tokens, NEW ok, NEW secret, A!remove_token(t, ok, secret)
    PROVE  AdGood
<1> DEFINE tokens == A!Restrict(ad.tokens, DOMAIN ad.tokens \ {t})
<1>1. ad.tokens \in AdTokens
  BY DEF AdAll, AdInv, AdStates
<1>2. PICK T \in SUBSET Tokens : ad.tokens \in [T -> SUBSET Plugins]
  BY <1>1 DEF AdTokens
<1>3. A!janus_process_error \/ A!janus_process_success([ad EXCEPT !.tokens = tokens])
  BY DEF A!remove_token
<1>4. tokens \in [T \ {t} -> SUBSET Plugins] /\ T \ {t} \in SUBSET Tokens
  BY <1>2 DEF A!Restrict
<1> HIDE DEF tokens
<1>5. tokens \in AdTokens
  BY <1>4 DEF AdTokens
<1> QED BY <1>3, <1>5, AdTokensChange, AdError

\* The capture is started with its file and stopped with it; what only asks changes nothing.
LEMMA AdOther ==
    ASSUME AdAll, NEW t, NEW ok, NEW secret, NEW created,
           \/ A!start_pcap(created, ok, secret) \/ A!stop_pcap(secret)
           \/ A!Ask(ok, secret) \/ A!Create(secret, t)
    PROVE  AdGood
<1> DEFINE p == [ad EXCEPT !.pcap = TRUE, !.dump = TRUE]
           r == [ad EXCEPT !.dump = FALSE, !.pcap = FALSE]
<1>1. ad \in AdStates /\ (ad.dump <=> ad.pcap)
  BY DEF AdAll, AdInv
<1>2. p \in AdStates /\ p.dump /\ p.pcap /\ r \in AdStates /\ ~r.dump /\ ~r.pcap
  BY <1>1 DEF AdStates
<1>3. \/ A!janus_process_error \/ A!janus_process_success(ad) \/ A!janus_process_success(p)
      \/ A!janus_process_success(r)
  BY DEF A!start_pcap, A!stop_pcap, A!Ask, A!Create
<1> HIDE DEF p, r
<1> QED BY <1>1, <1>2, <1>3, AdSuccess, AdError

\* A signed token that expires takes nothing but itself.
LEMMA AdExpires ==
    ASSUME AdAll, NEW t \in Tokens, A!Expires(t)
    PROVE  AdGood
<1> DEFINE e == A!Restrict(ad.tokens, DOMAIN ad.tokens \ {t})
           m == [ad EXCEPT !.tokens = e, !.reply = "", !.attached = << >>]
<1>1. ad \in AdStates /\ (ad.dump <=> ad.pcap)
  BY DEF AdAll, AdInv
<1>2. e \in AdTokens
  <2>1. PICK T \in SUBSET Tokens : ad.tokens \in [T -> SUBSET Plugins]
    BY <1>1 DEF AdStates, AdTokens
  <2>2. e \in [T \ {t} -> SUBSET Plugins]
    BY <2>1 DEF A!Restrict
  <2> QED BY <2>1, <2>2 DEF AdTokens
<1>3. ad' = m
  BY <1>1 DEF A!Expires, A!Quiet, AdStates
<1> HIDE DEF e
<1>4. m \in AdStates /\ m.attached = << >> /\ m.reply = "" /\ m.dump = ad.dump /\ m.pcap = ad.pcap
  BY <1>1, <1>2 DEF AdStates
<1> HIDE DEF m
<1> QED BY <1>1, <1>3, <1>4 DEF AdGood, AdInv, A!ErrorStep

\* "attach" succeeds only for a client that may use the plugin.
LEMMA AdAttach ==
    ASSUME AdAll, NEW secret \in BOOLEAN, NEW t \in Tokens \cup {""}, NEW p, A!Attach(secret, t, p), AdAssumption
    PROVE  AdGood
<1> DEFINE m == [ad EXCEPT !.attached = <<secret, t, p>>, !.reply = "success"]
<1>1. ad \in AdStates /\ (ad.dump <=> ad.pcap)
  BY DEF AdAll, AdInv
<1>2. CASE A!janus_process_error
  BY <1>2, AdError
<1>3. CASE /\ A!janus_request_check_secret(secret, t) /\ p \in Plugins
           /\ ad.enabled /\ t # "" => t \in DOMAIN ad.tokens /\ p \in ad.tokens[t]
           /\ ad' = [A!Quiet(ad) EXCEPT !.attached = <<secret, t, p>>, !.reply = "success"]
  <2>1. ad' = m
    BY <1>1, <1>3 DEF A!Quiet, AdStates
  <2>2. <<secret, t, p>> \in AdAttached
    BY <1>3 DEF AdAttached
  <2>3. /\ m \in AdStates /\ m.attached = <<secret, t, p>> /\ m.reply = "success" /\ m.enabled = ad.enabled
        /\ m.secret = ad.secret /\ m.tokens = ad.tokens /\ m.dump = ad.dump /\ m.pcap = ad.pcap
    BY <1>1, <2>2 DEF AdStates
  <2> HIDE DEF m
  <2>4. m.attached[1] = secret /\ m.attached[2] = t /\ m.attached[3] = p
    <3>1. <<secret, t, p>>[1] = secret /\ <<secret, t, p>>[2] = t /\ <<secret, t, p>>[3] = p
      OBVIOUS
    <3> QED BY <2>3, <3>1, Zenon
  <2>5. "" \notin DOMAIN ad.tokens
    <3>1. PICK T \in SUBSET Tokens : ad.tokens \in [T -> SUBSET Plugins]
      BY <1>1 DEF AdStates, AdTokens
    <3> QED BY <3>1 DEF AdAssumption
  <2>6. \/ ad.enabled /\ t \in DOMAIN ad.tokens /\ p \in ad.tokens[t]
        \/ ad.secret /\ secret /\ (ad.enabled => t = "")
        \/ ~ad.secret /\ ~ad.enabled
    BY <1>3, <2>5 DEF A!janus_request_check_secret
  <2>7. AdInv(m)
    BY <1>1, <2>3, <2>4, <2>6 DEF AdInv
  <2> QED BY <2>1, <2>3, <2>7 DEF AdGood, A!ErrorStep
<1> QED BY <1>2, <1>3 DEF A!Attach

\* Every request.
LEMMA AdNext ==
    ASSUME AdAll, AdAssumption, A!Next
    PROVE  AdGood
<1>1. ASSUME NEW v \in Numbers, NEW ok \in BOOLEAN, NEW secret \in BOOLEAN,
             \/ A!set_session_timeout(v, ok, secret) \/ A!set_log_level(v, ok, secret)
             \/ A!set_max_nack_queue(v, ok, secret) \/ A!set_no_media_timer(v, ok, secret)
      PROVE  AdGood
  BY <1>1, AdNumber
<1>2. ASSUME NEW v \in BOOLEAN, NEW ok \in BOOLEAN, NEW secret \in BOOLEAN,
             \/ A!set_locking_debug(v, ok, secret) \/ A!set_refcount_debug(v, ok, secret)
             \/ A!set_log_timestamps(v, ok, secret) \/ A!set_log_colors(v, ok, secret)
             \/ A!set_libnice_debug(v, ok, secret) \/ A!accept_new_sessions(v, ok, secret)
      PROVE  AdGood
  <2>1. PICK name \in A!Settings : A!SetBoolean(name, v, ok, secret)
    BY <1>2 DEF A!Settings, A!set_locking_debug, A!set_refcount_debug, A!set_log_timestamps, A!set_log_colors,
                A!set_libnice_debug, A!accept_new_sessions
  <2> QED BY <2>1, AdBoolean
<1>3. ASSUME NEW t \in Tokens, NEW allowed \in A!PluginLists, NEW ok \in BOOLEAN, NEW secret \in BOOLEAN,
             \/ A!add_token(t, allowed, ok, secret) \/ A!allow_token(t, allowed, ok, secret)
             \/ A!disallow_token(t, allowed, ok, secret)
      PROVE  AdGood
  <2>1. CASE A!janus_request_allow_token(t, allowed, TRUE, TRUE, ok, secret)
    BY <2>1, AdAllow
  <2>2. CASE A!janus_request_allow_token(t, allowed, TRUE, FALSE, ok, secret)
    BY <2>2, AdAllow
  <2>3. CASE A!janus_request_allow_token(t, allowed, FALSE, FALSE, ok, secret)
    BY <2>3, AdAllow
  <2> QED BY <1>3, <2>1, <2>2, <2>3 DEF A!add_token, A!allow_token, A!disallow_token
<1>4. ASSUME NEW t \in Tokens, NEW ok \in BOOLEAN, NEW secret \in BOOLEAN, A!remove_token(t, ok, secret)
      PROVE  AdGood
  BY <1>4, AdRemove
<1>5. ASSUME NEW created \in BOOLEAN, NEW ok \in BOOLEAN, NEW secret \in BOOLEAN, A!start_pcap(created, ok, secret)
      PROVE  AdGood
  BY <1>5, AdOther
<1>6. ASSUME NEW secret \in BOOLEAN, A!stop_pcap(secret) PROVE AdGood
  BY <1>6, AdOther
<1>7. ASSUME NEW ok \in BOOLEAN, NEW secret \in BOOLEAN, A!Ask(ok, secret) PROVE AdGood
  BY <1>7, AdOther
<1>8. ASSUME NEW secret \in BOOLEAN, NEW t \in Tokens \cup {""}, A!Create(secret, t) PROVE AdGood
  BY <1>8, AdOther
<1>9. ASSUME NEW secret \in BOOLEAN, NEW t \in Tokens \cup {""}, NEW p \in Plugins \cup {Unknown},
             A!Attach(secret, t, p)
      PROVE  AdGood
  BY <1>9, AdAttach
<1>10. ASSUME NEW t \in Tokens, A!Expires(t) PROVE AdGood
  BY <1>10, AdExpires
<1> QED BY <1>1, <1>2, <1>3, <1>4, <1>5, <1>6, <1>7, <1>8, <1>9, <1>10, ZenonT(60) DEF A!Next

\* The settings the server starts with are valid.
LEMMA AdInit ==
    ASSUME AdAssumption, A!Init
    PROVE  AdAll
<1>1. PICK enabled \in BOOLEAN, stored \in BOOLEAN, secret \in BOOLEAN, admin \in BOOLEAN,
           signed \in A!SignedTokens : ad = A!Start(enabled, stored, secret, admin, signed)
  BY DEF A!Init
<1>2. signed \in AdTokens
  BY DEF AdTokens, A!SignedTokens
<1>3. /\ 0 \in 0..MaxLevel /\ 0 \in {v \in Int : v = 0 \/ v >= MinNackQueue}
      /\ {"accept_new_sessions"} \in SUBSET A!Settings /\ << >> \in {<< >>} \cup AdAttached
  <2>1. 0 \in 0..MaxLevel /\ 0 \in {v \in Int : v = 0 \/ v >= MinNackQueue}
    <3>1. MaxLevel \in Nat
      BY DEF AdAssumption
    <3> QED BY <3>1
  <2>2. {"accept_new_sessions"} \in SUBSET A!Settings
    BY DEF A!Settings
  <2>3. << >> \in {<< >>} \cup AdAttached
    BY Zenon
  <2> QED BY <2>1, <2>2, <2>3
<1>4. ad \in AdStates
  BY <1>1, <1>2, <1>3 DEF AdStates, A!Start
<1> QED BY <1>1, <1>4 DEF AdAll, AdInv, A!Start

\* The inductive invariant of the admin API: valid settings and tokens, and nobody attached
\* who may not be.
THEOREM AdInvariant ==
    ASSUME AdAssumption
    PROVE  A!Spec => []AdAll
<1>1. A!Init => AdAll
  BY AdInit
<1>2. AdAll /\ [A!Next]_ad => AdAll'
  <2>1. ASSUME AdAll, A!Next PROVE AdAll'
    BY <2>1, AdNext DEF AdGood, AdAll
  <2>2. ASSUME AdAll, UNCHANGED ad PROVE AdAll'
    BY <2>2 DEF AdAll
  <2> QED BY <2>1, <2>2
<1> QED BY <1>1, <1>2, PTL DEF A!Spec

\* Settings and tokens are of their types.
THEOREM AdTypeCorrect ==
    ASSUME AdAssumption
    PROVE  A!Spec => []A!TypeOK
<1>1. AdAll => A!TypeOK
  <2> SUFFICES ASSUME ad \in AdStates PROVE A!TypeOK
    BY DEF AdAll, AdInv
  <2>1. PICK T \in SUBSET Tokens : ad.tokens \in [T -> SUBSET Plugins]
    BY DEF AdStates, AdTokens
  <2>2. ad.on \in SUBSET A!Settings /\ ad.reply \in {"", "success", "error"}
    BY DEF AdStates
  <2> QED BY <2>1, <2>2 DEF A!TypeOK
<1> QED BY <1>1, AdInvariant, PTL

\* pjanus.c, the admin requests: whatever is sent, settings stay in their ranges, and packets
\* are dumped exactly while there is a file to dump them to.
THEOREM AdSettingsValid ==
    ASSUME AdAssumption
    PROVE  A!Spec => []A!SettingsValid
<1>1. AdAll => A!SettingsValid
  <2> SUFFICES ASSUME ad \in AdStates, ad.dump <=> ad.pcap PROVE A!SettingsValid
    BY DEF AdAll, AdInv
  <2>1. /\ ad.session_timeout >= 0 /\ ad.log_level \in 0..MaxLevel
        /\ ad.max_nack_queue = 0 \/ ad.max_nack_queue >= MinNackQueue
    <3>1. /\ ad.session_timeout \in Nat /\ ad.log_level \in 0..MaxLevel
          /\ ad.max_nack_queue \in {v \in Int : v = 0 \/ v >= MinNackQueue}
      BY DEF AdStates
    <3> QED BY <3>1
  <2>2. ad.dump = ad.pcap
    BY DEF AdStates
  <2> QED BY <2>1, <2>2 DEF A!SettingsValid
<1> QED BY <1>1, AdInvariant, PTL

\* janus_request_check_secret and "attach": a client attaches to a plugin only with a token
\* that allows it at that moment, or with the secret, or when neither is asked for.
THEOREM AdAttachAuthorized ==
    ASSUME AdAssumption
    PROVE  A!Spec => []A!AttachAuthorized
<1>1. AdAll => A!AttachAuthorized
  BY DEF AdAll, AdInv, A!AttachAuthorized
<1> QED BY <1>1, AdInvariant, PTL

\* janus_process_error_string: a request that is answered with an error has changed nothing.
THEOREM AdErrorsChangeNothing ==
    ASSUME AdAssumption
    PROVE  A!Spec => A!ErrorsChangeNothing
<1>1. AdAll /\ [A!Next]_ad => [A!ErrorStep]_ad
  <2>1. ASSUME AdAll, A!Next PROVE A!ErrorStep
    BY <2>1, AdNext DEF AdGood
  <2> QED BY <2>1
<1> QED BY <1>1, AdInvariant, PTL DEF A!Spec, A!ErrorsChangeNothing
=============================================================================
