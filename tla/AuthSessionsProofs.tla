------------------------- MODULE AuthSessionsProofs -------------------------
(***************************************************************************)
(* Theorems about AuthSessions, the session check of auth2 with its pool of *)
(* connections, for any requests and any limits: no connection is lost      *)
(* uncounted or shared, no visitor is let in whose cookie the server did    *)
(* not find, and nothing of a request is kept once it is over.              *)
(*                                                                          *)
(* The invariant is a predicate of any state, so that every function of the *)
(* code has a lemma of its own; below them is one for each kind of change   *)
(* that the functions make.                                                 *)
(***************************************************************************)
EXTENDS AuthSessions, SequenceTheorems, FiniteSetTheorems, WellFoundedInduction, TLAPS

----------------------------------------------------------------------------
(* The invariant.                                                           *)

\* What is assumed of the constants: a request is no null pointer, and the limit on the
\* connections is one that a u_int16_t can hold, and is not 0, which stands for no limit.
AuAssumption ==
    /\ "NULL" \notin Requests /\ CountMod \in Nat /\ ConnMax \in 1..(CountMod - 1)
    /\ Budgets \subseteq [failure : Int, change : Int, leave : Int]

\* Cookies, what may go wrong with a query, handles, requests and connections.
Cookies == {"NULL", "old", "user_sess"}
Causes == {"waited", "refused", "failed"}
Handles == [exists : BOOLEAN, name : Cookies, state : {"INIT", "WAIT", "COMPLETE", "ERROR"},
            conn : Nat, err : BOOLEAN]
Asks == [kind : {"", "page", "dashboard"}, get : BOOLEAN, cookie : Cookies,
         phase : {"new", "asking", "done", "gone"}, asleep : BOOLEAN,
         out : {"", "login", "known", "unknown", "dashboard", "405"}]
Conns == [job : Requests \cup {"NULL"}, sent : BOOLEAN,
          results : {<< >>} \cup {<<x>> : x \in Cookies \cup {"FATAL"}}, read : BOOLEAN, broken : BOOLEAN]

\* The states of a worker with the connections I.
AuStates(I) ==
    [jar : Cookies, alts : SUBSET {"old", "user_sess"}, conns : [I -> Conns], free : Seq(Nat),
     wait : Seq(Requests), qcount : Int, count : [Dbs -> 0..(CountMod - 1)],
     st : [Requests -> Handles], req : [Requests -> Asks], found : SUBSET Requests, lost : Nat,
     why : [Requests -> SUBSET Causes], fault : {"none", "freed"}, connects : BOOLEAN,
     left : [failure : Int, change : Int, leave : Int]]
AuTypes(s) == s \in AuStates(DOMAIN s.conns) /\ DOMAIN s.conns \in SUBSET (Nat \ {0})

\* A request r on its own: its handle h, its data q, the requests whose cookie the server
\* found, and what went wrong with its query.
Kept(r, h, q, found, why) ==
    /\ ~h.exists => h = NoState
    /\ h.exists => q.cookie # "NULL" /\ q.phase # "new"
    /\ q.phase = "new" => r \notin found /\ ~q.asleep
    /\ h.conn # 0 => h.exists /\ h.state \in {"WAIT", "ERROR"} /\ q.phase \in {"asking", "gone"}
    /\ h.state = "ERROR" => why # {}
    /\ h.name \in {"NULL", q.cookie} /\ (h.name # "NULL" => r \in found)
    /\ r \in found => q.cookie # "NULL"
    /\ q.out # "" <=> q.phase = "done"
    /\ q.phase = "done" /\ q.out # "405" => ~h.exists
    /\ q.out \in {"dashboard", "known"} => r \in found
    /\ q.out \in {"login", "unknown"} /\ r \in found => why # {}
    /\ q.asleep => q.kind = "page"
    /\ q.phase = "asking" => h.exists
    /\ q.phase = "asking" => \/ h.state \in {"COMPLETE", "ERROR"}
                             \/ h.state = "WAIT" /\ h.conn # 0
                             \/ h.state = "INIT" /\ "waited" \in why
Requested(s) == \A r \in Requests : Kept(r, s.st[r], s.req[r], s.found, s.why[r])

\* The free connections are those without a job, the others and their handles point at
\* each other, and who waits has not asked yet.
Pooled(s) ==
    /\ \A i, j \in DOMAIN s.free : s.free[i] = s.free[j] => i = j
    /\ \A i \in DOMAIN s.free : s.free[i] \in DOMAIN s.conns /\ s.conns[s.free[i]].job = "NULL"
    /\ \A c \in DOMAIN s.conns : s.conns[c].job = "NULL" =>
         /\ ~s.conns[c].sent /\ s.conns[c].results = << >> /\ ~s.conns[c].read
         /\ \E i \in DOMAIN s.free : s.free[i] = c
    /\ \A c \in DOMAIN s.conns : s.conns[c].job # "NULL" => s.st[s.conns[c].job].conn = c
    /\ \A r \in Requests : s.st[r].conn # 0 =>
         s.st[r].conn \in DOMAIN s.conns /\ s.conns[s.st[r].conn].job = r
Queued(s) ==
    /\ s.qcount = Len(s.wait)
    /\ \A i \in DOMAIN s.wait :
         LET r == s.wait[i]
         IN s.st[r].exists /\ s.st[r].state = "INIT" /\ s.req[r].phase \in {"asking", "gone"}

\* The answers under way: one to a query, and none that the server did not give.
Answers(s) ==
    /\ \A c \in DOMAIN s.conns :
         LET r == s.conns[c].job
             rows == s.conns[c].results
         IN  /\ s.conns[c].sent => r \notin s.found
             /\ rows \in {<< >>, <<"NULL">>, <<"FATAL">>} \/ (r \in s.found /\ rows = <<s.req[r].cookie>>)
    /\ \A r \in s.found :
         s.req[r].phase = "asking" /\ s.why[r] = {} =>
           \/ s.st[r].name = s.req[r].cookie
           \/ s.st[r].conn # 0 /\ s.conns[s.st[r].conn].results = <<s.req[r].cookie>>

\* Every connection that was ever made is counted, up to the limit.
Counted(s) ==
    /\ IsFiniteSet(DOMAIN s.conns) /\ s.count["sess_auth"] = Cardinality(DOMAIN s.conns) + s.lost
    /\ s.count["sess_auth"] <= ConnMax

\* Freed memory is used only after somebody left.
Faults(s) == s.fault = "none" \/ \E r \in Requests : s.req[r].phase = "gone"

AuInv(s) == AuTypes(s) /\ Requested(s) /\ Pooled(s) /\ Queued(s) /\ Answers(s) /\ Counted(s) /\ Faults(s)
AuAll == AuInv(au)
----------------------------------------------------------------------------
\* The least number of a nonempty set of naturals.
LEMMA LeastNatural ==
    ASSUME NEW N \in SUBSET Nat, N # {}
    PROVE  \E x \in N : \A y \in N : x <= y
<1>1. PICK x \in N : \A y \in N : ~ (<<y, x>> \in OpToRel(<, Nat))
  BY NatLessThanWellFounded, WFMin
<1>2. ASSUME NEW y \in N PROVE x <= y
  <2>1. <<y, x>> \in OpToRel(<, Nat) <=> y < x
     BY DEF OpToRel
  <2>2. ~(y < x)
     BY <1>1, <2>1, Zenon
  <2> QED BY <2>2
<1> QED BY <1>2

\* TAILQ_REMOVE of the first entry, and of one that is not there.
LEMMA RemoveHead ==
    ASSUME NEW q \in Seq(Nat), q # << >>
    PROVE  RemoveFirst(q, q[1]) = Tail(q)
<1>1. 1 \in 1..Len(q) /\ Len(q) \in Nat
  OBVIOUS
<1> DEFINE I == {i \in 1..Len(q) : q[i] = q[1]}
<1>2. Min(I) = 1
  <2>1. 1 \in I /\ \A i \in I : i \in Nat /\ 1 <= i
    BY <1>1
  <2> HIDE DEF I
  <2> QED BY <2>1 DEF Min
<1>3. I # {}
  BY <1>1
<1>4. SelectInSeq(q, LAMBDA v : v = q[1]) = 1
  BY <1>2, <1>3, Zenon DEF SelectInSeq
<1>5. RemoveFirst(q, q[1]) = RemoveAt(q, 1)
  BY <1>1, <1>4, Zenon DEF RemoveFirst
<1>6. RemoveAt(q, 1) = SubSeq(q, 1, 0) \o SubSeq(q, 2, Len(q))
  BY DEF RemoveAt
<1>7. SubSeq(q, 1, 0) = << >> /\ SubSeq(q, 2, Len(q)) = Tail(q) /\ Tail(q) \in Seq(Nat)
  BY <1>1
<1>8. \A a \in Seq(Nat) : << >> \o a = a
  OBVIOUS
<1> QED BY <1>5, <1>6, <1>7, <1>8
LEMMA RemoveAbsent ==
    ASSUME NEW q \in Seq(Nat), NEW e, \A i \in DOMAIN q : q[i] # e
    PROVE  RemoveFirst(q, e) = q
BY DEF RemoveFirst

\* The entries of the rest of a sequence.
LEMMA TailOf ==
    ASSUME NEW q \in Seq(Nat), q # << >>
    PROVE  /\ \A i \in DOMAIN Tail(q) : i + 1 \in DOMAIN q /\ Tail(q)[i] = q[i + 1] /\ i \in Nat
           /\ \A i \in DOMAIN q : i = 1 \/ (i - 1 \in DOMAIN Tail(q) /\ Tail(q)[i - 1] = q[i])
           /\ 1 \in DOMAIN q
OBVIOUS

----------------------------------------------------------------------------
\* The step of one request by which nothing of the pool changes.
Own(s, m, r, h, q, w) ==
    /\ AuInv(s) /\ AuTypes(m) /\ r \in Requests /\ m.conns = s.conns /\ m.free = s.free
    /\ m.wait = s.wait /\ m.qcount = s.qcount /\ m.count = s.count /\ m.lost = s.lost
    /\ m.found = s.found /\ m.fault = s.fault /\ s.req[r].phase # "gone"
    /\ m.st = [s.st EXCEPT ![r] = h] /\ m.req = [s.req EXCEPT ![r] = q]
    /\ m.why = [s.why EXCEPT ![r] = w] /\ h.conn = s.st[r].conn
    /\ (\E i \in DOMAIN s.wait : s.wait[i] = r) =>
         h.exists /\ h.state = "INIT" /\ q.phase \in {"asking", "gone"}
    /\ q.cookie = s.req[r].cookie \/ (r \notin s.found /\ h.conn = 0)
    /\ Kept(r, h, q, s.found, w)
    /\ r \in s.found /\ q.phase = "asking" /\ w = {} =>
         h.name = q.cookie \/ (h.conn # 0 /\ s.conns[h.conn].results = <<q.cookie>>)

\* A request changes and nothing of the pool does.
LEMMA AuOwn ==
    ASSUME AuAssumption, NEW s, NEW m, NEW r, NEW h, NEW q, NEW w,
           Own(s, m, r, h, q, w)
    PROVE  AuInv(m)
<1> USE DEF Own
<1>1. /\ m.st[r] = h /\ m.req[r] = q /\ m.why[r] = w
      /\ \A x \in Requests : x # r => m.st[x] = s.st[x] /\ m.req[x] = s.req[x] /\ m.why[x] = s.why[x]
      /\ \A x \in Requests : m.st[x].conn = s.st[x].conn
  BY DEF AuInv, AuTypes, AuStates
<1>t. /\ s.conns \in [DOMAIN s.conns -> Conns] /\ s.free \in Seq(Nat) /\ s.wait \in Seq(Requests)
      /\ s.found \subseteq Requests
      /\ \A c \in DOMAIN s.conns : s.conns[c].job \in Requests \cup {"NULL"}
      /\ \A i \in DOMAIN s.wait : s.wait[i] \in Requests
  BY SMTT(60) DEF AuInv, AuTypes, AuStates, Conns
<1>a. \A x \in s.found : s.req[x].phase = "asking" /\ s.why[x] = {} =>
        \/ s.st[x].name = s.req[x].cookie
        \/ s.st[x].conn # 0 /\ s.conns[s.st[x].conn].results = <<s.req[x].cookie>>
  BY Zenon DEF AuInv, Answers
<1>2. Requested(m)
  BY <1>1, Zenon DEF AuInv, Requested
<1>3. Pooled(m)
  <2>1. \A c \in DOMAIN s.conns : s.conns[c].job # "NULL" => m.st[s.conns[c].job].conn = c
    BY <1>1, <1>t DEF AuInv, Pooled
  <2>2. \A x \in Requests : m.st[x].conn # 0 => m.st[x].conn \in DOMAIN s.conns /\ s.conns[m.st[x].conn].job = x
    BY <1>1 DEF AuInv, Pooled
  <2> QED BY <2>1, <2>2 DEF AuInv, Pooled
<1>4. Queued(m)
  BY SMTT(40), <1>1, <1>t DEF AuInv, Queued
<1>5. Answers(m)
  <2>1. ASSUME NEW c \in DOMAIN m.conns
        PROVE  /\ m.conns[c].sent => m.conns[c].job \notin m.found
               /\ \/ m.conns[c].results \in {<< >>, <<"NULL">>, <<"FATAL">>}
                  \/ m.conns[c].job \in m.found /\ m.conns[c].results = <<m.req[m.conns[c].job].cookie>>
    <3>1. s.conns[c].job \in s.found => m.req[s.conns[c].job].cookie = s.req[s.conns[c].job].cookie
      BY <1>1, <1>t, SMTT(60)
    <3> HIDE DEF AuAssumption
    <3> QED BY <3>1 DEF AuInv, Answers
  <2>2. ASSUME NEW x \in m.found, m.req[x].phase = "asking", m.why[x] = {}
        PROVE  \/ m.st[x].name = m.req[x].cookie
               \/ m.st[x].conn # 0 /\ m.conns[m.st[x].conn].results = <<m.req[x].cookie>>
    <3>1. CASE x = r
      BY SMTT(40), <1>1, <2>2, <3>1
    <3>2. CASE x # r
      <4>1. x \in Requests /\ m.st[x] = s.st[x] /\ m.req[x] = s.req[x] /\ m.why[x] = s.why[x]
        BY <1>1, <1>t, <3>2
      <4>2. x \in s.found /\ m.conns[m.st[x].conn] = s.conns[s.st[x].conn]
        BY <4>1
      <4> QED BY ZenonT(60), <4>1, <4>2, <2>2, <1>a
    <3> QED BY <3>1, <3>2
  <2> QED BY <2>1, <2>2 DEF Answers
<1>6. Counted(m)
  BY DEF AuInv, Counted
<1>7. Faults(m)
  BY <1>1 DEF AuInv, Faults
<1> QED BY <1>2, <1>3, <1>4, <1>5, <1>6, <1>7 DEF AuInv

\* What the lemmas below need of the types.
LEMMA AuKnown ==
    ASSUME NEW s, AuInv(s)
    PROVE  /\ s.conns \in [DOMAIN s.conns -> Conns] /\ s.free \in Seq(Nat) /\ s.wait \in Seq(Requests)
           /\ s.found \subseteq Requests /\ DOMAIN s.conns \subseteq Nat \ {0}
           /\ s.st \in [Requests -> Handles] /\ s.req \in [Requests -> Asks]
           /\ s.why \in [Requests -> SUBSET Causes]
           /\ \A c \in DOMAIN s.conns : s.conns[c].job \in Requests \cup {"NULL"}
           /\ \A i \in DOMAIN s.wait : s.wait[i] \in Requests
           /\ \A x \in s.found : s.req[x].phase = "asking" /\ s.why[x] = {} =>
                \/ s.st[x].name = s.req[x].cookie
                \/ s.st[x].conn # 0 /\ s.conns[s.st[x].conn].results = <<s.req[x].cookie>>
<1>1. /\ s.conns \in [DOMAIN s.conns -> Conns] /\ s.free \in Seq(Nat) /\ s.wait \in Seq(Requests)
      /\ s.found \subseteq Requests /\ DOMAIN s.conns \subseteq Nat \ {0}
      /\ s.st \in [Requests -> Handles] /\ s.req \in [Requests -> Asks]
      /\ s.why \in [Requests -> SUBSET Causes]
      /\ \A c \in DOMAIN s.conns : s.conns[c].job \in Requests \cup {"NULL"}
      /\ \A i \in DOMAIN s.wait : s.wait[i] \in Requests
  BY DEF AuInv, AuTypes, AuStates, Conns
<1>2. \A x \in s.found : s.req[x].phase = "asking" /\ s.why[x] = {} =>
        \/ s.st[x].name = s.req[x].cookie
        \/ s.st[x].conn # 0 /\ s.conns[s.st[x].conn].results = <<s.req[x].cookie>>
  BY Zenon DEF AuInv, Answers
<1> QED BY <1>1, <1>2

\* A new request is given the first free connection.
Take(s, m, r, c, x, h, q, w) ==
    /\ AuInv(s) /\ AuTypes(m) /\ r \in Requests /\ x \in Conns /\ s.req[r].phase = "new"
    /\ s.free # << >> /\ c = s.free[1] /\ m.conns = [s.conns EXCEPT ![c] = x] /\ x.job = r
    /\ x.results = << >> /\ m.free = Tail(s.free) /\ m.wait = s.wait /\ m.qcount = s.qcount
    /\ m.count = s.count /\ m.lost = s.lost /\ m.found = s.found /\ m.fault = s.fault
    /\ m.st = [s.st EXCEPT ![r] = h] /\ m.req = [s.req EXCEPT ![r] = q]
    /\ m.why = [s.why EXCEPT ![r] = w] /\ h.conn = c /\ q.phase = "asking"
    /\ Kept(r, h, q, s.found, w)

\* A free connection is given to a new request.
LEMMA AuTake ==
    ASSUME AuAssumption, NEW s, NEW m, NEW r, NEW c, NEW x, NEW h, NEW q, NEW w,
           Take(s, m, r, c, x, h, q, w)
    PROVE  AuInv(m)
<1> USE DEF Take
<1>t. /\ s.conns \in [DOMAIN s.conns -> Conns] /\ s.free \in Seq(Nat) /\ s.wait \in Seq(Requests)
      /\ s.found \subseteq Requests /\ DOMAIN s.conns \subseteq Nat \ {0}
      /\ \A d \in DOMAIN s.conns : s.conns[d].job \in Requests \cup {"NULL"}
      /\ \A i \in DOMAIN s.wait : s.wait[i] \in Requests
  BY AuKnown
<1>a. \A y \in s.found : s.req[y].phase = "asking" /\ s.why[y] = {} =>
        \/ s.st[y].name = s.req[y].cookie
        \/ s.st[y].conn # 0 /\ s.conns[s.st[y].conn].results = <<s.req[y].cookie>>
  BY AuKnown
<1>1. /\ m.st[r] = h /\ m.req[r] = q /\ m.why[r] = w
      /\ \A y \in Requests : y # r => m.st[y] = s.st[y] /\ m.req[y] = s.req[y] /\ m.why[y] = s.why[y]
  BY DEF AuInv, AuTypes, AuStates
<1>2. s.st[r].conn = 0 /\ r \notin s.found
  BY DEF AuInv, Requested, Kept
<1>3. /\ c \in DOMAIN s.conns /\ s.conns[c].job = "NULL" /\ c # 0
      /\ \A d \in DOMAIN s.conns : s.conns[d].job # r
      /\ DOMAIN m.conns = DOMAIN s.conns /\ m.conns[c] = x
      /\ \A d \in DOMAIN s.conns : d # c => m.conns[d] = s.conns[d]
  <2>1. 1 \in DOMAIN s.free
    BY <1>t
  <2>2. c \in DOMAIN s.conns /\ s.conns[c].job = "NULL"
    BY <2>1 DEF AuInv, Pooled
  <2>3. \A d \in DOMAIN s.conns : s.conns[d].job # r
    BY <1>2, <1>t DEF AuInv, Pooled, AuAssumption
  <2> QED BY <2>2, <2>3, <1>t
<1>4. Requested(m)
  BY <1>1, Zenon DEF AuInv, Requested
<1>5. Pooled(m)
  <2>1. /\ \A i \in DOMAIN m.free : i + 1 \in DOMAIN s.free /\ m.free[i] = s.free[i + 1] /\ i \in Nat
        /\ \A i \in DOMAIN s.free : i = 1 \/ (i - 1 \in DOMAIN m.free /\ m.free[i - 1] = s.free[i])
        /\ 1 \in DOMAIN s.free
    BY <1>t, TailOf
  <2>2. \A i, j \in DOMAIN m.free : m.free[i] = m.free[j] => i = j
    BY <2>1 DEF AuInv, Pooled
  <2>3. \A i \in DOMAIN m.free : m.free[i] \in DOMAIN s.conns /\ s.conns[m.free[i]].job = "NULL" /\ m.free[i] # c
    BY <2>1 DEF AuInv, Pooled
  <2>4. \A i \in DOMAIN m.free : m.free[i] \in DOMAIN m.conns /\ m.conns[m.free[i]].job = "NULL"
    BY <1>3, <2>3
  <2>5. \A d \in DOMAIN m.conns : m.conns[d].job = "NULL" =>
          /\ ~m.conns[d].sent /\ m.conns[d].results = << >> /\ ~m.conns[d].read
          /\ \E i \in DOMAIN m.free : m.free[i] = d
    <3> SUFFICES ASSUME NEW d \in DOMAIN m.conns, m.conns[d].job = "NULL"
                 PROVE  /\ ~m.conns[d].sent /\ m.conns[d].results = << >> /\ ~m.conns[d].read
                        /\ \E i \in DOMAIN m.free : m.free[i] = d
      OBVIOUS
    <3>1. d # c /\ d \in DOMAIN s.conns /\ m.conns[d] = s.conns[d]
      BY <1>3 DEF AuAssumption
    <3>2. PICK i \in DOMAIN s.free : s.free[i] = d
      BY <3>1 DEF AuInv, Pooled
    <3>3. i - 1 \in DOMAIN m.free /\ m.free[i - 1] = d
      BY <2>1, <3>1, <3>2
    <3> QED BY <3>1, <3>3 DEF AuInv, Pooled
  <2>6. \A d \in DOMAIN m.conns : m.conns[d].job # "NULL" => m.st[m.conns[d].job].conn = d
    <3> SUFFICES ASSUME NEW d \in DOMAIN m.conns, m.conns[d].job # "NULL" PROVE m.st[m.conns[d].job].conn = d
      OBVIOUS
    <3>1. CASE d = c
      BY <1>1, <1>3, <3>1
    <3>2. CASE d # c
      BY <1>1, <1>3, <1>t, <3>2 DEF AuInv, Pooled
    <3> QED BY <3>1, <3>2
  <2>7. \A y \in Requests : m.st[y].conn # 0 => m.st[y].conn \in DOMAIN m.conns /\ m.conns[m.st[y].conn].job = y
    <3> SUFFICES ASSUME NEW y \in Requests, m.st[y].conn # 0
                 PROVE  m.st[y].conn \in DOMAIN m.conns /\ m.conns[m.st[y].conn].job = y
      OBVIOUS
    <3>1. CASE y = r
      BY <1>1, <1>3, <3>1
    <3>2. CASE y # r
      <4>1. m.st[y] = s.st[y] /\ s.st[y].conn \in DOMAIN s.conns /\ s.conns[s.st[y].conn].job = y
        BY <1>1, <3>2 DEF AuInv, Pooled
      <4> QED BY <4>1, <1>3 DEF AuAssumption
    <3> QED BY <3>1, <3>2
  <2> QED BY <2>2, <2>4, <2>5, <2>6, <2>7 DEF Pooled
<1>6. Queued(m)
  <2>1. \A i \in DOMAIN s.wait : s.wait[i] # r
    BY DEF AuInv, Queued
  <2> QED BY <1>1, <1>t, <2>1 DEF AuInv, Queued
<1>7. Answers(m)
  <2>1. ASSUME NEW d \in DOMAIN m.conns
        PROVE  /\ m.conns[d].sent => m.conns[d].job \notin m.found
               /\ \/ m.conns[d].results \in {<< >>, <<"NULL">>, <<"FATAL">>}
                  \/ m.conns[d].job \in m.found /\ m.conns[d].results = <<m.req[m.conns[d].job].cookie>>
    <3>1. CASE d = c
      BY <1>2, <1>3, <3>1
    <3>2. CASE d # c
      <4>1. m.conns[d] = s.conns[d] /\ d \in DOMAIN s.conns /\ s.conns[d].job # r
        BY <1>3, <3>2
      <4>2. s.conns[d].job \in s.found => m.req[s.conns[d].job] = s.req[s.conns[d].job]
        BY <1>1, <1>t, <4>1
      <4> QED BY <4>1, <4>2 DEF AuInv, Answers
    <3> QED BY <3>1, <3>2
  <2>2. ASSUME NEW y \in m.found, m.req[y].phase = "asking", m.why[y] = {}
        PROVE  \/ m.st[y].name = m.req[y].cookie
               \/ m.st[y].conn # 0 /\ m.conns[m.st[y].conn].results = <<m.req[y].cookie>>
    <3>1. y \in Requests /\ y # r /\ m.st[y] = s.st[y] /\ m.req[y] = s.req[y] /\ m.why[y] = s.why[y]
      BY <1>1, <1>2, <1>t
    <3>2. s.st[y].conn # 0 => s.st[y].conn \in DOMAIN s.conns /\ s.st[y].conn # c
      BY <1>3, <3>1 DEF AuInv, Pooled, AuAssumption
    <3> QED BY <1>a, <1>3, <2>2, <3>1, <3>2
  <2> QED BY <2>1, <2>2 DEF Answers
<1>8. Counted(m)
  BY <1>3 DEF AuInv, Counted
<1>9. Faults(m)
  BY <1>1 DEF AuInv, Faults
<1> QED BY <1>4, <1>5, <1>6, <1>7, <1>8, <1>9 DEF AuInv

\* The connection of a request goes back to the free list.
Back(s, m, r, c, x, h, w) ==
    /\ AuInv(s) /\ AuTypes(m) /\ r \in Requests /\ x \in Conns /\ c = s.st[r].conn /\ c # 0
    /\ s.req[r].phase # "gone" /\ m.conns = [s.conns EXCEPT ![c] = x] /\ x.job = "NULL" /\ ~x.sent
    /\ x.results = << >> /\ ~x.read /\ m.free = Append(s.free, c) /\ m.wait = s.wait
    /\ m.qcount = s.qcount /\ m.count = s.count /\ m.lost = s.lost /\ m.found = s.found
    /\ m.fault = s.fault /\ m.st = [s.st EXCEPT ![r] = h] /\ m.req = s.req
    /\ m.why = [s.why EXCEPT ![r] = w] /\ h.conn = 0 /\ Kept(r, h, s.req[r], s.found, w)
    /\ r \in s.found /\ w = {} => h.name = s.req[r].cookie

\* A connection goes back to the free list, and its request has an answer or an error.
LEMMA AuBack ==
    ASSUME AuAssumption, NEW s, NEW m, NEW r, NEW c, NEW x, NEW h, NEW w,
           Back(s, m, r, c, x, h, w)
    PROVE  AuInv(m)
<1> USE DEF Back
<1>t. /\ s.conns \in [DOMAIN s.conns -> Conns] /\ s.free \in Seq(Nat) /\ s.wait \in Seq(Requests)
      /\ s.found \subseteq Requests /\ DOMAIN s.conns \subseteq Nat \ {0}
      /\ \A d \in DOMAIN s.conns : s.conns[d].job \in Requests \cup {"NULL"}
      /\ \A i \in DOMAIN s.wait : s.wait[i] \in Requests
  BY AuKnown
<1>a. \A y \in s.found : s.req[y].phase = "asking" /\ s.why[y] = {} =>
        \/ s.st[y].name = s.req[y].cookie
        \/ s.st[y].conn # 0 /\ s.conns[s.st[y].conn].results = <<s.req[y].cookie>>
  BY AuKnown
<1>1. /\ m.st[r] = h /\ m.why[r] = w
      /\ \A y \in Requests : y # r => m.st[y] = s.st[y] /\ m.why[y] = s.why[y]
  BY DEF AuInv, AuTypes, AuStates
<1>3. /\ c \in DOMAIN s.conns /\ s.conns[c].job = r
      /\ \A d \in DOMAIN s.conns : d # c => s.conns[d].job # r
      /\ DOMAIN m.conns = DOMAIN s.conns /\ m.conns[c] = x
      /\ \A d \in DOMAIN s.conns : d # c => m.conns[d] = s.conns[d]
  <2>1. c \in DOMAIN s.conns /\ s.conns[c].job = r
    BY DEF AuInv, Pooled
  <2>0. (\A d \in DOMAIN s.conns : s.conns[d].job # "NULL" => s.st[s.conns[d].job].conn = d) /\ r # "NULL"
    BY DEF AuInv, Pooled, AuAssumption
  <2>2. \A d \in DOMAIN s.conns : d # c => s.conns[d].job # r
    BY <2>0, ZenonT(60)
  <2> QED BY <1>t, <2>1, <2>2
<1>4. Requested(m)
  BY <1>1, Zenon DEF AuInv, Requested
<1>5. Pooled(m)
  <2>1. /\ \A i \in DOMAIN m.free : (i \in DOMAIN s.free /\ m.free[i] = s.free[i]) \/ (i = Len(s.free) + 1 /\ m.free[i] = c)
        /\ \A i \in DOMAIN s.free : i \in DOMAIN m.free /\ m.free[i] = s.free[i]
        /\ Len(s.free) + 1 \in DOMAIN m.free /\ m.free[Len(s.free) + 1] = c
    BY <1>t, <1>3
  <2>2. \A i \in DOMAIN s.free : s.free[i] \in DOMAIN s.conns /\ s.conns[s.free[i]].job = "NULL" /\ s.free[i] # c
    BY <1>3 DEF AuInv, Pooled, AuAssumption
  <2>3. \A i, j \in DOMAIN m.free : m.free[i] = m.free[j] => i = j
    <3>1. \A i, j \in DOMAIN s.free : s.free[i] = s.free[j] => i = j
      BY DEF AuInv, Pooled
    <3> DEFINE k == Len(s.free) + 1
    <3>2. \A i \in DOMAIN m.free : (i \in DOMAIN s.free /\ m.free[i] = s.free[i]) \/ (i = k /\ m.free[i] = c)
      BY <2>1
    <3>3. \A i \in DOMAIN s.free : s.free[i] # c
      BY <2>2
    <3> HIDE DEF k
    <3>4. ASSUME NEW i \in DOMAIN m.free, NEW j \in DOMAIN m.free, m.free[i] = m.free[j] PROVE i = j
      <4> DEFINE a == m.free[i]
                 b == m.free[j]
      <4>1. (i \in DOMAIN s.free /\ a = s.free[i] /\ a # c) \/ (i = k /\ a = c)
        BY <3>2, <3>3
      <4>2. (j \in DOMAIN s.free /\ b = s.free[j] /\ b # c) \/ (j = k /\ b = c)
        BY <3>2, <3>3
      <4>3. a = b
        BY <3>4
      <4> HIDE DEF a, b
      <4> QED BY <3>1, <4>1, <4>2, <4>3
    <3> QED BY <3>4
  <2>4. \A i \in DOMAIN m.free : m.free[i] \in DOMAIN m.conns /\ m.conns[m.free[i]].job = "NULL"
    BY <1>3, <2>1, <2>2
  <2>5. \A d \in DOMAIN m.conns : m.conns[d].job = "NULL" =>
          /\ ~m.conns[d].sent /\ m.conns[d].results = << >> /\ ~m.conns[d].read
          /\ \E i \in DOMAIN m.free : m.free[i] = d
    <3> SUFFICES ASSUME NEW d \in DOMAIN m.conns, m.conns[d].job = "NULL"
                 PROVE  /\ ~m.conns[d].sent /\ m.conns[d].results = << >> /\ ~m.conns[d].read
                        /\ \E i \in DOMAIN m.free : m.free[i] = d
      OBVIOUS
    <3>1. CASE d = c
      BY <1>3, <2>1, <3>1
    <3>2. CASE d # c
      <4>1. d \in DOMAIN s.conns /\ m.conns[d] = s.conns[d]
        BY <1>3, <3>2
      <4>2. PICK i \in DOMAIN s.free : s.free[i] = d
        BY <4>1 DEF AuInv, Pooled
      <4> QED BY <2>1, <4>1, <4>2 DEF AuInv, Pooled
    <3> QED BY <3>1, <3>2
  <2>6. \A d \in DOMAIN m.conns : m.conns[d].job # "NULL" => m.st[m.conns[d].job].conn = d
    <3> SUFFICES ASSUME NEW d \in DOMAIN m.conns, m.conns[d].job # "NULL" PROVE m.st[m.conns[d].job].conn = d
      OBVIOUS
    <3>1. d # c /\ d \in DOMAIN s.conns
      BY <1>3
    <3> QED BY <1>1, <1>3, <1>t, <3>1 DEF AuInv, Pooled
  <2>7. \A y \in Requests : m.st[y].conn # 0 => m.st[y].conn \in DOMAIN m.conns /\ m.conns[m.st[y].conn].job = y
    <3> SUFFICES ASSUME NEW y \in Requests, m.st[y].conn # 0
                 PROVE  m.st[y].conn \in DOMAIN m.conns /\ m.conns[m.st[y].conn].job = y
      OBVIOUS
    <3>1. y # r
      BY <1>1
    <3>2. m.st[y] = s.st[y] /\ s.st[y].conn \in DOMAIN s.conns /\ s.conns[s.st[y].conn].job = y
      BY <1>1, <3>1 DEF AuInv, Pooled
    <3> QED BY <3>1, <3>2, <1>3
  <2> QED BY <2>3, <2>4, <2>5, <2>6, <2>7 DEF Pooled
<1>6. Queued(m)
  <2>1. \A i \in DOMAIN s.wait : s.wait[i] # r
    BY ZenonT(60) DEF AuInv, Queued, Requested, Kept
  <2> QED BY <1>1, <1>t, <2>1 DEF AuInv, Queued
<1>7. Answers(m)
  <2>1. ASSUME NEW d \in DOMAIN m.conns
        PROVE  /\ m.conns[d].sent => m.conns[d].job \notin m.found
               /\ \/ m.conns[d].results \in {<< >>, <<"NULL">>, <<"FATAL">>}
                  \/ m.conns[d].job \in m.found /\ m.conns[d].results = <<m.req[m.conns[d].job].cookie>>
    <3>1. CASE d = c
      BY <1>3, <3>1
    <3>2. CASE d # c
      <4>1. m.conns[d] = s.conns[d] /\ d \in DOMAIN s.conns
        BY <1>3, <3>2
      <4> QED BY <4>1 DEF AuInv, Answers
    <3> QED BY <3>1, <3>2
  <2>2. ASSUME NEW y \in m.found, m.req[y].phase = "asking", m.why[y] = {}
        PROVE  \/ m.st[y].name = m.req[y].cookie
               \/ m.st[y].conn # 0 /\ m.conns[m.st[y].conn].results = <<m.req[y].cookie>>
    <3>1. CASE y = r
      BY <1>1, <2>2, <3>1
    <3>2. CASE y # r
      <4>1. y \in Requests /\ m.st[y] = s.st[y] /\ m.why[y] = s.why[y]
        BY <1>1, <1>t, <3>2
      <4>2. s.st[y].conn # 0 => s.st[y].conn \in DOMAIN s.conns /\ s.st[y].conn # c
        BY <1>3, <3>2, <4>1 DEF AuInv, Pooled
      <4> QED BY <1>a, <1>3, <2>2, <4>1, <4>2
    <3> QED BY <3>1, <3>2
  <2> QED BY <2>1, <2>2 DEF Answers
<1>8. Counted(m)
  BY <1>3 DEF AuInv, Counted
<1>9. Faults(m)
  BY DEF AuInv, Faults
<1> QED BY <1>4, <1>5, <1>6, <1>7, <1>8, <1>9 DEF AuInv

\* The connection of a request is lost.
Lost(s, m, r, c, h, w) ==
    /\ AuInv(s) /\ AuTypes(m) /\ r \in Requests /\ c = s.st[r].conn /\ c # 0
    /\ s.req[r].phase # "gone" /\ DOMAIN m.conns = DOMAIN s.conns \ {c}
    /\ \A d \in DOMAIN m.conns : m.conns[d] = s.conns[d]
    /\ m.free = s.free /\ m.wait = s.wait /\ m.qcount = s.qcount
    /\ m.count["sess_auth"] = s.count["sess_auth"] /\ m.lost = s.lost + 1 /\ m.found = s.found
    /\ m.fault = s.fault /\ m.st = [s.st EXCEPT ![r] = h] /\ m.req = s.req
    /\ m.why = [s.why EXCEPT ![r] = w] /\ h.conn = 0 /\ Kept(r, h, s.req[r], s.found, w) /\ w # {}

\* A connection is lost, and the query it ran has failed.
LEMMA AuLost ==
    ASSUME AuAssumption, NEW s, NEW m, NEW r, NEW c, NEW h, NEW w,
           Lost(s, m, r, c, h, w)
    PROVE  AuInv(m)
<1> USE DEF Lost
<1>t. /\ s.conns \in [DOMAIN s.conns -> Conns] /\ s.free \in Seq(Nat) /\ s.wait \in Seq(Requests)
      /\ s.found \subseteq Requests /\ DOMAIN s.conns \subseteq Nat \ {0}
      /\ \A d \in DOMAIN s.conns : s.conns[d].job \in Requests \cup {"NULL"}
      /\ \A i \in DOMAIN s.wait : s.wait[i] \in Requests
  BY AuKnown
<1>a. \A y \in s.found : s.req[y].phase = "asking" /\ s.why[y] = {} =>
        \/ s.st[y].name = s.req[y].cookie
        \/ s.st[y].conn # 0 /\ s.conns[s.st[y].conn].results = <<s.req[y].cookie>>
  BY AuKnown
<1>1. /\ m.st[r] = h /\ m.why[r] = w
      /\ \A y \in Requests : y # r => m.st[y] = s.st[y] /\ m.why[y] = s.why[y]
  BY DEF AuInv, AuTypes, AuStates
<1>3. /\ c \in DOMAIN s.conns /\ s.conns[c].job = r
      /\ \A d \in DOMAIN s.conns : d # c => s.conns[d].job # r
  <2>1. c \in DOMAIN s.conns /\ s.conns[c].job = r
    BY DEF AuInv, Pooled
  <2>0. (\A d \in DOMAIN s.conns : s.conns[d].job # "NULL" => s.st[s.conns[d].job].conn = d) /\ r # "NULL"
    BY DEF AuInv, Pooled, AuAssumption
  <2>2. \A d \in DOMAIN s.conns : d # c => s.conns[d].job # r
    BY <2>0, Zenon
  <2> QED BY <2>1, <2>2
<1>4. Requested(m)
  BY <1>1, Zenon DEF AuInv, Requested
<1>5. Pooled(m)
  <2>1. \A i \in DOMAIN s.free : s.free[i] \in DOMAIN s.conns /\ s.conns[s.free[i]].job = "NULL" /\ s.free[i] # c
    BY <1>3 DEF AuInv, Pooled, AuAssumption
  <2>2. \A i \in DOMAIN m.free : m.free[i] \in DOMAIN m.conns /\ m.conns[m.free[i]].job = "NULL"
    BY <2>1
  <2>3. \A d \in DOMAIN m.conns : m.conns[d].job # "NULL" => m.st[m.conns[d].job].conn = d
    BY <1>1, <1>3, <1>t DEF AuInv, Pooled
  <2>4. \A y \in Requests : m.st[y].conn # 0 => m.st[y].conn \in DOMAIN m.conns /\ m.conns[m.st[y].conn].job = y
    <3> SUFFICES ASSUME NEW y \in Requests, m.st[y].conn # 0
                 PROVE  m.st[y].conn \in DOMAIN m.conns /\ m.conns[m.st[y].conn].job = y
      OBVIOUS
    <3>1. y # r
      BY <1>1
    <3>2. m.st[y] = s.st[y] /\ s.st[y].conn \in DOMAIN s.conns /\ s.conns[s.st[y].conn].job = y
      BY <1>1, <3>1 DEF AuInv, Pooled
    <3> QED BY <3>1, <3>2, <1>3
  <2>5. \A d \in DOMAIN m.conns : m.conns[d].job = "NULL" =>
          /\ ~m.conns[d].sent /\ m.conns[d].results = << >> /\ ~m.conns[d].read
          /\ \E i \in DOMAIN m.free : m.free[i] = d
    BY DEF AuInv, Pooled
  <2>6. \A i, j \in DOMAIN m.free : m.free[i] = m.free[j] => i = j
    BY DEF AuInv, Pooled
  <2> QED BY <2>2, <2>3, <2>4, <2>5, <2>6 DEF Pooled
<1>6. Queued(m)
  <2>1. \A i \in DOMAIN s.wait : s.wait[i] # r
    BY ZenonT(60) DEF AuInv, Queued, Requested, Kept
  <2> QED BY <1>1, <1>t, <2>1 DEF AuInv, Queued
<1>7. Answers(m)
  <2>1. ASSUME NEW d \in DOMAIN m.conns
        PROVE  /\ m.conns[d].sent => m.conns[d].job \notin m.found
               /\ \/ m.conns[d].results \in {<< >>, <<"NULL">>, <<"FATAL">>}
                  \/ m.conns[d].job \in m.found /\ m.conns[d].results = <<m.req[m.conns[d].job].cookie>>
    <3>1. m.conns[d] = s.conns[d] /\ d \in DOMAIN s.conns
      OBVIOUS
    <3> QED BY <3>1 DEF AuInv, Answers
  <2>2. ASSUME NEW y \in m.found, m.req[y].phase = "asking", m.why[y] = {}
        PROVE  \/ m.st[y].name = m.req[y].cookie
               \/ m.st[y].conn # 0 /\ m.conns[m.st[y].conn].results = <<m.req[y].cookie>>
    <3>1. y \in Requests /\ y # r /\ m.st[y] = s.st[y] /\ m.why[y] = s.why[y]
      BY <1>1, <1>t, <2>2
    <3>2. s.st[y].conn # 0 => s.st[y].conn \in DOMAIN s.conns /\ s.st[y].conn # c
      BY <1>3, <3>1 DEF AuInv, Pooled
    <3> QED BY <1>a, <1>3, <2>2, <3>1, <3>2
  <2> QED BY <2>1, <2>2 DEF Answers
<1>8. Counted(m)
  <2>1. /\ IsFiniteSet(DOMAIN s.conns) /\ s.count["sess_auth"] = Cardinality(DOMAIN s.conns) + s.lost
        /\ s.count["sess_auth"] <= ConnMax
    BY DEF AuInv, Counted
  <2>2. /\ IsFiniteSet(DOMAIN s.conns \ {c}) /\ Cardinality(DOMAIN s.conns \ {c}) = Cardinality(DOMAIN s.conns) - 1
        /\ Cardinality(DOMAIN s.conns) \in Nat
    BY <1>3, <2>1, FS_RemoveElement, FS_CardinalityType
  <2>3. s.lost \in Nat
    BY DEF AuInv, AuTypes, AuStates
  <2> QED BY <2>1, <2>2, <2>3 DEF Counted
<1>9. Faults(m)
  BY DEF AuInv, Faults
<1> QED BY <1>4, <1>5, <1>6, <1>7, <1>8, <1>9 DEF AuInv

\* A waiter is woken, a connection is made and lost at once, or neither.
Quiet(s, m) ==
    /\ AuInv(s) /\ AuTypes(m) /\ m.conns = s.conns /\ m.free = s.free /\ m.st = s.st
    /\ m.req = s.req /\ m.why = s.why /\ m.found = s.found
    /\ m.wait = s.wait \/ (s.wait # << >> /\ m.wait = Tail(s.wait))
    /\ m.qcount = s.qcount + Len(m.wait) - Len(s.wait)
    /\ m.count["sess_auth"] - m.lost = s.count["sess_auth"] - s.lost
    /\ m.count["sess_auth"] <= ConnMax
    /\ m.fault = s.fault \/ \E r \in Requests : s.req[r].phase = "gone"

\* Nothing the invariant is about changes, but that one waiter is woken or that a
\* connection was made and lost at once.
LEMMA AuQuiet ==
    ASSUME AuAssumption, NEW s, NEW m,
           Quiet(s, m)
    PROVE  AuInv(m)
<1> USE DEF Quiet
<1>1. Requested(m) /\ Pooled(m)
  BY DEF AuInv, Requested, Pooled
<1>2. Answers(m) /\ Faults(m)
  BY DEF AuInv, Answers, Faults
<1>3. Counted(m)
  <2>1. /\ IsFiniteSet(DOMAIN s.conns) /\ s.count["sess_auth"] = Cardinality(DOMAIN s.conns) + s.lost
    BY DEF AuInv, Counted
  <2>2. Cardinality(DOMAIN s.conns) \in Nat
    BY <2>1, FS_CardinalityType
  <2>3. s.lost \in Nat /\ m.lost \in Nat /\ m.count["sess_auth"] \in Int
    BY DEF AuInv, AuTypes, AuStates, Dbs, init, Range
  <2> QED BY <2>1, <2>2, <2>3 DEF Counted
<1>4. Queued(m)
  <2>1. s.wait \in Seq(Requests) /\ s.qcount = Len(s.wait)
    BY DEF AuInv, AuTypes, AuStates, Queued
  <2>2. \A i \in DOMAIN s.wait :
          s.st[s.wait[i]].exists /\ s.st[s.wait[i]].state = "INIT" /\ s.req[s.wait[i]].phase \in {"asking", "gone"}
    BY DEF AuInv, Queued
  <2>3. Len(m.wait) \in Nat /\ Len(s.wait) \in Nat /\ \A i \in DOMAIN m.wait : \E j \in DOMAIN s.wait : m.wait[i] = s.wait[j]
    <3>1. CASE m.wait = s.wait
      BY <2>1, <3>1
    <3>2. CASE s.wait # << >> /\ m.wait = Tail(s.wait)
      <4>1. Len(m.wait) \in Nat /\ Len(s.wait) \in Nat
            /\ \A i \in DOMAIN m.wait : i + 1 \in DOMAIN s.wait /\ m.wait[i] = s.wait[i + 1]
        BY <2>1, <3>2
      <4> QED BY <4>1
    <3> QED BY <3>1, <3>2
  <2>4. m.qcount = Len(m.wait)
    BY <2>1, <2>3
  <2>5. \A i \in DOMAIN m.wait :
          m.st[m.wait[i]].exists /\ m.st[m.wait[i]].state = "INIT" /\ m.req[m.wait[i]].phase \in {"asking", "gone"}
    BY <2>2, <2>3
  <2> QED BY <2>4, <2>5 DEF Queued
<1> QED BY <1>1, <1>2, <1>3, <1>4 DEF AuInv

\* A connection is made.
Made(s, m, c, x) ==
    /\ AuInv(s) /\ AuTypes(m) /\ c \in Nat \ {0} /\ x \in Conns /\ s.free = << >>
    /\ c \notin DOMAIN s.conns
    /\ m.conns = [d \in DOMAIN s.conns \cup {c} |-> IF d = c THEN x ELSE s.conns[d]]
    /\ x.job = "NULL" /\ ~x.sent /\ x.results = << >> /\ ~x.read /\ m.free = <<c>>
    /\ m.wait = s.wait /\ m.qcount = s.qcount /\ m.count["sess_auth"] = s.count["sess_auth"] + 1
    /\ s.count["sess_auth"] < ConnMax /\ m.lost = s.lost /\ m.found = s.found /\ m.fault = s.fault
    /\ m.st = s.st /\ m.req = s.req /\ m.why = s.why

\* A new connection, free.
LEMMA AuMade ==
    ASSUME AuAssumption, NEW s, NEW m, NEW c, NEW x,
           Made(s, m, c, x)
    PROVE  AuInv(m)
<1> USE DEF Made
<1>t. /\ s.conns \in [DOMAIN s.conns -> Conns]
      /\ s.found \subseteq Requests /\ DOMAIN s.conns \subseteq Nat \ {0}
      /\ \A d \in DOMAIN s.conns : s.conns[d].job \in Requests \cup {"NULL"}
  BY AuKnown
<1>a. \A y \in s.found : s.req[y].phase = "asking" /\ s.why[y] = {} =>
        \/ s.st[y].name = s.req[y].cookie
        \/ s.st[y].conn # 0 /\ s.conns[s.st[y].conn].results = <<s.req[y].cookie>>
  BY AuKnown
<1>1. /\ DOMAIN m.conns = DOMAIN s.conns \cup {c} /\ m.conns[c] = x
      /\ \A d \in DOMAIN s.conns : m.conns[d] = s.conns[d] /\ d # c
  OBVIOUS
<1>2. DOMAIN m.free = {1} /\ m.free[1] = c /\ DOMAIN s.free = {}
  OBVIOUS
<1>3. \A d \in DOMAIN s.conns : s.conns[d].job # "NULL"
  BY <1>2 DEF AuInv, Pooled
<1>4. Requested(m)
  BY SMTT(60) DEF AuInv, Requested
<1>5. Pooled(m)
  <2>1. \A d \in DOMAIN m.conns : m.conns[d].job # "NULL" => m.st[m.conns[d].job].conn = d
    BY <1>1, <1>3 DEF AuInv, Pooled
  <2>2. \A y \in Requests : m.st[y].conn # 0 => m.st[y].conn \in DOMAIN m.conns /\ m.conns[m.st[y].conn].job = y
    BY <1>1 DEF AuInv, Pooled
  <2>3. \A d \in DOMAIN m.conns : m.conns[d].job = "NULL" =>
          /\ ~m.conns[d].sent /\ m.conns[d].results = << >> /\ ~m.conns[d].read
          /\ \E i \in DOMAIN m.free : m.free[i] = d
    BY <1>1, <1>2, <1>3
  <2>4. /\ \A i, j \in DOMAIN m.free : m.free[i] = m.free[j] => i = j
        /\ \A i \in DOMAIN m.free : m.free[i] \in DOMAIN m.conns /\ m.conns[m.free[i]].job = "NULL"
    BY <1>1, <1>2
  <2> QED BY <2>1, <2>2, <2>3, <2>4 DEF Pooled
<1>6. Queued(m)
  BY SMTT(40) DEF AuInv, Queued
<1>7. Answers(m)
  <2>1. ASSUME NEW d \in DOMAIN m.conns
        PROVE  /\ m.conns[d].sent => m.conns[d].job \notin m.found
               /\ \/ m.conns[d].results \in {<< >>, <<"NULL">>, <<"FATAL">>}
                  \/ m.conns[d].job \in m.found /\ m.conns[d].results = <<m.req[m.conns[d].job].cookie>>
    BY <1>1 DEF AuInv, Answers
  <2>2. ASSUME NEW y \in m.found, m.req[y].phase = "asking", m.why[y] = {}
        PROVE  \/ m.st[y].name = m.req[y].cookie
               \/ m.st[y].conn # 0 /\ m.conns[m.st[y].conn].results = <<m.req[y].cookie>>
    <3>1. s.st[y].conn # 0 => s.st[y].conn \in DOMAIN s.conns
      BY <1>t DEF AuInv, Pooled
    <3> QED BY <1>a, <1>1, <2>2, <3>1
  <2> QED BY <2>1, <2>2 DEF Answers
<1>8. Counted(m)
  <2>1. /\ IsFiniteSet(DOMAIN s.conns) /\ s.count["sess_auth"] = Cardinality(DOMAIN s.conns) + s.lost
    BY DEF AuInv, Counted
  <2>2. /\ IsFiniteSet(DOMAIN s.conns \cup {c}) /\ Cardinality(DOMAIN s.conns \cup {c}) = Cardinality(DOMAIN s.conns) + 1
        /\ Cardinality(DOMAIN s.conns) \in Nat
    BY <2>1, FS_AddElement, FS_CardinalityType
  <2>3. s.lost \in Nat
    BY DEF AuInv, AuTypes, AuStates
  <2> QED BY <1>1, <2>1, <2>2, <2>3, SMTT(60) DEF Counted, AuAssumption
<1>9. Faults(m)
  BY DEF AuInv, Faults
<1> QED BY <1>4, <1>5, <1>6, <1>7, <1>8, <1>9 DEF AuInv

\* The other end of a connection answers or breaks.
Wire(s, m, c, x) ==
    /\ AuInv(s) /\ AuTypes(m) /\ c \in DOMAIN s.conns /\ x \in Conns
    /\ m.conns = [s.conns EXCEPT ![c] = x] /\ x.job = s.conns[c].job /\ x.read = s.conns[c].read
    /\ m.free = s.free /\ m.wait = s.wait /\ m.qcount = s.qcount /\ m.count = s.count
    /\ m.lost = s.lost /\ m.fault = s.fault /\ m.st = s.st /\ m.req = s.req /\ m.why = s.why
    /\ \/ x.sent = s.conns[c].sent /\ x.results = s.conns[c].results /\ m.found = s.found
       \/ /\ s.conns[c].sent /\ ~x.sent /\ m.found = s.found
          /\ x.results \in {<<"NULL">>, <<"FATAL">>}
       \/ /\ s.conns[c].sent /\ ~x.sent /\ m.found = s.found \cup {x.job}
          /\ x.results = <<s.req[x.job].cookie>>

\* The other end of a connection: it breaks, or answers the query it was sent.
LEMMA AuWire ==
    ASSUME AuAssumption, NEW s, NEW m, NEW c, NEW x,
           Wire(s, m, c, x)
    PROVE  AuInv(m)
<1> USE DEF Wire
<1>t. /\ s.conns \in [DOMAIN s.conns -> Conns] /\ s.found \subseteq Requests /\ DOMAIN s.conns \subseteq Nat \ {0}
      /\ \A d \in DOMAIN s.conns : s.conns[d].job \in Requests \cup {"NULL"}
  BY AuKnown, SMTT(60)
<1>a. \A y \in s.found : s.req[y].phase = "asking" /\ s.why[y] = {} =>
        \/ s.st[y].name = s.req[y].cookie
        \/ s.st[y].conn # 0 /\ s.conns[s.st[y].conn].results = <<s.req[y].cookie>>
  BY AuKnown
<1>1. /\ DOMAIN m.conns = DOMAIN s.conns /\ m.conns[c] = x
      /\ \A d \in DOMAIN s.conns : d # c => m.conns[d] = s.conns[d]
      /\ \A d \in DOMAIN s.conns : m.conns[d].job = s.conns[d].job
  BY <1>t
<1>2. s.conns[c].sent => /\ x.job \in Requests /\ x.job \notin s.found /\ x.job # "NULL"
                         /\ s.st[x.job].conn = c
  <2> SUFFICES ASSUME s.conns[c].sent
               PROVE  x.job \in Requests /\ x.job \notin s.found /\ x.job # "NULL" /\ s.st[x.job].conn = c
    OBVIOUS
  <2>1. x.job # "NULL"
    BY DEF AuInv, Pooled
  <2>2. x.job \in Requests
    BY <1>t, <2>1
  <2>3. x.job \notin s.found
    BY DEF AuInv, Answers
  <2> QED BY <2>1, <2>2, <2>3 DEF AuInv, Pooled
<1>3. /\ s.found \subseteq m.found
      /\ \A y \in m.found : y \in s.found \/ (s.conns[c].sent /\ y = x.job /\ x.results = <<s.req[y].cookie>>)
  OBVIOUS
<1>4. Requested(m)
  <2> SUFFICES ASSUME NEW y \in Requests PROVE Kept(y, m.st[y], m.req[y], m.found, m.why[y])
    BY DEF Requested
  <2>1. Kept(y, s.st[y], s.req[y], s.found, s.why[y])
    BY DEF AuInv, Requested
  <2>2. CASE y \in m.found <=> y \in s.found
    BY ZenonT(60), <2>1, <2>2 DEF Kept
  <2>3. CASE y \in m.found /\ y \notin s.found
    <3>1. s.conns[c].sent /\ y = x.job /\ s.st[y].conn = c /\ c # 0
      BY <1>2, <1>3, <1>t, <2>3
    <3>2. s.st[y].exists /\ s.req[y].phase \in {"asking", "gone"} /\ s.req[y].cookie # "NULL" /\ s.req[y].out = ""
      BY <2>1, <3>1, ZenonT(60) DEF Kept
    <3> QED BY <2>1, <2>3, <3>2, ZenonT(60) DEF Kept
  <2> QED BY <1>3, <2>2, <2>3
<1>5. Pooled(m)
  <2>1. s.conns[c].job = "NULL" => ~s.conns[c].sent
    BY DEF AuInv, Pooled
  <2>2. \A d \in DOMAIN s.conns : s.conns[d].job = "NULL" =>
          m.conns[d].sent = s.conns[d].sent /\ m.conns[d].results = s.conns[d].results /\ m.conns[d].read = s.conns[d].read
    BY <1>1, <2>1
  <2>3. \A d \in DOMAIN m.conns : m.conns[d].job = "NULL" =>
          /\ ~m.conns[d].sent /\ m.conns[d].results = << >> /\ ~m.conns[d].read
          /\ \E i \in DOMAIN m.free : m.free[i] = d
    BY <1>1, <2>2, SMTT(60) DEF AuInv, Pooled
  <2> QED BY <1>1, <2>3 DEF AuInv, Pooled
<1>6. Queued(m)
  BY SMTT(40) DEF AuInv, Queued
<1>7. Answers(m)
  <2>1. ASSUME NEW d \in DOMAIN m.conns
        PROVE  /\ m.conns[d].sent => m.conns[d].job \notin m.found
               /\ \/ m.conns[d].results \in {<< >>, <<"NULL">>, <<"FATAL">>}
                  \/ m.conns[d].job \in m.found /\ m.conns[d].results = <<m.req[m.conns[d].job].cookie>>
    <3>0. /\ s.conns[d].sent => s.conns[d].job \notin s.found
          /\ \/ s.conns[d].results \in {<< >>, <<"NULL">>, <<"FATAL">>}
             \/ s.conns[d].job \in s.found /\ s.conns[d].results = <<s.req[s.conns[d].job].cookie>>
      BY <1>1 DEF AuInv, Answers
    <3>1. CASE d = c
      <4>1. CASE x.sent = s.conns[c].sent /\ x.results = s.conns[c].results /\ m.found = s.found
        BY <1>1, <3>0, <3>1, <4>1
      <4>2. CASE ~x.sent /\ x.results \in {<<"NULL">>, <<"FATAL">>}
        BY <1>1, <3>1, <4>2
      <4>3. CASE ~x.sent /\ m.found = s.found \cup {x.job} /\ x.results = <<s.req[x.job].cookie>>
        BY <1>1, <3>1, <4>3
      <4> QED BY <4>1, <4>2, <4>3
    <3>2. CASE d # c
      <4>1. m.conns[d] = s.conns[d] /\ d \in DOMAIN s.conns
        BY <1>1, <3>2
      <4>2. s.conns[d].sent => s.conns[d].job \notin m.found
        <5> SUFFICES ASSUME s.conns[d].sent, s.conns[d].job \in m.found PROVE FALSE
          OBVIOUS
        <5>1. s.conns[c].sent /\ s.conns[d].job = x.job
          BY <1>3, <3>0, SMTT(60)
        <5> QED BY <1>2, <3>2, <4>1, <5>1 DEF AuInv, Pooled
      <4> QED BY <1>3, <3>0, <4>1, <4>2
    <3> QED BY <3>1, <3>2
  <2>2. ASSUME NEW y \in m.found, m.req[y].phase = "asking", m.why[y] = {}
        PROVE  \/ m.st[y].name = m.req[y].cookie
               \/ m.st[y].conn # 0 /\ m.conns[m.st[y].conn].results = <<m.req[y].cookie>>
    <3>1. CASE y \notin s.found
      <4>1. s.conns[c].sent /\ y = x.job /\ s.st[y].conn = c /\ c # 0 /\ x.results = <<s.req[y].cookie>>
        BY SMTT(40), <1>2, <1>3, <1>t, <3>1
      <4> QED BY <1>1, <4>1
    <3>2. CASE y \in s.found
      <4>1. s.st[y].conn # 0 => s.st[y].conn \in DOMAIN s.conns /\ s.conns[s.st[y].conn].job = y
        BY <1>t, <3>2 DEF AuInv, Pooled
      <4>2. s.st[y].conn = c /\ c # 0 => x.results = s.conns[c].results
        BY <1>2, <3>2, <4>1
      <4> QED BY <1>a, <1>1, <2>2, <3>2, <4>1, <4>2
    <3> QED BY <3>1, <3>2
  <2> QED BY <2>1, <2>2, ZenonT(60) DEF Answers
<1>8. Counted(m)
  BY <1>1 DEF AuInv, Counted
<1>9. Faults(m)
  BY DEF AuInv, Faults
<1> QED BY <1>4, <1>5, <1>6, <1>7, <1>8, <1>9, SMTT(60) DEF AuInv

----------------------------------------------------------------------------
\* The functions of the pool.

\* The first waiter is taken off the queue, or is gone, which is a fault.
LEMMA AuWakeup ==
    ASSUME NEW s, AuInv(s), AuAssumption
    PROVE  LET m == pgsql_queue_wakeup(s)
           IN  /\ AuInv(m) /\ m.st = s.st /\ m.req = s.req /\ m.why = s.why /\ m.found = s.found
               /\ m.wait = s.wait \/ (s.wait # << >> /\ m.wait = Tail(s.wait))
<1>t. s \in AuStates(DOMAIN s.conns) /\ DOMAIN s.conns \in SUBSET (Nat \ {0})
  BY DEF AuInv, AuTypes
<1>1. CASE s.wait = << >>
  BY <1>1 DEF pgsql_queue_wakeup
<1>2. CASE s.wait # << >> /\ s.req[s.wait[1]].phase = "gone"
  <2> DEFINE m == [s EXCEPT !.fault = "freed"]
  <2>1. pgsql_queue_wakeup(s) = m
    BY <1>2 DEF pgsql_queue_wakeup, Gone, Fault
  <2>2. /\ m \in AuStates(DOMAIN s.conns) /\ m.conns = s.conns /\ m.free = s.free /\ m.st = s.st /\ m.req = s.req
        /\ m.why = s.why /\ m.found = s.found /\ m.wait = s.wait /\ m.qcount = s.qcount /\ m.count = s.count
        /\ m.lost = s.lost
    BY <1>t DEF AuStates
  <2>3. s.wait[1] \in Requests /\ s.qcount \in Int /\ Len(s.wait) \in Nat
        /\ s.count["sess_auth"] \in Int /\ s.lost \in Int
    BY <1>2, <1>t DEF AuStates, Dbs, init, Range
  <2> HIDE DEF m
  <2>4. AuTypes(m)
    BY <1>t, <2>2 DEF AuTypes
  <2>5. m.qcount = s.qcount + Len(m.wait) - Len(s.wait) /\ m.count["sess_auth"] <= ConnMax
        /\ m.count["sess_auth"] - m.lost = s.count["sess_auth"] - s.lost
    BY <2>2, <2>3 DEF AuInv, Counted
  <2>6. AuInv(m)
    <3>1. Quiet(s, m)
      BY <1>2, <2>2, <2>3, <2>4, <2>5 DEF Quiet
    <3> QED BY <3>1, AuQuiet
  <2> QED BY <2>1, <2>2, <2>6
<1>3. CASE s.wait # << >> /\ s.req[s.wait[1]].phase # "gone"
  <2> DEFINE k == s.qcount - 1
             w == Tail(s.wait)
             m == [s EXCEPT !.qcount = k, !.wait = w]
  <2>1. pgsql_queue_wakeup(s) = m
    BY <1>3, <1>t DEF pgsql_queue_wakeup, Gone, AuStates
  <2>2. k \in Int /\ w \in Seq(Requests) /\ Len(w) = Len(s.wait) - 1 /\ Len(w) \in Nat /\ Len(s.wait) \in Nat
        /\ s.qcount \in Int /\ s.count["sess_auth"] \in Int /\ s.lost \in Int
    BY <1>3, <1>t DEF AuStates, Dbs, init, Range
  <2>c. k = s.qcount + Len(w) - Len(s.wait)
    BY <2>2
  <2> HIDE DEF k, w
  <2>3. /\ m \in AuStates(DOMAIN s.conns) /\ m.conns = s.conns /\ m.free = s.free /\ m.st = s.st /\ m.req = s.req
        /\ m.why = s.why /\ m.found = s.found /\ m.wait = w /\ m.qcount = k /\ m.count = s.count
        /\ m.lost = s.lost /\ m.fault = s.fault
    BY <1>t, <2>2 DEF AuStates
  <2> HIDE DEF m
  <2>4. AuTypes(m)
    BY <1>t, <2>3 DEF AuTypes
  <2>5. m.count["sess_auth"] <= ConnMax /\ m.count["sess_auth"] - m.lost = s.count["sess_auth"] - s.lost
    BY <2>3 DEF AuInv, Counted
  <2>6. AuInv(m)
    <3>1. Quiet(s, m)
      BY <1>3, <2>c, <2>3, <2>4, <2>5 DEF Quiet, w
    <3> QED BY <3>1, AuQuiet
  <2> QED BY <1>3, <2>1, <2>3, <2>6 DEF w
<1> QED BY <1>1, <1>2, <1>3

\* A handle in the middle of pgsql_read_result, and the worker then.
Mids == [exists : BOOLEAN, name : Cookies, state : {"INIT", "WAIT", "DONE", "COMPLETE", "ERROR"},
         conn : Nat, err : BOOLEAN]

Mid(s, r, c, g, y, w) ==
    [s EXCEPT !.st = [s.st EXCEPT ![r] = g], !.conns = [s.conns EXCEPT ![c] = y],
              !.why = [s.why EXCEPT ![r] = w]]

\* A request releases its connection; its handle, the connection and the causes may have
\* changed since the last state.
Releases(s, t, r, c, g, y, w) ==
    /\ AuInv(s) /\ r \in Requests /\ g \in Mids /\ y \in Conns /\ w \in SUBSET Causes
    /\ c = s.st[r].conn /\ c # 0 /\ s.req[r].phase # "gone" /\ g.conn = c
    /\ t = Mid(s, r, c, g, y, w)
    /\ Kept(r, [g EXCEPT !.conn = 0, !.state = "COMPLETE"], s.req[r], s.found, w)
    /\ r \in s.found /\ w = {} => g.name = s.req[r].cookie

\* What a release leaves.
Released(s, m, r, g, w) ==
    /\ AuInv(m) /\ m.st = [s.st EXCEPT ![r] = [g EXCEPT !.conn = 0, !.state = "COMPLETE"]]
    /\ m.req = s.req /\ m.why = [s.why EXCEPT ![r] = w] /\ m.found = s.found
    /\ m.wait = s.wait \/ (s.wait # << >> /\ m.wait = Tail(s.wait))

\* pgsql_conn_release keeps the invariant.
LEMMA AuRelease ==
    ASSUME AuAssumption, NEW s, NEW t, NEW r, NEW c, NEW g, NEW y, NEW w,
           Releases(s, t, r, c, g, y, w)
    PROVE  Released(s, pgsql_conn_release(t, r), r, g, w)
<1> USE DEF Releases, Mid
<1>t. s \in AuStates(DOMAIN s.conns) /\ DOMAIN s.conns \in SUBSET (Nat \ {0})
  BY DEF AuInv, AuTypes
<1>1. c \in DOMAIN s.conns /\ c \in Nat
  BY <1>t DEF AuInv, Pooled
<1> DEFINE h == [g EXCEPT !.conn = 0, !.state = "COMPLETE"]
           x == [y EXCEPT !.job = "NULL", !.sent = FALSE, !.results = << >>, !.read = FALSE]
           b == [s EXCEPT !.st = [s.st EXCEPT ![r] = h], !.conns = [s.conns EXCEPT ![c] = x],
                          !.why = [s.why EXCEPT ![r] = w], !.free = Append(s.free, c)]
<1>2. pgsql_conn_release(t, r) = pgsql_queue_wakeup(b)
  <2> DEFINE ts == [s.st EXCEPT ![r] = g]
             tc == [s.conns EXCEPT ![c] = y]
             tw == [s.why EXCEPT ![r] = w]
  <2>1. /\ t.st = ts /\ t.conns = tc /\ t.free = s.free /\ ts[r] = g /\ tc[c] = y
    BY <1>t, <1>1 DEF AuStates
  <2>2. pgsql_conn_release(t, r) =
          pgsql_queue_wakeup([t EXCEPT !.conns[c] = x, !.free = Append(s.free, c),
                                         !.st[r].conn = 0, !.st[r].state = "COMPLETE"])
    BY ZenonT(60), <2>1 DEF pgsql_conn_release
  <2>3. [t EXCEPT !.conns[c] = x, !.free = Append(s.free, c), !.st[r].conn = 0, !.st[r].state = "COMPLETE"] = b
    <3>1. [tc EXCEPT ![c] = x] = [s.conns EXCEPT ![c] = x]
      BY <1>t, <1>1 DEF AuStates
    <3>2. [ts EXCEPT ![r] = h] = [s.st EXCEPT ![r] = h]
      BY <1>t DEF AuStates
    <3>3. [t EXCEPT !.conns[c] = x, !.free = Append(s.free, c), !.st[r].conn = 0, !.st[r].state = "COMPLETE"]
            = [t EXCEPT !.conns = [tc EXCEPT ![c] = x], !.free = Append(s.free, c), !.st = [ts EXCEPT ![r] = h]]
      <4>1. [ts EXCEPT ![r] = h] = [[ts EXCEPT ![r].conn = 0] EXCEPT ![r].state = "COMPLETE"]
        BY <1>t, <2>1 DEF AuStates, Mids
      <4>2. t.conns = tc /\ t.st = ts
        BY <2>1
      <4> HIDE DEF tc, ts, x, h
      <4> QED BY ZenonT(60), <1>t, <4>1, <4>2 DEF AuStates
    <3> DEFINE bc == [s.conns EXCEPT ![c] = x]
               bs == [s.st EXCEPT ![r] = h]
               bf == Append(s.free, c)
    <3> HIDE DEF tc, ts, tw, bc, bs, bf
    <3>4. t = [s EXCEPT !.st = ts, !.conns = tc, !.why = tw]
      BY DEF tc, ts, tw
    <3>5. [t EXCEPT !.conns = bc, !.free = bf, !.st = bs] = [s EXCEPT !.st = bs, !.conns = bc, !.why = tw, !.free = bf]
      BY <1>t, <3>4 DEF AuStates
    <3>6. b = [s EXCEPT !.st = bs, !.conns = bc, !.why = tw, !.free = bf]
      BY DEF bc, bs, bf, tw
    <3>7. [tc EXCEPT ![c] = x] = bc /\ [ts EXCEPT ![r] = h] = bs /\ Append(s.free, c) = bf
      BY <3>1, <3>2 DEF bc, bs, bf
    <3> HIDE DEF x, h, b
    <3> QED BY <3>3, <3>5, <3>6, <3>7
  <2> QED BY <2>2, <2>3
<1>3. x \in Conns /\ x.job = "NULL" /\ ~x.sent /\ x.results = << >> /\ ~x.read
  BY DEF Conns
<1>4. h \in Handles /\ h.conn = 0 /\ h.name = g.name
  BY DEF Mids, Handles
<1> HIDE DEF h, x
<1>5. b \in AuStates(DOMAIN s.conns)
  <2>1. [s.st EXCEPT ![r] = h] \in [Requests -> Handles] /\ [s.conns EXCEPT ![c] = x] \in [DOMAIN s.conns -> Conns]
        /\ [s.why EXCEPT ![r] = w] \in [Requests -> SUBSET Causes] /\ Append(s.free, c) \in Seq(Nat)
    BY <1>t, <1>1, <1>3, <1>4 DEF AuStates
  <2> QED BY <1>t, <2>1 DEF AuStates
<1>6. /\ b.st = [s.st EXCEPT ![r] = h] /\ b.conns = [s.conns EXCEPT ![c] = x] /\ b.why = [s.why EXCEPT ![r] = w]
      /\ b.free = Append(s.free, c) /\ b.wait = s.wait /\ b.qcount = s.qcount /\ b.count = s.count
      /\ b.lost = s.lost /\ b.found = s.found /\ b.fault = s.fault /\ b.req = s.req
  BY <1>t DEF AuStates
<1> HIDE DEF b
<1>7. AuTypes(b)
  BY <1>t, <1>5, <1>6 DEF AuTypes
<1>8. AuInv(b)
  <2>1. Kept(r, h, s.req[r], s.found, w)
    BY DEF h
  <2>2. r \in s.found /\ w = {} => h.name = s.req[r].cookie
    BY <1>4
  <2>3. Back(s, b, r, c, x, h, w)
    BY <1>3, <1>4, <1>6, <1>7, <2>1, <2>2 DEF Back
  <2> QED BY <2>3, AuBack
<1> DEFINE m == pgsql_queue_wakeup(b)
<1>9. /\ AuInv(m) /\ m.st = b.st /\ m.req = b.req /\ m.why = b.why /\ m.found = b.found
      /\ m.wait = b.wait \/ (b.wait # << >> /\ m.wait = Tail(b.wait))
  BY <1>8, AuWakeup
<1> HIDE DEF m
<1>10. /\ AuInv(m) /\ m.st = [s.st EXCEPT ![r] = h]
       /\ m.req = s.req /\ m.why = [s.why EXCEPT ![r] = w] /\ m.found = s.found
       /\ m.wait = s.wait \/ (s.wait # << >> /\ m.wait = Tail(s.wait))
  BY <1>6, <1>9
<1> QED BY <1>2, <1>10, Zenon DEF h, m, Released

\* One request and its handle change.
Change(s, r, h, q, w) ==
    [s EXCEPT !.st = [s.st EXCEPT ![r] = h], !.req = [s.req EXCEPT ![r] = q],
              !.why = [s.why EXCEPT ![r] = w]]
Changes(s, r, h, q, w) ==
    /\ AuInv(s) /\ r \in Requests /\ h \in Handles /\ q \in Asks /\ w \in SUBSET Causes
    /\ s.req[r].phase # "gone" /\ h.conn = s.st[r].conn
    /\ (\E i \in DOMAIN s.wait : s.wait[i] = r) =>
         h.exists /\ h.state = "INIT" /\ q.phase \in {"asking", "gone"}
    /\ q.cookie = s.req[r].cookie \/ (r \notin s.found /\ h.conn = 0)
    /\ Kept(r, h, q, s.found, w)
    /\ r \in s.found /\ q.phase = "asking" /\ w = {} =>
         h.name = q.cookie \/ (h.conn # 0 /\ s.conns[h.conn].results = <<q.cookie>>)

\* Such a change keeps the invariant.
LEMMA AuChange ==
    ASSUME AuAssumption, NEW s, NEW r, NEW h, NEW q, NEW w, Changes(s, r, h, q, w)
    PROVE  AuInv(Change(s, r, h, q, w))
<1> DEFINE m == Change(s, r, h, q, w)
           a == [s.st EXCEPT ![r] = h]
           b == [s.req EXCEPT ![r] = q]
           d == [s.why EXCEPT ![r] = w]
<1>t. s \in AuStates(DOMAIN s.conns) /\ DOMAIN s.conns \in SUBSET (Nat \ {0})
  BY DEF Changes, AuInv, AuTypes
<1>1. a \in [Requests -> Handles] /\ b \in [Requests -> Asks] /\ d \in [Requests -> SUBSET Causes]
  BY <1>t DEF Changes, AuStates
<1>2. m = [s EXCEPT !.st = a, !.req = b, !.why = d]
  BY DEF Change
<1> HIDE DEF m, a, b, d
<1>3. m \in AuStates(DOMAIN s.conns)
  BY <1>t, <1>1, <1>2 DEF AuStates
<1>4. /\ m.st = a /\ m.req = b /\ m.why = d /\ m.conns = s.conns /\ m.free = s.free /\ m.wait = s.wait
      /\ m.qcount = s.qcount /\ m.count = s.count /\ m.lost = s.lost /\ m.found = s.found /\ m.fault = s.fault
  BY <1>t, <1>2 DEF AuStates
<1>5. AuTypes(m)
  BY <1>t, <1>3, <1>4 DEF AuTypes
<1>6. Own(s, m, r, h, q, w)
  BY <1>4, <1>5 DEF Own, Changes, a, b, d
<1>7. AuInv(m)
  BY <1>6, AuOwn
<1> QED BY <1>7 DEF m

\* Freed memory is used after somebody left.
LEMMA AuFault ==
    ASSUME AuAssumption, NEW s, AuInv(s), NEW r \in Requests, s.req[r].phase = "gone"
    PROVE  AuInv(Fault(s, "freed"))
<1> DEFINE m == [s EXCEPT !.fault = "freed"]
<1>t. s \in AuStates(DOMAIN s.conns) /\ DOMAIN s.conns \in SUBSET (Nat \ {0})
  BY DEF AuInv, AuTypes
<1>1. /\ m \in AuStates(DOMAIN s.conns) /\ m.conns = s.conns /\ m.free = s.free /\ m.st = s.st /\ m.req = s.req
      /\ m.why = s.why /\ m.found = s.found /\ m.wait = s.wait /\ m.qcount = s.qcount /\ m.count = s.count
      /\ m.lost = s.lost
  BY <1>t DEF AuStates
<1>2. s.qcount \in Int /\ Len(s.wait) \in Nat /\ s.count["sess_auth"] \in Int /\ s.lost \in Int
  BY <1>t DEF AuStates, Dbs, init, Range
<1>3. Fault(s, "freed") = m
  BY DEF Fault
<1> HIDE DEF m
<1>4. AuTypes(m)
  BY <1>t, <1>1 DEF AuTypes
<1>5. Quiet(s, m)
  BY <1>1, <1>2, <1>4 DEF Quiet, AuInv, Counted
<1> QED BY <1>3, <1>5, AuQuiet

\* What a connection with a job tells.
LEMMA AuJob ==
    ASSUME AuAssumption, NEW s, AuInv(s), NEW c \in DOMAIN s.conns,
           s.conns[c].job # "NULL" \/ s.conns[c].read \/ s.conns[c].sent
    PROVE  LET r == s.conns[c].job
           IN  /\ r \in Requests /\ s.st[r].conn = c /\ c # 0 /\ c \in Nat /\ s.st[r].exists
               /\ s.req[r].phase \in {"asking", "gone"} /\ s.req[r].cookie # "NULL" /\ s.req[r].out = ""
               /\ \A i \in DOMAIN s.wait : s.wait[i] # r
               /\ \A i \in DOMAIN s.free : s.free[i] # c
<1> DEFINE r == s.conns[c].job
<1>t. /\ r \in Requests \cup {"NULL"} /\ c # 0 /\ c \in Nat
  BY AuKnown
<1>1. r # "NULL"
  BY DEF AuInv, Pooled
<1>2. r \in Requests /\ s.st[r].conn = c
  BY <1>t, <1>1 DEF AuInv, Pooled
<1>3. Kept(r, s.st[r], s.req[r], s.found, s.why[r])
  BY SMTT(40), <1>2 DEF AuInv, Requested
<1>4. s.st[r].exists /\ s.st[r].state # "INIT"
      /\ s.req[r].phase \in {"asking", "gone"} /\ s.req[r].cookie # "NULL" /\ s.req[r].out = ""
  BY <1>t, <1>2, <1>3 DEF Kept
<1>5. \A i \in DOMAIN s.wait : s.wait[i] # r
  BY <1>4 DEF AuInv, Queued
<1>6. \A i \in DOMAIN s.free : s.free[i] # c
  BY <1>1 DEF AuInv, Pooled
<1> QED BY <1>t, <1>2, <1>4, <1>5, <1>6

\* pgsql_set_error changes one request.
LEMMA AuSetError ==
    ASSUME NEW s, NEW I, s \in AuStates(I), NEW r \in Requests, NEW x
    PROVE  pgsql_set_error(Cause(s, r, x), r) =
             Change(s, r, [s.st[r] EXCEPT !.state = "ERROR", !.err = TRUE], s.req[r], s.why[r] \cup {x})
<1> DEFINE h == [s.st[r] EXCEPT !.state = "ERROR", !.err = TRUE]
           w == s.why[r] \cup {x}
<1>1. Cause(s, r, x) = [s EXCEPT !.why = [s.why EXCEPT ![r] = w]]
  BY DEF Cause, AuStates
<1>2. [s.req EXCEPT ![r] = s.req[r]] = s.req
  BY DEF AuStates
<1>3. [[s.st EXCEPT ![r].state = "ERROR"] EXCEPT ![r].err = TRUE] = [s.st EXCEPT ![r] = h]
  BY DEF AuStates, Handles
<1> DEFINE a == [s.st EXCEPT ![r] = h]
           d == [s.why EXCEPT ![r] = w]
           v == [s EXCEPT !.why = d]
<1> HIDE DEF a, d
<1>4. pgsql_set_error(v, r) = [v EXCEPT !.st = a]
  <2>1. v.st = s.st
    BY DEF AuStates
  <2> QED BY <1>3, <2>1 DEF pgsql_set_error, a
<1>5. Change(s, r, h, s.req[r], w) = [s EXCEPT !.st = a, !.req = s.req, !.why = d]
  BY <1>2 DEF Change, a, d
<1>6. [v EXCEPT !.st = a] = [s EXCEPT !.st = a, !.req = s.req, !.why = d]
  BY DEF AuStates
<1> QED BY <1>1, <1>4, <1>5, <1>6 DEF d

\* A query goes wrong while it has a connection.
LEMMA AuError ==
    ASSUME AuAssumption, NEW s, AuInv(s), NEW c \in DOMAIN s.conns, s.conns[c].read,
           s.req[s.conns[c].job].phase = "asking"
    PROVE  LET r == s.conns[c].job
               m == pgsql_set_error(Cause(s, r, "failed"), r)
           IN  AuInv(m) /\ m.st[r].state = "ERROR"
<1> DEFINE r == s.conns[c].job
           h == [s.st[r] EXCEPT !.state = "ERROR", !.err = TRUE]
           w == s.why[r] \cup {"failed"}
<1>t. s \in AuStates(DOMAIN s.conns)
  BY DEF AuInv, AuTypes
<1>1. /\ r \in Requests /\ s.st[r].conn = c /\ c # 0 /\ c \in Nat /\ s.st[r].exists
      /\ s.req[r].phase = "asking" /\ s.req[r].cookie # "NULL" /\ s.req[r].out = ""
      /\ \A i \in DOMAIN s.wait : s.wait[i] # r
  BY AuJob
<1> HIDE DEF r
<1>2. h \in Handles /\ h.conn = c /\ h.exists /\ h.state = "ERROR" /\ h.name = s.st[r].name
  BY ZenonT(60), <1>t, <1>1 DEF AuStates, Handles
<1>3. w \in SUBSET Causes /\ w # {}
  BY <1>t, <1>1 DEF AuStates, Causes
<1>4. Kept(r, s.st[r], s.req[r], s.found, s.why[r]) /\ s.req[r] \in Asks
  BY <1>t, <1>1 DEF AuInv, Requested, AuStates
<1>5. pgsql_set_error(Cause(s, r, "failed"), r) = Change(s, r, h, s.req[r], w)
  BY <1>t, <1>1, AuSetError
<1> HIDE DEF h, w
<1>6. Kept(r, h, s.req[r], s.found, w)
  BY <1>1, <1>2, <1>3, <1>4 DEF Kept
<1>7. Changes(s, r, h, s.req[r], w)
  BY <1>1, <1>2, <1>3, <1>4, <1>6 DEF Changes
<1>8. Change(s, r, h, s.req[r], w).st[r] = h
  BY <1>t, <1>1 DEF Change, AuStates
<1>9. AuInv(Change(s, r, h, s.req[r], w))
  BY <1>7, AuChange
<1>10. LET m == pgsql_set_error(Cause(s, r, "failed"), r) IN AuInv(m) /\ m.st[r].state = "ERROR"
  BY <1>2, <1>5, <1>8, <1>9
<1> QED BY <1>10 DEF r

----------------------------------------------------------------------------
\* What a connection reports.

\* All results are read.
Reads(u, r, c) == [u EXCEPT !.st[r].state = "DONE", !.conns[c].results = << >>]
Done(h) == [h EXCEPT !.state = "DONE"]

\* pgsql_read_result takes one row, or none.
LEMMA MaxOne == Max({1}) = 1
BY DEF Max

\* One result: the callback is called with it.
LEMMA ReadOne ==
    ASSUME NEW s, NEW r, NEW x, s.conns[s.st[r].conn].results = <<x>>, ~s.conns[s.st[r].conn].sent
    PROVE  pgsql_read_result(s, r) =
             Reads(IF x = "FATAL" THEN pgsql_set_error(Cause(s, r, "failed"), r) ELSE db_results(s, r, x),
                   r, s.st[r].conn)
<1> DEFINE take(t, y) == IF y = "FATAL" THEN pgsql_set_error(Cause(t, r, "failed"), r)
                         ELSE db_results(t, r, y)
           iter[d \in SUBSET {1}] == IF d = {} THEN s ELSE LET i == Max(d) IN take(iter[d \ {i}], <<x>>[i])
           v == take(s, x)
           g == [d \in SUBSET {1} |-> IF d = {} THEN s ELSE v]
<1> HIDE DEF v
<1>1. SUBSET {1} = {{}, {1}}
  OBVIOUS
<1>2. g = [d \in SUBSET {1} |-> IF d = {} THEN s ELSE LET i == Max(d) IN take(g[d \ {i}], <<x>>[i])]
  <2>1. ASSUME NEW d \in SUBSET {1}
        PROVE  g[d] = IF d = {} THEN s ELSE LET i == Max(d) IN take(g[d \ {i}], <<x>>[i])
    <3>1. CASE d = {}
      BY <3>1
    <3>2. CASE d = {1}
      <4>1. g[{1}] = v /\ g[{1} \ {1}] = s /\ <<x>>[1] = x
        OBVIOUS
      <4> HIDE DEF g
      <4> QED BY <3>2, <4>1, MaxOne, Zenon DEF v
    <3> QED BY <1>1, <3>1, <3>2
  <2> QED BY <2>1, Zenon
<1>3. iter = [d \in SUBSET {1} |-> IF d = {} THEN s ELSE LET i == Max(d) IN take(iter[d \ {i}], <<x>>[i])]
  BY <1>2, Zenon
<1>4. iter[{}] = s
  <2> HIDE DEF iter, take
  <2> QED BY <1>1, <1>3
<1>5. iter[{1}] = take(iter[{1} \ {1}], <<x>>[1])
  <2> HIDE DEF iter, take
  <2> QED BY <1>1, <1>3, MaxOne, Zenon
<1>6. iter[{1}] = v
  <2>1. {1} \ {1} = {} /\ <<x>>[1] = x
    OBVIOUS
  <2> HIDE DEF iter
  <2> QED BY <1>4, <1>5, <2>1, Zenon DEF v
<1>7. FoldLeft(take, s, <<x>>) = iter[{1}]
  <2>1. DOMAIN <<x>> = {1}
    OBVIOUS
  <2> QED BY <2>1, Zenon DEF FoldLeft, MapThenFoldSet
<1> QED BY <1>6, <1>7, Zenon DEF pgsql_read_result, Reads, v

\* No result: nothing but the state changes.
LEMMA ReadNone ==
    ASSUME NEW s, NEW r, s.conns[s.st[r].conn].results = << >>, ~s.conns[s.st[r].conn].sent
    PROVE  pgsql_read_result(s, r) = Reads(s, r, s.st[r].conn)
<1> DEFINE take(t, y) == IF y = "FATAL" THEN pgsql_set_error(Cause(t, r, "failed"), r)
                         ELSE db_results(t, r, y)
           e == << >>
           iter[d \in SUBSET {}] == IF d = {} THEN s ELSE LET i == Max(d) IN take(iter[d \ {i}], e[i])
           g == [d \in SUBSET {} |-> s]
<1>1. SUBSET {} = {{}}
  OBVIOUS
<1>2. g = [d \in SUBSET {} |-> IF d = {} THEN s ELSE LET i == Max(d) IN take(g[d \ {i}], e[i])]
  <2> HIDE DEF take
  <2>1. \A d \in SUBSET {} : d = {}
    OBVIOUS
  <2>2. ASSUME NEW d \in SUBSET {}
        PROVE  g[d] = IF d = {} THEN s ELSE LET i == Max(d) IN take(g[d \ {i}], e[i])
    BY <2>1
  <2> QED BY <2>2, Zenon
<1>3. iter = [d \in SUBSET {} |-> IF d = {} THEN s ELSE LET i == Max(d) IN take(iter[d \ {i}], e[i])]
  BY <1>2, Zenon
<1>4. iter[{}] = s
  <2> HIDE DEF iter, take
  <2> QED BY <1>1, <1>3
<1>5. FoldLeft(take, s, e) = iter[{}]
  <2>1. DOMAIN e = {}
    OBVIOUS
  <2> HIDE DEF e
  <2> QED BY <2>1, Zenon DEF FoldLeft, MapThenFoldSet
<1> QED BY <1>4, <1>5, Zenon DEF pgsql_read_result, Reads

\* A connection whose results were taken.
Taken(s, c) == [s.conns[c] EXCEPT !.results = << >>]

\* The request that a connection works for has the handle h.
Reader(s, c, r, h) ==
    s \in AuStates(DOMAIN s.conns) /\ c \in DOMAIN s.conns /\ r \in Requests /\ h \in Handles /\ h.conn = c

\* Reading a state in which only the request has changed.
LEMMA ReadChange ==
    ASSUME NEW s, NEW c, NEW r, NEW h, NEW w, Reader(s, c, r, h)
    PROVE  /\ Reads(Change(s, r, h, s.req[r], w), r, c) =
                Mid(s, r, c, Done(h), Taken(s, c), w)
           /\ Done(h) \in Mids /\ Done(h).state = "DONE" /\ Done(h).conn = c
           /\ Done(h).exists = h.exists /\ Done(h).name = h.name
<1> DEFINE e == << >>
           u == Change(s, r, h, s.req[r], w)
           y == [s.conns[c] EXCEPT !.results = e]
           g == [h EXCEPT !.state = "DONE"]
           a == [s.st EXCEPT ![r] = h]
           b == [s.st EXCEPT ![r] = g]
           d == [s.why EXCEPT ![r] = w]
           k == [s.conns EXCEPT ![c] = y]
           q == [s.req EXCEPT ![r] = s.req[r]]
<1> USE DEF Reader
<1>1. g \in Mids /\ g.state = "DONE" /\ g.conn = c /\ g.exists = h.exists /\ g.name = h.name
  BY DEF Handles, Mids
<1>2. [a EXCEPT ![r].state = "DONE"] = b /\ q = s.req
  BY DEF AuStates, Handles
<1>3. [s.conns EXCEPT ![c].results = e] = k
  BY DEF AuStates, Conns
<1>4. u = [s EXCEPT !.st = a, !.req = q, !.why = d]
  BY DEF Change
<1> HIDE DEF a, b, d, k, q, g, e, y, u
<1>5. u.st = a /\ u.conns = s.conns
  BY <1>4 DEF AuStates
<1>6. Reads(u, r, c) = [u EXCEPT !.st = b, !.conns = k]
  BY <1>2, <1>3, <1>5 DEF Reads, e
<1>7. [u EXCEPT !.st = b, !.conns = k] = [s EXCEPT !.st = b, !.conns = k, !.why = d]
  BY <1>2, <1>4 DEF AuStates
<1>8. Mid(s, r, c, g, y, w) = [s EXCEPT !.st = b, !.conns = k, !.why = d]
  BY DEF Mid, b, k, d
<1> QED BY <1>1, <1>6, <1>7, <1>8 DEF g, e, y, u, Done, Taken

\* pgsql_read_result when there is no query on the wire any more.
LEMMA AuRead ==
    ASSUME AuAssumption, NEW s, AuInv(s), NEW c \in DOMAIN s.conns, s.conns[c].read, ~s.conns[c].sent,
           s.req[s.conns[c].job].phase = "asking"
    PROVE  LET r == s.conns[c].job
               y == Taken(s, c)
           IN  \E g \in Mids, w \in SUBSET Causes :
                 /\ pgsql_read_result(s, r) = Mid(s, r, c, g, y, w)
                 /\ g.state = "DONE" /\ g.conn = c /\ g.exists /\ g.name \in {"NULL", s.req[r].cookie}
                 /\ g.name # "NULL" => r \in s.found
                 /\ r \in s.found /\ w = {} => g.name = s.req[r].cookie
<1> DEFINE r == s.conns[c].job
           y == Taken(s, c)
<1>t. s \in AuStates(DOMAIN s.conns)
  BY DEF AuInv, AuTypes
<1>0. s.conns[c].job = r
  OBVIOUS
<1>1. /\ r \in Requests /\ s.st[r].conn = c /\ c # 0 /\ c \in Nat /\ s.st[r].exists
      /\ s.req[r].phase = "asking" /\ s.req[r].cookie # "NULL" /\ s.req[r].out = ""
  BY AuJob
<1> SUFFICES \E g \in Mids, w \in SUBSET Causes :
                 /\ pgsql_read_result(s, r) = Mid(s, r, c, g, y, w)
                 /\ g.state = "DONE" /\ g.conn = c /\ g.exists /\ g.name \in {"NULL", s.req[r].cookie}
                 /\ g.name # "NULL" => r \in s.found
                 /\ r \in s.found /\ w = {} => g.name = s.req[r].cookie
  OBVIOUS
<1> HIDE DEF r, y
<1>2. Kept(r, s.st[r], s.req[r], s.found, s.why[r])
  BY <1>1 DEF AuInv, Requested
<1>3. /\ r \in s.found /\ s.why[r] = {} => s.st[r].name = s.req[r].cookie \/ s.conns[c].results = <<s.req[r].cookie>>
      /\ s.conns[c].results \in {<< >>, <<"NULL">>, <<"FATAL">>} \/ (r \in s.found /\ s.conns[c].results = <<s.req[r].cookie>>)
  <2>1. r \in s.found /\ s.why[r] = {} => s.st[r].name = s.req[r].cookie \/ s.conns[c].results = <<s.req[r].cookie>>
    <3>1. r \in s.found /\ s.req[r].phase = "asking" /\ s.why[r] = {} =>
             \/ s.st[r].name = s.req[r].cookie
             \/ s.st[r].conn # 0 /\ s.conns[s.st[r].conn].results = <<s.req[r].cookie>>
      BY AuKnown, Zenon
    <3> QED BY <1>1, <3>1
  <2>2. s.conns[c].results \in {<< >>, <<"NULL">>, <<"FATAL">>} \/ (r \in s.found /\ s.conns[c].results = <<s.req[r].cookie>>)
    BY <1>0 DEF AuInv, Answers
  <2> QED BY <2>1, <2>2
<1>4. s.st[r] \in Handles /\ s.why[r] \in SUBSET Causes /\ s.req[r] \in Asks /\ s.conns[c] \in Conns
  BY <1>t, <1>1 DEF AuStates
<1>5. ASSUME NEW h \in Handles, NEW w, h.conn = c
      PROVE  /\ Reads(Change(s, r, h, s.req[r], w), r, c) = Mid(s, r, c, Done(h), y, w)
             /\ Done(h) \in Mids /\ Done(h).state = "DONE" /\ Done(h).conn = c
             /\ Done(h).exists = h.exists /\ Done(h).name = h.name
  <2>1. Reader(s, c, r, h)
    BY <1>t, <1>1, <1>5 DEF Reader
  <2> QED BY <2>1, ReadChange DEF y
<1>6. s = Change(s, r, s.st[r], s.req[r], s.why[r])
  <2>1. [s.st EXCEPT ![r] = s.st[r]] = s.st /\ [s.req EXCEPT ![r] = s.req[r]] = s.req /\ [s.why EXCEPT ![r] = s.why[r]] = s.why
    BY <1>t, <1>1 DEF AuStates
  <2>2. [s EXCEPT !.st = s.st, !.req = s.req, !.why = s.why] = s
    BY <1>t DEF AuStates
  <2> QED BY <2>1, <2>2 DEF Change
<1>n. s.st[r].name \in {"NULL", s.req[r].cookie} /\ (s.st[r].name # "NULL" => r \in s.found)
  BY <1>2 DEF Kept
<1>7. CASE s.conns[c].results = << >>
  <2> DEFINE g == Done(s.st[r])
  <2>1. pgsql_read_result(s, r) = Reads(s, r, c)
    BY <1>0, <1>1, <1>7, ReadNone
  <2>2. pgsql_read_result(s, r) = Mid(s, r, c, g, y, s.why[r])
        /\ g \in Mids /\ g.state = "DONE" /\ g.conn = c /\ g.exists /\ g.name = s.st[r].name
    BY <1>1, <1>4, <1>5, <1>6, <2>1
  <2> HIDE DEF g
  <2>3. r \in s.found /\ s.why[r] = {} => g.name = s.req[r].cookie
    BY <1>3, <1>7, <2>2
  <2> QED BY <1>4, <1>n, <2>2, <2>3
<1>8. ASSUME NEW x, s.conns[c].results = <<x>>, x \in {"NULL", "FATAL"} \/ (r \in s.found /\ x = s.req[r].cookie)
      PROVE  \E g \in Mids, w \in SUBSET Causes :
                 /\ pgsql_read_result(s, r) = Mid(s, r, c, g, y, w)
                 /\ g.state = "DONE" /\ g.conn = c /\ g.exists /\ g.name \in {"NULL", s.req[r].cookie}
                 /\ g.name # "NULL" => r \in s.found
                 /\ r \in s.found /\ w = {} => g.name = s.req[r].cookie
  <2>a. pgsql_read_result(s, r) =
          Reads(IF x = "FATAL" THEN pgsql_set_error(Cause(s, r, "failed"), r) ELSE db_results(s, r, x), r, c)
    BY <1>1, <1>8, ReadOne, Zenon
  <2>b. r \in s.found /\ s.why[r] = {} => s.st[r].name = s.req[r].cookie \/ x = s.req[r].cookie
    <3>1. <<x>> = <<s.req[r].cookie>> => x = s.req[r].cookie
      OBVIOUS
    <3> QED BY <1>3, <1>8, <3>1
  <2>1. CASE x = "FATAL"
    <3> DEFINE h == [s.st[r] EXCEPT !.state = "ERROR", !.err = TRUE]
               w == s.why[r] \cup {"failed"}
               g == Done(h)
    <3>1. pgsql_set_error(Cause(s, r, "failed"), r) = Change(s, r, h, s.req[r], w)
      BY <1>t, <1>1, AuSetError
    <3>2. h \in Handles /\ h.conn = c /\ h.exists /\ h.name = s.st[r].name /\ w \in SUBSET Causes /\ w # {}
      BY <1>1, <1>4 DEF Handles, Causes
    <3> HIDE DEF h, w
    <3>3. pgsql_read_result(s, r) = Mid(s, r, c, g, y, w)
          /\ g \in Mids /\ g.state = "DONE" /\ g.conn = c /\ g.exists /\ g.name = s.st[r].name
      BY <1>5, <2>1, <2>a, <3>1, <3>2
    <3> HIDE DEF g
    <3> QED BY <1>n, <3>2, <3>3
  <2>2. CASE x # "FATAL" /\ (x = "NULL" \/ s.st[r].name # "NULL")
    <3> DEFINE g == Done(s.st[r])
    <3>1. db_results(s, r, x) = s
      BY <2>2 DEF db_results
    <3>2. pgsql_read_result(s, r) = Mid(s, r, c, g, y, s.why[r])
          /\ g \in Mids /\ g.state = "DONE" /\ g.conn = c /\ g.exists /\ g.name = s.st[r].name
      <4>1. pgsql_read_result(s, r) = Reads(s, r, c)
        BY <2>2, <2>a, <3>1
      <4> QED BY <1>1, <1>4, <1>5, <1>6, <4>1
    <3> HIDE DEF g
    <3>3. r \in s.found /\ s.why[r] = {} => g.name = s.req[r].cookie
      BY <1>1, <1>n, <2>2, <2>b, <3>2
    <3> QED BY <1>4, <1>n, <3>2, <3>3
  <2>3. CASE x # "FATAL" /\ x # "NULL" /\ s.st[r].name = "NULL"
    <3> DEFINE h == [s.st[r] EXCEPT !.name = x]
               g == Done(h)
    <3>0. x = s.req[r].cookie /\ r \in s.found /\ x \in Cookies
      BY <1>4, <1>8, <2>3 DEF Asks
    <3>1. db_results(s, r, x) = Change(s, r, h, s.req[r], s.why[r])
      <4>1. [s.req EXCEPT ![r] = s.req[r]] = s.req /\ [s.why EXCEPT ![r] = s.why[r]] = s.why
            /\ [s.st EXCEPT ![r].name = x] = [s.st EXCEPT ![r] = h]
        BY <1>t, <1>1 DEF AuStates, Handles
      <4> DEFINE a == [s.st EXCEPT ![r] = h]
      <4> HIDE DEF a
      <4>2. db_results(s, r, x) = [s EXCEPT !.st = a]
        BY <2>3, <4>1 DEF db_results, a
      <4>3. [s EXCEPT !.st = a] = [s EXCEPT !.st = a, !.req = s.req, !.why = s.why]
        BY <1>t DEF AuStates
      <4>4. Change(s, r, h, s.req[r], s.why[r]) = [s EXCEPT !.st = a, !.req = s.req, !.why = s.why]
        BY <4>1 DEF Change, a
      <4> QED BY <4>2, <4>3, <4>4
    <3>2. h \in Handles /\ h.conn = c /\ h.exists /\ h.name = x
      BY <1>1, <1>4, <3>0 DEF Handles
    <3> HIDE DEF h
    <3>3. pgsql_read_result(s, r) = Mid(s, r, c, g, y, s.why[r])
          /\ g \in Mids /\ g.state = "DONE" /\ g.conn = c /\ g.exists /\ g.name = x
      BY <1>4, <1>5, <2>3, <2>a, <3>1, <3>2
    <3> HIDE DEF g
    <3> QED BY <1>4, <3>0, <3>3
  <2> QED BY <2>1, <2>2, <2>3
<1>9. CASE s.conns[c].results # << >>
  <2>1. \/ s.conns[c].results = <<"NULL">> \/ s.conns[c].results = <<"FATAL">>
        \/ (r \in s.found /\ s.conns[c].results = <<s.req[r].cookie>>)
    BY <1>3, <1>9
  <2> QED BY <1>8, <2>1
<1> QED BY <1>7, <1>9

\* kore_pgsql_handle when the socket is readable.
LEMMA AuHandled ==
    ASSUME AuAssumption, NEW s, AuInv(s), NEW c \in DOMAIN s.conns, s.conns[c].read
    PROVE  AuInv(kore_pgsql_handle(s, c, FALSE))
<1> DEFINE r == s.conns[c].job
<1>t. s \in AuStates(DOMAIN s.conns)
  BY DEF AuInv, AuTypes
<1>0. s.conns[c].job = r
  OBVIOUS
<1>1. /\ r \in Requests /\ s.st[r].conn = c /\ c # 0 /\ c \in Nat /\ s.st[r].exists
      /\ s.req[r].phase \in {"asking", "gone"} /\ s.req[r].cookie # "NULL" /\ s.req[r].out = ""
      /\ \A i \in DOMAIN s.wait : s.wait[i] # r
      /\ \A i \in DOMAIN s.free : s.free[i] # c
  BY ZenonT(60), AuJob
<1>2. CASE s.req[r].phase = "gone"
  BY <1>1, <1>2, AuFault DEF kore_pgsql_handle, Gone
<1>3. CASE s.req[r].phase = "asking" /\ s.conns[c].broken
  <2> DEFINE m == pgsql_set_error(Cause(s, r, "failed"), r)
  <2>1. AuInv(m) /\ m.st[r].state = "ERROR"
    BY <1>3, AuError
  <2>2. kore_pgsql_handle(s, c, FALSE) = db_state_change(m, r)
    BY <1>3 DEF kore_pgsql_handle, Gone
  <2> HIDE DEF m, r
  <2> QED BY <2>1, <2>2 DEF db_state_change
<1>4. CASE s.req[r].phase = "asking" /\ ~s.conns[c].broken /\ s.conns[c].sent
  <2> DEFINE h == [s.st[r] EXCEPT !.state = "WAIT"]
             m == Change(s, r, h, s.req[r], s.why[r])
  <2>1. kore_pgsql_handle(s, c, FALSE) = db_state_change(pgsql_read_result(s, r), r)
    BY <1>4 DEF kore_pgsql_handle, Gone
  <2>2. pgsql_read_result(s, r) = [s EXCEPT !.st[r].state = "WAIT"]
    BY <1>1, <1>4, Zenon DEF pgsql_read_result
  <2> HIDE DEF r
  <2>3. [s EXCEPT !.st[r].state = "WAIT"] = m
    <3>1. [s.st EXCEPT ![r].state = "WAIT"] = [s.st EXCEPT ![r] = h] /\ [s.req EXCEPT ![r] = s.req[r]] = s.req
          /\ [s.why EXCEPT ![r] = s.why[r]] = s.why
      BY <1>t, <1>1 DEF AuStates, Handles
    <3> DEFINE a == [s.st EXCEPT ![r] = h]
    <3> HIDE DEF a
    <3>2. [s EXCEPT !.st = a, !.req = s.req, !.why = s.why] = [s EXCEPT !.st = a]
      BY <1>t DEF AuStates
    <3>3. m = [s EXCEPT !.st = a, !.req = s.req, !.why = s.why]
      BY <3>1 DEF Change, a
    <3> QED BY <3>1, <3>2, <3>3 DEF a
  <2>4. h \in Handles /\ h.state = "WAIT" /\ h.conn = c /\ h.exists /\ h.name = s.st[r].name
        /\ s.req[r] \in Asks /\ s.why[r] \in SUBSET Causes
    BY ZenonT(60), <1>t, <1>1 DEF AuStates, Handles
  <2>5. m.st[r] = h
    BY <1>t, <1>1 DEF Change, AuStates
  <2> HIDE DEF h
  <2>6. Kept(r, h, s.req[r], s.found, s.why[r])
    <3>1. Kept(r, s.st[r], s.req[r], s.found, s.why[r])
      BY <1>1 DEF AuInv, Requested
    <3> QED BY <1>1, <1>4, <2>4, <3>1 DEF Kept
  <2>7. r \in s.found /\ s.req[r].phase = "asking" /\ s.why[r] = {} =>
          h.name = s.req[r].cookie \/ (h.conn # 0 /\ s.conns[h.conn].results = <<s.req[r].cookie>>)
    <3>1. r \in s.found /\ s.req[r].phase = "asking" /\ s.why[r] = {} =>
            \/ s.st[r].name = s.req[r].cookie
            \/ s.st[r].conn # 0 /\ s.conns[s.st[r].conn].results = <<s.req[r].cookie>>
      BY AuKnown, Zenon
    <3> QED BY <1>1, <2>4, <3>1
  <2>8. Changes(s, r, h, s.req[r], s.why[r])
    BY <1>1, <1>4, <2>4, <2>6, <2>7 DEF Changes
  <2>9. AuInv(m)
    BY <2>8, AuChange
  <2> HIDE DEF m
  <2>10. db_state_change(m, r) = m
    BY <2>4, <2>5 DEF db_state_change
  <2> QED BY <2>1, <2>2, <2>3, <2>9, <2>10
<1>5. CASE s.req[r].phase = "asking" /\ ~s.conns[c].broken /\ ~s.conns[c].sent
  <2> DEFINE y == Taken(s, c)
  <2>1. kore_pgsql_handle(s, c, FALSE) = db_state_change(pgsql_read_result(s, r), r)
    BY <1>5 DEF kore_pgsql_handle, Gone
  <2>2. PICK g \in Mids, w \in SUBSET Causes :
          /\ pgsql_read_result(s, r) = Mid(s, r, c, g, y, w)
          /\ g.state = "DONE" /\ g.conn = c /\ g.exists /\ g.name \in {"NULL", s.req[r].cookie}
          /\ g.name # "NULL" => r \in s.found
          /\ r \in s.found /\ w = {} => g.name = s.req[r].cookie
    BY <1>5, AuRead
  <2> HIDE DEF r
  <2>y. y \in Conns
    <3>1. s.conns[c] \in Conns
      BY <1>t DEF AuStates
    <3> QED BY <3>1 DEF Conns, Taken
  <2> HIDE DEF y
  <2> DEFINE t == Mid(s, r, c, g, y, w)
             f == [g EXCEPT !.err = FALSE]
             h == [f EXCEPT !.conn = 0, !.state = "COMPLETE"]
             u == Mid(s, r, c, f, y, w)
  <2>3. t.st[r] = g
    BY <1>t, <1>1 DEF Mid, AuStates
  <2>4. [t EXCEPT !.st[r].err = FALSE] = u
    <3> DEFINE a == [s.st EXCEPT ![r] = g]
               b == [s.st EXCEPT ![r] = f]
               d == [s.why EXCEPT ![r] = w]
               k == [s.conns EXCEPT ![c] = y]
    <3>1. [a EXCEPT ![r].err = FALSE] = b
      BY <1>t, <1>1 DEF AuStates, Mids
    <3>2. t = [s EXCEPT !.st = a, !.conns = k, !.why = d] /\ u = [s EXCEPT !.st = b, !.conns = k, !.why = d]
      BY DEF Mid
    <3> HIDE DEF a, b, d, k, t, u, f
    <3>3. t.st = a
      BY <1>t, <3>2 DEF AuStates
    <3>4. [t EXCEPT !.st = b] = u
      BY <1>t, <3>2 DEF AuStates
    <3> QED BY <3>1, <3>3, <3>4
  <2>5. db_state_change(t, r) = pgsql_conn_release(u, r)
    <3> HIDE DEF t, u
    <3> QED BY <2>2, <2>3, <2>4 DEF db_state_change, kore_pgsql_continue
  <2>6. f \in Mids /\ f.conn = c /\ f.name = g.name
        /\ h.conn = 0 /\ h.state = "COMPLETE" /\ h.exists /\ h.name = g.name
    BY <2>2 DEF Mids
  <2>7. Kept(r, h, s.req[r], s.found, w)
    <3>1. Kept(r, s.st[r], s.req[r], s.found, s.why[r])
      BY <1>1 DEF AuInv, Requested
    <3> HIDE DEF h, f
    <3>2. /\ h.exists /\ h.conn = 0 /\ h.state = "COMPLETE" /\ h.name \in {"NULL", s.req[r].cookie}
          /\ h.name # "NULL" => r \in s.found
      BY <2>2, <2>6
    <3> QED BY <1>1, <1>5, <3>1, <3>2 DEF Kept
  <2>8. Releases(s, u, r, c, f, y, w)
    <3> HIDE DEF f, u, h
    <3>1. Kept(r, [f EXCEPT !.conn = 0, !.state = "COMPLETE"], s.req[r], s.found, w)
      BY <2>7, Zenon DEF h
    <3>2. u = Mid(s, r, c, f, y, w)
      BY DEF u
    <3> QED BY <1>1, <1>5, <2>y, <2>2, <2>6, <3>1, <3>2 DEF Releases
  <2> HIDE DEF u, t, f
  <2>9. AuInv(pgsql_conn_release(u, r))
    BY <2>8, AuRelease DEF Released
  <2>10. pgsql_read_result(s, r) = t
    BY <2>2 DEF t
  <2> QED BY <2>1, <2>5, <2>9, <2>10
<1> QED BY <1>1, <1>2, <1>3, <1>4, <1>5

\* The list of databases: the first other than sess_auth, whose count suffers, is not it.
LEMMA OtherDb ==
    LET other == init[Min({i \in DOMAIN init : init[i] # "sess_auth"})]
    IN  other \in Dbs /\ other # "sess_auth"
<1> DEFINE I == {i \in DOMAIN init : init[i] # "sess_auth"}
<1>1. 1 \in I /\ \A i \in I : i \in Nat /\ 1 <= i
  BY DEF init
<1>2. Min(I) = 1
  <2> HIDE DEF I
  <2> QED BY <1>1 DEF Min
<1>3. init[1] = "fucky" /\ init[1] \in Dbs
  BY DEF init, Dbs, Range
<1> QED BY <1>2, <1>3

\* kore_pgsql_handle when the connection has failed.
LEMMA AuFails ==
    ASSUME AuAssumption, NEW s, AuInv(s), NEW c \in DOMAIN s.conns, s.conns[c].read
    PROVE  AuInv(kore_pgsql_handle(s, c, TRUE))
<1> DEFINE r == s.conns[c].job
           other == init[Min({i \in DOMAIN init : init[i] # "sess_auth"})]
<1>t. s \in AuStates(DOMAIN s.conns) /\ DOMAIN s.conns \in SUBSET (Nat \ {0})
  BY DEF AuInv, AuTypes
<1>0. s.conns[c].job = r /\ kore_pgsql_handle(s, c, TRUE) = pgsql_conn_cleanup(s, c)
  BY DEF kore_pgsql_handle
<1>1. /\ r \in Requests /\ s.st[r].conn = c /\ c # 0 /\ c \in Nat /\ s.st[r].exists
      /\ s.req[r].phase \in {"asking", "gone"} /\ s.req[r].cookie # "NULL" /\ s.req[r].out = ""
      /\ \A i \in DOMAIN s.wait : s.wait[i] # r
      /\ \A i \in DOMAIN s.free : s.free[i] # c
  BY AuJob
<1>n. r # "NULL"
  BY <1>1 DEF AuAssumption
<1>2. CASE s.req[r].phase = "gone"
  BY <1>0, <1>1, <1>2, <1>n, AuFault DEF pgsql_conn_cleanup, Gone
<1>3. CASE s.req[r].phase = "asking"
  <2> DEFINE J == DOMAIN s.conns \ {c}
             k == [d \in J |-> s.conns[d]]
             n == [s.count EXCEPT ![other] = (s.count[other] - 1) % CountMod]
             l == s.lost + 1
             gone == [s EXCEPT !.free = RemoveFirst(@, c), !.conns = Restrict(@, DOMAIN @ \ {c}),
                               !.count[other] = (@ - 1) % CountMod, !.lost = @ + 1]
             g == [s.st[r] EXCEPT !.conn = 0]
             u == [gone EXCEPT !.st[r].conn = 0]
             h == [g EXCEPT !.state = "ERROR", !.err = TRUE]
             w == s.why[r] \cup {"failed"}
             m == Change(u, r, h, s.req[r], w)
  <2>1. pgsql_conn_cleanup(s, c) = pgsql_set_error(Cause(u, r, "failed"), r)
    BY <1>3, <1>n DEF pgsql_conn_cleanup, Gone
  <2>2. other \in Dbs /\ other # "sess_auth"
    BY OtherDb
  <2> HIDE DEF other, r
  <2>3. /\ k \in [J -> Conns] /\ DOMAIN k = J /\ \A d \in J : k[d] = s.conns[d]
    BY <1>t DEF AuStates
  <2>4. n \in [Dbs -> 0..(CountMod - 1)] /\ n["sess_auth"] = s.count["sess_auth"]
    <3>1. s.count[other] \in Int /\ "sess_auth" \in Dbs /\ CountMod \in Nat /\ CountMod > 0
      BY <1>t, <2>2 DEF AuStates, Dbs, init, Range, AuAssumption
    <3>2. (s.count[other] - 1) % CountMod \in 0..(CountMod - 1)
      BY <3>1
    <3> QED BY <1>t, <2>2, <3>1, <3>2 DEF AuStates
  <2>5. l \in Nat /\ g \in Handles /\ g.conn = 0 /\ g.exists /\ g.name = s.st[r].name
    <3>1. s.lost \in Nat /\ s.st[r] \in Handles
      BY <1>t, <1>1 DEF AuStates
    <3>2. l \in Nat
      BY <3>1
    <3>3. g \in Handles /\ g.conn = 0 /\ g.exists /\ g.name = s.st[r].name
      BY <1>1, <3>1 DEF Handles
    <3> QED BY <3>2, <3>3
  <2>6. RemoveFirst(s.free, c) = s.free
    <3>1. s.free \in Seq(Nat)
      BY <1>t DEF AuStates
    <3> QED BY <1>1, <3>1, RemoveAbsent
  <2>7. gone = [s EXCEPT !.free = s.free, !.conns = k, !.count = n, !.lost = l]
    BY <1>t, <2>6 DEF AuStates, Restrict
  <2> HIDE DEF k, n, l, J, gone
  <2>8. gone \in AuStates(J) /\ gone.conns = k /\ gone.free = s.free /\ gone.count = n /\ gone.lost = l
        /\ gone.st = s.st /\ gone.req = s.req /\ gone.why = s.why /\ gone.found = s.found /\ gone.wait = s.wait
        /\ gone.qcount = s.qcount /\ gone.fault = s.fault
    BY <1>t, <2>3, <2>4, <2>5, <2>7 DEF AuStates
  <2>9. u = [gone EXCEPT !.st = [s.st EXCEPT ![r] = g]]
    BY <1>1, <2>8 DEF AuStates
  <2>10. u \in AuStates(J) /\ u.conns = k /\ u.free = s.free /\ u.count = n /\ u.lost = l
         /\ u.st = [s.st EXCEPT ![r] = g] /\ u.req = s.req /\ u.why = s.why /\ u.found = s.found /\ u.wait = s.wait
         /\ u.qcount = s.qcount /\ u.fault = s.fault
    <3>1. [s.st EXCEPT ![r] = g] \in [Requests -> Handles]
      BY <1>t, <1>1, <2>5 DEF AuStates
    <3> HIDE DEF g, u
    <3> QED BY <2>8, <2>9, <3>1 DEF AuStates
  <2> HIDE DEF u
  <2>11. u.st[r] = g
    <3>1. r \in DOMAIN s.st
      BY <1>t, <1>1 DEF AuStates
    <3> HIDE DEF g
    <3> QED BY <2>10, <3>1
  <2>12. pgsql_set_error(Cause(u, r, "failed"), r) = m
    <3>1. pgsql_set_error(Cause(u, r, "failed"), r) =
            Change(u, r, [u.st[r] EXCEPT !.state = "ERROR", !.err = TRUE], u.req[r], u.why[r] \cup {"failed"})
      <4>1. u \in AuStates(J) /\ r \in Requests
        BY <1>1, <2>10
      <4> QED BY <4>1, AuSetError
    <3>2. u.req[r] = s.req[r] /\ u.why[r] = s.why[r]
      BY <2>10
    <3> HIDE DEF g
    <3> QED BY <2>11, <3>1, <3>2
  <2>13. h \in Handles /\ h.conn = 0 /\ h.exists /\ h.state = "ERROR" /\ h.name = s.st[r].name
         /\ w \in SUBSET Causes /\ w # {}
    BY <1>t, <1>1, <2>5 DEF AuStates, Handles, Causes
  <2> HIDE DEF g, h, w
  <2>14. /\ m \in AuStates(J) /\ m.conns = k /\ m.free = s.free /\ m.count = n /\ m.lost = l
         /\ m.st = [s.st EXCEPT ![r] = h] /\ m.req = s.req /\ m.why = [s.why EXCEPT ![r] = w]
         /\ m.found = s.found /\ m.wait = s.wait /\ m.qcount = s.qcount /\ m.fault = s.fault
    <3> DEFINE a == [s.st EXCEPT ![r] = h]
               d == [s.why EXCEPT ![r] = w]
    <3>1. a \in [Requests -> Handles] /\ d \in [Requests -> SUBSET Causes]
      BY <1>t, <1>1, <2>13 DEF AuStates
    <3>2. [u.st EXCEPT ![r] = h] = a /\ [u.req EXCEPT ![r] = s.req[r]] = s.req /\ [u.why EXCEPT ![r] = w] = d
      BY <1>t, <1>1, <2>10, ZenonT(60) DEF AuStates
    <3>3. m = [u EXCEPT !.st = a, !.req = s.req, !.why = d]
      BY <3>2 DEF Change
    <3> HIDE DEF a, d, m
    <3>4. m \in AuStates(J) /\ m.st = a /\ m.req = s.req /\ m.why = d /\ m.conns = u.conns /\ m.free = u.free
          /\ m.count = u.count /\ m.lost = u.lost /\ m.found = u.found /\ m.wait = u.wait
          /\ m.qcount = u.qcount /\ m.fault = u.fault
      BY <2>10, <3>1, <3>3 DEF AuStates
    <3> QED BY <2>10, <3>4 DEF a, d
  <2> HIDE DEF m
  <2>15. AuTypes(m)
    BY <1>t, <2>3, <2>14 DEF AuTypes, J
  <2>16. Kept(r, h, s.req[r], s.found, w)
    <3>1. Kept(r, s.st[r], s.req[r], s.found, s.why[r])
      BY <1>1 DEF AuInv, Requested
    <3> QED BY <1>1, <1>3, <2>13, <3>1 DEF Kept
  <2>17. Lost(s, m, r, c, h, w)
    BY <1>1, <1>3, <2>3, <2>4, <2>13, <2>14, <2>15, <2>16 DEF Lost, J, l
  <2>18. AuInv(m)
    BY <2>17, AuLost
  <2> QED BY <1>0, <2>1, <2>12, <2>18
<1> QED BY <1>1, <1>2, <1>3

----------------------------------------------------------------------------
\* The first call of a validator.

\* A new request is about to ask, and the worker when it has its handle.
Starts(s, r) ==
    /\ AuInv(s) /\ r \in Requests /\ s.req[r].phase = "new" /\ s.req[r].cookie # "NULL"
    /\ ~s.st[r].exists
Asking(s, r) == [s.req[r] EXCEPT !.phase = "asking"]
Opened(s, r) == Change(s, r, kore_pgsql_init, Asking(s, r), s.why[r])

\* What is known of such a request.
Started(s, r, q, w) ==
    /\ s.st[r] = NoState /\ s.st[r].conn = 0 /\ r \notin s.found
    /\ q \in Asks /\ q.phase = "asking" /\ ~q.asleep
    /\ q.cookie = s.req[r].cookie /\ q.cookie # "NULL" /\ q.out = ""
    /\ w \in SUBSET Causes /\ kore_pgsql_init \in Handles
    /\ \A i \in DOMAIN s.wait : s.wait[i] # r

\* A new request was asked nothing yet.
LEMMA AuStarts ==
    ASSUME AuAssumption, NEW s, NEW r, Starts(s, r)
    PROVE  Started(s, r, Asking(s, r), s.why[r])
<1>t. s \in AuStates(DOMAIN s.conns) /\ r \in Requests
  BY DEF Starts, AuInv, AuTypes
<1>1. Kept(r, s.st[r], s.req[r], s.found, s.why[r])
  BY DEF Starts, AuInv, Requested
<1>2. s.st[r] = NoState /\ r \notin s.found /\ ~s.req[r].asleep /\ s.req[r].out = ""
  BY <1>1 DEF Starts, Kept
<1>3. kore_pgsql_init \in Handles /\ NoState.conn = 0
  BY DEF kore_pgsql_init, NoState, Handles, Cookies
<1>4. s.req[r] \in Asks /\ s.why[r] \in SUBSET Causes
  BY <1>t DEF AuStates
<1>5. /\ Asking(s, r) \in Asks /\ Asking(s, r).phase = "asking" /\ Asking(s, r).asleep = s.req[r].asleep
      /\ Asking(s, r).cookie = s.req[r].cookie /\ Asking(s, r).out = s.req[r].out
  BY <1>4 DEF Asking, Asks
<1>6. \A i \in DOMAIN s.wait : s.wait[i] # r
  BY DEF Starts, AuInv, Queued
<1> QED BY <1>2, <1>3, <1>4, <1>5, <1>6 DEF Starts, Started

\* The worker after its first free connection was given to a request.
Given(s, r, c, x, h, q, w) ==
    [s EXCEPT !.st = [s.st EXCEPT ![r] = h], !.req = [s.req EXCEPT ![r] = q],
              !.why = [s.why EXCEPT ![r] = w], !.free = Tail(s.free),
              !.conns = [s.conns EXCEPT ![c] = x]]
Gives(s, r, c, x, h, q, w) ==
    /\ AuInv(s) /\ r \in Requests /\ x \in Conns /\ s.req[r].phase = "new" /\ s.free # << >>
    /\ c = s.free[1] /\ x.job = r /\ x.results = << >> /\ h \in Handles /\ h.conn = c
    /\ q \in Asks /\ q.phase = "asking" /\ w \in SUBSET Causes /\ Kept(r, h, q, s.found, w)

\* It keeps the invariant.
LEMMA AuGiven ==
    ASSUME AuAssumption, NEW s, NEW r, NEW c, NEW x, NEW h, NEW q, NEW w, Gives(s, r, c, x, h, q, w)
    PROVE  AuInv(Given(s, r, c, x, h, q, w))
<1> DEFINE m == Given(s, r, c, x, h, q, w)
           a == [s.st EXCEPT ![r] = h]
           b == [s.req EXCEPT ![r] = q]
           d == [s.why EXCEPT ![r] = w]
           k == [s.conns EXCEPT ![c] = x]
           f == Tail(s.free)
<1>t. s \in AuStates(DOMAIN s.conns) /\ DOMAIN s.conns \in SUBSET (Nat \ {0})
  BY DEF Gives, AuInv, AuTypes
<1>1. a \in [Requests -> Handles] /\ b \in [Requests -> Asks] /\ d \in [Requests -> SUBSET Causes]
      /\ k \in [DOMAIN s.conns -> Conns]
  BY <1>t DEF Gives, AuStates
<1>f. f \in Seq(Nat)
  <2>1. s.free \in Seq(Nat) /\ s.free # << >>
    BY <1>t DEF Gives, AuStates
  <2> QED BY <2>1
<1>2. m = [s EXCEPT !.st = a, !.req = b, !.why = d, !.free = f, !.conns = k]
  BY DEF Given
<1> HIDE DEF m, a, b, d, k, f
<1>3. m \in AuStates(DOMAIN s.conns)
  BY <1>t, <1>1, <1>f, <1>2 DEF AuStates
<1>4. /\ m.st = a /\ m.req = b /\ m.why = d /\ m.conns = k /\ m.free = f /\ m.wait = s.wait
      /\ m.qcount = s.qcount /\ m.count = s.count /\ m.lost = s.lost /\ m.found = s.found /\ m.fault = s.fault
  BY <1>t, <1>2 DEF AuStates
<1>5. AuTypes(m)
  BY <1>t, <1>1, <1>3, <1>4 DEF AuTypes
<1>6. Take(s, m, r, c, x, h, q, w)
  BY <1>4, <1>5 DEF Take, Gives, a, b, d, k, f
<1>7. AuInv(m)
  BY <1>6, AuTake
<1> QED BY <1>7 DEF m

\* A request is given the connection c and sends its query.
Sends(p, r, c) ==
    kore_pgsql_v_query_params(
      [[[p EXCEPT !.free = RemoveFirst(p.free, c)] EXCEPT !.st[r].conn = c] EXCEPT !.conns[c].job = r], r)

\* Given steps, one after the other.
LEMMA GivenOpened ==
    ASSUME AuAssumption, NEW s, NEW r, Starts(s, r), s.free # << >>
    PROVE  LET c == s.free[1]
               p == Opened(s, r)
           IN  [[[p EXCEPT !.free = RemoveFirst(p.free, c)] EXCEPT !.st[r].conn = c] EXCEPT !.conns[c].job = r]
                 = Given(s, r, c, [s.conns[c] EXCEPT !.job = r], [kore_pgsql_init EXCEPT !.conn = c],
                         Asking(s, r), s.why[r])
<1> DEFINE c == s.free[1]
           p == Opened(s, r)
           i == kore_pgsql_init
           q == Asking(s, r)
           a == [s.st EXCEPT ![r] = i]
           h == [i EXCEPT !.conn = c]
           g == [s.st EXCEPT ![r] = h]
           b == [s.req EXCEPT ![r] = q]
           d == [s.why EXCEPT ![r] = s.why[r]]
           x == [s.conns[c] EXCEPT !.job = r]
           k == [s.conns EXCEPT ![c] = x]
           f == Tail(s.free)
<1>t. s \in AuStates(DOMAIN s.conns) /\ r \in Requests
  BY DEF Starts, AuInv, AuTypes
<1>c. c \in DOMAIN s.conns
  <2>1. s.free \in Seq(Nat)
    BY <1>t DEF AuStates
  <2>2. 1 \in DOMAIN s.free
    BY <2>1
  <2> QED BY <2>2 DEF Starts, AuInv, Pooled
<1>1. RemoveFirst(s.free, c) = f
  <2>1. s.free \in Seq(Nat)
    BY <1>t DEF AuStates
  <2> QED BY <2>1, RemoveHead
<1>2. [a EXCEPT ![r].conn = c] = g
  BY <1>t DEF AuStates
<1>3. [s.conns EXCEPT ![c].job = r] = k
  BY <1>t, <1>c DEF AuStates
<1>4. p = [s EXCEPT !.st = a, !.req = b, !.why = d]
  BY DEF Opened, Change
<1>5. Given(s, r, c, x, h, q, s.why[r]) = [s EXCEPT !.st = g, !.req = b, !.why = d, !.free = f, !.conns = k]
  BY DEF Given
<1> HIDE DEF c, p, i, q, a, g, b, d, x, k, f, h
<1>6. p.st = a /\ p.conns = s.conns /\ p.free = s.free
  BY <1>t, <1>4 DEF AuStates
<1> DEFINE p1 == [p EXCEPT !.free = f]
           p2 == [p1 EXCEPT !.st = g]
           p3 == [p2 EXCEPT !.conns = k]
<1>7. [p1 EXCEPT !.st[r].conn = c] = p2
  BY <1>2, <1>6
<1>8. [p2 EXCEPT !.conns[c].job = r] = p3
  BY <1>3, <1>6
<1>9. p3 = [s EXCEPT !.st = g, !.req = b, !.why = d, !.free = f, !.conns = k]
  BY <1>t, <1>4 DEF AuStates
<1> HIDE DEF p2, p3
<1>10. [[[p EXCEPT !.free = RemoveFirst(p.free, c)] EXCEPT !.st[r].conn = c] EXCEPT !.conns[c].job = r] = p3
  BY <1>1, <1>6, <1>7, <1>8
<1>11. [[[p EXCEPT !.free = RemoveFirst(p.free, c)] EXCEPT !.st[r].conn = c] EXCEPT !.conns[c].job = r]
         = Given(s, r, c, x, h, q, s.why[r])
  BY <1>5, <1>9, <1>10
<1> QED BY <1>11 DEF c, p, x, h, i, q

\* The query of a new request, over a connection that was free.
LEMMA AuSends ==
    ASSUME AuAssumption, NEW s, NEW r, Starts(s, r), s.free # << >>
    PROVE  AuInv(Sends(Opened(s, r), r, s.free[1]))
<1> DEFINE c == s.free[1]
           q == Asking(s, r)
           w == s.why[r]
           x == [s.conns[c] EXCEPT !.job = r]
           h == [kore_pgsql_init EXCEPT !.conn = c]
           z == Given(s, r, c, x, h, q, w)
           a == [s.st EXCEPT ![r] = h]
           b == [s.req EXCEPT ![r] = q]
           d == [s.why EXCEPT ![r] = w]
           k == [s.conns EXCEPT ![c] = x]
           f == Tail(s.free)
<1>t. s \in AuStates(DOMAIN s.conns) /\ r \in Requests /\ s.req[r].phase = "new" /\ AuInv(s)
  BY DEF Starts, AuInv, AuTypes
<1>0. Sends(Opened(s, r), r, c) = kore_pgsql_v_query_params(z, r)
  BY GivenOpened, Zenon DEF Sends
<1>1. /\ s.st[r] = NoState /\ s.st[r].conn = 0 /\ r \notin s.found
      /\ q \in Asks /\ q.phase = "asking" /\ ~q.asleep
      /\ q.cookie = s.req[r].cookie /\ q.cookie # "NULL" /\ q.out = ""
      /\ w \in SUBSET Causes /\ kore_pgsql_init \in Handles
  <2>1. Started(s, r, q, w)
    BY AuStarts, Zenon
  <2> QED BY <2>1 DEF Started
<1>f. s.free \in Seq(Nat) /\ 1 \in DOMAIN s.free /\ f \in Seq(Nat)
  <2>1. s.free \in Seq(Nat)
    BY <1>t DEF AuStates
  <2> QED BY <2>1
<1>c. /\ c \in DOMAIN s.conns /\ c \in Nat /\ c # 0 /\ s.conns[c] \in Conns /\ s.conns[c].job = "NULL"
      /\ s.conns[c].results = << >>
  <2>1. c \in DOMAIN s.conns /\ s.conns[c].job = "NULL"
    BY <1>f DEF Starts, AuInv, Pooled
  <2>2. s.conns[c].results = << >>
    BY <2>1 DEF Starts, AuInv, Pooled
  <2>3. c \in Nat /\ c # 0
    BY <1>t, <2>1 DEF AuInv, AuTypes
  <2>4. s.conns[c] \in Conns
    BY <1>t, <2>1 DEF AuStates
  <2> QED BY <2>1, <2>2, <2>3, <2>4
<1> HIDE DEF c, q, w, f
<1>2. /\ h \in Handles /\ h.conn = c /\ h.exists /\ h.name = "NULL" /\ h.state = "INIT"
  BY <1>c DEF kore_pgsql_init, Handles, Cookies
<1>3. x \in Conns /\ x.job = r /\ x.results = << >> /\ x.broken = s.conns[c].broken
  BY <1>t, <1>c DEF Conns
<1>4. a \in [Requests -> Handles] /\ b \in [Requests -> Asks] /\ d \in [Requests -> SUBSET Causes]
      /\ k \in [DOMAIN s.conns -> Conns] /\ a[r] = h /\ b[r] = q /\ d[r] = w /\ k[c] = x
  BY <1>t, <1>1, <1>c, <1>2, <1>3, ZenonT(60) DEF AuStates
<1>5. z = [s EXCEPT !.st = a, !.req = b, !.why = d, !.free = f, !.conns = k]
  BY DEF Given, f
<1> HIDE DEF a, b, d, k, h, x, z
<1>6. z \in AuStates(DOMAIN s.conns)
  BY <1>t, <1>4, <1>5, <1>f DEF AuStates
<1>7. z.st = a /\ z.req = b /\ z.why = d /\ z.free = f /\ z.conns = k
  BY <1>t, <1>5 DEF AuStates
<1>8. CASE s.conns[c].broken
  <2> DEFINE g == [h EXCEPT !.state = "ERROR", !.err = TRUE]
             v == w \cup {"failed"}
  <2>1. kore_pgsql_v_query_params(z, r) = pgsql_set_error(Cause(z, r, "failed"), r)
    BY <1>2, <1>3, <1>4, <1>7, <1>8 DEF kore_pgsql_v_query_params
  <2>2. pgsql_set_error(Cause(z, r, "failed"), r) = Change(z, r, g, q, v)
    <3>1. pgsql_set_error(Cause(z, r, "failed"), r)
            = Change(z, r, [z.st[r] EXCEPT !.state = "ERROR", !.err = TRUE], z.req[r], z.why[r] \cup {"failed"})
      BY <1>t, <1>6, AuSetError
    <3>2. z.st[r] = h /\ z.req[r] = q /\ z.why[r] = w
      BY <1>4, <1>7
    <3> QED BY <3>1, <3>2
  <2>3. g \in Handles /\ g.conn = c /\ g.exists /\ g.name = "NULL" /\ g.state = "ERROR"
        /\ v \in SUBSET Causes /\ v # {}
    BY <1>1, <1>2 DEF Handles, Causes
  <2> HIDE DEF g, v
  <2>4. Change(z, r, g, q, v) = Given(s, r, c, x, g, q, v)
    <3> DEFINE a1 == [s.st EXCEPT ![r] = g]
               d1 == [s.why EXCEPT ![r] = v]
    <3>1. [a EXCEPT ![r] = g] = a1 /\ [b EXCEPT ![r] = q] = b /\ [d EXCEPT ![r] = v] = d1
      BY <1>t DEF a, b, d, AuStates
    <3>2. Change(z, r, g, q, v) = [z EXCEPT !.st = a1, !.req = b, !.why = d1]
      BY <1>7, <3>1 DEF Change
    <3>3. Given(s, r, c, x, g, q, v) = [s EXCEPT !.st = a1, !.req = b, !.why = d1, !.free = f, !.conns = k]
      BY DEF Given, b, f, k
    <3> HIDE DEF a1, d1
    <3>4. [z EXCEPT !.st = a1, !.req = b, !.why = d1]
            = [s EXCEPT !.st = a1, !.req = b, !.why = d1, !.free = f, !.conns = k]
      BY <1>t, <1>5 DEF AuStates
    <3> QED BY <3>2, <3>3, <3>4
  <2>5. Kept(r, g, q, s.found, v)
    BY <1>1, <2>3 DEF Kept
  <2>6. Gives(s, r, c, x, g, q, v)
    BY <1>t, <1>1, <1>3, <2>3, <2>5 DEF Gives, c
  <2>7. AuInv(Given(s, r, c, x, g, q, v))
    BY <2>6, AuGiven
  <2>8. AuInv(Sends(Opened(s, r), r, c))
    BY <1>0, <2>1, <2>2, <2>4, <2>7
  <2> QED BY <2>8 DEF c
<1>9. CASE ~s.conns[c].broken
  <2> DEFINE g == [h EXCEPT !.state = "WAIT"]
             y == [x EXCEPT !.sent = TRUE]
             x1 == [y EXCEPT !.read = TRUE]
             k0 == [s.conns EXCEPT ![c] = y]
             k1 == [s.conns EXCEPT ![c] = x1]
             a1 == [s.st EXCEPT ![r] = g]
             z0 == [z EXCEPT !.conns = k0]
  <2>1. kore_pgsql_v_query_params(z, r) = pgsql_schedule([z EXCEPT !.conns[c].sent = TRUE], r)
    BY <1>2, <1>3, <1>4, <1>7, <1>9 DEF kore_pgsql_v_query_params
  <2>2. [k EXCEPT ![c].sent = TRUE] = k0 /\ [k0 EXCEPT ![c].read = TRUE] = k1 /\ [a EXCEPT ![r].state = "WAIT"] = a1
    <3>1. s.conns \in [DOMAIN s.conns -> Conns] /\ s.st \in [Requests -> Handles]
      BY <1>t DEF AuStates
    <3>2. [k EXCEPT ![c].sent = TRUE] = k0
      BY <1>c, <3>1 DEF k
    <3>3. [k0 EXCEPT ![c].read = TRUE] = k1
      <4> HIDE DEF y
      <4> QED BY <1>c, <3>1
    <3>4. [a EXCEPT ![r].state = "WAIT"] = a1
      BY <1>t, <3>1 DEF a
    <3> QED BY <3>2, <3>3, <3>4
  <2>3. g \in Handles /\ g.conn = c /\ g.exists /\ g.name = "NULL" /\ g.state = "WAIT"
    BY <1>2 DEF Handles
  <2>x. x1 \in Conns /\ x1.job = r /\ x1.results = << >>
    BY <1>3 DEF Conns
  <2> HIDE DEF g, y, x1, k0, k1, a1, z0
  <2>4. [z EXCEPT !.conns[c].sent = TRUE] = z0
    BY <1>7, <2>2 DEF z0
  <2>5. z0.st = a /\ z0.conns = k0 /\ z0.st[r].conn = c
    BY <1>2, <1>4, <1>6, <1>7 DEF z0, AuStates
  <2>6. pgsql_schedule(z0, r) = [z0 EXCEPT !.conns = k1, !.st = a1]
    BY <2>2, <2>5 DEF pgsql_schedule
  <2>7. [z0 EXCEPT !.conns = k1, !.st = a1] = [s EXCEPT !.st = a1, !.req = b, !.why = d, !.free = f, !.conns = k1]
    BY <1>t, <1>5 DEF AuStates, z0
  <2>8. Given(s, r, c, x1, g, q, w) = [s EXCEPT !.st = a1, !.req = b, !.why = d, !.free = f, !.conns = k1]
    BY DEF Given, b, f, d, k1, a1
  <2>9. Kept(r, g, q, s.found, w)
    BY <1>1, <1>c, <2>3 DEF Kept
  <2>10. Gives(s, r, c, x1, g, q, w)
    BY <1>t, <1>1, <2>x, <2>3, <2>9 DEF Gives, c
  <2>11. AuInv(Given(s, r, c, x1, g, q, w))
    BY <2>10, AuGiven
  <2>12. AuInv(Sends(Opened(s, r), r, c))
    BY <1>0, <2>1, <2>4, <2>6, <2>7, <2>8, <2>11
  <2> QED BY <2>12 DEF c
<1> QED BY <1>8, <1>9

\* A request that has not asked yet joins the queue.
LEMMA AuJoin ==
    ASSUME AuAssumption, NEW s, AuInv(s), NEW r \in Requests, s.st[r].exists, s.st[r].state = "INIT",
           s.req[r].phase \in {"asking", "gone"}
    PROVE  AuInv([s EXCEPT !.qcount = s.qcount + 1, !.wait = Append(s.wait, r)])
<1> DEFINE n == s.qcount + 1
           w == Append(s.wait, r)
           m == [s EXCEPT !.qcount = n, !.wait = w]
<1>t. s \in AuStates(DOMAIN s.conns) /\ DOMAIN s.conns \in SUBSET (Nat \ {0})
  BY DEF AuInv, AuTypes
<1>1. s.wait \in Seq(Requests) /\ s.qcount \in Int
  BY <1>t DEF AuStates
<1>2. /\ n \in Int /\ w \in Seq(Requests) /\ Len(w) = Len(s.wait) + 1
      /\ \A i \in DOMAIN w : w[i] = r \/ (i \in DOMAIN s.wait /\ w[i] = s.wait[i])
  BY <1>1
<1>3. n = Len(w)
  <2>1. s.qcount = Len(s.wait)
    BY DEF AuInv, Queued
  <2> QED BY <1>2, <2>1
<1> HIDE DEF n, w
<1>4. m \in AuStates(DOMAIN s.conns)
  BY <1>t, <1>2 DEF AuStates
<1>5. /\ m.st = s.st /\ m.req = s.req /\ m.why = s.why /\ m.conns = s.conns /\ m.free = s.free /\ m.wait = w
      /\ m.qcount = n /\ m.count = s.count /\ m.lost = s.lost /\ m.found = s.found /\ m.fault = s.fault
  BY <1>t DEF AuStates
<1> HIDE DEF m
<1>6. AuTypes(m)
  BY <1>t, <1>4, <1>5 DEF AuTypes
<1>7. Requested(m) /\ Pooled(m)
  BY <1>5 DEF AuInv, Requested, Pooled
<1>8. Answers(m) /\ Faults(m) /\ Counted(m)
  BY <1>5 DEF AuInv, Answers, Faults, Counted
<1>9. Queued(m)
  <2>1. ASSUME NEW i \in DOMAIN w
        PROVE  s.st[w[i]].exists /\ s.st[w[i]].state = "INIT" /\ s.req[w[i]].phase \in {"asking", "gone"}
    <3>1. CASE w[i] = r
      BY <3>1
    <3>2. CASE i \in DOMAIN s.wait /\ w[i] = s.wait[i]
      BY <3>2 DEF AuInv, Queued
    <3> QED BY <1>2, <3>1, <3>2
  <2> QED BY <1>3, <1>5, <2>1 DEF Queued
<1>10. AuInv(m)
  BY <1>6, <1>7, <1>8, <1>9 DEF AuInv
<1> QED BY <1>10 DEF m, n, w

\* A request that starts without a connection: it waits, or was refused, or failed.
LEMMA AuWithout ==
    ASSUME AuAssumption, NEW s, NEW r, Starts(s, r), NEW h \in Handles, NEW w \in SUBSET Causes,
           h.exists, h.name = "NULL", h.conn = 0, w # {},
           h.state = "ERROR" \/ (h.state = "INIT" /\ "waited" \in w)
    PROVE  AuInv(Change(s, r, h, Asking(s, r), w))
<1> DEFINE q == Asking(s, r)
<1>1. /\ s.st[r].conn = 0 /\ r \notin s.found
      /\ q \in Asks /\ q.phase = "asking" /\ ~q.asleep
      /\ q.cookie = s.req[r].cookie /\ q.cookie # "NULL" /\ q.out = ""
      /\ \A i \in DOMAIN s.wait : s.wait[i] # r
  <2>1. Started(s, r, q, s.why[r])
    BY AuStarts, Zenon
  <2> QED BY <2>1 DEF Started
<1> HIDE DEF q
<1>2. Kept(r, h, q, s.found, w)
  BY <1>1 DEF Kept
<1>3. Changes(s, r, h, q, w)
  BY <1>1, <1>2 DEF Changes, Starts
<1>4. AuInv(Change(s, r, h, q, w))
  BY <1>3, AuChange
<1> QED BY <1>4 DEF q

\* The fields of the worker with an opened request.
Opens(s, p, r) ==
    /\ p \in AuStates(DOMAIN s.conns) /\ r \in Requests
    /\ p.conns = s.conns /\ p.free = s.free /\ p.wait = s.wait /\ p.qcount = s.qcount
    /\ p.count = s.count /\ p.lost = s.lost /\ p.connects = s.connects
    /\ p.st = [s.st EXCEPT ![r] = kore_pgsql_init] /\ p.st[r] = kore_pgsql_init
    /\ p.req = [s.req EXCEPT ![r] = Asking(s, r)] /\ p.why = s.why /\ p.req[r] = Asking(s, r)

\* That is what they are.
LEMMA OpenedFields ==
    ASSUME AuAssumption, NEW s, NEW r, Starts(s, r)
    PROVE  Opens(s, Opened(s, r), r)
<1> DEFINE p == Opened(s, r)
           i == kore_pgsql_init
           q == Asking(s, r)
           a == [s.st EXCEPT ![r] = i]
           b == [s.req EXCEPT ![r] = q]
           d == [s.why EXCEPT ![r] = s.why[r]]
<1>t. s \in AuStates(DOMAIN s.conns) /\ r \in Requests
  BY DEF Starts, AuInv, AuTypes
<1>1. q \in Asks /\ i \in Handles
  <2>1. Started(s, r, q, s.why[r])
    BY AuStarts, Zenon
  <2> QED BY <2>1 DEF Started
<1>2. p = [s EXCEPT !.st = a, !.req = b, !.why = d]
  BY DEF Opened, Change
<1> HIDE DEF i, q
<1>3. a \in [Requests -> Handles] /\ b \in [Requests -> Asks] /\ d = s.why /\ a[r] = i /\ b[r] = q
      /\ s.why \in [Requests -> SUBSET Causes]
  BY <1>t, <1>1 DEF AuStates
<1> HIDE DEF p, a, b, d
<1>4. p \in AuStates(DOMAIN s.conns)
  BY <1>t, <1>2, <1>3 DEF AuStates
<1>5. /\ p.conns = s.conns /\ p.free = s.free /\ p.wait = s.wait /\ p.qcount = s.qcount
      /\ p.count = s.count /\ p.lost = s.lost /\ p.connects = s.connects
      /\ p.st = a /\ p.req = b /\ p.why = s.why
  BY <1>t, <1>2, <1>3 DEF AuStates
<1>6. p.st[r] = i /\ p.req[r] = q
  BY <1>3, <1>5
<1> QED BY <1>t, <1>4, <1>5, <1>6 DEF p, a, b, i, q, Opens

\* A session without a connection returns as it is.
LEMMA SetupWithout ==
    ASSUME NEW p, NEW r \in Requests, NEW z, NEW I, z \in AuStates(I), z.st[r].conn = 0,
           pgsql_conn_next(p, r).s = z, pgsql_conn_next(p, r).conn = 0
    PROVE  db_query_params(p, r) = z
<1>1. [z.st EXCEPT ![r].conn = 0] = z.st
  BY DEF AuStates, Handles
<1>2. [z EXCEPT !.st[r].conn = 0] = z
  BY <1>1 DEF AuStates
<1>3. kore_pgsql_setup(p, r) = z
  BY <1>2 DEF kore_pgsql_setup
<1> QED BY <1>3 DEF db_query_params

\* The queue is joined.
LEMMA AuWaits ==
    ASSUME AuAssumption, NEW s, NEW r, Starts(s, r), s.free = << >>, s.count["sess_auth"] >= ConnMax,
           s.qcount < QueueLimit
    PROVE  AuInv(db_query_params(Opened(s, r), r))
<1> DEFINE p == Opened(s, r)
           i == kore_pgsql_init
           q == Asking(s, r)
           w == s.why[r] \cup {"waited"}
           t == Change(s, r, i, q, w)
           a == [s.st EXCEPT ![r] = i]
           b == [s.req EXCEPT ![r] = q]
           d == [s.why EXCEPT ![r] = w]
           n == s.qcount + 1
           f == Append(s.wait, r)
           z == [t EXCEPT !.qcount = n, !.wait = f]
<1>t. s \in AuStates(DOMAIN s.conns) /\ r \in Requests
  BY DEF Starts, AuInv, AuTypes
<1>p. /\ p \in AuStates(DOMAIN s.conns) /\ r \in Requests
      /\ p.conns = s.conns /\ p.free = s.free /\ p.wait = s.wait /\ p.qcount = s.qcount
      /\ p.count = s.count /\ p.lost = s.lost /\ p.connects = s.connects
      /\ p.st = [s.st EXCEPT ![r] = kore_pgsql_init] /\ p.st[r] = kore_pgsql_init
      /\ p.req = [s.req EXCEPT ![r] = Asking(s, r)] /\ p.why = s.why /\ p.req[r] = Asking(s, r)
  <2>1. Opens(s, p, r)
    BY OpenedFields, Zenon
  <2> HIDE DEF p
  <2> QED BY <2>1 DEF Opens
<1>q. q \in Asks /\ q.phase = "asking"
  <2>1. Started(s, r, q, s.why[r])
    BY AuStarts, Zenon
  <2> QED BY <2>1 DEF Started
<1>1. i \in Handles /\ i.exists /\ i.name = "NULL" /\ i.conn = 0 /\ i.state = "INIT"
  BY DEF kore_pgsql_init, Handles, Cookies
<1>2. w \in SUBSET Causes /\ w # {} /\ "waited" \in w
  BY <1>t DEF AuStates, Causes
<1> HIDE DEF i, w
<1>3. AuInv(t)
  <2> HIDE DEF q
  <2>1. AuInv(Change(s, r, i, Asking(s, r), w))
    BY <1>1, <1>2, AuWithout
  <2> QED BY <2>1 DEF q
<1>a. a[r] = i /\ b[r] = q /\ d[r] = w /\ a \in [Requests -> Handles]
  BY <1>t, <1>1 DEF AuStates
<1>4. t = [s EXCEPT !.st = a, !.req = b, !.why = d] /\ t \in AuStates(DOMAIN t.conns)
  BY <1>3 DEF Change, AuInv, AuTypes
<1> HIDE DEF q, a, b, d, n, f
<1>5. t.st = a /\ t.req = b /\ t.qcount = s.qcount /\ t.wait = s.wait
  <2> HIDE DEF t
  <2> QED BY <1>t, <1>4 DEF AuStates
<1>6. AuInv(z)
  <2>1. AuInv([t EXCEPT !.qcount = t.qcount + 1, !.wait = Append(t.wait, r)])
    <3> HIDE DEF t
    <3>1. t.st[r].exists /\ t.st[r].state = "INIT" /\ t.req[r].phase \in {"asking", "gone"}
      BY <1>1, <1>5, <1>a, <1>q
    <3> QED BY <1>t, <1>3, <3>1, AuJoin
  <2> HIDE DEF t
  <2> QED BY <1>5, <2>1 DEF n, f
<1>7. pgsql_queue_add(p, r) = z
  <2> HIDE DEF p, t
  <2> DEFINE v == [p EXCEPT !.qcount = n, !.wait = f]
  <2>1. [p EXCEPT !.qcount = @ + 1, !.wait = Append(@, r)] = v
    BY <1>p DEF n, f, AuStates
  <2>2. v.why = s.why
    BY <1>p DEF AuStates
  <2>3. Cause(v, r, "waited") = [v EXCEPT !.why = d]
    <3> HIDE DEF v
    <3>1. [s.why EXCEPT ![r] = @ \cup {"waited"}] = d
      BY DEF d, w
    <3>2. Cause(v, r, "waited") = [v EXCEPT !.why = [v.why EXCEPT ![r] = @ \cup {"waited"}]]
      BY DEF Cause
    <3> QED BY <2>2, <3>1, <3>2
  <2>4. [v EXCEPT !.why = d] = z
    <3>1. p = [s EXCEPT !.st = a, !.req = b, !.why = s.why]
      <4>1. [s.why EXCEPT ![r] = s.why[r]] = s.why
        BY <1>t DEF AuStates
      <4> QED BY <4>1 DEF p, Opened, Change, a, b, i, q
    <3> QED BY <1>t, <1>4, <3>1 DEF AuStates
  <2> QED BY <2>1, <2>3, <2>4 DEF pgsql_queue_add
<1>8. pgsql_conn_next(p, r) = [s |-> z, conn |-> 0]
  <2> HIDE DEF p, z
  <2>1. ConnMax # 0
    BY DEF AuAssumption
  <2>2. p.free = << >> /\ p.count["sess_auth"] >= ConnMax /\ p.qcount < QueueLimit
    BY <1>p
  <2> QED BY <1>7, <2>1, <2>2 DEF pgsql_conn_next
<1>9. z \in AuStates(DOMAIN z.conns) /\ z.st[r].conn = 0
  <2>1. z \in AuStates(DOMAIN z.conns)
    BY <1>6 DEF AuInv, AuTypes
  <2>2. z.st = a
    <3> HIDE DEF t
    <3> QED BY <1>4, <1>5 DEF AuStates
  <2> HIDE DEF z
  <2> QED BY <1>1, <1>a, <2>1, <2>2
<1> HIDE DEF z, p
<1>10. db_query_params(p, r) = z
  <2>1. pgsql_conn_next(p, r).s = z /\ pgsql_conn_next(p, r).conn = 0
    BY <1>8
  <2> QED BY <1>t, <1>9, <2>1, SetupWithout
<1> QED BY <1>6, <1>10 DEF p

\* The limit of the queue is reached: the query is refused.
LEMMA AuRefused ==
    ASSUME AuAssumption, NEW s, NEW r, Starts(s, r), s.free = << >>, s.count["sess_auth"] >= ConnMax,
           ~(s.qcount < QueueLimit)
    PROVE  AuInv(db_query_params(Opened(s, r), r))
<1> DEFINE p == Opened(s, r)
           i == kore_pgsql_init
           q == Asking(s, r)
           h == [i EXCEPT !.state = "ERROR", !.err = TRUE]
           w == s.why[r] \cup {"refused"}
           z == Change(s, r, h, q, w)
<1>t. s \in AuStates(DOMAIN s.conns) /\ r \in Requests
  BY DEF Starts, AuInv, AuTypes
<1>p. /\ p \in AuStates(DOMAIN s.conns) /\ r \in Requests
      /\ p.conns = s.conns /\ p.free = s.free /\ p.wait = s.wait /\ p.qcount = s.qcount
      /\ p.count = s.count /\ p.lost = s.lost /\ p.connects = s.connects
      /\ p.st = [s.st EXCEPT ![r] = kore_pgsql_init] /\ p.st[r] = kore_pgsql_init
      /\ p.req = [s.req EXCEPT ![r] = Asking(s, r)] /\ p.why = s.why /\ p.req[r] = Asking(s, r)
  <2>1. Opens(s, p, r)
    BY OpenedFields, Zenon
  <2> HIDE DEF p
  <2> QED BY <2>1 DEF Opens
<1>1. h \in Handles /\ h.exists /\ h.name = "NULL" /\ h.conn = 0 /\ h.state = "ERROR"
  BY DEF kore_pgsql_init, Handles, Cookies
<1>2. w \in SUBSET Causes /\ w # {}
  BY <1>t DEF AuStates, Causes
<1>3. pgsql_set_error(Cause(p, r, "refused"), r) = Change(p, r, h, q, w)
  <2>1. pgsql_set_error(Cause(p, r, "refused"), r) =
          Change(p, r, [p.st[r] EXCEPT !.state = "ERROR", !.err = TRUE], p.req[r], p.why[r] \cup {"refused"})
    <3> HIDE DEF p
    <3>1. p \in AuStates(DOMAIN s.conns) /\ r \in Requests
      BY <1>p
    <3> QED BY <3>1, AuSetError
  <2> HIDE DEF p
  <2> QED BY <1>p, <2>1
<1> HIDE DEF i, w, h
<1>4. AuInv(z)
  <2> HIDE DEF q
  <2>1. AuInv(Change(s, r, h, Asking(s, r), w))
    BY <1>1, <1>2, AuWithout
  <2> QED BY <2>1 DEF q
<1>5. Change(p, r, h, q, w) = z
  <2> DEFINE a == [s.st EXCEPT ![r] = h]
             b == [s.req EXCEPT ![r] = q]
             d == [s.why EXCEPT ![r] = w]
             e == [s.st EXCEPT ![r] = kore_pgsql_init]
  <2> HIDE DEF q
  <2>1. z = [s EXCEPT !.st = a, !.req = b, !.why = d]
    BY DEF Change
  <2>2. Change(p, r, h, q, w) = [p EXCEPT !.st = a, !.req = b, !.why = d]
    <3> HIDE DEF p
    <3>1. [p.st EXCEPT ![r] = h] = a /\ [p.req EXCEPT ![r] = q] = b /\ [p.why EXCEPT ![r] = w] = d
      BY ZenonT(60), <1>t, <1>p DEF AuStates, q
    <3> QED BY <3>1 DEF Change
  <2>3. p = [s EXCEPT !.st = e, !.req = b, !.why = s.why]
    <3>1. [s.why EXCEPT ![r] = s.why[r]] = s.why
      BY <1>t DEF AuStates
    <3> QED BY <3>1 DEF Opened, Change, q
  <2> HIDE DEF a, b, d, e, p, z
  <2>4. [p EXCEPT !.st = a, !.req = b, !.why = d] = [s EXCEPT !.st = a, !.req = b, !.why = d]
    BY <1>t, <2>3 DEF AuStates
  <2> QED BY <2>1, <2>2, <2>4
<1> HIDE DEF p, z
<1>6. pgsql_conn_next(p, r) = [s |-> z, conn |-> 0]
  <2>1. ConnMax # 0
    BY DEF AuAssumption
  <2>2. p.free = << >> /\ p.count["sess_auth"] >= ConnMax /\ ~(p.qcount < QueueLimit)
    BY <1>p
  <2> QED BY <1>3, <1>5, <2>1, <2>2 DEF pgsql_conn_next
<1>7. z \in AuStates(DOMAIN z.conns) /\ z.st[r].conn = 0
  <2>1. z \in AuStates(DOMAIN z.conns)
    BY <1>4 DEF AuInv, AuTypes
  <2>2. z.st = [s.st EXCEPT ![r] = h]
    BY <1>t DEF z, Change, AuStates
  <2>3. s.st \in [Requests -> Handles]
    BY <1>t DEF AuStates
  <2> QED BY <1>t, <1>1, <2>1, <2>2, <2>3
<1>8. db_query_params(p, r) = z
  <2>1. pgsql_conn_next(p, r).s = z /\ pgsql_conn_next(p, r).conn = 0
    BY <1>6
  <2> QED BY <1>t, <1>7, <2>1, SetupWithout
<1> QED BY <1>4, <1>8 DEF p

\* The name of a new connection, the connection, and the worker that has it.
NewConn(D) ==
    CHOOSE i \in 1..(Cardinality(D) + 1) : i \notin D /\ \A k \in 1..(i - 1) : k \in D
Unused == [job |-> "NULL", sent |-> FALSE, results |-> << >>, read |-> FALSE, broken |-> FALSE]
More(k, c) == [i \in DOMAIN k \cup {c} |-> IF i = c THEN Unused ELSE k[i]]
Making(s, c) ==
    [s EXCEPT !.count = [s.count EXCEPT !["sess_auth"] = (s.count["sess_auth"] + 1) % CountMod],
              !.free = Append(s.free, c), !.conns = More(s.conns, c)]

\* There is always a name that no connection has.
LEMMA NewName ==
    ASSUME NEW D \in SUBSET (Nat \ {0}), IsFiniteSet(D)
    PROVE  NewConn(D) \in Nat \ {0} /\ NewConn(D) \notin D
<1> DEFINE n == Cardinality(D)
           N == (Nat \ {0}) \ D
<1>0. n = Cardinality(D)
  OBVIOUS
<1>1. n \in Nat
  BY <1>0, FS_CardinalityType
<1> HIDE DEF n
<1>2. PICK j \in 1..(n + 1) : j \notin D
  <2>1. SUFFICES ASSUME 1..(n + 1) \subseteq D PROVE FALSE
    OBVIOUS
  <2>2. Cardinality(1..(n + 1)) <= Cardinality(D)
    BY <2>1, FS_Subset
  <2>3. Cardinality(1..(n + 1)) = n + 1
    <3>1. 1 \in Int /\ n + 1 \in Int
      BY <1>1
    <3>2. Cardinality(1..(n + 1)) = IF 1 > n + 1 THEN 0 ELSE (n + 1) - 1 + 1
      BY <3>1, FS_Interval
    <3> QED BY <1>1, <3>2
  <2> QED BY <1>0, <1>1, <2>2, <2>3
<1>3. PICK i \in N : \A k \in N : i <= k
  <2>1. j \in N
    BY <1>1, <1>2
  <2> QED BY <2>1, LeastNatural
<1>4. i \in 1..(n + 1) /\ i \notin D /\ \A k \in 1..(i - 1) : k \in D
  <2>1. i <= j /\ i \in Nat /\ i # 0
    BY <1>1, <1>2, <1>3
  <2>2. ASSUME NEW k \in 1..(i - 1) PROVE k \in D
    BY <1>3, <2>1
  <2> QED BY <1>1, <1>2, <1>3, <2>1, <2>2
<1>5. NewConn(D) \in 1..(n + 1) /\ NewConn(D) \notin D
  BY <1>4, Zenon DEF NewConn, n
<1> QED BY <1>1, <1>5

\* A new connection is made for a request that starts; it is counted, and free.
Makes(s, m, c) ==
    /\ c \in Nat \ {0} /\ c \notin DOMAIN s.conns /\ AuInv(m) /\ m.free = <<c>> /\ m.st = s.st
    /\ m.req = s.req /\ m.why = s.why /\ m.conns = More(s.conns, c) /\ m.lost = s.lost
    /\ m.count["sess_auth"] = s.count["sess_auth"] + 1
    /\ \A d \in Dbs : d # "sess_auth" => m.count[d] = s.count[d]

\* So it is in the code.
LEMMA AuMakes ==
    ASSUME AuAssumption, NEW s, AuInv(s), s.free = << >>, s.count["sess_auth"] < ConnMax
    PROVE  Makes(s, Making(s, NewConn(DOMAIN s.conns)), NewConn(DOMAIN s.conns))
<1> DEFINE c == NewConn(DOMAIN s.conns)
           n == [s.count EXCEPT !["sess_auth"] = (s.count["sess_auth"] + 1) % CountMod]
           f == Append(s.free, c)
           k == More(s.conns, c)
           m == Making(s, c)
<1>t. s \in AuStates(DOMAIN s.conns) /\ DOMAIN s.conns \in SUBSET (Nat \ {0})
  BY DEF AuInv, AuTypes
<1>1. c \in Nat \ {0} /\ c \notin DOMAIN s.conns
  <2>1. IsFiniteSet(DOMAIN s.conns)
    BY DEF AuInv, Counted
  <2> QED BY <1>t, <2>1, NewName
<1> HIDE DEF c
<1>2. f = <<c>> /\ f \in Seq(Nat)
  BY <1>1
<1>3. Unused \in Conns /\ Unused.job = "NULL" /\ ~Unused.sent /\ Unused.results = << >> /\ ~Unused.read
  BY DEF Unused, Conns
<1>4. k \in [DOMAIN s.conns \cup {c} -> Conns] /\ DOMAIN k = DOMAIN s.conns \cup {c}
      /\ k = [d \in DOMAIN s.conns \cup {c} |-> IF d = c THEN Unused ELSE s.conns[d]]
  <2>1. s.conns \in [DOMAIN s.conns -> Conns]
    BY <1>t DEF AuStates
  <2> QED BY <1>3, <2>1 DEF More
<1>5. /\ n \in [Dbs -> 0..(CountMod - 1)] /\ n["sess_auth"] = s.count["sess_auth"] + 1
      /\ \A d \in Dbs : d # "sess_auth" => n[d] = s.count[d]
  <2>1. s.count \in [Dbs -> 0..(CountMod - 1)] /\ "sess_auth" \in Dbs /\ CountMod \in Nat
        /\ ConnMax \in 1..(CountMod - 1)
    BY <1>t DEF AuStates, Dbs, init, Range, AuAssumption
  <2>2. (s.count["sess_auth"] + 1) % CountMod = s.count["sess_auth"] + 1
        /\ s.count["sess_auth"] + 1 \in 0..(CountMod - 1)
    BY <2>1, SMTT(60)
  <2> QED BY <2>1, <2>2
<1>6. m = [s EXCEPT !.count = n, !.free = f, !.conns = k]
  BY DEF Making
<1> HIDE DEF n, f, k, m
<1>7. m \in AuStates(DOMAIN s.conns \cup {c})
  BY <1>t, <1>2, <1>4, <1>5, <1>6 DEF AuStates
<1>8. /\ m.st = s.st /\ m.req = s.req /\ m.why = s.why /\ m.conns = k /\ m.free = f /\ m.wait = s.wait
      /\ m.qcount = s.qcount /\ m.count = n /\ m.lost = s.lost /\ m.found = s.found /\ m.fault = s.fault
  BY <1>t, <1>6 DEF AuStates
<1>9. AuTypes(m)
  BY <1>t, <1>1, <1>4, <1>7, <1>8 DEF AuTypes
<1>10. Made(s, m, c, Unused)
  BY <1>1, <1>2, <1>3, <1>4, <1>5, <1>8, <1>9 DEF Made
<1>11. AuInv(m)
  BY <1>10, AuMade
<1>12. Makes(s, m, c)
  BY <1>1, <1>2, <1>5, <1>8, <1>11 DEF Makes, k
<1> QED BY <1>12 DEF m, c

\* Opening a request and making a connection are independent.
LEMMA MakingOpened ==
    ASSUME AuAssumption, NEW s, NEW r, Starts(s, r), NEW c
    PROVE  Making(Opened(s, r), c) = Opened(Making(s, c), r)
<1> DEFINE p == Opened(s, r)
           m == Making(s, c)
           n == [s.count EXCEPT !["sess_auth"] = (s.count["sess_auth"] + 1) % CountMod]
           f == Append(s.free, c)
           k == More(s.conns, c)
           a == [s.st EXCEPT ![r] = kore_pgsql_init]
           b == [s.req EXCEPT ![r] = Asking(s, r)]
           d == [s.why EXCEPT ![r] = s.why[r]]
<1>t. s \in AuStates(DOMAIN s.conns) /\ r \in Requests
  BY DEF Starts, AuInv, AuTypes
<1>1. p = [s EXCEPT !.st = a, !.req = b, !.why = d]
  BY DEF Opened, Change
<1>2. m = [s EXCEPT !.count = n, !.free = f, !.conns = k]
  BY DEF Making
<1> HIDE DEF p, m
<1>3. p.count = s.count /\ p.free = s.free /\ p.conns = s.conns
  BY <1>t, <1>1 DEF AuStates
<1>4. m.st = s.st /\ m.req = s.req /\ m.why = s.why
  BY <1>t, <1>2 DEF AuStates
<1>5. Making(p, c) = [p EXCEPT !.count = n, !.free = f, !.conns = k]
  BY <1>3 DEF Making
<1>6. Opened(m, r) = [m EXCEPT !.st = a, !.req = b, !.why = d]
  BY <1>4 DEF Opened, Change, Asking
<1> HIDE DEF n, f, k, a, b, d
<1>7. [p EXCEPT !.count = n, !.free = f, !.conns = k] = [m EXCEPT !.st = a, !.req = b, !.why = d]
  BY <1>t, <1>1, <1>2 DEF AuStates
<1>8. Making(p, c) = Opened(m, r)
  BY <1>5, <1>6, <1>7
<1> QED BY <1>8 DEF p, m

\* pgsql_conn_create, with the operators above.
LEMMA Creates ==
    ASSUME NEW p, NEW I, p \in AuStates(I), NEW r
    PROVE  LET c == NewConn(DOMAIN p.conns)
               z == Making(p, c)
           IN  pgsql_conn_create(p, r) =
                 IF p.connects THEN [s |-> z, conn |-> c]
                 ELSE [s |-> pgsql_conn_cleanup(pgsql_set_error(Cause(z, r, "failed"), r), c), conn |-> 0]
<1> DEFINE c == NewConn(DOMAIN p.conns)
           x == Unused
           z == Making(p, c)
           new == [p EXCEPT !.count["sess_auth"] = (@ + 1) % CountMod, !.free = Append(@, c),
                            !.conns = [i \in DOMAIN @ \cup {c} |-> IF i = c THEN x ELSE @[i]]]
<1>1. new = z
  <2> HIDE DEF c, x
  <2>1. p.count \in [Dbs -> 0..(CountMod - 1)] /\ "sess_auth" \in Dbs
    BY DEF AuStates, Dbs, init, Range
  <2> QED BY <2>1 DEF Making, More, AuStates, x
<1>2. pgsql_conn_create(p, r) =
        IF p.connects THEN [s |-> new, conn |-> c]
        ELSE [s |-> pgsql_conn_cleanup(pgsql_set_error(Cause(new, r, "failed"), r), c), conn |-> 0]
  BY Zenon DEF pgsql_conn_create, NewConn, Unused
<1> HIDE DEF new, z, c
<1>3. pgsql_conn_create(p, r) =
        IF p.connects THEN [s |-> z, conn |-> c]
        ELSE [s |-> pgsql_conn_cleanup(pgsql_set_error(Cause(z, r, "failed"), r), c), conn |-> 0]
  BY <1>1, <1>2
<1> QED BY <1>3 DEF z, c

\* A session with a connection sends its query.
LEMMA SetupWith ==
    ASSUME NEW p, NEW r \in Requests, NEW z, NEW I, z \in AuStates(I), NEW c, c # 0,
           pgsql_conn_next(p, r) = [s |-> [z EXCEPT !.free = RemoveFirst(z.free, c)], conn |-> c]
    PROVE  db_query_params(p, r) = Sends(z, r, c)
<1> DEFINE f == RemoveFirst(z.free, c)
           z1 == [z EXCEPT !.free = f]
           z2 == [z1 EXCEPT !.st[r].conn = c]
           z3 == [z2 EXCEPT !.conns[c].job = r]
<1>1. kore_pgsql_setup(p, r) = z3
  <2>1. pgsql_conn_next(p, r).s = z1 /\ pgsql_conn_next(p, r).conn = c
    BY DEF f
  <2> QED BY <2>1, Zenon DEF kore_pgsql_setup
<1> HIDE DEF f
<1>2. z3.st[r].conn = c
  <2>1. z1.st = z.st /\ z.st \in [Requests -> Handles]
    BY DEF AuStates
  <2>2. z2.st = [z.st EXCEPT ![r].conn = c]
    BY <2>1 DEF AuStates
  <2>3. [z.st EXCEPT ![r].conn = c][r].conn = c
    BY <2>1 DEF Handles
  <2>4. z3.st = z2.st
    BY DEF AuStates
  <2> HIDE DEF z2, z3
  <2> QED BY <2>2, <2>3, <2>4
<1> HIDE DEF z3
<1>3. db_query_params(p, r) = kore_pgsql_v_query_params(z3, r)
  BY <1>1, <1>2 DEF db_query_params
<1> QED BY <1>3 DEF Sends, z3, f

\* A change within a record in a record.
LEMMA Within ==
    ASSUME NEW p, NEW c, NEW v
    PROVE  [[s |-> p, conn |-> c] EXCEPT !.s.free = v] = [s |-> [p EXCEPT !.free = v], conn |-> c]
OBVIOUS

\* A connection was free.
LEMMA AuReuses ==
    ASSUME AuAssumption, NEW s, NEW r, Starts(s, r), s.free # << >>
    PROVE  AuInv(db_query_params(Opened(s, r), r))
<1> DEFINE p == Opened(s, r)
           c == s.free[1]
<1>p. p \in AuStates(DOMAIN s.conns) /\ r \in Requests /\ p.free = s.free
  <2>1. Opens(s, p, r)
    BY OpenedFields, Zenon
  <2> HIDE DEF p
  <2> QED BY <2>1 DEF Opens
<1>c. c # 0
  <2>1. s.free \in Seq(Nat)
    BY DEF Starts, AuInv, AuTypes, AuStates
  <2>2. 1 \in DOMAIN s.free
    BY <2>1
  <2>3. c \in DOMAIN s.conns
    BY <2>2 DEF Starts, AuInv, Pooled
  <2> QED BY <2>3 DEF Starts, AuInv, AuTypes
<1>i. AuInv(Sends(p, r, c))
  BY AuSends
<1> HIDE DEF p
<1>1. pgsql_conn_next(p, r) = [s |-> [p EXCEPT !.free = RemoveFirst(p.free, c)], conn |-> c]
  <2> DEFINE x == [s |-> p, conn |-> c]
  <2>1. p.free # << >> /\ c = p.free[1]
    BY <1>p
  <2>2. pgsql_conn_next(p, r) = [x EXCEPT !.s.free = RemoveFirst(p.free, c)]
    <3> HIDE DEF c
    <3> QED BY <2>1, <1>c DEF pgsql_conn_next
  <2>3. [x EXCEPT !.s.free = RemoveFirst(p.free, c)] = [s |-> [p EXCEPT !.free = RemoveFirst(p.free, c)], conn |-> c]
    BY Within
  <2> QED BY <2>2, <2>3
<1> HIDE DEF c
<1>2. db_query_params(p, r) = Sends(p, r, c)
  BY <1>p, <1>c, <1>1, SetupWith
<1> QED BY <1>2, <1>i DEF p

\* A connection could be made.
LEMMA AuCreated ==
    ASSUME AuAssumption, NEW s, NEW r, Starts(s, r), s.free = << >>, s.count["sess_auth"] < ConnMax, s.connects
    PROVE  AuInv(db_query_params(Opened(s, r), r))
<1> DEFINE p == Opened(s, r)
           c == NewConn(DOMAIN s.conns)
           m == Making(s, c)
           z == Making(p, c)
<1>p. /\ p \in AuStates(DOMAIN s.conns) /\ r \in Requests /\ p.free = s.free /\ p.count = s.count
      /\ p.conns = s.conns /\ p.connects = s.connects
  <2>1. Opens(s, p, r)
    BY OpenedFields, Zenon
  <2> HIDE DEF p
  <2> QED BY <2>1 DEF Opens
<1>1. Makes(s, m, c)
  BY AuMakes DEF Starts
<1>2. z = Opened(m, r)
  BY MakingOpened
<1> HIDE DEF p, c, m
<1>3. Starts(m, r) /\ m.free # << >> /\ m.free[1] = c /\ c # 0
  BY <1>1 DEF Makes, Starts
<1>4. AuInv(Sends(z, r, c))
  <2>1. AuInv(Sends(Opened(m, r), r, m.free[1]))
    BY <1>3, AuSends
  <2> QED BY <1>2, <1>3, <2>1
<1>5. z \in AuStates(DOMAIN m.conns)
  <2>1. Opens(m, z, r)
    BY <1>2, <1>3, OpenedFields
  <2> QED BY <2>1 DEF Opens
<1>6. pgsql_conn_create(p, r) = [s |-> z, conn |-> c]
  <2> HIDE DEF z
  <2>1. pgsql_conn_create(p, r) = [s |-> Making(p, NewConn(DOMAIN p.conns)), conn |-> NewConn(DOMAIN p.conns)]
    BY <1>p, Creates
  <2> QED BY <1>p, <2>1 DEF z, c
<1> HIDE DEF z
<1>7. pgsql_conn_next(p, r) = [s |-> [z EXCEPT !.free = RemoveFirst(z.free, c)], conn |-> c]
  <2> DEFINE x == [s |-> z, conn |-> c]
  <2>1. p.free = << >> /\ ~(p.count["sess_auth"] >= ConnMax)
    <3>1. s.count["sess_auth"] \in Int /\ ConnMax \in Int
      BY DEF Starts, AuInv, AuTypes, AuStates, Dbs, init, Range, AuAssumption
    <3> QED BY <1>p, <3>1
  <2>2. pgsql_conn_next(p, r) = [x EXCEPT !.s.free = RemoveFirst(z.free, c)]
    BY <1>3, <1>6, <2>1 DEF pgsql_conn_next
  <2>3. [x EXCEPT !.s.free = RemoveFirst(z.free, c)] = [s |-> [z EXCEPT !.free = RemoveFirst(z.free, c)], conn |-> c]
    BY Within
  <2> QED BY <2>2, <2>3
<1>8. db_query_params(p, r) = Sends(z, r, c)
  BY <1>p, <1>3, <1>5, <1>7, SetupWith
<1> QED BY <1>4, <1>8 DEF p

\* A connection could not be made: it was counted, and is lost at once.
LEMMA AuUncreated ==
    ASSUME AuAssumption, NEW s, NEW r, Starts(s, r), s.free = << >>, s.count["sess_auth"] < ConnMax, ~s.connects
    PROVE  AuInv(db_query_params(Opened(s, r), r))
<1> DEFINE p == Opened(s, r)
           c == NewConn(DOMAIN s.conns)
           m == Making(s, c)
           z == Making(p, c)
           i == kore_pgsql_init
           q == Asking(s, r)
           h == [i EXCEPT !.state = "ERROR", !.err = TRUE]
           w == s.why[r] \cup {"failed"}
           a == [s.st EXCEPT ![r] = h]
           b == [s.req EXCEPT ![r] = q]
           d == [s.why EXCEPT ![r] = w]
           t == Change(s, r, h, q, w)
           e == Change(z, r, h, q, w)
           other == init[Min({j \in DOMAIN init : init[j] # "sess_auth"})]
           n == [m.count EXCEPT ![other] = (m.count[other] - 1) % CountMod]
           l == s.lost + 1
           y == [t EXCEPT !.count = n, !.lost = l]
<1>t. s \in AuStates(DOMAIN s.conns) /\ r \in Requests /\ AuInv(s) /\ DOMAIN s.conns \in SUBSET (Nat \ {0})
  BY DEF Starts, AuInv, AuTypes
<1>p. /\ p \in AuStates(DOMAIN s.conns) /\ r \in Requests /\ p.free = s.free /\ p.count = s.count
      /\ p.conns = s.conns /\ p.connects = s.connects
  <2>1. Opens(s, p, r)
    BY OpenedFields, Zenon
  <2> HIDE DEF p
  <2> QED BY <2>1 DEF Opens
<1>1. Makes(s, m, c)
  BY AuMakes DEF Starts
<1>2. z = Opened(m, r)
  BY MakingOpened
<1>o. other \in Dbs /\ other # "sess_auth"
  BY OtherDb
<1>h. h \in Handles /\ h.exists /\ h.name = "NULL" /\ h.conn = 0 /\ h.state = "ERROR"
  BY DEF kore_pgsql_init, Handles, Cookies
<1>w. w \in SUBSET Causes /\ w # {}
  BY <1>t DEF AuStates, Causes
<1>s. t = [s EXCEPT !.st = a, !.req = b, !.why = d]
  BY DEF Change
<1> HIDE DEF p, c, m, other
<1>3. Starts(m, r) /\ m.free = <<c>> /\ c # 0 /\ c \in Nat /\ c \notin DOMAIN s.conns /\ m.st = s.st /\ m.req = s.req
      /\ m.why = s.why /\ m.conns = More(s.conns, c) /\ m.lost = s.lost
  BY <1>1 DEF Makes, Starts
<1>m. m \in AuStates(DOMAIN m.conns)
  BY <1>1 DEF Makes, AuInv, AuTypes
<1>4. /\ z \in AuStates(DOMAIN m.conns) /\ z.conns = m.conns /\ z.free = m.free /\ z.count = m.count
      /\ z.lost = m.lost /\ z.st[r] = i /\ z.req[r] = Asking(m, r) /\ z.why = m.why
      /\ z.st = [m.st EXCEPT ![r] = i] /\ z.req = [m.req EXCEPT ![r] = Asking(m, r)]
  <2>1. Opens(m, z, r)
    BY <1>2, <1>3, OpenedFields
  <2> HIDE DEF z
  <2> QED BY <2>1 DEF Opens
<1>5. Asking(m, r) = q
  BY <1>3 DEF Asking
<1>6. pgsql_set_error(Cause(z, r, "failed"), r) = e
  <2>1. pgsql_set_error(Cause(z, r, "failed"), r) =
          Change(z, r, [z.st[r] EXCEPT !.state = "ERROR", !.err = TRUE], z.req[r], z.why[r] \cup {"failed"})
    <3> HIDE DEF z
    <3>1. z \in AuStates(DOMAIN m.conns) /\ r \in Requests
      BY <1>t, <1>4
    <3> QED BY <3>1, AuSetError
  <2>2. z.st[r] = i /\ z.req[r] = q /\ z.why[r] = s.why[r]
    BY <1>3, <1>4, <1>5
  <2> HIDE DEF z, i, q
  <2> QED BY <2>1, <2>2
<1> HIDE DEF i, q, h, w
<1>7. AuInv(t)
  <2>1. AuInv(Change(s, r, h, Asking(s, r), w))
    BY <1>h, <1>w, AuWithout
  <2> QED BY <2>1 DEF q
<1>8. /\ n \in [Dbs -> 0..(CountMod - 1)] /\ n["sess_auth"] = s.count["sess_auth"] + 1
      /\ m.count \in [Dbs -> 0..(CountMod - 1)] /\ s.count["sess_auth"] \in Int /\ s.lost \in Nat
  <2>1. m.count \in [Dbs -> 0..(CountMod - 1)] /\ "sess_auth" \in Dbs /\ CountMod \in Nat /\ CountMod > 0
        /\ s.count["sess_auth"] \in Int /\ s.lost \in Nat
    BY SMTT(40), <1>t, <1>m DEF AuStates, Dbs, init, Range, AuAssumption
  <2>2. m.count[other] \in Int
    BY <1>o, <2>1
  <2>3. (m.count[other] - 1) % CountMod \in 0..(CountMod - 1)
    BY <2>1, <2>2
  <2>4. m.count["sess_auth"] = s.count["sess_auth"] + 1
    BY <1>1 DEF Makes
  <2> QED BY <1>o, <2>1, <2>3, <2>4
<1> DEFINE ke == More(s.conns, c)
           fe == <<c>>
           ne == m.count
<1>9. e = [s EXCEPT !.st = a, !.req = b, !.why = d, !.count = ne, !.free = fe, !.conns = ke]
  <2> DEFINE me == [s.count EXCEPT !["sess_auth"] = (s.count["sess_auth"] + 1) % CountMod]
             ce == More(s.conns, c)
             se == Append(s.free, c)
             a0 == [s.st EXCEPT ![r] = i]
  <2>1. [z.st EXCEPT ![r] = h] = a /\ [z.req EXCEPT ![r] = q] = b /\ [z.why EXCEPT ![r] = w] = d
    <3> HIDE DEF z
    <3>1. z.st = a0 /\ z.req = b /\ z.why = s.why
      BY <1>3, <1>4, <1>5
    <3>2. s.st \in [Requests -> Handles] /\ s.req \in [Requests -> Asks] /\ r \in Requests
      BY <1>t DEF AuStates
    <3>3. [a0 EXCEPT ![r] = h] = a
      BY <3>2
    <3>4. [b EXCEPT ![r] = q] = b
      BY <3>2
    <3> HIDE DEF a0, a, b
    <3> QED BY <3>1, <3>3, <3>4
  <2>2. e = [z EXCEPT !.st = a, !.req = b, !.why = d]
    <3> HIDE DEF z
    <3> QED BY <2>1 DEF Change
  <2>3. m = [s EXCEPT !.count = me, !.free = se, !.conns = ce]
    BY DEF m, Making
  <2>4. z = [m EXCEPT !.st = a0, !.req = b, !.why = s.why]
    <3>1. [s.why EXCEPT ![r] = s.why[r]] = s.why
      BY <1>t DEF AuStates
    <3> HIDE DEF z
    <3> QED BY <1>2, <1>3, <1>5, <3>1 DEF Opened, Change, i
  <2> HIDE DEF e, a, b, d, me, ce, se, a0, z
  <2>5. m.count = me /\ m.free = se /\ m.conns = ce
    BY <1>t, <2>3 DEF AuStates
  <2>6. [z EXCEPT !.st = a, !.req = b, !.why = d]
          = [s EXCEPT !.st = a, !.req = b, !.why = d, !.count = me, !.free = se, !.conns = ce]
    BY <1>t, <2>3, <2>4 DEF AuStates
  <2> QED BY <1>3, <2>2, <2>5, <2>6 DEF ce
<1>10. /\ e.conns = ke /\ e.free = fe /\ e.count = ne /\ e.lost = s.lost
  <2> HIDE DEF e, a, b, d, ke, fe, ne
  <2> QED BY <1>t, <1>9 DEF AuStates
<1>11. ke[c].job = "NULL" /\ Restrict(ke, DOMAIN ke \ {c}) = s.conns /\ RemoveFirst(fe, c) = << >>
  <2>1. ke[c] = Unused /\ DOMAIN ke = DOMAIN s.conns \cup {c}
    BY DEF More
  <2>2. DOMAIN ke \ {c} = DOMAIN s.conns
    BY <1>3, <2>1
  <2>3. \A j \in DOMAIN s.conns : ke[j] = s.conns[j]
    BY <1>3 DEF More
  <2>4. s.conns = [j \in DOMAIN s.conns |-> s.conns[j]]
    BY <1>t DEF AuStates
  <2>5. Restrict(ke, DOMAIN s.conns) = s.conns
    <3> HIDE DEF ke
    <3> QED BY <2>3, <2>4 DEF Restrict
  <2>6. fe \in Seq(Nat) /\ fe # << >> /\ fe[1] = c /\ Tail(fe) = << >>
    BY <1>3
  <2>7. RemoveFirst(fe, c) = << >>
    <3> HIDE DEF fe
    <3>1. RemoveFirst(fe, fe[1]) = Tail(fe)
      BY <2>6, RemoveHead
    <3>2. fe[1] = c /\ Tail(fe) = << >>
      BY <2>6
    <3>3. RemoveFirst(fe, c) = Tail(fe)
      BY <3>1, <3>2, Zenon
    <3> QED BY <3>2, <3>3, Zenon
  <2> HIDE DEF ke, fe
  <2>8. Restrict(ke, DOMAIN ke \ {c}) = s.conns
    BY <2>2, <2>5
  <2>9. ke[c].job = "NULL"
    BY <2>1 DEF Unused
  <2> QED BY <2>7, <2>8, <2>9
<1>12. pgsql_conn_cleanup(e, c) = y
  <2> HIDE DEF e, ke, fe, ne
  <2> DEFINE gone == [e EXCEPT !.free = RemoveFirst(@, c), !.conns = Restrict(@, DOMAIN @ \ {c}),
                               !.count[other] = (@ - 1) % CountMod, !.lost = @ + 1]
  <2>1. pgsql_conn_cleanup(e, c) = gone
    BY <1>10, <1>11 DEF pgsql_conn_cleanup, other
  <2>2. gone = [e EXCEPT !.free = << >>, !.conns = s.conns, !.count = n, !.lost = l]
    <3>1. [ne EXCEPT ![other] = (@ - 1) % CountMod] = n
      BY DEF ne
    <3> HIDE DEF n, l
    <3> QED BY <1>10, <1>11, <3>1 DEF l
  <2> HIDE DEF gone, n, l, a, b, d, t
  <2>3. [e EXCEPT !.free = << >>, !.conns = s.conns, !.count = n, !.lost = l] = y
    BY <1>t, <1>9, <1>s DEF AuStates
  <2> QED BY <2>1, <2>2, <2>3
<1> HIDE DEF e, z, ke, fe, ne
<1>13. AuInv(y)
  <2>1. /\ t \in AuStates(DOMAIN s.conns) /\ t.conns = s.conns /\ t.count = s.count /\ t.lost = s.lost
    <3> HIDE DEF a, b, d, t
    <3>1. t.conns = s.conns /\ t.count = s.count /\ t.lost = s.lost
      BY <1>t, <1>s DEF AuStates
    <3>2. t \in AuStates(DOMAIN t.conns)
      BY <1>7 DEF AuInv, AuTypes
    <3> QED BY <3>1, <3>2
  <2>l. l \in Nat /\ n["sess_auth"] - l = s.count["sess_auth"] - s.lost /\ n["sess_auth"] <= ConnMax
    <3>1. ConnMax \in Int
      BY DEF AuAssumption
    <3> HIDE DEF n
    <3> QED BY SMTT(40), <1>8, <3>1
  <2> HIDE DEF t, n, l
  <2>2. /\ y \in AuStates(DOMAIN s.conns)
    BY <1>8, <2>1, <2>l DEF AuStates
  <2>3. /\ y.st = t.st /\ y.req = t.req /\ y.why = t.why /\ y.conns = t.conns /\ y.free = t.free
        /\ y.wait = t.wait /\ y.qcount = t.qcount /\ y.count = n /\ y.lost = l /\ y.found = t.found
        /\ y.fault = t.fault
    BY <2>1 DEF AuStates
  <2>q. t.qcount = t.qcount + Len(t.wait) - Len(t.wait)
    <3>1. t.wait \in Seq(Requests) /\ t.qcount \in Int
      BY <2>1 DEF AuStates
    <3> QED BY <3>1
  <2> HIDE DEF y
  <2>4. AuTypes(y)
    BY <1>t, <2>1, <2>2, <2>3 DEF AuTypes
  <2>5. Quiet(t, y)
    BY <1>7, <2>1, <2>l, <2>3, <2>q, <2>4 DEF Quiet
  <2> QED BY <2>5, AuQuiet
<1>14. y \in AuStates(DOMAIN y.conns) /\ y.st[r].conn = 0
  <2>1. y \in AuStates(DOMAIN y.conns)
    BY <1>13 DEF AuInv, AuTypes
  <2>2. y.st = a
    <3> HIDE DEF a, b, d, n, l, t
    <3> QED BY <1>t, <1>s DEF AuStates
  <2>3. s.st \in [Requests -> Handles]
    BY <1>t DEF AuStates
  <2> HIDE DEF y
  <2> QED BY <1>t, <1>h, <2>1, <2>2, <2>3
<1> HIDE DEF y
<1>15. pgsql_conn_create(p, r) = [s |-> y, conn |-> 0]
  <2>1. pgsql_conn_create(p, r) =
          [s |-> pgsql_conn_cleanup(pgsql_set_error(Cause(Making(p, NewConn(DOMAIN p.conns)), r, "failed"), r),
                                      NewConn(DOMAIN p.conns)), conn |-> 0]
    BY <1>p, Creates
  <2>2. NewConn(DOMAIN p.conns) = c /\ Making(p, c) = z
    BY <1>p DEF c, z
  <2> QED BY <1>6, <1>12, <2>1, <2>2
<1>16. pgsql_conn_next(p, r) = [s |-> y, conn |-> 0]
  <2>1. p.free = << >> /\ ~(p.count["sess_auth"] >= ConnMax)
    <3>1. s.count["sess_auth"] \in Int /\ ConnMax \in Int
      BY <1>8 DEF AuAssumption
    <3> QED BY <1>p, <3>1
  <2> QED BY <1>15, <2>1 DEF pgsql_conn_next
<1>17. db_query_params(p, r) = y
  <2>1. pgsql_conn_next(p, r).s = y /\ pgsql_conn_next(p, r).conn = 0
    BY <1>16
  <2> QED BY <1>t, <1>14, <2>1, SetupWithout
<1> QED BY <1>13, <1>17 DEF p

\* The first call of a validator keeps the invariant.
LEMMA AuStart ==
    ASSUME AuAssumption, NEW s, NEW r, Starts(s, r)
    PROVE  AuInv(StartQuery(s, r))
<1>t. s \in AuStates(DOMAIN s.conns) /\ r \in Requests
  BY DEF Starts, AuInv, AuTypes
<1>1. StartQuery(s, r) = db_query_params(Opened(s, r), r)
  <2> DEFINE a == [s.st EXCEPT ![r] = kore_pgsql_init]
             b == [s.req EXCEPT ![r] = Asking(s, r)]
  <2>1. [s.why EXCEPT ![r] = s.why[r]] = s.why /\ [s.req EXCEPT ![r].phase = "asking"] = b
    BY <1>t DEF AuStates, Asking
  <2>2. Opened(s, r) = [s EXCEPT !.st = a, !.req = b, !.why = s.why]
    BY <2>1 DEF Opened, Change
  <2>3. [s EXCEPT !.st[r] = kore_pgsql_init, !.req[r].phase = "asking"] = [s EXCEPT !.st = a, !.req = b]
    BY <1>t, <2>1 DEF AuStates
  <2> HIDE DEF a, b
  <2>4. [s EXCEPT !.st = a, !.req = b] = [s EXCEPT !.st = a, !.req = b, !.why = s.why]
    BY <1>t DEF AuStates
  <2>5. [s EXCEPT !.st[r] = kore_pgsql_init, !.req[r].phase = "asking"] = Opened(s, r)
    BY <2>2, <2>3, <2>4
  <2> QED BY <2>5, Zenon DEF StartQuery
<1>2. s.count["sess_auth"] < ConnMax \/ s.count["sess_auth"] >= ConnMax
  BY <1>t DEF AuStates, Dbs, init, Range, AuAssumption
<1>3. AuInv(db_query_params(Opened(s, r), r))
  <2>1. CASE s.free # << >>
    BY <2>1, AuReuses
  <2>2. CASE s.free = << >> /\ s.count["sess_auth"] >= ConnMax
    BY <2>2, AuWaits, AuRefused
  <2>3. CASE s.free = << >> /\ s.count["sess_auth"] < ConnMax
    BY <2>3, AuCreated, AuUncreated
  <2> QED BY <1>2, <2>1, <2>2, <2>3
<1> QED BY <1>1, <1>3

----------------------------------------------------------------------------
\* The answer to a request.

\* The request r has left the pool.
Cleaned(s, m, r) ==
    /\ AuInv(m) /\ m.st[r].conn = 0 /\ m.req = s.req /\ m.why = s.why /\ m.found = s.found
    /\ \A i \in DOMAIN m.wait : m.wait[i] # r

\* kore_pgsql_cleanup of a query that has ended.
LEMMA AuCleaned ==
    ASSUME AuAssumption, NEW s, AuInv(s), NEW r \in Requests, s.st[r].exists,
           s.st[r].state \in {"COMPLETE", "ERROR"}, s.req[r].phase = "asking"
    PROVE  Cleaned(s, kore_pgsql_cleanup(s, r), r)
<1> DEFINE g == [s.st[r] EXCEPT !.err = FALSE]
           w == s.why[r]
           c == s.st[r].conn
           y == s.conns[c]
           a == [s.st EXCEPT ![r] = g]
           out == [s EXCEPT !.st = a]
<1>t. s \in AuStates(DOMAIN s.conns)
  BY DEF AuInv, AuTypes
<1>h. s.st[r] \in Handles /\ s.req[r] \in Asks /\ w \in SUBSET Causes
  BY <1>t DEF AuStates
<1>k. Kept(r, s.st[r], s.req[r], s.found, w)
  BY DEF AuInv, Requested
<1>q. \A i \in DOMAIN s.wait : s.wait[i] # r
  BY DEF AuInv, Queued
<1>g. /\ g \in Handles /\ g.conn = c /\ g.exists /\ g.name = s.st[r].name /\ g.state = s.st[r].state
      /\ g \in Mids
  BY <1>h DEF Handles, Mids
<1>1. pgsql_queue_remove(s, r) = s
  BY <1>q DEF pgsql_queue_remove, Range
<1>2. [s EXCEPT !.st[r].err = FALSE] = out
  <2>1. [s.st EXCEPT ![r].err = FALSE] = a
    BY <1>t DEF AuStates
  <2> HIDE DEF a
  <2> QED BY <2>1
<1>3. kore_pgsql_cleanup(s, r) = IF c = 0 THEN out ELSE pgsql_conn_release(out, r)
  <2> HIDE DEF out
  <2> QED BY <1>1, <1>2 DEF kore_pgsql_cleanup
<1>w. [s.why EXCEPT ![r] = w] = s.why /\ [s.req EXCEPT ![r] = s.req[r]] = s.req
  BY <1>t DEF AuStates
<1>4. CASE c = 0
  <2> DEFINE m == Change(s, r, g, s.req[r], w)
  <2> HIDE DEF g, w, c
  <2>1. m = out
    <3>1. m = [s EXCEPT !.st = a, !.req = s.req, !.why = s.why]
      BY <1>w DEF Change
    <3> HIDE DEF a
    <3> QED BY <1>t, <3>1 DEF AuStates
  <2>2. Kept(r, g, s.req[r], s.found, w)
    BY <1>k, <1>g, <1>4 DEF Kept, c
  <2>3. r \in s.found /\ s.req[r].phase = "asking" /\ w = {} =>
          g.name = s.req[r].cookie \/ (g.conn # 0 /\ s.conns[g.conn].results = <<s.req[r].cookie>>)
    <3>1. r \in s.found /\ s.req[r].phase = "asking" /\ s.why[r] = {} =>
            \/ s.st[r].name = s.req[r].cookie
            \/ s.st[r].conn # 0 /\ s.conns[s.st[r].conn].results = <<s.req[r].cookie>>
      BY AuKnown, Zenon
    <3> QED BY <1>g, <3>1 DEF w, c
  <2>4. Changes(s, r, g, s.req[r], w)
    BY <1>h, <1>q, <1>g, <2>2, <2>3 DEF Changes, c
  <2>5. AuInv(m)
    BY <2>4, AuChange
  <2>6. out.st[r].conn = 0 /\ out.req = s.req /\ out.why = s.why /\ out.found = s.found /\ out.wait = s.wait
    <3>1. a[r] = g
      BY <1>t DEF AuStates
    <3> HIDE DEF a
    <3> QED BY <1>t, <1>g, <1>4, <3>1 DEF AuStates
  <2> HIDE DEF out, m
  <2> QED BY <1>3, <1>4, <1>q, <2>1, <2>5, <2>6 DEF Cleaned
<1>5. CASE c # 0
  <2> DEFINE f == [g EXCEPT !.conn = 0, !.state = "COMPLETE"]
             m == pgsql_conn_release(out, r)
  <2>0. w # {}
    BY <1>k, <1>5 DEF Kept
  <2>y. c \in DOMAIN s.conns /\ y \in Conns
    <3>1. c \in DOMAIN s.conns
      BY <1>5 DEF AuInv, Pooled
    <3> QED BY <1>t, <3>1 DEF AuStates
  <2>f. f \in Handles /\ f.conn = 0 /\ f.exists /\ f.name = s.st[r].name /\ f.state = "COMPLETE"
    <3> HIDE DEF g
    <3> QED BY <1>g DEF Handles
  <2>1. out = Mid(s, r, c, g, y, w)
    <3>1. [s.conns EXCEPT ![c] = y] = s.conns
      BY <1>t DEF AuStates
    <3>2. Mid(s, r, c, g, y, w) = [s EXCEPT !.st = a, !.conns = s.conns, !.why = s.why]
      BY <1>w, <3>1 DEF Mid
    <3> HIDE DEF a
    <3> QED BY <1>t, <3>2, ZenonT(60) DEF AuStates
  <2> HIDE DEF g, w, c, y, out
  <2>2. Kept(r, f, s.req[r], s.found, w)
    <3> HIDE DEF f
    <3> QED BY <1>k, <2>f DEF Kept
  <2>3. Releases(s, out, r, c, g, y, w)
    <3>1. Kept(r, [g EXCEPT !.conn = 0, !.state = "COMPLETE"], s.req[r], s.found, w)
      BY <2>2
    <3>2. w \in SUBSET Causes /\ c = s.st[r].conn
      BY <1>h DEF w, c
    <3> HIDE DEF f
    <3> QED BY <1>g, <1>5, <2>0, <2>y, <2>1, <3>1, <3>2 DEF Releases
  <2>4. /\ AuInv(m) /\ m.st = [s.st EXCEPT ![r] = f]
        /\ m.req = s.req /\ m.why = [s.why EXCEPT ![r] = w] /\ m.found = s.found
        /\ m.wait = s.wait \/ (s.wait # << >> /\ m.wait = Tail(s.wait))
    <3>1. Released(s, m, r, g, w)
      BY <2>3, AuRelease
    <3> HIDE DEF m
    <3> QED BY <3>1, Zenon DEF Released
  <2> HIDE DEF m, f
  <2>5. m.st[r].conn = 0
    <3>1. s.st \in [Requests -> Handles]
      BY <1>t DEF AuStates
    <3> QED BY <2>f, <2>4, <3>1
  <2>6. \A i \in DOMAIN m.wait : m.wait[i] # r
    <3>1. CASE m.wait = s.wait
      BY <1>q, <3>1
    <3>2. CASE s.wait # << >> /\ m.wait = Tail(s.wait)
      <4>1. s.wait \in Seq(Requests)
        BY <1>t DEF AuStates
      <4>2. \A i \in DOMAIN Tail(s.wait) : i + 1 \in DOMAIN s.wait /\ Tail(s.wait)[i] = s.wait[i + 1]
        BY <3>2, <4>1
      <4> QED BY <1>q, <3>2, <4>2
    <3> QED BY <2>4, <3>1, <3>2
  <2> QED BY <1>3, <1>5, <1>w, <2>4, <2>5, <2>6, ZenonT(60) DEF Cleaned, m
<1> QED BY <1>4, <1>5

\* The request after its answer o, and when o may be given.
Ended(s, r, o) == [s.req[r] EXCEPT !.phase = "done", !.out = o]
Rightly(s, r, o) ==
    /\ o \in {"login", "known", "unknown", "dashboard", "405"}
    /\ o \in {"dashboard", "known"} => r \in s.found
    /\ o \in {"login", "unknown"} /\ r \in s.found => s.why[r] # {}

\* A request is answered, with the handle h that it keeps.
Ends(s, r, h, o) ==
    /\ AuInv(s) /\ r \in Requests /\ s.req[r].phase \in {"new", "asking"} /\ s.st[r].conn = 0
    /\ \A i \in DOMAIN s.wait : s.wait[i] # r
    /\ h = NoState \/ (h = s.st[r] /\ (o = "405" \/ ~h.exists))

\* An answer keeps the invariant.
LEMMA AuEnds ==
    ASSUME AuAssumption, NEW s, NEW r, NEW h, NEW o, Rightly(s, r, o), Ends(s, r, h, o)
    PROVE  AuInv(Change(s, r, h, Ended(s, r, o), s.why[r]))
<1> DEFINE q == Ended(s, r, o)
           w == s.why[r]
<1>t. s \in AuStates(DOMAIN s.conns) /\ r \in Requests
  BY DEF Ends, AuInv, AuTypes
<1>1. s.st[r] \in Handles /\ s.req[r] \in Asks /\ w \in SUBSET Causes
  BY <1>t DEF AuStates
<1>2. NoState \in Handles /\ NoState.conn = 0 /\ ~NoState.exists /\ NoState.name = "NULL"
      /\ NoState.state = "INIT"
  BY DEF NoState, kore_pgsql_init, Handles, Cookies
<1>3. /\ q \in Asks /\ q.phase = "done" /\ q.out = o /\ q.cookie = s.req[r].cookie /\ q.asleep = s.req[r].asleep
      /\ q.kind = s.req[r].kind
  BY <1>1 DEF Asks, Ended, Rightly
<1>4. h \in Handles /\ h.conn = 0
  BY <1>1, <1>2 DEF Ends
<1>5. Kept(r, s.st[r], s.req[r], s.found, w)
  BY <1>t DEF Ends, AuInv, Requested
<1> HIDE DEF q, w
<1>6. Kept(r, h, q, s.found, w)
  <2>1. CASE h = NoState
    <3>1. h.conn = 0 /\ ~h.exists /\ h.name = "NULL" /\ h.state = "INIT"
      BY <1>2, <2>1
    <3> QED BY <1>3, <1>5, <2>1, <3>1 DEF Kept, Rightly, Ends, w
  <2>2. CASE h = s.st[r] /\ (o = "405" \/ ~h.exists)
    BY <1>3, <1>4, <1>5, <2>2 DEF Kept, Rightly, Ends, w
  <2> QED BY <2>1, <2>2 DEF Ends
<1>7. Changes(s, r, h, q, w)
  BY <1>1, <1>3, <1>4, <1>6 DEF Changes, Ends
<1>8. AuInv(Change(s, r, h, q, w))
  BY <1>7, AuChange
<1> QED BY <1>8 DEF q, w

\* Finish, with or without http_state_cleanup before it, changes one request.
LEMMA Finishes ==
    ASSUME NEW s, NEW I, s \in AuStates(I), NEW r \in Requests, NEW o
    PROVE  /\ Finish(s, r, o) = Change(s, r, s.st[r], Ended(s, r, o), s.why[r])
           /\ Finish(http_state_cleanup(s, r), r, o) = Change(s, r, NoState, Ended(s, r, o), s.why[r])
           /\ http_state_cleanup(s, r).req = s.req /\ http_state_cleanup(s, r).st[r] = NoState
<1> DEFINE q == Ended(s, r, o)
           b == [s.req EXCEPT ![r] = q]
           a == [s.st EXCEPT ![r] = NoState]
           z == [s EXCEPT !.st = a]
<1>1. [[s.req EXCEPT ![r].phase = "done"] EXCEPT ![r].out = o] = b
  BY DEF AuStates, Ended, Asks
<1>2. [s.why EXCEPT ![r] = s.why[r]] = s.why /\ [s.st EXCEPT ![r] = s.st[r]] = s.st /\ a[r] = NoState
  BY DEF AuStates
<1>3. http_state_cleanup(s, r) = z
  BY DEF http_state_cleanup
<1> HIDE DEF a, b
<1>4. z.req = s.req /\ z.st = a
  BY DEF AuStates
<1>5. Finish(s, r, o) = [s EXCEPT !.req = b]
  BY <1>1 DEF Finish, AuStates
<1>6. Finish(z, r, o) = [z EXCEPT !.req = b]
  <2> HIDE DEF z
  <2> QED BY <1>1, <1>4 DEF Finish
<1>7. Change(s, r, s.st[r], q, s.why[r]) = [s EXCEPT !.st = s.st, !.req = b, !.why = s.why]
  BY <1>2 DEF Change, b
<1>8. Change(s, r, NoState, q, s.why[r]) = [s EXCEPT !.st = a, !.req = b, !.why = s.why]
  BY <1>2 DEF Change, b, a
<1>9. [s EXCEPT !.req = b] = [s EXCEPT !.st = s.st, !.req = b, !.why = s.why]
  BY DEF AuStates
<1>10. [z EXCEPT !.req = b] = [s EXCEPT !.st = a, !.req = b, !.why = s.why]
  BY DEF AuStates
<1> HIDE DEF q, z
<1> QED BY <1>2, <1>3, <1>4, <1>5, <1>6, <1>7, <1>8, <1>9, <1>10 DEF q

\* A query that has ended is forgotten with its answer.
Forgets(s, r) ==
    /\ AuInv(s) /\ r \in Requests /\ s.st[r].exists /\ s.st[r].state \in {"COMPLETE", "ERROR"}
    /\ s.req[r].phase = "asking"

\* The answer o that follows Forget.
LEMMA AuForgets ==
    ASSUME AuAssumption, NEW s, NEW r, NEW o, Forgets(s, r), Rightly(s, r, o)
    PROVE  AuInv(Finish(Forget(s, r), r, o)) /\ Forget(s, r).req = s.req
           /\ Forget(s, r).st[r] = NoState
<1> DEFINE m == kore_pgsql_cleanup(s, r)
<1>1. Cleaned(s, m, r)
  BY AuCleaned DEF Forgets
<1>2. Forget(s, r) = http_state_cleanup(m, r)
  BY DEF Forget
<1> HIDE DEF m
<1>3. m \in AuStates(DOMAIN m.conns) /\ r \in Requests
  BY <1>1 DEF Cleaned, AuInv, AuTypes, Forgets
<1>4. /\ Finish(http_state_cleanup(m, r), r, o) = Change(m, r, NoState, Ended(m, r, o), m.why[r])
      /\ http_state_cleanup(m, r).req = m.req /\ http_state_cleanup(m, r).st[r] = NoState
  BY <1>3, Finishes
<1>5. Rightly(m, r, o)
  BY <1>1 DEF Cleaned, Rightly
<1>6. Ends(m, r, NoState, o)
  BY <1>1 DEF Cleaned, Ends, Forgets
<1>7. AuInv(Change(m, r, NoState, Ended(m, r, o), m.why[r]))
  BY <1>5, <1>6, AuEnds
<1>8. m.req = s.req
  BY <1>1 DEF Cleaned
<1> QED BY <1>2, <1>4, <1>7, <1>8

\* A request without a handle, or after a 405, is answered and nothing else.
LEMMA AuPlain ==
    ASSUME AuAssumption, NEW s, NEW r, NEW o, Ends(s, r, s.st[r], o), Rightly(s, r, o)
    PROVE  AuInv(Finish(s, r, o))
<1>1. s \in AuStates(DOMAIN s.conns) /\ r \in Requests
  BY DEF Ends, AuInv, AuTypes
<1>2. Finish(s, r, o) = Change(s, r, s.st[r], Ended(s, r, o), s.why[r])
  BY <1>1, Finishes
<1>3. AuInv(Change(s, r, s.st[r], Ended(s, r, o), s.why[r]))
  BY AuEnds
<1> QED BY <1>2, <1>3

\* A request that is given to its validator.
Called(s, r) == AuInv(s) /\ r \in Requests /\ s.req[r].phase \in {"new", "asking"}

\* What is known then.
LEMMA AuCalled ==
    ASSUME AuAssumption, NEW s, NEW r, Called(s, r)
    PROVE  /\ s \in AuStates(DOMAIN s.conns)
           /\ s.req[r].cookie = "NULL" => ~s.st[r].exists
           /\ ~s.st[r].exists => s.req[r].phase = "new" /\ r \notin s.found /\ s.st[r].conn = 0
           /\ s.st[r].exists => s.req[r].phase = "asking"
           /\ s.st[r].state \in {"COMPLETE", "ERROR"} => s.st[r].exists /\ \A i \in DOMAIN s.wait : s.wait[i] # r
           /\ ~s.st[r].exists => \A i \in DOMAIN s.wait : s.wait[i] # r
           /\ s.st[r].state = "COMPLETE" => s.st[r].conn = 0
           /\ s.st[r].state = "COMPLETE" /\ s.st[r].name # s.req[r].cookie /\ r \in s.found => s.why[r] # {}
           /\ s.st[r].state = "ERROR" => s.why[r] # {}
           /\ s.st[r].name # "NULL" => r \in s.found
<1>t. s \in AuStates(DOMAIN s.conns) /\ r \in Requests
  BY DEF Called, AuInv, AuTypes
<1>1. Kept(r, s.st[r], s.req[r], s.found, s.why[r])
  BY DEF Called, AuInv, Requested
<1>2. NoState.conn = 0 /\ NoState.state = "INIT"
  BY DEF NoState, kore_pgsql_init
<1>3. s.st[r].exists \/ s.st[r] = NoState
  BY <1>1 DEF Kept
<1>4. \A i \in DOMAIN s.wait : s.wait[i] = r => s.st[r].exists /\ s.st[r].state = "INIT"
  BY DEF Called, AuInv, Queued
<1>5. r \in s.found /\ s.req[r].phase = "asking" /\ s.why[r] = {} =>
        \/ s.st[r].name = s.req[r].cookie
        \/ s.st[r].conn # 0 /\ s.conns[s.st[r].conn].results = <<s.req[r].cookie>>
  BY AuKnown, Zenon DEF Called
<1>6. s.st[r].state \in {"COMPLETE", "ERROR"} => s.st[r].exists
  BY <1>2, <1>3
<1>7. s.st[r].state = "COMPLETE" => s.st[r].conn = 0
  BY <1>1 DEF Kept
<1>8. s.req[r].phase = "asking" <=> s.st[r].exists
  BY <1>1 DEF Kept, Called
<1>9. s.st[r].state = "COMPLETE" /\ s.st[r].name # s.req[r].cookie /\ r \in s.found => s.why[r] # {}
  BY <1>5, <1>6, <1>7, <1>8
<1>10. ~s.st[r].exists => s.req[r].phase = "new" /\ r \notin s.found /\ s.st[r].conn = 0
  BY <1>1, <1>2, <1>3, <1>8 DEF Kept, Called
<1>11. /\ s.req[r].cookie = "NULL" => ~s.st[r].exists
       /\ s.st[r].state = "ERROR" => s.why[r] # {}
       /\ s.st[r].name # "NULL" => r \in s.found
  BY <1>1 DEF Kept
<1>12. s.st[r].state \in {"COMPLETE", "ERROR"} => \A i \in DOMAIN s.wait : s.wait[i] # r
  BY <1>4
<1>13. ~s.st[r].exists => \A i \in DOMAIN s.wait : s.wait[i] # r
  BY <1>4
<1> QED BY <1>t, <1>6, <1>7, <1>8, <1>9, <1>10, <1>11, <1>12, <1>13

\* The page or the dashboard for a request without a query, or with the right answer.
LEMMA AuServe ==
    ASSUME AuAssumption, NEW s, NEW r, Called(s, r), NEW k \in {"known", "dashboard"},
           NEW u \in {"unknown", "dashboard"},
           \/ ~s.st[r].exists /\ u = "unknown"
           \/ s.st[r].state = "COMPLETE" /\ s.st[r].name = s.req[r].cookie
    PROVE  AuInv(Serve(s, r, k, u))
<1>1. /\ s.req[r].cookie = "NULL" => ~s.st[r].exists
      /\ ~s.st[r].exists => s.req[r].phase = "new" /\ r \notin s.found /\ s.st[r].conn = 0
      /\ s.st[r].exists => s.req[r].phase = "asking"
      /\ s.st[r].state \in {"COMPLETE", "ERROR"} => s.st[r].exists /\ \A i \in DOMAIN s.wait : s.wait[i] # r
      /\ ~s.st[r].exists => \A i \in DOMAIN s.wait : s.wait[i] # r
      /\ s.st[r].state = "COMPLETE" => s.st[r].conn = 0
      /\ s.st[r].name # "NULL" => r \in s.found
  BY AuCalled
<1>2. CASE ~s.req[r].get
  <2>1. Ends(s, r, s.st[r], "405") /\ Rightly(s, r, "405")
    BY <1>1 DEF Ends, Rightly, Called
  <2>2. AuInv(Finish(s, r, "405"))
    BY <2>1, AuPlain
  <2> QED BY <1>2, <2>2 DEF Serve
<1>3. CASE s.req[r].get /\ s.st[r].exists
  <2>1. Forgets(s, r) /\ s.st[r].name # "NULL" /\ Rightly(s, r, k)
    BY <1>1, <1>3 DEF Forgets, Rightly, Called
  <2>2. AuInv(Finish(Forget(s, r), r, k))
    BY <2>1, AuForgets
  <2> QED BY <1>3, <2>1, <2>2 DEF Serve
<1>4. CASE s.req[r].get /\ ~s.st[r].exists
  <2>1. Ends(s, r, s.st[r], u) /\ Rightly(s, r, u)
    BY <1>1, <1>4 DEF Ends, Rightly, Called
  <2>2. AuInv(Finish(s, r, u))
    BY <2>1, AuPlain
  <2> QED BY <1>4, <2>2 DEF Serve
<1> QED BY <1>2, <1>3, <1>4

\* The page after its query was forgotten.
LEMMA AuForgotten ==
    ASSUME AuAssumption, NEW s, NEW r, Forgets(s, r), r \in s.found => s.why[r] # {}
    PROVE  AuInv(page(Forget(s, r), r))
<1> DEFINE f == Forget(s, r)
<1>1. Rightly(s, r, "405") /\ Rightly(s, r, "unknown")
  BY DEF Rightly
<1>2. /\ AuInv(Finish(f, r, "405")) /\ AuInv(Finish(f, r, "unknown"))
      /\ f.req = s.req /\ f.st[r] = NoState
  BY <1>1, AuForgets
<1>3. ~NoState.exists
  BY DEF NoState, kore_pgsql_init
<1> HIDE DEF f
<1>4. page(f, r) = Finish(f, r, "405") \/ page(f, r) = Finish(f, r, "unknown")
  BY <1>2, <1>3 DEF page, Serve
<1>5. AuInv(page(f, r))
  BY <1>2, <1>4
<1> QED BY <1>5 DEF f

\* A request is put to sleep, or nothing happens to it.
LEMMA AuAsleep ==
    ASSUME AuAssumption, NEW s, NEW r, Called(s, r), s.st[r].exists, s.req[r].kind = "page"
    PROVE  AuInv([s EXCEPT !.req[r].asleep = TRUE])
<1> DEFINE q == [s.req[r] EXCEPT !.asleep = TRUE]
           h == s.st[r]
           w == s.why[r]
           b == [s.req EXCEPT ![r] = q]
<1>t. s \in AuStates(DOMAIN s.conns) /\ r \in Requests /\ AuInv(s)
  BY DEF Called, AuInv, AuTypes
<1>1. h \in Handles /\ s.req[r] \in Asks /\ w \in SUBSET Causes
  BY <1>t DEF AuStates
<1>2. /\ q \in Asks /\ q.phase = s.req[r].phase /\ q.out = s.req[r].out /\ q.cookie = s.req[r].cookie
      /\ q.kind = "page"
  BY <1>1 DEF Asks
<1>3. Kept(r, h, s.req[r], s.found, w)
  BY <1>t DEF AuInv, Requested
<1>a. [s EXCEPT !.req[r].asleep = TRUE] = Change(s, r, h, q, w)
  <2>1. [s.req EXCEPT ![r].asleep = TRUE] = b /\ [s.why EXCEPT ![r] = w] = s.why /\ [s.st EXCEPT ![r] = h] = s.st
    BY <1>t DEF AuStates
  <2>2. Change(s, r, h, q, w) = [s EXCEPT !.st = s.st, !.req = b, !.why = s.why]
    BY <2>1 DEF Change
  <2> HIDE DEF b
  <2>3. [s EXCEPT !.req[r].asleep = TRUE] = [s EXCEPT !.req = b]
    BY <2>1
  <2>4. [s EXCEPT !.req = b] = [s EXCEPT !.st = s.st, !.req = b, !.why = s.why]
    BY <1>t DEF AuStates
  <2> QED BY <2>2, <2>3, <2>4
<1> HIDE DEF q
<1>4. Kept(r, h, q, s.found, w)
  <2>1. s.req[r].phase # "new"
    BY <1>3 DEF Kept
  <2> HIDE DEF h, w
  <2> QED BY <1>2, <1>3, <2>1 DEF Kept, h
<1>5. r \in s.found /\ q.phase = "asking" /\ w = {} =>
        h.name = q.cookie \/ (h.conn # 0 /\ s.conns[h.conn].results = <<q.cookie>>)
  <2>1. r \in s.found /\ s.req[r].phase = "asking" /\ s.why[r] = {} =>
          \/ s.st[r].name = s.req[r].cookie
          \/ s.st[r].conn # 0 /\ s.conns[s.st[r].conn].results = <<s.req[r].cookie>>
    BY <1>t, AuKnown, Zenon
  <2> QED BY <1>2, <2>1
<1>6. (\E i \in DOMAIN s.wait : s.wait[i] = r) => h.exists /\ h.state = "INIT" /\ q.phase \in {"asking", "gone"}
  BY <1>2 DEF Called, AuInv, Queued
<1>7. Changes(s, r, h, q, w)
  BY <1>t, <1>1, <1>2, <1>4, <1>5, <1>6 DEF Changes, Called
<1>8. AuInv(Change(s, r, h, q, w))
  BY <1>7, AuChange
<1> QED BY <1>a, <1>8

\* The validator of the dashboard.
LEMMA AuSession ==
    ASSUME AuAssumption, NEW s, NEW r, Called(s, r)
    PROVE  AuInv(auth_session(s, r))
<1>1. /\ s.req[r].cookie = "NULL" => ~s.st[r].exists
      /\ ~s.st[r].exists => s.req[r].phase = "new" /\ r \notin s.found /\ s.st[r].conn = 0
      /\ s.st[r].exists => s.req[r].phase = "asking"
      /\ ~s.st[r].exists => \A i \in DOMAIN s.wait : s.wait[i] # r
      /\ s.st[r].state = "COMPLETE" /\ s.st[r].name # s.req[r].cookie /\ r \in s.found => s.why[r] # {}
      /\ s.st[r].state = "ERROR" => s.why[r] # {}
  BY AuCalled
<1>2. CASE s.req[r].cookie = "NULL"
  <2>1. Ends(s, r, s.st[r], "login") /\ Rightly(s, r, "login")
    BY <1>1, <1>2 DEF Ends, Rightly, Called
  <2>2. AuInv(Finish(s, r, "login"))
    BY <2>1, AuPlain
  <2>3. auth_session(s, r) = Finish(s, r, "login")
    BY <1>1, <1>2 DEF auth_session
  <2> QED BY <2>2, <2>3
<1>3. CASE s.req[r].cookie # "NULL" /\ ~s.st[r].exists
  <2>1. Starts(s, r)
    BY <1>1, <1>3 DEF Starts, Called
  <2>2. auth_session(s, r) = StartQuery(s, r)
    BY <1>3 DEF auth_session
  <2> QED BY <2>1, <2>2, AuStart
<1>4. CASE s.req[r].cookie # "NULL" /\ s.st[r].exists /\ s.st[r].state = "COMPLETE" /\ s.st[r].name = s.req[r].cookie
  <2>1. AuInv(Serve(s, r, "dashboard", "dashboard"))
    BY <1>4, AuServe
  <2>2. auth_session(s, r) = dashboard(s, r)
    BY <1>4 DEF auth_session
  <2> QED BY <2>1, <2>2 DEF dashboard
<1>5. CASE s.req[r].cookie # "NULL" /\ s.st[r].exists
           /\ (s.st[r].state = "ERROR" \/ (s.st[r].state = "COMPLETE" /\ s.st[r].name # s.req[r].cookie))
  <2>1. Forgets(s, r) /\ Rightly(s, r, "login")
    BY <1>1, <1>5 DEF Forgets, Rightly, Called
  <2>2. AuInv(Finish(Forget(s, r), r, "login"))
    BY <2>1, AuForgets
  <2>3. auth_session(s, r) = Finish(Forget(s, r), r, "login")
    BY <1>5 DEF auth_session
  <2> QED BY <2>2, <2>3
<1>6. CASE s.req[r].cookie # "NULL" /\ s.st[r].exists /\ s.st[r].state \notin {"COMPLETE", "ERROR"}
  <2>1. auth_session(s, r) = s
    BY <1>6 DEF auth_session
  <2> QED BY <2>1 DEF Called
<1> QED BY <1>2, <1>3, <1>4, <1>5, <1>6

\* The validator of the page.
LEMMA AuSessionUser ==
    ASSUME AuAssumption, NEW s, NEW r, Called(s, r), s.req[r].kind = "page"
    PROVE  AuInv(auth_session_user(s, r))
<1>1. /\ s.req[r].cookie = "NULL" => ~s.st[r].exists
      /\ ~s.st[r].exists => s.req[r].phase = "new" /\ r \notin s.found /\ s.st[r].conn = 0
      /\ s.st[r].exists => s.req[r].phase = "asking"
      /\ ~s.st[r].exists => \A i \in DOMAIN s.wait : s.wait[i] # r
      /\ s.st[r].state = "COMPLETE" /\ s.st[r].name # s.req[r].cookie /\ r \in s.found => s.why[r] # {}
      /\ s.st[r].state = "ERROR" => s.why[r] # {}
  BY AuCalled
<1>2. CASE s.req[r].cookie = "NULL"
  <2>1. AuInv(Serve(s, r, "known", "unknown"))
    BY <1>1, <1>2, AuServe
  <2>3. auth_session_user(s, r) = page(s, r)
    BY <1>1, <1>2 DEF auth_session_user
  <2> QED BY <2>1, <2>3 DEF page
<1>3. CASE s.req[r].cookie # "NULL" /\ ~s.st[r].exists
  <2>1. Starts(s, r)
    BY <1>1, <1>3 DEF Starts, Called
  <2>2. auth_session_user(s, r) = StartQuery(s, r)
    BY <1>3 DEF auth_session_user
  <2> QED BY <2>1, <2>2, AuStart
<1>4. CASE s.req[r].cookie # "NULL" /\ s.st[r].exists /\ s.st[r].state = "COMPLETE" /\ s.st[r].name = s.req[r].cookie
  <2>1. AuInv(Serve(s, r, "known", "unknown"))
    BY <1>4, AuServe
  <2>2. auth_session_user(s, r) = page(s, r)
    BY <1>4 DEF auth_session_user
  <2> QED BY <2>1, <2>2 DEF page
<1>5. CASE s.req[r].cookie # "NULL" /\ s.st[r].exists
           /\ (s.st[r].state = "ERROR" \/ (s.st[r].state = "COMPLETE" /\ s.st[r].name # s.req[r].cookie))
  <2>1. Forgets(s, r) /\ (r \in s.found => s.why[r] # {})
    BY <1>1, <1>5 DEF Forgets, Called
  <2>2. AuInv(page(Forget(s, r), r))
    BY <2>1, AuForgotten
  <2>3. auth_session_user(s, r) = page(Forget(s, r), r)
    BY <1>5 DEF auth_session_user
  <2> QED BY <2>2, <2>3
<1>6. CASE s.req[r].cookie # "NULL" /\ s.st[r].exists /\ s.st[r].state \notin {"COMPLETE", "ERROR"}
  <2>1. auth_session_user(s, r) = [s EXCEPT !.req[r].asleep = TRUE]
    BY <1>6 DEF auth_session_user
  <2> QED BY <1>6, <2>1, AuAsleep
<1> QED BY <1>2, <1>3, <1>4, <1>5, <1>6

----------------------------------------------------------------------------
\* The steps of the worker, its visitor and its server.

\* Only the cookie jar, the table, what may still happen or whether the server takes
\* connections changes.
Outside(s, m) ==
    /\ m \in AuStates(DOMAIN s.conns) /\ m.conns = s.conns /\ m.free = s.free /\ m.wait = s.wait
    /\ m.qcount = s.qcount /\ m.count = s.count /\ m.lost = s.lost /\ m.st = s.st /\ m.req = s.req
    /\ m.why = s.why /\ m.found = s.found /\ m.fault = s.fault

\* The invariant is not about these.
LEMMA AuOutside ==
    ASSUME AuAssumption, NEW s, AuInv(s), NEW m, Outside(s, m)
    PROVE  AuInv(m)
<1>1. AuTypes(m)
  BY DEF AuInv, AuTypes, Outside
<1>2. Requested(m) /\ Pooled(m)
  BY DEF AuInv, Requested, Pooled, Outside
<1>3. Queued(m) /\ Counted(m) /\ Faults(m)
  BY DEF AuInv, Queued, Counted, Faults, Outside
<1>4. Answers(m)
  BY ZenonT(60) DEF AuInv, Answers, Outside
<1> QED BY <1>1, <1>2, <1>3, <1>4 DEF AuInv

\* Such changes.
LEMMA AuFields ==
    ASSUME AuAssumption, NEW s, AuInv(s), NEW l \in [failure : Int, change : Int, leave : Int], NEW x \in BOOLEAN,
           NEW j \in Cookies, NEW a \in SUBSET {"old", "user_sess"}
    PROVE  /\ AuInv([s EXCEPT !.connects = x]) /\ AuInv([s EXCEPT !.left = l])
           /\ AuInv([s EXCEPT !.connects = x, !.left = l]) /\ AuInv([s EXCEPT !.jar = j])
           /\ AuInv([s EXCEPT !.alts = a, !.left = l])
<1>t. s \in AuStates(DOMAIN s.conns)
  BY DEF AuInv, AuTypes
<1> DEFINE m1 == [s EXCEPT !.connects = x]
           m2 == [s EXCEPT !.left = l]
           m3 == [s EXCEPT !.connects = x, !.left = l]
           m4 == [s EXCEPT !.jar = j]
           m5 == [s EXCEPT !.alts = a, !.left = l]
<1>1. Outside(s, m1)
  BY <1>t DEF Outside, AuStates
<1>2. Outside(s, m2)
  BY <1>t DEF Outside, AuStates
<1>3. Outside(s, m3)
  BY <1>t DEF Outside, AuStates
<1>4. Outside(s, m4)
  BY <1>t DEF Outside, AuStates
<1>5. Outside(s, m5)
  BY <1>t DEF Outside, AuStates
<1> QED BY <1>1, <1>2, <1>3, <1>4, <1>5, AuOutside

\* The end of every step.
LEMMA AuDoes ==
    ASSUME AuAssumption, NEW s, AuInv(s), Does(s)
    PROVE  AuInv(au)'
<1>1. [failure |-> 0, change |-> 0, leave |-> 0] \in [failure : Int, change : Int, leave : Int]
      /\ "NULL" \in Cookies
  BY DEF Cookies
<1>2. AuInv([s EXCEPT !.connects = TRUE])
  BY <1>1, AuFields
<1>3. AuInv(au')
  BY <1>2 DEF Does
<1> QED BY <1>3

\* What is left of the budgets.
LEMMA AuLeft ==
    ASSUME NEW s, AuInv(s)
    PROVE  /\ s.left \in [failure : Int, change : Int, leave : Int] /\ s.jar \in Cookies
           /\ [s.left EXCEPT !.failure = s.left.failure - 1] \in [failure : Int, change : Int, leave : Int]
           /\ [s.left EXCEPT !.change = s.left.change - 1] \in [failure : Int, change : Int, leave : Int]
           /\ [s.left EXCEPT !.leave = s.left.leave - 1] \in [failure : Int, change : Int, leave : Int]
<1>1. s.left \in [failure : Int, change : Int, leave : Int] /\ s.jar \in Cookies
  BY DEF AuInv, AuTypes, AuStates
<1> QED BY <1>1

\* A request arrives.
LEMMA AuArrive ==
    ASSUME AuAssumption, AuInv(au), NEW r \in Requests, NEW kind \in {"page", "dashboard"}, NEW get \in BOOLEAN,
           Arrive(r, kind, get)
    PROVE  AuInv(au)'
<1> DEFINE s == au
           q == [s.req[r] EXCEPT !.kind = kind, !.get = get, !.cookie = s.jar]
           h == s.st[r]
           w == s.why[r]
           b == [s.req EXCEPT ![r] = q]
           m == Change(s, r, h, q, w)
<1>t. s \in AuStates(DOMAIN s.conns)
  BY DEF AuInv, AuTypes
<1>0. s.req[r].phase = "new"
  BY DEF Arrive
<1>1. h \in Handles /\ s.req[r] \in Asks /\ w \in SUBSET Causes /\ s.jar \in Cookies
  BY <1>t DEF AuStates
<1>2. /\ q \in Asks /\ q.phase = "new" /\ q.out = s.req[r].out /\ q.asleep = s.req[r].asleep
  BY <1>0, <1>1 DEF Asks
<1>3. Kept(r, h, s.req[r], s.found, w)
  BY DEF AuInv, Requested
<1>n. NoState.conn = 0 /\ NoState.name = "NULL" /\ NoState.state = "INIT" /\ ~NoState.exists
  BY DEF NoState, kore_pgsql_init
<1>4. h = NoState /\ r \notin s.found /\ ~s.req[r].asleep /\ s.req[r].out = ""
  BY <1>0, <1>3 DEF Kept
<1>a. [[[s EXCEPT !.req[r].kind = kind] EXCEPT !.req[r].get = get] EXCEPT !.req[r].cookie = s.jar] = m
  <2>1. [[[s.req EXCEPT ![r].kind = kind] EXCEPT ![r].get = get] EXCEPT ![r].cookie = s.jar] = b
        /\ [s.why EXCEPT ![r] = w] = s.why /\ [s.st EXCEPT ![r] = h] = s.st
    BY <1>t DEF AuStates, Asks
  <2>2. m = [s EXCEPT !.st = s.st, !.req = b, !.why = s.why]
    BY <2>1 DEF Change
  <2> HIDE DEF b
  <2>3. [[[s EXCEPT !.req[r].kind = kind] EXCEPT !.req[r].get = get] EXCEPT !.req[r].cookie = s.jar] = [s EXCEPT !.req = b]
    BY <1>t, <2>1 DEF AuStates
  <2>4. [s EXCEPT !.req = b] = [s EXCEPT !.st = s.st, !.req = b, !.why = s.why]
    BY <1>t DEF AuStates
  <2> QED BY <2>2, <2>3, <2>4
<1>b. Does([[[s EXCEPT !.req[r].kind = kind] EXCEPT !.req[r].get = get] EXCEPT !.req[r].cookie = s.jar])
  BY DEF Arrive
<1> HIDE DEF q
<1>5. Kept(r, h, q, s.found, w)
  <2>1. h.conn = 0 /\ h.name = "NULL" /\ h.state = "INIT" /\ ~h.exists
    BY <1>4, <1>n
  <2> QED BY <1>2, <1>4, <2>1 DEF Kept
<1>6. \A i \in DOMAIN s.wait : s.wait[i] # r
  BY <1>0 DEF AuInv, Queued
<1>7. Changes(s, r, h, q, w)
  <2>1. h.conn = 0
    BY <1>4, <1>n
  <2> QED BY <1>0, <1>1, <1>2, <1>4, <1>5, <1>6, <2>1 DEF Changes
<1>8. AuInv(m)
  BY <1>7, AuChange
<1> HIDE DEF m
<1>9. Does(m)
  BY <1>a, <1>b
<1> QED BY <1>8, <1>9, AuDoes

\* The visitor leaves.
LEMMA AuLeave ==
    ASSUME AuAssumption, AuInv(au), NEW r \in Requests, Leave(r)
    PROVE  AuInv(au)'
<1> DEFINE s == au
           q == [s.req[r] EXCEPT !.phase = "gone"]
           h == s.st[r]
           w == s.why[r]
           b == [s.req EXCEPT ![r] = q]
           m == Change(s, r, h, q, w)
           l == [s.left EXCEPT !.leave = s.left.leave - 1]
           z == [m EXCEPT !.left = l]
<1>t. s \in AuStates(DOMAIN s.conns)
  BY DEF AuInv, AuTypes
<1>0. s.req[r].phase = "asking"
  BY DEF Leave
<1>1. h \in Handles /\ s.req[r] \in Asks /\ w \in SUBSET Causes
  BY <1>t DEF AuStates
<1>2. /\ q \in Asks /\ q.phase = "gone" /\ q.out = s.req[r].out /\ q.asleep = s.req[r].asleep
      /\ q.cookie = s.req[r].cookie /\ q.kind = s.req[r].kind
  BY <1>0, <1>1 DEF Asks
<1>3. Kept(r, h, s.req[r], s.found, w)
  BY DEF AuInv, Requested
<1>l. l \in [failure : Int, change : Int, leave : Int]
  BY AuLeft
<1>a. [[s EXCEPT !.req[r].phase = "gone"] EXCEPT !.left.leave = s.left.leave - 1] = z
  <2>1. [s.req EXCEPT ![r].phase = "gone"] = b
        /\ [s.why EXCEPT ![r] = w] = s.why /\ [s.st EXCEPT ![r] = h] = s.st
    BY <1>t DEF AuStates
  <2>2. m = [s EXCEPT !.st = s.st, !.req = b, !.why = s.why]
    BY <2>1 DEF Change
  <2> HIDE DEF b, m, l
  <2>3. [[s EXCEPT !.req[r].phase = "gone"] EXCEPT !.left.leave = s.left.leave - 1] = [s EXCEPT !.req = b, !.left = l]
    BY <1>t, <2>1 DEF AuStates, l
  <2>4. [s EXCEPT !.req = b, !.left = l] = z
    BY <1>t, <2>2 DEF AuStates
  <2> QED BY <2>3, <2>4
<1>b. Does([[s EXCEPT !.req[r].phase = "gone"] EXCEPT !.left.leave = s.left.leave - 1])
  <2>1. Does([s EXCEPT !.req[r].phase = "gone", !.left.leave = s.left.leave - 1])
    BY DEF Leave
  <2>2. [s EXCEPT !.req[r].phase = "gone"].left = s.left
    BY <1>t DEF AuStates
  <2> QED BY <2>1, <2>2
<1> HIDE DEF q, l
<1>5. Kept(r, h, q, s.found, w)
  BY <1>0, <1>2, <1>3 DEF Kept
<1>6. \A i \in DOMAIN s.wait : s.wait[i] = r => h.exists /\ h.state = "INIT"
  BY DEF AuInv, Queued
<1>7. Changes(s, r, h, q, w)
  BY <1>0, <1>1, <1>2, <1>5, <1>6 DEF Changes
<1>8. AuInv(m)
  BY <1>7, AuChange
<1> HIDE DEF m
<1>9. AuInv(z)
  <2>1. "NULL" \in Cookies /\ {} \in SUBSET {"old", "user_sess"} /\ TRUE \in BOOLEAN
    BY DEF Cookies
  <2> QED BY <1>8, <1>l, <2>1, AuFields
<1> HIDE DEF z
<1>10. Does(z)
  BY <1>a, <1>b
<1> QED BY <1>9, <1>10, AuDoes

\* The other end of a connection: its state after a change of one connection, which may
\* have found a cookie and used up a failure.
Wired(s, c, x, f, l) == [s EXCEPT !.conns = [s.conns EXCEPT ![c] = x], !.found = f, !.left = l]
Wires(s, c, x, f, l) ==
    /\ AuInv(s) /\ c \in DOMAIN s.conns /\ x \in Conns /\ x.job = s.conns[c].job /\ x.read = s.conns[c].read
    /\ f \subseteq Requests /\ l \in [failure : Int, change : Int, leave : Int]
    /\ \/ x.sent = s.conns[c].sent /\ x.results = s.conns[c].results /\ f = s.found
       \/ s.conns[c].sent /\ ~x.sent /\ f = s.found /\ x.results \in {<<"NULL">>, <<"FATAL">>}
       \/ s.conns[c].sent /\ ~x.sent /\ f = s.found \cup {x.job} /\ x.results = <<s.req[x.job].cookie>>

\* It keeps the invariant.
LEMMA AuWired ==
    ASSUME AuAssumption, NEW s, NEW c, NEW x, NEW f, NEW l, Wires(s, c, x, f, l)
    PROVE  AuInv(Wired(s, c, x, f, l))
<1> DEFINE k == [s.conns EXCEPT ![c] = x]
           m == Wired(s, c, x, f, l)
<1>t. s \in AuStates(DOMAIN s.conns) /\ DOMAIN s.conns \in SUBSET (Nat \ {0})
  BY DEF Wires, AuInv, AuTypes
<1>1. k \in [DOMAIN s.conns -> Conns] /\ DOMAIN k = DOMAIN s.conns
  BY <1>t DEF Wires, AuStates
<1>2. m = [s EXCEPT !.conns = k, !.found = f, !.left = l]
  BY DEF Wired
<1> HIDE DEF k, m
<1>3. m \in AuStates(DOMAIN s.conns)
  BY <1>t, <1>1, <1>2 DEF Wires, AuStates
<1>4. /\ m.st = s.st /\ m.req = s.req /\ m.why = s.why /\ m.conns = k /\ m.free = s.free /\ m.wait = s.wait
      /\ m.qcount = s.qcount /\ m.count = s.count /\ m.lost = s.lost /\ m.found = f /\ m.fault = s.fault
  BY <1>t, <1>2 DEF AuStates
<1>5. AuTypes(m)
  BY <1>t, <1>1, <1>3, <1>4 DEF AuTypes
<1>6. Wire(s, m, c, x)
  BY <1>4, <1>5 DEF Wire, Wires, k
<1>7. AuInv(m)
  BY <1>6, AuWire
<1> QED BY <1>7 DEF m

\* A connection breaks.
LEMMA AuBreak ==
    ASSUME AuAssumption, AuInv(au), NEW c \in DOMAIN au.conns, Break(c)
    PROVE  AuInv(au)'
<1> DEFINE x == [au.conns[c] EXCEPT !.broken = TRUE]
           l == [au.left EXCEPT !.failure = au.left.failure - 1]
           k == [au.conns EXCEPT ![c] = x]
           m == Wired(au, c, x, au.found, l)
<1>t. au \in AuStates(DOMAIN au.conns)
  BY DEF AuInv, AuTypes
<1>1. au.conns[c] \in Conns /\ au.found \subseteq Requests
  BY <1>t DEF AuStates
<1>2. x \in Conns /\ x.job = au.conns[c].job /\ x.read = au.conns[c].read /\ x.sent = au.conns[c].sent
      /\ x.results = au.conns[c].results
  BY <1>1 DEF Conns
<1>3. l \in [failure : Int, change : Int, leave : Int]
  BY AuLeft
<1>a. [au EXCEPT !.left.failure = au.left.failure - 1, !.conns[c].broken = TRUE] = m
  <2>1. [au.conns EXCEPT ![c].broken = TRUE] = k
    BY <1>t DEF AuStates
  <2>2. m = [au EXCEPT !.conns = k, !.found = au.found, !.left = l]
    BY DEF Wired
  <2> HIDE DEF k, l, m
  <2>3. [au EXCEPT !.left.failure = au.left.failure - 1, !.conns[c].broken = TRUE] = [au EXCEPT !.left = l, !.conns = k]
    BY <1>t, <2>1 DEF AuStates, l
  <2> QED BY <1>t, <2>2, <2>3 DEF AuStates
<1>b. Does([au EXCEPT !.left.failure = au.left.failure - 1, !.conns[c].broken = TRUE])
  <2>1. [au EXCEPT !.left.failure = au.left.failure - 1].conns = au.conns
    BY <1>t DEF AuStates
  <2> QED BY <2>1 DEF Break
<1> HIDE DEF x, l
<1>4. Wires(au, c, x, au.found, l)
  BY <1>1, <1>2, <1>3 DEF Wires
<1>5. AuInv(m)
  BY <1>4, AuWired
<1> HIDE DEF m
<1>6. Does(m)
  BY <1>a, <1>b
<1> QED BY <1>5, <1>6, AuDoes

\* The server answers a query.
LEMMA AuAnswer ==
    ASSUME AuAssumption, AuInv(au), NEW c \in DOMAIN au.conns, Answer(c)
    PROVE  AuInv(au)'
<1> DEFINE r == au.conns[c].job
           row == IF au.req[r].cookie \in au.alts THEN au.req[r].cookie ELSE "NULL"
           hits == IF au.req[r].cookie \in au.alts THEN {r} ELSE {}
           x(v) == [au.conns[c] EXCEPT !.sent = FALSE, !.results = <<v>>]
           k(v) == [au.conns EXCEPT ![c] = x(v)]
           m1 == Wired(au, c, x(row), au.found \cup hits, au.left)
           m2 == Wired(au, c, x("FATAL"), au.found, au.left)
           z(v) == [[au EXCEPT !.conns[c].sent = FALSE] EXCEPT !.conns[c].results = <<v>>]
<1>t. au \in AuStates(DOMAIN au.conns)
  BY DEF AuInv, AuTypes
<1>s. au.conns[c].sent
  BY DEF Answer
<1>r. r \in Requests /\ au.req[r].cookie # "NULL"
  BY <1>s, AuJob
<1>1. au.conns[c] \in Conns /\ au.found \subseteq Requests /\ au.req[r].cookie \in Cookies
      /\ au.left \in [failure : Int, change : Int, leave : Int]
  BY <1>t, <1>r DEF AuStates, Asks
<1>2. ASSUME NEW v \in Cookies \cup {"FATAL"}
      PROVE  x(v) \in Conns /\ x(v).job = r /\ x(v).read = au.conns[c].read /\ ~x(v).sent /\ x(v).results = <<v>>
  BY <1>1 DEF Conns
<1>3. row \in Cookies
  BY <1>1 DEF Cookies
<1>a. ASSUME NEW v \in Cookies \cup {"FATAL"}
      PROVE  z(v) = [au EXCEPT !.conns = k(v)] /\ z(v).found = au.found
  <2>1. [[au.conns EXCEPT ![c].sent = FALSE] EXCEPT ![c].results = <<v>>] = k(v)
    BY <1>t, <1>1 DEF AuStates, Conns
  <2> HIDE DEF k
  <2>2. z(v) = [au EXCEPT !.conns = k(v)]
    BY <1>t, <2>1 DEF AuStates
  <2> QED BY <1>t, <2>2 DEF AuStates
<1>b. Does([z(row) EXCEPT !.found = au.found \cup hits]) \/ Does(z("FATAL"))
  <2>1. z(row).found = au.found
    <3> HIDE DEF z, k, row
    <3> QED BY <1>a, <1>3
  <2>2. Does([z(row) EXCEPT !.found = @ \cup hits]) \/ Does(z("FATAL"))
    BY DEF Answer
  <2> QED BY <2>1, <2>2
<1>c. ASSUME NEW v \in Cookies \cup {"FATAL"}, NEW f
      PROVE  [z(v) EXCEPT !.found = f] = Wired(au, c, x(v), f, au.left)
  <2>1. Wired(au, c, x(v), f, au.left) = [au EXCEPT !.conns = k(v), !.found = f, !.left = au.left]
    BY DEF Wired
  <2>2. z(v) = [au EXCEPT !.conns = k(v)]
    BY <1>a
  <2> HIDE DEF k, z
  <2> QED BY <1>t, <2>1, <2>2 DEF AuStates
<1> HIDE DEF x, r, k, z, row, hits
<1>4. CASE Does([z(row) EXCEPT !.found = au.found \cup hits])
  <2>1. \/ au.found \cup hits = au.found \cup {r} /\ row = au.req[r].cookie
        \/ au.found \cup hits = au.found /\ row = "NULL"
    BY DEF hits, row
  <2>2. Wires(au, c, x(row), au.found \cup hits, au.left)
    <3>1. x(row) \in Conns /\ x(row).job = r /\ x(row).read = au.conns[c].read /\ ~x(row).sent /\ x(row).results = <<row>>
      BY <1>2, <1>3
    <3>2. au.conns[c].job = r
      BY DEF r
    <3>3. au.found \cup hits \subseteq Requests
      BY <1>1, <1>r, <2>1
    <3> DEFINE f == au.found \cup hits
               y == x(row)
    <3> HIDE DEF f, y
    <3>4. /\ y \in Conns /\ y.job = r /\ y.read = au.conns[c].read /\ ~y.sent /\ y.results = <<row>>
          /\ f \subseteq Requests
          /\ (f = au.found \cup {r} /\ row = au.req[r].cookie) \/ (f = au.found /\ row = "NULL")
      BY <2>1, <3>1, <3>3 DEF f, y
    <3>5. Wires(au, c, y, f, au.left)
      BY <1>1, <1>s, <3>2, <3>4 DEF Wires
    <3> QED BY <3>5 DEF f, y
  <2>3. AuInv(m1)
    BY <2>2, AuWired
  <2>4. [z(row) EXCEPT !.found = au.found \cup hits] = m1
    BY <1>3, <1>c
  <2> HIDE DEF m1
  <2> QED BY <1>4, <2>3, <2>4, AuDoes
<1>5. CASE Does(z("FATAL"))
  <2>1. x("FATAL") \in Conns /\ x("FATAL").job = r /\ x("FATAL").read = au.conns[c].read /\ ~x("FATAL").sent
        /\ x("FATAL").results = <<"FATAL">>
    BY <1>2
  <2>2. Wires(au, c, x("FATAL"), au.found, au.left)
    BY <1>1, <1>s, <2>1 DEF Wires, r
  <2>3. AuInv(m2)
    BY <2>2, AuWired
  <2>4. [z("FATAL") EXCEPT !.found = au.found] = m2
    BY <1>c
  <2>5. [z("FATAL") EXCEPT !.found = au.found] = z("FATAL")
    <3>1. z("FATAL") = [au EXCEPT !.conns = k("FATAL")]
      BY <1>a
    <3> HIDE DEF m2
    <3> QED BY <1>t, <3>1 DEF AuStates
  <2> HIDE DEF m2
  <2> QED BY <1>5, <2>3, <2>4, <2>5, AuDoes
<1> QED BY <1>b, <1>4, <1>5

\* The worker before a call that may find that the server takes no connections.
LEMMA AuTries ==
    ASSUME AuAssumption, AuInv(au), NEW s \in Tries
    PROVE  AuInv(s) /\ s.req = au.req
<1> DEFINE l == [au.left EXCEPT !.failure = au.left.failure - 1]
           m == [au EXCEPT !.connects = FALSE, !.left = l]
<1>t. au \in AuStates(DOMAIN au.conns)
  BY DEF AuInv, AuTypes
<1>1. l \in [failure : Int, change : Int, leave : Int] /\ au.jar \in Cookies
  BY AuLeft
<1>2. [[au EXCEPT !.connects = FALSE] EXCEPT !.left.failure = au.left.failure - 1] = m
  BY <1>t DEF AuStates
<1>3. s = au \/ s = m
  <2>1. [au EXCEPT !.connects = FALSE, !.left.failure = @ - 1]
          = [[au EXCEPT !.connects = FALSE] EXCEPT !.left.failure = au.left.failure - 1]
    BY <1>t DEF AuStates
  <2> QED BY <1>2, <2>1 DEF Tries
<1> HIDE DEF l
<1>4. AuInv(m)
  <2>1. {} \in SUBSET {"old", "user_sess"} /\ FALSE \in BOOLEAN
    OBVIOUS
  <2> QED BY <1>1, <2>1, AuFields
<1>5. m.req = au.req
  BY <1>t DEF AuStates
<1> HIDE DEF m
<1> QED BY <1>3, <1>4, <1>5

\* A request is given to its validator.
LEMMA AuProcess ==
    ASSUME AuAssumption, AuInv(au), NEW r \in Requests, http_process(r)
    PROVE  AuInv(au)'
<1>1. au.req[r].phase \in {"new", "asking"}
  BY DEF http_process
<1>2. PICK s \in Tries : \/ au.req[r].kind = "page" /\ Does(auth_session_user(s, r))
                         \/ au.req[r].kind = "dashboard" /\ Does(auth_session(s, r))
  BY Zenon DEF http_process
<1>3. Called(s, r) /\ s.req[r].kind = au.req[r].kind
  BY <1>1, AuTries DEF Called
<1>4. CASE au.req[r].kind = "page" /\ Does(auth_session_user(s, r))
  <2>1. AuInv(auth_session_user(s, r))
    BY <1>3, <1>4, AuSessionUser
  <2> QED BY <1>4, <2>1, AuDoes
<1>5. CASE au.req[r].kind = "dashboard" /\ Does(auth_session(s, r))
  <2>1. AuInv(auth_session(s, r))
    BY <1>3, AuSession
  <2> QED BY <1>5, <2>1, AuDoes
<1> QED BY <1>2, <1>4, <1>5

\* The socket of a connection is readable, or the connection has failed.
LEMMA AuEvent ==
    ASSUME AuAssumption, AuInv(au), NEW c \in DOMAIN au.conns, Readable(c) \/ Fails(c)
    PROVE  AuInv(au)'
<1>1. CASE Readable(c)
  <2>1. au.conns[c].read /\ Does(kore_pgsql_handle(au, c, FALSE))
    BY <1>1 DEF Readable
  <2>2. AuInv(kore_pgsql_handle(au, c, FALSE))
    BY <2>1, AuHandled
  <2> QED BY <2>1, <2>2, AuDoes
<1>2. CASE Fails(c)
  <2> DEFINE l == [au.left EXCEPT !.failure = au.left.failure - 1]
             m == [au EXCEPT !.left = l]
  <2>t. au \in AuStates(DOMAIN au.conns)
    BY DEF AuInv, AuTypes
  <2>1. au.conns[c].read /\ Does(kore_pgsql_handle([au EXCEPT !.left.failure = @ - 1], c, TRUE))
    BY <1>2 DEF Fails
  <2>2. [au EXCEPT !.left.failure = @ - 1] = m
    BY <2>t DEF AuStates
  <2>3. l \in [failure : Int, change : Int, leave : Int] /\ au.jar \in Cookies
    BY AuLeft
  <2> HIDE DEF l
  <2>4. AuInv(m)
    <3>1. {} \in SUBSET {"old", "user_sess"} /\ FALSE \in BOOLEAN
      OBVIOUS
    <3> QED BY <2>3, <3>1, AuFields
  <2>5. m.conns = au.conns
    BY <2>t DEF AuStates
  <2> HIDE DEF m
  <2>6. Does(kore_pgsql_handle(m, c, TRUE))
    BY <2>1, <2>2
  <2>7. AuInv(kore_pgsql_handle(m, c, TRUE))
    BY <2>1, <2>4, <2>5, AuFails
  <2> QED BY <2>6, <2>7, AuDoes
<1> QED BY <1>1, <1>2

\* A visitor logs in or out, or the table changes.
LEMMA AuVisit ==
    ASSUME AuAssumption, AuInv(au),
           \/ \E post \in BOOLEAN, user, pass \in {"globi", "guest"} : auth_login(post, user, pass)
           \/ auth_logout \/ Update
    PROVE  AuInv(au)'
<1>t. au \in AuStates(DOMAIN au.conns)
  BY DEF AuInv, AuTypes
<1>l. /\ au.left \in [failure : Int, change : Int, leave : Int]
      /\ [au.left EXCEPT !.change = au.left.change - 1] \in [failure : Int, change : Int, leave : Int]
  BY AuLeft
<1>a. "NULL" \in Cookies /\ "user_sess" \in Cookies /\ {} \in SUBSET {"old", "user_sess"}
      /\ {"old"} \in SUBSET {"old", "user_sess"} /\ TRUE \in BOOLEAN
  BY DEF Cookies
<1>1. CASE \E post \in BOOLEAN, user, pass \in {"globi", "guest"} : auth_login(post, user, pass)
  <2> DEFINE m == [au EXCEPT !.jar = "user_sess"]
  <2>1. Does(m) \/ Does(au)
    BY <1>1 DEF auth_login
  <2>2. AuInv(m)
    BY <1>l, <1>a, AuFields
  <2> HIDE DEF m
  <2> QED BY <2>1, <2>2, AuDoes
<1>2. CASE auth_logout
  <2> DEFINE m == [au EXCEPT !.jar = "NULL"]
  <2>1. Does(m)
    BY <1>2 DEF auth_logout
  <2>2. AuInv(m)
    BY <1>l, <1>a, AuFields
  <2> HIDE DEF m
  <2> QED BY <2>1, <2>2, AuDoes
<1>3. CASE Update
  <2> DEFINE l == [au.left EXCEPT !.change = au.left.change - 1]
             m(a) == [au EXCEPT !.alts = a, !.left = l]
  <2>1. PICK a \in {{}, {"old"}} : Does([au EXCEPT !.alts = a, !.left.change = @ - 1])
    BY <1>3 DEF Update
  <2>2. [au EXCEPT !.alts = a, !.left.change = @ - 1] = m(a)
    BY <1>t DEF AuStates
  <2>3. AuInv(m(a))
    <3> HIDE DEF l
    <3>1. a \in SUBSET {"old", "user_sess"} /\ l \in [failure : Int, change : Int, leave : Int]
      BY <1>l, <1>a DEF l
    <3> QED BY <1>a, <3>1, AuFields
  <2>4. Does(m(a))
    BY <2>1, <2>2
  <2> HIDE DEF m
  <2> QED BY <2>3, <2>4, AuDoes
<1> QED BY <1>1, <1>2, <1>3

----------------------------------------------------------------------------
\* The theorems.
AuSpec == Init /\ [][Next]_au

\* The invariant holds at the start.
LEMMA AuInit ==
    ASSUME AuAssumption, Init
    PROVE  AuAll
<1>1. PICK jar \in {"NULL", "old"}, b \in Budgets :
        au = [jar |-> jar, alts |-> {"user_sess"}, conns |-> << >>, free |-> << >>, wait |-> << >>, qcount |-> 0,
              count |-> [d \in Dbs |-> 0], st |-> [r \in Requests |-> NoState],
              req |-> [r \in Requests |-> [kind |-> "", get |-> TRUE, cookie |-> "NULL", phase |-> "new",
                                           asleep |-> FALSE, out |-> ""]],
              found |-> {}, lost |-> 0, why |-> [r \in Requests |-> {}], fault |-> "none",
              connects |-> TRUE, left |-> b]
  BY Zenon DEF Init
<1> DEFINE e == << >>
           q == [kind |-> "", get |-> TRUE, cookie |-> "NULL", phase |-> "new", asleep |-> FALSE, out |-> ""]
           n == [d \in Dbs |-> 0]
           st == [r \in Requests |-> NoState]
           rq == [r \in Requests |-> q]
           wy == [r \in Requests |-> {}]
<1>2. NoState \in Handles /\ NoState.conn = 0 /\ ~NoState.exists /\ NoState.name = "NULL"
      /\ NoState.state = "INIT"
  BY DEF NoState, kore_pgsql_init, Handles, Cookies
<1>3. q \in Asks /\ q.phase = "new" /\ ~q.asleep /\ q.out = ""
  BY DEF Asks, Cookies
<1>4. n \in [Dbs -> 0..(CountMod - 1)] /\ n["sess_auth"] = 0 /\ 0 <= ConnMax
  <2>1. 0 \in 0..(CountMod - 1) /\ ConnMax \in Nat
    BY DEF AuAssumption
  <2> QED BY <2>1 DEF Dbs, init, Range
<1>5. b \in [failure : Int, change : Int, leave : Int]
  BY DEF AuAssumption
<1>e. e \in Seq(Nat) /\ e \in Seq(Requests) /\ Len(e) = 0 /\ DOMAIN e = {} /\ e \in [{} -> Conns]
  OBVIOUS
<1> HIDE DEF q, e
<1>6. st \in [Requests -> Handles] /\ rq \in [Requests -> Asks] /\ wy \in [Requests -> SUBSET Causes]
      /\ \A r \in Requests : st[r] = NoState /\ rq[r] = q /\ wy[r] = {}
  BY <1>2, <1>3
<1> HIDE DEF st, rq, wy, n
<1>7. au = [jar |-> jar, alts |-> {"user_sess"}, conns |-> e, free |-> e, wait |-> e, qcount |-> 0,
            count |-> n, st |-> st, req |-> rq, found |-> {}, lost |-> 0, why |-> wy, fault |-> "none",
            connects |-> TRUE, left |-> b]
  BY <1>1 DEF e, n, st, rq, wy, q
<1>8. /\ au.conns = e /\ au.free = e /\ au.wait = e /\ au.qcount = 0 /\ au.count = n /\ au.st = st /\ au.req = rq
      /\ au.found = {} /\ au.lost = 0 /\ au.why = wy /\ au.fault = "none"
  BY <1>7
<1>9. au \in AuStates({})
  BY <1>4, <1>5, <1>e, <1>6, <1>7 DEF AuStates, Cookies
<1> HIDE <1>7, <1>1
<1>10. AuTypes(au)
  BY <1>e, <1>8, <1>9 DEF AuTypes
<1>11. Requested(au)
  <2>1. ASSUME NEW r \in Requests PROVE Kept(r, NoState, q, {}, {})
    BY <1>2, <1>3 DEF Kept
  <2> QED BY <1>6, <1>8, <2>1 DEF Requested
<1>12. Pooled(au)
  BY <1>2, <1>e, <1>6, <1>8 DEF Pooled
<1>13. Queued(au) /\ Answers(au) /\ Faults(au)
  BY <1>e, <1>8 DEF Queued, Answers, Faults
<1>14. Counted(au)
  <2>1. IsFiniteSet({}) /\ Cardinality({}) = 0
    BY FS_EmptySet
  <2> QED BY <1>4, <1>e, <1>8, <2>1 DEF Counted
<1> QED BY <1>10, <1>11, <1>12, <1>13, <1>14 DEF AuAll, AuInv

\* Every step keeps the invariant.
LEMMA AuStep ==
    ASSUME AuAssumption, AuAll, [Next]_au
    PROVE  AuAll'
<1>0. AuInv(au)
  BY DEF AuAll
<1>1. CASE Next
  <2>1. CASE \/ \E post \in BOOLEAN, user, pass \in {"globi", "guest"} : auth_login(post, user, pass)
             \/ auth_logout \/ Update
    BY <1>0, <2>1, AuVisit DEF AuAll
  <2>2. ASSUME NEW r \in Requests, NEW kind \in {"page", "dashboard"}, NEW get \in BOOLEAN, Arrive(r, kind, get)
        PROVE  AuAll'
    BY <1>0, <2>2, AuArrive DEF AuAll
  <2>3. ASSUME NEW r \in Requests, http_process(r) \/ Leave(r)
        PROVE  AuAll'
    BY <1>0, <2>3, AuProcess, AuLeave DEF AuAll
  <2>4. ASSUME NEW c \in DOMAIN au.conns, Readable(c) \/ Fails(c)
        PROVE  AuAll'
    BY <1>0, <2>4, AuEvent DEF AuAll
  <2>5. ASSUME NEW c \in DOMAIN au.conns, Answer(c) \/ Break(c)
        PROVE  AuAll'
    BY <1>0, <2>5, AuAnswer, AuBreak DEF AuAll
  <2>6. \/ \E post \in BOOLEAN, user, pass \in {"globi", "guest"} : auth_login(post, user, pass)
        \/ auth_logout \/ Update
        \/ \E r \in Requests : \E kind \in {"page", "dashboard"}, get \in BOOLEAN : Arrive(r, kind, get)
        \/ \E r \in Requests : http_process(r) \/ Leave(r)
        \/ \E c \in DOMAIN au.conns : Readable(c) \/ Fails(c)
        \/ \E c \in DOMAIN au.conns : Answer(c) \/ Break(c)
    BY <1>1, Zenon DEF Next
  <2> QED BY <2>1, <2>2, <2>3, <2>4, <2>5, <2>6
<1>2. CASE UNCHANGED au
  BY <1>0, <1>2 DEF AuAll
<1> QED BY <1>1, <1>2

\* The session check and its pool keep their invariant, for any number of requests, any
\* limits and any budget of failures, changes of the table and visitors who leave.
THEOREM AuInvariant ==
    ASSUME AuAssumption
    PROVE  AuSpec => []AuAll
<1>1. Init => AuAll
  BY AuInit
<1>2. AuAll /\ [Next]_au => AuAll'
  BY AuStep
<1> QED BY <1>1, <1>2, PTL DEF AuSpec

\* The worker's variables have their types: the free list names connections, the queue
\* requests, and every handle a connection that there is, or none.
THEOREM AuTypeCorrect ==
    ASSUME AuAssumption
    PROVE  AuSpec => []TypeOK
<1>1. AuAll => TypeOK
  <2> SUFFICES ASSUME AuAll PROVE TypeOK
    OBVIOUS
  <2>t. AuInv(au) /\ au \in AuStates(DOMAIN au.conns)
    BY DEF AuAll, AuInv, AuTypes
  <2>1. au.jar \in {"NULL", "old", "user_sess"} /\ au.count \in [Dbs -> 0..(CountMod - 1)]
    BY <2>t DEF AuStates, Cookies
  <2>2. Range(au.free) \subseteq DOMAIN au.conns
    BY <2>t DEF AuInv, Pooled, Range
  <2>3. Range(au.wait) \subseteq Requests
    <3>1. \A i \in DOMAIN au.wait : au.wait[i] \in Requests
      BY <2>t, AuKnown
    <3> QED BY <3>1 DEF Range
  <2>4. \A r \in Requests : au.st[r].conn \in {0} \cup DOMAIN au.conns
    BY <2>t DEF AuInv, Pooled
  <2> QED BY <2>1, <2>2, <2>3, <2>4 DEF TypeOK
<1> QED BY <1>1, AuInvariant, PTL

\* As many connections are on the free list as it is long: none is there twice.
LEMMA FreeOnce ==
    ASSUME NEW f \in Seq(Nat), \A i, j \in DOMAIN f : f[i] = f[j] => i = j
    PROVE  Cardinality(Range(f)) = Len(f)
<1> DEFINE R == Range(f)
           n == Len(f)
<1>1. n \in Nat /\ DOMAIN f = 1..n /\ R = {f[i] : i \in DOMAIN f}
  BY DEF Range
<1>2. f \in Bijection(1..n, R)
  <2>1. f \in [1..n -> R] /\ \A y \in R : \E i \in 1..n : f[i] = y
    BY <1>1
  <2>2. IsInjective(f)
    BY DEF IsInjective
  <2> HIDE DEF R, n
  <2> QED BY <2>1, <2>2 DEF Bijection, Injection, Surjection, IsInjective
<1> HIDE DEF R, n
<1>3. ExistsBijection(1..n, R)
  BY <1>2 DEF ExistsBijection
<1>4. Cardinality(R) = n
  BY <1>1, <1>3, FS_CountingElements
<1> QED BY <1>4 DEF R, n

\* The pool is exact: a connection is free, and idle, or runs the query of one request,
\* whose handle points back; the queue is as long as its counter says; and the count of
\* sess_auth is that of the connections and of all that were ever lost, within the limit
\* (pgsql_conn_cleanup lowers the count of another database).
THEOREM AuPoolExact ==
    ASSUME AuAssumption
    PROVE  AuSpec => []PoolExact
<1>1. AuAll => PoolExact
  <2> SUFFICES ASSUME AuAll PROVE PoolExact
    OBVIOUS
  <2>t. AuInv(au) /\ au \in AuStates(DOMAIN au.conns)
    BY DEF AuAll, AuInv, AuTypes
  <2>1. Cardinality(Range(au.free)) = Len(au.free)
    <3>1. au.free \in Seq(Nat)
      BY <2>t DEF AuStates
    <3>2. \A i, j \in DOMAIN au.free : au.free[i] = au.free[j] => i = j
      BY <2>t DEF AuInv, Pooled
    <3> QED BY <3>1, <3>2, FreeOnce
  <2>2. au.qcount = Len(au.wait)
    BY <2>t DEF AuInv, Queued
  <2>3. au.count["sess_auth"] = Cardinality(DOMAIN au.conns) + au.lost /\ au.count["sess_auth"] <= ConnMax
    BY <2>t DEF AuInv, Counted
  <2>4. ASSUME NEW c \in DOMAIN au.conns, c \in Range(au.free)
        PROVE  au.conns[c].job = "NULL" /\ ~au.conns[c].sent /\ au.conns[c].results = << >>
    <3>1. PICK i \in DOMAIN au.free : au.free[i] = c
      BY <2>4 DEF Range
    <3>2. au.conns[c].job = "NULL"
      BY <2>t, <3>1 DEF AuInv, Pooled
    <3> QED BY <2>t, <3>2 DEF AuInv, Pooled
  <2>5. ASSUME NEW c \in DOMAIN au.conns, c \notin Range(au.free)
        PROVE  au.conns[c].job # "NULL" /\ au.st[au.conns[c].job].conn = c
    <3>1. au.conns[c].job # "NULL"
      BY <2>t, <2>5 DEF AuInv, Pooled, Range
    <3> QED BY <2>t, <3>1 DEF AuInv, Pooled
  <2> QED BY <2>1, <2>2, <2>3, <2>4, <2>5 DEF PoolExact
<1> QED BY <1>1, AuInvariant, PTL

\* Who is let in or greeted has a cookie that the server found for this very request, and
\* who has one is turned away only when his query went wrong, whatever other requests,
\* released connections and failures come in between.
THEOREM AuAdmittedRightly ==
    ASSUME AuAssumption
    PROVE  AuSpec => []AdmittedRightly
<1>1. AuAll => AdmittedRightly
  <2> SUFFICES ASSUME AuAll, NEW r \in Requests
               PROVE  /\ au.req[r].out \in {"dashboard", "known"} => r \in au.found
                      /\ au.req[r].out \in {"login", "unknown"} /\ r \in au.found => au.why[r] # {}
    BY DEF AdmittedRightly
  <2>1. Kept(r, au.st[r], au.req[r], au.found, au.why[r])
    BY DEF AuAll, AuInv, Requested
  <2> QED BY <2>1 DEF Kept
<1> QED BY <1>1, AuInvariant, PTL

\* An answered request holds no connection and waits for none, and has no state unless
\* its answer was 405.
THEOREM AuNothingKept ==
    ASSUME AuAssumption
    PROVE  AuSpec => []NothingKept
<1>1. AuAll => NothingKept
  <2> SUFFICES ASSUME AuAll, NEW r \in Requests, au.req[r].phase = "done"
               PROVE  /\ au.st[r].conn = 0 /\ r \notin Range(au.wait)
                      /\ au.req[r].out # "405" => ~au.st[r].exists
    BY DEF NothingKept
  <2>1. Kept(r, au.st[r], au.req[r], au.found, au.why[r])
    BY DEF AuAll, AuInv, Requested
  <2>2. r \notin Range(au.wait)
    BY DEF AuAll, AuInv, Queued, Range
  <2> QED BY <2>1, <2>2 DEF Kept
<1> QED BY <1>1, AuInvariant, PTL

\* A request that is asked for again has a query under way over a connection, or an
\* answer, or an error, or it waited; and only one for the page sleeps.
THEOREM AuAskingFollowed ==
    ASSUME AuAssumption
    PROVE  AuSpec => []AskingFollowed
<1>1. AuAll => AskingFollowed
  <2> SUFFICES ASSUME AuAll, NEW r \in Requests, au.req[r].phase = "asking"
               PROVE  /\ \/ au.st[r].state \in {"COMPLETE", "ERROR"}
                         \/ au.st[r].state = "WAIT" /\ au.st[r].conn # 0
                         \/ au.st[r].state = "INIT" /\ "waited" \in au.why[r]
                      /\ au.req[r].asleep => au.req[r].kind = "page"
    BY DEF AskingFollowed
  <2>1. Kept(r, au.st[r], au.req[r], au.found, au.why[r])
    BY DEF AuAll, AuInv, Requested
  <2> QED BY <2>1 DEF Kept
<1> QED BY <1>1, AuInvariant, PTL

\* Freed memory is used only when a visitor has left while his query was under way or
\* waited: pgsql.c does not notice that a request is gone.
THEOREM AuFaultsKnown ==
    ASSUME AuAssumption
    PROVE  AuSpec => []FaultsKnown
<1>1. AuAll => FaultsKnown
  BY DEF AuAll, AuInv, Faults, FaultsKnown, Ok, Gone
<1> QED BY <1>1, AuInvariant, PTL
=============================================================================
