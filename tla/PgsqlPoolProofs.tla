-------------------------- MODULE PgsqlPoolProofs --------------------------
(* Theorems about PgsqlPool, for every set of clients and connections, every *)
(* list of databases and every pool size.                                    *)
EXTENDS PgsqlPool, SequenceTheorems, FiniteSetTheorems, WellFoundedInduction, TLAPS

(***************************************************************************)
(* A nonempty set of naturals has a least element: what the search for the *)
(* first entry of a TAILQ relies on.                                       *)
(***************************************************************************)
LEMMA MinInRange ==
    ASSUME NEW S \in SUBSET Nat, S # {}
    PROVE  Min(S) \in S /\ \A y \in S : Min(S) <= y
<1>1. PICK x \in S : \A y \in S : ~ (<<y, x>> \in OpToRel(<, Nat))
  BY NatLessThanWellFounded, WFMin
<1>2. ASSUME NEW y \in S PROVE x <= y
  <2>1. <<y, x>> \in OpToRel(<, Nat) <=> y < x
     BY DEF OpToRel
  <2>2. ~(y < x)
     BY <1>1, <2>1, Zenon
  <2> QED BY <2>2
<1> QED BY <1>2 DEF Min

(***************************************************************************)
(* Where pgsql_queue_wakeup stops is a position of the queue, or its end,  *)
(* and what it leaves is the rest of the queue.                            *)
(***************************************************************************)
LEMMA WokenRange ==
    ASSUME NEW q \in Seq(Clients)
    PROVE  WokenAt(q) \in 0..Len(q)
<1> DEFINE I == {i \in 1..Len(q) : q[i] \notin deleted}
<1>1. CASE I = {}
  BY <1>1 DEF WokenAt, SelectInSeq
<1>2. CASE I # {}
  <2>1. Min(I) \in I
    <3> HIDE DEF I
    <3>1. I \in SUBSET Nat
      BY DEF I
    <3> QED BY <1>2, <3>1, MinInRange
  <2> QED BY <1>2, <2>1 DEF WokenAt, SelectInSeq
<1> QED BY <1>1, <1>2

\* What pgsql_queue_wakeup leaves of the queue: the entries behind the
\* request it woke, in their order.
LEMMA WokenRest ==
    ASSUME NEW q \in Seq(Clients)
    PROVE  LET k == WokenAt(q)
               rest == SubSeq(q, k + 1, Len(q))
           IN  /\ rest \in Seq(Clients)
               /\ Len(rest) = Len(q) - k
               /\ \A i \in 1..Len(rest) : i + k \in 1..Len(q) /\ rest[i] = q[i + k]
<1> DEFINE k == WokenAt(q)
           rest == SubSeq(q, k + 1, Len(q))
<1>1. k \in 0..Len(q)
  BY WokenRange
<1> HIDE DEF k
<1>2. \A i \in (k + 1)..Len(q) : q[i] \in Clients
  BY <1>1
<1>3. /\ rest \in Seq(Clients)
      /\ Len(rest) = IF k + 1 <= Len(q) THEN Len(q) - (k + 1) + 1 ELSE 0
      /\ \A i \in 1..(Len(q) - (k + 1) + 1) : rest[i] = q[k + 1 + i - 1]
  BY <1>1, <1>2, SubSeqProperties
<1>4. Len(rest) = Len(q) - k
  BY <1>1, <1>3
<1>5. \A i \in 1..Len(rest) : i + k \in 1..Len(q) /\ rest[i] = q[i + k]
  <2> TAKE i \in 1..Len(rest)
  <2>1. i \in 1..(Len(q) - (k + 1) + 1) /\ k + 1 + i - 1 = i + k
    BY <1>1, <1>4
  <2> QED BY <1>1, <1>3, <1>4, <2>1
<1> QED BY <1>3, <1>4, <1>5 DEF k

(***************************************************************************)
(* What pgsql_queue_remove leaves: the queue itself when p has no entry,   *)
(* otherwise the queue without one entry of p.                             *)
(***************************************************************************)
LEMMA RemovedAbsent ==
    ASSUME NEW q \in Seq(Clients), NEW p, ~Contains(q, p)
    PROVE  RemoveFirst(q, p) = q
BY DEF RemoveFirst, Contains

\* pgsql_queue_remove of a client that is queued takes out one entry of its
\* and keeps the order of the others.
LEMMA RemovedPresent ==
    ASSUME NEW q \in Seq(Clients), NEW p, Contains(q, p)
    PROVE  \E k \in 1..Len(q) :
              /\ q[k] = p
              /\ RemoveFirst(q, p) \in Seq(Clients)
              /\ Len(RemoveFirst(q, p)) = Len(q) - 1
              /\ \A i \in 1..(Len(q) - 1) :
                    RemoveFirst(q, p)[i] = IF i < k THEN q[i] ELSE q[i + 1]
<1> DEFINE I == {i \in 1..Len(q) : q[i] = p}
           k == Min(I)
           s == SubSeq(q, 1, k - 1)
           t == SubSeq(q, k + 1, Len(q))
<1>1. I # {} /\ I \in SUBSET Nat
  BY DEF Contains
<1>2. k \in I
  <2> HIDE DEF I
  <2> QED BY <1>1, MinInRange
<1>3. k \in 1..Len(q) /\ q[k] = p
  BY <1>2
<1>4. RemoveFirst(q, p) = s \o t
  BY <1>1 DEF RemoveFirst, RemoveAt, SelectInSeq, Contains
<1> HIDE DEF I, k
<1>5. /\ s \in Seq(Clients)
      /\ Len(s) = k - 1
      /\ \A i \in 1..(k - 1) : s[i] = q[i]
  <2>1. \A i \in 1..(k - 1) : q[i] \in Clients
    BY <1>3
  <2>2. /\ s \in Seq(Clients)
        /\ Len(s) = IF 1 <= k - 1 THEN (k - 1) - 1 + 1 ELSE 0
        /\ \A i \in 1..((k - 1) - 1 + 1) : s[i] = q[1 + i - 1]
    BY <1>3, <2>1, SubSeqProperties
  <2> QED BY <1>3, <2>2
<1>6. /\ t \in Seq(Clients)
      /\ Len(t) = Len(q) - k
      /\ \A i \in 1..(Len(q) - k) : t[i] = q[i + k]
  <2>1. \A i \in (k + 1)..Len(q) : q[i] \in Clients
    BY <1>3
  <2>2. /\ t \in Seq(Clients)
        /\ Len(t) = IF k + 1 <= Len(q) THEN Len(q) - (k + 1) + 1 ELSE 0
        /\ \A i \in 1..(Len(q) - (k + 1) + 1) : t[i] = q[k + 1 + i - 1]
    BY <1>3, <2>1, SubSeqProperties
  <2>3. \A i \in 1..(Len(q) - k) : k + 1 + i - 1 = i + k /\ i \in 1..(Len(q) - (k + 1) + 1)
    BY <1>3
  <2> QED BY <1>3, <2>2, <2>3
<1> HIDE DEF s, t
<1>7. /\ s \o t \in Seq(Clients)
      /\ Len(s \o t) = Len(q) - 1
      /\ \A i \in 1..(Len(q) - 1) : (s \o t)[i] = IF i <= k - 1 THEN s[i] ELSE t[i - (k - 1)]
  <2>1. /\ s \o t \in Seq(Clients)
        /\ Len(s \o t) = Len(s) + Len(t)
        /\ \A i \in 1..(Len(s) + Len(t)) :
              (s \o t)[i] = IF i <= Len(s) THEN s[i] ELSE t[i - Len(s)]
    BY <1>5, <1>6, ConcatProperties
  <2>2. Len(s) + Len(t) = Len(q) - 1
    BY <1>3, <1>5, <1>6
  <2> QED BY <1>5, <2>1, <2>2
<1>8. ASSUME NEW i \in 1..(Len(q) - 1)
      PROVE  (s \o t)[i] = IF i < k THEN q[i] ELSE q[i + 1]
  <2>1. CASE i < k
    <3>1. i <= k - 1 /\ i \in 1..(k - 1)
      BY <1>3, <2>1
    <3> QED BY <1>5, <1>7, <2>1, <3>1
  <2>2. CASE ~(i < k)
    <3>1. /\ ~(i <= k - 1)
          /\ i - (k - 1) \in 1..(Len(q) - k)
          /\ (i - (k - 1)) + k = i + 1
      BY <1>3, <2>2
    <3>2. t[i - (k - 1)] = q[i + 1]
      BY <1>6, <3>1
    <3> QED BY <1>7, <2>2, <3>1, <3>2
  <2> QED BY <2>1, <2>2
<1> QED BY <1>3, <1>4, <1>7, <1>8

----------------------------------------------------------------------------
(* Type correctness.                                                       *)

\* libpq's counters stay inside the answer they count.
WireBounds ==
    \A c \in Conns : /\ 0 <= consumed[c]
                     /\ consumed[c] <= arrived[c]
                     /\ arrived[c] <= Len(wire[c])

\* kore_pgsql_query is called with a connection: between kore_pgsql_setup and
\* the query no other handler runs.
QueryHolds == \A r \in Pages : fsm[r] = "QUERY" => running = r /\ conn[r] # NoConn

\* Type correctness, with the bounds on what a connection has received and
\* the connection a query is sent on.
TypeInv == TypeOK /\ WireBounds /\ QueryHolds

\* The part of TypeInv that the library functions of pgsql.c change.
LibTypes ==
    /\ conn_free \subseteq Conns
    /\ name \in [Conns -> Dbs \cup {NoDb}]
    /\ job \in [Conns -> Clients \cup {NoClient}]
    /\ conn_count \in [Dbs -> 0..(CountMod - 1)]
    /\ wait_queue \in Seq(Clients)
    /\ queue_count \in Int
    /\ state \in [Clients -> PgStates]
    /\ conn \in [Clients -> Conns \cup {NoConn}]
    /\ asleep \subseteq Clients

\* The part of TypeInv about libpq and the server behind it.
WireTypes ==
    /\ wire \in [Conns -> Seq(Tokens)]
    /\ arrived \in [Conns -> Int]
    /\ consumed \in [Conns -> Int]
    /\ asked \in [Conns -> Clients \cup {NoClient}]
    /\ alive \in [Conns -> BOOLEAN]
    /\ WireBounds

\* The part of TypeInv about the pages and sessions that use the library.
AppTypes ==
    /\ scheduled \subseteq Conns
    /\ fsm \in [Clients -> FsmStates]
    /\ deleted \subseteq Pages
    /\ running \in Clients \cup {Idle}
    /\ reused \subseteq Sessions

\* TypeInv is its parts.
LEMMA TypeParts == TypeInv <=> LibTypes /\ WireTypes /\ AppTypes /\ QueryHolds
BY DEF TypeInv, TypeOK, LibTypes, WireTypes, AppTypes

\* A page that is about to send its query keeps the connection it was given.
LEMMA QueryStep ==
    ASSUME LibTypes, AppTypes, QueryHolds, [Next]_vars
    PROVE  QueryHolds'
<1>t. /\ fsm \in [Clients -> FsmStates] /\ conn \in [Clients -> Conns \cup {NoConn}]
      /\ Pages \subseteq Clients /\ Idle \notin Clients /\ Pages \cap Sessions = {}
      /\ NoConn \notin Conns
  BY ClientsAssumption, PoolAssumption DEF LibTypes, AppTypes, Clients
<1>1. CASE UNCHANGED vars
  BY <1>1 DEF vars, QueryHolds
<1>2. ASSUME running = Idle \/ (running \in Sessions),
             \A x \in Clients : fsm'[x] = fsm[x] \/ fsm'[x] # "QUERY"
      PROVE  QueryHolds'
  BY <1>t, <1>2 DEF QueryHolds
<1>3. ASSUME NEW p \in Clients, running = p, fsm[p] # "QUERY", fsm'[p] # "QUERY",
             \A x \in Clients \ {p} : fsm'[x] = fsm[x]
      PROVE  QueryHolds'
  BY <1>t, <1>3 DEF QueryHolds
<1>4. ASSUME NEW r \in Pages,
             PageArrives(r) \/ HttpProcess(r) \/ PageLeaves(r) \/ PageFreed(r)
      PROVE  QueryHolds'
  BY <1>t, <1>2, <1>4 DEF PageArrives, HttpProcess, PageLeaves, PageFreed
<1>5. ASSUME NEW r \in Pages, RequestPerformInit(r) PROVE QueryHolds'
  <2>1. running = r /\ fsm[r] = "INIT" /\ r \in Clients
    BY <1>t, <1>5 DEF RequestPerformInit
  <2>2. ASSUME NEW c \in Conns, SetupTakes(r, c), fsm' = [fsm EXCEPT ![r] = "QUERY"],
               running' = running
        PROVE  QueryHolds'
    <3>1. conn' = [conn EXCEPT ![r] = c]
      BY <2>2 DEF SetupTakes
    <3> QED BY <1>t, <2>1, <2>2, <3>1 DEF QueryHolds
  <2>3. CASE fsm' = fsm \/ fsm' = [fsm EXCEPT ![r] = "ERROR"]
    BY <1>t, <1>3, <2>1, <2>3
  <2> QED BY <1>5, <2>2, <2>3 DEF RequestPerformInit
<1>6. ASSUME NEW r \in Pages, RequestPerformQuery(r) PROVE QueryHolds'
  <2>1. running = r /\ fsm' = [fsm EXCEPT ![r] = "DB_WAIT"]
    BY <1>6 DEF RequestPerformQuery
  <2> QED BY <1>t, <2>1 DEF QueryHolds
<1>7. ASSUME NEW r \in Pages, RequestDbWaitMoves(r) PROVE QueryHolds'
  <2>1. running = r /\ fsm[r] = "DB_WAIT" /\ r \in Clients
    BY <1>t, <1>7 DEF RequestDbWaitMoves
  <2>2. fsm' = fsm \/ fsm' = [fsm EXCEPT ![r] = "DONE"]
        \/ fsm' = [fsm EXCEPT ![r] = "ERROR"] \/ fsm' = [fsm EXCEPT ![r] = "DB_READ"]
    BY <1>7 DEF RequestDbWaitMoves
  <2> QED BY <1>t, <1>3, <2>1, <2>2
<1>8. ASSUME NEW r \in Pages, RequestDbWaitContinues(r) \/ RequestDbRead(r) \/ RequestEnds(r)
      PROVE  QueryHolds'
  <2>1. running = r /\ fsm[r] # "QUERY" /\ r \in Clients
    BY <1>t, <1>8 DEF RequestDbWaitContinues, RequestDbRead, RequestEnds
  <2>2. fsm' = fsm \/ fsm' = [fsm EXCEPT ![r] = "DB_WAIT"]
        \/ fsm' = [fsm EXCEPT ![r] = "closed"]
    BY <1>8 DEF RequestDbWaitContinues, RequestDbRead, RequestEnds
  <2> QED BY <1>t, <1>3, <2>1, <2>2
<1>9. ASSUME NEW s \in Sessions,
             \/ SessionAsks(s) \/ SessionDecides(s) \/ SessionSleeps(s)
             \/ SessionPasses(s) \/ SessionLeaves(s) \/ SessionAgain(s)
      PROVE  QueryHolds'
  <2>1. running = Idle \/ running \in Sessions
    BY <1>9 DEF SessionAsks, SessionDecides, SessionSleeps, SessionPasses, SessionLeaves,
                SessionAgain
  <2>2. \A x \in Clients : fsm'[x] = fsm[x] \/ fsm'[x] # "QUERY"
    BY <1>t, <1>9 DEF SessionAsks, SessionDecides, SessionSleeps, SessionPasses, SessionLeaves,
                      SessionAgain
  <2> QED BY <1>2, <2>1, <2>2
<1>10. ASSUME NEW c \in Conns,
              Arrive(c) \/ ReadEvent(c) \/ StaleEvent(c) \/ ErrorEvent(c) \/ ServerDrops(c)
       PROVE  QueryHolds'
  <2>1. running = Idle /\ fsm' = fsm
    BY <1>10 DEF Arrive, ReadEvent, StaleEvent, ErrorEvent, ServerDrops, Readable
  <2> QED BY <1>2, <2>1
<1> QED BY <1>1, <1>4, <1>5, <1>6, <1>7, <1>8, <1>9, <1>10 DEF Next, RunPage

\* pgsql_conn_release keeps the types, whatever queue its wake-up leaves.
LEMMA ReleaseTypes ==
    ASSUME LibTypes, WireTypes, scheduled \subseteq Conns, NEW p \in Clients,
           NEW q \in Seq(Clients), NEW n \in Int, ConnRelease(p, q, n)
    PROVE  LibTypes' /\ WireTypes' /\ scheduled' \subseteq Conns
<1>1. CASE conn[p] = NoConn
  BY <1>1 DEF ConnRelease, LibTypes, WireTypes, WireBounds, pool, libpq
<1>2. CASE conn[p] # NoConn
  <2>1. conn[p] \in Conns
    BY <1>2 DEF LibTypes
  <2>0. QueueWakeup(q, n)
    BY <1>2 DEF ConnRelease
  <2>2. wait_queue' \in Seq(Clients) /\ queue_count' \in Int
    BY <2>0, WokenRange, WokenRest DEF QueueWakeup
  <2>3. asleep' \subseteq Clients
    BY <2>0 DEF QueueWakeup, LibTypes
  <2>4. LibTypes'
    BY <1>2, <2>1, <2>2, <2>3 DEF ConnRelease, LibTypes, PgStates
  <2>5. /\ wire' = [wire EXCEPT ![conn[p]] = <<>>]
        /\ arrived' = [arrived EXCEPT ![conn[p]] = 0]
        /\ consumed' = [consumed EXCEPT ![conn[p]] = 0]
        /\ asked' = [asked EXCEPT ![conn[p]] = NoClient]
        /\ alive' = alive
        /\ scheduled' \subseteq Conns
    BY <1>2 DEF ConnRelease
  <2>6. WireTypes'
    BY <2>1, <2>5 DEF WireTypes, WireBounds
  <2> QED BY <2>4, <2>5, <2>6
<1> QED BY <1>1, <1>2

\* kore_pgsql_cleanup keeps the types.
LEMMA CleanupTypes ==
    ASSUME LibTypes, WireTypes, scheduled \subseteq Conns, NEW p \in Clients, Cleanup(p)
    PROVE  LibTypes' /\ WireTypes' /\ scheduled' \subseteq Conns
<1>1. RemoveFirst(wait_queue, p) \in Seq(Clients)
  BY RemovedAbsent, RemovedPresent DEF LibTypes
<1>2. CountRemove(p) \in Int
  BY DEF CountRemove, LibTypes
<1> QED BY <1>1, <1>2, ReleaseTypes DEF Cleanup

\* conn_count stays within its width when it is lowered and when it is raised.
LEMMA CountTypes ==
    ASSUME NEW count \in [Dbs -> 0..(CountMod - 1)], NEW d
    PROVE  /\ LowerCount(d, count) \in [Dbs -> 0..(CountMod - 1)]
           /\ [count EXCEPT ![d] = (@ + 1) % CountMod] \in [Dbs -> 0..(CountMod - 1)]
<1>1. \A x \in Int : x % CountMod \in 0..(CountMod - 1)
  BY PoolAssumption
<1>2. \A x \in 0..(CountMod - 1) : x - 1 \in Int /\ x + 1 \in Int
  BY PoolAssumption
<1> QED BY <1>1, <1>2 DEF LowerCount

\* Taking a free connection or opening one keeps the types.
LEMMA TakesTypes ==
    ASSUME LibTypes, WireTypes, NEW p \in Clients, NEW c \in Conns, SetupTakes(p, c)
    PROVE  /\ conn_free' \subseteq Conns
           /\ name' \in [Conns -> Dbs \cup {NoDb}]
           /\ job' \in [Conns -> Clients \cup {NoClient}]
           /\ conn_count' \in [Dbs -> 0..(CountMod - 1)]
           /\ conn' \in [Clients -> Conns \cup {NoConn}]
           /\ alive' \in [Conns -> BOOLEAN]
<1>1. DbOf[p] \in Dbs
  BY PoolAssumption
<1>2. RaiseCount(DbOf[p]) \in [Dbs -> 0..(CountMod - 1)]
  BY <1>1, CountTypes DEF RaiseCount, LibTypes
<1> QED BY <1>1, <1>2 DEF SetupTakes, LibTypes, WireTypes

\* Queueing and failing in kore_pgsql_setup keep the types.
LEMMA NoConnTypes ==
    ASSUME LibTypes, NEW p \in Clients, SetupQueues(p) \/ SetupFails(p)
    PROVE  LibTypes'
<1>1. DbOf[p] \in Dbs
  BY PoolAssumption
<1>2. LowerCount(DbOf[p], RaiseCount(DbOf[p])) \in [Dbs -> 0..(CountMod - 1)]
  BY <1>1, CountTypes DEF RaiseCount, LibTypes
<1>3. CASE SetupQueues(p)
  BY <1>3 DEF SetupQueues, LibTypes, pool
<1>4. CASE SetupFails(p)
  BY <1>2, <1>4 DEF SetupFails, LibTypes, queue, PgStates
<1> QED BY <1>3, <1>4

\* Sending a query keeps the types.
LEMMA SentTypes ==
    ASSUME LibTypes, WireTypes, NEW p \in Clients,
           NEW c \in Conns, QuerySent(p, c),
           alive' \in [Conns -> BOOLEAN], scheduled \subseteq Conns
    PROVE  WireTypes' /\ state' \in [Clients -> PgStates] /\ scheduled' \subseteq Conns
<1>1. PICK a \in Scripts : wire' = [wire EXCEPT ![c] = Append(a, "ready")]
  BY DEF QuerySent
<1>2. a \in Seq(Tokens)
  <2>1. a \in Seq(Results)
    BY PoolAssumption
  <2>2. Results \subseteq Tokens
    BY DEF Tokens
  <2> QED BY <2>1, <2>2, SeqMonotonic
<1>3. Append(a, "ready") \in Seq(Tokens) /\ Len(Append(a, "ready")) = Len(a) + 1
  BY <1>2 DEF Tokens
<1>4. Len(a) \in Nat
  BY <1>2
<1>5. /\ wire' \in [Conns -> Seq(Tokens)]
      /\ arrived' \in [Conns -> Int]
      /\ consumed' \in [Conns -> Int]
      /\ asked' \in [Conns -> Clients \cup {NoClient}]
  <2>1. wire' \in [Conns -> Seq(Tokens)]
    BY <1>1, <1>3 DEF WireTypes
  <2>2. arrived' \in [Conns -> Int] /\ consumed' \in [Conns -> Int]
    BY DEF QuerySent, WireTypes
  <2>3. asked' \in [Conns -> Clients \cup {NoClient}]
    BY DEF QuerySent, WireTypes
  <2> QED BY <2>1, <2>2, <2>3
<1>6. WireBounds'
  <2> SUFFICES ASSUME NEW b \in Conns
               PROVE  /\ 0 <= consumed'[b]
                      /\ consumed'[b] <= arrived'[b]
                      /\ arrived'[b] <= Len(wire'[b])
    BY DEF WireBounds
  <2>1. CASE b = c
    BY <1>1, <1>3, <1>4, <2>1 DEF QuerySent, WireTypes
  <2>2. CASE b # c
    BY <1>1, <2>2 DEF QuerySent, WireTypes, WireBounds
  <2> QED BY <2>1, <2>2
<1>7. state' \in [Clients -> PgStates] /\ scheduled' \subseteq Conns
  BY DEF QuerySent, LibTypes, PgStates
<1> QED BY <1>5, <1>6, <1>7 DEF WireTypes

\* kore_pgsql_handle, run for a page, keeps the types.
LEMMA HandleTypes ==
    ASSUME LibTypes, WireTypes, NEW p \in Clients, PageHandle(p),
           UNCHANGED <<pool, queue, conn>>
    PROVE  LibTypes' /\ WireTypes'
<1>1. CASE ConsumeFails(p)
  BY <1>1 DEF ConsumeFails, LibTypes, WireTypes, WireBounds, PgStates, libpq, pool, queue
<1>2. CASE ReadBusy(p)
  BY <1>2 DEF ReadBusy, LibTypes, WireTypes, WireBounds, PgStates, libpq, pool, queue
<1>3. CASE ReadOne(p)
  <2> DEFINE c == conn[p]
  <2>1. LibTypes'
    <3>1. AfterToken(Head(wire[c])) \in PgStates
      BY DEF AfterToken, PgStates
    <3> QED BY <1>3, <3>1 DEF ReadOne, LibTypes, pool, queue
  <2>2. CASE c \in Conns
    <3>1. wire[c] \in Seq(Tokens) /\ arrived[c] > 0 /\ arrived[c] <= Len(wire[c])
          /\ arrived[c] \in Int
      BY <1>3, <2>2 DEF ReadOne, WireTypes, WireBounds
    <3>2. wire[c] # <<>>
      BY <3>1
    <3>3. Tail(wire[c]) \in Seq(Tokens) /\ Len(Tail(wire[c])) = Len(wire[c]) - 1
      BY <3>1, <3>2, HeadTailProperties
    <3>4. Len(wire[c]) \in Nat
      BY <3>1
    <3> QED BY <1>3, <2>1, <2>2, <3>1, <3>3, <3>4 DEF ReadOne, WireTypes, WireBounds
  <2>3. CASE c \notin Conns
    BY <1>3, <2>1, <2>3 DEF ReadOne, WireTypes, WireBounds
  <2> QED BY <2>2, <2>3
<1> QED BY <1>1, <1>2, <1>3 DEF PageHandle

(***************************************************************************)
(* Every variable keeps its type, conn_count its sixteen bits, and libpq's *)
(* counters stay inside the answer they count.                             *)
(***************************************************************************)
THEOREM TypeCorrect == Spec => []TypeInv
<1>1. Init => TypeInv
  BY ClientsAssumption, PoolAssumption
     DEF Init, TypeInv, TypeOK, WireBounds, QueryHolds, PgStates, FsmStates, Clients
<1>2. TypeInv /\ [Next]_vars => TypeInv'
  <2> SUFFICES ASSUME TypeInv, [Next]_vars PROVE TypeInv'
    OBVIOUS
  <2>0. LibTypes /\ WireTypes /\ AppTypes /\ QueryHolds
    BY TypeParts
  <2>q. QueryHolds'
    BY <2>0, QueryStep
  <2>i. NoConn \notin Conns /\ scheduled \subseteq Conns
    BY <2>0, PoolAssumption DEF AppTypes
  <2> SUFFICES LibTypes' /\ WireTypes' /\ AppTypes'
    BY <2>q DEF TypeInv, TypeOK, LibTypes, WireTypes, AppTypes
  <2> USE DEF Clients
  <2>1. CASE UNCHANGED vars
    BY <2>0, <2>1 DEF vars, pool, queue, libpq, LibTypes, WireTypes, WireBounds, AppTypes
  <2>2. ASSUME NEW r \in Pages, PageArrives(r) \/ HttpProcess(r) \/ PageLeaves(r)
               \/ RequestDbWaitMoves(r)
        PROVE  LibTypes' /\ WireTypes' /\ AppTypes'
    <3>1. LibTypes' /\ WireTypes'
      BY <2>0, <2>2 DEF PageArrives, HttpProcess, PageLeaves, RequestDbWaitMoves,
            pool, queue, libpq, LibTypes, WireTypes, WireBounds
    <3>2. AppTypes'
      BY <2>0, <2>2 DEF PageArrives, HttpProcess, PageLeaves, RequestDbWaitMoves,
            AppTypes, FsmStates
    <3> QED BY <3>1, <3>2
  <2>3. ASSUME NEW r \in Pages, RequestPerformInit(r)
        PROVE  LibTypes' /\ WireTypes' /\ AppTypes'
    <3>1. AppTypes'
      BY <2>0, <2>3 DEF RequestPerformInit, AppTypes, FsmStates
    <3>2. CASE \E c \in Conns : SetupTakes(r, c) /\ UNCHANGED <<queue, state, asleep>>
      <4> PICK c \in Conns : SetupTakes(r, c) /\ UNCHANGED <<queue, state, asleep>>
        BY <3>2
      <4> QED BY <2>0, <2>3, <3>1, TakesTypes
            DEF RequestPerformInit, LibTypes, WireTypes, WireBounds, queue
    <3>3. CASE (SetupQueues(r) \/ SetupFails(r)) /\ UNCHANGED alive
      BY <2>0, <2>3, <3>1, <3>3, NoConnTypes DEF RequestPerformInit, WireTypes, WireBounds
    <3> QED BY <2>3, <3>2, <3>3 DEF RequestPerformInit
  <2>4. ASSUME NEW r \in Pages, RequestPerformQuery(r)
        PROVE  LibTypes' /\ WireTypes' /\ AppTypes'
    <3>1. CASE QuerySent(r, conn[r])
      <4>1. WireTypes' /\ state' \in [Clients -> PgStates] /\ scheduled' \subseteq Conns
        <5>1. conn[r] \in Conns
          BY <2>0, <2>4 DEF LibTypes, QueryHolds, RequestPerformQuery
        <5> QED BY <2>0, <2>4, <3>1, <5>1, SentTypes DEF RequestPerformQuery, WireTypes, AppTypes
      <4> QED BY <2>0, <2>4, <4>1
            DEF RequestPerformQuery, LibTypes, AppTypes, FsmStates, pool, queue
    <3>2. CASE QueryFails(r)
      BY <2>0, <2>4, <3>2 DEF RequestPerformQuery, QueryFails, LibTypes, WireTypes, WireBounds,
            AppTypes, FsmStates, PgStates, pool, queue
    <3> QED BY <2>4, <3>1, <3>2 DEF RequestPerformQuery
  <2>5. ASSUME NEW r \in Pages, RequestDbWaitContinues(r) \/ RequestDbRead(r)
        PROVE  LibTypes' /\ WireTypes' /\ AppTypes'
    <3>1. ASSUME scheduled' \subseteq Conns PROVE AppTypes'
      BY <2>0, <2>5, <3>1 DEF RequestDbWaitContinues, RequestDbRead, AppTypes, FsmStates
    <3>2. CASE PageHandle(r) /\ UNCHANGED <<pool, queue, conn, scheduled>>
      BY <2>0, <2>i, <3>1, <3>2, HandleTypes
    <3>3. CASE ConnRelease(r, wait_queue, queue_count)
      BY <2>0, <2>i, <3>1, <3>3, ReleaseTypes DEF LibTypes
    <3> QED BY <2>5, <3>2, <3>3 DEF RequestDbWaitContinues, RequestDbRead
  <2>6. ASSUME NEW p \in Clients, Cleanup(p), scheduled' \subseteq Conns => AppTypes'
        PROVE  LibTypes' /\ WireTypes' /\ AppTypes'
    BY <2>0, <2>i, <2>6, CleanupTypes
  <2>7. ASSUME NEW r \in Pages, RequestEnds(r) \/ PageFreed(r)
        PROVE  LibTypes' /\ WireTypes' /\ AppTypes'
    <3>1. (scheduled' \subseteq Conns => AppTypes') /\ Cleanup(r)
      BY <2>0, <2>7 DEF RequestEnds, PageFreed, AppTypes, FsmStates
    <3> QED BY <2>6, <3>1
  <2>8. ASSUME NEW s \in Sessions, SessionAsks(s)
        PROVE  LibTypes' /\ WireTypes' /\ AppTypes'
    <3>1. CASE \E c \in Conns : /\ SetupTakes(s, c)
                                /\ QuerySent(s, c) \/ QueryFails(s)
                                /\ UNCHANGED <<queue, asleep>>
      <4> PICK c \in Conns : /\ SetupTakes(s, c)
                             /\ QuerySent(s, c) \/ QueryFails(s)
                             /\ UNCHANGED <<queue, asleep>>
        BY <3>1
      <4>1. alive' \in [Conns -> BOOLEAN]
        BY <2>0, TakesTypes
      <4>2. WireTypes' /\ state' \in [Clients -> PgStates] /\ scheduled' \subseteq Conns
        <5>1. CASE QuerySent(s, c)
          BY <2>0, <4>1, <5>1, SentTypes DEF AppTypes
        <5>2. CASE QueryFails(s)
          BY <2>0, <4>1, <5>2 DEF QueryFails, WireTypes, WireBounds, LibTypes, AppTypes, PgStates
        <5> QED BY <5>1, <5>2
      <4>3. LibTypes'
        BY <2>0, <4>2, TakesTypes DEF LibTypes, queue
      <4>4. AppTypes'
        BY <2>0, <2>8, <4>2 DEF SessionAsks, AppTypes, FsmStates
      <4> QED BY <4>2, <4>3, <4>4
    <3>2. CASE (SetupQueues(s) \/ SetupFails(s)) /\ UNCHANGED <<scheduled, libpq>>
      <4>1. LibTypes'
        BY <2>0, <3>2, NoConnTypes
      <4>2. WireTypes' /\ AppTypes'
        BY <2>0, <2>8, <3>2 DEF SessionAsks, WireTypes, WireBounds, AppTypes, FsmStates, libpq
      <4> QED BY <4>1, <4>2
    <3> QED BY <2>8, <3>1, <3>2 DEF SessionAsks
  <2>9. ASSUME NEW s \in Sessions, SessionDecides(s)
        PROVE  LibTypes' /\ WireTypes' /\ AppTypes'
    <3>1. (scheduled' \subseteq Conns => AppTypes') /\ Cleanup(s)
      BY <2>0, <2>9 DEF SessionDecides, AppTypes, FsmStates
    <3> QED BY <2>6, <3>1
  <2>10. ASSUME NEW s \in Sessions, SessionSleeps(s)
         PROVE  LibTypes' /\ WireTypes' /\ AppTypes'
    BY <2>0, <2>10 DEF SessionSleeps, LibTypes, WireTypes, WireBounds, AppTypes, pool, queue, libpq
  <2>14. ASSUME NEW s \in Sessions, SessionLeaves(s) \/ SessionPasses(s)
         PROVE  LibTypes' /\ WireTypes' /\ AppTypes'
    <3>1. LibTypes' /\ WireTypes'
      BY <2>0, <2>14 DEF SessionLeaves, SessionPasses, LibTypes, WireTypes, WireBounds, pool,
                         queue, libpq
    <3>2. AppTypes'
      BY <2>0, <2>14 DEF SessionLeaves, SessionPasses, AppTypes, FsmStates
    <3> QED BY <3>1, <3>2
  <2>15. ASSUME NEW s \in Sessions, SessionAgain(s)
         PROVE  LibTypes' /\ WireTypes' /\ AppTypes'
    <3>1. LibTypes'
      BY <2>0, <2>15 DEF SessionAgain, LibTypes, PgStates, pool, queue
    <3>2. WireTypes'
      <4>1. asked' \in [Conns -> Clients \cup {NoClient}]
        BY <2>0, <2>15 DEF SessionAgain, WireTypes
      <4> QED BY <2>0, <2>15, <4>1 DEF SessionAgain, WireTypes, WireBounds
    <3>3. AppTypes'
      BY <2>0, <2>15 DEF SessionAgain, AppTypes, FsmStates
    <3> QED BY <3>1, <3>2, <3>3
  <2>11. ASSUME NEW c \in Conns, Arrive(c) \/ ServerDrops(c)
         PROVE  LibTypes' /\ WireTypes' /\ AppTypes'
    <3>1. LibTypes' /\ AppTypes'
      BY <2>0, <2>11 DEF Arrive, ServerDrops, LibTypes, AppTypes, pool, queue
    <3>2. CASE Arrive(c)
      <4>1. wire[c] \in Seq(Tokens) /\ Len(wire[c]) \in Nat
        BY <2>0 DEF WireTypes
      <4> QED BY <2>0, <3>1, <3>2, <4>1 DEF Arrive, WireTypes, WireBounds
    <3>3. CASE ServerDrops(c)
      BY <2>0, <3>1, <3>3 DEF ServerDrops, WireTypes, WireBounds
    <3> QED BY <2>11, <3>2, <3>3
  <2>12. ASSUME NEW c \in Conns, ReadEvent(c)
         PROVE  LibTypes' /\ WireTypes' /\ AppTypes'
    <3>1. ASSUME scheduled' \subseteq Conns PROVE AppTypes'
      BY <2>0, <2>12, <3>1 DEF ReadEvent, AppTypes
    <3>2. job[c] \in Clients
      BY <2>0, <2>12 DEF ReadEvent
    <3>3. CASE PageHandle(job[c]) /\ UNCHANGED <<pool, queue, conn, scheduled>>
      BY <2>0, <2>i, <3>1, <3>2, <3>3, HandleTypes
    <3>4. CASE SessionHandle(job[c])
      <4>1. CASE ConnRelease(job[c], wait_queue, queue_count)
        BY <2>0, <2>i, <3>1, <3>2, <4>1, ReleaseTypes DEF LibTypes
      <4>2. CASE /\ state' = [state EXCEPT ![job[c]] = "ERROR"]
                 /\ UNCHANGED <<pool, queue, conn, scheduled, libpq, asleep>>
        BY <2>0, <2>i, <3>1, <4>2 DEF LibTypes, WireTypes, WireBounds, PgStates, pool, queue, libpq
      <4> QED BY <3>4, <4>1, <4>2 DEF SessionHandle
    <3> QED BY <2>12, <3>3, <3>4 DEF ReadEvent
  <2>13. ASSUME NEW c \in Conns, ErrorEvent(c)
         PROVE  LibTypes' /\ WireTypes' /\ AppTypes'
    <3>1. job[c] \in Clients
      BY <2>0, <2>13 DEF ErrorEvent, Reading, LibTypes
    <3>2. conn_count' \in [Dbs -> 0..(CountMod - 1)]
      BY <2>0, <2>13, CountTypes DEF ErrorEvent, LibTypes
    <3>3. LibTypes'
      BY <2>0, <2>13, <3>1, <3>2 DEF ErrorEvent, LibTypes, PgStates, queue
    <3>4. <<>> \in Seq(Tokens) /\ Len(<<>>) = 0
      OBVIOUS
    <3>5. WireTypes'
      BY <2>0, <2>13, <3>4 DEF ErrorEvent, WireTypes, WireBounds
    <3>6. AppTypes'
      BY <2>0, <2>13 DEF ErrorEvent, AppTypes
    <3> QED BY <3>3, <3>5, <3>6
  <2>16. ASSUME NEW c \in Conns, StaleEvent(c)
         PROVE  LibTypes' /\ WireTypes' /\ AppTypes'
    <3>1. ASSUME scheduled' \subseteq Conns PROVE AppTypes'
      BY <2>0, <2>16, <3>1 DEF StaleEvent, AppTypes
    <3>2. job[c] \in Clients
      BY <2>0, <2>16 DEF StaleEvent
    <3>3. CASE ConnRelease(job[c], wait_queue, queue_count)
      BY <2>0, <2>i, <3>1, <3>2, <3>3, ReleaseTypes DEF LibTypes
    <3>4. CASE /\ UNCHANGED <<pool, queue, conn, scheduled, wire, arrived, asked, alive, asleep>>
               /\ \/ state' = [state EXCEPT ![job[c]] = "WAIT"]
                  \/ state' = [state EXCEPT ![job[c]] = "ERROR"]
               /\ consumed' = consumed \/ consumed' = [consumed EXCEPT ![c] = arrived[c]]
      <4>1. LibTypes'
        BY <2>0, <3>4 DEF LibTypes, PgStates, pool, queue
      <4>2. consumed' \in [Conns -> Int]
            /\ \A b \in Conns : consumed'[b] = consumed[b] \/ consumed'[b] = arrived[b]
        BY <2>0, <3>4 DEF WireTypes
      <4>3. UNCHANGED <<wire, arrived, asked, alive>>
        BY <3>4
      <4>4. WireBounds'
        <5> SUFFICES ASSUME NEW b \in Conns
                     PROVE  /\ 0 <= consumed'[b]
                            /\ consumed'[b] <= arrived[b]
                            /\ arrived[b] <= Len(wire[b])
          BY <4>3 DEF WireBounds
        <5>1. /\ 0 <= consumed[b] /\ consumed[b] <= arrived[b] /\ arrived[b] <= Len(wire[b])
              /\ consumed[b] \in Int /\ arrived[b] \in Int
          BY <2>0 DEF WireTypes, WireBounds
        <5> QED BY <4>2, <5>1
      <4>5. WireTypes'
        BY <2>0, <4>2, <4>3, <4>4 DEF WireTypes
      <4> QED BY <2>i, <3>1, <3>4, <4>1, <4>5
    <3> QED BY <2>16, <3>3, <3>4 DEF StaleEvent, libpq
  <2> QED BY <2>1, <2>2, <2>3, <2>4, <2>5, <2>7, <2>8, <2>9, <2>10, <2>11, <2>12, <2>13, <2>14,
             <2>15, <2>16 DEF Next, RunPage
<1> QED BY <1>1, <1>2, PTL DEF Spec

\* conn_count keeps its sixteen bits and every pointer its target: TypeOK.
THEOREM TypeOKHolds == Spec => []TypeOK
BY TypeCorrect, PTL DEF TypeInv

----------------------------------------------------------------------------
(* Ownership of connections, and of what is still to be read from them.    *)

\* A client that has not called kore_pgsql_setup, or waits in it, holds
\* nothing: pgsql_conn_next never overwrites a pgsql->conn.  Nor does one that
\* is done.
NewcomersHoldNothing ==
    \A p \in Clients : fsm[p] \in {"none", "INIT", "closed"} => conn[p] = NoConn

\* What Ownership says of the connections and the objects, whatever the
\* clients are at.
Held ==
    /\ \A c \in conn_free : name[c] # NoDb /\ job[c] = NoClient
    /\ \A c \in Conns : name[c] # NoDb /\ c \notin conn_free => job[c] # NoClient
    /\ \A c \in Conns : job[c] # NoClient =>
          name[c] # NoDb /\ (conn[job[c]] = c \/ job[c] \in reused)
    /\ \A p \in Clients : conn[p] # NoConn => job[conn[p]] = p

\* Who is done holds nothing, so a job that names it is a left-over.
LEMMA HeldOwns ==
    ASSUME TypeInv, Held, NewcomersHoldNothing
    PROVE  Ownership
<1>1. ASSUME NEW c \in Conns, job[c] # NoClient, job[c] \notin reused
      PROVE  fsm[job[c]] # "closed"
  <2>1. job[c] \in Clients /\ conn[job[c]] = c /\ c # NoConn
    BY <1>1, PoolAssumption DEF Held, TypeInv, TypeOK
  <2> QED BY <2>1 DEF NewcomersHoldNothing
<1> QED BY <1>1 DEF Held, Ownership

\* The inductive invariant of connection ownership.
OwnInv == Held /\ AnswersReachTheirAsker /\ NewcomersHoldNothing

\* pgsql_conn_release keeps ownership, and gives nobody a connection.
LEMMA ReleaseOwn ==
    ASSUME TypeInv, Held, AnswersReachTheirAsker,
           NEW p \in Clients, NEW q, NEW n, ConnRelease(p, q, n), reused' = reused
    PROVE  /\ Held' /\ AnswersReachTheirAsker'
           /\ \A x \in Clients : conn[x] = NoConn => conn'[x] = NoConn
<1>1. CASE conn[p] = NoConn
  BY <1>1 DEF ConnRelease, Held, AnswersReachTheirAsker, pool, libpq
<1>2. CASE conn[p] # NoConn
  <2> DEFINE c == conn[p]
  <2>1. /\ conn_free' = conn_free \cup {c}
        /\ job' = [job EXCEPT ![c] = NoClient]
        /\ wire' = [wire EXCEPT ![c] = <<>>]
        /\ asked' = [asked EXCEPT ![c] = NoClient]
        /\ conn' = [conn EXCEPT ![p] = NoConn]
        /\ name' = name
    BY <1>2 DEF ConnRelease
  <2>2. c \in Conns /\ job[c] = p /\ name[c] # NoDb
    BY <1>2, ClientsAssumption DEF Held, TypeInv, TypeOK
  <2>3. Held'
    BY <2>1, <2>2, ClientsAssumption, PoolAssumption DEF Held, TypeInv, TypeOK
  <2>4. AnswersReachTheirAsker'
    BY <2>1, <2>2, PoolAssumption DEF AnswersReachTheirAsker, TypeInv, TypeOK
  <2>5. \A x \in Clients : conn[x] = NoConn => conn'[x] = NoConn
    BY <2>1 DEF TypeInv, TypeOK
  <2> QED BY <2>3, <2>4, <2>5
<1> QED BY <1>1, <1>2

\* A connection that a client gets has no answer waiting on it, and no other
\* connection changes hands.
LEMMA TakesOwn ==
    ASSUME TypeInv, Held, AnswersReachTheirAsker,
           NEW p \in Clients, NEW c \in Conns, SetupTakes(p, c), conn[p] = NoConn,
           reused' = reused
    PROVE  /\ Held'
           /\ wire[c] = <<>>
           /\ job'[c] = p
           /\ conn'[p] = c
           /\ \A b \in Conns : b # c => job'[b] = job[b]
           /\ \A x \in Clients : x # p => conn'[x] = conn[x]
<1>1. job[c] = NoClient
  BY DEF SetupTakes, FreeFor, Held
<1>2. wire[c] = <<>>
  BY <1>1 DEF AnswersReachTheirAsker
<1>3. /\ conn_free' = conn_free \ {c}
      /\ job' = [job EXCEPT ![c] = p]
      /\ conn' = [conn EXCEPT ![p] = c]
  BY DEF SetupTakes
<1>4. /\ name'[c] # NoDb
      /\ \A b \in Conns : b # c => name'[b] = name[b]
  <2>1. CASE name' = name /\ c \in conn_free
    BY <2>1 DEF Held
  <2>2. CASE name' = [name EXCEPT ![c] = DbOf[p]]
    BY <2>2, PoolAssumption DEF TypeInv, TypeOK
  <2> QED BY <2>1, <2>2 DEF SetupTakes, FreeFor
<1>5. Held'
  <2>1. \A x \in Clients : conn[x] # c
    BY <1>1, ClientsAssumption, PoolAssumption DEF Held
  <2>2. \A b \in conn_free' : name'[b] # NoDb /\ job'[b] = NoClient
    BY <1>3, <1>4 DEF Held, TypeInv, TypeOK
  <2>3. \A b \in Conns : job'[b] # NoClient =>
           name'[b] # NoDb /\ (conn'[job'[b]] = b \/ job'[b] \in reused)
    BY <1>3, <1>4, PoolAssumption DEF Held, TypeInv, TypeOK
  <2>4. \A b \in Conns : name'[b] # NoDb /\ b \notin conn_free' => job'[b] # NoClient
    BY <1>3, <1>4, ClientsAssumption DEF Held, TypeInv, TypeOK
  <2>5. \A x \in Clients : conn'[x] # NoConn => job'[conn'[x]] = x
    BY <1>3, <2>1 DEF Held, TypeInv, TypeOK
  <2> QED BY <2>2, <2>3, <2>4, <2>5 DEF Held
<1> QED BY <1>2, <1>3, <1>5 DEF TypeInv, TypeOK

\* The answers to a query sent on a connection are its holder's.
LEMMA SentOwn ==
    ASSUME TypeInv, AnswersReachTheirAsker, NEW p \in Clients,
           NEW c \in Conns, QuerySent(p, c), job'[c] = p,
           \A b \in Conns : b # c => job'[b] = job[b],
           \A x \in Clients : conn'[x] = conn[x] \/ conn'[x] = c
    PROVE  AnswersReachTheirAsker'
<1>1. asked' = [asked EXCEPT ![c] = p]
  BY DEF QuerySent
<1>2. \A b \in Conns : b # c => wire'[b] = wire[b]
  BY DEF QuerySent, TypeInv, TypeOK
<1>3. p # NoClient
  BY ClientsAssumption
<1> QED BY <1>1, <1>2, <1>3 DEF AnswersReachTheirAsker, TypeInv, TypeOK

\* Reading answers leaves ownership as it is.
LEMMA HandleOwn ==
    ASSUME TypeInv, Held, AnswersReachTheirAsker, NEW p \in Clients, PageHandle(p),
           UNCHANGED <<pool, queue, conn, reused>>
    PROVE  Held' /\ AnswersReachTheirAsker'
<1>1. Held'
  BY DEF Held, pool
<1>2. asked' = asked
  BY DEF PageHandle, ConsumeFails, ReadBusy, ReadOne, libpq
<1>3. \A c \in Conns : wire'[c] # <<>> => wire[c] # <<>>
  <2>1. CASE ConsumeFails(p) \/ ReadBusy(p)
    BY <2>1 DEF ConsumeFails, ReadBusy, libpq
  <2>2. CASE ReadOne(p)
    <3> TAKE c \in Conns
    <3>1. CASE c = conn[p]
      <4>1. arrived[c] > 0 /\ arrived[c] <= Len(wire[c]) /\ arrived[c] \in Int
        BY <2>2, <3>1 DEF ReadOne, TypeInv, TypeOK, WireBounds
      <4> QED BY <4>1 DEF TypeInv, TypeOK
    <3>2. CASE c # conn[p]
      BY <2>2, <3>2 DEF ReadOne, TypeInv, TypeOK
    <3> QED BY <3>1, <3>2
  <2> QED BY <2>1, <2>2 DEF PageHandle
<1> QED BY <1>1, <1>2, <1>3 DEF AnswersReachTheirAsker, pool

(***************************************************************************)
(* However requests, sessions, events, departures and failures interleave, *)
(* no two clients share a connection, and what a connection still has to   *)
(* deliver belongs to the client that reads it.                            *)
(***************************************************************************)
THEOREM OwnershipInvariant == Spec => []OwnInv
<1>1. Init => OwnInv
  BY PoolAssumption, ClientsAssumption
     DEF Init, OwnInv, Held, AnswersReachTheirAsker, NewcomersHoldNothing
<1>2. TypeInv /\ OwnInv /\ [Next]_vars => OwnInv'
  <2> SUFFICES ASSUME TypeInv, OwnInv, [Next]_vars PROVE OwnInv'
    OBVIOUS
  <2>0. Held /\ AnswersReachTheirAsker /\ NewcomersHoldNothing
    BY DEF OwnInv
  <2> SUFFICES Held' /\ AnswersReachTheirAsker' /\ NewcomersHoldNothing'
    BY DEF OwnInv
  <2> DEFINE Without == {"none", "INIT", "closed"}
  <2>t. fsm \in [Clients -> FsmStates] /\ conn \in [Clients -> Conns \cup {NoConn}]
    BY DEF TypeInv, TypeOK
  <2>1. ASSUME UNCHANGED <<conn_free, name, job, conn, wire, asked, reused>>
        PROVE  Held' /\ AnswersReachTheirAsker'
    BY <2>0, <2>1 DEF Held, AnswersReachTheirAsker
  <2>2. ASSUME UNCHANGED conn,
               \A p \in Clients : fsm'[p] \in Without => fsm[p] \in Without
        PROVE  NewcomersHoldNothing'
    BY <2>0, <2>2 DEF NewcomersHoldNothing
  <2>3. CASE UNCHANGED vars
    BY <2>3, <2>1, <2>2 DEF vars, pool, libpq
  <2>4. ASSUME NEW r \in Pages, PageArrives(r) \/ HttpProcess(r) \/ PageLeaves(r)
               \/ RequestDbWaitMoves(r)
        PROVE  Held' /\ AnswersReachTheirAsker' /\ NewcomersHoldNothing'
    <3>1. UNCHANGED <<conn_free, name, job, conn, wire, asked, reused>>
      BY <2>4 DEF PageArrives, HttpProcess, PageLeaves, RequestDbWaitMoves, pool, libpq
    <3>2. \A p \in Clients : fsm'[p] \in Without => fsm[p] \in Without
      BY <2>4, <2>t DEF PageArrives, HttpProcess, PageLeaves, RequestDbWaitMoves
    <3> QED BY <2>1, <2>2, <3>1, <3>2
  <2>5. ASSUME NEW p \in Clients, NEW c \in Conns, SetupTakes(p, c),
               fsm[p] \in Without, NEW f \in FsmStates \ Without,
               fsm' = [fsm EXCEPT ![p] = f], reused' = reused
        PROVE  /\ Held' /\ NewcomersHoldNothing' /\ wire[c] = <<>> /\ job'[c] = p
               /\ \A b \in Conns : b # c => job'[b] = job[b]
               /\ \A x \in Clients : conn'[x] = conn[x] \/ conn'[x] = c
    <3>1. conn[p] = NoConn
      BY <2>0, <2>5 DEF NewcomersHoldNothing
    <3>2. /\ Held' /\ wire[c] = <<>> /\ job'[c] = p /\ conn'[p] = c
          /\ \A b \in Conns : b # c => job'[b] = job[b]
          /\ \A x \in Clients : x # p => conn'[x] = conn[x]
      BY <2>0, <2>5, <3>1, TakesOwn
    <3>3. NewcomersHoldNothing'
      BY <2>0, <2>5, <2>t, <3>2 DEF NewcomersHoldNothing
    <3> QED BY <3>2, <3>3
  <2>6. ASSUME NEW c \in Conns, wire[c] = <<>>,
               \A b \in Conns : b # c => job'[b] = job[b], UNCHANGED <<wire, asked>>,
               \A x \in Clients : conn'[x] = conn[x] \/ conn'[x] = c
        PROVE  AnswersReachTheirAsker'
    BY <2>0, <2>6 DEF AnswersReachTheirAsker, TypeInv, TypeOK
  <2>7. ASSUME NEW p \in Clients, SetupQueues(p) \/ SetupFails(p), UNCHANGED <<wire, asked, reused>>,
               \A x \in Clients : fsm'[x] \in Without => fsm[x] \in Without
        PROVE  Held' /\ AnswersReachTheirAsker' /\ NewcomersHoldNothing'
    BY <2>1, <2>2, <2>7 DEF SetupQueues, SetupFails, pool
  <2>8. ASSUME NEW r \in Pages, RequestPerformInit(r)
        PROVE  Held' /\ AnswersReachTheirAsker' /\ NewcomersHoldNothing'
    <3>1. r \in Clients
      BY DEF Clients
    <3>2. fsm[r] \in Without /\ UNCHANGED <<wire, asked, reused>> /\ reused' = reused
      BY <2>8 DEF RequestPerformInit
    <3>3. ASSUME NEW c \in Conns, SetupTakes(r, c), fsm' = [fsm EXCEPT ![r] = "QUERY"]
          PROVE  Held' /\ AnswersReachTheirAsker' /\ NewcomersHoldNothing'
      <4>1. "QUERY" \in FsmStates \ Without
        BY DEF FsmStates
      <4>2. /\ Held' /\ NewcomersHoldNothing' /\ wire[c] = <<>> /\ job'[c] = r
            /\ \A b \in Conns : b # c => job'[b] = job[b]
            /\ \A x \in Clients : conn'[x] = conn[x] \/ conn'[x] = c
        BY <2>5, <3>1, <3>2, <3>3, <4>1
      <4> QED BY <2>6, <3>2, <4>2
    <3>4. CASE (SetupQueues(r) \/ SetupFails(r)) /\ (fsm' = fsm \/ fsm' = [fsm EXCEPT ![r] = "ERROR"])
      <4>1. \A x \in Clients : fsm'[x] \in Without => fsm[x] \in Without
        BY <2>t, <3>4
      <4> QED BY <2>7, <3>1, <3>2, <3>4, <4>1
    <3> QED BY <2>8, <3>3, <3>4 DEF RequestPerformInit
  <2>9. ASSUME NEW r \in Pages, RequestPerformQuery(r)
        PROVE  Held' /\ AnswersReachTheirAsker' /\ NewcomersHoldNothing'
    <3>1. r \in Clients
      BY DEF Clients
    <3>2. Held' /\ UNCHANGED <<job, conn>>
      BY <2>0, <2>9 DEF RequestPerformQuery, Held, pool
    <3>3. NewcomersHoldNothing'
      BY <2>2, <2>9, <2>t DEF RequestPerformQuery
    <3>4. AnswersReachTheirAsker'
      <4>1. CASE QueryFails(r)
        BY <2>0, <3>2, <4>1 DEF QueryFails, AnswersReachTheirAsker
      <4>2. CASE QuerySent(r, conn[r]) /\ conn[r] # NoConn
        BY <2>0, <2>t, <3>1, <3>2, <4>2, SentOwn DEF Held
      <4>3. CASE QuerySent(r, conn[r]) /\ conn[r] = NoConn
        <5>1. wire' = wire /\ asked' = asked
          BY <4>3, PoolAssumption DEF QuerySent, TypeInv, TypeOK
        <5> QED BY <2>0, <3>2, <5>1 DEF AnswersReachTheirAsker
      <4> QED BY <2>9, <4>1, <4>2, <4>3 DEF RequestPerformQuery
    <3> QED BY <3>2, <3>3, <3>4
  <2>10. ASSUME NEW p \in Clients, NEW q, NEW n, ConnRelease(p, q, n), reused' = reused,
                \A x \in Clients \ {p} : fsm'[x] \in Without => fsm[x] \in Without
         PROVE  Held' /\ AnswersReachTheirAsker' /\ NewcomersHoldNothing'
    <3>1. conn'[p] = NoConn
      BY <2>10, <2>t DEF ConnRelease
    <3> QED BY <2>0, <2>10, <3>1, ReleaseOwn DEF NewcomersHoldNothing
  <2>11. ASSUME NEW r \in Pages, RequestDbWaitContinues(r) \/ RequestDbRead(r)
         PROVE  Held' /\ AnswersReachTheirAsker' /\ NewcomersHoldNothing'
    <3>1. r \in Clients
      BY DEF Clients
    <3>2. /\ \A x \in Clients : fsm'[x] \in Without => fsm[x] \in Without
          /\ reused' = reused
      BY <2>11, <2>t DEF RequestDbWaitContinues, RequestDbRead
    <3>3. CASE PageHandle(r) /\ UNCHANGED <<pool, queue, conn>>
      BY <2>0, <2>2, <3>1, <3>2, <3>3, HandleOwn
    <3>4. CASE ConnRelease(r, wait_queue, queue_count)
      BY <2>10, <3>1, <3>2, <3>4
    <3> QED BY <2>11, <3>3, <3>4 DEF RequestDbWaitContinues, RequestDbRead
  <2>12. ASSUME NEW p \in Clients, RequestEnds(p) \/ PageFreed(p) \/ SessionDecides(p)
         PROVE  Held' /\ AnswersReachTheirAsker' /\ NewcomersHoldNothing'
    <3>1. /\ \A x \in Clients \ {p} : fsm'[x] \in Without => fsm[x] \in Without
          /\ reused' = reused
      BY <2>12, <2>t DEF RequestEnds, PageFreed, SessionDecides
    <3>2. ConnRelease(p, RemoveFirst(wait_queue, p), CountRemove(p))
      BY <2>12 DEF RequestEnds, PageFreed, SessionDecides, Cleanup
    <3> QED BY <2>10, <3>1, <3>2
  <2>13. ASSUME NEW s \in Sessions, SessionAsks(s)
         PROVE  Held' /\ AnswersReachTheirAsker' /\ NewcomersHoldNothing'
    <3>1. s \in Clients
      BY DEF Clients
    <3>2. fsm[s] \in Without /\ fsm' = [fsm EXCEPT ![s] = "asking"] /\ reused' = reused
      BY <2>13 DEF SessionAsks
    <3>3. ASSUME NEW c \in Conns, SetupTakes(s, c), QuerySent(s, c) \/ QueryFails(s)
          PROVE  Held' /\ AnswersReachTheirAsker' /\ NewcomersHoldNothing'
      <4>1. "asking" \in FsmStates \ Without
        BY DEF FsmStates
      <4>2. /\ Held' /\ NewcomersHoldNothing' /\ wire[c] = <<>> /\ job'[c] = s
            /\ \A b \in Conns : b # c => job'[b] = job[b]
            /\ \A x \in Clients : conn'[x] = conn[x] \/ conn'[x] = c
        BY <2>5, <3>1, <3>2, <3>3, <4>1
      <4>3. AnswersReachTheirAsker'
        <5>1. CASE QuerySent(s, c)
          BY <2>0, <3>1, <4>2, <5>1, SentOwn
        <5>2. CASE QueryFails(s)
          BY <2>6, <4>2, <5>2 DEF QueryFails
        <5> QED BY <3>3, <5>1, <5>2
      <4> QED BY <4>2, <4>3
    <3>4. CASE (SetupQueues(s) \/ SetupFails(s)) /\ UNCHANGED <<scheduled, libpq>>
      <4>1. \A x \in Clients : fsm'[x] \in Without => fsm[x] \in Without
        BY <2>t, <3>2
      <4> QED BY <2>7, <3>1, <3>2, <3>4, <4>1 DEF libpq
    <3> QED BY <2>13, <3>3, <3>4 DEF SessionAsks
  <2>19. ASSUME NEW s \in Sessions, SessionLeaves(s)
         PROVE  Held' /\ AnswersReachTheirAsker' /\ NewcomersHoldNothing'
    <3>1. \A x \in Clients : fsm'[x] \in Without => fsm[x] \in Without
      BY <2>19, <2>t DEF SessionLeaves
    <3> QED BY <2>1, <2>2, <2>19, <3>1 DEF SessionLeaves, pool, libpq
  <2>22. ASSUME NEW s \in Sessions, SessionPasses(s)
         PROVE  Held' /\ AnswersReachTheirAsker' /\ NewcomersHoldNothing'
    <3>1. conn[s] = NoConn /\ conn' = conn /\ \A x \in Clients \ {s} : fsm'[x] = fsm[x]
      BY <2>22, <2>t DEF SessionPasses
    <3>2. NewcomersHoldNothing'
      BY <2>0, <2>t, <3>1 DEF NewcomersHoldNothing
    <3> QED BY <2>1, <2>2, <2>22, <3>2 DEF SessionPasses, pool, libpq
  <2>20. ASSUME NEW s \in Sessions, SessionAgain(s)
         PROVE  Held' /\ AnswersReachTheirAsker' /\ NewcomersHoldNothing'
    <3>1. /\ UNCHANGED <<conn_free, name, job, wire>>
          /\ reused' = reused \cup {s}
          /\ fsm' = [fsm EXCEPT ![s] = "none"]
          /\ conn' = [conn EXCEPT ![s] = NoConn]
          /\ \A c \in Conns : asked'[c] = IF asked[c] = s THEN NoClient ELSE asked[c]
          /\ s \in Clients
      BY <2>20 DEF SessionAgain, pool, Clients
    <3>2. \A x \in Clients \ {s} : conn'[x] = conn[x] /\ fsm'[x] = fsm[x]
      BY <2>t, <3>1
    <3>3. conn'[s] = NoConn
      BY <2>t, <3>1
    <3>4. Held'
      BY <2>0, <2>t, <3>1, <3>2, <3>3 DEF Held, TypeInv, TypeOK
    <3>5. AnswersReachTheirAsker'
      BY <2>0, <2>t, <3>1, <3>2, <3>3, PoolAssumption DEF AnswersReachTheirAsker, TypeInv, TypeOK
    <3>6. NewcomersHoldNothing'
      BY <2>0, <3>2, <3>3 DEF NewcomersHoldNothing
    <3> QED BY <3>4, <3>5, <3>6
  <2>14. ASSUME NEW s \in Sessions, SessionSleeps(s)
         PROVE  Held' /\ AnswersReachTheirAsker' /\ NewcomersHoldNothing'
    BY <2>1, <2>2, <2>14 DEF SessionSleeps, pool, libpq
  <2>15. ASSUME NEW c \in Conns, Arrive(c) \/ ServerDrops(c)
         PROVE  Held' /\ AnswersReachTheirAsker' /\ NewcomersHoldNothing'
    BY <2>1, <2>2, <2>15 DEF Arrive, ServerDrops, pool
  <2>16. ASSUME NEW c \in Conns, ReadEvent(c)
         PROVE  Held' /\ AnswersReachTheirAsker' /\ NewcomersHoldNothing'
    <3>1. job[c] \in Clients /\ fsm' = fsm /\ reused' = reused
      BY <2>16 DEF ReadEvent, Clients
    <3>2. CASE PageHandle(job[c]) /\ UNCHANGED <<pool, queue, conn>>
      BY <2>0, <2>2, <3>1, <3>2, HandleOwn
    <3>3. CASE ConnRelease(job[c], wait_queue, queue_count)
      BY <2>10, <3>1, <3>3
    <3>4. CASE UNCHANGED <<pool, queue, conn, libpq, asleep>>
      BY <2>1, <2>2, <3>1, <3>4 DEF pool, libpq
    <3> QED BY <2>16, <3>2, <3>3, <3>4 DEF ReadEvent, SessionHandle
  <2>21. ASSUME NEW c \in Conns, StaleEvent(c)
         PROVE  Held' /\ AnswersReachTheirAsker' /\ NewcomersHoldNothing'
    <3>1. job[c] \in Clients /\ fsm' = fsm /\ reused' = reused
      BY <2>21 DEF StaleEvent, Clients
    <3>2. CASE ConnRelease(job[c], wait_queue, queue_count)
      BY <2>10, <3>1, <3>2
    <3>3. CASE UNCHANGED <<pool, conn, wire, asked>>
      BY <2>1, <2>2, <3>1, <3>3 DEF pool
    <3> QED BY <2>21, <3>2, <3>3 DEF StaleEvent, libpq
  <2>17. ASSUME NEW c \in Conns, ErrorEvent(c)
         PROVE  Held' /\ AnswersReachTheirAsker' /\ NewcomersHoldNothing'
    <3>1. job[c] # NoClient /\ job[c] \in Clients /\ c \notin conn_free
          /\ (conn[job[c]] = c \/ job[c] \in reused)
      BY <2>0, <2>17 DEF ErrorEvent, Reading, Held, TypeInv, TypeOK
    <3>2. /\ conn_free' = conn_free
          /\ name' = [name EXCEPT ![c] = NoDb]
          /\ job' = [job EXCEPT ![c] = NoClient]
          /\ conn' = [conn EXCEPT ![job[c]] = NoConn]
          /\ wire' = [wire EXCEPT ![c] = <<>>]
          /\ asked' = [asked EXCEPT ![c] = NoClient]
          /\ fsm' = fsm /\ reused' = reused
      BY <2>17 DEF ErrorEvent
    <3> DEFINE p == job[c]
    <3>3. /\ conn'[p] = NoConn
          /\ \A x \in Clients \ {p} : conn'[x] = conn[x]
          /\ job'[c] = NoClient /\ name'[c] = NoDb /\ wire'[c] = <<>>
          /\ \A b \in Conns \ {c} : job'[b] = job[b] /\ name'[b] = name[b]
                                  /\ wire'[b] = wire[b] /\ asked'[b] = asked[b]
      BY <2>t, <3>1, <3>2 DEF TypeInv, TypeOK
    <3>4. \A x \in Clients \ {p} : conn[x] # c
      BY <2>0, PoolAssumption DEF Held
    <3> HIDE DEF p
    <3>5. \A b \in Conns \ {c} : job[b] = p => p \in reused
      BY <2>0, <3>1 DEF Held, p
    <3>6. Held'
      <4>1. \A b \in conn_free' : name'[b] # NoDb /\ job'[b] = NoClient
        BY <2>0, <3>1, <3>2, <3>3 DEF Held, TypeInv, TypeOK
      <4>2. \A b \in Conns : name'[b] # NoDb /\ b \notin conn_free' => job'[b] # NoClient
        BY <2>0, <3>2, <3>3 DEF Held
      <4>3. \A b \in Conns : job'[b] # NoClient =>
               name'[b] # NoDb /\ (conn'[job'[b]] = b \/ job'[b] \in reused')
        BY <2>0, <3>2, <3>3, <3>5 DEF Held, TypeInv, TypeOK
      <4>4. \A x \in Clients : conn'[x] # NoConn => job'[conn'[x]] = x
        BY <2>0, <2>t, <3>3, <3>4 DEF Held
      <4> QED BY <4>1, <4>2, <4>3, <4>4 DEF Held
    <3>7. AnswersReachTheirAsker'
      <4> SUFFICES ASSUME NEW b \in Conns, wire'[b] # <<>>
                   PROVE  job'[b] # NoClient /\ (conn'[job'[b]] = b => asked'[b] = job'[b])
        BY DEF AnswersReachTheirAsker
      <4>1. /\ b # c /\ job'[b] = job[b] /\ asked'[b] = asked[b] /\ wire[b] # <<>>
            /\ b # NoConn /\ job[b] \in Clients \cup {NoClient}
        BY <3>3, PoolAssumption DEF TypeInv, TypeOK
      <4>2. job[b] # NoClient /\ (conn[job[b]] = b => asked[b] = job[b])
        BY <2>0, <4>1 DEF AnswersReachTheirAsker
      <4> QED BY <3>3, <4>1, <4>2
    <3>8. NewcomersHoldNothing'
      BY <2>0, <3>2, <3>3 DEF NewcomersHoldNothing
    <3> QED BY <3>6, <3>7, <3>8
  <2>18. Pages \subseteq Clients /\ Sessions \subseteq Clients
    BY DEF Clients
  <2> QED BY <2>3, <2>4, <2>8, <2>9, <2>11, <2>12, <2>13, <2>14, <2>15, <2>16, <2>17, <2>18,
             <2>19, <2>20, <2>21, <2>22 DEF Next, RunPage
<1> QED BY <1>1, <1>2, TypeCorrect, PTL DEF Spec

\* A connection is free, or held by exactly the client its job names; a job
\* names somebody else only where the memory of a session that left went to
\* another.
THEOREM OwnershipHolds == Spec => []Ownership
<1>1. TypeInv /\ OwnInv => Ownership
  BY HeldOwns DEF OwnInv
<1> QED BY <1>1, TypeCorrect, OwnershipInvariant, PTL

\* A result never reaches the next user of a connection.
THEOREM AnswersHold == Spec => []AnswersReachTheirAsker
BY OwnershipInvariant, PTL DEF OwnInv

----------------------------------------------------------------------------
(***************************************************************************)
(* The wait queue: its counter is exact, nobody sleeps where nothing can    *)
(* wake it, and what holds of the counters and of the wake-ups while no     *)
(* connection fails.                                                        *)
(***************************************************************************)

\* The clients that have an entry in q.
Waiting(q) == {q[i] : i \in DOMAIN q}

\* No entry occurs twice in q, but for those of reused memory.
Distinct(q) == \A i, j \in DOMAIN q : q[i] = q[j] => i = j \/ q[i] \in reused

----------------------------------------------------------------------------
(* What pgsql_queue_wakeup and pgsql_queue_remove do to the queue.           *)

(***************************************************************************)
(* pgsql_queue_wakeup stops at the first request that is not deleted: the  *)
(* entries before it are all of deleted requests, and it passes over the   *)
(* whole queue only when there is no other.                                *)
(***************************************************************************)
LEMMA WokenFirst ==
    ASSUME NEW q \in Seq(Clients)
    PROVE  /\ \A i \in 1..Len(q) : i < WokenAt(q) => q[i] \in deleted
           /\ q # <<>> => WokenAt(q) \in 1..Len(q)
           /\ WokenAt(q) \in 1..(Len(q) - 1) => q[WokenAt(q)] \notin deleted
<1> DEFINE I == {i \in 1..Len(q) : q[i] \notin deleted}
<1>1. CASE I = {}
  <2>1. WokenAt(q) = Len(q)
    BY <1>1 DEF WokenAt, SelectInSeq
  <2> QED BY <1>1, <2>1
<1>2. CASE I # {}
  <2>1. Min(I) \in I /\ \A y \in I : Min(I) <= y
    <3> HIDE DEF I
    <3>1. I \in SUBSET Nat
      BY DEF I
    <3> QED BY <1>2, <3>1, MinInRange
  <2>2. WokenAt(q) = Min(I)
    BY <1>2, <2>1 DEF WokenAt, SelectInSeq
  <2> HIDE DEF I
  <2>3. Min(I) \in 1..Len(q) /\ q[Min(I)] \notin deleted
    BY <2>1 DEF I
  <2>4. ASSUME NEW i \in 1..Len(q), i < Min(I) PROVE q[i] \in deleted
    <3>1. i \notin I
      BY <2>1, <2>3, <2>4
    <3> QED BY <3>1 DEF I
  <2> QED BY <2>2, <2>3, <2>4
<1> QED BY <1>1, <1>2

\* What a release does to the queue q: its counter stays exact, nobody is added
\* or doubled, who stays in it sleeps on, and a page that leaves it is awake or
\* was deleted.
Shrinks(q) ==
    /\ wait_queue' \in Seq(Clients)
    /\ queue_count' = Len(wait_queue')
    /\ Len(wait_queue') <= Len(q)
    /\ Distinct(wait_queue')
    /\ reused' = reused
    /\ Waiting(wait_queue') \subseteq Waiting(q)
    /\ asleep' \subseteq asleep
    /\ \A x \in Waiting(wait_queue') : x \in asleep => x \in asleep'
    /\ \A x \in asleep' \cap Pages :
          x \in Waiting(q) => x \in Waiting(wait_queue') \/ x \in deleted

\* Waking the head of an exact queue leaves an exact queue.
LEMMA WakeupShrinks ==
    ASSUME TypeInv, NEW q \in Seq(Clients), Distinct(q), QueueWakeup(q, Len(q)),
           reused' = reused
    PROVE  Shrinks(q)
<1> DEFINE k == WokenAt(q)
           rest == SubSeq(q, k + 1, Len(q))
           woken == {q[i] : i \in {k} \cap DOMAIN q} \cap Pages
<1>1. k \in 0..Len(q) /\ Len(q) \in Nat /\ DOMAIN q = 1..Len(q)
  BY WokenRange
<1>2. /\ rest \in Seq(Clients)
      /\ Len(rest) = Len(q) - k
      /\ \A i \in 1..Len(rest) : i + k \in 1..Len(q) /\ rest[i] = q[i + k]
  BY WokenRest
<1>3. /\ wait_queue' = rest
      /\ queue_count' = Len(q) - k
      /\ asleep' = asleep \ woken
  BY DEF QueueWakeup
<1>4. \A i \in 1..Len(q) : i < k => q[i] \in deleted
  BY WokenFirst
<1> HIDE DEF k, rest
<1>5. DOMAIN rest = 1..Len(rest) /\ Len(rest) \in Nat
  BY <1>2
<1>6. Distinct(rest)
  <2> SUFFICES ASSUME NEW i \in 1..Len(rest), NEW j \in 1..Len(rest), rest[i] = rest[j]
               PROVE  i = j \/ rest[i] \in reused
    BY <1>5 DEF Distinct
  <2>1. i + k = j + k \/ rest[i] \in reused
    BY <1>1, <1>2 DEF Distinct
  <2> QED BY <1>1, <2>1
<1>7. Waiting(rest) \subseteq Waiting(q)
  BY <1>1, <1>2, <1>5 DEF Waiting
<1>8. ASSUME NEW x \in Waiting(rest) PROVE x \notin woken
  <2> PICK i \in 1..Len(rest) : x = rest[i]
    BY <1>5 DEF Waiting
  <2>1. i + k \in 1..Len(q) /\ x = q[i + k] /\ i + k # k
    BY <1>1, <1>2
  <2>2. x \in Pages => x \notin reused
    BY ClientsAssumption DEF TypeInv, TypeOK
  <2> QED BY <1>1, <2>1, <2>2 DEF Distinct
<1>9. ASSUME NEW x \in asleep' \cap Pages, x \in Waiting(q)
      PROVE  x \in Waiting(rest) \/ x \in deleted
  <2> PICK i \in 1..Len(q) : x = q[i]
    BY <1>1, <1>9 DEF Waiting
  <2>1. CASE i < k
    BY <1>4, <2>1
  <2>2. CASE i = k
    BY <1>1, <1>3, <2>2
  <2>3. CASE i > k
    <3>1. i - k \in 1..Len(rest) /\ (i - k) + k = i
      BY <1>1, <1>2, <2>3
    <3>2. rest[i - k] = x
      BY <1>2, <3>1
    <3> QED BY <1>5, <3>1, <3>2 DEF Waiting
  <2> QED BY <1>1, <2>1, <2>2, <2>3
<1> HIDE DEF woken
<1>10. /\ wait_queue' \in Seq(Clients)
       /\ queue_count' = Len(wait_queue')
       /\ Len(wait_queue') <= Len(q)
  <2>1. rest \in Seq(Clients) /\ Len(q) - k = Len(rest) /\ Len(rest) <= Len(q)
    BY <1>1, <1>2
  <2> QED BY <1>3, <2>1
<1>11. Distinct(wait_queue') /\ Waiting(wait_queue') \subseteq Waiting(q)
  BY <1>3, <1>6, <1>7 DEF Distinct, Waiting
<1>12. \A x \in Waiting(wait_queue') : x \in asleep => x \in asleep'
  BY <1>3, <1>8
<1>13. \A x \in asleep' \cap Pages :
          x \in Waiting(q) => x \in Waiting(wait_queue') \/ x \in deleted
  BY <1>3, <1>9
<1> QED BY <1>3, <1>10, <1>11, <1>12, <1>13 DEF Shrinks

\* pgsql_conn_release as a whole, and what it does to the client it is for.
LEMMA ReleaseShrinks ==
    ASSUME TypeInv, NEW p \in Clients, NEW q \in Seq(Clients), Distinct(q),
           ConnRelease(p, q, Len(q)), reused' = reused
    PROVE  /\ Shrinks(q)
           /\ conn'[p] = NoConn
           /\ \A x \in Clients \ {p} : conn'[x] = conn[x] /\ state'[x] = state[x]
           /\ \/ conn[p] = NoConn /\ state'[p] = state[p]
              \/ state'[p] = "COMPLETE"
<1>1. CASE conn[p] = NoConn
  BY <1>1 DEF ConnRelease, Shrinks, Distinct
<1>2. CASE conn[p] # NoConn
  <2>1. QueueWakeup(q, Len(q))
    BY <1>2 DEF ConnRelease
  <2>2. Shrinks(q)
    BY <2>1, WakeupShrinks
  <2> QED BY <1>2, <2>2 DEF ConnRelease, TypeInv, TypeOK
<1> QED BY <1>1, <1>2

\* pgsql_queue_remove takes exactly the entry of p out of an exact queue.
LEMMA RemovedExact ==
    ASSUME TypeInv, queue_count = Len(wait_queue), Distinct(wait_queue), NEW p \in Clients
    PROVE  LET q == RemoveFirst(wait_queue, p)
           IN  /\ q \in Seq(Clients)
               /\ CountRemove(p) = Len(q)
               /\ Len(q) <= Len(wait_queue)
               /\ Distinct(q)
               /\ Waiting(q) \subseteq Waiting(wait_queue)
               /\ Waiting(wait_queue) \ {p} \subseteq Waiting(q)
               /\ p \in Waiting(q) => p \in reused
<1> DEFINE w == wait_queue
           q == RemoveFirst(w, p)
<1>1. w \in Seq(Clients) /\ Len(w) \in Nat /\ DOMAIN w = 1..Len(w)
  BY DEF TypeInv, TypeOK
<1>2. CASE ~Contains(w, p)
  <2>1. q = w
    BY <1>1, <1>2, RemovedAbsent
  <2>2. p \notin Waiting(w)
    BY <1>1, <1>2 DEF Contains, Waiting
  <2> QED BY <1>1, <1>2, <2>1, <2>2 DEF CountRemove
<1>3. CASE Contains(w, p)
  <2>1. PICK k \in 1..Len(w) :
              /\ w[k] = p
              /\ q \in Seq(Clients)
              /\ Len(q) = Len(w) - 1
              /\ \A i \in 1..(Len(w) - 1) : q[i] = IF i < k THEN w[i] ELSE w[i + 1]
    BY <1>1, <1>3, RemovedPresent
  <2>2. CountRemove(p) = Len(q)
    BY <1>3, <2>1 DEF CountRemove
  <2> HIDE DEF q, w
  <2>3. DOMAIN q = 1..(Len(w) - 1)
    BY <1>1, <2>1
  <2>4. \A i \in 1..(Len(w) - 1) :
           \E j \in 1..Len(w) : j # k /\ q[i] = w[j] /\ j = (IF i < k THEN i ELSE i + 1)
    <3> TAKE i \in 1..(Len(w) - 1)
    <3>1. CASE i < k
      BY <1>1, <2>1, <3>1
    <3>2. CASE ~(i < k)
      <4>1. i + 1 \in 1..Len(w) /\ i + 1 # k
        BY <1>1, <2>1, <3>2
      <4> QED BY <2>1, <3>2, <4>1
    <3> QED BY <3>1, <3>2
  <2>5. Distinct(q)
    <3> SUFFICES ASSUME NEW i \in 1..(Len(w) - 1), NEW j \in 1..(Len(w) - 1), q[i] = q[j]
                 PROVE  i = j \/ q[i] \in reused
      BY <2>3 DEF Distinct
    <3>1. PICK a \in 1..Len(w) : q[i] = w[a] /\ a = (IF i < k THEN i ELSE i + 1)
      BY <2>4
    <3>2. PICK b \in 1..Len(w) : q[j] = w[b] /\ b = (IF j < k THEN j ELSE j + 1)
      BY <2>4
    <3>3. a = b \/ q[i] \in reused
      BY <1>1, <3>1, <3>2 DEF Distinct, w
    <3> QED BY <3>1, <3>2, <3>3
  <2>6. Waiting(q) \subseteq Waiting(w) /\ (p \in Waiting(q) => p \in reused)
    <3> SUFFICES ASSUME NEW i \in 1..(Len(w) - 1)
                 PROVE  q[i] \in Waiting(w) /\ (q[i] = p => p \in reused)
      BY <2>3 DEF Waiting
    <3>1. PICK a \in 1..Len(w) : a # k /\ q[i] = w[a]
      BY <2>4
    <3> QED BY <1>1, <2>1, <3>1, SMTT(60) DEF Distinct, Waiting, w
  <2>7. Waiting(w) \ {p} \subseteq Waiting(q)
    <3> SUFFICES ASSUME NEW a \in 1..Len(w), w[a] # p PROVE w[a] \in Waiting(q)
      BY <1>1 DEF Waiting
    <3>1. CASE a < k
      <4>1. a \in 1..(Len(w) - 1)
        BY <1>1, <2>1, <3>1
      <4> QED BY <2>1, <2>3, <3>1, <4>1 DEF Waiting
    <3>2. CASE a > k
      <4>1. a - 1 \in 1..(Len(w) - 1) /\ ~(a - 1 < k) /\ (a - 1) + 1 = a
        BY <1>1, <2>1, <3>2
      <4> QED BY <2>1, <2>3, <4>1 DEF Waiting
    <3> QED BY <1>1, <2>1, <3>1, <3>2
  <2>8. Len(q) <= Len(w)
    BY <1>1, <2>1
  <2> QED BY <2>1, <2>2, <2>5, <2>6, <2>7, <2>8 DEF q, w
<1> QED BY <1>2, <1>3

----------------------------------------------------------------------------
(* The inductive invariant of the queue and of the sleepers.                 *)

\* Who waits is inside kore_pgsql_setup with nothing in hand: a page asleep in
\* its first state, unless its peer has left; a session after its only call,
\* gone or not.  Reused memory may be anywhere.
WaitersParked ==
    \A p \in Waiting(wait_queue) \ reused :
        /\ conn[p] = NoConn
        /\ p \in Pages => fsm[p] = "INIT" /\ p \in asleep \cup deleted
        /\ p \in Sessions => fsm[p] \in {"asking", "left"}

\* The wait queue: counted exactly, within its limit, nobody in it twice, and
\* everybody in it parked.
QueueInv ==
    /\ queue_count = Len(wait_queue)
    /\ queue_count <= QueueLimit
    /\ Distinct(wait_queue)
    /\ WaitersParked

\* The page inside http_state_run was not deleted, and is awake except where
\* kore_pgsql_continue has just put it to sleep; only that page is in one of
\* the states http_state_run passes through.
RunnerAwake ==
    \A r \in Pages :
        /\ running = r => r \notin deleted /\ (fsm[r] # "DB_WAIT" => r \notin asleep)
        /\ fsm[r] \in {"QUERY", "DB_READ", "ERROR", "DONE"} => running = r
        /\ fsm[r] = "QUERY" => conn[r] # NoConn
        /\ fsm[r] = "DB_READ" => state[r] = "RESULT"

\* A page with a query under way holds a connection that is scheduled for
\* reading.
Underway ==
    \A r \in Pages :
        state[r] \in {"WAIT", "RESULT", "DONE", "COMMANDOK"}
           => conn[r] # NoConn /\ conn[r] \in scheduled

\* A page asleep waits for a connection or for an answer; leaving wakes it.
Sleepers ==
    \A r \in Pages \cap asleep :
        /\ r \notin deleted
        /\ r \in Waiting(wait_queue) \/ state[r] = "WAIT"

\* The inductive invariant of the wait queue and of the clients asleep.
PoolInv == QueueInv /\ RunnerAwake /\ Underway /\ Sleepers

\* A step that leaves the queue alone, and the waiters where they are.
LEMMA QueueFrame ==
    ASSUME QueueInv, UNCHANGED queue, reused \subseteq reused',
           \A p \in Waiting(wait_queue) \ reused' :
              /\ conn'[p] = conn[p] /\ fsm'[p] = fsm[p]
              /\ p \in asleep \cup deleted => p \in asleep' \cup deleted'
    PROVE  QueueInv' /\ Waiting(wait_queue') = Waiting(wait_queue)
<1>1. wait_queue' = wait_queue /\ queue_count' = queue_count
  BY DEF queue
<1>2. Waiting(wait_queue') = Waiting(wait_queue) /\ Distinct(wait_queue')
  BY <1>1 DEF QueueInv, Distinct, Waiting
<1>3. WaitersParked'
  <2> SUFFICES ASSUME NEW x \in Waiting(wait_queue') \ reused'
               PROVE  /\ conn'[x] = NoConn
                      /\ x \in Pages => fsm'[x] = "INIT" /\ x \in asleep' \cup deleted'
                      /\ x \in Sessions => fsm'[x] \in {"asking", "left"}
    BY DEF WaitersParked
  <2>1. x \in Waiting(wait_queue) \ reused /\ x \in Waiting(wait_queue) \ reused'
    BY <1>2
  <2>2. /\ conn'[x] = conn[x] /\ fsm'[x] = fsm[x]
        /\ x \in asleep \cup deleted => x \in asleep' \cup deleted'
    BY <2>1
  <2> QED BY <2>1, <2>2 DEF QueueInv, WaitersParked
<1>4. \A i, j \in DOMAIN wait_queue' :
         wait_queue'[i] = wait_queue'[j] => i = j \/ wait_queue'[i] \in reused'
  BY <1>1 DEF QueueInv, Distinct
<1> QED BY <1>1, <1>3, <1>4 DEF QueueInv, Distinct

\* pgsql_queue_add for a client that has no entry.
LEMMA QueuesExact ==
    ASSUME TypeInv, QueueInv, NEW p \in Clients, p \notin Waiting(wait_queue) \ reused,
           SetupQueues(p), reused' = reused
    PROVE  /\ queue_count' = Len(wait_queue')
           /\ queue_count' <= QueueLimit
           /\ Distinct(wait_queue')
           /\ Waiting(wait_queue') = Waiting(wait_queue) \cup {p}
<1> DEFINE w == wait_queue
<1>1. w \in Seq(Clients) /\ Len(w) \in Nat /\ DOMAIN w = 1..Len(w)
  BY DEF TypeInv, TypeOK
<1>2. wait_queue' = Append(w, p) /\ queue_count' = queue_count + 1 /\ queue_count < QueueLimit
  BY DEF SetupQueues
<1> HIDE DEF w
<1>3. /\ Len(Append(w, p)) = Len(w) + 1
      /\ DOMAIN Append(w, p) = 1..(Len(w) + 1)
      /\ \A i \in 1..Len(w) : Append(w, p)[i] = w[i]
      /\ Append(w, p)[Len(w) + 1] = p
  BY <1>1
<1>4. Waiting(Append(w, p)) = Waiting(w) \cup {p}
  <2>1. Waiting(Append(w, p)) \subseteq Waiting(w) \cup {p}
    <3> SUFFICES ASSUME NEW i \in 1..(Len(w) + 1) PROVE Append(w, p)[i] \in Waiting(w) \cup {p}
      BY <1>3 DEF Waiting
    <3>1. i \in 1..Len(w) \/ i = Len(w) + 1
      BY <1>1
    <3> QED BY <1>1, <1>3, <3>1 DEF Waiting
  <2>2. Waiting(w) \subseteq Waiting(Append(w, p))
    <3> SUFFICES ASSUME NEW i \in 1..Len(w) PROVE w[i] \in Waiting(Append(w, p))
      BY <1>1 DEF Waiting
    <3>1. i \in 1..(Len(w) + 1)
      BY <1>1
    <3> QED BY <1>3, <3>1 DEF Waiting
  <2>3. p \in Waiting(Append(w, p))
    <3>1. Len(w) + 1 \in 1..(Len(w) + 1)
      BY <1>1
    <3> QED BY <1>3, <3>1 DEF Waiting
  <2> QED BY <2>1, <2>2, <2>3
<1>5. Distinct(Append(w, p))
  <2> SUFFICES ASSUME NEW i \in 1..(Len(w) + 1), NEW j \in 1..(Len(w) + 1),
                      Append(w, p)[i] = Append(w, p)[j]
               PROVE  i = j \/ Append(w, p)[i] \in reused
    BY <1>3 DEF Distinct
  <2>1. (i \in 1..Len(w) \/ i = Len(w) + 1) /\ (j \in 1..Len(w) \/ j = Len(w) + 1)
    BY <1>1
  <2>2. \A a \in 1..Len(w) : w[a] = p => p \in reused
    BY <1>1 DEF Waiting, w
  <2>3. \A a, b \in 1..Len(w) : w[a] = w[b] => a = b \/ w[a] \in reused
    BY <1>1 DEF QueueInv, Distinct, w
  <2> QED BY <1>3, <2>1, <2>2, <2>3
<1>6. queue_count + 1 = Len(w) + 1 /\ queue_count + 1 <= QueueLimit
  BY <1>1, <1>2, PoolAssumption DEF QueueInv, w
<1> QED BY <1>2, <1>3, <1>4, <1>5, <1>6 DEF Distinct, Waiting, w

\* kore_pgsql_cleanup takes the entry of p out, and may wake somebody.
LEMMA CleanupShrinks ==
    ASSUME TypeInv, QueueInv, NEW p \in Clients, Cleanup(p), reused' = reused
    PROVE  /\ Shrinks(RemoveFirst(wait_queue, p))
           /\ Waiting(RemoveFirst(wait_queue, p)) \subseteq Waiting(wait_queue)
           /\ Waiting(wait_queue) \ {p} \subseteq Waiting(RemoveFirst(wait_queue, p))
           /\ p \in Waiting(RemoveFirst(wait_queue, p)) => p \in reused
           /\ queue_count' <= QueueLimit
           /\ conn'[p] = NoConn
           /\ \A x \in Clients \ {p} : conn'[x] = conn[x] /\ state'[x] = state[x]
           /\ \/ conn[p] = NoConn /\ state'[p] = state[p]
              \/ state'[p] = "COMPLETE"
<1> DEFINE q == RemoveFirst(wait_queue, p)
<1>1. /\ q \in Seq(Clients)
      /\ CountRemove(p) = Len(q)
      /\ Len(q) <= Len(wait_queue)
      /\ Distinct(q)
      /\ Waiting(q) \subseteq Waiting(wait_queue)
      /\ Waiting(wait_queue) \ {p} \subseteq Waiting(q)
      /\ p \in Waiting(q) => p \in reused
  BY RemovedExact DEF QueueInv
<1>2. ConnRelease(p, q, Len(q))
  BY <1>1 DEF Cleanup
<1> HIDE DEF q
<1>3. /\ Shrinks(q)
      /\ conn'[p] = NoConn
      /\ \A x \in Clients \ {p} : conn'[x] = conn[x] /\ state'[x] = state[x]
      /\ \/ conn[p] = NoConn /\ state'[p] = state[p]
         \/ state'[p] = "COMPLETE"
  BY <1>1, <1>2, ReleaseShrinks
<1>4. queue_count' <= QueueLimit
  <2>1. Len(wait_queue') \in Nat /\ Len(q) \in Nat /\ Len(wait_queue) \in Nat /\ QueueLimit \in Nat
    BY <1>1, <1>3, PoolAssumption DEF Shrinks, TypeInv, TypeOK
  <2>2. queue_count' = Len(wait_queue') /\ Len(wait_queue') <= Len(q)
        /\ Len(wait_queue) <= QueueLimit
    BY <1>3 DEF Shrinks, QueueInv
  <2> QED BY <1>1, <2>1, <2>2
<1> QED BY <1>1, <1>3, <1>4 DEF q

\* The invariant after a release for p, whose entry is gone already.
LEMMA ReleaseInv ==
    ASSUME TypeInv, PoolInv, NEW p \in Clients, NEW q, Shrinks(q),
           Waiting(q) \subseteq Waiting(wait_queue),
           Waiting(wait_queue) \ {p} \subseteq Waiting(q),
           queue_count' <= QueueLimit,
           conn'[p] = NoConn,
           \A x \in Clients \ {p} : conn'[x] = conn[x] /\ state'[x] = state[x],
           \/ conn[p] = NoConn /\ state'[p] = state[p]
           \/ state'[p] = "COMPLETE",
           deleted' = deleted, scheduled \ {conn[p]} \subseteq scheduled',
           \A x \in Pages \ {p} : conn[x] # NoConn => conn[x] # conn[p],
           p \in Pages => p \notin asleep,
           \A x \in Clients \ {p} : fsm'[x] = fsm[x],
           p \in Waiting(q) => p \in reused
    PROVE  QueueInv' /\ Underway' /\ Sleepers'
<1>1. /\ Waiting(wait_queue') \subseteq Waiting(q)
      /\ asleep' \subseteq asleep
      /\ \A x \in Waiting(wait_queue') : x \in asleep => x \in asleep'
      /\ \A x \in asleep' \cap Pages :
            x \in Waiting(q) => x \in Waiting(wait_queue') \/ x \in deleted
      /\ queue_count' = Len(wait_queue')
      /\ Distinct(wait_queue')
      /\ reused' = reused
  BY DEF Shrinks
<1>2. Waiting(wait_queue) \subseteq Clients
  BY DEF Waiting, TypeInv, TypeOK
<1>3. WaitersParked'
  <2> SUFFICES ASSUME NEW x \in Waiting(wait_queue') \ reused'
               PROVE  /\ conn'[x] = NoConn
                      /\ x \in Pages => fsm'[x] = "INIT" /\ x \in asleep' \cup deleted'
                      /\ x \in Sessions => fsm'[x] \in {"asking", "left"}
    BY DEF WaitersParked
  <2>1. x \in Waiting(wait_queue) \ reused /\ x \in Clients \ {p}
    BY <1>1, <1>2
  <2>2. conn'[x] = conn[x] /\ fsm'[x] = fsm[x] /\ (x \in asleep => x \in asleep')
    BY <1>1, <2>1
  <2>3. /\ conn[x] = NoConn
        /\ x \in Pages => fsm[x] = "INIT" /\ x \in asleep \cup deleted
        /\ x \in Sessions => fsm[x] \in {"asking", "left"}
    BY <2>1 DEF PoolInv, QueueInv, WaitersParked
  <2> QED BY <2>2, <2>3
<1>4. QueueInv'
  BY <1>1, <1>3 DEF QueueInv, Distinct
<1>5. Underway'
  <2> SUFFICES ASSUME NEW x \in Pages, state'[x] \in {"WAIT", "RESULT", "DONE", "COMMANDOK"}
               PROVE  conn'[x] # NoConn /\ conn'[x] \in scheduled'
    BY DEF Underway
  <2>1. x \in Clients
    BY DEF Clients
  <2>2. CASE x # p
    BY <2>1, <2>2 DEF PoolInv, Underway
  <2>3. CASE x = p
    BY <2>3 DEF PoolInv, Underway
  <2> QED BY <2>2, <2>3
<1>6. Sleepers'
  <2> SUFFICES ASSUME NEW r \in Pages, r \in asleep'
               PROVE  r \notin deleted' /\ (r \in Waiting(wait_queue') \/ state'[r] = "WAIT")
    BY DEF Sleepers
  <2>1. r \in asleep /\ r # p /\ r \in Clients
    BY <1>1 DEF Clients
  <2> QED BY <1>1, <2>1 DEF PoolInv, Sleepers
<1> QED BY <1>4, <1>5, <1>6

(***************************************************************************)
(* However pages, sessions, wake-ups, disconnects and failures interleave, *)
(* the queue is exact, its waiters are parked, and a page asleep is in it  *)
(* or has a query under way.                                               *)
(***************************************************************************)
THEOREM PoolInvariant == Spec => []PoolInv
<1>1. Init => PoolInv
  <2> SUFFICES ASSUME Init PROVE PoolInv
    OBVIOUS
  <2>1. wait_queue = <<>> /\ queue_count = 0 /\ Waiting(wait_queue) = {}
    BY DEF Init, Waiting
  <2>2. QueueInv
    BY <2>1, PoolAssumption DEF QueueInv, Distinct, WaitersParked
  <2>3. RunnerAwake /\ Underway /\ Sleepers
    BY ClientsAssumption DEF Init, RunnerAwake, Underway, Sleepers, Clients
  <2> QED BY <2>2, <2>3 DEF PoolInv
<1>2. TypeInv /\ OwnInv /\ PoolInv /\ [Next]_vars => PoolInv'
  <2> SUFFICES ASSUME TypeInv, OwnInv, PoolInv, [Next]_vars PROVE PoolInv'
    OBVIOUS
  <2>0. QueueInv /\ RunnerAwake /\ Underway /\ Sleepers
    BY DEF PoolInv
  <2>t. /\ fsm \in [Clients -> FsmStates] /\ conn \in [Clients -> Conns \cup {NoConn}]
        /\ state \in [Clients -> PgStates] /\ asleep \subseteq Clients
        /\ wait_queue \in Seq(Clients)
    BY DEF TypeInv, TypeOK
  <2>c. Pages \subseteq Clients /\ Sessions \subseteq Clients /\ Pages \cap Sessions = {}
        /\ Idle \notin Pages /\ NoConn \notin Conns
    BY ClientsAssumption, PoolAssumption DEF Clients
  <2>w. \A p \in Waiting(wait_queue) :
           /\ p \in Clients
           /\ p \in Pages => conn[p] = NoConn /\ fsm[p] = "INIT" /\ p \in asleep \cup deleted
           /\ p \in Sessions /\ p \notin reused => conn[p] = NoConn /\ fsm[p] \in {"asking", "left"}
    <3>1. \A p \in Waiting(wait_queue) : p \in Clients /\ (p \in Pages => p \notin reused)
      BY <2>t, ClientsAssumption DEF Waiting, TypeInv, TypeOK
    <3> QED BY <2>0, <3>1 DEF QueueInv, WaitersParked
  <2>o. \A p, x \in Clients : p # x /\ conn[p] # NoConn => conn[x] # conn[p]
    BY DEF OwnInv, Held
  <2>1. CASE UNCHANGED vars
    <3>1. UNCHANGED <<queue, conn, fsm, asleep, deleted, running, state, scheduled, reused>>
      BY <2>1 DEF vars
    <3>2. QueueInv' /\ Waiting(wait_queue') = Waiting(wait_queue)
      BY <2>0, <3>1, QueueFrame
    <3> QED BY <2>0, <3>1, <3>2 DEF PoolInv, RunnerAwake, Underway, Sleepers
  <2>2. ASSUME NEW r \in Pages, PageArrives(r) PROVE PoolInv'
    <3>1. /\ UNCHANGED <<queue, conn, asleep, deleted, running, state, scheduled, reused>>
          /\ running = Idle /\ fsm[r] = "none" /\ fsm' = [fsm EXCEPT ![r] = "INIT"]
      BY <2>2 DEF PageArrives
    <3>2. QueueInv' /\ Waiting(wait_queue') = Waiting(wait_queue)
      BY <2>0, <2>t, <2>w, <3>1, QueueFrame
    <3> QED BY <2>0, <2>t, <2>c, <3>1, <3>2 DEF PoolInv, RunnerAwake, Underway, Sleepers
  <2>3. ASSUME NEW r \in Pages, HttpProcess(r) PROVE PoolInv'
    <3>1. /\ UNCHANGED <<queue, conn, fsm, asleep, deleted, state, scheduled, reused>>
          /\ running = Idle /\ running' = r /\ r \notin asleep \cup deleted
      BY <2>3 DEF HttpProcess
    <3>2. QueueInv' /\ Waiting(wait_queue') = Waiting(wait_queue)
      BY <2>0, <3>1, QueueFrame
    <3> QED BY <2>0, <2>c, <3>1, <3>2 DEF PoolInv, RunnerAwake, Underway, Sleepers
  <2>4. ASSUME NEW r \in Pages, PageLeaves(r) PROVE PoolInv'
    <3>1. /\ UNCHANGED <<queue, conn, fsm, state, scheduled, running, reused>>
          /\ running = Idle /\ deleted' = deleted \cup {r} /\ asleep' = asleep \ {r}
      BY <2>4 DEF PageLeaves
    <3>2. QueueInv' /\ Waiting(wait_queue') = Waiting(wait_queue)
      BY <2>0, <3>1, QueueFrame
    <3> QED BY <2>0, <2>c, <3>1, <3>2 DEF PoolInv, RunnerAwake, Underway, Sleepers
  <2>5. ASSUME NEW r \in Pages, RequestDbWaitMoves(r) PROVE PoolInv'
    <3>1. /\ UNCHANGED <<queue, conn, state, scheduled, asleep, deleted, reused>>
          /\ running = r /\ fsm[r] = "DB_WAIT"
          /\ \/ running' = Idle /\ fsm' = fsm
             \/ /\ running' = running /\ state[r] # "WAIT"
                /\ \/ fsm' = [fsm EXCEPT ![r] = "DONE"]
                   \/ fsm' = [fsm EXCEPT ![r] = "ERROR"]
                   \/ fsm' = [fsm EXCEPT ![r] = "DB_READ"] /\ state[r] = "RESULT"
      BY <2>5 DEF RequestDbWaitMoves
    <3>2. QueueInv' /\ Waiting(wait_queue') = Waiting(wait_queue)
      BY <2>0, <2>t, <2>w, <3>1, QueueFrame
    <3>3. state[r] # "WAIT" => r \notin asleep
      BY <2>0, <2>w, <3>1 DEF Sleepers
    <3>4. RunnerAwake'
      BY <2>0, <2>c, <2>t, <3>1, <3>3 DEF RunnerAwake
    <3> QED BY <2>0, <3>1, <3>2, <3>4 DEF PoolInv, Underway, Sleepers
  <2>6. ASSUME NEW r \in Pages, RequestPerformInit(r) PROVE PoolInv'
    <3>1. /\ running = r /\ fsm[r] = "INIT" /\ UNCHANGED <<scheduled, deleted, reused>>
          /\ r \in Clients
      BY <2>c, <2>6 DEF RequestPerformInit
    <3>2. r \notin asleep /\ r \notin deleted /\ r \notin Waiting(wait_queue)
      BY <2>0, <2>w, <3>1 DEF RunnerAwake
    <3>3. ASSUME NEW c \in Conns, SetupTakes(r, c), fsm' = [fsm EXCEPT ![r] = "QUERY"],
                 UNCHANGED <<queue, state, asleep, running>>
          PROVE  PoolInv'
      <4>1. conn' = [conn EXCEPT ![r] = c]
        BY <3>3 DEF SetupTakes
      <4>2. QueueInv' /\ Waiting(wait_queue') = Waiting(wait_queue)
        BY <2>0, <2>t, <2>w, <3>1, <3>2, <3>3, <4>1, QueueFrame
      <4>3. /\ conn'[r] = c /\ c # NoConn /\ fsm'[r] = "QUERY"
            /\ \A x \in Pages \ {r} : conn'[x] = conn[x] /\ fsm'[x] = fsm[x]
        BY <2>t, <2>c, <3>1, <3>3, <4>1
      <4>4. state[r] \notin {"WAIT", "RESULT", "DONE", "COMMANDOK"}
        BY <2>0, <3>1 DEF OwnInv, NewcomersHoldNothing, Underway
      <4>5. RunnerAwake'
        BY <2>0, <2>c, <3>1, <3>2, <3>3, <4>3 DEF RunnerAwake
      <4>6. Underway' /\ Sleepers'
        BY <2>0, <3>1, <3>3, <4>2, <4>3, <4>4 DEF Underway, Sleepers
      <4> QED BY <4>2, <4>5, <4>6 DEF PoolInv
    <3>4. ASSUME SetupQueues(r), running' = Idle, fsm' = fsm PROVE PoolInv'
      <4>1. asleep' = asleep \cup {r} /\ UNCHANGED <<state, conn>>
        BY <3>4 DEF SetupQueues
      <4>2. /\ queue_count' = Len(wait_queue')
            /\ queue_count' <= QueueLimit
            /\ Distinct(wait_queue')
            /\ Waiting(wait_queue') = Waiting(wait_queue) \cup {r}
        BY <2>0, <3>1, <3>2, <3>4, QueuesExact
      <4>3. conn[r] = NoConn
        BY <3>1 DEF OwnInv, NewcomersHoldNothing
      <4>4. WaitersParked'
        <5> SUFFICES ASSUME NEW x \in Waiting(wait_queue') \ reused'
                     PROVE  /\ conn'[x] = NoConn
                            /\ x \in Pages => fsm'[x] = "INIT" /\ x \in asleep' \cup deleted'
                            /\ x \in Sessions => fsm'[x] \in {"asking", "left"}
          BY DEF WaitersParked
        <5>1. CASE x = r
          BY <2>c, <3>1, <3>4, <4>1, <4>3, <5>1
        <5>2. CASE x # r
          <6>1. x \in Waiting(wait_queue) \ reused
            BY <3>1, <4>2, <5>2
          <6>2. /\ conn[x] = NoConn
                /\ x \in Pages => fsm[x] = "INIT" /\ x \in asleep \cup deleted
                /\ x \in Sessions => fsm[x] \in {"asking", "left"}
            BY <2>0, <6>1 DEF QueueInv, WaitersParked
          <6> QED BY <3>1, <3>4, <4>1, <6>2
        <5> QED BY <5>1, <5>2
      <4>5. RunnerAwake'
        BY <2>0, <2>c, <3>1, <3>4, <4>1 DEF RunnerAwake
      <4>6. Underway'
        BY <2>0, <3>1, <4>1 DEF Underway
      <4>7. Sleepers'
        BY <2>0, <3>1, <3>2, <4>1, <4>2 DEF Sleepers
      <4> QED BY <3>1, <4>2, <4>4, <4>5, <4>6, <4>7 DEF PoolInv, QueueInv, Distinct
    <3>5. ASSUME SetupFails(r), fsm' = [fsm EXCEPT ![r] = "ERROR"], running' = running
          PROVE  PoolInv'
      <4>1. state' = [state EXCEPT ![r] = "ERROR"] /\ UNCHANGED <<queue, conn, asleep>>
        BY <3>5 DEF SetupFails
      <4>2. QueueInv' /\ Waiting(wait_queue') = Waiting(wait_queue)
        BY <2>0, <2>t, <2>w, <3>1, <3>2, <3>5, <4>1, QueueFrame
      <4> QED BY <2>0, <2>t, <2>c, <3>1, <3>2, <3>5, <4>1, <4>2
            DEF PoolInv, RunnerAwake, Underway, Sleepers
    <3> QED BY <2>6, <3>3, <3>4, <3>5 DEF RequestPerformInit
  <2>7. ASSUME NEW r \in Pages, RequestPerformQuery(r) PROVE PoolInv'
    <3>1. /\ running = r /\ fsm[r] = "QUERY" /\ fsm' = [fsm EXCEPT ![r] = "DB_WAIT"]
          /\ UNCHANGED <<queue, conn, deleted, reused>>
          /\ \/ /\ state' = [state EXCEPT ![r] = "WAIT"] /\ scheduled' = scheduled \cup {conn[r]}
                /\ asleep' = asleep \cup {r} /\ running' = Idle
             \/ /\ state' = [state EXCEPT ![r] = "ERROR"]
                /\ UNCHANGED <<scheduled, asleep, running>>
      BY <2>7 DEF RequestPerformQuery, QuerySent, QueryFails
    <3>2. conn[r] # NoConn /\ r \notin asleep /\ r \notin deleted
      BY <2>0, <3>1 DEF RunnerAwake
    <3>3. QueueInv' /\ Waiting(wait_queue') = Waiting(wait_queue)
      BY <2>0, <2>t, <2>w, <3>1, <3>2, QueueFrame
    <3>4. RunnerAwake'
      BY <2>0, <2>t, <2>c, <3>1, <3>2 DEF RunnerAwake
    <3> QED BY <2>0, <2>t, <2>c, <3>1, <3>2, <3>3, <3>4 DEF PoolInv, Underway, Sleepers
  <2>8. ASSUME NEW r \in Pages, PageHandle(r), conn[r] # NoConn, conn[r] \in scheduled,
               r \notin deleted,
               UNCHANGED <<queue, conn, scheduled, deleted, running, reused>>,
               fsm' = fsm \/ fsm' = [fsm EXCEPT ![r] = "DB_WAIT"],
               fsm'[r] = "DB_WAIT" \/ (running = Idle /\ fsm' = fsm)
        PROVE  PoolInv'
    <3>1. \A x \in Clients \ {r} : state'[x] = state[x] /\ (x \in asleep <=> x \in asleep')
      BY <2>8, <2>t DEF PageHandle, ConsumeFails, ReadBusy, ReadOne
    <3>2. r \in asleep' => state'[r] = "WAIT"
      BY <2>8, <2>t, <2>c DEF PageHandle, ConsumeFails, ReadBusy, ReadOne
    <3>3. QueueInv' /\ Waiting(wait_queue') = Waiting(wait_queue)
      <4>1. r \notin Waiting(wait_queue)
        BY <2>8, <2>w
      <4> QED BY <2>0, <2>t, <2>w, <2>8, <3>1, <4>1, QueueFrame
    <3>4. RunnerAwake'
      BY <2>0, <2>t, <2>c, <2>8, <3>1 DEF RunnerAwake
    <3>5. Underway' /\ Sleepers'
      BY <2>0, <2>c, <2>8, <3>1, <3>2, <3>3 DEF Underway, Sleepers
    <3> QED BY <3>3, <3>4, <3>5 DEF PoolInv
  <2>9. ASSUME NEW r \in Pages, RequestDbWaitContinues(r) PROVE PoolInv'
    <3>1. /\ running = r /\ fsm[r] = "DB_WAIT" /\ r \in Clients
          /\ UNCHANGED <<fsm, deleted, running, reused>>
      BY <2>c, <2>9 DEF RequestDbWaitContinues
    <3>2. CASE /\ state[r] = "COMMANDOK" /\ PageHandle(r)
               /\ UNCHANGED <<pool, queue, conn, scheduled>>
      <4>1. conn[r] # NoConn /\ conn[r] \in scheduled /\ r \notin deleted
        BY <2>0, <3>1, <3>2 DEF Underway, RunnerAwake
      <4> QED BY <2>8, <3>1, <3>2, <4>1
    <3>3. CASE state[r] = "DONE" /\ ConnRelease(r, wait_queue, queue_count)
      <4>1. r \notin asleep /\ r \notin Waiting(wait_queue)
        BY <2>0, <2>w, <3>1, <3>3 DEF Sleepers
      <4>2. queue_count = Len(wait_queue) /\ Distinct(wait_queue) /\ Len(wait_queue) <= QueueLimit
        BY <2>0 DEF QueueInv
      <4>3. /\ Shrinks(wait_queue)
            /\ conn'[r] = NoConn
            /\ \A x \in Clients \ {r} : conn'[x] = conn[x] /\ state'[x] = state[x]
            /\ \/ conn[r] = NoConn /\ state'[r] = state[r]
               \/ state'[r] = "COMPLETE"
        BY <2>t, <3>1, <3>3, <4>2, ReleaseShrinks
      <4>4. queue_count' <= QueueLimit
        <5>1. Len(wait_queue') \in Nat /\ Len(wait_queue) \in Nat /\ QueueLimit \in Nat
          BY <2>t, <4>3, PoolAssumption DEF Shrinks
        <5> QED BY <4>2, <4>3, <5>1 DEF Shrinks
      <4>r. scheduled \ {conn[r]} \subseteq scheduled'
        BY <3>3 DEF ConnRelease
      <4>o. \A x \in Pages \ {r} : conn[x] # NoConn => conn[x] # conn[r]
        BY <2>o, <2>c, <3>1
      <4>5. QueueInv' /\ Underway' /\ Sleepers'
        BY <3>1, <4>1, <4>3, <4>4, <4>r, <4>o, ReleaseInv
      <4>6. RunnerAwake'
        BY <2>0, <2>c, <3>1, <4>3 DEF RunnerAwake
      <4> QED BY <4>5, <4>6 DEF PoolInv
    <3> QED BY <2>9, <3>2, <3>3 DEF RequestDbWaitContinues
  <2>10. ASSUME NEW r \in Pages, RequestDbRead(r) PROVE PoolInv'
    <3>1. /\ running = r /\ fsm[r] = "DB_READ" /\ PageHandle(r)
          /\ fsm' = [fsm EXCEPT ![r] = "DB_WAIT"]
          /\ UNCHANGED <<queue, conn, scheduled, deleted, running, reused>>
      BY <2>10 DEF RequestDbRead
    <3>2. conn[r] # NoConn /\ conn[r] \in scheduled /\ r \notin deleted
      BY <2>0, <3>1 DEF Underway, RunnerAwake
    <3>3. fsm'[r] = "DB_WAIT"
      BY <2>t, <2>c, <3>1
    <3> QED BY <2>8, <3>1, <3>2, <3>3
  <2>11. ASSUME NEW p \in Clients, RequestEnds(p) \/ PageFreed(p) \/ SessionDecides(p),
                p \in Pages \/ SessionDecides(p)
         PROVE  PoolInv'
    <3>1. /\ Cleanup(p) /\ fsm' = [fsm EXCEPT ![p] = "closed"]
          /\ deleted' = deleted /\ reused' = reused
          /\ scheduled \ {conn[p]} \subseteq scheduled'
      BY <2>11 DEF RequestEnds, PageFreed, SessionDecides, Cleanup, ConnRelease
    <3>2. p \in Pages => p \notin asleep
      <4>1. CASE RequestEnds(p)
        BY <2>0, <4>1 DEF RequestEnds, RunnerAwake
      <4>2. CASE PageFreed(p)
        BY <2>0, <4>2 DEF PageFreed, Sleepers
      <4>3. CASE SessionDecides(p)
        BY <4>3 DEF SessionDecides
      <4> QED BY <2>11, <4>1, <4>2, <4>3
    <3>3. /\ Shrinks(RemoveFirst(wait_queue, p))
          /\ Waiting(RemoveFirst(wait_queue, p)) \subseteq Waiting(wait_queue)
          /\ Waiting(wait_queue) \ {p} \subseteq Waiting(RemoveFirst(wait_queue, p))
          /\ p \in Waiting(RemoveFirst(wait_queue, p)) => p \in reused
          /\ queue_count' <= QueueLimit
          /\ conn'[p] = NoConn
          /\ \A x \in Clients \ {p} : conn'[x] = conn[x] /\ state'[x] = state[x]
          /\ \/ conn[p] = NoConn /\ state'[p] = state[p]
             \/ state'[p] = "COMPLETE"
      BY <2>0, <3>1, CleanupShrinks
    <3>4. \A x \in Clients \ {p} : fsm'[x] = fsm[x]
      BY <2>t, <3>1
    <3>o. \A x \in Pages \ {p} : conn[x] # NoConn => conn[x] # conn[p]
      BY <2>o, <2>c
    <3>5. QueueInv' /\ Underway' /\ Sleepers'
      BY <3>1, <3>2, <3>3, <3>4, <3>o, ReleaseInv
    <3>6. RunnerAwake'
      <4>1. asleep' \subseteq asleep /\ fsm'[p] = "closed"
        BY <2>t, <3>1, <3>3 DEF Shrinks
      <4>2. CASE RequestEnds(p)
        <5>1. running = p /\ running' = Idle
          BY <4>2 DEF RequestEnds
        <5> QED BY <2>0, <2>c, <2>11, <3>1, <3>3, <3>4, <4>1, <5>1 DEF RunnerAwake
      <4>3. CASE PageFreed(p) \/ SessionDecides(p)
        <5>1. running = Idle /\ running' = Idle
          BY <4>3 DEF PageFreed, SessionDecides
        <5> QED BY <2>0, <2>c, <3>1, <3>3, <3>4, <4>1, <5>1 DEF RunnerAwake
      <4> QED BY <2>11, <4>2, <4>3
    <3> QED BY <3>5, <3>6 DEF PoolInv
  <2>12. ASSUME NEW s \in Sessions, SessionAsks(s) PROVE PoolInv'
    <3>1. /\ running \in {Idle, s} /\ running' = Idle
          /\ fsm[s] = "none" /\ fsm' = [fsm EXCEPT ![s] = "asking"]
          /\ UNCHANGED <<deleted, reused>> /\ s \in Clients /\ s \notin Pages
      BY <2>c, <2>12 DEF SessionAsks
    <3>2. s \notin Waiting(wait_queue) \ reused
      BY <2>c, <2>w, <3>1
    <3>3. ASSUME \A x \in Clients \ {s} : conn'[x] = conn[x] /\ state'[x] = state[x],
                 scheduled \subseteq scheduled',
                 UNCHANGED <<queue, asleep>>
          PROVE  PoolInv'
      <4>1. QueueInv' /\ Waiting(wait_queue') = Waiting(wait_queue)
        BY <2>0, <2>t, <2>w, <3>1, <3>2, <3>3, QueueFrame
      <4>2. RunnerAwake' /\ Underway' /\ Sleepers'
        BY <2>0, <2>t, <2>c, <3>1, <3>3, <4>1 DEF RunnerAwake, Underway, Sleepers
      <4> QED BY <4>1, <4>2 DEF PoolInv
    <3>4. ASSUME NEW c \in Conns, SetupTakes(s, c), QuerySent(s, c) \/ QueryFails(s),
                 UNCHANGED <<queue, asleep>>
          PROVE  PoolInv'
      <4>1. \A x \in Clients \ {s} : conn'[x] = conn[x] /\ state'[x] = state[x]
        BY <2>t, <3>4 DEF SetupTakes, QuerySent, QueryFails
      <4>2. scheduled \subseteq scheduled'
        BY <3>4 DEF QuerySent, QueryFails
      <4> QED BY <3>3, <3>4, <4>1, <4>2
    <3>5. ASSUME SetupFails(s), UNCHANGED scheduled PROVE PoolInv'
      <4>1. state' = [state EXCEPT ![s] = "ERROR"] /\ UNCHANGED <<queue, conn, asleep>>
        BY <3>5 DEF SetupFails
      <4>2. \A x \in Clients \ {s} : conn'[x] = conn[x] /\ state'[x] = state[x]
        BY <2>t, <4>1
      <4> QED BY <3>3, <3>5, <4>1, <4>2
    <3>6. ASSUME SetupQueues(s), UNCHANGED scheduled PROVE PoolInv'
      <4>1. asleep' = asleep /\ UNCHANGED <<state, conn>>
        BY <3>1, <3>6 DEF SetupQueues
      <4>2. /\ queue_count' = Len(wait_queue')
            /\ queue_count' <= QueueLimit
            /\ Distinct(wait_queue')
            /\ Waiting(wait_queue') = Waiting(wait_queue) \cup {s}
        BY <2>0, <3>1, <3>2, <3>6, QueuesExact
      <4>3. conn[s] = NoConn
        BY <3>1 DEF OwnInv, NewcomersHoldNothing
      <4>4. WaitersParked'
        <5>1. \A x \in Clients \ {s} : fsm'[x] = fsm[x]
          BY <2>t, <3>1
        <5>2. fsm'[s] = "asking"
          BY <2>t, <3>1
        <5> SUFFICES ASSUME NEW x \in Waiting(wait_queue') \ reused'
                     PROVE  /\ conn'[x] = NoConn
                            /\ x \in Pages => fsm'[x] = "INIT" /\ x \in asleep' \cup deleted'
                            /\ x \in Sessions => fsm'[x] \in {"asking", "left"}
          BY DEF WaitersParked
        <5>3. CASE x = s
          BY <2>c, <3>1, <4>1, <4>3, <5>2, <5>3
        <5>4. CASE x # s
          <6>1. x \in Waiting(wait_queue) \ reused /\ x \in Clients
            BY <2>w, <3>1, <4>2, <5>4
          <6>2. /\ conn[x] = NoConn
                /\ x \in Pages => fsm[x] = "INIT" /\ x \in asleep \cup deleted
                /\ x \in Sessions => fsm[x] \in {"asking", "left"}
            BY <2>0, <6>1 DEF QueueInv, WaitersParked
          <6> QED BY <3>1, <4>1, <5>1, <5>4, <6>1, <6>2
        <5> QED BY <5>3, <5>4
      <4>5. RunnerAwake' /\ Underway' /\ Sleepers'
        <5>1. \A x \in Pages : fsm'[x] = fsm[x]
          BY <2>c, <2>t, <3>1
        <5>2. RunnerAwake'
          BY <2>0, <2>c, <3>1, <4>1, <5>1 DEF RunnerAwake
        <5>3. Underway'
          BY <2>0, <3>6, <4>1 DEF Underway
        <5>4. Sleepers'
          BY <2>0, <3>1, <4>1, <4>2 DEF Sleepers
        <5> QED BY <5>2, <5>3, <5>4
      <4> QED BY <3>1, <4>2, <4>4, <4>5 DEF PoolInv, QueueInv, Distinct
    <3> QED BY <2>12, <3>4, <3>5, <3>6 DEF SessionAsks
  <2>13. ASSUME NEW s \in Sessions, SessionSleeps(s) PROVE PoolInv'
    <3>1. /\ asleep' = asleep \cup {s} /\ s \notin Pages
          /\ UNCHANGED <<queue, conn, fsm, deleted, running, state, scheduled, reused>>
      BY <2>c, <2>13 DEF SessionSleeps
    <3>2. QueueInv' /\ Waiting(wait_queue') = Waiting(wait_queue)
      BY <2>0, <3>1, QueueFrame
    <3> QED BY <2>0, <3>1, <3>2 DEF PoolInv, RunnerAwake, Underway, Sleepers
  <2>14. ASSUME NEW c \in Conns, Arrive(c) \/ ServerDrops(c) PROVE PoolInv'
    <3>1. UNCHANGED <<queue, conn, fsm, asleep, deleted, running, state, scheduled, reused>>
      BY <2>14 DEF Arrive, ServerDrops
    <3>2. QueueInv' /\ Waiting(wait_queue') = Waiting(wait_queue)
      BY <2>0, <3>1, QueueFrame
    <3> QED BY <2>0, <3>1, <3>2 DEF PoolInv, RunnerAwake, Underway, Sleepers
  <2>17. ASSUME NEW s \in Sessions, SessionLeaves(s) PROVE PoolInv'
    <3>1. /\ asleep' = asleep \ {s} /\ s \notin Pages /\ fsm' = [fsm EXCEPT ![s] = "left"]
          /\ UNCHANGED <<queue, conn, deleted, running, state, scheduled, reused>>
      BY <2>c, <2>17 DEF SessionLeaves
    <3>2. /\ \A x \in Clients \ {s} : fsm'[x] = fsm[x]
          /\ fsm'[s] = "left"
      BY <2>t, <2>c, <3>1
    <3>3. wait_queue' = wait_queue /\ queue_count' = queue_count
          /\ Waiting(wait_queue') = Waiting(wait_queue)
      BY <3>1 DEF queue, Waiting
    <3>4. WaitersParked'
      <4> SUFFICES ASSUME NEW x \in Waiting(wait_queue') \ reused'
                   PROVE  /\ conn'[x] = NoConn
                          /\ x \in Pages => fsm'[x] = "INIT" /\ x \in asleep' \cup deleted'
                          /\ x \in Sessions => fsm'[x] \in {"asking", "left"}
        BY DEF WaitersParked
      <4>1. x \in Waiting(wait_queue) \ reused /\ x \in Clients
        BY <2>w, <3>1, <3>3
      <4>2. /\ conn[x] = NoConn
            /\ x \in Pages => fsm[x] = "INIT" /\ x \in asleep \cup deleted
            /\ x \in Sessions => fsm[x] \in {"asking", "left"}
        BY <2>0, <4>1 DEF QueueInv, WaitersParked
      <4> QED BY <3>1, <3>2, <4>1, <4>2
    <3>5. QueueInv'
      BY <2>0, <3>1, <3>3, <3>4 DEF QueueInv, Distinct
    <3>6. RunnerAwake' /\ Underway' /\ Sleepers'
      BY <2>0, <2>c, <3>1, <3>2, <3>3 DEF RunnerAwake, Underway, Sleepers
    <3> QED BY <3>5, <3>6 DEF PoolInv
  <2>22. ASSUME NEW s \in Sessions, SessionPasses(s) PROVE PoolInv'
    <3>1. /\ s \in reused /\ s \notin Pages /\ fsm' = [fsm EXCEPT ![s] = "closed"]
          /\ UNCHANGED <<queue, conn, deleted, running, state, scheduled, reused, asleep>>
      BY <2>c, <2>22 DEF SessionPasses
    <3>2. \A x \in Clients \ {s} : fsm'[x] = fsm[x]
      BY <2>t, <2>c, <3>1
    <3>3. QueueInv' /\ Waiting(wait_queue') = Waiting(wait_queue)
      BY <2>0, <2>w, <3>1, <3>2, QueueFrame
    <3>4. RunnerAwake' /\ Underway' /\ Sleepers'
      BY <2>0, <2>c, <3>1, <3>2, <3>3 DEF RunnerAwake, Underway, Sleepers
    <3> QED BY <3>3, <3>4 DEF PoolInv
  <2>18. ASSUME NEW s \in Sessions, SessionAgain(s) PROVE PoolInv'
    <3>1. /\ s \notin Pages /\ running = Idle /\ running' = s
          /\ fsm' = [fsm EXCEPT ![s] = "none"]
          /\ state' = [state EXCEPT ![s] = "INIT"]
          /\ conn' = [conn EXCEPT ![s] = NoConn]
          /\ reused' = reused \cup {s}
          /\ UNCHANGED <<queue, scheduled, asleep, deleted>>
      BY <2>c, <2>18 DEF SessionAgain
    <3>2. \A x \in Clients \ {s} : fsm'[x] = fsm[x] /\ state'[x] = state[x] /\ conn'[x] = conn[x]
      BY <2>t, <3>1
    <3>3. QueueInv' /\ Waiting(wait_queue') = Waiting(wait_queue)
      BY <2>0, <2>w, <3>1, <3>2, QueueFrame
    <3>4. RunnerAwake' /\ Underway' /\ Sleepers'
      BY <2>0, <2>c, <3>1, <3>2, <3>3 DEF RunnerAwake, Underway, Sleepers
    <3> QED BY <3>3, <3>4 DEF PoolInv
  <2>19. ASSUME NEW p \in Sessions, conn[p] # NoConn, running = Idle,
                ConnRelease(p, wait_queue, queue_count),
                UNCHANGED <<fsm, deleted, running, reused>>
         PROVE  PoolInv'
    <3>1. queue_count = Len(wait_queue) /\ Distinct(wait_queue) /\ Len(wait_queue) <= QueueLimit
      BY <2>0 DEF QueueInv
    <3>2. /\ Shrinks(wait_queue)
          /\ conn'[p] = NoConn
          /\ \A x \in Clients \ {p} : conn'[x] = conn[x] /\ state'[x] = state[x]
          /\ \/ conn[p] = NoConn /\ state'[p] = state[p]
             \/ state'[p] = "COMPLETE"
      BY <2>t, <2>c, <2>19, <3>1, ReleaseShrinks
    <3>3. queue_count' <= QueueLimit
      <4>1. Len(wait_queue') \in Nat /\ Len(wait_queue) \in Nat /\ QueueLimit \in Nat
        BY <2>t, <3>2, PoolAssumption DEF Shrinks
      <4> QED BY <3>1, <3>2, <4>1 DEF Shrinks
    <3>4. p \in Clients /\ p \notin Pages /\ (p \in Waiting(wait_queue) => p \in reused)
      BY <2>c, <2>w, <2>19
    <3>5. scheduled \ {conn[p]} \subseteq scheduled'
      BY <2>19 DEF ConnRelease
    <3>6. \A x \in Pages \ {p} : conn[x] # NoConn => conn[x] # conn[p]
      BY <2>o, <2>c, <3>4
    <3>7. QueueInv' /\ Underway' /\ Sleepers'
      BY <2>19, <3>2, <3>3, <3>4, <3>5, <3>6, ReleaseInv
    <3>8. RunnerAwake'
      BY <2>0, <2>c, <2>19, <3>2, <3>4 DEF RunnerAwake
    <3> QED BY <3>7, <3>8 DEF PoolInv
  <2>20. ASSUME NEW p \in Sessions,
                \A x \in Clients \ {p} : state'[x] = state[x],
                UNCHANGED <<queue, conn, scheduled, asleep, fsm, deleted, running, reused>>
         PROVE  PoolInv'
    <3>1. QueueInv' /\ Waiting(wait_queue') = Waiting(wait_queue)
      BY <2>0, <2>20, QueueFrame
    <3>2. \A x \in Pages : state'[x] = state[x]
      BY <2>c, <2>20
    <3> QED BY <2>0, <2>20, <3>1, <3>2 DEF PoolInv, RunnerAwake, Underway, Sleepers
  <2>15. ASSUME NEW c \in Conns, ReadEvent(c) PROVE PoolInv'
    <3> DEFINE p == job[c]
    <3>1. /\ running = Idle /\ c \in scheduled /\ p \in Clients /\ conn[p] = c
          /\ UNCHANGED <<fsm, deleted, running, reused>>
      BY <2>15, <2>c DEF ReadEvent, Readable, Reading
    <3>2. conn[p] # NoConn
      BY <2>c, <3>1
    <3> HIDE DEF p
    <3>4. CASE p \in Pages /\ PageHandle(p) /\ UNCHANGED <<pool, queue, conn, scheduled>>
      <4>0. p \notin Waiting(wait_queue)
        BY <2>w, <3>2, <3>4
      <4>1. CASE p \notin deleted
        BY <2>8, <3>1, <3>2, <3>4, <4>1
      <4>2. CASE p \in deleted
        <5>1. \A x \in Clients \ {p} : state'[x] = state[x] /\ (x \in asleep <=> x \in asleep')
          BY <2>t, <3>4 DEF PageHandle, ConsumeFails, ReadBusy, ReadOne
        <5>2. p \notin asleep'
          <6>1. arrived[c] > consumed[c] \/ ~alive[c]
            BY <2>15 DEF ReadEvent, Readable
          <6>2. ~(alive[c] /\ arrived[c] = 0)
            BY <6>1 DEF TypeInv, TypeOK, WireBounds
          <6> QED BY <3>1, <3>4, <6>2 DEF PageHandle, ConsumeFails, ReadBusy, ReadOne
        <5>3. QueueInv' /\ Waiting(wait_queue') = Waiting(wait_queue)
          BY <2>0, <2>w, <3>1, <3>4, <4>0, <5>1, QueueFrame
        <5>4. RunnerAwake' /\ Underway' /\ Sleepers'
          BY <2>0, <2>c, <3>1, <3>2, <3>4, <5>1, <5>2, <5>3 DEF RunnerAwake, Underway, Sleepers
        <5> QED BY <5>3, <5>4 DEF PoolInv
      <4> QED BY <4>1, <4>2
    <3>5. CASE p \in Sessions /\ ConnRelease(p, wait_queue, queue_count)
      BY <2>19, <3>1, <3>2, <3>5
    <3>6. CASE /\ p \in Sessions /\ state' = [state EXCEPT ![p] = "ERROR"]
               /\ UNCHANGED <<pool, queue, conn, scheduled, libpq, asleep>>
      <4>1. \A x \in Clients \ {p} : state'[x] = state[x]
        BY <2>t, <3>6
      <4> QED BY <2>20, <3>1, <3>6, <4>1
    <3> QED BY <2>15, <3>4, <3>5, <3>6 DEF ReadEvent, SessionHandle, p
  <2>21. ASSUME NEW c \in Conns, StaleEvent(c) PROVE PoolInv'
    <3> DEFINE p == job[c]
    <3>1. /\ running = Idle /\ p \in Sessions /\ conn[p] # NoConn
          /\ UNCHANGED <<fsm, deleted, running, reused>>
      BY <2>21 DEF StaleEvent, Readable
    <3> HIDE DEF p
    <3>2. CASE ConnRelease(p, wait_queue, queue_count)
      BY <2>19, <3>1, <3>2
    <3>3. CASE /\ \/ state' = [state EXCEPT ![p] = "ERROR"]
                  \/ state' = [state EXCEPT ![p] = "WAIT"]
               /\ UNCHANGED <<queue, conn, scheduled, asleep>>
      <4>1. \A x \in Clients \ {p} : state'[x] = state[x]
        BY <2>t, <3>3
      <4> QED BY <2>20, <3>1, <3>3, <4>1
    <3> QED BY <2>21, <3>2, <3>3 DEF StaleEvent, p
  <2>16. ASSUME NEW c \in Conns, ErrorEvent(c) PROVE PoolInv'
    <3> DEFINE p == job[c]
    <3>1. /\ running = Idle /\ p # NoClient /\ p \in Clients
          /\ conn' = [conn EXCEPT ![p] = NoConn]
          /\ state' = [state EXCEPT ![p] = "ERROR"]
          /\ asleep' = asleep \ ({p} \cap Pages)
          /\ scheduled' = scheduled \ {c}
          /\ UNCHANGED <<queue, fsm, deleted, running, reused>>
      BY <2>16 DEF ErrorEvent, Reading, TypeInv, TypeOK
    <3>0. (p \in Pages => conn[p] = c) /\ \A x \in Clients \ {p} : conn[x] # c
      BY <2>c, <3>1, ClientsAssumption DEF OwnInv, Held, TypeInv, TypeOK
    <3> HIDE DEF p
    <3>2. /\ \A x \in Clients \ {p} : conn'[x] = conn[x] /\ state'[x] = state[x]
          /\ conn'[p] = NoConn /\ state'[p] = "ERROR"
      BY <2>t, <3>1
    <3>3. p \in Pages => p \notin Waiting(wait_queue)
      BY <2>c, <2>w, <3>0
    <3>4. QueueInv' /\ Waiting(wait_queue') = Waiting(wait_queue)
      <4>1. \A x \in Waiting(wait_queue) \ reused :
               /\ conn'[x] = conn[x] /\ fsm'[x] = fsm[x]
               /\ x \in asleep \cup deleted => x \in asleep' \cup deleted'
        BY <2>w, <3>1, <3>2, <3>3 DEF Clients
      <4> QED BY <2>0, <3>1, <4>1, QueueFrame
    <3>5. RunnerAwake'
      BY <2>0, <2>c, <3>1, <3>2 DEF RunnerAwake
    <3>6. Underway'
      BY <2>0, <2>c, <3>0, <3>1, <3>2 DEF Underway
    <3>7. Sleepers'
      BY <2>0, <2>c, <3>1, <3>2, <3>4 DEF Sleepers
    <3> QED BY <3>4, <3>5, <3>6, <3>7 DEF PoolInv
  <2> QED BY <2>1, <2>2, <2>3, <2>4, <2>5, <2>6, <2>7, <2>9, <2>10, <2>11, <2>12, <2>13, <2>14,
             <2>15, <2>16, <2>17, <2>18, <2>21, <2>22, <2>c DEF Next, RunPage
<1> QED BY <1>1, <1>2, TypeCorrect, OwnershipInvariant, PTL DEF Spec

(***************************************************************************)
(* pgsql_queue_count is the length of the queue and stays within its       *)
(* limit, and nobody waits twice, with a connection in hand or when done,  *)
(* but in the memory of a session that left.                               *)
(***************************************************************************)
THEOREM QueueExactHolds == Spec => []QueueExact
<1>1. TypeInv /\ PoolInv => QueueExact
  <2> SUFFICES ASSUME TypeInv, PoolInv PROVE QueueExact
    OBVIOUS
  <2>1. \A i \in DOMAIN wait_queue :
           \/ conn[wait_queue[i]] = NoConn /\ fsm[wait_queue[i]] # "closed"
           \/ wait_queue[i] \in reused
    <3> SUFFICES ASSUME NEW i \in DOMAIN wait_queue, wait_queue[i] \notin reused
                 PROVE  conn[wait_queue[i]] = NoConn /\ fsm[wait_queue[i]] # "closed"
      OBVIOUS
    <3> DEFINE x == wait_queue[i]
    <3>1. x \in Waiting(wait_queue) \ reused /\ x \in Pages \cup Sessions
      BY DEF Waiting, TypeInv, TypeOK, Clients
    <3> HIDE DEF x
    <3>2. conn[x] = NoConn /\ fsm[x] # "closed"
      BY <3>1 DEF PoolInv, QueueInv, WaitersParked
    <3> QED BY <3>2 DEF x
  <2> QED BY <2>1 DEF PoolInv, QueueInv, Distinct, QueueExact
<1> QED BY <1>1, TypeCorrect, PoolInvariant, PTL

(***************************************************************************)
(* No page sleeps out of reach of the events that could wake it, not even  *)
(* when connections fail and peers leave.                                  *)
(***************************************************************************)
THEOREM SleepersReachableHolds == Spec => []SleepersReachable
<1>1. TypeInv /\ OwnInv /\ PoolInv => SleepersReachable
  <2> SUFFICES ASSUME TypeInv, OwnInv, PoolInv, NEW r \in Pages, r \in asleep,
                      r \notin Waiting(wait_queue)
               PROVE  conn[r] # NoConn /\ Reading(conn[r]) /\ state[r] = "WAIT"
    BY DEF SleepersReachable, Contains, Waiting, TypeInv, TypeOK
  <2>1. state[r] = "WAIT" /\ conn[r] # NoConn /\ conn[r] \in scheduled
    BY DEF PoolInv, Sleepers, Underway
  <2>2. job[conn[r]] = r /\ r # NoClient
    BY <2>1, ClientsAssumption DEF OwnInv, Held, Clients
  <2> QED BY <2>1, <2>2 DEF Reading
<1> QED BY <1>1, TypeCorrect, OwnershipInvariant, PoolInvariant, PTL

----------------------------------------------------------------------------
(* While no connection fails.  pgsql_conn_max is itself a u_int16_t, so it   *)
(* is below CountMod; zero stands for no limit.                              *)

\* Every open connection works.
Alive == \A c \in Conns : name[c] # NoDb => alive[c]

\* conn_count of a database is the number of its open connections, and is
\* within pgsql_conn_max.
Counted ==
    \A d \in Dbs : /\ IsFiniteSet(Live(d))
                   /\ conn_count[d] = Cardinality(Live(d))
                   /\ conn_count[d] <= ConnMax

\* The inductive invariant of the connection count.
CountInv == Alive /\ Counted

\* A new connection is counted once, for its own database.
LEMMA TakesCounted ==
    ASSUME TypeInv, CountInv, ConnMax \in 1..(CountMod - 1),
           NEW p \in Clients, NEW c \in Conns, SetupTakes(p, c)
    PROVE  CountInv'
<1> DEFINE d == DbOf[p]
<1>1. d \in Dbs /\ d # NoDb
  BY PoolAssumption
<1>2. CASE UNCHANGED <<name, conn_count, alive>>
  BY <1>2 DEF CountInv, Alive, Counted, Live
<1>3. CASE /\ ~AtMax(d)
           /\ name[c] = NoDb
           /\ name' = [name EXCEPT ![c] = d]
           /\ conn_count' = RaiseCount(d)
           /\ alive' = [alive EXCEPT ![c] = TRUE]
  <2>1. Alive'
    BY <1>3 DEF CountInv, Alive, TypeInv, TypeOK
  <2>2. Live(d)' = Live(d) \cup {c} /\ c \notin Live(d)
    BY <1>1, <1>3 DEF Live, TypeInv, TypeOK
  <2>3. \A e \in Dbs \ {d} : Live(e)' = Live(e)
    BY <1>1, <1>3, PoolAssumption DEF Live, TypeInv, TypeOK
  <2>4. IsFiniteSet(Live(d)') /\ Cardinality(Live(d)') = Cardinality(Live(d)) + 1
    BY <1>1, <2>2, FS_AddElement DEF CountInv, Counted
  <2>5. conn_count[d] < ConnMax /\ conn_count[d] \in Nat
    BY <1>1, <1>3, PoolAssumption DEF AtMax, TypeInv, TypeOK
  <2>6. (conn_count[d] + 1) % CountMod = conn_count[d] + 1
    BY <2>5, PoolAssumption, SMTT(60)
  <2>7. conn_count' = [conn_count EXCEPT ![d] = conn_count[d] + 1]
    BY <1>3, <2>6 DEF RaiseCount
  <2>8. ASSUME NEW e \in Dbs
        PROVE  /\ IsFiniteSet(Live(e)')
               /\ conn_count'[e] = Cardinality(Live(e)')
               /\ conn_count'[e] <= ConnMax
    <3>1. CASE e = d
      BY <1>1, <2>4, <2>5, <2>7, <3>1, PoolAssumption DEF CountInv, Counted, TypeInv, TypeOK
    <3>2. CASE e # d
      BY <2>3, <2>7, <3>2 DEF CountInv, Counted, TypeInv, TypeOK
    <3> QED BY <3>1, <3>2
  <2> QED BY <2>1, <2>8 DEF CountInv, Counted
<1> QED BY <1>2, <1>3 DEF SetupTakes

(***************************************************************************)
(* Nothing but pgsql_conn_next moves the counters while nothing fails, so   *)
(* each stays the number of connections and never wraps.                   *)
(***************************************************************************)
THEOREM CountInvariant ==
    ASSUME ~MayFail, ConnMax \in 1..(CountMod - 1)
    PROVE  Spec => []CountInv
<1>1. Init => CountInv
  <2> SUFFICES ASSUME Init PROVE CountInv
    OBVIOUS
  <2>1. \A d \in Dbs : Live(d) = {} /\ conn_count[d] = 0
    BY PoolAssumption DEF Init, Live
  <2>2. IsFiniteSet({}) /\ Cardinality({}) = 0
    BY FS_EmptySet
  <2>3. Alive
    BY DEF Init, Alive
  <2>4. ASSUME NEW d \in Dbs
        PROVE  /\ IsFiniteSet(Live(d))
               /\ conn_count[d] = Cardinality(Live(d))
               /\ conn_count[d] <= ConnMax
    <3>1. Live(d) = {} /\ conn_count[d] = 0
      BY <2>1
    <3> QED BY <2>2, <3>1, PoolAssumption
  <2> QED BY <2>3, <2>4 DEF CountInv, Counted
<1>2. TypeInv /\ OwnInv /\ CountInv /\ [Next]_vars => CountInv'
  <2> SUFFICES ASSUME TypeInv, OwnInv, CountInv, [Next]_vars PROVE CountInv'
    OBVIOUS
  <2>1. ASSUME UNCHANGED <<name, conn_count, alive>> PROVE CountInv'
    BY <2>1 DEF CountInv, Alive, Counted, Live
  <2>2. CASE UNCHANGED vars
    BY <2>1, <2>2 DEF vars, pool, libpq
  <2>3. ASSUME NEW r \in Pages, PageArrives(r) \/ HttpProcess(r) \/ PageLeaves(r)
               \/ RequestDbWaitMoves(r) \/ RequestPerformQuery(r)
        PROVE  CountInv'
    BY <2>1, <2>3 DEF PageArrives, HttpProcess, PageLeaves, RequestDbWaitMoves,
          RequestPerformQuery, pool, libpq
  <2>4. ASSUME NEW p \in Clients, SetupQueues(p) \/ SetupFails(p), UNCHANGED alive
        PROVE  CountInv'
    BY <2>1, <2>4 DEF SetupQueues, SetupFails, pool
  <2>5. ASSUME NEW r \in Pages, RequestPerformInit(r) PROVE CountInv'
    <3>1. r \in Clients
      BY DEF Clients
    <3> QED BY <2>4, <2>5, <3>1, TakesCounted DEF RequestPerformInit
  <2>6. ASSUME NEW s \in Sessions, SessionAsks(s) PROVE CountInv'
    <3>1. s \in Clients
      BY DEF Clients
    <3> QED BY <2>4, <2>6, <3>1, TakesCounted DEF SessionAsks, libpq
  <2>7. ASSUME NEW p, NEW q, NEW n, ConnRelease(p, q, n) PROVE CountInv'
    BY <2>1, <2>7 DEF ConnRelease, pool, libpq
  <2>8. ASSUME NEW p, PageHandle(p), UNCHANGED <<pool, queue, conn>> PROVE CountInv'
    BY <2>1, <2>8 DEF PageHandle, ConsumeFails, ReadBusy, ReadOne, pool, libpq
  <2>9. ASSUME NEW r \in Pages, RequestDbWaitContinues(r) \/ RequestDbRead(r) PROVE CountInv'
    BY <2>7, <2>8, <2>9 DEF RequestDbWaitContinues, RequestDbRead
  <2>10. ASSUME NEW p, RequestEnds(p) \/ PageFreed(p) \/ SessionDecides(p) PROVE CountInv'
    BY <2>7, <2>10 DEF RequestEnds, PageFreed, SessionDecides, Cleanup
  <2>11. ASSUME NEW s \in Sessions,
                SessionSleeps(s) \/ SessionPasses(s) \/ SessionLeaves(s) \/ SessionAgain(s)
         PROVE  CountInv'
    BY <2>1, <2>11 DEF SessionSleeps, SessionPasses, SessionLeaves, SessionAgain, pool, libpq
  <2>12. ASSUME NEW c \in Conns, Arrive(c) \/ ServerDrops(c) PROVE CountInv'
    BY <2>1, <2>12 DEF Arrive, ServerDrops, pool
  <2>13. ASSUME NEW c \in Conns, ReadEvent(c) PROVE CountInv'
    <3>1. CASE UNCHANGED <<pool, queue, conn, libpq, asleep>>
      BY <2>1, <3>1 DEF pool, libpq
    <3> QED BY <2>7, <2>8, <2>13, <3>1 DEF ReadEvent, SessionHandle
  <2>15. ASSUME NEW c \in Conns, StaleEvent(c) PROVE CountInv'
    BY <2>1, <2>7, <2>15 DEF StaleEvent, pool, libpq
  <2>14. ASSUME NEW c \in Conns, ErrorEvent(c) PROVE FALSE
    BY <2>14 DEF ErrorEvent, Reading, OwnInv, Held, CountInv, Alive
  <2> QED BY <2>2, <2>3, <2>5, <2>6, <2>9, <2>10, <2>11, <2>12, <2>13, <2>14, <2>15
        DEF Next, RunPage
<1> QED BY <1>1, <1>2, TypeCorrect, OwnershipInvariant, PTL DEF Spec

(***************************************************************************)
(* conn_count is the number of connections of its database, and at most    *)
(* conn_max of them are ever made.                                         *)
(***************************************************************************)
THEOREM CountExactHolds ==
    ASSUME ~MayFail, ConnMax \in 1..(CountMod - 1)
    PROVE  Spec => []CountExact
<1>1. CountInv => CountExact
  BY DEF CountInv, Counted, CountExact
<1> QED BY <1>1, CountInvariant, PTL

(***************************************************************************)
(* A client is queued, or turned away, only while its database really has  *)
(* conn_max connections.                                                   *)
(***************************************************************************)
THEOREM RefusedOnlyWhenFullHolds ==
    ASSUME ~MayFail, ConnMax \in 1..(CountMod - 1)
    PROVE  Spec => RefusedOnlyWhenFull
<1> DEFINE Justified == \A p \in Clients :
                           (SetupQueues(p) \/ (AtMax(DbOf[p]) /\ SetupFails(p)))
                              => Cardinality(Live(DbOf[p])) >= ConnMax
<1>1. CountInv => [Justified]_vars
  <2> SUFFICES ASSUME CountInv, NEW p \in Clients, AtMax(DbOf[p])
               PROVE  Cardinality(Live(DbOf[p])) >= ConnMax
    BY DEF SetupQueues
  <2>1. DbOf[p] \in Dbs
    BY PoolAssumption
  <2> QED BY <2>1 DEF CountInv, Counted, AtMax
<1>2. Spec => []CountInv
  BY CountInvariant
<1> HIDE DEF Justified
<1>3. Spec => [][Justified]_vars
  BY <1>1, <1>2, PTL
<1> QED BY <1>3 DEF Justified, RefusedOnlyWhenFull

----------------------------------------------------------------------------
(* Wake-ups are not lost among pages whose peers stay: pgsql_queue_wakeup    *)
(* drops the wake-up of a session, and a page that leaves takes its own with *)
(* it, so both are excluded here.                                            *)

\* The inductive invariant behind WaitersHaveWaker: no page is ever deleted.
WakerInv == deleted = {} /\ WaitersHaveWaker

\* A database that is full and has no free connection has a client that holds
\* one.
LEMMA FullHasHolder ==
    ASSUME TypeInv, OwnInv, CountInv, ConnMax \in 1..(CountMod - 1),
           NEW d \in Dbs, AtMax(d), FreeFor(d) = {}
    PROVE  Sessions = {} => \E p \in Clients : conn[p] # NoConn
<1>1. conn_count[d] >= 1 /\ conn_count[d] = Cardinality(Live(d))
  BY PoolAssumption DEF AtMax, CountInv, Counted, TypeInv, TypeOK
<1>2. Live(d) # {}
  <2>1. Cardinality({}) = 0
    BY FS_EmptySet
  <2> QED BY <1>1, <2>1
<1>3. PICK c \in Conns : name[c] = d
  BY <1>2 DEF Live
<1>4. c \notin conn_free /\ name[c] # NoDb
  BY <1>3, PoolAssumption DEF FreeFor
<1>5. job[c] # NoClient /\ job[c] \in Clients
      /\ (Sessions = {} => conn[job[c]] = c)
  BY <1>4 DEF OwnInv, Held, TypeInv, TypeOK
<1> QED BY <1>5, PoolAssumption

\* After a release of a connection somebody who can use it is awake, if anybody
\* is left waiting.
LEMMA ReleaseWakes ==
    ASSUME TypeInv, PoolInv, Sessions = {}, deleted = {},
           NEW p \in Clients, NEW q \in Seq(Clients), Waiting(q) \subseteq Waiting(wait_queue),
           QueueWakeup(q, Len(q)), wait_queue' # <<>>
    PROVE  \E w \in Pages : w \in Waiting(q) /\ w \notin asleep'
<1>1. q # <<>>
  <2> SUFFICES ASSUME q = <<>> PROVE FALSE
    OBVIOUS
  <2>1. wait_queue' = SubSeq(q, WokenAt(q) + 1, Len(q)) /\ WokenAt(q) \in 0..Len(q)
    BY WokenRange DEF QueueWakeup
  <2>2. wait_queue' \in Seq(Clients) /\ Len(wait_queue') = Len(q) - WokenAt(q)
    BY <2>1, WokenRest
  <2>3. Len(q) = 0 /\ WokenAt(q) = 0
    BY <2>1
  <2> QED BY <2>2, <2>3
<1>2. WokenAt(q) \in 1..Len(q)
  BY <1>1, WokenFirst
<1> DEFINE w == q[WokenAt(q)]
<1>3. w \in Waiting(q) /\ w \in Clients
  BY <1>2 DEF Waiting
<1>4. w \in Pages
  BY <1>3 DEF Clients
<1>5. w \notin asleep'
  BY <1>2, <1>4 DEF QueueWakeup
<1> QED BY <1>3, <1>4, <1>5

(***************************************************************************)
(* While a page waits, some client holds a connection it will release or   *)
(* is about to try for one: the wake-up is never lost.                     *)
(***************************************************************************)
THEOREM WaitersHaveWakerHolds ==
    ASSUME ~MayFail, ~MayLeave, Sessions = {}, ConnMax \in 1..(CountMod - 1)
    PROVE  Spec => []WaitersHaveWaker
<1>1. Init => WakerInv
  BY DEF Init, WakerInv, WaitersHaveWaker
<1>2. TypeInv /\ OwnInv /\ PoolInv /\ CountInv /\ WakerInv /\ [Next]_vars => WakerInv'
  <2> SUFFICES ASSUME TypeInv, OwnInv, PoolInv, CountInv, WakerInv, [Next]_vars
               PROVE  WakerInv'
    OBVIOUS
  <2>t. /\ fsm \in [Clients -> FsmStates] /\ conn \in [Clients -> Conns \cup {NoConn}]
        /\ wait_queue \in Seq(Clients) /\ deleted = {} /\ NoConn \notin Conns
        /\ Pages = Clients /\ reused = {}
    BY PoolAssumption DEF TypeInv, TypeOK, WakerInv, Clients
  <2>w. \A p \in Waiting(wait_queue) : p \in Clients /\ conn[p] = NoConn /\ fsm[p] = "INIT"
    <3>1. Waiting(wait_queue) \subseteq Clients
      BY <2>t DEF Waiting
    <3> QED BY <2>t, <3>1 DEF PoolInv, QueueInv, WaitersParked
  <2>1. ASSUME UNCHANGED <<wait_queue, deleted>>,
               \A p \in Clients :
                  /\ conn[p] # NoConn => conn'[p] # NoConn
                  /\ fsm[p] = "INIT" /\ p \notin asleep /\ conn[p] = NoConn
                        => fsm'[p] = "INIT" /\ p \notin asleep'
        PROVE  WakerInv'
    BY <2>1 DEF WakerInv, WaitersHaveWaker
  <2>2. ASSUME UNCHANGED <<conn, deleted>>, \E p \in Clients : conn[p] # NoConn
        PROVE  WakerInv'
    BY <2>2 DEF WakerInv, WaitersHaveWaker
  <2>3. CASE UNCHANGED vars
    BY <2>1, <2>3 DEF vars, queue
  <2>4. ASSUME NEW r \in Pages, PageArrives(r) \/ HttpProcess(r) \/ RequestDbWaitMoves(r)
        PROVE  WakerInv'
    BY <2>1, <2>4, <2>t DEF PageArrives, HttpProcess, RequestDbWaitMoves, queue
  <2>5. ASSUME NEW r \in Pages, RequestPerformInit(r) PROVE WakerInv'
    <3>1. deleted' = deleted /\ DbOf[r] \in Dbs
      BY <2>5, <2>t, PoolAssumption DEF RequestPerformInit
    <3>2. ASSUME NEW c \in Conns, SetupTakes(r, c) PROVE WakerInv'
      <4>1. conn'[r] = c /\ c # NoConn
        BY <2>t, <3>2 DEF SetupTakes
      <4> QED BY <2>t, <3>1, <4>1 DEF WakerInv, WaitersHaveWaker
    <3>3. CASE SetupQueues(r) \/ SetupFails(r)
      <4>1. conn' = conn /\ FreeFor(DbOf[r]) = {} /\ AtMax(DbOf[r])
        BY <3>3 DEF SetupQueues, SetupFails
      <4> QED BY <2>2, <3>1, <4>1, FullHasHolder
    <3> QED BY <2>5, <3>2, <3>3 DEF RequestPerformInit
  <2>6. ASSUME NEW r \in Pages, RequestPerformQuery(r) PROVE WakerInv'
    <3>1. /\ fsm[r] = "QUERY" /\ fsm' = [fsm EXCEPT ![r] = "DB_WAIT"]
          /\ UNCHANGED <<wait_queue, conn, deleted>>
          /\ asleep' \subseteq asleep \cup {r}
      BY <2>6 DEF RequestPerformQuery, queue
    <3> QED BY <2>1, <2>t, <3>1
  <2>7. ASSUME NEW r \in Pages, PageHandle(r), fsm[r] # "INIT" \/ conn[r] # NoConn,
               UNCHANGED <<queue, conn, deleted>>,
               fsm' = fsm \/ fsm' = [fsm EXCEPT ![r] = "DB_WAIT"]
        PROVE  WakerInv'
    <3>1. asleep' \subseteq asleep \cup {r}
      BY <2>7 DEF PageHandle, ConsumeFails, ReadBusy, ReadOne
    <3> QED BY <2>1, <2>t, <2>7, <3>1 DEF queue
  <2>8. ASSUME NEW p \in Clients, NEW q \in Seq(Clients),
               Waiting(q) \subseteq Waiting(wait_queue), q # <<>> => wait_queue # <<>>,
               ConnRelease(p, q, Len(q)), deleted' = deleted, fsm[p] # "INIT",
               \A x \in Clients \ {p} : fsm'[x] = fsm[x]
        PROVE  WakerInv'
    <3>1. CASE conn[p] = NoConn
      <4>1. wait_queue' = q /\ conn' = conn /\ asleep' = asleep
        BY <2>8, <3>1 DEF ConnRelease
      <4> QED BY <2>8, <3>1, <4>1 DEF WakerInv, WaitersHaveWaker
    <3>2. CASE conn[p] # NoConn
      <4>1. QueueWakeup(q, Len(q))
        BY <2>8, <3>2 DEF ConnRelease
      <4>2. ASSUME wait_queue' # <<>>
            PROVE  \E x \in Clients : fsm'[x] = "INIT" /\ x \notin asleep'
        <5>1. PICK w \in Pages : w \in Waiting(q) /\ w \notin asleep'
          BY <2>8, <2>t, <4>1, <4>2, ReleaseWakes
        <5>2. w \in Clients /\ w # p /\ fsm[w] = "INIT"
          BY <2>8, <2>w, <5>1
        <5> QED BY <2>8, <5>1, <5>2
      <4> QED BY <2>8, <2>t, <4>2 DEF WakerInv, WaitersHaveWaker
    <3> QED BY <3>1, <3>2
  <2>9. ASSUME NEW r \in Pages, RequestDbWaitContinues(r) PROVE WakerInv'
    <3>1. fsm[r] = "DB_WAIT" /\ fsm' = fsm /\ deleted' = deleted
      BY <2>9 DEF RequestDbWaitContinues
    <3>2. CASE ConnRelease(r, wait_queue, queue_count)
      <4>1. queue_count = Len(wait_queue)
        BY DEF PoolInv, QueueInv
      <4> QED BY <2>8, <2>t, <3>1, <3>2, <4>1
    <3>3. CASE PageHandle(r) /\ UNCHANGED <<pool, queue, conn>>
      BY <2>7, <3>1, <3>3
    <3> QED BY <2>9, <3>2, <3>3 DEF RequestDbWaitContinues
  <2>10. ASSUME NEW r \in Pages, RequestDbRead(r) PROVE WakerInv'
    BY <2>7, <2>10 DEF RequestDbRead
  <2>11. ASSUME NEW r \in Pages, RequestEnds(r) PROVE WakerInv'
    <3> DEFINE q == RemoveFirst(wait_queue, r)
    <3>1. /\ fsm[r] # "INIT" /\ fsm' = [fsm EXCEPT ![r] = "closed"] /\ deleted' = deleted
          /\ Cleanup(r) /\ r \in Clients
      BY <2>11, <2>t DEF RequestEnds
    <3>2. q \in Seq(Clients) /\ CountRemove(r) = Len(q) /\ Len(q) <= Len(wait_queue)
          /\ Waiting(q) \subseteq Waiting(wait_queue)
      BY <3>1, RemovedExact DEF PoolInv, QueueInv
    <3>3. ConnRelease(r, q, Len(q))
      BY <3>1, <3>2 DEF Cleanup
    <3> HIDE DEF q
    <3>4. q # <<>> => wait_queue # <<>>
      BY <2>t, <3>2
    <3>5. \A x \in Clients \ {r} : fsm'[x] = fsm[x]
      BY <2>t, <3>1
    <3> QED BY <2>8, <3>1, <3>2, <3>3, <3>4, <3>5
  <2>12. ASSUME NEW r \in Pages, PageLeaves(r) \/ PageFreed(r) PROVE FALSE
    BY <2>12, <2>t DEF PageLeaves, PageFreed
  <2>13. ASSUME NEW c \in Conns, Arrive(c) PROVE WakerInv'
    BY <2>1, <2>13 DEF Arrive, queue
  <2>14. ASSUME NEW c \in Conns, ReadEvent(c) PROVE WakerInv'
    <3>1. PageHandle(job[c]) /\ job[c] \in Pages /\ UNCHANGED <<queue, conn, deleted, fsm>>
      BY <2>14 DEF ReadEvent
    <3>2. conn[job[c]] # NoConn
      BY <2>14, <2>t DEF ReadEvent
    <3> QED BY <2>7, <3>1, <3>2
  <2>15. ASSUME NEW c \in Conns, ErrorEvent(c) \/ ServerDrops(c) PROVE FALSE
    BY <2>15 DEF ErrorEvent, ServerDrops, Reading, OwnInv, Held, CountInv, Alive
  <2>16. ASSUME NEW c \in Conns, StaleEvent(c) PROVE FALSE
    BY <2>16 DEF StaleEvent
  <2> QED BY <2>3, <2>4, <2>5, <2>6, <2>9, <2>10, <2>11, <2>12, <2>13, <2>14, <2>15,
        <2>16 DEF Next, RunPage
<1>3. Spec => []CountInv
  BY CountInvariant
<1>4. WakerInv => WaitersHaveWaker
  BY DEF WakerInv
<1> QED BY <1>1, <1>2, <1>3, <1>4, TypeCorrect, OwnershipInvariant, PoolInvariant, PTL DEF Spec
=============================================================================
