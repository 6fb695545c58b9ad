----------------------------- MODULE PgsqlPool -----------------------------
(***************************************************************************)
(* The asynchronous PostgreSQL connection pool of pgsql.c, driven by the   *)
(* two kinds of client of auth1.c, in one kore worker:                     *)
(*                                                                         *)
(*  - Pages: http requests for "/" whose kore_pgsql object is bound to the *)
(*    request; page() runs the table mystates through http_state_run;      *)
(*  - Sessions: cookie checks of "/dashboard/" whose kore_pgsql object is  *)
(*    bound to the callback db_state_change; auth_session() polls it.      *)
(*                                                                         *)
(* A worker is one thread: every action below is a handler run to its end, *)
(* and running names the client whose handler is being run in steps, the   *)
(* page inside http_state_run, during which no other handler runs.         *)
(*                                                                         *)
(* A client is identified by the address of its kore_pgsql object, which   *)
(* is what jobs and queue entries hold.  The object of a session is freed  *)
(* with its http state, without kore_pgsql_cleanup, when its peer leaves:  *)
(* what pointed to it still does, and a later session may be given the     *)
(* same memory (reused).                                                   *)
(***************************************************************************)
EXTENDS Integers, Sequences, FiniteSets, SequencesExt

CONSTANTS
    Pages,       \* requests served by page()
    Sessions,    \* requests guarded by auth_session()
    Conns,       \* identities for struct pgsql_conn; their number bounds the model
    DbList,      \* pgsql_db_conn_strings, in list order
    DbOf,        \* the database name each client passes to kore_pgsql_setup
    CountMod,    \* 2^16: conn_count is a u_int16_t
    ConnMax,     \* pgsql_conn_max
    QueueLimit,  \* pgsql_queue_limit
    Scripts,     \* the answers a query may get: sequences of Results
    MayFail,     \* whether connecting, sending and connections may fail
    MayLeave,    \* whether the peer of a request may disconnect
    NoConn, NoDb, NoClient, Idle

Clients == Pages \cup Sessions
Dbs == {DbList[i] : i \in DOMAIN DbList}

PgStates == {"INIT", "WAIT", "RESULT", "DONE", "COMPLETE", "ERROR", "COMMANDOK"}
Results == {"command", "tuples", "fatal"}
Tokens == Results \cup {"ready"}       \* "ready": the server is done with the query
FsmStates == {"none", "INIT", "QUERY", "DB_WAIT", "DB_READ", "ERROR", "DONE",
              "asking", "left", "closed"}

ASSUME ClientsAssumption ==
    /\ Pages \cap Sessions = {}
    /\ NoClient \notin Clients
    /\ Idle \notin Clients
ASSUME PoolAssumption ==
    /\ DbList \in Seq(Dbs)
    /\ DbOf \in [Clients -> Dbs]
    /\ NoDb \notin Dbs
    /\ NoConn \notin Conns
    /\ CountMod \in Nat \ {0}
    /\ ConnMax \in Nat
    /\ QueueLimit \in Nat
    /\ Scripts \subseteq Seq(Results)
    /\ MayFail \in BOOLEAN
    /\ MayLeave \in BOOLEAN

VARIABLES
    conn_free,    \* pgsql_conn_free: the connections flagged PGSQL_CONN_FREE
    name,         \* conn->name, NoDb when the connection is not allocated
    job,          \* conn->job->pgsql
    conn_count,   \* db->conn_count
    wait_queue,   \* pgsql_wait_queue
    queue_count,  \* pgsql_queue_count
    state,        \* pgsql->state
    conn,         \* pgsql->conn
    scheduled,    \* the connections whose socket is scheduled for reading
    wire,         \* libpq: the messages of the query in progress still unread
    arrived,      \* libpq: how many of them have reached the socket
    consumed,     \* libpq: how many of them PQconsumeInput has taken
    asked,        \* libpq: whose query the messages answer
    alive,        \* libpq: whether the server still has the connection
    fsm,          \* req->fsm_state of a page; progress of a session
    asleep,       \* requests put to sleep by http_request_sleep
    deleted,      \* requests flagged HTTP_REQUEST_DELETE
    running,      \* the client whose handler is at work
    reused        \* objects given to a second session while something points to them

pool == <<conn_free, name, job, conn_count>>
queue == <<wait_queue, queue_count>>
libpq == <<wire, arrived, consumed, asked, alive>>
vars == <<pool, queue, state, conn, scheduled, libpq, fsm, asleep, deleted, running,
          reused>>

Init ==
    /\ conn_free = {}
    /\ name = [c \in Conns |-> NoDb]
    /\ job = [c \in Conns |-> NoClient]
    /\ conn_count = [d \in Dbs |-> 0]
    /\ wait_queue = <<>>
    /\ queue_count = 0
    /\ state = [p \in Clients |-> "INIT"]
    /\ conn = [p \in Clients |-> NoConn]
    /\ scheduled = {}
    /\ wire = [c \in Conns |-> <<>>]
    /\ arrived = [c \in Conns |-> 0]
    /\ consumed = [c \in Conns |-> 0]
    /\ asked = [c \in Conns |-> NoClient]
    /\ alive = [c \in Conns |-> FALSE]
    /\ fsm = [p \in Clients |-> "none"]
    /\ asleep = {}
    /\ deleted = {}
    /\ running = Idle
    /\ reused = {}

----------------------------------------------------------------------------
(* pgsql_conn_next: find, create or wait for a connection.                 *)

FreeFor(d) == {c \in conn_free : name[c] = d}

\* Faulty variants of AtMax: one connection too many, and one too few.
AtMaxOffByOne(d) == ConnMax # 0 /\ conn_count[d] > ConnMax
AtMaxTooEarly(d) == ConnMax # 0 /\ conn_count[d] + 1 >= ConnMax

\* The test that sends a client to the wait queue, or away.
AtMax(d) == ConnMax # 0 /\ conn_count[d] >= ConnMax

\* The database whose count pgsql_conn_cleanup lowers for a connection of d:
\* the first of the list whose name differs from the connection's.
CountLowered(d) ==
    LET other == {i \in DOMAIN DbList : DbList[i] # d}
    IN  {DbList[i] : i \in {j \in other : \A k \in other : j <= k}}

\* A faulty variant of LowerCount: the count may become negative.
LowerCountUnbounded(d, count) ==
    [e \in Dbs |-> IF e \in CountLowered(d) THEN count[e] - 1 ELSE count[e]]

LowerCount(d, count) ==
    [e \in Dbs |-> IF e \in CountLowered(d) THEN (count[e] - 1) % CountMod ELSE count[e]]

RaiseCount(d) == [conn_count EXCEPT ![d] = (@ + 1) % CountMod]

\* kore_pgsql_setup gets connection c for client p: a free one, or a new one.
SetupTakes(p, c) ==
    LET d == DbOf[p]
    IN  /\ \/ /\ c \in FreeFor(d)
              /\ UNCHANGED <<name, conn_count, alive>>
           \/ /\ FreeFor(d) = {}
              /\ ~AtMax(d)
              /\ name[c] = NoDb
              /\ name' = [name EXCEPT ![c] = d]
              /\ conn_count' = RaiseCount(d)
              /\ alive' = [alive EXCEPT ![c] = TRUE]
        /\ conn_free' = conn_free \ {c}
        /\ job' = [job EXCEPT ![c] = p]
        /\ conn' = [conn EXCEPT ![p] = c]

\* kore_pgsql_setup parks client p: pgsql_queue_add.
SetupQueues(p) ==
    /\ FreeFor(DbOf[p]) = {}
    /\ AtMax(DbOf[p])
    /\ queue_count < QueueLimit
    /\ wait_queue' = Append(wait_queue, p)
    /\ queue_count' = queue_count + 1
    /\ asleep' = asleep \cup ({p} \cap Pages)
    /\ UNCHANGED <<pool, state, conn>>

\* kore_pgsql_setup fails for client p: the queue is full, or the new
\* connection could not be made and pgsql_conn_cleanup undid it.
SetupFails(p) ==
    LET d == DbOf[p]
    IN  /\ FreeFor(d) = {}
        /\ \/ /\ AtMax(d)
              /\ queue_count >= QueueLimit
              /\ UNCHANGED conn_count
           \/ /\ ~AtMax(d)
              /\ MayFail
              /\ conn_count' = LowerCount(d, RaiseCount(d))
        /\ state' = [state EXCEPT ![p] = "ERROR"]
        /\ UNCHANGED <<conn_free, name, job, queue, conn, asleep>>

----------------------------------------------------------------------------
(* kore_pgsql_query: PQsendQuery and pgsql_schedule.                       *)

QuerySent(p, c) ==
    /\ \E s \in Scripts : wire' = [wire EXCEPT ![c] = Append(s, "ready")]
    /\ arrived' = [arrived EXCEPT ![c] = 0]
    /\ consumed' = [consumed EXCEPT ![c] = 0]
    /\ asked' = [asked EXCEPT ![c] = p]
    /\ state' = [state EXCEPT ![p] = "WAIT"]
    /\ scheduled' = scheduled \cup {c}

QueryFails(p) ==
    /\ MayFail
    /\ state' = [state EXCEPT ![p] = "ERROR"]
    /\ UNCHANGED <<wire, arrived, consumed, asked, scheduled>>

----------------------------------------------------------------------------
(* pgsql_conn_release and pgsql_queue_wakeup.                              *)

\* How many entries pgsql_queue_wakeup removes from q: the deleted requests
\* at its head and the first client that is not one of them.
WokenAt(q) ==
    LET i == SelectInSeq(q, LAMBDA p : p \notin deleted)
    IN  IF i = 0 THEN Len(q) ELSE i

\* Faulty variants of QueueWakeup: the entry leaves and nobody is told, and
\* nothing happens at all.
QueueWakeupSilent(q, n) ==
    /\ wait_queue' = SubSeq(q, WokenAt(q) + 1, Len(q))
    /\ queue_count' = n - WokenAt(q)
    /\ UNCHANGED asleep
QueueWakeupForgotten(q, n) ==
    /\ wait_queue' = q
    /\ queue_count' = n
    /\ UNCHANGED asleep

\* A woken page runs again; the callback of a woken session sees state INIT
\* and does nothing.
QueueWakeup(q, n) ==
    /\ wait_queue' = SubSeq(q, WokenAt(q) + 1, Len(q))
    /\ queue_count' = n - WokenAt(q)
    /\ asleep' = asleep \ ({q[i] : i \in {WokenAt(q)} \cap DOMAIN q} \cap Pages)

\* Faulty variants of ConnRelease: the rest of the answer is not drained, and
\* the job stays on the connection.
ConnReleaseUndrained(p, q, n) ==
    /\ conn[p] # NoConn
    /\ scheduled' = scheduled \ {conn[p]}
    /\ conn_free' = conn_free \cup {conn[p]}
    /\ job' = [job EXCEPT ![conn[p]] = NoClient]
    /\ conn' = [conn EXCEPT ![p] = NoConn]
    /\ state' = [state EXCEPT ![p] = "COMPLETE"]
    /\ QueueWakeup(q, n)
    /\ UNCHANGED <<name, conn_count, libpq>>
ConnReleaseKeepsJob(p, q, n) ==
    /\ conn[p] # NoConn
    /\ scheduled' = scheduled \ {conn[p]}
    /\ conn_free' = conn_free \cup {conn[p]}
    /\ wire' = [wire EXCEPT ![conn[p]] = <<>>]
    /\ arrived' = [arrived EXCEPT ![conn[p]] = 0]
    /\ consumed' = [consumed EXCEPT ![conn[p]] = 0]
    /\ conn' = [conn EXCEPT ![p] = NoConn]
    /\ state' = [state EXCEPT ![p] = "COMPLETE"]
    /\ QueueWakeup(q, n)
    /\ UNCHANGED <<name, job, conn_count, asked, alive>>

\* The connection of p goes back to the pool, its socket is no longer read,
\* what is left of its query is cancelled and drained, and then one waiter is
\* woken.
ConnRelease(p, q, n) ==
    \/ /\ conn[p] = NoConn
       /\ wait_queue' = q
       /\ queue_count' = n
       /\ UNCHANGED <<pool, state, conn, scheduled, libpq, asleep>>
    \/ /\ conn[p] # NoConn
       /\ scheduled' = scheduled \ {conn[p]}
       /\ conn_free' = conn_free \cup {conn[p]}
       /\ job' = [job EXCEPT ![conn[p]] = NoClient]
       /\ wire' = [wire EXCEPT ![conn[p]] = <<>>]
       /\ arrived' = [arrived EXCEPT ![conn[p]] = 0]
       /\ consumed' = [consumed EXCEPT ![conn[p]] = 0]
       /\ asked' = [asked EXCEPT ![conn[p]] = NoClient]
       /\ conn' = [conn EXCEPT ![p] = NoConn]
       /\ state' = [state EXCEPT ![p] = "COMPLETE"]
       /\ QueueWakeup(q, n)
       /\ UNCHANGED <<name, conn_count, alive>>

\* A faulty variant of CountRemove: the entry leaves, the count stays.
CountRemoveForgets(p) == queue_count

\* pgsql_queue_remove lowers the count by one when p has an entry; the first
\* entry of p is the one that leaves the queue: RemoveFirst.
CountRemove(p) == IF Contains(wait_queue, p) THEN queue_count - 1 ELSE queue_count

\* kore_pgsql_cleanup
Cleanup(p) == ConnRelease(p, RemoveFirst(wait_queue, p), CountRemove(p))

----------------------------------------------------------------------------
(* kore_pgsql_handle for a page: PQconsumeInput and pgsql_read_result.     *)

AfterToken(t) ==
    CASE t = "command" -> "COMMANDOK"
      [] t = "tuples"  -> "RESULT"
      [] t = "fatal"   -> "ERROR"
      [] OTHER         -> "DONE"

\* PQconsumeInput reports that the connection is gone.
ConsumeFails(p) ==
    /\ ~alive[conn[p]]
    /\ state' = [state EXCEPT ![p] = "ERROR"]
    /\ asleep' = asleep \ {p}
    /\ UNCHANGED libpq

\* PQisBusy: no further message is complete.
ReadBusy(p) ==
    LET c == conn[p]
    IN  /\ alive[c]
        /\ wire[c] # <<>>
        /\ arrived[c] = 0
        /\ state' = [state EXCEPT ![p] = "WAIT"]
        /\ asleep' = asleep \cup {p}
        /\ UNCHANGED libpq

\* One PQgetResult, then pgsql_read_result returns because req is bound.
ReadOne(p) ==
    LET c == conn[p]
        rest == arrived[c] - 1
    IN  /\ alive[c]
        /\ arrived[c] > 0
        /\ wire' = [wire EXCEPT ![c] = Tail(@)]
        /\ arrived' = [arrived EXCEPT ![c] = rest]
        /\ consumed' = [consumed EXCEPT ![c] = rest]
        /\ state' = [state EXCEPT ![p] = AfterToken(Head(wire[c]))]
        /\ asleep' = asleep \ {p}
        /\ UNCHANGED <<asked, alive>>

PageHandle(p) == ConsumeFails(p) \/ ReadBusy(p) \/ ReadOne(p)

----------------------------------------------------------------------------
(* The states of page(): mystates, run by http_state_run.                  *)

\* A page enters; page() creates its state and binds its kore_pgsql object.
PageArrives(r) ==
    /\ running = Idle
    /\ fsm[r] = "none"
    /\ fsm' = [fsm EXCEPT ![r] = "INIT"]
    /\ UNCHANGED <<pool, queue, state, conn, scheduled, libpq, asleep, deleted, running, reused>>

\* http_process picks a request that is neither asleep nor deleted.
HttpProcess(r) ==
    /\ running = Idle
    /\ fsm[r] \in {"INIT", "DB_WAIT"}
    /\ r \notin asleep \cup deleted
    /\ running' = r
    /\ UNCHANGED <<pool, queue, state, conn, scheduled, libpq, fsm, asleep, deleted, reused>>

RequestPerformInit(r) ==
    /\ running = r
    /\ fsm[r] = "INIT"
    /\ \/ /\ \E c \in Conns : SetupTakes(r, c)
          /\ fsm' = [fsm EXCEPT ![r] = "QUERY"]
          /\ UNCHANGED <<queue, state, asleep, running>>
       \/ /\ SetupQueues(r)
          /\ running' = Idle
          /\ UNCHANGED <<fsm, alive>>
       \/ /\ SetupFails(r)
          /\ fsm' = [fsm EXCEPT ![r] = "ERROR"]
          /\ UNCHANGED <<running, alive>>
    /\ UNCHANGED <<scheduled, wire, arrived, consumed, asked, deleted, reused>>

RequestPerformQuery(r) ==
    /\ running = r
    /\ fsm[r] = "QUERY"
    /\ fsm' = [fsm EXCEPT ![r] = "DB_WAIT"]
    /\ \/ /\ QuerySent(r, conn[r])
          /\ asleep' = asleep \cup {r}
          /\ running' = Idle
       \/ /\ QueryFails(r)
          /\ UNCHANGED <<asleep, running>>
    /\ UNCHANGED <<pool, queue, conn, alive, deleted, reused>>

\* request_db_wait looks at pgsql->state and either moves on ...
RequestDbWaitMoves(r) ==
    /\ running = r
    /\ fsm[r] = "DB_WAIT"
    /\ \/ /\ state[r] = "WAIT"
          /\ running' = Idle
          /\ UNCHANGED fsm
       \/ /\ state[r] \in {"COMPLETE", "ERROR", "RESULT"}
          /\ fsm' = [fsm EXCEPT ![r] = CASE state[r] = "COMPLETE" -> "DONE"
                                         [] state[r] = "ERROR" -> "ERROR"
                                         [] OTHER -> "DB_READ"]
          /\ UNCHANGED running
    /\ UNCHANGED <<pool, queue, state, conn, scheduled, libpq, asleep, deleted, reused>>

\* ... or calls kore_pgsql_continue, which reads on or releases.
RequestDbWaitContinues(r) ==
    /\ running = r
    /\ fsm[r] = "DB_WAIT"
    /\ \/ /\ state[r] = "COMMANDOK"
          /\ PageHandle(r)
          /\ UNCHANGED <<pool, queue, conn, scheduled>>
       \/ /\ state[r] = "DONE"
          /\ ConnRelease(r, wait_queue, queue_count)
    /\ UNCHANGED <<fsm, deleted, running, reused>>

\* The rows are read, then kore_pgsql_continue asks for the next result.
RequestDbRead(r) ==
    /\ running = r
    /\ fsm[r] = "DB_READ"
    /\ PageHandle(r)
    /\ fsm' = [fsm EXCEPT ![r] = "DB_WAIT"]
    /\ UNCHANGED <<pool, queue, conn, scheduled, deleted, running, reused>>

\* request_error and request_done: respond, then kore_pgsql_cleanup.
RequestEnds(r) ==
    /\ running = r
    /\ fsm[r] \in {"ERROR", "DONE"}
    /\ Cleanup(r)
    /\ fsm' = [fsm EXCEPT ![r] = "closed"]
    /\ running' = Idle
    /\ UNCHANGED <<deleted, reused>>

\* The peer of a page leaves: the request is flagged and woken ...
PageLeaves(r) ==
    /\ MayLeave
    /\ running = Idle
    /\ fsm[r] \in {"INIT", "DB_WAIT"}
    /\ r \notin deleted
    /\ deleted' = deleted \cup {r}
    /\ asleep' = asleep \ {r}
    /\ UNCHANGED <<pool, queue, state, conn, scheduled, libpq, fsm, running, reused>>

\* ... and http_process frees it, its kore_pgsql object included.
PageFreed(r) ==
    /\ running = Idle
    /\ r \in deleted
    /\ fsm[r] # "closed"
    /\ Cleanup(r)
    /\ fsm' = [fsm EXCEPT ![r] = "closed"]
    /\ UNCHANGED <<deleted, running, reused>>

----------------------------------------------------------------------------
(* auth_session(): the cookie check of a dashboard request.                *)

\* The first call creates the state, binds the callback and sends the query;
\* it returns KORE_RESULT_RETRY whatever came of that.
SessionAsks(s) ==
    /\ running \in {Idle, s}
    /\ running' = Idle
    /\ fsm[s] = "none"
    /\ fsm' = [fsm EXCEPT ![s] = "asking"]
    /\ \/ /\ \E c \in Conns :
             /\ SetupTakes(s, c)
             /\ QuerySent(s, c) \/ QueryFails(s)
          /\ UNCHANGED <<queue, asleep>>
       \/ /\ SetupQueues(s) \/ SetupFails(s)
          /\ UNCHANGED <<scheduled, libpq>>
    /\ UNCHANGED <<deleted, reused>>

\* A later call finds the answer, or an error, and is done with the object ...
SessionDecides(s) ==
    /\ running = Idle
    /\ fsm[s] = "asking"
    /\ s \notin asleep
    /\ state[s] \in {"COMPLETE", "ERROR"}
    /\ Cleanup(s)
    /\ fsm' = [fsm EXCEPT ![s] = "closed"]
    /\ UNCHANGED <<deleted, running, reused>>

\* ... but when the cookie is right it does not call kore_pgsql_cleanup: the
\* connection is released by then (conn is cleared where COMPLETE is set), so
\* that only what is left of an earlier session in the same memory makes a
\* difference.
SessionPasses(s) ==
    /\ running = Idle
    /\ fsm[s] = "asking"
    /\ s \notin asleep
    /\ state[s] = "COMPLETE"
    /\ conn[s] = NoConn
    /\ s \in reused
    /\ fsm' = [fsm EXCEPT ![s] = "closed"]
    /\ UNCHANGED <<pool, queue, state, conn, scheduled, libpq, asleep, deleted, running, reused>>

\* Otherwise it goes to sleep and asks for another retry.
SessionSleeps(s) ==
    /\ running = Idle
    /\ fsm[s] = "asking"
    /\ s \notin asleep
    /\ state[s] \notin {"COMPLETE", "ERROR"}
    /\ asleep' = asleep \cup {s}
    /\ UNCHANGED <<pool, queue, state, conn, scheduled, libpq, fsm, deleted, running, reused>>

\* kore_pgsql_handle for a session: pgsql_read_result reads every result,
\* blocking, and leaves state DONE; the callback continues and releases.
SessionHandle(s) ==
    \/ /\ ~alive[conn[s]]
       /\ state' = [state EXCEPT ![s] = "ERROR"]
       /\ UNCHANGED <<pool, queue, conn, scheduled, libpq, asleep>>
    \/ /\ alive[conn[s]]
       /\ ConnRelease(s, wait_queue, queue_count)

\* What is left pointing to the object of s: a job, or an entry of the queue.
Dangling(s) == (\E c \in Conns : job[c] = s) \/ Contains(wait_queue, s)

\* The peer of a session leaves while it is being checked: the request and
\* its http state are freed, kore_pgsql_cleanup is not called, and the job and
\* the queue entry keep pointing to the freed object.  Until the memory is
\* used again they find it as it was.
SessionLeaves(s) ==
    /\ MayLeave
    /\ running = Idle
    /\ fsm[s] = "asking"
    /\ fsm' = [fsm EXCEPT ![s] = "left"]
    /\ asleep' = asleep \ {s}
    /\ UNCHANGED <<pool, queue, state, conn, scheduled, libpq, deleted, running, reused>>

\* http_state_create gives the memory to a new session, kore_pgsql_init clears
\* it, and the same call goes on with SessionAsks.  What is on its way on the
\* old connection was not asked by the new session.
SessionAgain(s) ==
    /\ running = Idle
    /\ fsm[s] = "left"
    /\ s \notin reused
    /\ Dangling(s)
    /\ running' = s
    /\ reused' = reused \cup {s}
    /\ fsm' = [fsm EXCEPT ![s] = "none"]
    /\ state' = [state EXCEPT ![s] = "INIT"]
    /\ conn' = [conn EXCEPT ![s] = NoConn]
    /\ asked' = [c \in Conns |-> IF asked[c] = s THEN NoClient ELSE asked[c]]
    /\ UNCHANGED <<pool, queue, scheduled, wire, arrived, consumed, alive, asleep, deleted>>

----------------------------------------------------------------------------
(* The event loop and the server.                                          *)

\* The next message of the answer reaches the socket.
Arrive(c) ==
    /\ running = Idle
    /\ alive[c]
    /\ arrived[c] < Len(wire[c])
    /\ arrived' = [arrived EXCEPT ![c] = @ + 1]
    /\ UNCHANGED <<pool, queue, state, conn, scheduled, wire, consumed, asked, alive,
                   fsm, asleep, deleted, running, reused>>

\* A connection that is scheduled for reading: pgsql_schedule enables it,
\* pgsql_conn_release and PQfinish disable it.
Reading(c) == job[c] # NoClient /\ c \in scheduled

\* The event loop has something to tell kore_pgsql_handle about c.
Readable(c) ==
    /\ running = Idle
    /\ Reading(c)
    /\ arrived[c] > consumed[c] \/ ~alive[c]

\* kore_pgsql_handle(conn, 0): there is something to read.
ReadEvent(c) ==
    /\ Readable(c)
    /\ conn[job[c]] = c
    /\ \/ /\ job[c] \in Pages
          /\ PageHandle(job[c])
          /\ UNCHANGED <<pool, queue, conn, scheduled>>
       \/ /\ job[c] \in Sessions
          /\ SessionHandle(job[c])
    /\ UNCHANGED <<fsm, deleted, running, reused>>

\* kore_pgsql_handle(conn, 0) on the connection of a session that left, when
\* the object its job names is a later session's with a connection of its own:
\* the input of c is consumed, and what is read, or released, is the other's.
\* (With no connection of its own the worker ends at pgsql->conn->db; after
\* the release that is what the next event of c would do.)
StaleEvent(c) ==
    LET s == job[c]
        own == conn[s]
        busy == wire[own] # <<>> /\ consumed[own] = 0
    IN  /\ Readable(c)
        /\ s \in Sessions
        /\ own \notin {c, NoConn}
        /\ \/ /\ ~alive[c]
              /\ state' = [state EXCEPT ![s] = "ERROR"]
              /\ UNCHANGED <<pool, queue, conn, scheduled, libpq, asleep>>
           \/ /\ alive[c]
              /\ busy
              /\ state' = [state EXCEPT ![s] = "WAIT"]
              /\ consumed' = [consumed EXCEPT ![c] = arrived[c]]
              /\ UNCHANGED <<pool, queue, conn, scheduled, wire, arrived, asked, alive, asleep>>
           \/ /\ alive[c]
              /\ ~busy
              /\ ConnRelease(s, wait_queue, queue_count)
        /\ UNCHANGED <<fsm, deleted, running, reused>>

\* kore_pgsql_handle(conn, 1): the event loop reports an error, and
\* pgsql_conn_cleanup drops the connection and tells its client.
ErrorEvent(c) ==
    /\ running = Idle
    /\ Reading(c)
    /\ ~alive[c]
    /\ name' = [name EXCEPT ![c] = NoDb]
    /\ job' = [job EXCEPT ![c] = NoClient]
    /\ conn_count' = LowerCount(name[c], conn_count)
    /\ conn' = [conn EXCEPT ![job[c]] = NoConn]
    /\ state' = [state EXCEPT ![job[c]] = "ERROR"]
    /\ wire' = [wire EXCEPT ![c] = <<>>]
    /\ arrived' = [arrived EXCEPT ![c] = 0]
    /\ consumed' = [consumed EXCEPT ![c] = 0]
    /\ asked' = [asked EXCEPT ![c] = NoClient]
    /\ asleep' = asleep \ ({job[c]} \cap Pages)
    /\ scheduled' = scheduled \ {c}
    /\ UNCHANGED <<conn_free, queue, alive, fsm, deleted, running, reused>>

\* The server drops a connection, in use or idle in the pool.
ServerDrops(c) ==
    /\ MayFail
    /\ running = Idle
    /\ name[c] # NoDb
    /\ alive[c]
    /\ alive' = [alive EXCEPT ![c] = FALSE]
    /\ UNCHANGED <<pool, queue, state, conn, scheduled, wire, arrived, consumed, asked,
                   fsm, asleep, deleted, running, reused>>

RunPage(r) ==
    \/ RequestPerformInit(r)
    \/ RequestPerformQuery(r)
    \/ RequestDbWaitMoves(r)
    \/ RequestDbWaitContinues(r)
    \/ RequestDbRead(r)
    \/ RequestEnds(r)

Next ==
    \/ \E r \in Pages : \/ PageArrives(r)
                        \/ HttpProcess(r)
                        \/ RunPage(r)
                        \/ PageLeaves(r)
                        \/ PageFreed(r)
    \/ \E s \in Sessions : \/ SessionAsks(s)
                           \/ SessionDecides(s)
                           \/ SessionPasses(s)
                           \/ SessionSleeps(s)
                           \/ SessionLeaves(s)
                           \/ SessionAgain(s)
    \/ \E c \in Conns : \/ Arrive(c)
                        \/ ReadEvent(c)
                        \/ StaleEvent(c)
                        \/ ErrorEvent(c)
                        \/ ServerDrops(c)

Spec == Init /\ [][Next]_vars

\* What the code's scheduling promises: http_process comes to every request
\* that is awake, the event loop to every readable socket, and the server
\* answers what it was asked.
Fairness ==
    /\ \A r \in Pages : /\ SF_vars(HttpProcess(r))
                        /\ WF_vars(RunPage(r))
                        /\ WF_vars(PageFreed(r))
    /\ \A s \in Sessions : WF_vars(SessionDecides(s) \/ SessionSleeps(s))
    /\ \A c \in Conns : WF_vars(Arrive(c)) /\ SF_vars(ReadEvent(c))

FairSpec == Spec /\ Fairness

----------------------------------------------------------------------------
(* Properties.                                                             *)

\* Every variable has its type; conn_count keeps its sixteen bits.
TypeOK ==
    /\ conn_free \subseteq Conns
    /\ name \in [Conns -> Dbs \cup {NoDb}]
    /\ job \in [Conns -> Clients \cup {NoClient}]
    /\ conn_count \in [Dbs -> 0..(CountMod - 1)]
    /\ wait_queue \in Seq(Clients)
    /\ queue_count \in Int
    /\ state \in [Clients -> PgStates]
    /\ conn \in [Clients -> Conns \cup {NoConn}]
    /\ scheduled \subseteq Conns
    /\ wire \in [Conns -> Seq(Tokens)]
    /\ arrived \in [Conns -> Int]
    /\ consumed \in [Conns -> Int]
    /\ asked \in [Conns -> Clients \cup {NoClient}]
    /\ alive \in [Conns -> BOOLEAN]
    /\ fsm \in [Clients -> FsmStates]
    /\ asleep \subseteq Clients
    /\ deleted \subseteq Pages
    /\ running \in Clients \cup {Idle}
    /\ reused \subseteq Sessions

\* Every allocated connection is either on the free list, with no job, or is
\* held by exactly the client its job names: two clients never share a
\* connection, and a free one is never read for somebody.  Who left without
\* kore_pgsql_cleanup is still named; only where the memory of such a session
\* went to another does a job name an object that holds something else, or a
\* client that is done.
Ownership ==
    /\ \A c \in conn_free : name[c] # NoDb /\ job[c] = NoClient
    /\ \A c \in Conns : name[c] # NoDb /\ c \notin conn_free => job[c] # NoClient
    /\ \A c \in Conns : job[c] # NoClient =>
          /\ name[c] # NoDb
          /\ \/ conn[job[c]] = c /\ fsm[job[c]] # "closed"
             \/ job[c] \in reused
    /\ \A p \in Clients : conn[p] # NoConn => job[conn[p]] = p

\* What a connection still has to deliver answers the query of the client
\* that reads it: a result never reaches the next user of the connection, nor
\* the next session in the memory of one that left.
AnswersReachTheirAsker ==
    \A c \in Conns : wire[c] # <<>> =>
        /\ job[c] # NoClient
        /\ conn[job[c]] = c => asked[c] = job[c]

\* pgsql_queue_count is the length of the wait queue, which never exceeds
\* its limit; a client has one entry at most, holds no connection while it
\* waits and is not done: the entry of a session that left without
\* kore_pgsql_cleanup stays, and breaks this for the next one in its memory.
QueueExact ==
    /\ queue_count = Len(wait_queue)
    /\ queue_count <= QueueLimit
    /\ \A i, j \in DOMAIN wait_queue :
          wait_queue[i] = wait_queue[j] => i = j \/ wait_queue[i] \in reused
    /\ \A i \in DOMAIN wait_queue :
          \/ conn[wait_queue[i]] = NoConn /\ fsm[wait_queue[i]] # "closed"
          \/ wait_queue[i] \in reused

\* A page sleeps only where something can wake it: in the wait queue, or with
\* a query under way on a connection whose events still come to it.
SleepersReachable ==
    \A r \in Pages \cap asleep :
        \/ Contains(wait_queue, r)
        \/ conn[r] # NoConn /\ Reading(conn[r]) /\ state[r] = "WAIT"

----------------------------------------------------------------------------
(* Without failures.                                                       *)

Live(d) == {c \in Conns : name[c] = d}

\* conn_count is the number of connections the database has, which never
\* exceeds conn_max.
CountExact ==
    \A d \in Dbs : /\ conn_count[d] = Cardinality(Live(d))
                  /\ ConnMax # 0 => conn_count[d] <= ConnMax

\* As long as a page waits for a connection, somebody is about who will
\* release one or try again: the wake-up is never lost.
WaitersHaveWaker ==
    wait_queue # <<>> =>
        \E p \in Clients :
            \/ conn[p] # NoConn
            \/ fsm[p] = "INIT" /\ p \notin asleep

\* "no available connection": a client is turned away or made to wait only
\* while its database has conn_max connections and none of them is free.
RefusedOnlyWhenFull ==
    [][\A p \in Clients :
          (SetupQueues(p) \/ (AtMax(DbOf[p]) /\ SetupFails(p)))
             => Cardinality(Live(DbOf[p])) >= ConnMax]_vars

\* Every page that enters is answered: no wait in pgsql_queue_add or in
\* request_db_wait is for good.
PagesAnswered == \A r \in Pages : fsm[r] = "INIT" ~> fsm[r] = "closed"

\* "waiting for available pgsql connection": a session that was put in the
\* wait queue gets its query sent.
WaitingSessionServed ==
    \A s \in Sessions : Contains(wait_queue, s) ~> conn[s] # NoConn

\* "it's not reached here": auth_session never ends through its branch for
\* KORE_PGSQL_STATE_ERROR.
ErrorBranchNotReached ==
    [][\A s \in Sessions : SessionDecides(s) => state[s] # "ERROR"]_vars
=============================================================================
