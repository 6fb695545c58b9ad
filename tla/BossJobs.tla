------------------------------ MODULE BossJobs ------------------------------
(***************************************************************************)
(* The pgboss worker of websocket_13 and the pool of database connections   *)
(* it brings along (websocket_13.c, websocket_13/pgsql.c).  Its requests    *)
(* are bound to a callback, db_state_change, and not to an http request:    *)
(* a timer claims the next job, the claim's result starts a completion, a   *)
(* connection that is never given back listens for notifications, websocket *)
(* clients query through a handle each, and the page does so synchronously. *)
(*                                                                          *)
(* Every function is an operator from state to state and calls the others   *)
(* in the order of the code.  A use of memory the code does not own is a    *)
(* fault, at which the model stops.                                         *)
(***************************************************************************)
EXTENDS Integers, Sequences, FiniteSets, SequencesExt, FiniteSetsExt, Functions

CONSTANTS
  Clients,      \* websocket connections
  Jobs,         \* <<job, ...>> of pgboss, in the order they are due
  ConnMax,      \* PGSQL_CONN_MAX
  QueueLimit,   \* pgsql_queue_limit
  CountMod,     \* 2^16, the width of conn_count
  QueueMod,     \* 2^32, the width of pgsql_queue_count
  Budgets       \* what may happen: [clients, tick, message, notify, page, failure]

VARIABLE bj
(***************************************************************************)
(* up     "off", "running", "exited", "ended"                               *)
(* conns  id -> [db, job, q, sent, results, notes, read, broken]: job is the *)
(*        handle a query of which it runs, results and notes are what the   *)
(*        server answered and the worker has not read, read whether its     *)
(*        socket is watched                                                 *)
(* free, wait, qcount, count   the free list, the wait queue, its length,   *)
(*        connections of each database                                      *)
(* h      handle -> [state, conn, sched, err, alive]; conn 0 is NULL        *)
(* jobs   as pgboss keeps them; bos: the job noted in struct boss_fail      *)
(* noted, told   notifications sent, and broadcast to the clients           *)
(* asked, answered   selects and answers of each client                     *)
(* why    handle -> what went wrong with it; left: of the budget            *)
(***************************************************************************)
JobSet == Range(Jobs)
Handles == {"listen", "boss", "page"} \cup Clients \cup JobSet

\* LIST_INSERT_HEAD: the database registered last is first.
kore_pgsql_register == <<"job_fails", "subscribe", "fucker", "db">>
Dbs == Range(kore_pgsql_register)

kore_pgsql_init == [state |-> "INIT", conn |-> 0, sched |-> FALSE, err |-> FALSE, alive |-> TRUE]

Init ==
  \E b \in Budgets :
    bj = [up |-> "off", conns |-> << >>, free |-> << >>, wait |-> << >>, qcount |-> 0,
          count |-> [d \in Dbs |-> 0],
          h |-> [p \in Handles |-> [kore_pgsql_init EXCEPT !.alive = FALSE]],
          jobs |-> [j \in JobSet |-> "created"], bos |-> "NULL",
          noted |-> << >>, told |-> << >>, asked |-> [c \in Clients |-> 0],
          answered |-> [c \in Clients |-> 0], why |-> [p \in Handles |-> {}],
          fault |-> "none", left |-> b, budget |-> b, fresh |-> b.clients, connects |-> TRUE]

Fault(s, f) == [s EXCEPT !.fault = f]
Cause(s, p, x) == [s EXCEPT !.why[p] = @ \cup {x}]
Ok(s) == s.fault = "none"
IsSync(p) == p = "page"

----------------------------------------------------------------------------
\* The pool.

pgsql_set_error(s, p) == [s EXCEPT !.h[p].state = "ERROR", !.h[p].err = TRUE]

\* A handle that still runs a query, or waits, is overwritten: see setup.
pgsql_queue_add(s, p) ==
  Cause([s EXCEPT !.qcount = (@ + 1) % QueueMod, !.wait = Append(@, p)],
        p, IF s.h[p].state = "INIT" THEN "waited" ELSE "waited_again")

\* The first entry of p; there may be a second one.
pgsql_queue_remove(s, p) ==
  IF p \notin Range(s.wait) THEN s
  ELSE [s EXCEPT !.qcount = (@ - 1) % QueueMod, !.wait = RemoveFirst(@, p)]

\* Takes the connection out of the count of the first OTHER database.
pgsql_conn_cleanup_NoCount(s, c) ==
  LET p == s.conns[c].job
      gone == [s EXCEPT !.free = RemoveFirst(@, c), !.conns = Restrict(@, DOMAIN @ \ {c})]
  IN IF p = "NULL" THEN gone
     ELSE pgsql_set_error(Cause([gone EXCEPT !.h[p].conn = 0], p, "failed"), p)
pgsql_conn_cleanup(s, c) ==
  LET p == s.conns[c].job
      other == SelectSeq(kore_pgsql_register, LAMBDA d : d # s.conns[c].db)[1]
      gone == [s EXCEPT !.free = RemoveFirst(@, c), !.conns = Restrict(@, DOMAIN @ \ {c}),
                        !.count[other] = (@ - 1) % CountMod]
  IN IF p = "NULL" THEN gone
     ELSE IF ~s.h[p].alive THEN Fault(s, "freed")
     ELSE pgsql_set_error(Cause([gone EXCEPT !.h[p].conn = 0], p, "failed"), p)

\* The connection leaves the free list and becomes the handle's, which it overwrites.
Take(s, p, c) ==
  [s EXCEPT !.free = RemoveFirst(@, c), !.h[p].conn = c,
            !.conns[c].job = IF IsSync(p) THEN @ ELSE p]
NoConn(s, p) == [s EXCEPT !.h[p].conn = 0]

\* A new connection, on the free list; it is waited for, and may fail.
pgsql_conn_create(s, p, db) ==
  LET id == CHOOSE i \in 1..(Cardinality(DOMAIN s.conns) + 1) :
              i \notin DOMAIN s.conns /\ \A k \in 1..(i - 1) : k \in DOMAIN s.conns
      made == [db |-> db, job |-> "NULL", q |-> "", sent |-> FALSE, results |-> << >>,
               notes |-> << >>, read |-> FALSE, broken |-> FALSE]
      new == [s EXCEPT !.count[db] = (@ + 1) % CountMod, !.free = Append(@, id),
                       !.conns = [i \in DOMAIN @ \cup {id} |-> IF i = id THEN made ELSE @[i]]]
  IN IF s.connects THEN Take(new, p, id)
     ELSE NoConn(pgsql_conn_cleanup(pgsql_set_error(Cause(new, p, "failed"), p), id), p)

\* The handle's connection is the first that is free, a new one, or NULL.
pgsql_conn_next(s, p, db) ==
  LET frees == SelectSeq(s.free, LAMBDA c : s.conns[c].db = db)
  IN IF frees # << >> THEN Take(s, p, frees[1])
     ELSE IF ConnMax = 0 \/ s.count[db] < ConnMax THEN pgsql_conn_create(s, p, db)
     ELSE NoConn(IF ~IsSync(p) /\ s.qcount < QueueLimit THEN pgsql_queue_add(s, p)
                 ELSE pgsql_set_error(Cause(s, p, "refused"), p), p)

\* The handle's connection is overwritten, be it one that runs a query or NULL.
kore_pgsql_setup(s, p, db) ==
  LET again == s.h[p].conn # 0 \/ p \in Range(s.wait)
  IN pgsql_conn_next(IF again THEN Cause(s, p, "overwritten") ELSE s, p, db)

\* The callback is called in state WAIT, which it only logs.
pgsql_schedule(s, p) ==
  [s EXCEPT !.conns[s.h[p].conn].read = TRUE, !.h[p].state = "WAIT", !.h[p].sched = TRUE]

\* kore_pgsql_query and kore_pgsql_v_query_params.
kore_pgsql_query(s, p, q) ==
  LET c == s.h[p].conn
  IN IF c = 0 THEN pgsql_set_error(s, p)
     ELSE IF s.conns[c].broken THEN pgsql_set_error(Cause(s, p, "failed"), p)
     ELSE IF IsSync(p) THEN [s EXCEPT !.h[p].state = "DONE"]
     ELSE pgsql_schedule([s EXCEPT !.conns[c].q = q, !.conns[c].sent = TRUE], p)

----------------------------------------------------------------------------
\* Giving a connection back.

\* db_state_change in state COMPLETE: kore_pgsql_cleanup of a handle without a
\* connection.
Complete(s, p) == [pgsql_queue_remove(s, p) EXCEPT !.h[p].err = FALSE]

\* Calls the callback of the first waiter, whichever database it waits for, and then
\* takes its entry off.  In INIT and WAIT the callback only logs, and the query is
\* never sent; in COMPLETE it takes the entry off itself.
pgsql_queue_wakeup_NoCount(s) ==
  IF s.wait = << >> THEN s ELSE [s EXCEPT !.wait = Tail(@)]
pgsql_queue_wakeup(s) ==
  IF s.wait = << >> THEN s
  ELSE LET p == s.wait[1]
           state == s.h[p].state
       IN IF ~s.h[p].alive THEN Fault(s, "freed")
          ELSE IF state = "ERROR" /\ s.h[p].conn = 0 THEN Fault(s, "null_conn")
          ELSE IF state = "COMPLETE" THEN Fault(Complete(s, p), "removed_twice")
          ELSE [s EXCEPT !.qcount = (@ - 1) % QueueMod, !.wait = Tail(@)]

\* Cancels what is not done, drains it, and tells the callback.
pgsql_conn_release_NotFree(s, p) ==
  LET c == s.h[p].conn
      idle == [s.conns[c] EXCEPT !.job = "NULL", !.q = "", !.sent = FALSE, !.results = << >>, !.read = FALSE]
  IN pgsql_queue_wakeup(Complete([s EXCEPT !.conns[c] = idle, !.h[p].conn = 0, !.h[p].state = "COMPLETE"], p))
pgsql_conn_release(s, p) ==
  LET c == s.h[p].conn
      idle == [s.conns[c] EXCEPT !.job = "NULL", !.q = "", !.sent = FALSE, !.results = << >>, !.read = FALSE]
      given == [s EXCEPT !.conns[c] = idle, !.free = Append(@, c),
                         !.h[p].conn = 0, !.h[p].state = "COMPLETE"]
  IN pgsql_queue_wakeup(IF IsSync(p) THEN given ELSE Complete(given, p))

\* The callback in the middle of the release frees the error once more.
kore_pgsql_cleanup_NoRemove(s, p) ==
  IF s.h[p].conn = 0 THEN [s EXCEPT !.h[p].err = FALSE]
  ELSE IF s.h[p].err /\ ~IsSync(p) THEN Fault(s, "double_free")
  ELSE pgsql_conn_release([s EXCEPT !.h[p].err = FALSE], p)
kore_pgsql_cleanup(s, p) ==
  LET out == pgsql_queue_remove(s, p)
      freed == [out EXCEPT !.h[p].err = FALSE]
  IN IF s.h[p].conn = 0 THEN freed
     ELSE IF s.h[p].err /\ ~IsSync(p) THEN Fault(out, "double_free")
     ELSE pgsql_conn_release(freed, p)

----------------------------------------------------------------------------
\* The worker's use of it.

\* db_query and db_query_params.  A request that has to wait is forgotten.
IfConnected(s, p, q) == IF s.h[p].conn = 0 THEN s ELSE kore_pgsql_query(s, p, q)
db_query(s, p, db, q) == IfConnected(kore_pgsql_setup(s, p, db), p, q)

\* A handle of its own for every completion, never freed.
boss_job_complete(s, j) == db_query([s EXCEPT !.h[j] = kore_pgsql_init], j, "job_fails", "complete")

boss_done(s, j) == boss_job_complete(s, j)

\* By the database of the connection: the claim, a completion, or a client's select.
\* Without a row the client is sent a name that was never set.
db_results_NotDone(s, p, r) ==
  CASE s.conns[s.h[p].conn].db = "subscribe" -> IF r.rows = 1 THEN [s EXCEPT !.bos = r.job] ELSE s
    [] s.conns[s.h[p].conn].db = "job_fails" -> s
    [] OTHER -> IF r.rows = 0 THEN Fault(s, "no_name") ELSE [s EXCEPT !.answered[p] = @ + 1]
db_results(s, p, r) ==
  CASE s.conns[s.h[p].conn].db = "subscribe" ->
         IF r.rows = 1 THEN [boss_done(s, r.job) EXCEPT !.bos = r.job] ELSE s
    [] s.conns[s.h[p].conn].db = "job_fails" -> s
    [] OTHER -> IF r.rows = 0 THEN Fault(s, "no_name") ELSE [s EXCEPT !.answered[p] = @ + 1]

\* What on_db_cb_done frees and forgets.
on_db_cb_done_Keeps(s, p) == s
on_db_cb_done(s, p) ==
  IF s.conns[s.h[p].conn].db = "subscribe" THEN [s EXCEPT !.bos = "NULL"] ELSE s

\* All that was notified is broadcast.
on_notify_Last(s, c) ==
  [s EXCEPT !.told = IF s.conns[c].notes = << >> THEN @ ELSE Append(@, Last(s.conns[c].notes)),
            !.conns[c].notes = << >>]
on_notify(s, c) == [s EXCEPT !.told = @ \o s.conns[c].notes, !.conns[c].notes = << >>]

\* One result, and the callback with it.
TakeResult(s, p, r) ==
  CASE ~Ok(s) -> s
    [] r.kind = "COMMANDOK" -> [s EXCEPT !.h[p].state = "COMMANDOK"]
    [] r.kind = "TUPLES" -> db_results([s EXCEPT !.h[p].state = "RESULT"], p, r)
    [] OTHER -> pgsql_set_error(Cause(s, p, "fatal"), p)

\* Notifications first, then every result, and DONE even after an error.
pgsql_read_result_Last(s, p) ==
  LET c == s.h[p].conn
  IN IF c = 0 THEN s
     ELSE IF s.conns[c].sent THEN [s EXCEPT !.h[p].state = "WAIT"]
     ELSE LET n == Len(s.conns[c].results)
              told == on_notify(s, c)
              read == IF n = 0 THEN told ELSE TakeResult(told, p, s.conns[c].results[n])
          IN [read EXCEPT !.h[p].state = "DONE", !.conns[c].results = << >>]
pgsql_read_result(s, p) ==
  LET c == s.h[p].conn
  IN IF c = 0 THEN s
     ELSE IF s.conns[c].sent THEN [s EXCEPT !.h[p].state = "WAIT"]
     ELSE LET read == FoldLeft(LAMBDA t, r : TakeResult(t, p, r), on_notify(s, c), s.conns[c].results)
          IN [read EXCEPT !.h[p].state = "DONE", !.conns[c].results = << >>]

\* kore_pgsql_continue in state DONE.
Release(s, p) == pgsql_conn_release([s EXCEPT !.h[p].err = FALSE], p)

\* From kore_pgsql_handle, where the handle may have lost its connection.
db_state_change(s, p) ==
  LET state == s.h[p].state
      c == s.h[p].conn
  IN CASE ~Ok(s) \/ state \in {"INIT", "WAIT"} -> s
       [] state = "COMPLETE" -> kore_pgsql_cleanup(s, p)
       [] c = 0 -> Fault(s, "null_conn")
       [] state = "DONE" /\ s.conns[c].db # "fucker" -> Release(on_db_cb_done(s, p), p)
       [] OTHER -> s

\* The handle is the job's; what is read comes from the connection of the handle.
kore_pgsql_handle(s, c, err) ==
  LET p == s.conns[c].job
  IN IF err THEN pgsql_conn_cleanup(s, c)
     ELSE IF ~s.h[p].alive THEN Fault(s, "freed")
     ELSE db_state_change(IF s.conns[c].broken THEN pgsql_set_error(Cause(s, p, "failed"), p)
                          ELSE pgsql_read_result(s, p), p)

kore_pgsql_continue(s, p) ==
  LET state == s.h[p].state
      clear == [s EXCEPT !.h[p].err = FALSE]
  IN CASE state \in {"INIT", "WAIT"} -> clear
       [] state = "DONE" -> Release(s, p)
       [] OTHER -> IF s.h[p].conn = 0 THEN Fault(clear, "null_conn")
                   ELSE kore_pgsql_handle(clear, s.h[p].conn, FALSE)

----------------------------------------------------------------------------
\* What happens to the worker.  A step that may connect may also fail to.
Running == bj.up = "running" /\ Ok(bj)

Tries ==
  {bj} \cup (IF bj.left.failure = 0 THEN {}
             ELSE {[bj EXCEPT !.connects = FALSE, !.left.failure = @ - 1]})
Does(s) == bj' = [s EXCEPT !.connects = TRUE]

\* Listens at once; the job scheduler's handle is ready for the timer.
kore_worker_configure ==
  /\ bj.up = "off"
  /\ \E s \in Tries :
       Does(db_query([s EXCEPT !.up = "running", !.h["listen"] = kore_pgsql_init,
                               !.h["boss"] = kore_pgsql_init],
                     "listen", "fucker", "listen"))

\* Every five seconds, whether or not the last claim was answered.
tick ==
  /\ Running /\ bj.left.tick > 0
  /\ \E s \in Tries : Does(db_query([s EXCEPT !.left.tick = @ - 1], "boss", "subscribe", "next"))

\* connection_new, and a first query.
websocket_connect(c) ==
  /\ Running /\ c \in bj.fresh
  /\ \E s \in Tries :
       Does(db_query([s EXCEPT !.fresh = @ \ {c}, !.h[c] = kore_pgsql_init], c, "db", "update"))

websocket_message(c) ==
  /\ Running /\ bj.h[c].alive /\ bj.left.message > 0
  /\ \E s \in Tries :
       Does(db_query([s EXCEPT !.left.message = @ - 1, !.asked[c] = @ + 1], c, "db", "select"))

\* websocket_disconnect: the handle is cleaned up and freed.
connection_del(c) ==
  /\ Running /\ bj.h[c].alive
  /\ Does([kore_pgsql_cleanup(bj, c) EXCEPT !.h[c].alive = FALSE])

\* A synchronous query on the way, with an answer whatever becomes of it.
page ==
  /\ Running /\ bj.left.page > 0
  /\ \E s \in Tries :
       \E got \in {kore_pgsql_setup([s EXCEPT !.left.page = @ - 1, !.h["page"] = kore_pgsql_init],
                                    "page", "db")} :
         Does([kore_pgsql_cleanup(kore_pgsql_query(got, "page", "update"), "page")
                 EXCEPT !.h["page"].alive = FALSE, !.why["page"] = {}])

\* The socket of a watched connection is readable, or has failed.
kore_pgsql_readable(c) ==
  /\ Running /\ bj.conns[c].read
  /\ \E s \in Tries : Does(kore_pgsql_handle(s, c, FALSE))

kore_pgsql_failed(c) ==
  /\ Running /\ bj.conns[c].read /\ bj.left.failure > 0
  /\ Does(kore_pgsql_handle([bj EXCEPT !.left.failure = @ - 1], c, TRUE))

\* At exit.
han ==
  /\ Running
  /\ \E s \in {kore_pgsql_continue([bj EXCEPT !.up = "exited", !.bos = "NULL"], "listen")} :
       Does(IF Ok(s) THEN kore_pgsql_cleanup(s, "boss") ELSE s)

kore_pgsql_sys_cleanup ==
  /\ bj.up = "exited" /\ Ok(bj)
  /\ Does(FoldLeft(pgsql_conn_cleanup, [bj EXCEPT !.up = "ended"], bj.free))

----------------------------------------------------------------------------
\* The server: answers in any order, claims the first job that is due, notifies who
\* listens, and may be gone.
Results(q, j) ==
  LET tuples(n, job) == [kind |-> "TUPLES", rows |-> n, job |-> job]
      ok == [kind |-> "COMMANDOK", rows |-> 0, job |-> "NULL"]
      fatal == [kind |-> "FATAL", rows |-> 0, job |-> "NULL"]
  IN {<<fatal>>} \cup
     CASE q = "listen" -> {<<ok, ok>>}
       [] q = "update" -> {<<ok>>}
       [] q = "select" -> {<<tuples(n, "NULL"), last>> : n \in {0, 2}, last \in {ok, fatal}}
       [] q = "next" -> {<<tuples(IF j = "NULL" THEN 0 ELSE 1, j)>>}
       [] q = "complete" -> {<<tuples(1, "NULL")>>}

Answer(c) ==
  LET cn == bj.conns[c]
      due == SelectSeq(Jobs, LAMBDA k : bj.jobs[k] = "created")
      job == CASE cn.q = "complete" -> cn.job
               [] cn.q = "next" /\ due # << >> -> due[1]
               [] OTHER -> "NULL"
  IN /\ Running /\ cn.sent /\ ~cn.broken
     /\ \E r \in Results(cn.q, job) :
          LET s == [bj EXCEPT !.conns[c].sent = FALSE, !.conns[c].results = r]
          IN Does(IF job = "NULL" \/ r[1].kind = "FATAL" THEN s
                  ELSE [s EXCEPT !.jobs[job] = IF cn.q = "next" THEN "active" ELSE "completed"])

Notify(c) ==
  /\ Running /\ bj.left.notify > 0
  /\ bj.conns[c].q = "listen" /\ ~bj.conns[c].sent /\ ~bj.conns[c].broken
  /\ Does([bj EXCEPT !.left.notify = @ - 1, !.noted = Append(@, Len(@)),
                     !.conns[c].notes = Append(@, Len(bj.noted))])

Break(c) ==
  /\ Running /\ bj.left.failure > 0 /\ ~bj.conns[c].broken
  /\ Does([bj EXCEPT !.left.failure = @ - 1, !.conns[c].broken = TRUE])

Next ==
  \/ kore_worker_configure \/ tick \/ page \/ han \/ kore_pgsql_sys_cleanup
  \/ \E c \in Clients : websocket_connect(c) \/ websocket_message(c) \/ connection_del(c)
  \/ \E c \in DOMAIN bj.conns :
       \/ kore_pgsql_readable(c) \/ kore_pgsql_failed(c)
       \/ Answer(c) \/ Notify(c) \/ Break(c)

----------------------------------------------------------------------------
\* Properties, of every state before a fault; the first is the type invariant.

TypeOK ==
  /\ bj.up \in {"off", "running", "exited", "ended"}
  /\ Range(bj.free) \subseteq DOMAIN bj.conns /\ Range(bj.wait) \subseteq Handles
  /\ bj.count \in [Dbs -> 0..(CountMod - 1)]
  /\ \A p \in Handles : bj.h[p].conn \in {0} \cup DOMAIN bj.conns
  /\ bj.jobs \in [JobSet -> {"created", "active", "completed"}]

Held(p) == {c \in DOMAIN bj.conns : bj.conns[c].job = p}
Went(causes) == \E p \in Handles : bj.why[p] \cap causes # {}

\* A connection is free or runs the query of a handle that points to it, unless that
\* handle queried again or lost one: and the handle points to no other's.
ConnsOwned ==
  Ok(bj) =>
    /\ Cardinality(Range(bj.free)) = Len(bj.free)
    /\ \A c \in DOMAIN bj.conns :
         (c \in Range(bj.free)) <=> (bj.conns[c].job = "NULL")
    /\ \A p \in Handles \ {"page"} :
         /\ bj.h[p].conn # 0 => bj.h[p].conn \in Held(p)
         /\ bj.why[p] \cap {"overwritten", "failed"} = {} => Held(p) \subseteq {bj.h[p].conn}

\* The length of the queue is the one counted, and the databases count as many
\* connections as there are; each its own until one is taken out of the wrong count.
CountsExact ==
  Ok(bj) =>
    /\ bj.qcount = Len(bj.wait)
    /\ MapThenSumSet(LAMBDA d : bj.count[d], Dbs) % CountMod = Cardinality(DOMAIN bj.conns)
    /\ bj.left.failure = bj.budget.failure /\ bj.up # "ended" =>
         \A d \in Dbs : bj.count[d] = Cardinality({c \in DOMAIN bj.conns : bj.conns[c].db = d})

\* A job that was claimed has its claim unread, its completion under way, or something
\* went wrong with the very handle that should have done it; it is noted only while
\* its result is read.
JobsFollowed ==
  Ok(bj) =>
    /\ bj.bos = "NULL"
    /\ \A j \in JobSet :
         /\ bj.jobs[j] = "completed" => bj.h[j].alive
         /\ bj.jobs[j] = "active" =>
              \/ \E c \in DOMAIN bj.conns : \E i \in DOMAIN bj.conns[c].results :
                   bj.conns[c].results[i].job = j
              \/ Held(j) # {}
              \/ IF bj.h[j].alive THEN bj.why[j] # {} ELSE bj.why["boss"] # {} \/ bj.up # "running"

\* Clients are told of every notification, once and in order, as long as the
\* connection that listens is there.
NotifiedInOrder ==
  LET c == bj.h["listen"].conn
  IN Ok(bj) =>
       IF c # 0 /\ bj.up = "running" THEN bj.told \o bj.conns[c].notes = bj.noted
       ELSE IsPrefix(bj.told, bj.noted)

\* A client that had its queries one after the other has an answer to each select
\* that is not under way.
ClientsAnswered ==
  Ok(bj) =>
    \A c \in Clients : bj.h[c].alive /\ bj.why[c] = {} =>
      bj.asked[c] - bj.answered[c] =
        Cardinality({k \in Held(c) : bj.conns[k].q = "select"})

\* What each fault takes: a query before the last one was answered, a wait of a handle
\* that was used before, a connection that was refused or lost, an empty table.
FaultsKnown ==
  CASE bj.fault = "freed" -> Went({"overwritten"})
    [] bj.fault = "removed_twice" -> Went({"waited_again"})
    [] bj.fault = "double_free" -> Went({"failed"})
    [] bj.fault = "null_conn" -> Went({"refused", "failed"})
    [] OTHER -> bj.fault \in {"none", "no_name"}
=============================================================================
