---------------------------- MODULE AuthSessions ----------------------------
(***************************************************************************)
(* The session check of auth2 and the connection pool it runs on (auth2.c,  *)
(* auth2/pgsql.c).  A visitor logs in, is given a cookie, and asks for the  *)
(* page (whose validator is auth_session_user) or for the dashboard         *)
(* (auth_session).  A validator starts a query bound to db_state_change and *)
(* returns RETRY; kore calls it again until it says yes or no.              *)
(*                                                                          *)
(* Only the database sess_auth is asked.  Functions are operators from      *)
(* state to state; a use of freed memory is a fault, where the model stops. *)
(***************************************************************************)
EXTENDS Integers, Sequences, FiniteSets, SequencesExt, Functions

CONSTANTS
  Requests,     \* http requests, each sent once
  ConnMax, QueueLimit,      \* pgsql_conn_max, pgsql_queue_limit
  CountMod,     \* 2^16, the width of conn_count
  Budgets       \* what may happen: [failure, change, leave], of server, table and visitor

VARIABLE au
(***************************************************************************)
(* jar     the visitor's cookie hicookie, or "NULL"                         *)
(* alts    the column alt of banners, which the cookie is looked up in      *)
(* req     request -> [kind, get, cookie, phase, asleep, out]; phase "new", *)
(*         "asking" (RETRY), "done" or "gone"                               *)
(* st      request -> its http state, struct ustate: [exists, name], and    *)
(*         the handle in it: [state, conn, err]                             *)
(* conns   id -> [job, sent, results, read, broken]                         *)
(* free, wait, qcount, count   as in pgsql.c                                *)
(* found   requests whose cookie the server found; lost: connections lost   *)
(* why     request -> what went wrong with its query                        *)
(***************************************************************************)
\* LIST_INSERT_HEAD: the last one registered is the first.
init == <<"fucky", "sess_auth", "db">>
Dbs == Range(init)

kore_pgsql_init == [exists |-> TRUE, name |-> "NULL", state |-> "INIT", conn |-> 0, err |-> FALSE]
NoState == [kore_pgsql_init EXCEPT !.exists = FALSE]

Init ==
  \E jar \in {"NULL", "old"}, b \in Budgets :
    au = [jar |-> jar, alts |-> {"user_sess"}, conns |-> << >>, free |-> << >>, wait |-> << >>, qcount |-> 0,
          count |-> [d \in Dbs |-> 0], st |-> [r \in Requests |-> NoState],
          req |-> [r \in Requests |-> [kind |-> "", get |-> TRUE, cookie |-> "NULL", phase |-> "new",
                                       asleep |-> FALSE, out |-> ""]],
          found |-> {}, lost |-> 0, why |-> [r \in Requests |-> {}], fault |-> "none",
          connects |-> TRUE, left |-> b]

Ok(s) == s.fault = "none"
Fault(s, f) == [s EXCEPT !.fault = f]
Cause(s, r, x) == [s EXCEPT !.why[r] = @ \cup {x}]
Gone(s, r) == s.req[r].phase = "gone"

----------------------------------------------------------------------------
\* The pool; a handle is named by its request.

pgsql_set_error(s, r) == [s EXCEPT !.st[r].state = "ERROR", !.st[r].err = TRUE]

pgsql_queue_add(s, r) == Cause([s EXCEPT !.qcount = @ + 1, !.wait = Append(@, r)], r, "waited")

pgsql_queue_remove(s, r) ==
  IF r \notin Range(s.wait) THEN s
  ELSE [s EXCEPT !.qcount = @ - 1, !.wait = RemoveFirst(@, r)]

\* The count of another database is lowered; that of sess_auth never is.
pgsql_conn_cleanup(s, c) ==
  LET r == s.conns[c].job
      other == init[Min({i \in DOMAIN init : init[i] # "sess_auth"})]
      gone == [s EXCEPT !.free = RemoveFirst(@, c), !.conns = Restrict(@, DOMAIN @ \ {c}),
                        !.count[other] = (@ - 1) % CountMod, !.lost = @ + 1]
  IN IF r = "NULL" THEN gone
     ELSE IF Gone(s, r) THEN Fault(s, "freed")
     ELSE pgsql_set_error(Cause([gone EXCEPT !.st[r].conn = 0], r, "failed"), r)

pgsql_conn_create(s, r) ==
  LET id == CHOOSE i \in 1..(Cardinality(DOMAIN s.conns) + 1) :
              i \notin DOMAIN s.conns /\ \A k \in 1..(i - 1) : k \in DOMAIN s.conns
      made == [job |-> "NULL", sent |-> FALSE, results |-> << >>, read |-> FALSE, broken |-> FALSE]
      new == [s EXCEPT !.count["sess_auth"] = (@ + 1) % CountMod, !.free = Append(@, id),
                       !.conns = [i \in DOMAIN @ \cup {id} |-> IF i = id THEN made ELSE @[i]]]
  IN IF s.connects THEN [s |-> new, conn |-> id]
     ELSE [s |-> pgsql_conn_cleanup(pgsql_set_error(Cause(new, r, "failed"), r), id), conn |-> 0]

pgsql_conn_next_Over(s, r) ==
  LET x == IF s.free # << >> THEN [s |-> s, conn |-> s.free[1]] ELSE pgsql_conn_create(s, r)
  IN IF x.conn = 0 THEN x ELSE [x EXCEPT !.s.free = RemoveFirst(@, x.conn)]
pgsql_conn_next(s, r) ==
  LET x == IF s.free # << >> THEN [s |-> s, conn |-> s.free[1]]
           ELSE IF ConnMax # 0 /\ s.count["sess_auth"] >= ConnMax
           THEN [s |-> IF s.qcount < QueueLimit THEN pgsql_queue_add(s, r)
                       ELSE pgsql_set_error(Cause(s, r, "refused"), r),
                 conn |-> 0]
           ELSE pgsql_conn_create(s, r)
  IN IF x.conn = 0 THEN x ELSE [x EXCEPT !.s.free = RemoveFirst(@, x.conn)]

kore_pgsql_setup(s, r) ==
  LET x == pgsql_conn_next(s, r)
      set == [x.s EXCEPT !.st[r].conn = x.conn]
  IN IF x.conn = 0 THEN set ELSE [set EXCEPT !.conns[x.conn].job = r]

pgsql_schedule(s, r) == [s EXCEPT !.conns[s.st[r].conn].read = TRUE, !.st[r].state = "WAIT"]

kore_pgsql_v_query_params(s, r) ==
  LET c == s.st[r].conn
  IN IF s.conns[c].broken THEN pgsql_set_error(Cause(s, r, "failed"), r)
     ELSE pgsql_schedule([s EXCEPT !.conns[c].sent = TRUE], r)

\* The callback of the first waiter, in state INIT, only logs: its query is never sent.
pgsql_queue_wakeup(s) ==
  IF s.wait = << >> THEN s
  ELSE IF Gone(s, s.wait[1]) THEN Fault(s, "freed")
  ELSE [s EXCEPT !.qcount = @ - 1, !.wait = Tail(@)]

\* Back on the free list, broken or not; the callback logs the state COMPLETE.
pgsql_conn_release_Undrained(s, r) ==
  LET c == s.st[r].conn
  IN pgsql_queue_wakeup([s EXCEPT !.conns[c].job = "NULL", !.conns[c].read = FALSE, !.free = Append(@, c),
                                  !.st[r].conn = 0, !.st[r].state = "COMPLETE"])
pgsql_conn_release(s, r) ==
  LET c == s.st[r].conn
      idle == [s.conns[c] EXCEPT !.job = "NULL", !.sent = FALSE, !.results = << >>, !.read = FALSE]
  IN pgsql_queue_wakeup([s EXCEPT !.conns[c] = idle, !.free = Append(@, c),
                                  !.st[r].conn = 0, !.st[r].state = "COMPLETE"])

kore_pgsql_cleanup(s, r) ==
  LET out == [pgsql_queue_remove(s, r) EXCEPT !.st[r].err = FALSE]
  IN IF s.st[r].conn = 0 THEN out ELSE pgsql_conn_release(out, r)

\* kore_pgsql_continue in state DONE, where db_state_change calls it.
kore_pgsql_continue(s, r) == pgsql_conn_release([s EXCEPT !.st[r].err = FALSE], r)

----------------------------------------------------------------------------
\* The query of a session, and what it returns.

\* A session that has to wait returns without its query.
db_query_params(s, r) ==
  LET set == kore_pgsql_setup(s, r)
  IN IF set.st[r].conn = 0 THEN set ELSE kore_pgsql_v_query_params(set, r)

\* The first answer is kept.
db_results(s, r, row) ==
  IF row = "NULL" \/ s.st[r].name # "NULL" THEN s ELSE [s EXCEPT !.st[r].name = row]

\* All results, the callback with each, and DONE even after an error.
pgsql_read_result(s, r) ==
  LET c == s.st[r].conn
      rows == s.conns[c].results
      take(t, x) == IF x = "FATAL" THEN pgsql_set_error(Cause(t, r, "failed"), r) ELSE db_results(t, r, x)
  IN IF s.conns[c].sent THEN [s EXCEPT !.st[r].state = "WAIT"]
     ELSE [FoldLeft(take, s, rows) EXCEPT !.st[r].state = "DONE", !.conns[c].results = << >>]

\* Nobody wakes the request: the handle is bound to the callback only.
db_state_change(s, r) == IF s.st[r].state = "DONE" THEN kore_pgsql_continue(s, r) ELSE s

kore_pgsql_handle(s, c, err) ==
  LET r == s.conns[c].job
  IN IF err THEN pgsql_conn_cleanup(s, c)
     ELSE IF Gone(s, r) THEN Fault(s, "freed")
     ELSE db_state_change(IF s.conns[c].broken THEN pgsql_set_error(Cause(s, r, "failed"), r)
                          ELSE pgsql_read_result(s, r), r)

----------------------------------------------------------------------------
\* The validators and the pages.

http_state_cleanup(s, r) == [s EXCEPT !.st[r] = NoState]
Finish(s, r, out) == [s EXCEPT !.req[r].phase = "done", !.req[r].out = out]
Forget(s, r) == http_state_cleanup(kore_pgsql_cleanup(s, r), r)

\* page and dashboard; the state of a request with another method is not cleaned up.
Serve(s, r, known, unknown) ==
  IF ~s.req[r].get THEN Finish(s, r, "405")
  ELSE IF s.st[r].exists
  THEN Finish(Forget(s, r), r, IF s.st[r].name # "NULL" THEN known ELSE unknown)
  ELSE Finish(s, r, unknown)
page(s, r) == Serve(s, r, "known", "unknown")
dashboard(s, r) == Serve(s, r, "dashboard", "dashboard")

\* The first call of a validator.
StartQuery(s, r) ==
  db_query_params([s EXCEPT !.st[r] = kore_pgsql_init, !.req[r].phase = "asking"], r)

auth_session_AnyName(s, r) ==
  LET h == s.st[r]
  IN CASE s.req[r].cookie = "NULL" -> Finish(s, r, "login")
       [] s.req[r].cookie # "NULL" /\ ~h.exists -> StartQuery(s, r)
       [] h.exists /\ h.state = "COMPLETE" -> dashboard(s, r)
       [] h.exists /\ h.state = "ERROR" -> Finish(Forget(s, r), r, "login")
       [] OTHER -> s
auth_session(s, r) ==
  LET h == s.st[r]
  IN CASE s.req[r].cookie = "NULL" -> Finish(s, r, "login")
       [] s.req[r].cookie # "NULL" /\ ~h.exists -> StartQuery(s, r)
       [] h.exists /\ h.state = "COMPLETE" ->
            IF h.name = s.req[r].cookie THEN dashboard(s, r) ELSE Finish(Forget(s, r), r, "login")
       [] h.exists /\ h.state = "ERROR" -> Finish(Forget(s, r), r, "login")
       [] OTHER -> s

\* Never says no; and puts a request to sleep that is asked for again too early.
auth_session_user_KeepsState(s, r) ==
  LET h == s.st[r]
  IN CASE s.req[r].cookie = "NULL" -> page(s, r)
       [] s.req[r].cookie # "NULL" /\ ~h.exists -> StartQuery(s, r)
       [] h.exists /\ h.state = "COMPLETE" -> page(s, r)
       [] h.exists /\ h.state = "ERROR" -> Finish(s, r, "unknown")
       [] OTHER -> [s EXCEPT !.req[r].asleep = TRUE]
auth_session_user(s, r) ==
  LET h == s.st[r]
  IN CASE s.req[r].cookie = "NULL" -> page(s, r)
       [] s.req[r].cookie # "NULL" /\ ~h.exists -> StartQuery(s, r)
       [] h.exists /\ h.state = "COMPLETE" ->
            IF h.name = s.req[r].cookie THEN page(s, r) ELSE page(Forget(s, r), r)
       [] h.exists /\ h.state = "ERROR" -> page(Forget(s, r), r)
       [] OTHER -> [s EXCEPT !.req[r].asleep = TRUE]

----------------------------------------------------------------------------
\* What happens to the worker.

Tries ==
  {au} \cup (IF au.left.failure = 0 THEN {} ELSE {[au EXCEPT !.connects = FALSE, !.left.failure = @ - 1]})
Does(s) == au' = [s EXCEPT !.connects = TRUE]

\* A post with the right name and password gets the cookie; anything else the login page.
auth_login(post, user, pass) ==
  /\ Ok(au) /\ au.jar # "user_sess"
  /\ Does(IF post /\ user = "globi" /\ pass = "globi" THEN [au EXCEPT !.jar = "user_sess"] ELSE au)

auth_logout == Ok(au) /\ au.jar # "NULL" /\ Does([au EXCEPT !.jar = "NULL"])

\* kore's http_process: a new request carries the visitor's cookie; one that is not
\* asleep is given to its validator again.
Arrive(r, kind, get) ==
  /\ Ok(au) /\ au.req[r].phase = "new" /\ au.req[r].kind = ""
  /\ Does([au EXCEPT !.req[r].kind = kind, !.req[r].get = get, !.req[r].cookie = au.jar])

http_process(r) ==
  /\ Ok(au) /\ au.req[r].phase \in {"new", "asking"} /\ ~au.req[r].asleep
  /\ \E s \in Tries :
       \/ au.req[r].kind = "page" /\ Does(auth_session_user(s, r))
       \/ au.req[r].kind = "dashboard" /\ Does(auth_session(s, r))

\* The visitor is gone: the request is freed, and its state with it.
Leave(r) ==
  /\ Ok(au) /\ au.req[r].phase = "asking" /\ au.left.leave > 0
  /\ Does([au EXCEPT !.req[r].phase = "gone", !.left.leave = @ - 1])

Readable(c) == Ok(au) /\ au.conns[c].read /\ Does(kore_pgsql_handle(au, c, FALSE))
Fails(c) ==
  /\ Ok(au) /\ au.conns[c].read /\ au.left.failure > 0
  /\ Does(kore_pgsql_handle([au EXCEPT !.left.failure = @ - 1], c, TRUE))

\* The server: select alt from banners where alt = cookie; or it is gone.
Answer(c) ==
  LET r == au.conns[c].job
      hit == au.req[r].cookie \in au.alts
      answers(rows) == [au EXCEPT !.conns[c].sent = FALSE, !.conns[c].results = rows]
  IN /\ Ok(au) /\ au.conns[c].sent /\ ~au.conns[c].broken
     /\ \/ Does([answers(<<IF hit THEN au.req[r].cookie ELSE "NULL">>)
                   EXCEPT !.found = @ \cup (IF hit THEN {r} ELSE {})])
        \/ Does(answers(<<"FATAL">>))
Break(c) ==
  /\ Ok(au) /\ au.left.failure > 0 /\ ~au.conns[c].broken
  /\ Does([au EXCEPT !.left.failure = @ - 1, !.conns[c].broken = TRUE])
Update ==
  /\ Ok(au) /\ au.left.change > 0
  /\ \E alts \in {{}, {"old"}} : Does([au EXCEPT !.alts = alts, !.left.change = @ - 1])

Next ==
  \/ \E post \in BOOLEAN, user, pass \in {"globi", "guest"} : auth_login(post, user, pass)
  \/ auth_logout \/ Update
  \/ \E r \in Requests :
       \/ \E kind \in {"page", "dashboard"}, get \in BOOLEAN : Arrive(r, kind, get)
       \/ http_process(r) \/ Leave(r)
  \/ \E c \in DOMAIN au.conns : Readable(c) \/ Fails(c) \/ Answer(c) \/ Break(c)

----------------------------------------------------------------------------
\* Properties, of every state before a fault; the first is the type invariant.

TypeOK ==
  /\ au.jar \in {"NULL", "old", "user_sess"}
  /\ Range(au.free) \subseteq DOMAIN au.conns /\ Range(au.wait) \subseteq Requests
  /\ au.count \in [Dbs -> 0..(CountMod - 1)]
  /\ \A r \in Requests : au.st[r].conn \in {0} \cup DOMAIN au.conns

\* A connection is free or runs the query of one request, which points back; and the
\* count is that of the connections with all that were ever lost.
PoolExact ==
  Ok(au) =>
    /\ Cardinality(Range(au.free)) = Len(au.free) /\ au.qcount = Len(au.wait)
    /\ \A c \in DOMAIN au.conns :
         IF c \in Range(au.free)
         THEN au.conns[c].job = "NULL" /\ ~au.conns[c].sent /\ au.conns[c].results = << >>
         ELSE au.conns[c].job # "NULL" /\ (Gone(au, au.conns[c].job) \/ au.st[au.conns[c].job].conn = c)
    /\ au.count["sess_auth"] = Cardinality(DOMAIN au.conns) + au.lost
    /\ ConnMax # 0 => au.count["sess_auth"] <= ConnMax

\* Who is let in, or greeted, has a cookie the server found for this very request, and
\* who is sent to the login page has not, or had a query that went wrong.
AdmittedRightly ==
  \A r \in Requests :
    /\ au.req[r].out \in {"dashboard", "known"} => r \in au.found
    /\ au.req[r].out \in {"login", "unknown"} /\ r \in au.found => au.why[r] # {}

\* An answered request holds nothing of the pool, and has no state but after a 405.
NothingKept ==
  Ok(au) =>
    \A r \in Requests : au.req[r].phase = "done" =>
      /\ au.st[r].conn = 0 /\ r \notin Range(au.wait)
      /\ au.req[r].out # "405" => ~au.st[r].exists

\* A request that is asked for again has a query under way, or an answer, or waited; one
\* that sleeps is for the page.
AskingFollowed ==
  Ok(au) =>
    \A r \in Requests : au.req[r].phase = "asking" =>
      /\ \/ au.st[r].state \in {"COMPLETE", "ERROR"}
         \/ au.st[r].state = "WAIT" /\ au.st[r].conn # 0
         \/ au.st[r].state = "INIT" /\ "waited" \in au.why[r]
      /\ au.req[r].asleep => au.req[r].kind = "page"

\* Freed memory is only used on behalf of a visitor who left.
FaultsKnown == Ok(au) \/ \E r \in Requests : Gone(au, r)
=============================================================================
