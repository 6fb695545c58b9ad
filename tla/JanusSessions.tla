--------------------------- MODULE JanusSessions ---------------------------
(***************************************************************************)
(* The sessions and handles of the janus bridge (janus/src/pjanus.c) and    *)
(* the websocket connections that use them (janus/src/janus.c).             *)
(*                                                                          *)
(* Three kinds of threads work on them: the kore worker runs the requests   *)
(* and the disconnections one after the other; the watchdog reaps expired   *)
(* sessions and runs what plugins schedule on it; the plugins' threads push *)
(* events.  The sessions table and the handles of a session have mutexes;   *)
(* a step of an action below is what happens under one of them, or between  *)
(* two points where another thread's step could matter.  Everything else is *)
(* kept alive by reference counts, which are modelled as the numbers they   *)
(* are.                                                                     *)
(*                                                                          *)
(* Objects are numbered in the order of their allocation.  The identifier   *)
(* of a handle is its number; that of a session is in Ids.  JSON, secrets,  *)
(* tokens and the replies are left out: a request that is refused before it *)
(* looks up its session changes nothing.                                    *)
(***************************************************************************)
EXTENDS Naturals, FiniteSets, FiniteSetsExt, Functions, TLC

CONSTANTS
  Conns,         \* websocket connections
  Ids,           \* session identifiers, 0 not among them
  MaxSessions,   \* sessions ever created
  MaxHandles,    \* handles ever attached
  MaxTimers,     \* sources pending on the watchdog's context
  MaxConnects    \* connections ever accepted

Sessions == 1..MaxSessions
Handles == 1..MaxHandles

VARIABLE jn
(***************************************************************************)
(* s       sessions: state "none", "live", "freed"; id, ref, destroyed,     *)
(*         timeout (marked by the watchdog), old (last_activity is too long *)
(*         ago), hs (ice_handles), leak (references that are never dropped) *)
(* h       handles: state, s (session), ref, destroyed, loop (its loop has  *)
(*         a reference), app (the plugin is attached), pref (references of  *)
(*         the plugin session), STOP, ALERT, push (an event is being        *)
(*         pushed), leak, late (attached to a session that was destroyed)   *)
(* table   sessions: identifier -> session                                  *)
(* conns   struct usi: open, sid, hid, aw                                   *)
(* w       the worker: pc, the connection, the request, what it has found   *)
(* timers  sources on the watchdog's context: <<kind, handle>>              *)
(* accepted  how many connections there have been                           *)
(* owner   the connection whose request created a session                   *)
(* sent    the session and the receiver of each event sent by this step     *)
(* faults  uses of freed objects, after which nothing is modelled           *)
(***************************************************************************)
NoSession == [state |-> "none", id |-> 0, ref |-> 0, destroyed |-> FALSE, timeout |-> FALSE,
              old |-> FALSE, hs |-> {}, leak |-> 0]
NoHandle == [state |-> "none", s |-> 0, ref |-> 0, destroyed |-> FALSE, loop |-> FALSE, app |-> FALSE,
             pref |-> 0, STOP |-> FALSE, ALERT |-> FALSE, push |-> FALSE, leak |-> 0, late |-> FALSE]
NoUsi == [open |-> FALSE, sid |-> 0, hid |-> 0, aw |-> 0]
Idle == [pc |-> "idle", c |-> "", req |-> "", hid |-> 0, s |-> 0, h |-> 0]

Init ==
  jn = [s |-> [i \in Sessions |-> NoSession], h |-> [i \in Handles |-> NoHandle],
        table |-> << >>, conns |-> [c \in Conns |-> NoUsi], w |-> Idle, timers |-> {},
        accepted |-> 0, owner |-> << >>, sent |-> {}, faults |-> {}]

Quiet(n) == [n EXCEPT !.sent = {}]

----------------------------------------------------------------------------
\* Reference counts.

\* janus_session_free, run when the count reaches 0.
janus_session_free(n, i) == [n EXCEPT !.s[i] = [NoSession EXCEPT !.state = "freed", !.id = n.s[i].id]]

RefSession(n, i) ==
  IF n.s[i].state # "live" THEN [n EXCEPT !.faults = @ \cup {"session"}]
  ELSE [n EXCEPT !.s[i].ref = @ + 1]

UnrefSession(n, i) ==
  IF n.s[i].state # "live" THEN [n EXCEPT !.faults = @ \cup {"session"}]
  ELSE LET m == [n EXCEPT !.s[i].ref = @ - 1]
       IN  IF m.s[i].ref = 0 THEN janus_session_free(m, i) ELSE m

RefHandle(n, j) ==
  IF n.h[j].state # "live" THEN [n EXCEPT !.faults = @ \cup {"handle"}]
  ELSE [n EXCEPT !.h[j].ref = @ + 1]

\* janus_ice_handle_dereference; a handle that goes drops its session.
janus_ice_handle_dereference(n, j) ==
  IF n.h[j].state # "live" THEN [n EXCEPT !.faults = @ \cup {"handle"}]
  ELSE LET m == [n EXCEPT !.h[j].ref = @ - 1]
       IN  IF m.h[j].ref # 0 THEN m
           ELSE UnrefSession([m EXCEPT !.h[j] = [NoHandle EXCEPT !.state = "freed"]], m.h[j].s)

\* A plugin session keeps its handle.
UnrefPlugin(n, j) ==
  LET m == [n EXCEPT !.h[j].pref = @ - 1]
  IN  IF m.h[j].pref = 0 THEN janus_ice_handle_dereference(m, j) ELSE m

----------------------------------------------------------------------------
\* The ICE side, as pjanus.c uses it.

janus_ice_webrtc_hangup(n, j) == [n EXCEPT !.h[j].ALERT = TRUE]

\* The handle stops; its loop lets go of it later (IceDetach).
janus_ice_handle_destroy(n, j) ==
  IF n.h[j].destroyed THEN n
  ELSE [n EXCEPT !.h[j] = [@ EXCEPT !.destroyed = TRUE, !.STOP = TRUE, !.ALERT = TRUE]]

----------------------------------------------------------------------------
\* The handles of a session, under its mutex.

janus_session_handles_insert(n, i, j) == [RefHandle(n, j) EXCEPT !.s[i].hs = @ \cup {j}]

\* Removal from the table drops the table's reference.
DropHandle(n, i, j) ==
  IF j \in n.s[i].hs THEN janus_ice_handle_dereference([n EXCEPT !.s[i].hs = @ \ {j}], j) ELSE n

janus_session_handles_remove(n, i, j) == DropHandle(janus_ice_handle_destroy(n, j), i, j)

janus_session_handles_clear(n, i) ==
  FoldSet(LAMBDA j, m : janus_session_handles_remove(m, i, j), n, n.s[i].hs)

\* The session stays in the table: the caller removes it.
janus_session_destroy_Again(n, i) ==
  UnrefSession(janus_session_handles_clear([n EXCEPT !.s[i].destroyed = TRUE], i), i)
janus_session_destroy(n, i) ==
  IF n.s[i].destroyed THEN n
  ELSE UnrefSession(janus_session_handles_clear([n EXCEPT !.s[i].destroyed = TRUE], i), i)

\* g_hash_table_remove(sessions, ...): the entry of this identifier, whatever it is.
Forget(n, id) == [n EXCEPT !.table = Restrict(@, DOMAIN @ \ {id})]

\* kore_websocket_target: the first connection that has this session.
kore_websocket_target_Any(n, i) == {[n EXCEPT !.sent = @ \cup {<<i, c>>}] : c \in Conns}
kore_websocket_target(n, i) ==
  LET to == {c \in Conns : n.conns[c].open /\ n.conns[c].sid = n.s[i].id /\ n.conns[c].aw = 0}
  IN  IF to = {} THEN {n} ELSE {[n EXCEPT !.sent = @ \cup {<<i, c>>}] : c \in to}

janus_session_notify_event(n, i) ==
  IF n.s[i].destroyed THEN {n} ELSE kore_websocket_target(n, i)

----------------------------------------------------------------------------
\* Connections.

websocket_connect(c) ==
  /\ ~jn.conns[c].open /\ jn.w.pc = "idle" /\ jn.accepted < MaxConnects
  /\ jn' = [Quiet(jn) EXCEPT !.conns[c] = [NoUsi EXCEPT !.open = TRUE], !.accepted = @ + 1]

\* {"adtype": n}: the connection speaks the admin API (module JanusAdmin) or not.
AdType(c, n) ==
  /\ jn.conns[c].open /\ jn.w.pc = "idle"
  /\ jn' = [Quiet(jn) EXCEPT !.conns[c].aw = n]

\* The worker finds the session of a connection that closes, and works on it below.
websocket_disconnect(c) ==
  LET us == jn.conns[c]
      n == [Quiet(jn) EXCEPT !.conns[c] = NoUsi]
  IN  /\ us.open /\ jn.w.pc = "idle"
      /\ IF us.sid = 0 \/ us.sid \notin DOMAIN jn.table THEN jn' = n
         ELSE LET i == jn.table[us.sid]
              IN  jn' = [RefSession(n, i) EXCEPT
                           !.w = [pc |-> "found", c |-> c, s |-> i, h |-> 0, hid |-> us.hid,
                                  req |-> IF us.hid = 0 THEN "del_sess" ELSE "del_han"]]

----------------------------------------------------------------------------
\* Requests, up to the session.

Free == {i \in Sessions : jn.s[i].state = "none"}

\* janus_session_create.
janus_session_create(n, i, id) ==
  [n EXCEPT !.s[i] = [NoSession EXCEPT !.state = "live", !.id = id, !.ref = 1],
            !.table = [k \in DOMAIN @ \cup {id} |-> IF k = id THEN i ELSE @[k]]]

\* "create": a random identifier or one the application gives, not in use.
Create(c, id) ==
  /\ jn.conns[c].open /\ jn.conns[c].aw = 0 /\ jn.w.pc = "idle"
  /\ Free # {} /\ id \in Ids \ DOMAIN jn.table
  /\ LET i == Min(Free)
         n == janus_session_create(Quiet(jn), i, id)
     IN  jn' = [n EXCEPT !.conns[c].sid = id, !.owner = @ @@ (i :> c)]

janus_session_find(n, c, id, req, hid) ==
  LET i == n.table[id]
  IN  [RefSession(n, i) EXCEPT !.s[i].old = FALSE,
         !.w = [pc |-> "found", c |-> c, req |-> req, hid |-> hid, s |-> i, h |-> 0]]

FreeHandles == {j \in Handles : jn.h[j].state = "none"}

Attaches == {"attach", "attach_fails"}
SessionRequests == Attaches \cup {"keepalive", "destroy"}
HandleRequests == {"detach", "hangup"}

\* Every other request looks up its session and refreshes last_activity.
Request(c, id, req, hid) ==
  /\ jn.conns[c].open /\ jn.conns[c].aw = 0 /\ jn.w.pc = "idle"
  /\ id \in DOMAIN jn.table
  /\ (req \in HandleRequests) = (hid # 0)
  /\ req \in Attaches => FreeHandles # {}
  /\ jn' = janus_session_find(Quiet(jn), c, id, req, hid)

----------------------------------------------------------------------------
\* Requests, with the session found.

\* jsondone: the references of the request are dropped.
jsondone(n) ==
  LET m == IF n.w.h # 0 THEN janus_ice_handle_dereference(n, n.w.h) ELSE n
  IN  [UnrefSession(m, n.w.s) EXCEPT !.w = Idle]

\* janus_session_handles_find.
janus_session_handles_find ==
  /\ jn.w.pc = "found" /\ jn.w.req \in HandleRequests \cup {"del_han"}
  /\ LET n == Quiet(jn)
     IN  jn' = IF jn.w.hid \in jn.s[jn.w.s].hs
               THEN [RefHandle(n, jn.w.hid) EXCEPT !.w.h = jn.w.hid, !.w.pc = "handle"]
               ELSE IF jn.w.req # "del_han" THEN jsondone(n)
               ELSE [n EXCEPT !.s[jn.w.s].leak = @ + 1, !.w = Idle]

Keepalive ==
  /\ jn.w.pc = "found" /\ jn.w.req = "keepalive"
  /\ jn' = jsondone(Quiet(jn))

\* janus_ice_handle_create: a reference for its loop, one for the session's
\* table, and one on the session.
janus_ice_handle_create(n, i, j) ==
  LET m == [n EXCEPT !.h[j] = [NoHandle EXCEPT !.state = "live", !.s = i, !.ref = 1, !.loop = TRUE,
                                               !.late = n.s[i].destroyed]]
  IN  janus_session_handles_insert(RefSession(m, i), i, j)

\* janus_ice_handle_attach_plugin: the plugin session keeps the handle.
janus_ice_handle_attach_plugin(n, j) ==
  [RefHandle(n, j) EXCEPT !.h[j].app = TRUE, !.h[j].pref = 1]

\* "attach" creates the handle: the session's table and the loop hold it, the request does not yet.
AttachCreate ==
  /\ jn.w.pc = "found" /\ jn.w.req \in Attaches
  /\ LET j == Min(FreeHandles)
     IN  jn' = [janus_ice_handle_create(Quiet(jn), jn.w.s, j) EXCEPT !.w.h = j, !.w.pc = "created"]

\* The connection learns the handle's identifier and the request takes a
\* reference, unless the watchdog has cleared the session and the loop has
\* ended meanwhile: then the handle is gone.
AttachHold ==
  /\ jn.w.pc = "created"
  /\ jn' = IF jn.h[jn.w.h].state = "freed" THEN [Quiet(jn) EXCEPT !.faults = @ \cup {"attach"}]
           ELSE [RefHandle(Quiet(jn), jn.w.h) EXCEPT
                   !.w.pc = "held", !.conns[jn.w.c].hid = IF @ = 0 THEN jn.w.h ELSE @]

\* The plugin is attached, to a destroyed handle too, or refuses; the
\* connection keeps the handle's identifier.
Attach ==
  /\ jn.w.pc = "held"
  /\ LET n == Quiet(jn)
     IN  jn' = jsondone(IF jn.w.req = "attach" THEN janus_ice_handle_attach_plugin(n, jn.w.h)
                        ELSE janus_session_handles_remove(n, jn.w.s, jn.w.h))

\* "destroy" and del_sess: the session leaves the table, then it is destroyed.
DestroyForget ==
  /\ jn.w.pc = "found" /\ jn.w.req \in {"destroy", "del_sess"}
  /\ LET n == Forget(Quiet(jn), jn.s[jn.w.s].id)
     IN  jn' = [n EXCEPT !.w.pc = "forgotten",
                         !.conns[jn.w.c].sid = IF jn.w.req = "destroy" THEN 0 ELSE @]

\* del_sess keeps the reference of its find.
Destroy ==
  /\ jn.w.pc = "forgotten" /\ jn.w.req \in {"destroy", "del_sess"}
  /\ LET n == janus_session_destroy(Quiet(jn), jn.w.s)
     IN  jn' = IF jn.w.req = "destroy" THEN jsondone(n)
               ELSE [n EXCEPT !.s[jn.w.s].leak = @ + 1, !.w = Idle]

\* "detach".
Detach ==
  /\ jn.w.pc = "handle" /\ jn.w.req = "detach"
  /\ LET n == Quiet(jn)
     IN  jn' = jsondone(IF ~jn.h[jn.w.h].app THEN n
                        ELSE [janus_session_handles_remove(n, jn.w.s, jn.w.h) EXCEPT
                                !.conns[jn.w.c].hid = 0])

\* "hangup".
Hangup ==
  /\ jn.w.pc = "handle" /\ jn.w.req = "hangup"
  /\ LET n == Quiet(jn)
     IN  jn' = jsondone(IF jn.h[jn.w.h].app THEN janus_ice_webrtc_hangup(n, jn.w.h) ELSE n)

\* del_han: the handle and the session go; both references of the finds stay.
DelHan ==
  /\ jn.w.pc = "handle" /\ jn.w.req = "del_han"
  /\ LET n == Forget(janus_session_handles_remove(Quiet(jn), jn.w.s, jn.w.h), jn.s[jn.w.s].id)
     IN  jn' = [n EXCEPT !.w.pc = "removed"]
DelHanDestroy ==
  /\ jn.w.pc = "removed"
  /\ jn' = [janus_session_destroy(Quiet(jn), jn.w.s) EXCEPT
              !.s[jn.w.s].leak = @ + 1, !.h[jn.w.h].leak = @ + 1, !.w = Idle]

----------------------------------------------------------------------------
\* The watchdog.

\* session_timeout passes without a request.
Expire(i) ==
  /\ i \in Range(jn.table) /\ ~jn.s[i].old
  /\ jn' = [Quiet(jn) EXCEPT !.s[i].old = TRUE]

\* One session at a tick: marked first, and reaped by a later tick, which tells
\* its connection.  The mark is never taken back.
CheckSession_Forgets(n, i) ==
  IF n.s[i].destroyed \/ ~n.s[i].old THEN {n}
  ELSE IF ~n.s[i].timeout THEN {[n EXCEPT !.s[i].timeout = TRUE]}
  ELSE {Forget(m, n.s[i].id) : m \in kore_websocket_target(janus_session_handles_clear(n, i), i)}
CheckSession(n, i) ==
  IF n.s[i].destroyed \/ ~n.s[i].old THEN {n}
  ELSE IF ~n.s[i].timeout THEN {[n EXCEPT !.s[i].timeout = TRUE]}
  ELSE {janus_session_destroy(Forget(m, n.s[i].id), i) :
          m \in kore_websocket_target(janus_session_handles_clear(n, i), i)}

janus_check_sessions ==
  /\ \E i \in Range(jn.table) : jn.s[i].old
  /\ jn' \in FoldSet(LAMBDA i, all : UNION {CheckSession(n, i) : n \in all}, {Quiet(jn)},
                    Range(jn.table))

\* janus_plugin_close_pc, janus_plugin_end_session: scheduled on the watchdog.
Alive(j) == jn.h[j].state = "live" /\ jn.h[j].app /\ jn.h[j].pref > 0 /\ ~jn.h[j].destroyed
Schedule(kind, j) ==
  /\ Alive(j) /\ <<kind, j>> \notin jn.timers /\ Cardinality(jn.timers) < MaxTimers
  /\ jn' = [Quiet(jn) EXCEPT !.h[j].pref = @ + 1, !.timers = @ \cup {<<kind, j>>}]

Stopped(j) == jn.h[j].STOP \/ jn.h[j].ALERT

janus_plugin_close_pc_internal(j) ==
  /\ <<"close_pc", j>> \in jn.timers
  /\ LET n == [Quiet(jn) EXCEPT !.timers = @ \ {<<"close_pc", j>>}]
     IN  jn' = UnrefPlugin(IF Stopped(j) THEN n ELSE janus_ice_webrtc_hangup(n, j), j)

\* The reference it takes on the handle is not dropped when it removes it.
janus_plugin_end_session_internal(j) ==
  /\ <<"end_session", j>> \in jn.timers
  /\ LET n == [Quiet(jn) EXCEPT !.timers = @ \ {<<"end_session", j>>}]
         m == janus_session_handles_remove(RefHandle(n, j), jn.h[j].s, j)
     IN  jn' = UnrefPlugin(IF Stopped(j) THEN n ELSE [m EXCEPT !.h[j].leak = @ + 1], j)

----------------------------------------------------------------------------
\* Plugins and ICE.

\* janus_plugin_push_event, up to where the references are taken, and the rest.
PushBegin(j) ==
  /\ Alive(j) /\ ~jn.h[j].push /\ ~jn.h[j].STOP /\ ~jn.s[jn.h[j].s].destroyed
  /\ jn' = [RefHandle(Quiet(jn), j) EXCEPT !.h[j].pref = @ + 1, !.h[j].push = TRUE]
janus_plugin_push_event(j) ==
  /\ jn.h[j].push
  /\ \E n \in janus_session_notify_event(Quiet(jn), jn.h[j].s) :
       jn' = janus_ice_handle_dereference(UnrefPlugin([n EXCEPT !.h[j].push = FALSE], j), j)

\* The handle's loop ends: the plugin is detached, the loop's reference dropped.
IceDetach(j) ==
  /\ jn.h[j].state = "live" /\ jn.h[j].destroyed /\ jn.h[j].loop
  /\ LET n == [Quiet(jn) EXCEPT !.h[j].loop = FALSE, !.h[j].app = FALSE]
         m == IF jn.h[j].app THEN UnrefPlugin(n, j) ELSE n
     IN  jn' = janus_ice_handle_dereference(m, j)

\* The PeerConnection is cleaned up after a hangup.
IceCleanup(j) ==
  /\ jn.h[j].state = "live" /\ jn.h[j].ALERT /\ ~jn.h[j].destroyed
  /\ jn' = [Quiet(jn) EXCEPT !.h[j].ALERT = FALSE]

Step ==
  \/ \E c \in Conns : websocket_connect(c) \/ websocket_disconnect(c)
  \/ \E c \in Conns, n \in {0, 1} : AdType(c, n)
  \/ \E c \in Conns, id \in Ids : Create(c, id)
  \/ \E c \in Conns, id \in Ids, req \in SessionRequests \cup HandleRequests,
       hid \in {0} \cup Handles : Request(c, id, req, hid)
  \/ janus_session_handles_find \/ Keepalive \/ AttachCreate \/ AttachHold \/ Attach
  \/ DestroyForget \/ Destroy
  \/ Detach \/ Hangup \/ DelHan \/ DelHanDestroy
  \/ \E i \in Sessions : Expire(i)
  \/ janus_check_sessions
  \/ \E j \in Handles : \/ \E kind \in {"close_pc", "end_session"} : Schedule(kind, j)
                        \/ janus_plugin_close_pc_internal(j) \/ janus_plugin_end_session_internal(j)
                        \/ PushBegin(j) \/ janus_plugin_push_event(j)
                        \/ IceDetach(j) \/ IceCleanup(j)

Next == jn.faults = {} /\ Step

Spec == Init /\ [][Next]_jn

----------------------------------------------------------------------------
One(b) == IF b THEN 1 ELSE 0
Live(objects) == {i \in DOMAIN objects : objects[i].state = "live"}
Working == jn.w.pc # "idle"
Holds(j) == jn.w.h = j /\ jn.w.pc # "created"

\* Every record has its fields' types; what is found is allocated.
TypeOK ==
  /\ \A i \in Sessions : jn.s[i].state \in {"none", "live", "freed"} /\ jn.s[i].hs \subseteq Handles
  /\ \A j \in Handles : jn.h[j].state \in {"none", "live", "freed"} /\ jn.h[j].s \in 0..MaxSessions
  /\ DOMAIN jn.table \subseteq Ids /\ Range(jn.table) \subseteq Sessions
  /\ jn.w.pc \in {"idle", "found", "handle", "forgotten", "removed", "created", "held"}
  /\ Working => jn.w.s \in Sessions

(***************************************************************************)
(* The count of a session is that of its holders: itself until it is        *)
(* destroyed, its handles, the request in progress, and the references      *)
(* that del_sess and del_han leave behind; that of a handle is its loop,    *)
(* the session's table, the plugin session, the request, a push, and what   *)
(* del_han and janus_plugin_end_session_internal leave behind.  So nothing  *)
(* is freed while it is held, by whichever thread, nor used afterwards, but *)
(* by "attach": it uses the handle it has made before it holds it, and the  *)
(* watchdog and the handle's loop can let it go in between.                 *)
(***************************************************************************)
RefsExact ==
  /\ \A i \in Live(jn.s) :
       jn.s[i].ref = One(~jn.s[i].destroyed) + Cardinality({j \in Live(jn.h) : jn.h[j].s = i})
                     + One(Working /\ jn.w.s = i) + jn.s[i].leak
  /\ \A j \in Live(jn.h) :
       /\ jn.h[j].ref = One(jn.h[j].loop) + One(j \in jn.s[jn.h[j].s].hs) + One(jn.h[j].pref > 0)
                        + One(Holds(j)) + One(jn.h[j].push) + jn.h[j].leak
       /\ jn.h[j].pref = One(jn.h[j].app) + Cardinality({t \in jn.timers : t[2] = j})
                         + One(jn.h[j].push)
  /\ jn.faults \subseteq {"attach"}

(***************************************************************************)
(* The table has exactly the sessions that are not destroyed, apart from    *)
(* one the worker is about to destroy; the handles of a destroyed session   *)
(* are those a request attached after the watchdog had reaped it, which     *)
(* nobody can find any more.                                                *)
(***************************************************************************)
NoOrphans ==
  /\ \A i \in Live(jn.s) :
       \/ jn.s[i].destroyed
       \/ jn.s[i].id \in DOMAIN jn.table /\ jn.table[jn.s[i].id] = i
       \/ jn.w.pc \in {"forgotten", "removed"} /\ jn.w.s = i
  /\ \A i \in Range(jn.table) : jn.s[i].state = "live" /\ ~jn.s[i].destroyed
  /\ \A i \in Sessions : jn.s[i].destroyed => \A j \in jn.s[i].hs : jn.h[j].late

\* An event, the timeout's too, reaches the connection that created its session, or one that once
\* created a session of the same identifier and still has it as its own.
EventsReachOwner ==
  \A e \in jn.sent : \E k \in 1..e[1] : jn.s[k].id = jn.s[e[1]].id /\ jn.owner[k] = e[2]
=============================================================================
