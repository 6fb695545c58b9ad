----------------------------- MODULE WsSessions -----------------------------
(***************************************************************************)
(* The sessions, handles and connections of websocket_10 (src/helper.c and  *)
(* src/websocket_10.c): the first of the two janus bridges, which counts no *)
(* references.  A session that is to go leaves the table of sessions for    *)
(* the one of old sessions and is freed three seconds later, by a timer on  *)
(* the watchdog's loop; whoever has found it before is expected to be done  *)
(* by then.  Nothing makes that so: here anybody may take longer.           *)
(*                                                                          *)
(* The kore worker runs requests; the watchdog's thread reaps idle sessions *)
(* and runs the timers; plugin threads push events.  A step is what happens *)
(* between two points where another thread may come in.  Session            *)
(* identifiers are random 64-bit numbers and never equal here.              *)
(***************************************************************************)
EXTENDS Naturals, FiniteSets, FiniteSetsExt

CONSTANTS
  Conns,         \* websocket connections
  MaxSessions,   \* sessions ever created, one for every connection accepted
  MaxHandles     \* handles ever attached

Sessions == 1..MaxSessions
Handles == 1..MaxHandles

VARIABLE ws
(***************************************************************************)
(* s       sessions: state "none", "live", "freed"; table, old (in which    *)
(*         table it is), destroy, timeout (the flags), idle (session_timeout*)
(*         has passed since last_activity), hs (ice_handles), mutex (FALSE: *)
(*         locked by a request that is over), timer "no", "set", "due"      *)
(* h       handles: live, s, app (attached to the plugin), STOP, ALERT, by  *)
(*         (the connection), late (its session had been destroyed)          *)
(* conns   open, sender (struct ex's sender_id)                             *)
(* w       the worker: pc, connection, request, session, handle, and        *)
(*         whether it has outlasted the grace period of that session (over) *)
(* d       the watchdog: pc, session.  A thread that is "stuck" waits for a *)
(*         mutex nobody will unlock; one in a "jam" has sessions_mutex too  *)
(* push    h, the handle whose plugin pushes an event, 0 if none does; over *)
(* plugin  the echo plugin is registered                                    *)
(* sent    the handle and the receivers of the event sent by this step      *)
(* faults  who used a freed session: "request", "push", "late" (the plugin  *)
(*         of a late handle), "timer"; "over" if he has had it since before *)
(*         the grace period ended.  What he does with it is not followed.   *)
(***************************************************************************)
NoSession == [state |-> "none", table |-> FALSE, old |-> FALSE, destroy |-> FALSE, timeout |-> FALSE,
              idle |-> FALSE, hs |-> {}, mutex |-> TRUE, timer |-> "no"]
NoHandle == [live |-> FALSE, s |-> 0, app |-> FALSE, STOP |-> FALSE, ALERT |-> FALSE, by |-> "",
             late |-> FALSE]
NoEx == [open |-> FALSE, sender |-> 0]
Idle == [pc |-> "idle", c |-> "", req |-> "", s |-> 0, h |-> 0, over |-> FALSE]
NoPush == [h |-> 0, over |-> FALSE]

Init ==
  \E plugin \in BOOLEAN :
    ws = [s |-> [i \in Sessions |-> NoSession], h |-> [j \in Handles |-> NoHandle],
          conns |-> [c \in Conns |-> NoEx], w |-> Idle, d |-> [pc |-> "idle", s |-> 0], push |-> NoPush,
          plugin |-> plugin, sent |-> << >>, faults |-> {}]

\* sessions_mutex is free.
Unlocked == ws.d.pc # "reap" /\ "jam" \notin {ws.w.pc, ws.d.pc}

Quiet(n) == [n EXCEPT !.sent = << >>]
Done(n) == [n EXCEPT !.w = Idle]

\* A look at a session; it may have been freed.
Use(n, i, who) == IF n.s[i].state = "live" THEN n ELSE [n EXCEPT !.faults = @ \cup {who}]
Slow(over, who) == IF over THEN "over" ELSE who

----------------------------------------------------------------------------
\* Sessions and their handles.

Unused == {i \in Sessions : ws.s[i].state = "none"}
UnusedHandles == {j \in Handles : ~ws.h[j].live}

janus_session_create(n, i) == [n EXCEPT !.s[i] = [NoSession EXCEPT !.state = "live", !.table = TRUE]]

\* The ICE code, which is not in the repository, stops the handles.
janus_ice_handle_destroy(n, js) ==
  [n EXCEPT !.h = [j \in Handles |-> [n.h[j] EXCEPT !.STOP = @ \/ j \in js]]]

\* Destroyed, and removed from the session's table.
DropHandles(n, i, js) == [janus_ice_handle_destroy(n, js) EXCEPT !.s[i].hs = @ \ js]

\* janus_session_schedule_destruction, after its compare-and-exchange: the
\* handles go, the session is old, and a timer is set to free it.
Schedule_NoTimer(n, i, remove_key) ==
  LET m == DropHandles(n, i, n.s[i].hs)
  IN  [m EXCEPT !.s[i] = [m.s[i] EXCEPT !.table = @ /\ ~remove_key, !.old = TRUE]]
Schedule_KeepsHandles(n, i, remove_key) ==
  [n EXCEPT !.s[i] = [n.s[i] EXCEPT !.table = @ /\ ~remove_key, !.old = TRUE, !.timer = "set"]]
Schedule(n, i, remove_key) ==
  LET m == DropHandles(n, i, n.s[i].hs)
  IN  [m EXCEPT !.s[i] = [m.s[i] EXCEPT !.table = @ /\ ~remove_key, !.old = TRUE, !.timer = "set"]]

----------------------------------------------------------------------------
\* Connections.

\* A session is created for every connection, and told to it.
websocket_connect(c) ==
  /\ ws.w.pc = "idle" /\ Unlocked /\ ~ws.conns[c].open /\ Unused # {}
  /\ ws' = [janus_session_create(Quiet(ws), Min(Unused)) EXCEPT !.conns[c].open = TRUE]

\* The session stays; nobody is told.
websocket_disconnect(c) ==
  /\ ws.w.pc = "idle" /\ ws.conns[c].open
  /\ ws' = [Quiet(ws) EXCEPT !.conns[c] = NoEx]

Types == {"attach", "attach_fails", "detach", "destroy", "janus", "message"}

\* websocket_message, up to janus_session_find: no reference is taken.
janus_session_find(c, i, req, j) ==
  /\ ws.w.pc = "idle" /\ Unlocked /\ ws.conns[c].open /\ ws.s[i].table
  /\ req \in {"attach", "attach_fails"} => UnusedHandles # {}
  /\ ws' = [Quiet(ws) EXCEPT !.w = [pc |-> "found", c |-> c, req |-> req, s |-> i, h |-> j,
                                   over |-> FALSE]]

\* "attach", under the session's mutex, which is left locked when there is no
\* plugin.  sender_id is that of the handle even when the plugin refuses it.
Attach_Keeps(n, i) ==
  LET j == Min(UnusedHandles)
      m == Done([n EXCEPT !.h[j] = [NoHandle EXCEPT !.live = TRUE, !.s = i, !.by = n.w.c,
                                                    !.late = n.s[i].destroy],
                          !.s[i].hs = @ \cup {j}, !.conns[n.w.c].sender = j])
  IN  IF ~n.plugin \/ n.w.req # "attach" THEN [DropHandles(m, i, {j}) EXCEPT !.s[i].mutex = FALSE]
      ELSE [m EXCEPT !.h[j].app = TRUE]
Attach(n, i) ==
  LET j == Min(UnusedHandles)
      m == Done([n EXCEPT !.h[j] = [NoHandle EXCEPT !.live = TRUE, !.s = i, !.by = n.w.c,
                                                    !.late = n.s[i].destroy],
                          !.s[i].hs = @ \cup {j}, !.conns[n.w.c].sender = j])
  IN  IF ~n.plugin THEN [m EXCEPT !.s[i].mutex = FALSE]
      ELSE IF n.w.req = "attach" THEN [m EXCEPT !.h[j].app = TRUE]
      ELSE DropHandles(m, i, {j})

\* The rest of websocket_message: last_activity, the handle (under the
\* session's mutex), and the request.
websocket_message ==
  /\ ws.w.pc = "found"
  /\ LET i == ws.w.s
         n == [Quiet(ws) EXCEPT !.s[i].idle = FALSE]
         j == IF ws.w.h \in ws.s[i].hs THEN ws.w.h ELSE 0
         locks == ws.w.h # 0 \/ ws.w.req \in {"attach", "attach_fails"}
     IN  IF ws.s[i].state # "live" THEN ws' = Done(Use(Quiet(ws), i, Slow(ws.w.over, "request")))
         ELSE IF locks /\ ~ws.s[i].mutex THEN ws' = [n EXCEPT !.w.pc = "stuck"]
         ELSE CASE ws.w.req \in {"attach", "attach_fails"} -> ws' = IF j # 0 THEN Done(n) ELSE Attach(n, i)
                [] ws.w.req = "detach" -> ws' = IF j = 0 THEN Done(n) ELSE Done(DropHandles(n, i, {j}))
                [] ws.w.req = "destroy" ->
                     ws' = IF j # 0 \/ ws.s[i].destroy THEN Done(n)
                           ELSE [n EXCEPT !.s[i].destroy = TRUE, !.w.pc = "schedule"]
                [] ws.w.req = "janus" ->
                     \/ ws' = Done(n)
                     \/ j # 0 /\ ws.h[j].app /\ ws.h[j].ALERT /\ ws' = [n EXCEPT !.w.pc = "waiting", !.w.h = j]
                [] OTHER -> ws' = Done(n)

\* "destroy": janus_session_schedule_destruction takes sessions_mutex.
janus_session_schedule_destruction ==
  /\ ws.w.pc = "schedule" /\ Unlocked
  /\ ws' = IF ws.s[ws.w.s].mutex THEN Done(Schedule(Quiet(ws), ws.w.s, TRUE))
           ELSE [Quiet(ws) EXCEPT !.w.pc = "jam"]

\* "janus" while the handle is cleaned up: the worker polls, for three seconds
\* at most, and goes on with the session it found before.
Waited ==
  /\ ws.w.pc = "waiting"
  /\ ws' = Done(Use(Quiet(ws), ws.w.s, Slow(ws.w.over, "request")))

----------------------------------------------------------------------------
\* The watchdog.

\* session_timeout passes without a request.
Expire(i) ==
  /\ ws.s[i].table /\ ~ws.s[i].idle
  /\ ws' = [Quiet(ws) EXCEPT !.s[i].idle = TRUE]

\* janus_check_sessions, one session: an idle one is marked, a marked one that
\* is idle again will be reaped.  sessions_mutex is held.
janus_check_sessions(i) ==
  /\ ws.d.pc = "idle" /\ Unlocked /\ ws.s[i].table /\ ~ws.s[i].destroy /\ ws.s[i].idle
  /\ ws' = IF ~ws.s[i].timeout THEN [Quiet(ws) EXCEPT !.s[i].timeout = TRUE]
           ELSE [Quiet(ws) EXCEPT !.d = [pc |-> "reap", s |-> i]]

\* Unless a request has begun to destroy it since, the session is scheduled;
\* it leaves the table in any case.
Reap_Twice ==
  /\ ws.d.pc = "reap"
  /\ LET i == ws.d.s
         m == Schedule([Quiet(ws) EXCEPT !.s[i].destroy = TRUE], i, FALSE)
     IN  ws' = [m EXCEPT !.d.pc = "idle", !.s[i].old = TRUE]
Reap ==
  /\ ws.d.pc = "reap"
  /\ LET i == ws.d.s
         n == Quiet(ws)
         m == IF n.s[i].destroy THEN n ELSE Schedule([n EXCEPT !.s[i].destroy = TRUE], i, FALSE)
     IN  ws' = IF ~n.s[i].destroy /\ ~n.s[i].mutex
               THEN [n EXCEPT !.s[i].destroy = TRUE, !.d.pc = "jam"]
               ELSE [m EXCEPT !.d = [pc |-> "idle", s |-> 0],
                              !.s[i] = [m.s[i] EXCEPT !.table = FALSE, !.old = TRUE]]

\* Three seconds pass, whatever request or event is still at work on the session.
GraceEnds(i) ==
  /\ ws.s[i].timer = "set"
  /\ ws' = [Quiet(ws) EXCEPT !.s[i].timer = "due",
               !.w.over = @ \/ (ws.w.pc \in {"found", "waiting"} /\ ws.w.s = i),
               !.push.over = @ \/ (ws.push.h # 0 /\ ws.h[ws.push.h].s = i)]

\* janus_session_free.
janus_session_free(n, i) == [n EXCEPT !.s[i] = [NoSession EXCEPT !.state = "freed"]]

\* janus_cleanup_session, janus_session_destroy: what is found among the old
\* sessions is freed.
janus_cleanup_session(i) ==
  /\ ws.s[i].timer = "due" /\ ws.d.pc = "idle" /\ Unlocked
  /\ LET n == [Use(Quiet(ws), i, "timer") EXCEPT !.s[i].timer = "no"]
     IN  ws' = IF ~ws.s[i].old THEN n
               ELSE IF ~ws.s[i].mutex THEN [n EXCEPT !.s[i].old = FALSE, !.d = [pc |-> "stuck", s |-> i]]
               ELSE janus_session_free(n, i)

----------------------------------------------------------------------------
\* Plugins.

Alive(j) == ws.h[j].live /\ ws.h[j].app /\ ~ws.h[j].STOP
Who(j) == IF ws.h[j].late THEN "late" ELSE "push"

\* janus_plugin_push_event: the checks; then an SDP may have to wait for
\* candidates, or three seconds for a clean-up.
PushBegin(j) ==
  /\ ws.push.h = 0 /\ Alive(j)
  /\ LET n == Use(Quiet(ws), ws.h[j].s, Who(j))
         s == ws.s[ws.h[j].s]
     IN  ws' = IF s.destroy \/ s.state # "live" THEN n
               ELSE [n EXCEPT !.push = [h |-> j, over |-> FALSE]]

\* kore_websocket_broadcast_target: every connection with this sender_id.
kore_websocket_broadcast_target_All(n, j) == [n EXCEPT !.sent = <<j, {c \in Conns : n.conns[c].open}>>]
kore_websocket_broadcast_target(n, j) ==
  [n EXCEPT !.sent = <<j, {c \in Conns : n.conns[c].open /\ n.conns[c].sender = j}>>]

\* janus_session_notify_event.
janus_session_notify_event(n, j) ==
  IF n.s[n.h[j].s].destroy THEN n ELSE kore_websocket_broadcast_target(n, j)

\* janus_plugin_handle_sdp gave nothing (no valid SDP, no candidates, stopped or
\* hung up while it waited) ...
PushGivesUp ==
  /\ ws.push.h # 0
  /\ ws' = [Quiet(ws) EXCEPT !.push = NoPush]

\* ... or there is an SDP, or none was wanted: neither STOP nor ALERT is tested
\* again, and the session found before is asked for its identifier.
janus_plugin_push_event ==
  /\ ws.push.h # 0
  /\ LET j == ws.push.h
         i == ws.h[j].s
         n == [Quiet(ws) EXCEPT !.push = NoPush]
     IN  ws' = IF ws.s[i].state # "live" THEN Use(n, i, Slow(ws.push.over, Who(j)))
               ELSE janus_session_notify_event(n, j)

janus_plugin_end_session(j) ==
  /\ Alive(j)
  /\ LET n == Use(Quiet(ws), ws.h[j].s, Who(j))
     IN  ws.s[ws.h[j].s].mutex /\ ws' = DropHandles(n, ws.h[j].s, {j})

janus_plugin_close_pc(j) ==
  /\ Alive(j) /\ ~ws.h[j].ALERT
  /\ ws' = [Quiet(ws) EXCEPT !.h[j].ALERT = TRUE]

\* The PeerConnection is cleaned up after a hangup.
IceCleanup(j) ==
  /\ ws.h[j].ALERT
  /\ ws' = [Quiet(ws) EXCEPT !.h[j].ALERT = FALSE]

Next ==
  \/ \E c \in Conns : websocket_connect(c) \/ websocket_disconnect(c)
  \/ \E c \in Conns, i \in Sessions, req \in Types, j \in {0} \cup Handles : janus_session_find(c, i, req, j)
  \/ websocket_message \/ janus_session_schedule_destruction \/ Waited
  \/ \E i \in Sessions : Expire(i) \/ janus_check_sessions(i) \/ GraceEnds(i) \/ janus_cleanup_session(i)
  \/ Reap
  \/ \E j \in Handles : PushBegin(j) \/ janus_plugin_end_session(j) \/ janus_plugin_close_pc(j) \/ IceCleanup(j)
  \/ PushGivesUp \/ janus_plugin_push_event

Spec == Init /\ [][Next]_ws

----------------------------------------------------------------------------
\* Objects, program counters and timers are of their types.
TypeOK ==
  /\ \A i \in Sessions : /\ ws.s[i].state \in {"none", "live", "freed"}
                         /\ ws.s[i].timer \in {"no", "set", "due"} /\ ws.s[i].hs \subseteq Handles
  /\ ws.w.pc \in {"idle", "found", "schedule", "waiting", "stuck", "jam"}
  /\ ws.d.pc \in {"idle", "reap", "stuck", "jam"}
  /\ ws.push.h \in 0..MaxHandles

Moving(i) == (ws.w.pc = "schedule" /\ ws.w.s = i) \/ (ws.d.pc # "idle" /\ ws.d.s = i)
Jammed == {"stuck", "jam"} \cap {ws.w.pc, ws.d.pc} # {}

(***************************************************************************)
(* However a request that destroys a session and the watchdog that reaps it *)
(* meet, the session ends up in exactly one table, with a timer exactly if  *)
(* it is an old one, and is freed once.                                     *)
(***************************************************************************)
SessionsSettled ==
  \A i \in Sessions : ~Moving(i) /\ ~Jammed =>
    LET s == ws.s[i]
    IN  \/ s.state # "live" /\ ~s.table /\ ~s.old /\ s.timer = "no"
        \/ s.state = "live" /\ s.table /\ ~s.old /\ ~s.destroy /\ s.timer = "no"
        \/ s.state = "live" /\ ~s.table /\ s.old /\ s.destroy /\ s.timer # "no"

(***************************************************************************)
(* The grace period protects whoever is done with a session within three    *)
(* seconds: a freed session is used only by one who had found it before the *)
(* period ended, a request that waits for a clean-up or an event that waits *)
(* for candidates, or that is merely slow; and by the plugin of a handle    *)
(* that was attached to a session destroyed under the request's hands.      *)
(***************************************************************************)
GraceSuffices == ws.faults \subseteq {"over", "late"}

\* The handles of a session that is gone, or on its way, are stopped, apart
\* from those a request attached to it afterwards.
HandlesStopped ==
  \A j \in Handles : ws.h[j].live /\ ~ws.h[j].late /\ ws.s[ws.h[j].s].state = "freed" => ws.h[j].STOP

\* An event reaches no connection but the one that attached its handle.
EventsReachOwner ==
  ws.sent # << >> => \A c \in ws.sent[2] : c = ws.h[ws.sent[1]].by

\* With its plugin registered the server never waits for a mutex nobody will unlock.
NeverJams == ws.plugin => ~Jammed /\ \A i \in Sessions : ws.s[i].mutex
=============================================================================
