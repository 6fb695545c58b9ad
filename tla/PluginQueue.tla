---------------------------- MODULE PluginQueue -----------------------------
(***************************************************************************)
(* The plugin server of websocket_8: a kore task loads plugins from a       *)
(* folder (src/websocket_8.c), every new websocket hands a message to the   *)
(* last one, whose thread answers to all websockets of the room             *)
(* (plugin/echo.c), and the end of the worker stops the task.  websocket_6, *)
(* websocket_7 and websocket_9 are earlier and later copies.                *)
(*                                                                          *)
(* A step is what one thread does between two uses of what it shares.  What *)
(* is only logged (kore messages, the channel of the task) is left out, and *)
(* so is the content of the lists of kore a broadcast goes to.              *)
(***************************************************************************)
EXTENDS Integers, Sequences, FiniteSets, SequencesExt

CONSTANTS
  Conns,       \* websockets, each connects once
  Folders,     \* sequences of plugins: "noload", "nosym", "null", "missing", "fails", "ok"
  Lengths      \* lengths of messages

VARIABLE pq
(***************************************************************************)
(* process  "up", "teardown", "exited", "crashed";  stop: the flag          *)
(* task     "watchdog", "folder", "load", "wait", "stop", "join", "done"    *)
(* folder   what is to be loaded;  at: how many were                        *)
(* plugin   janus_plugin: the number of a plugin, 0 for NULL                *)
(* obj      number -> the statics of a plugin: [kind, initialized,          *)
(*          stopping, queue, alive, thread, msg]                            *)
(* conns, been   websockets now and ever;  calling: the call of the worker  *)
(*          that passed its check, as <<number, websocket>>                 *)
(* accepted, handled, dropped   <<number, websocket>>: messages in order,   *)
(*          and those freed with their queue                                *)
(***************************************************************************)
NULL == 0

Init ==
  \E f \in Folders :
    pq = [process |-> "up", stop |-> FALSE, task |-> "watchdog", folder |-> f, plugin |-> NULL, obj |-> << >>,
          conns |-> {}, been |-> {}, calling |-> << >>, accepted |-> << >>, handled |-> << >>, dropped |-> {},
          faults |-> {}]

Fault(s, f) == [s EXCEPT !.faults = @ \cup {f}]
Crash(s, f) == [Fault(s, f) EXCEPT !.process = "crashed"]
Alive == pq.process \in {"up", "teardown"}

----------------------------------------------------------------------------
\* plugin/echo.c

Statics == [kind |-> "ok", initialized |-> FALSE, stopping |-> FALSE, queue |-> << >>, alive |-> FALSE,
            thread |-> "none", msg |-> "NULL"]
plugin_init == [Statics EXCEPT !.initialized = TRUE, !.alive = TRUE, !.thread = "check"]

\* The text of a message is a literal, which g_free cannot free.
plugin_message_free(s, m) == IF m \in {"NULL", "exit"} THEN s ELSE Fault(s, "literal_freed")

\* Stop, wake and join the thread, free the queue and what waits in it.
DestroyBegin_NoExit(k) ==
  IF ~pq.obj[k].initialized THEN [pq EXCEPT !.task = "done", !.plugin = NULL]
  ELSE [pq EXCEPT !.task = "join", !.obj[k].stopping = TRUE]
DestroyBegin(k) ==
  IF ~pq.obj[k].initialized THEN [pq EXCEPT !.task = "done", !.plugin = NULL]
  ELSE [pq EXCEPT !.task = "join", !.obj[k].stopping = TRUE, !.obj[k].queue = Append(@, "exit")]

plugin_destroy(k) ==
  LET left == SelectSeq(pq.obj[k].queue, LAMBDA m : m # "exit")
      s == [pq EXCEPT !.dropped = @ \cup {<<k, m>> : m \in ToSet(left)}, !.task = "done", !.plugin = NULL,
                      !.obj[k] = [Statics EXCEPT !.thread = "left"]]
  IN FoldLeft(plugin_message_free, s, left)

Thread(k, from) == Alive /\ pq.obj[k].thread = from

\* The message in hand is freed, or not when it is exit_message.
HandlerCheck(k) ==
  /\ Thread(k, "check")
  /\ pq' = IF pq.obj[k].initialized /\ ~pq.obj[k].stopping THEN [pq EXCEPT !.obj[k].thread = "pop"]
           ELSE plugin_message_free([pq EXCEPT !.obj[k].thread = "left"], pq.obj[k].msg)

HandlerPop(k) ==
  /\ Thread(k, "pop") /\ pq.obj[k].queue # << >>
  /\ LET m == Head(pq.obj[k].queue)
     IN pq' = [pq EXCEPT !.obj[k].queue = Tail(@), !.obj[k].msg = m,
                         !.obj[k].thread = IF m = "exit" THEN "left" ELSE "walk"]

\* push_event: the thread walks the worker's list of connections.
HandlerPush(k) ==
  /\ Thread(k, "walk")
  /\ pq' = [pq EXCEPT !.obj[k].thread = "check", !.handled = Append(@, <<k, pq.obj[k].msg>>)]

----------------------------------------------------------------------------
\* src/websocket_8.c: rtc_loop, the task.

Task(from) == Alive /\ pq.task = from

StartWatchdog(ok) == Task("watchdog") /\ pq' = [pq EXCEPT !.task = IF ok THEN "folder" ELSE "done"]

OpenFolder(ok) == Task("folder") /\ pq' = IF ok THEN [pq EXCEPT !.task = "load"] ELSE [pq EXCEPT !.process = "exited"]

\* janus_plugin is set before the plugin is looked at, and stays when it is refused.
LoadPlugin ==
  /\ Task("load") /\ pq.folder # << >>
  /\ LET kind == Head(pq.folder)
         k == Len(pq.obj) + 1
         s == [pq EXCEPT !.folder = Tail(@),
                         !.obj = Append(@, IF kind = "ok" THEN plugin_init ELSE [Statics EXCEPT !.kind = kind])]
     IN pq' = CASE kind \in {"noload", "nosym"} -> s
                [] kind = "null" -> [s EXCEPT !.plugin = NULL]
                [] OTHER -> [s EXCEPT !.plugin = k]

LoadDone == Task("load") /\ pq.folder = << >> /\ pq' = [pq EXCEPT !.task = "wait"]

\* A plugin that is not there any more, or has no destroy, cannot be destroyed.
rtc_loop ==
  /\ Task("wait") /\ pq.stop
  /\ pq' = IF pq.plugin = NULL THEN [pq EXCEPT !.task = "done"]
           ELSE IF pq.obj[pq.plugin].kind # "ok" THEN Crash(pq, pq.obj[pq.plugin].kind)
           ELSE DestroyBegin(pq.plugin)

Join == Task("join") /\ pq.obj[pq.plugin].thread = "left" /\ pq' = plugin_destroy(pq.plugin)

----------------------------------------------------------------------------
\* The worker.  Whoever changes the list of connections while a plugin walks it races.

Walked(s) == IF \E k \in DOMAIN s.obj : s.obj[k].thread = "walk" THEN Fault(s, "list_raced") ELSE s
Free == pq.process = "up" /\ pq.calling = << >>

\* go_handle_message and the check of plugin_handle_message.
websocket_connect(c) ==
  /\ Free /\ c \notin pq.been
  /\ LET s == Walked([pq EXCEPT !.conns = @ \cup {c}, !.been = @ \cup {c}])
         p == pq.plugin
     IN pq' = IF p = NULL THEN Crash(s, "null_plugin")
              ELSE IF pq.obj[p].kind # "ok" THEN Crash(s, pq.obj[p].kind)
              ELSE IF pq.obj[p].initialized /\ ~pq.obj[p].stopping THEN [s EXCEPT !.calling = <<p, c>>]
              ELSE s

\* The queue may be gone since the check.
plugin_handle_message ==
  /\ Alive /\ pq.calling # << >>
  /\ LET k == pq.calling[1]
         s == [pq EXCEPT !.calling = << >>]
     IN pq' = IF pq.obj[k].alive
              THEN [s EXCEPT !.obj[k].queue = Append(@, pq.calling[2]), !.accepted = Append(@, pq.calling)]
              ELSE Crash(s, "queue_freed")

\* Header of a frame: first byte, short length and extended length.
websocket_frame_build_Tight(op, len) ==
  <<128 + (op % 128)>> \o
    IF len > 125 THEN IF len <= 65536 THEN <<126>> \o <<(len \div 256) % 256, len % 256>>
                      ELSE <<127, 0, 0, 0, 0>> \o [i \in 1..4 |-> (len \div 256 ^ (4 - i)) % 256]
    ELSE <<len>>
websocket_frame_build(op, len) ==
  <<128 + (op % 128)>> \o
    IF len > 125 THEN IF len < 65535 THEN <<126>> \o <<(len \div 256) % 256, len % 256>>
                      ELSE <<127, 0, 0, 0, 0>> \o [i \in 1..4 |-> (len \div 256 ^ (4 - i)) % 256]
    ELSE <<len>>

websocket_disconnect(c) ==
  /\ Free /\ c \in pq.conns
  /\ pq' = Walked([pq EXCEPT !.conns = @ \ {c}])

\* The worker waits 0.4 seconds for a task that looks every 0.25 seconds, and exits.
kore_worker_teardown == Free /\ pq' = [pq EXCEPT !.process = "teardown", !.stop = TRUE]
Exit ==
  /\ pq.process = "teardown"
  /\ LET s == [pq EXCEPT !.process = "exited"]
     IN pq' = IF pq.task = "done" THEN s ELSE Fault(s, "exit_early")

Next ==
  \/ \E ok \in BOOLEAN : StartWatchdog(ok) \/ OpenFolder(ok)
  \/ LoadPlugin \/ LoadDone \/ rtc_loop \/ Join
  \/ \E k \in DOMAIN pq.obj : HandlerCheck(k) \/ HandlerPop(k) \/ HandlerPush(k)
  \/ \E c \in Conns : websocket_connect(c) \/ websocket_disconnect(c)
  \/ plugin_handle_message \/ kore_worker_teardown \/ Exit

----------------------------------------------------------------------------
\* Properties; the first is the type invariant.

TypeOK ==
  /\ pq.process \in {"up", "teardown", "exited", "crashed"} /\ pq.plugin \in 0..Len(pq.obj)
  /\ \A k \in DOMAIN pq.obj : pq.obj[k].thread \in {"none", "check", "pop", "walk", "left"}

\* Messages a plugin accepted are answered in order and once; those that are not were
\* still waiting, or were freed with the queue.
AcceptedHandled ==
  \A k \in DOMAIN pq.obj :
    LET of(seq) == SelectSeq(seq, LAMBDA x : x[1] = k)
        hand == IF pq.obj[k].thread = "walk" THEN <<pq.obj[k].msg>> ELSE << >>
        wait == SelectSeq(pq.obj[k].queue, LAMBDA m : m # "exit")
    IN SelectSeq(of(pq.accepted), LAMBDA x : x \notin pq.dropped)
         = of(pq.handled) \o [i \in 1..Len(hand \o wait) |-> <<k, (hand \o wait)[i]>>]

\* A thread never waits on a queue nobody will push to: once it is told to stop, it is
\* past its wait or exit_message is in front of it.
ThreadsWoken ==
  \A k \in DOMAIN pq.obj :
    pq.obj[k].stopping /\ pq.obj[k].thread = "pop" => "exit" \in ToSet(pq.obj[k].queue)

\* The length a reader of the frame finds is the length of the message.
Decoded(h) ==
  CASE h[2] = 126 -> h[3] * 256 + h[4] [] h[2] = 127 -> FoldLeft(LAMBDA n, b : n * 256 + b, 0, SubSeq(h, 3, Len(h)))
    [] OTHER -> h[2]
FramesDecode == \A len \in Lengths : Decoded(websocket_frame_build(1, len)) = len

\* What can go wrong, and when: a websocket or the end meets no plugin or one that was
\* refused, literals are freed only at the end, and the worker may not wait for it.  A
\* message is never pushed to a queue that was freed: the worker that would push it is
\* the one that waits for the end.
FaultsKnown ==
  /\ pq.faults \subseteq {"null_plugin", "missing", "fails", "literal_freed", "list_raced", "exit_early"}
  /\ "literal_freed" \in pq.faults => pq.stop
  /\ pq.faults \cap {"missing", "fails", "null_plugin"} # {} => pq.process = "crashed"
=============================================================================
