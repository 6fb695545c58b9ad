-------------------------- MODULE MediasoupChannel --------------------------
(***************************************************************************)
(* The first mediasoup server: each websocket client asks the worker for a  *)
(* room through a channel that keeps a letter and a timer for every request *)
(* (mediasoup.c, soup_server.c, channel.c, room.c, globi_ee.c), and the     *)
(* worker's side of it (soup/UnixStreamSocket, Request, Loop, Room).        *)
(*                                                                          *)
(* Two threads: kore's takes websocket events and timers and closes the     *)
(* worker's loop, the worker's runs that loop and with it on_from_cpp,      *)
(* which calls the clients' callbacks.  Nothing is locked: the threads meet *)
(* between a callback and the removal of its letter, between the making of  *)
(* a room and its place in the map, and at every room that Close destroys.  *)
(* random_u32 is taken never to return the same number twice.               *)
(***************************************************************************)
EXTENDS Naturals, Sequences

CONSTANTS
  Conns,       \* websocket connections
  MaxWild      \* messages of the websocket that fire a buffer not on the heap

VARIABLE ms
(***************************************************************************)
(* s        soup of a connection: life "none", "live", "freed"; state, id,  *)
(*          room (in_id), name (is there one) and cbs, how often its        *)
(*          callback was called                                             *)
(* letters  each [id, c, timer], found by its id, which id_lookup keeps     *)
(*          distinct; w: << >>, or the letter whose callback the worker's   *)
(*          thread has just called; t: << >>, or the client whose callback  *)
(*          a timer has just called, on kore's thread                       *)
(* in, out  queues of to_cpp and from_cpp; req: << >>, or the request whose *)
(*          room the worker's thread is making                              *)
(* rooms    of the worker; listeners: rooms of kore, each with a listener   *)
(*          on the channel's emitter; rejected: rooms given up by kore;     *)
(*          todo: rooms that Close has yet to come to; late: rooms made     *)
(*          since Close began                                               *)
(* task     "starting", "running", "closing", "deleted" (the channel, not   *)
(*          its handles), "closed", "unlooped", "destroyed", "ended",       *)
(*          "aborted"                                                       *)
(* unavailable  soup_unavailable; server: md_server, "live", "freed"        *)
(* crypto   how often m_destroy ran; next: the next random number           *)
(* faults   uses of what is freed; wild: counts the messages                *)
(***************************************************************************)
NoSoup == [life |-> "none", state |-> "INIT", id |-> 0, room |-> 0, name |-> FALSE, cbs |-> 0]

Init ==
  ms = [s |-> [c \in Conns |-> NoSoup], letters |-> {}, w |-> << >>, t |-> << >>, in |-> << >>,
        out |-> << >>, req |-> << >>, rooms |-> {}, listeners |-> {}, rejected |-> {}, todo |-> {},
        late |-> {}, task |-> "starting", unavailable |-> FALSE, server |-> "live", crypto |-> 0, next |-> 1, faults |-> {}, wild |-> 0]

Fault(b, f) == [b EXCEPT !.faults = @ \cup {f}]
Goes(b, task) == [b EXCEPT !.task = task]
Alive == ms.task # "aborted"
\* What kore's thread and the worker's are free to begin something new.
Kore == ms.t = << >> /\ ms.task \notin {"closing", "deleted", "aborted"}
Worker == ms.w = << >> /\ ms.req = << >> /\ ms.task \in {"running", "closing", "deleted"}

----------------------------------------------------------------------------
\* The event emitter of the channel: the listener of a room removes all
\* listeners of its event, its own handler too, which ee_emit reads afterwards.

ee_on(b, room) == [b EXCEPT !.listeners = @ \cup {room}]
ee_remove_all_listeners(b, room) == [b EXCEPT !.listeners = @ \ {room}]
room_close(b) == b
on_room_targetId(b, room) == room_close(ee_remove_all_listeners(b, room))
ee_emit(b, room) ==
  IF room \notin b.listeners THEN b ELSE Fault(on_room_targetId(b, room), "handler")

----------------------------------------------------------------------------
\* The client's callback, called with state RESULT or ERROR.

room_new(b, room) == ee_on(b, room)
soup_continue(b, c) == [b EXCEPT !.s[c].name = FALSE]
we_can_work_it_out_NoRoom(b, c) ==
  [b EXCEPT !.s[c].state = "DONE", !.s[c].cbs = @ + 1]
we_can_work_it_out(b, c) ==
  LET d == IF b.s[c].state = "RESULT"
           THEN room_new(IF b.s[c].name THEN b ELSE Fault(b, "name"), b.s[c].room)
           ELSE [b EXCEPT !.rejected = @ \cup {b.s[c].room}]
  IN  soup_continue([d EXCEPT !.s[c].state = "DONE", !.s[c].cbs = @ + 1], c)

Callback(b, c) == we_can_work_it_out(IF b.s[c].life = "freed" THEN Fault(b, "soup") ELSE b, c)
soup_set_error(b, c) == [b EXCEPT !.s[c].state = "ERROR"]
LetterOf(b, id) == {l \in b.letters : l.id = id}
TakeOut(b, id) == [b EXCEPT !.letters = {l \in @ : l.id # id}]

\* The timer of a request; the worker may be at its answer.
on_timeout(c) ==
  /\ Kore /\ \E l \in ms.letters : l.c = c /\ l.timer
  /\ LET b == IF ms.w # << >> /\ ms.w[1].c = c THEN Fault(ms, "race") ELSE ms
     IN  ms' = [Callback(soup_set_error(b, c), c) EXCEPT !.t = <<c>>]

\* The rest of it: the letter is looked up by the id of the soup.
TimedOut_Keeps == ms.t # << >> /\ Alive /\ ms' = [ms EXCEPT !.t = << >>, !.s[ms.t[1]].id = 0]
TimedOut ==
  /\ ms.t # << >> /\ Alive
  /\ LET c == ms.t[1]
         b == [ms EXCEPT !.t = << >>]
     IN  ms' = IF LetterOf(ms, ms.s[c].id) = {} THEN b
               ELSE [TakeOut(b, ms.s[c].id) EXCEPT !.s[c].id = 0]

----------------------------------------------------------------------------
\* Requests of kore.

\* uv_callback_fire: it needs a handle, and its loop.
Fire(b, r) ==
  IF b.task = "starting" THEN Goes(Fault(b, "early"), "aborted")
  ELSE IF b.task \in {"closed", "unlooped", "destroyed", "ended"} THEN Fault(b, "loop")
  ELSE [b EXCEPT !.in = Append(@, r)]

\* ok: uv_callback_fire returns 0.  The two objects that the request took over are
\* released, then once more with it.
channel_send_NoTimer(b, c, room, ok) ==
  LET id == b.next
      d == [Fault(b, "json") EXCEPT !.next = @ + 1, !.s[c].id = id, !.s[c].state = "WAIT"]
  IN  IF ok THEN Fire([d EXCEPT !.letters = @ \cup {[id |-> id, c |-> c, timer |-> FALSE]}],
                      [id |-> id, room |-> room, heap |-> TRUE])
      ELSE [Callback(soup_set_error(d, c), c) EXCEPT !.s[c].id = 0]
channel_send(b, c, room, ok) ==
  LET id == b.next
      d == [Fault(b, "json") EXCEPT !.next = @ + 1, !.s[c].id = id, !.s[c].state = "WAIT"]
  IN  IF ok THEN Fire([d EXCEPT !.letters = @ \cup {[id |-> id, c |-> c, timer |-> TRUE]}],
                      [id |-> id, room |-> room, heap |-> TRUE])
      ELSE [Callback(soup_set_error(d, c), c) EXCEPT !.s[c].id = 0]

soup_init(b, c) == [b EXCEPT !.s[c] = [NoSoup EXCEPT !.life = "live"]]
create_room(b, c, ok) ==
  channel_send([b EXCEPT !.next = @ + 1, !.s[c].room = b.next], c, b.next, ok)
make_room(b, c, ok) ==
  IF b.server = "freed" THEN b ELSE create_room([b EXCEPT !.s[c].name = TRUE], c, ok)

websocket_connect(c) ==
  /\ Kore /\ ms.s[c].life = "none"
  /\ \E ok \in BOOLEAN : ms' = make_room(soup_init(ms, c), c, ok)

\* The soup goes with the connection, its letter stays.
websocket_disconnect(c) ==
  /\ Kore /\ ms.s[c].life = "live"
  /\ ms' = [ms EXCEPT !.s[c].life = "freed"]

\* create_room fires a buffer of the stack, delete_room and room_dump literals.
websocket_message ==
  /\ Kore /\ ms.wild < MaxWild /\ \E c \in Conns : ms.s[c].life = "live"
  /\ ms' = [Fire(ms, [id |-> 0, room |-> 0, heap |-> FALSE]) EXCEPT !.wild = @ + 1]

----------------------------------------------------------------------------
\* The worker's side.

Send(b, msg) == [b EXCEPT !.out = Append(@, msg)]
Accept(b, r) == Send(b, [kind |-> "answer", id |-> r.id, ok |-> TRUE])
Reject(b, r) == Send(b, [kind |-> "answer", id |-> r.id, ok |-> FALSE])
Emit(room) == [kind |-> "event", id |-> room, ok |-> TRUE]

GetRoomFromRequest(b, r) == b.rooms \cap {r.room}
NewRoom(b, room) == [b EXCEPT !.rooms = @ \cup {room}]

\* worker.createRoom, the only request kore sends from the heap: the room is made ...
OnChannelRequest(b, r) ==
  IF GetRoomFromRequest(b, r) # {} THEN Reject(b, r) ELSE [b EXCEPT !.req = <<r>>]

UserOnUnixStreamRead(b, r) ==
  IF r.heap THEN OnChannelRequest(b, r) ELSE Goes(Fault(b, "buffer"), "aborted")

\* The channel is deleted before the handle that calls it is closed.
on_to_cpp ==
  /\ Worker /\ ms.in # << >>
  /\ LET b == [ms EXCEPT !.in = Tail(@)]
     IN  ms' = IF ms.task = "deleted" THEN Goes(Fault(b, "channel"), "aborted")
               ELSE UserOnUnixStreamRead(b, Head(ms.in))

\* ... and put into the map and accepted.  If Close is at the map, it may come to the
\* room or not, or the map is torn; if Close is through, there is no channel.
CreateRoom ==
  /\ ms.req # << >> /\ Alive
  /\ LET r == ms.req[1]
         b == [NewRoom(ms, r.room) EXCEPT !.req = << >>]
         d == [b EXCEPT !.late = @ \cup {r.room}]
     IN  CASE ms.task = "running" -> ms' = Accept(b, r)
           [] ms.task = "closing" -> \/ ms' = Accept(d, r)
                                     \/ ms' = Accept([d EXCEPT !.todo = @ \cup {r.room}], r)
                                     \/ ms' = Goes(Fault(d, "map"), "aborted")
           [] OTHER -> ms' = Goes(Fault(d, "channel"), "aborted")

----------------------------------------------------------------------------
\* Answers, on the worker's thread.

\* A letter that is found gets its callback, though a timer may be at it; an answer
\* without one is dropped.
invoke_for_dummy(b, a) ==
  IF a.kind = "event" THEN ee_emit(b, a.id)
  ELSE IF LetterOf(b, a.id) = {} THEN b
  ELSE LET l == CHOOSE x \in LetterOf(b, a.id) : TRUE
           d == IF b.t = <<l.c>> THEN Fault(b, "race") ELSE b
           e == IF a.ok THEN [d EXCEPT !.s[l.c].state = "RESULT"] ELSE soup_set_error(d, l.c)
       IN  [Callback(e, l.c) EXCEPT !.w = <<l>>]

on_from_cpp ==
  /\ Worker /\ ms.out # << >>
  /\ LET b == [ms EXCEPT !.out = Tail(@)]
     IN  ms' = IF b.server = "freed" THEN b ELSE invoke_for_dummy(b, Head(ms.out))

\* The rest of it: the timer, the letter, the id of the soup.
Answered ==
  /\ ms.w # << >> /\ Alive
  /\ LET l == ms.w[1]
         b == [TakeOut(ms, l.id) EXCEPT !.w = << >>, !.s[l.c].id = 0]
     IN  ms' = IF LetterOf(ms, l.id) = {} THEN Fault(b, "letter")
               ELSE IF ms.s[l.c].life = "freed" THEN Fault(b, "soup") ELSE b

----------------------------------------------------------------------------
\* Start and end.

m_destroy(b) == [b EXCEPT !.crypto = @ + 1]

\* libuv_task up to the run of the loop; class_init may fail.
libuv_task ==
  /\ ms.task = "starting"
  /\ \/ ms' = Goes(ms, "running")
     \/ ms' = [Goes(ms, "ended") EXCEPT !.unavailable = TRUE]

\* Loop::Close, on kore's thread, begins ...
Close(b) == [Goes(b, "closing") EXCEPT !.todo = b.rooms]
im_down ==
  /\ Kore /\ ~ms.unavailable /\ ms.server = "live" /\ ms.task \in {"starting", "running"}
  /\ ms' = IF ms.task = "starting" THEN Goes(Fault(ms, "early"), "aborted") ELSE Close(ms)

\* ... takes the rooms in the order of an unordered map, each of which says that it is
\* destroyed ...
DestroyRoom(room) ==
  /\ ms.task = "closing" /\ room \in ms.todo
  /\ ms' = Send([ms EXCEPT !.todo = @ \ {room}, !.rooms = @ \ {room}], Emit(room))

\* ... and deletes the notifier and the channel; their handles are closed then.
CloseChannel_KeepsRooms == ms.task = "closing" /\ ms' = [Goes(ms, "deleted") EXCEPT !.todo = {}]
CloseChannel == ms.task = "closing" /\ ms.todo = {} /\ ms' = Goes(ms, "deleted")

\* on_walk closes the handles: what is in the queues is not delivered.
on_walk ==
  /\ ms.task = "deleted"
  /\ ms' = [Goes(ms, "closed") EXCEPT !.in = << >>, !.out = << >>]

\* The loop ends; class_destroy, m_destroy, soup_unavailable.
class_destroy == ms.task = "closed" /\ ms.w = << >> /\ ms.req = << >> /\ ms' = Goes(ms, "unlooped")
TaskDestroys == ms.task = "unlooped" /\ ms' = Goes(m_destroy(ms), "destroyed")
TaskEnds == ms.task = "destroyed" /\ ms' = [Goes(ms, "ended") EXCEPT !.unavailable = TRUE]

\* At exit.
pending_close(b) == [b EXCEPT !.letters = {}]
channel_close(b) == [pending_close(b) EXCEPT !.listeners = {}]
md_destroy(b) == [channel_close(b) EXCEPT !.server = "freed"]
han ==
  /\ Kore /\ ms.server = "live"
  /\ LET b == IF ms.unavailable THEN ms ELSE m_destroy(ms)
     IN  ms' = md_destroy(IF ms.w # << >> THEN Fault(b, "server") ELSE b)

Next ==
  \/ \E c \in Conns : websocket_connect(c) \/ websocket_disconnect(c) \/ on_timeout(c)
  \/ websocket_message \/ TimedOut \/ on_to_cpp \/ CreateRoom \/ on_from_cpp \/ Answered
  \/ \E room \in ms.todo : DestroyRoom(room)
  \/ libuv_task \/ im_down \/ CloseChannel \/ on_walk \/ class_destroy \/ TaskDestroys \/ TaskEnds \/ han

Spec == Init /\ [][Next]_ms

----------------------------------------------------------------------------
\* Types.
TypeOK ==
  /\ \A c \in Conns : /\ ms.s[c].life \in {"none", "live", "freed"}
                      /\ ms.s[c].state \in {"INIT", "WAIT", "RESULT", "ERROR", "DONE"}
  /\ ms.server \in {"live", "freed"} /\ Len(ms.w) <= 1 /\ Len(ms.t) <= 1 /\ Len(ms.req) <= 1

\* What the statements below are about: no thread has used what the other has freed, nor
\* met it at the same letter.  What a thread reads of its own right after freeing it (the
\* handler in ee_emit, the objects in channel_send) is left aside.
Sound == ms.faults \subseteq {"handler", "json", "loop"} /\ ms.server = "live"

\* Every client that waits has one letter, with its id and with a timer that
\* ends the wait; and every letter is that of a client that waits, or of one
\* whose answer or whose timeout is being worked on.
WaitsEnd ==
  Sound =>
    /\ \A c \in Conns : ms.s[c].life = "live" /\ ms.s[c].state = "WAIT" =>
         [id |-> ms.s[c].id, c |-> c, timer |-> TRUE] \in ms.letters
    /\ \A l, m \in ms.letters : l.id = m.id => l = m
    /\ \A l \in ms.letters : ms.s[l.c].life = "live" =>
         ms.s[l.c].state = "WAIT" \/ ms.w = <<l>> \/ ms.t = <<l.c>>

\* A client is called back once, by its answer or by its timer.
CalledBackOnce ==
  Sound => \A c \in Conns : ms.s[c].cbs <= 1 /\ (ms.s[c].cbs = 1 <=> ms.s[c].state = "DONE")

\* Kore knows a room as long as the worker has it, except for rooms whose
\* answer or whose end is on its way, was lost in the end, or came too late.
RoomsMirrored ==
  Sound /\ ms.task = "running" =>
    /\ ms.listeners \subseteq ms.rooms \cup {ms.out[i].id : i \in DOMAIN ms.out}
    /\ \A r \in ms.rooms \ ms.listeners :
         \/ r \in ms.rejected
         \/ \E c \in Conns : ms.s[c].room = r /\
              (ms.s[c].life = "freed" \/ \E i \in DOMAIN ms.out : ms.out[i].id = ms.s[c].id)

\* Once Close is through, no room is left but those the worker's thread put into the map
\* while kore's was destroying them, or after: nobody destroys these.
NoRoomLeft ==
  /\ ms.task = "closing" => ms.rooms \ ms.late \subseteq ms.todo
  /\ ms.task \in {"deleted", "closed", "unlooped", "destroyed"} => ms.rooms \subseteq ms.late
=============================================================================
