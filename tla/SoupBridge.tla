----------------------------- MODULE SoupBridge -----------------------------
(***************************************************************************)
(* How kore and the media worker of mediasoup_1 talk: kore's websocket      *)
(* handlers fire strings at the callback to_cpp, the worker's thread takes  *)
(* them as requests, answers through the callback from_cpp, and the answer  *)
(* is broadcast to the websocket clients (mediasoup_1.c, kore_media.c,      *)
(* Channel, Loop, Settings).  With the start and the end of that thread.    *)
(*                                                                          *)
(* What a room does with the requests that reach it is the business of      *)
(* SoupRoom; here it accepts or rejects them.                               *)
(***************************************************************************)
EXTENDS Integers, Sequences, FiniteSets, FiniteSetsExt, SequencesExt

CONSTANTS
  Ids,          \* what random_u32 returns for a request
  RoomIds,      \* and for a room; Fixed is the one in the string literals
  Fixed,
  Requests,     \* other requests fired at to_cpp, on the heap
  MaxPort, MinPorts, LowestPort,   \* 2^16 - 1, 99, 1024
  Ports,        \* <<rtcMinPort, rtcMaxPort>>
  MaxFired      \* strings fired

VARIABLE br
(***************************************************************************)
(* task    of the worker's thread: "none", "loop" (class_init), "channel",  *)
(*         "set", "running", "stopped", "destroyed", "exited"; or "aborted" *)
(* loop, channel, media   "none", "live", "freed"; closed: of the channel   *)
(* libs    libraries that are initialised                                   *)
(* conf    [level, tags, has4, has6, ports]                                 *)
(* rooms   of the Loop                                                      *)
(* in, out the queues of to_cpp and from_cpp                                *)
(* heap    buffers allocated and not freed                                  *)
(* asked   requests that were understood, in order                          *)
(* heard   answers broadcast to the clients, in order                       *)
(* faults  uses of what is freed or not there; fired: counts strings        *)
(***************************************************************************)
Tags == {"info", "ice", "dtls", "rtp", "srtp", "rtcp", "rbe", "rtx"}
Levels == {"debug", "warn", "error"}

Init ==
  br = [task |-> "none", loop |-> "none", channel |-> "none", closed |-> FALSE, media |-> "none",
        libs |-> {}, conf |-> [level |-> "error", tags |-> {}, has4 |-> FALSE, has6 |-> FALSE,
                               ports |-> <<0, 0>>],
        rooms |-> {}, in |-> << >>, out |-> << >>, heap |-> 0,
        asked |-> << >>, heard |-> << >>, faults |-> {}, fired |-> 0]

Fault(b, f) == [b EXCEPT !.faults = @ \cup {f}]
Goes(b, task) == [b EXCEPT !.task = task]
Alive == br.task \notin {"exited", "aborted"}

----------------------------------------------------------------------------
\* The channel's side of from_cpp.

\* A closed channel drops what is sent, and so does one whose message is too big.
Send(b, msg, big) ==
  IF b.closed \/ big THEN b ELSE [b EXCEPT !.out = Append(@, msg), !.heap = @ + 1]

Answer(r, ok) == [kind |-> "answer", id |-> r.id, ok |-> ok]
Accept(b, r, big) == Send(b, Answer(r, TRUE), big)
Reject(b, r) == Send(b, Answer(r, FALSE), FALSE)
Emit(b, target) == Send(b, [kind |-> "event", id |-> target, ok |-> TRUE], FALSE)

\* UserOnUnixStreamSocketClosed(false), and the destructor: the callbacks are
\* closed, so that nothing in their queues is delivered any more; the object
\* frees itself and then deletes its members.
UserOnUnixStreamSocketClosed(b) == [b EXCEPT !.closed = TRUE]
on_walk(b) == [b EXCEPT !.in = << >>, !.out = << >>]
DestroyChannel(b) == Fault([on_walk(b) EXCEPT !.channel = "freed"], "destructor")

----------------------------------------------------------------------------
\* Settings.

\* One family: the first address that is not internal and can be bound, if any.
SetDefaultRtcIP(c, found4, found6) == [c EXCEPT !.has4 = @ \/ found4, !.has6 = @ \/ found6]
SetLogLevel(c, level) == [c EXCEPT !.level = level]
SetLogTags(c, tags) == [c EXCEPT !.tags = ToSet(tags) \cap Tags]
SetRtcIPv4(c) == [c EXCEPT !.has4 = TRUE]

\* Down to even, up to odd, and at least MinPorts apart.
PortsOf(p) == <<p[1] - (p[1] % 2), IF p[2] % 2 = 0 THEN p[2] - 1 ELSE p[2]>>
SetRtcPorts(c, p) ==
  IF p[1] < LowestPort \/ p[2] = 0 \/ PortsOf(p)[2] - PortsOf(p)[1] < MinPorts THEN << >>
  ELSE <<[c EXCEPT !.ports = PortsOf(p)]>>

\* The options are constants of the code; << >> when it throws.
SetConfiguration(c, found4, found6, p) ==
  SetRtcPorts(SetRtcIPv4(SetLogTags(SetLogLevel(SetDefaultRtcIP(c, found4, found6), "debug"), <<"info">>)), p)

\* worker.updateSettings: a level that is unknown leaves the tags alone.
HandleSettings_TagsFirst(b, r) ==
  LET c == IF r.tags = << >> THEN b.conf ELSE SetLogTags(b.conf, r.tags)
  IN  IF r.level \notin Levels \cup {""} THEN Reject([b EXCEPT !.conf = c], r)
      ELSE Accept([b EXCEPT !.conf = IF r.level = "" THEN c ELSE SetLogLevel(c, r.level)], r, FALSE)
HandleSettings(b, r) ==
  IF r.level \notin Levels \cup {""} THEN Reject(b, r)
  ELSE LET c == IF r.level = "" THEN b.conf ELSE SetLogLevel(b.conf, r.level)
       IN  Accept([b EXCEPT !.conf = IF r.tags = << >> THEN c ELSE SetLogTags(c, r.tags)], r, FALSE)

----------------------------------------------------------------------------
\* The Loop.

\* << >> when the request names no room.
GetRoomFromRequest(r) == IF r.room < 0 THEN << >> ELSE <<r.room>>

\* Room::Destroy tells the clients and takes the room out of the Loop.
OnRoomClosed(b, room) == [b EXCEPT !.rooms = @ \ {room}]
DestroyRoom(b, room) == OnRoomClosed(Emit(b, room), room)

CreateRoom_Silent(b, r) ==
  IF GetRoomFromRequest(r) = << >> \/ ~r.good THEN Reject(b, r)
  ELSE IF r.room \in b.rooms THEN b
  ELSE Accept([b EXCEPT !.rooms = @ \cup {r.room}], r, FALSE)
CreateRoom(b, r) ==
  IF GetRoomFromRequest(r) = << >> \/ r.room \in b.rooms \/ ~r.good THEN Reject(b, r)
  ELSE Accept([b EXCEPT !.rooms = @ \cup {r.room}], r, FALSE)

ToRoom(b, r) ==
  IF GetRoomFromRequest(r) = << >> \/ r.room \notin b.rooms THEN Reject(b, r)
  ELSE IF r.method = "room.close" THEN Accept(DestroyRoom(b, r.room), r, FALSE)
  ELSE IF r.good THEN Accept(b, r, r.big) ELSE Reject(b, r)

OnChannelRequest(b, r) ==
  CASE r.method = "worker.dump" -> Accept(b, r, r.big)
    [] r.method = "worker.updateSettings" -> HandleSettings(b, r)
    [] r.method = "worker.createRoom" -> CreateRoom(b, r)
    [] OTHER -> ToRoom(b, r)

\* Loop::Close on a signal, which the destroyed SignalsHandler gets only once:
\* rooms, notifier, channel.
Close_ChannelFirst(b) ==
  LET d == DestroyChannel(UserOnUnixStreamSocketClosed(b))
  IN  FoldSet(LAMBDA room, e : DestroyRoom(IF e.channel = "freed" THEN Fault(e, "channel") ELSE e, room),
              d, b.rooms)
Close(b) ==
  DestroyChannel(UserOnUnixStreamSocketClosed(
    FoldSet(LAMBDA room, e : DestroyRoom(e, room), b, b.rooms)))

----------------------------------------------------------------------------
\* The channel's side of to_cpp: the buffer is freed at once, then parsed.  A
\* string literal cannot be freed: the process aborts.

\* The constructor of Request: << >> when it throws; an unknown method is
\* rejected before that.
Methods == {"worker.dump", "worker.updateSettings", "worker.createRoom", "room.close", "room.dump",
            "room.createPeer"}
NewRequest(b, r) ==
  IF ~r.json \/ r.id < 0 \/ r.method = "" THEN b
  ELSE LET a == [b EXCEPT !.asked = Append(@, r)]
       IN  IF r.method \notin Methods THEN Reject(a, r) ELSE OnChannelRequest(a, r)
UserOnUnixStreamRead(b, r) ==
  IF ~r.heap THEN Goes(Fault(b, "literal"), "aborted")
  ELSE NewRequest([b EXCEPT !.heap = @ - 1], r)

on_to_cpp ==
  /\ br.task = "running" /\ br.in # << >>
  /\ LET b == [br EXCEPT !.in = Tail(@)]
     IN  br' = UserOnUnixStreamRead(IF b.channel = "freed" THEN Fault(b, "channel") ELSE b, Head(br.in))

\* kore's on_from_cpp, on the worker's thread.
on_from_cpp_Leaks ==
  /\ br.task = "running" /\ br.out # << >>
  /\ br' = [br EXCEPT !.out = Tail(@),
                      !.heard = IF Head(br.out).kind = "event" THEN @ ELSE Append(@, Head(br.out)),
                      !.heap = IF Head(br.out).ok THEN @ - 1 ELSE @]
on_from_cpp ==
  /\ br.task = "running" /\ br.out # << >>
  /\ br' = [br EXCEPT !.out = Tail(@), !.heap = @ - 1,
                      !.heard = IF Head(br.out).kind = "event" THEN @ ELSE Append(@, Head(br.out))]

----------------------------------------------------------------------------
\* kore's side.

media_new(b) == [b EXCEPT !.media = "live"]
init == br.task = "none" /\ br' = media_new(Goes(br, "starting"))

\* uv_callback_fire, from kore's thread: before to_cpp is initialised its handle
\* has no loop, and the loop is used even when the handle is closed.
Fire(b, r) ==
  LET f == [b EXCEPT !.heap = IF r.heap THEN @ + 1 ELSE @]
  IN  IF b.channel = "none" THEN Goes(Fault(f, "early"), "aborted")
      ELSE IF b.loop = "freed" THEN Fault(f, "loop")
      ELSE IF b.channel = "freed" THEN f
      ELSE [f EXCEPT !.in = Append(@, r)]

Request(id, method, room, heap) ==
  [json |-> TRUE, id |-> id, method |-> method, room |-> room, level |-> "", tags |-> << >>,
   good |-> TRUE, big |-> FALSE, heap |-> heap]

\* create_room of kore_media.c; the room is not put into the media's table.
create_room(b, id, room) ==
  Fire(IF b.media = "freed" THEN Fault(b, "media") ELSE b, Request(id, "worker.createRoom", room, TRUE))

\* The answers to other types are not sent to the worker.
websocket_message ==
  /\ Alive /\ br.task # "none" /\ br.fired < MaxFired
  /\ \/ \E id \in Ids, room \in RoomIds : br' = [create_room(br, id, room) EXCEPT !.fired = @ + 1]
     \/ \E method \in {"room.close", "room.createPeer"} :
          br' = [Fire(br, Request(CHOOSE i \in Ids : TRUE, method, Fixed, FALSE)) EXCEPT !.fired = @ + 1]

\* Another user of the callback.
FireRequest ==
  /\ br.task = "running" /\ br.fired < MaxFired
  /\ \E r \in Requests : br' = [Fire(br, r) EXCEPT !.fired = @ + 1]

----------------------------------------------------------------------------
\* The worker's thread, from libuv_task to _exit.

class_init == br.task = "starting" /\ br' = [Goes(br, "loop") EXCEPT !.loop = "live"]
set_channel == br.task = "loop" /\ br' = [Goes(br, "channel") EXCEPT !.channel = "live"]

\* No handler catches what SetConfiguration throws.
settings_set_configuration ==
  /\ br.task = "channel"
  /\ \E found4, found6 \in BOOLEAN, p \in Ports :
       LET c == SetConfiguration(br.conf, found4, found6, p)
       IN  br' = IF c = << >> THEN Goes(br, "aborted") ELSE [Goes(br, "set") EXCEPT !.conf = c[1]]

Libs == {"openssl", "srtp", "crypto", "dtls"}
m_init == br.task = "set" /\ br' = [Goes(br, "running") EXCEPT !.libs = Libs]

\* A signal closes the Loop; uv_stop ends its run.
OnSignal == br.task = "running" /\ br' = Goes(Close(br), "stopped")

\* In this order: DTLS, crypto, the loop, OpenSSL, SRTP, the media.
destroy_media(b) == [b EXCEPT !.media = "freed"]
m_destroy ==
  /\ br.task = "stopped"
  /\ br' = destroy_media([Goes(br, "destroyed") EXCEPT !.libs = {}, !.loop = "freed"])
m_exit == br.task = "destroyed" /\ br' = Goes(br, "exited")

Next ==
  \/ init \/ class_init \/ set_channel \/ settings_set_configuration \/ m_init
  \/ websocket_message \/ FireRequest \/ on_to_cpp \/ on_from_cpp
  \/ OnSignal \/ m_destroy \/ m_exit

Spec == Init /\ [][Next]_br

----------------------------------------------------------------------------
\* Types.
TypeOK ==
  /\ {br.loop, br.channel, br.media} \subseteq {"none", "live", "freed"}
  /\ br.conf.level \in Levels /\ br.conf.tags \subseteq Tags
  /\ br.rooms \subseteq RoomIds \cup {Fixed} /\ br.heap >= 0

\* The answers on their way or heard so far (of requests whose answer fits).
Answers == br.heard \o SelectSeq(br.out, LAMBDA x : x.kind = "answer")

\* What the clients may conclude from requests and answers: the rooms there are.
Rooms(qs, as) ==
  FoldLeft(LAMBDA s, i :
             IF ~as[i].ok THEN s
             ELSE IF qs[i].method = "worker.createRoom" THEN s \cup {qs[i].room}
             ELSE IF qs[i].method = "room.close" THEN s \ {qs[i].room} ELSE s,
           {}, [i \in 1..Len(as) |-> i])

\* Every request that was understood is answered once, in the order of the
\* requests, and whoever reads the answers knows the rooms of the Loop (for
\* requests whose answer is not too big, until a signal closes the channel).
AnswersTell ==
  br.task = "running" /\ (\A i \in DOMAIN br.asked : ~br.asked[i].big) =>
    /\ Len(Answers) = Len(br.asked)
    /\ \A i \in DOMAIN br.asked : Answers[i].id = br.asked[i].id
    /\ Rooms(br.asked, Answers) = br.rooms

\* A rejected update of the settings leaves no trace: the tags are those of the
\* last update that was accepted.
TagsOf(b) ==
  FoldLeft(LAMBDA s, i :
             IF Answers[i].ok /\ b.asked[i].method = "worker.updateSettings" /\ b.asked[i].tags # << >>
             THEN ToSet(b.asked[i].tags) \cap Tags ELSE s,
           {"info"}, [i \in 1..Len(b.asked) |-> i])
SettingsTold ==
  br.task = "running" /\ (\A i \in DOMAIN br.asked : ~br.asked[i].big) => br.conf.tags = TagsOf(br)

\* Each buffer is freed once: those that live are the ones in the queues.
BuffersExact ==
  br.task = "running" => br.heap = Len(br.out) + Len(SelectSeq(br.in, LAMBDA r : r.heap))

\* A freed channel is not used, and when the loop and the media are freed
\* there is no room and no library left.
EndsInOrder ==
  /\ "channel" \notin br.faults
  /\ br.channel = "freed" => br.closed /\ br.rooms = {}
  /\ br.loop = "freed" => br.channel = "freed" /\ br.libs = {}

\* The ports in use are a range of at least MinPorts that starts even and ends odd.
PortsUsable ==
  br.task \in {"set", "running"} =>
    LET p == br.conf.ports
    IN  p[1] >= LowestPort /\ p[1] % 2 = 0 /\ p[2] % 2 = 1 /\ p[2] <= MaxPort /\ p[2] - p[1] >= MinPorts
=============================================================================
