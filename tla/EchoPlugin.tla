----------------------------- MODULE EchoPlugin -----------------------------
(***************************************************************************)
(* The echo test plugin (websocket_10/plugins/janus_echotest.c), from its   *)
(* init to its destroy, with one handle of the core attached to it.         *)
(*                                                                          *)
(* Four threads meet in it: the core's worker creates and destroys the      *)
(* session and queues messages, the handle's ICE thread brings packets and  *)
(* hangs up, the plugin's handler thread takes messages from the queue, and *)
(* its watchdog frees old sessions.  The handler and the ICE thread look    *)
(* the session up and then use it without the lock, in as many steps as     *)
(* there are places where another thread's step matters: the session may    *)
(* be hung up, destroyed and freed under their hands.  Nothing but the five *)
(* seconds an old session is kept protects them, and they may be slower.    *)
(* The recorders' own memory is left out.                                   *)
(***************************************************************************)
EXTENDS Integers, Sequences, FiniteSets, SequencesExt

CONSTANTS
  Traffic,     \* what may reach the plugin: messages, packets [video, ssrc, tid]
               \*   (tid is -1 without a VP8 descriptor), and slow, how many
               \*   REMBs and slow links
  Bitrates,    \* values of REMB messages
  Floor,       \* 64 * 1024
  Start,       \* 512 * 1024
  MaxMessages, MaxHangups

VARIABLE ec
(***************************************************************************)
(* up       initialized and stopping: "down", "up", "stopping"              *)
(* handler, watchdog  whether the threads run                               *)
(* life     of the session: "none", "live", "old", "freed"                  *)
(* stopped  the core's handle->stopped                                      *)
(* q        messages; work: << >>, or the message the handler works on,     *)
(*          where it is, the substream it has read, and whether the session *)
(*          was freed meanwhile (over)                                      *)
(* rtp      << >>, or the packet the ICE thread is in with, likewise, and   *)
(*          what held at some time since it came in (ever)                  *)
(* s        the session                                                     *)
(* told, dones  the substream the client was told last, and how often it    *)
(*          was told "done" since hangingup was reset                       *)
(* crossed  the substream had changed when the client was told              *)
(* relayed  << >>, or the packet relayed in this step, with its ever        *)
(* faults   who used a freed session; "over": he was in when it was freed   *)
(***************************************************************************)
Subs == 0..2
NoSsrc == [i \in Subs |-> 0]

\* What create_session and hangup_media set.
FreshSession ==
  [has |-> {}, audio |-> TRUE, video |-> TRUE, acodec |-> FALSE, vcodec |-> FALSE,
   bitrate |-> 0, peer |-> 0, ssrc |-> NoSsrc, substream |-> -1, substream_target |-> 0,
   templayer |-> -1, templayer_target |-> 0, relayed |-> FALSE, rec |-> {}, hangingup |-> 0]

Init ==
  \E traffic \in Traffic :
    ec = [traffic |-> traffic, up |-> "down", handler |-> FALSE, watchdog |-> FALSE, life |-> "none",
          stopped |-> FALSE, q |-> << >>, work |-> << >>, rtp |-> << >>, s |-> FreshSession,
          told |-> -1, dones |-> 0, crossed |-> FALSE, relayed |-> << >>, faults |-> {}, sent |-> 0,
          hangups |-> 0, slow |-> 0]

\* What the session lets through: media that is active and, with simulcast, the
\* substream it is at (any before the first switch) up to the layer it asks for.
Facts(e, p) ==
  LET active == IF p.video THEN e.s.video ELSE e.s.audio
      plain == ~p.video \/ ~active \/ e.s.ssrc[0] = 0
      match == e.s.substream < 0 \/ p.ssrc = e.s.ssrc[e.s.substream]
  IN  {x \in {"active", "substream", "layer"} :
         CASE x = "active" -> active
           [] x = "substream" -> plain \/ match
           [] OTHER -> plain \/ p.tid <= e.s.templayer_target}

Become(e) ==
  LET q == [e EXCEPT !.relayed = << >>]
  IN  ec' = IF e.rtp = << >> THEN q ELSE [q EXCEPT !.rtp[1].ever = @ \cup Facts(e, e.rtp[1].p)]
Up(e) == e.up = "up"

\* janus_echotest_lookup_session: only a session that is in the table.
janus_echotest_lookup_session_Stale(e) == e.life # "none"
janus_echotest_lookup_session(e) == e.life = "live"

----------------------------------------------------------------------------
\* The plugin.

\* Either thread may fail to start; a watchdog that runs then leaves its loop.
janus_echotest_init ==
  /\ ec.up = "down" /\ ~ec.watchdog /\ ec.life = "none"
  /\ \/ Become([ec EXCEPT !.up = "up", !.handler = TRUE, !.watchdog = TRUE])
     \/ Become([ec EXCEPT !.watchdog = TRUE])

ExitMessage == [kind |-> "exit"]
janus_echotest_destroy ==
  /\ Up(ec)
  /\ Become([ec EXCEPT !.up = "stopping", !.q = Append(@, ExitMessage)])

\* After both threads are joined; sessions are not destroyed.
Destroyed ==
  /\ ec.up = "stopping" /\ ~ec.handler /\ ~ec.watchdog
  /\ Become([ec EXCEPT !.up = "down", !.q = << >>,
                       !.life = IF @ = "live" THEN "old" ELSE @])

janus_echotest_create_session ==
  /\ ec.life = "none" /\ Up(ec)
  /\ Become([ec EXCEPT !.life = "live", !.s = FreshSession])

----------------------------------------------------------------------------
\* Hanging up.

\* Only the first hangup since the last negotiation tells the client; the
\* recorders are closed and every control is reset.
janus_echotest_hangup_media_internal_Again(e) ==
  IF ~Up(e) \/ ~janus_echotest_lookup_session(e) THEN e
  ELSE [e EXCEPT !.s = [FreshSession EXCEPT !.hangingup = e.s.hangingup + 1],
                 !.dones = @ + 1, !.told = -1, !.crossed = FALSE]
janus_echotest_hangup_media_internal(e) ==
  IF ~Up(e) \/ ~janus_echotest_lookup_session(e) THEN e
  ELSE IF e.s.hangingup > 0 THEN [e EXCEPT !.s.hangingup = @ + 1]
  ELSE [e EXCEPT !.s = [FreshSession EXCEPT !.hangingup = 1], !.dones = @ + 1, !.told = -1,
                 !.crossed = FALSE]

janus_echotest_hangup_media ==
  /\ ec.life # "none" /\ ec.hangups < MaxHangups
  /\ Become([janus_echotest_hangup_media_internal(ec) EXCEPT !.hangups = @ + 1])

\* The core stops the handle and destroys its session, which is kept for a while.
janus_echotest_destroy_session ==
  /\ ec.life = "live" /\ ~ec.stopped /\ Up(ec)
  /\ Become([janus_echotest_hangup_media_internal(ec) EXCEPT !.life = "old", !.stopped = TRUE])

\* The watchdog, five seconds after the session was destroyed.
Over(threads) == [i \in DOMAIN threads |-> [threads[i] EXCEPT !.over = TRUE]]
Free(e) == [e EXCEPT !.life = "freed", !.work = Over(@), !.rtp = Over(@)]
janus_echotest_watchdog ==
  /\ ec.watchdog
  /\ \/ Up(ec) /\ ec.life = "old" /\ Become(Free(ec))
     \/ ~Up(ec) /\ Become([ec EXCEPT !.watchdog = FALSE])

\* setup_media: a new negotiation may be hung up again.
Negotiated(e) == [e EXCEPT !.s.hangingup = 0, !.dones = 0]
janus_echotest_setup_media ==
  /\ Up(ec) /\ janus_echotest_lookup_session(ec)
  /\ Become(Negotiated(ec))

----------------------------------------------------------------------------
\* Messages.

janus_echotest_handle_message ==
  /\ Up(ec) /\ ec.life # "none" /\ ec.sent < MaxMessages
  /\ \E m \in ec.traffic.messages : Become([ec EXCEPT !.q = Append(@, m), !.sent = @ + 1])

\* The head of the handler's loop: a message whose session is gone is dropped.
janus_echotest_handler ==
  /\ ec.handler /\ ec.work = << >>
  /\ \/ ~Up(ec) /\ Become([ec EXCEPT !.handler = FALSE])
     \/ /\ ec.q # << >>
        /\ LET m == Head(ec.q)
               e == [ec EXCEPT !.q = Tail(@)]
           IN  IF m.kind = "exit" THEN Become([e EXCEPT !.handler = FALSE])
               ELSE IF janus_echotest_lookup_session(e) 
               THEN Become([e EXCEPT
                             !.work = <<[m |-> m, pc |-> "checks", note |-> -1, over |-> FALSE]>>])
               ELSE Become(e)

Touch(e, thread, who) ==
  IF e.life # "freed" THEN e
  ELSE [e EXCEPT !.faults = @ \cup {IF thread.over THEN "over" ELSE who}]

\* The offer's simulcast SSRCs are taken before the request is checked.
Simulcast(e, m) ==
  IF m.sim = NoSsrc THEN e
  ELSE [e EXCEPT !.s.ssrc = m.sim, !.s.substream_target = 2, !.s.templayer_target = 2]

\* The controls, up to the substream and after it.
Enforce(e, m) ==
  [e EXCEPT !.s.video = IF m.video = "" THEN @ ELSE m.video = "on",
            !.s.audio = IF m.audio = "" THEN @ ELSE m.audio = "on",
            !.s.bitrate = IF m.bitrate < 0 THEN @ ELSE m.bitrate,
            !.s.substream_target = IF m.substream < 0 THEN @ ELSE m.substream]
Temporal(e, m) == [e EXCEPT !.s.templayer_target = IF m.temporal < 0 THEN @ ELSE m.temporal]

\* The client is told a substream that was read for it at some time since it
\* was compared or set.
Told(e, n) == [e EXCEPT !.told = n, !.crossed = (n # e.s.substream)]

\* A recorder is opened for what the SDP, or the last one, has; audio and
\* video need a codec, which is known after the answer.
Record(e, m) ==
  LET has == IF m.sdp = "" THEN e.s.has ELSE m.has
      open == {k \in has : k = "data" \/ (k = "audio" /\ e.s.acodec) \/ (k = "video" /\ e.s.vcodec)}
  IN  CASE m.record = "" -> e
        [] m.record = "off" -> [e EXCEPT !.s.rec = {}, !.s.has = has]
        [] OTHER -> [e EXCEPT !.s.rec = (@ \ has) \cup open, !.s.has = has]

\* The answer: without VP8 there is no simulcast, media without a codec is
\* not there, and the session may be hung up again.
Answer(e, m) ==
  Negotiated([e EXCEPT !.s.ssrc = IF m.vp8 THEN @ ELSE NoSsrc,
                       !.s.acodec = "audio" \in m.has, !.s.vcodec = "video" \in m.has,
                       !.s.has = m.has])

Nothing(m) == <<m.audio, m.video, m.bitrate, m.substream, m.temporal, m.record, m.sdp>>
              = <<"", "", -1, -1, -1, "", "">>

\* The rest of the handler's loop: the request is checked, the controls are set,
\* a substream that is already the current one is told, and the rest is done.
Handling(pc) == ec.work # << >> /\ ec.work[1].pc = pc
Worked == Touch(ec, ec.work[1], "handler")

HandleChecks ==
  /\ Handling("checks")
  /\ LET e == Simulcast(Worked, ec.work[1].m)
     IN  Become(IF ec.work[1].m.kind = "invalid" THEN [e EXCEPT !.work = << >>]
                ELSE [e EXCEPT !.work[1].pc = "controls"])

HandleControls ==
  /\ Handling("controls")
  /\ LET m == ec.work[1].m
         e == Enforce(Worked, m)
     IN  Become(IF m.substream = e.s.substream
                THEN [e EXCEPT !.work[1].pc = "notice", !.work[1].note = e.s.substream]
                ELSE [e EXCEPT !.work[1].pc = "rest"])

HandleNotice ==
  /\ Handling("notice")
  /\ \E n \in {ec.work[1].note, ec.s.substream} :
       Become([Told(Worked, n) EXCEPT !.work[1].pc = "rest", !.work[1].note = -1])

HandleMessage ==
  /\ Handling("rest")
  /\ LET m == ec.work[1].m
         e == Record(Temporal([Worked EXCEPT !.work = << >>], m), m)
     IN  Become(CASE m.sdp = "" \/ Nothing(m) -> e
                  [] m.sdp = "bad" -> [e EXCEPT !.s.has = m.has]
                  [] OTHER -> Answer(e, m))

----------------------------------------------------------------------------
\* Media, in the ICE thread of the handle.

\* The checks of the core's handle, before the session is looked at.
RtpEnter ==
  /\ ec.rtp = << >> /\ Up(ec) /\ ~ec.stopped /\ ec.life # "none"
  /\ \E p \in ec.traffic.packets :
       Become([ec EXCEPT
                 !.rtp = <<[p |-> p, pc |-> "in", note |-> -1, over |-> FALSE, ever |-> {}]>>])

RtpAt(pc) == ec.rtp # << >> /\ ec.rtp[1].pc = pc
Used == Touch(ec, ec.rtp[1], "rtp")
RtpGoes(e, pc) == Become([e EXCEPT !.rtp[1].pc = pc])
RtpLeaves(e) == Become([e EXCEPT !.rtp = << >>])

\* The switches that are on decide whether simulcast is looked at.
RtpIn ==
  /\ RtpAt("in")
  /\ LET p == ec.rtp[1].p
     IN  IF ec.life = "old" THEN RtpLeaves(Used)
         ELSE RtpGoes(Used, IF p.video /\ ec.s.video /\ ec.s.ssrc[0] # 0 THEN "switch" ELSE "plain")
RtpPlain ==
  /\ RtpAt("plain")
  /\ IF (IF ec.rtp[1].p.video THEN ec.s.video ELSE ec.s.audio) THEN RtpGoes(Used, "relay")
     ELSE RtpLeaves(Used)

SetSubstream(e, n) == [e EXCEPT !.s.substream = n, !.rtp[1].note = n]

\* A packet of the target, or of the middle on the way up, switches to it.
Switch(e, p) ==
  LET s == e.s
      step == IF s.substream < 1 /\ s.substream_target = 2 THEN 1 ELSE 0
  IN  IF s.substream = s.substream_target THEN e
      ELSE IF p.ssrc = s.ssrc[s.substream_target] THEN SetSubstream(e, s.substream_target)
      ELSE IF step = 1 /\ p.ssrc = s.ssrc[1] THEN SetSubstream(e, 1)
      ELSE e

\* Nothing relayed for 250 ms: one substream down, with a PLI.
FallBack(e, late) ==
  LET below == IF e.s.substream - 1 < 0 THEN 0 ELSE e.s.substream - 1
  IN  IF ~e.s.relayed THEN [e EXCEPT !.s.relayed = TRUE]
      ELSE IF late /\ e.s.substream # below THEN SetSubstream(e, below)
      ELSE e

\* A substream that was set goes to the client in a step of its own.
SwitchTo_Silent(e, f, next, after) == RtpGoes(f, after)
SwitchTo(e, f, next, after) == RtpGoes(f, IF f.s.substream # e.s.substream THEN next ELSE after)
RtpSwitch == RtpAt("switch") /\ SwitchTo(ec, Switch(Used, ec.rtp[1].p), "told_switch", "fall")
RtpFall ==
  /\ RtpAt("fall")
  /\ \E late \in BOOLEAN : SwitchTo(ec, FallBack(Used, late), "told_fall", "match")
RtpTell ==
  \E pc \in {"told_switch", "told_fall"} :
    /\ RtpAt(pc)
    /\ \E n \in {ec.rtp[1].note, ec.s.substream} :
         RtpGoes([Told(Used, n) EXCEPT !.rtp[1].note = -1],
                 IF pc = "told_switch" THEN "fall" ELSE "match")

\* ssrc[substream]; before the first switch that is what lies before the
\* array, which may be anything.
Matches(e, p, stray) == IF e.s.substream < 0 THEN stray ELSE p.ssrc = e.s.ssrc[e.s.substream]

\* Not the substream, or above the temporal layer: dropped.
Layered(e, p) ==
  IF p.tid < 0 THEN e ELSE [e EXCEPT !.s.templayer = e.s.templayer_target]
RtpMatch ==
  /\ RtpAt("match")
  /\ \E stray \in BOOLEAN :
       LET p == ec.rtp[1].p
           e == Layered(Used, p)
       IN  IF ~Matches(ec, p, stray) THEN RtpLeaves(Used)
           ELSE IF p.tid > e.s.templayer /\ p.tid >= 0 THEN RtpLeaves(e)
           ELSE RtpGoes(e, "relay")

janus_echotest_incoming_rtp ==
  /\ RtpAt("relay")
  /\ ec' = [Used EXCEPT !.rtp = << >>, !.relayed = <<ec.rtp[1].p, ec.rtp[1].ever>>]

\* RTCP: a REMB is remembered, and capped when it goes back.
janus_echotest_incoming_rtcp ==
  /\ ec.rtp = << >> /\ Up(ec) /\ ~ec.stopped /\ ec.life = "live" /\ ec.slow < ec.traffic.slow
  /\ \E b \in Bitrates : Become([ec EXCEPT !.s.peer = b, !.slow = @ + 1])

\* Too many NACKs on video: half of the bitrate, but not below the floor.
janus_echotest_slow_link ==
  /\ Up(ec) /\ ~ec.stopped /\ janus_echotest_lookup_session(ec) /\ ec.slow < ec.traffic.slow
  /\ \E uplink, video \in BOOLEAN :
       LET from == IF ec.s.bitrate > 0 THEN ec.s.bitrate ELSE Start
           half == IF from \div 2 < Floor THEN Floor ELSE from \div 2
           expected == uplink /\ IF video THEN ~ec.s.video ELSE ~ec.s.audio
       IN  Become([ec EXCEPT !.s.bitrate = IF video /\ ~expected THEN half ELSE @,
                             !.slow = @ + 1])

Next ==
  \/ janus_echotest_init \/ janus_echotest_destroy \/ Destroyed
  \/ janus_echotest_create_session \/ janus_echotest_hangup_media
  \/ janus_echotest_destroy_session \/ janus_echotest_watchdog \/ janus_echotest_setup_media
  \/ janus_echotest_handle_message \/ janus_echotest_handler \/ HandleChecks
  \/ HandleControls \/ HandleNotice \/ HandleMessage
  \/ RtpEnter \/ RtpIn \/ RtpPlain \/ RtpSwitch \/ RtpFall \/ RtpTell \/ RtpMatch
  \/ janus_echotest_incoming_rtp \/ janus_echotest_incoming_rtcp
  \/ janus_echotest_slow_link

Spec == Init /\ [][Next]_ec

----------------------------------------------------------------------------
\* The session's controls stay in their ranges.
TypeOK ==
  /\ ec.s.substream \in -1..2 /\ ec.s.substream_target \in Subs
  /\ ec.s.templayer \in -1..2 /\ ec.s.templayer_target \in Subs
  /\ ec.s.rec \subseteq {"audio", "video", "data"} /\ ec.s.bitrate >= 0

(***************************************************************************)
(* A freed session is used by none of the threads but one that had looked   *)
(* it up before it was destroyed and was still at it when the five seconds  *)
(* were over: nobody finds a session that is going.                         *)
(***************************************************************************)
NoFreedUse == ec.faults \subseteq {"over"}

\* Between two negotiations the client hears at most one "done", whether the
\* connection is lost, the session destroyed, or both.
DoneOnce == ec.dones <= 1

(***************************************************************************)
(* Once the ICE thread is out and the handler has told what it read, the    *)
(* client knows the substream it gets, unless the last notice crossed a     *)
(* change: the handler's may follow that of the ICE thread although it was  *)
(* read before it.                                                          *)
(***************************************************************************)
SubstreamTold ==
  janus_echotest_lookup_session(ec) /\ ec.rtp = << >> => ec.told = ec.s.substream \/ ec.crossed

\* Nothing is relayed that was not, since it came in, once active, once of the
\* substream the session was at, and once within its temporal layer.
RelaysWhatItSays ==
  ec.relayed # << >> => ec.relayed[2] = {"active", "substream", "layer"}
=============================================================================
