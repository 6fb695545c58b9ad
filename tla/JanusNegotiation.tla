-------------------------- MODULE JanusNegotiation --------------------------
(***************************************************************************)
(* Offers, answers and trickled candidates of one handle of the janus       *)
(* bridge (janus/src/pjanus.c).  The worker handles the client's messages;  *)
(* a plugin's thread pushes events that carry the plugin's offers and       *)
(* answers; the ICE code, which is not in the repository, gathers           *)
(* candidates, becomes ready and cleans up after a hangup, all on its own   *)
(* time.  What the three share is webrtc_flags, and only part of it is      *)
(* under the handle's mutex.                                                *)
(*                                                                          *)
(* An SDP is its type and how far it gets: "invalid" (it does not parse),   *)
(* "setup" (ICE cannot be set up), "process", "anonymize", "merge" (that    *)
(* step fails) or "ok".  Candidates are numbered as they arrive; that one   *)
(* which waited too long is dropped is left out, and RTX payload types are  *)
(* always wanted (RFC4588_RTX).                                             *)
(***************************************************************************)
EXTENDS Naturals, Sequences, SequencesExt, FiniteSets, FiniteSetsExt, Functions

CONSTANTS
  MaxTrickles,   \* candidates sent by the client
  MaxMessages,   \* messages with an SDP from the client
  MaxEvents,     \* events with an SDP from the plugin
  FullTrickle,   \* what full_trickle may be: a set of Booleans
  LowType,       \* payload types for RTX are looked for in
  HighType,      \*   LowType..HighType (96..127)
  Ptypes         \* payload types of a video line: a set of sequences

VARIABLE ng
(***************************************************************************)
(* flags    webrtc_flags                                                    *)
(* agent    the handle has an agent and a stream; cdone: "no", "yes", "err" *)
(* full     full-trickle is enabled                                         *)
(* pend     pending_trickles; applied: candidates given to the agent; sent  *)
(* remote   handle->remote_sdp is that of this agent                        *)
(* rtx      stream->rtx_payload_types                                       *)
(* w, p     where the worker and the plugin's thread are, with their SDP    *)
(* messages, events  how many there were                                    *)
(* offered  an offer of the plugin waits for an answer (ghost)              *)
(* skipped  the last answer came as a renegotiation, or failed, or was that *)
(*          of an earlier PeerConnection (ghost)                            *)
(***************************************************************************)
Idle == [pc |-> "idle", sdp |-> << >>, updating |-> FALSE]

Init ==
  \E full \in FullTrickle :
    ng = [flags |-> {}, agent |-> FALSE, cdone |-> "no", full |-> full, pend |-> << >>,
          applied |-> << >>, sent |-> 0, remote |-> FALSE, rtx |-> << >>, w |-> Idle, p |-> Idle,
          messages |-> 0, events |-> 0, offered |-> FALSE, skipped |-> FALSE]

Has(n, f) == f \in n.flags
Set(n, fs) == [n EXCEPT !.flags = @ \cup fs]
Clear(n, fs) == [n EXCEPT !.flags = @ \ fs]

----------------------------------------------------------------------------
\* The ICE code, as pjanus.c uses it.

\* janus_ice_setup_local: a fresh agent with its stream.
janus_ice_setup_local(n) ==
  [Clear(n, {"ALERT"}) EXCEPT !.agent = TRUE, !.cdone = "no", !.applied = << >>, !.remote = FALSE,
                              !.skipped = Has(n, "GOT_ANSWER")]

\* Gathering ends, well or not.
CandidatesDone(result) ==
  /\ ng.agent /\ ng.cdone = "no"
  /\ ng' = [ng EXCEPT !.cdone = result]

\* Connectivity and DTLS are established.
WebrtcUp ==
  /\ ng.agent /\ ng.remote /\ {"READY", "ALERT"} \cap ng.flags = {}
  /\ ng' = Set(ng, {"READY"})

\* A hangup, from anywhere, and the clean-up in the handle's loop.
WebrtcHangup ==
  /\ ng.agent /\ ~Has(ng, "ALERT")
  /\ ng' = Set(ng, {"ALERT", "CLEANING"})
WebrtcFree ==
  /\ Has(ng, "CLEANING")
  /\ ng' = [Clear(ng, {"CLEANING", "READY", "START", "ICE_RESTART", "RESEND_TRICKLES"}) EXCEPT
              !.agent = FALSE, !.cdone = "no", !.pend = << >>, !.applied = << >>, !.rtx = << >>,
              !.remote = FALSE]

----------------------------------------------------------------------------
\* janus_request_ice_handle_answer: the candidates that waited are given to
\* the agent.
janus_request_ice_handle_answer_Keeps(n) ==
  Clear([n EXCEPT !.offered = FALSE, !.skipped = FALSE], {"PROCESSING_OFFER"})
janus_request_ice_handle_answer(n) ==
  LET m == Clear([n EXCEPT !.pend = << >>, !.applied = @ \o n.pend, !.offered = FALSE,
                           !.skipped = FALSE], {"PROCESSING_OFFER"})
  IN  IF Has(n, "TRICKLE") THEN Set(m, {"START"}) ELSE m

----------------------------------------------------------------------------
\* The client: "message" with a jsep.

\* An error, at any point: the offer is not being processed any more.
Refuse(n) == [Clear(n, {"PROCESSING_OFFER"}) EXCEPT
                !.w = Idle, !.offered = FALSE, !.skipped = TRUE]

\* The flags of the type.
JsepType(n, sdp) ==
  IF sdp.type = "offer"
  THEN Clear(Set(n, {"PROCESSING_OFFER", "GOT_OFFER"}), {"GOT_ANSWER"})
  ELSE Set(n, {"GOT_ANSWER"})

\* A new session: ICE is set up for an offer, an answer needs an agent.
NewSession(n, sdp) ==
  LET o == IF sdp.type = "offer" THEN janus_ice_setup_local(n) ELSE n
      r == [o EXCEPT !.remote = TRUE, !.w.pc = "unlocked"]
      t == IF sdp.trickle THEN Set(r, {"TRICKLE"}) ELSE Clear(r, {"TRICKLE"})
  IN  IF \/ sdp.type = "offer" /\ sdp.gets = "setup"
         \/ sdp.type = "answer" /\ ~n.agent THEN Refuse(n)
      ELSE IF sdp.gets = "process" THEN Refuse(o)
      ELSE IF sdp.type = "offer" THEN r
      ELSE janus_request_ice_handle_answer(t)

\* A renegotiation, with or without an ICE restart.
Renegotiation(n, sdp) ==
  LET r == [n EXCEPT !.w.pc = "unlocked", !.remote = TRUE,
                     !.skipped = (sdp.type = "answer"), !.offered = FALSE]
      restart == sdp.restart \/ Has(n, "ICE_RESTART")
      a == IF restart /\ sdp.type = "answer" THEN Clear(r, {"ICE_RESTART"}) ELSE r
  IN  IF sdp.gets = "process" THEN Refuse(n)
      ELSE IF restart /\ n.full THEN Set(a, {"RESEND_TRICKLES"}) ELSE a

\* What is done under the handle's mutex.
Jsep(n, sdp) ==
  LET m == JsepType(n, sdp)
  IN  IF sdp.type = "other" THEN Refuse(n)
      ELSE IF sdp.gets = "invalid" THEN Refuse(m)
      ELSE IF Has(m, "READY") /\ ~Has(m, "ALERT") THEN Renegotiation(m, sdp)
      ELSE NewSession(m, sdp)

Message(sdp) ==
  /\ ng.w.pc = "idle" /\ ng.messages < MaxMessages
  /\ LET n == [ng EXCEPT !.w = [Idle EXCEPT !.pc = "cleaning", !.sdp = sdp], !.messages = @ + 1]
     IN  ng' = IF Has(n, "CLEANING") THEN n ELSE Jsep(n, sdp)

\* The worker polls until the clean-up is over, 3 seconds at most.
MessageCleaned ==
  /\ ng.w.pc = "cleaning" /\ ~Has(ng, "CLEANING")
  /\ ng' = Jsep(ng, ng.w.sdp)
MessageWaited ==
  /\ ng.w.pc = "cleaning" /\ Has(ng, "CLEANING")
  /\ ng' = [ng EXCEPT !.w = Idle]

\* After the mutex: the SDP is anonymized and goes to the plugin, if that lives.
MessageDone_Keeps ==
  /\ ng.w.pc = "unlocked"
  /\ ng' = IF ng.w.sdp.gets = "anonymize" THEN Refuse(ng) ELSE [ng EXCEPT !.w = Idle]
MessageDone ==
  /\ ng.w.pc = "unlocked"
  /\ ng' = IF ng.w.sdp.gets = "anonymize" THEN Refuse(ng)
           ELSE [Clear(ng, {"PROCESSING_OFFER"}) EXCEPT !.w = Idle]

\* "trickle": applied, or kept until the answer.
Trickle ==
  /\ ng.w.pc = "idle" /\ ng.sent < MaxTrickles
  /\ LET k == ng.sent + 1
         n == [Set(ng, {"TRICKLE"}) EXCEPT !.sent = k]
     IN  ng' = IF Has(ng, "CLEANING") THEN [ng EXCEPT !.sent = k]
               ELSE IF \/ ~ng.agent \/ Has(ng, "PROCESSING_OFFER")
                       \/ ~({"GOT_OFFER", "GOT_ANSWER"} \subseteq ng.flags)
               THEN [n EXCEPT !.pend = Append(@, k)]
               ELSE [n EXCEPT !.applied = Append(@, k)]

----------------------------------------------------------------------------
\* The plugin: janus_plugin_handle_sdp.

\* The payload type for the RTX of each type of a video line: the first one
\* after it, going round, that is no other's; none if the round is complete.
RtxType_Used(types, used, t) ==
  IF t + 1 > HighType THEN LowType ELSE t + 1
RtxType(types, used, t) ==
  LET next(i) == IF t + i > HighType THEN LowType + (t + i - HighType - 1) ELSE t + i
      tries == {i \in 1..(HighType - LowType) : next(i) \notin ToSet(types) \cup used}
  IN  IF tries = {} THEN 0 ELSE next(Min(tries))

RtxPayloadTypes(types) ==
  FoldLeft(LAMBDA f, t : LET r == RtxType(types, Range(f), t)
                         IN  IF r = 0 THEN f ELSE [x \in DOMAIN f \cup {t} |->
                                                     IF x = t THEN r ELSE f[x]],
           << >>, types)

\* Nothing is sent; the flags stay.
GiveUp(n) == [n EXCEPT !.p = Idle, !.skipped = @ \/ n.p.sdp.type = "answer"]

\* An offer finds an agent (and updates it) or sets one up.
PluginOffer(n, sdp) ==
  IF n.agent THEN [n EXCEPT !.p.pc = "merge", !.p.updating = TRUE]
  ELSE IF sdp.gets = "setup" THEN GiveUp(n)
  ELSE LET m == janus_ice_setup_local(n)
       IN  [m EXCEPT !.p.pc = IF n.full THEN "merge" ELSE "gathering"]

\* The type and the parse; the flags are set before anything can fail.
PluginSdp(sdp) ==
  /\ ng.p.pc = "idle" /\ ng.events < MaxEvents /\ ~Has(ng, "STOP")
  /\ LET n == [ng EXCEPT !.p = [Idle EXCEPT !.sdp = sdp], !.events = @ + 1]
         m == IF sdp.type = "offer" THEN Clear(Set(n, {"GOT_OFFER"}), {"GOT_ANSWER"})
              ELSE IF sdp.type = "answer" THEN Set(n, {"GOT_ANSWER"}) ELSE n
     IN  ng' = IF sdp.gets = "invalid" \/ sdp.type = "other" THEN GiveUp(m)
               ELSE IF sdp.type = "answer"
               THEN [m EXCEPT !.p.pc = IF n.full THEN "merge" ELSE "gathering"]
               ELSE IF Has(m, "CLEANING") THEN [m EXCEPT !.p.pc = "cleaning"]
               ELSE PluginOffer(m, sdp)

PluginCleaned ==
  /\ ng.p.pc = "cleaning" /\ ~Has(ng, "CLEANING")
  /\ ng' = PluginOffer(ng, ng.p.sdp)
PluginWaited ==
  /\ ng.p.pc = "cleaning" /\ Has(ng, "CLEANING")
  /\ ng' = GiveUp(ng)

\* The candidates-done callback is polled for.
PluginGathered ==
  /\ ng.p.pc = "gathering"
  /\ ng.cdone # "no" \/ Has(ng, "ALERT")
  /\ ng' = IF ng.cdone = "yes" THEN [ng EXCEPT !.p.pc = "merge"] ELSE GiveUp(ng)

\* Our details are added, under the mutex, and the event goes to the client.
PluginMerge ==
  /\ ng.p.pc = "merge"
  /\ \E types \in Ptypes :
       LET sdp == ng.p.sdp
           offer == sdp.type = "offer"
           restarted == IF offer /\ sdp.restart THEN Set(ng, {"ICE_RESTART"}) ELSE ng
           n == IF restarted.rtx = << >>
                THEN [restarted EXCEPT !.rtx = RtxPayloadTypes(types)] ELSE restarted
           done == [n EXCEPT !.p = Idle]
       IN  ng' = IF sdp.gets = "anonymize" THEN GiveUp(ng)
                 ELSE IF ~ng.agent THEN GiveUp(restarted)
                 ELSE IF sdp.gets = "merge" THEN GiveUp(n)
                 ELSE IF ng.p.updating THEN done
                 ELSE IF offer THEN [Set(done, {"PROCESSING_OFFER"}) EXCEPT !.offered = TRUE]
                 ELSE janus_request_ice_handle_answer(done)

----------------------------------------------------------------------------
Sdps(stages) ==
  [type : {"offer", "answer"}, gets : stages, restart : {FALSE}, trickle : {TRUE}]
  \cup [type : {"offer"}, gets : {"ok"}, restart : BOOLEAN, trickle : {TRUE}]
  \cup [type : {"answer"}, gets : {"ok"}, restart : {FALSE}, trickle : BOOLEAN]
  \cup [type : {"other"}, gets : {"ok"}, restart : {FALSE}, trickle : {TRUE}]

Next ==
  \/ \E sdp \in Sdps({"invalid", "setup", "process", "anonymize"}) : Message(sdp)
  \/ MessageCleaned \/ MessageWaited \/ MessageDone \/ Trickle
  \/ \E sdp \in Sdps({"invalid", "setup", "anonymize", "merge"}) : PluginSdp(sdp)
  \/ PluginCleaned \/ PluginWaited \/ PluginGathered \/ PluginMerge
  \/ \E r \in {"yes", "err"} : CandidatesDone(r)
  \/ WebrtcUp \/ WebrtcHangup \/ WebrtcFree

Spec == Init /\ [][Next]_ng

----------------------------------------------------------------------------
Flags == {"PROCESSING_OFFER", "GOT_OFFER", "GOT_ANSWER", "READY", "ALERT", "CLEANING", "STOP",
          "TRICKLE", "START", "ICE_RESTART", "RESEND_TRICKLES"}

\* Flags, queues and program counters are of their types.
TypeOK ==
  /\ ng.flags \subseteq Flags /\ ng.cdone \in {"no", "yes", "err"}
  /\ ng.w.pc \in {"idle", "cleaning", "unlocked"}
  /\ ng.p.pc \in {"idle", "cleaning", "gathering", "merge"}
  /\ ToSet(ng.pend) \cup ToSet(ng.applied) \subseteq 1..MaxTrickles

(***************************************************************************)
(* PROCESSING_OFFER holds candidates back, and nothing but the end of a     *)
(* negotiation takes it away: it is only set while the worker handles a     *)
(* message or an offer of the plugin waits for an answer.                   *)
(***************************************************************************)
ProcessingEnds ==
  Has(ng, "PROCESSING_OFFER") => ng.w.pc # "idle" \/ ng.offered

(***************************************************************************)
(* Once both descriptions are there and nobody is at work, no candidate     *)
(* waits, unless the last answer was that of a renegotiation (which leaves  *)
(* pending_trickles alone), was refused after GOT_ANSWER was set, or was    *)
(* that of an earlier PeerConnection (GOT_ANSWER is never cleared for it).  *)
(* Candidates are never applied twice, and in their order unless some were  *)
(* left waiting.                                                            *)
(***************************************************************************)
CandidatesFlow ==
  /\ /\ {"GOT_OFFER", "GOT_ANSWER"} \subseteq ng.flags /\ ng.agent /\ ~Has(ng, "PROCESSING_OFFER")
     /\ ng.w.pc = "idle" /\ ng.p.pc = "idle" /\ ~Has(ng, "CLEANING")
     => ng.pend = << >> \/ ng.skipped
  /\ ToSet(ng.pend) \cap ToSet(ng.applied) = {}
  /\ \A i, j \in DOMAIN ng.applied : i # j => ng.applied[i] # ng.applied[j]

\* RTX payload types are those of no codec, and of one codec each.
RtxDistinct ==
  LET f == ng.rtx
  IN  /\ DOMAIN f \cap Range(f) = {}
      /\ \A a, b \in DOMAIN f : a # b => f[a] # f[b]
=============================================================================
