---------------------------- MODULE WsNegotiation ----------------------------
(***************************************************************************)
(* Offers, answers and candidates of one handle of websocket_10: what the   *)
(* worker does with a client's "janus" and "trickle" messages               *)
(* (src/incoming.c, src/trickle.c) and what a plugin's thread does with the *)
(* plugin's SDP (src/handle_sdp.c).  The handle's webrtc_flags are shared   *)
(* by both and by the ICE code, which is not in the repository.  An SDP is  *)
(* its type and how far it gets, as in JanusNegotiation, from which this    *)
(* earlier code differs: there is no full trickle, TRICKLE is always set by *)
(* a client's answer, and an error of a "trickle" does not end it.          *)
(***************************************************************************)
EXTENDS Naturals, Sequences, SequencesExt, FiniteSets, FiniteSetsExt

CONSTANTS
  MaxTrickles,   \* candidates sent by the client
  MaxMessages,   \* messages with an SDP from the client
  MaxEvents,     \* events with an SDP from the plugin
  LowType, HighType,   \* payload types for RTX
  Ptypes         \* payload types of a video line: a set of sequences

VARIABLE wn
(***************************************************************************)
(* flags    webrtc_flags; agent: the handle has an agent and a stream       *)
(* cdone    "no", "yes", "err"                                              *)
(* pend     pending_trickles; applied: candidates given to the agent; sent  *)
(* remote   remote_sdp is that of this agent; rtx: rtx_payload_types        *)
(* lock     unlocks of handle->mutex minus locks, 0 when it is balanced     *)
(* w, p     where the worker and the plugin's thread are, with their SDP    *)
(* messages, events  how many there were                                    *)
(* offered, skipped  as in JanusNegotiation                                 *)
(***************************************************************************)
Rtx == INSTANCE JanusNegotiation WITH ng <- wn, FullTrickle <- {FALSE}

Idle == [pc |-> "idle", sdp |-> << >>, updating |-> FALSE]

Init ==
  wn = [flags |-> {}, agent |-> FALSE, cdone |-> "no", pend |-> << >>, applied |-> << >>, sent |-> 0,
        remote |-> FALSE, rtx |-> << >>, lock |-> 0, w |-> Idle, p |-> Idle, messages |-> 0,
        events |-> 0, offered |-> FALSE, skipped |-> FALSE]

Has(n, f) == f \in n.flags
Set(n, fs) == [n EXCEPT !.flags = @ \cup fs]
Clear(n, fs) == [n EXCEPT !.flags = @ \ fs]

----------------------------------------------------------------------------
\* The ICE code, as this code uses it.

janus_ice_setup_local(n) ==
  [Clear(n, {"ALERT"}) EXCEPT !.agent = TRUE, !.cdone = "no", !.applied = << >>, !.remote = FALSE,
                              !.skipped = Has(n, "GOT_ANSWER")]
CandidatesDone(result) ==
  /\ wn.agent /\ wn.cdone = "no"
  /\ wn' = [wn EXCEPT !.cdone = result]
WebrtcUp ==
  /\ wn.agent /\ wn.remote /\ {"READY", "ALERT"} \cap wn.flags = {}
  /\ wn' = Set(wn, {"READY"})
WebrtcHangup ==
  /\ wn.agent /\ ~Has(wn, "ALERT")
  /\ wn' = Set(wn, {"ALERT", "CLEANING"})
WebrtcFree ==
  /\ Has(wn, "CLEANING")
  /\ wn' = [Clear(wn, {"CLEANING", "READY", "START", "ICE_RESTART"}) EXCEPT
              !.agent = FALSE, !.cdone = "no", !.pend = << >>, !.applied = << >>, !.rtx = << >>,
              !.remote = FALSE]

\* What follows an answer: PROCESSING_OFFER is cleared, what waits is applied,
\* and START is set unless all candidates have come.
PendingTrickles_Keeps(n) ==
  Clear([n EXCEPT !.offered = FALSE, !.skipped = FALSE], {"PROCESSING_OFFER"})
PendingTrickles(n) ==
  LET m == Clear([n EXCEPT !.pend = << >>, !.applied = @ \o n.pend, !.offered = FALSE,
                           !.skipped = FALSE], {"PROCESSING_OFFER"})
  IN  IF Has(n, "TRICKLE") THEN Set(m, {"START"}) ELSE m

----------------------------------------------------------------------------
\* incoming_message: the client's SDP.

\* janus_process_e, after PROCESSING_OFFER is cleared: the request is over.
Refuse(n) == [Clear(n, {"PROCESSING_OFFER"}) EXCEPT !.w = Idle, !.offered = FALSE, !.skipped = TRUE]

\* Flags of the type, set before the SDP is looked at.
JsepType(n, type) ==
  CASE type = "offer" -> Clear(Set(n, {"PROCESSING_OFFER", "GOT_OFFER"}), {"GOT_ANSWER"})
    [] type = "answer" -> Set(n, {"GOT_ANSWER"})
    [] OTHER -> n

\* The handle is not connected: an offer sets ICE up, an answer needs an agent.
NewSession(n, sdp) ==
  LET offer == sdp.type = "offer"
      o == IF offer THEN janus_ice_setup_local(n) ELSE n
      r == [o EXCEPT !.remote = TRUE, !.w.pc = "unlocked"]
  IN  IF (offer /\ sdp.gets = "setup") \/ (~offer /\ ~n.agent) THEN Refuse(n)
      ELSE IF sdp.gets = "process" THEN Refuse(o)
      ELSE IF offer THEN r ELSE PendingTrickles(Set(r, {"TRICKLE"}))

\* It is connected: the session is updated, ICE restarted if asked for.
Renegotiation(n, sdp) ==
  LET r == [n EXCEPT !.w.pc = "unlocked", !.remote = TRUE, !.offered = FALSE,
                     !.skipped = sdp.type = "answer"]
  IN  IF sdp.gets = "process" THEN Refuse(n)
      ELSE IF sdp.type = "answer" THEN Clear(r, {"ICE_RESTART"}) ELSE r

Jsep(n, sdp) ==
  LET m == JsepType(n, sdp.type)
  IN  IF sdp.type = "other" \/ sdp.gets = "invalid" THEN Refuse(m)
      ELSE IF Has(m, "READY") /\ ~Has(m, "ALERT") THEN Renegotiation(m, sdp)
      ELSE NewSession(m, sdp)

incoming_message(sdp) ==
  /\ wn.w.pc = "idle" /\ wn.messages < MaxMessages
  /\ LET n == [wn EXCEPT !.w = [Idle EXCEPT !.pc = "cleaning", !.sdp = sdp], !.messages = @ + 1]
     IN  wn' = IF Has(n, "CLEANING") THEN n ELSE Jsep(n, sdp)

\* The worker polls CLEANING, 3 seconds at most.
Cleaned ==
  /\ wn.w.pc = "cleaning" /\ ~Has(wn, "CLEANING")
  /\ wn' = Jsep(wn, wn.w.sdp)
WaitedEnough ==
  /\ wn.w.pc = "cleaning" /\ Has(wn, "CLEANING")
  /\ wn' = [wn EXCEPT !.w = Idle]

\* Without the mutex: the SDP is anonymized, then it goes to the plugin.
ToPlugin_Keeps ==
  /\ wn.w.pc = "unlocked"
  /\ wn' = IF wn.w.sdp.gets = "anonymize" THEN Refuse(wn) ELSE [wn EXCEPT !.w = Idle]
ToPlugin ==
  /\ wn.w.pc = "unlocked"
  /\ wn' = IF wn.w.sdp.gets = "anonymize" THEN Refuse(wn)
           ELSE [Clear(wn, {"PROCESSING_OFFER"}) EXCEPT !.w = Idle]

\* do_trickle: a candidate is kept until the answer, or given to the agent.
\* It is so even while the handle is cleaned up, after an error was sent; one
\* that does not parse unlocks the mutex twice.
do_trickle(parses) ==
  /\ wn.w.pc = "idle" /\ wn.sent < MaxTrickles
  /\ LET n == [Set(wn, {"TRICKLE"}) EXCEPT !.sent = @ + 1]
     IN  wn' = IF \/ ~wn.agent \/ Has(wn, "PROCESSING_OFFER")
                  \/ ~({"GOT_OFFER", "GOT_ANSWER"} \subseteq wn.flags)
               THEN [n EXCEPT !.pend = Append(@, n.sent)]
               ELSE IF parses THEN [n EXCEPT !.applied = Append(@, n.sent)]
               ELSE [n EXCEPT !.lock = @ + 1]

----------------------------------------------------------------------------
\* janus_plugin_handle_sdp: the plugin's SDP.

\* NULL is returned; the flags stay.
GiveUp(n) == [n EXCEPT !.p = Idle, !.skipped = @ \/ n.p.sdp.type = "answer"]

\* An offer updates the agent there is, or sets one up and waits for its candidates.
LocalOffer(n, sdp) ==
  IF n.agent THEN [n EXCEPT !.p.pc = "merge", !.p.updating = TRUE]
  ELSE IF sdp.gets = "setup" THEN GiveUp(n)
  ELSE [janus_ice_setup_local(n) EXCEPT !.p.pc = "gathering"]

\* An answer looks at the stream: the client has offered.
janus_plugin_handle_sdp(sdp) ==
  /\ wn.p.pc = "idle" /\ wn.events < MaxEvents
  /\ sdp.type = "answer" /\ sdp.gets # "invalid" => wn.agent
  /\ LET n == [wn EXCEPT !.p = [Idle EXCEPT !.sdp = sdp], !.events = @ + 1]
         m == IF sdp.type = "offer" THEN Clear(Set(n, {"GOT_OFFER"}), {"GOT_ANSWER"})
              ELSE IF sdp.type = "answer" THEN Set(n, {"GOT_ANSWER"}) ELSE n
     IN  wn' = IF sdp.gets = "invalid" \/ sdp.type = "other" THEN GiveUp(m)
               ELSE IF sdp.type = "answer" THEN [m EXCEPT !.p.pc = "gathering"]
               ELSE IF Has(m, "CLEANING") THEN [m EXCEPT !.p.pc = "cleaning"]
               ELSE LocalOffer(m, sdp)

PluginCleaned ==
  /\ wn.p.pc = "cleaning"
  /\ wn' = IF Has(wn, "CLEANING") THEN GiveUp(wn) ELSE LocalOffer(wn, wn.p.sdp)

\* cdone is polled for.
Gathered ==
  /\ wn.p.pc = "gathering" /\ (wn.cdone # "no" \/ Has(wn, "ALERT"))
  /\ wn' = IF wn.cdone = "yes" THEN [wn EXCEPT !.p.pc = "merge"] ELSE GiveUp(wn)

\* RTX payload types are chosen, our details merged, and the mutex taken for
\* an answer.
RtxTypes(n, types) ==
  IF n.agent /\ n.rtx = << >> THEN [n EXCEPT !.rtx = Rtx!RtxPayloadTypes(types)] ELSE n
Merge(types) ==
  /\ wn.p.pc = "merge"
  /\ LET sdp == wn.p.sdp
         r == IF sdp.type = "offer" /\ sdp.restart THEN Set(wn, {"ICE_RESTART"}) ELSE wn
         n == RtxTypes(r, types)
         done == [n EXCEPT !.p = Idle]
     IN  wn' = IF sdp.gets = "anonymize" THEN GiveUp(wn)
               ELSE IF sdp.gets = "merge" \/ ~wn.agent THEN GiveUp(n)
               ELSE IF wn.p.updating THEN done
               ELSE IF sdp.type = "offer" THEN [Set(done, {"PROCESSING_OFFER"}) EXCEPT !.offered = TRUE]
               ELSE PendingTrickles(done)

----------------------------------------------------------------------------
Sdps(stages) ==
  [type : {"offer", "answer"}, gets : stages \cup {"ok"}, restart : {FALSE}]
  \cup {[type |-> "offer", gets |-> "ok", restart |-> TRUE],
        [type |-> "other", gets |-> "ok", restart |-> FALSE]}

Next ==
  \/ \E sdp \in Sdps({"invalid", "setup", "process", "anonymize"}) : incoming_message(sdp)
  \/ Cleaned \/ WaitedEnough \/ ToPlugin
  \/ \E parses \in BOOLEAN : do_trickle(parses)
  \/ \E sdp \in Sdps({"invalid", "setup", "anonymize", "merge"}) : janus_plugin_handle_sdp(sdp)
  \/ PluginCleaned \/ Gathered \/ \E types \in Ptypes : Merge(types)
  \/ \E r \in {"yes", "err"} : CandidatesDone(r)
  \/ WebrtcUp \/ WebrtcHangup \/ WebrtcFree

Spec == Init /\ [][Next]_wn

----------------------------------------------------------------------------
\* Flags, queues and program counters are of their types.
TypeOK ==
  /\ wn.flags \subseteq Rtx!Flags /\ wn.cdone \in {"no", "yes", "err"}
  /\ wn.w.pc \in {"idle", "cleaning", "unlocked"}
  /\ wn.p.pc \in {"idle", "cleaning", "gathering", "merge"}
  /\ ToSet(wn.pend) \cup ToSet(wn.applied) \subseteq 1..MaxTrickles

\* PROCESSING_OFFER is set only while a message is handled or an offer of the
\* plugin waits for its answer.
ProcessingEnds == Has(wn, "PROCESSING_OFFER") => wn.w.pc # "idle" \/ wn.offered

(***************************************************************************)
(* Once both descriptions are there and nobody is at work no candidate      *)
(* waits, unless the last answer was a renegotiation's, was refused, or is  *)
(* that of an earlier PeerConnection; a candidate is applied at most once.  *)
(***************************************************************************)
CandidatesFlow ==
  /\ /\ {"GOT_OFFER", "GOT_ANSWER"} \subseteq wn.flags /\ wn.agent /\ ~Has(wn, "PROCESSING_OFFER")
     /\ wn.w.pc = "idle" /\ wn.p.pc = "idle" /\ ~Has(wn, "CLEANING")
     => wn.pend = << >> \/ wn.skipped
  /\ ToSet(wn.pend) \cap ToSet(wn.applied) = {}
  /\ IsInjective(wn.applied)
=============================================================================
