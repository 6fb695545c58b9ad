---------------------------- MODULE EventHandler ----------------------------
(***************************************************************************)
(* The event handler plugin of the janus bridge (janus/event/kore_msg.c):   *)
(* janus' event thread hands events in, they wait in a queue, a thread of   *)
(* the plugin groups them and sends each group to kore, the admin API       *)
(* changes the settings meanwhile, and the end of the server destroys it.   *)
(*                                                                          *)
(* Every step is what one thread does between two uses of what it shares    *)
(* with the others.  References to an event are counted as jansson does.    *)
(***************************************************************************)
EXTENDS Integers, Sequences, FiniteSets, SequencesExt, FiniteSetsExt

CONSTANTS
  Events,      \* events, each handed in once
  GroupMax,    \* 100: the most events of one group
  Configs,     \* [enabled, backend, retr, backoff, group]; << >> is no file
  Tweaks,      \* requests of the admin API: [request, backend, retr, backoff, group]
  MaxTweaks

VARIABLE eh
(***************************************************************************)
(* initialized, stopping   the flags; core: where init and destroy are      *)
(* set     [backend, retr, backoff, group]; memory: of the string backend   *)
(* queue   the events that wait; "exit" is exit_event; alive: its memory    *)
(* thread  of the plugin: "none", "start", "check", "pop", "took", "send",  *)
(*         "unref", "left"; max, event, output: its locals                  *)
(* entering, tweaking   calls that passed their check                       *)
(* refs    event -> references; holds: events the event thread refers to    *)
(* pushed, sent   events and groups in order; dropped: freed with the queue  *)
(* last    the last request: [was, now, ok]                                 *)
(***************************************************************************)
Defaults == [backend |-> "NULL", retr |-> 5, backoff |-> 100, group |-> TRUE]

Init ==
  eh = [initialized |-> FALSE, stopping |-> FALSE, core |-> "off", set |-> Defaults, memory |-> "none",
        queue |-> << >>, alive |-> FALSE, thread |-> "none", max |-> 0, event |-> "NULL", output |-> << >>,
        array |-> FALSE, entering |-> {}, tweaking |-> {}, refs |-> [e \in Events |-> 0], holds |-> {},
        handed |-> {}, pushed |-> << >>, sent |-> << >>, dropped |-> {}, ungrouped |-> {},
        last |-> << >>, tweaks |-> 0, faults |-> {}]

Fault(s, f) == [s EXCEPT !.faults = @ \cup {f}]
Running == eh.initialized /\ ~eh.stopping

\* json_decref; of what is freed it does harm, which the fault stands for.
Unref(s, e) ==
  IF s.refs[e] = 0 THEN Fault(s, "event_freed") ELSE [s EXCEPT !.refs[e] = @ - 1]
\* The same of several events, none of which is there twice.
UnrefAll(s, es) ==
  LET freed == {e \in es : s.refs[e] = 0}
  IN [s EXCEPT !.refs = [e \in Events |-> IF e \in es \ freed THEN s.refs[e] - 1 ELSE s.refs[e]],
               !.faults = @ \cup {"event_freed" : e \in freed}]

----------------------------------------------------------------------------
\* Start and end.

\* The settings a configuration leaves: what is invalid keeps its default.
Configured(c) ==
  [backend |-> c.backend, group |-> c.group,
   retr |-> IF c.retr < 0 THEN Defaults.retr ELSE c.retr,
   backoff |-> IF c.backoff <= 0 THEN Defaults.backoff ELSE c.backoff]

janus_sampleevh_init(c, threads) ==
  /\ eh.core = "off"
  /\ IF c = << >> \/ ~c[1].enabled \/ c[1].backend # "http"
     THEN eh' = [eh EXCEPT !.core = "failed"]
     ELSE LET s == [eh EXCEPT !.set = Configured(c[1]), !.memory = "live", !.alive = TRUE]
          IN eh' = IF threads THEN [s EXCEPT !.initialized = TRUE, !.core = "up", !.thread = "start"]
                   ELSE [s EXCEPT !.core = "failed"]

\* Destroying: stop, push exit_event and join, then free, then clear the flags.
janus_sampleevh_destroy ==
  /\ eh.core = "up"
  /\ eh' = [eh EXCEPT !.core = "joining", !.stopping = TRUE, !.queue = Append(@, "exit")]

DestroyFree_NoJoin ==
  /\ eh.core = "joining"
  /\ eh' = [UnrefAll(eh, ToSet(eh.queue) \ {"exit"})
              EXCEPT !.core = "freed", !.alive = FALSE, !.queue = << >>, !.memory = "freed",
                     !.dropped = @ \cup (ToSet(eh.queue) \ {"exit"})]
DestroyFree ==
  /\ eh.core = "joining" /\ eh.thread = "left"
  /\ eh' = [UnrefAll(eh, ToSet(eh.queue) \ {"exit"})
              EXCEPT !.core = "freed", !.alive = FALSE, !.queue = << >>, !.memory = "freed",
                     !.dropped = @ \cup (ToSet(eh.queue) \ {"exit"})]

DestroyDone == eh.core = "freed" /\ eh' = [eh EXCEPT !.core = "down", !.initialized = FALSE, !.stopping = FALSE]

----------------------------------------------------------------------------
\* An event is handed in: janus' event thread holds a reference until it returns.

IncomingCheck(e) ==
  /\ e \notin eh.handed
  /\ LET s == [eh EXCEPT !.handed = @ \cup {e}]
     IN eh' = IF Running THEN [s EXCEPT !.entering = @ \cup {e}, !.holds = @ \cup {e}, !.refs[e] = 1] ELSE s

\* The queue may be gone since the check.
janus_sampleevh_incoming_event(e) ==
  /\ e \in eh.entering
  /\ LET s == [eh EXCEPT !.entering = @ \ {e}, !.refs[e] = @ + 1]
     IN eh' = IF eh.alive THEN [s EXCEPT !.queue = Append(@, e), !.pushed = Append(@, e)]
              ELSE Fault(s, "queue_freed")

\* External: the event thread drops its reference.
Returned(e) ==
  /\ e \in eh.holds \ eh.entering
  /\ eh' = Unref([eh EXCEPT !.holds = @ \ {e}], e)

----------------------------------------------------------------------------
\* The plugin's thread.

\* The largest group is what grouping is at the start; later tweaks do not change it.
HandlerStart ==
  /\ eh.thread = "start"
  /\ eh' = [eh EXCEPT !.thread = "check", !.max = IF eh.set.group THEN GroupMax ELSE 1]

HandlerCheck ==
  /\ eh.thread = "check"
  /\ eh' = [eh EXCEPT !.thread = IF Running THEN "pop" ELSE "left"]

\* Waits for an event; exit_event ends the loop.
HandlerPop ==
  /\ eh.thread = "pop" /\ eh.queue # << >>
  /\ eh' = IF eh.queue[1] = "exit" THEN [eh EXCEPT !.queue = Tail(@), !.thread = "left"]
           ELSE [eh EXCEPT !.queue = Tail(@), !.event = eh.queue[1], !.thread = "took",
                           !.output = << >>, !.array = FALSE]

\* Alone, or one more of the group.  A group begun before grouping was switched off is
\* forgotten: output is the event.
Grouped_Unbounded(s) ==
  LET more == [s EXCEPT !.output = Append(@, s.event), !.array = TRUE]
  IN IF ~s.set.group THEN [s EXCEPT !.output = <<s.event>>, !.array = FALSE, !.thread = "send"]
     ELSE IF s.queue = << >> THEN [more EXCEPT !.thread = "send"]
     ELSE IF s.queue[1] = "exit" THEN [more EXCEPT !.thread = "send", !.queue = Tail(@)]
     ELSE [more EXCEPT !.event = s.queue[1], !.queue = Tail(@)]
Grouped(s) ==
  LET more == [s EXCEPT !.output = Append(@, s.event), !.array = TRUE]
  IN IF ~s.set.group
     THEN [s EXCEPT !.output = <<s.event>>, !.array = FALSE, !.thread = "send",
                    !.ungrouped = @ \cup ToSet(s.output)]
     ELSE IF Len(more.output) = s.max \/ s.queue = << >> THEN [more EXCEPT !.thread = "send"]
     ELSE IF s.queue[1] = "exit" THEN [more EXCEPT !.thread = "send", !.queue = Tail(@)]
     ELSE [more EXCEPT !.event = s.queue[1], !.queue = Tail(@)]

HandlerGroup == eh.thread = "took" /\ eh' = Grouped(eh)

\* kore_msg_send, and output is unreferenced: an array goes with its events.
HandlerSend ==
  /\ eh.thread = "send"
  /\ eh' = [UnrefAll(eh, ToSet(eh.output)) EXCEPT !.sent = Append(@, eh.output), !.thread = "unref"]

\* And once more.
HandlerUnref ==
  /\ eh.thread = "unref"
  /\ LET s == [eh EXCEPT !.thread = "check", !.output = << >>, !.event = "NULL"]
     IN eh' = IF eh.array THEN Fault(s, "array_freed") ELSE Unref(s, eh.output[1])

----------------------------------------------------------------------------
\* A request of the admin API: checked and validated, and then enforced.

Valid(q) == q.request = "tweak" /\ q.backend \in {"", "http"} /\ q.retr >= -1 /\ q.backoff >= -1

HandleCheck(q) ==
  /\ eh.tweaks < MaxTweaks /\ Running
  /\ eh' = [eh EXCEPT !.tweaks = @ + 1, !.tweaking = @ \cup {q}]

\* What is not given is kept.
Enforced_Eager(set, q) ==
  [backend |-> IF q.backend = "" THEN set.backend ELSE q.backend,
   retr |-> IF q.retr > -1 THEN q.retr ELSE set.retr,
   backoff |-> q.backoff,
   group |-> IF q.group = "" THEN set.group ELSE q.group = "yes"]
Enforced(set, q) ==
  [backend |-> IF q.backend = "" THEN set.backend ELSE q.backend,
   retr |-> IF q.retr > -1 THEN q.retr ELSE set.retr,
   backoff |-> IF q.backoff > -1 THEN q.backoff ELSE set.backoff,
   group |-> IF q.group = "" THEN set.group ELSE q.group = "yes"]

\* The old backend is freed; by now destroy may have freed it.
janus_sampleevh_handle_request(q) ==
  /\ q \in eh.tweaking
  /\ LET set == IF Valid(q) THEN Enforced(eh.set, q) ELSE eh.set
         s == [eh EXCEPT !.tweaking = @ \ {q}, !.set = set,
                         !.last = <<[was |-> eh.set, now |-> set, ok |-> Valid(q)]>>]
     IN eh' = IF Valid(q) /\ q.backend # "" /\ eh.memory = "freed" THEN Fault(s, "backend_freed") ELSE s

Next ==
  \/ \E c \in Configs, threads \in BOOLEAN : janus_sampleevh_init(c, threads)
  \/ janus_sampleevh_destroy \/ DestroyFree \/ DestroyDone
  \/ \E e \in Events : IncomingCheck(e) \/ janus_sampleevh_incoming_event(e) \/ Returned(e)
  \/ HandlerStart \/ HandlerCheck \/ HandlerPop \/ HandlerGroup \/ HandlerSend \/ HandlerUnref
  \/ \E q \in Tweaks : HandleCheck(q) \/ janus_sampleevh_handle_request(q)

----------------------------------------------------------------------------
\* Properties; the first is the type invariant.

TypeOK ==
  /\ eh.initialized \in BOOLEAN /\ eh.stopping \in BOOLEAN
  /\ ToSet(eh.queue) \subseteq Events \cup {"exit"} /\ eh.refs \in [Events -> 0..2]
  /\ eh.thread \in {"none", "start", "check", "pop", "took", "send", "unref", "left"}

Sent == FlattenSeq(eh.sent)
Took == IF eh.thread = "took" THEN Append(eh.output, eh.event)
        ELSE IF eh.thread = "send" THEN eh.output ELSE << >>

\* Events are sent in the order they came, once each, in groups of at most the maximum;
\* what came and was not sent waits, was dropped with the queue, or was in a group when
\* grouping was switched off.
EventsFlow ==
  /\ SelectSeq(eh.pushed, LAMBDA e : e \notin eh.ungrouped \cup eh.dropped)
       = SelectSeq(Sent \o Took \o eh.queue, LAMBDA e : e # "exit")
  /\ \A i \in DOMAIN eh.sent : Len(eh.sent[i]) \in 1..eh.max

\* The thread has left before the queue is freed, and nothing is sent afterwards.
EndsInOrder == ~eh.alive => eh.thread \in {"none", "left"} /\ eh.output = << >>

\* An event has as many references as there are who refer to it, until one that was
\* sent alone, and twice unreferenced, is met.
RefsExact ==
  \A e \in Events :
    eh.refs[e] = Cardinality({e} \cap eh.holds) + Cardinality({e} \cap ToSet(eh.queue))
                 + Cardinality({e} \cap ToSet(Took)) + Cardinality({e} \cap eh.ungrouped)
    \/ <<e>> \in ToSet(eh.sent) \/ eh.faults \ {"array_freed", "backend_freed"} # {}

\* A request that is refused changes nothing, one that is accepted what it says; no
\* setting becomes negative.
RequestsSettled ==
  /\ eh.set.retr >= 0 /\ eh.set.backoff >= 0
  /\ \A i \in DOMAIN eh.last : ~eh.last[i].ok => eh.last[i].now = eh.last[i].was

\* Memory is used after it is freed by calls that passed their check before the end,
\* and by the second unreference, of an array or of an event sent alone.
FaultsKnown ==
  /\ "array_freed" \in eh.faults => eh.sent # << >>
  /\ eh.faults \cap {"queue_freed", "backend_freed"} # {} => eh.core \in {"freed", "down"}
  /\ "event_freed" \in eh.faults => \E i \in DOMAIN eh.sent : Len(eh.sent[i]) = 1
=============================================================================
