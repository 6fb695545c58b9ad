----------------------------- MODULE JanusAdmin -----------------------------
(***************************************************************************)
(* The admin API of the janus bridge (janus/src/pjanus.c): the settings it  *)
(* changes while clients are served, the tokens that authorize clients, and *)
(* the packet capture of a handle; and the two places where clients meet    *)
(* them, the check of a request's secret and token and that of a plugin.    *)
(*                                                                          *)
(* The requests are handled one after the other by the worker.  What a      *)
(* request is refused for before it is looked at (its JSON, a missing       *)
(* element) is the value "bad" of its argument; a string that is a number   *)
(* is a number.  Lists and information for the reader are left out of the   *)
(* replies.                                                                 *)
(***************************************************************************)
EXTENDS Integers, FiniteSets, Sequences, SequencesExt, Functions

CONSTANTS
  Tokens,        \* tokens a client or an administrator names
  Plugins,       \* plugins that are loaded
  Unknown,       \* a plugin that is not
  Numbers,       \* numbers an administrator sends
  MaxLevel,      \* LOG_MAX
  MinNackQueue,  \* 200
  MaxChanges     \* requests that change something

VARIABLE ad
(***************************************************************************)
(* session_timeout, log_level, max_nack_queue, no_media_timer, and on, the  *)
(*         names of the settings that are TRUE                              *)
(* enabled, stored  janus_auth_is_enabled and janus_auth_is_stored_mode;    *)
(*         secret: there is an api_secret; admin_secret: an admin_api_secret *)
(* tokens  token -> the plugins it may use: those an administrator stored,  *)
(*         or, where tokens are signed instead, those with a valid signature *)
(* dump, pcap  dump_packets and text2pcap of the handle                     *)
(* reply   of the last request; attached: what the last attach was for;     *)
(* changes  requests that changed something                                 *)
(***************************************************************************)
\* What the tokens that are signed with the server's secret grant (janus_auth.c).
SignedTokens == UNION {[T -> SUBSET Plugins] : T \in SUBSET Tokens}

\* The settings the configuration gives.
Start(enabled, stored, secret, admin, signed) ==
  [session_timeout |-> 0, log_level |-> 0, max_nack_queue |-> 0, no_media_timer |-> 0,
   on |-> {"accept_new_sessions"}, enabled |-> enabled, stored |-> stored, secret |-> secret,
   admin_secret |-> admin, tokens |-> signed, dump |-> FALSE, pcap |-> FALSE,
   reply |-> "", attached |-> << >>, changes |-> 0]
Init ==
  \E enabled, stored, secret, admin \in BOOLEAN, signed \in SignedTokens :
    /\ (stored => enabled) /\ (stored \/ ~enabled => signed = << >>)
    /\ ad = Start(enabled, stored, secret, admin, signed)

Quiet(n) == [n EXCEPT !.attached = << >>]

\* janus_process_success, janus_process_error_string.
janus_process_success(n) ==
  /\ n # ad => ad.changes < MaxChanges
  /\ ad' = [Quiet(n) EXCEPT !.reply = "success", !.changes = IF n = ad THEN @ ELSE @ + 1]
janus_process_error == ad' = [Quiet(ad) EXCEPT !.reply = "error"]

\* The checks every request passes: its elements, then the secret.
Admitted(ok, secret) == ok /\ (ad.admin_secret => secret)

\* One setting: a value that is valid is stored.
SetNumber(field, v, valid, ok, secret) ==
  IF Admitted(ok, secret) /\ valid THEN janus_process_success([ad EXCEPT ![field] = v])
  ELSE janus_process_error
SetBoolean(name, v, ok, secret) ==
  IF ~Admitted(ok, secret) THEN janus_process_error
  ELSE janus_process_success([ad EXCEPT !.on = IF v THEN @ \cup {name} ELSE @ \ {name}])

set_session_timeout_Any(v, ok, secret) == SetNumber("session_timeout", v, TRUE, ok, secret)
set_session_timeout(v, ok, secret) == SetNumber("session_timeout", v, v >= 0, ok, secret)
set_log_level(v, ok, secret) == SetNumber("log_level", v, v \in 0..MaxLevel, ok, secret)
set_max_nack_queue(v, ok, secret) ==
  SetNumber("max_nack_queue", v, v = 0 \/ v >= MinNackQueue, ok, secret)
set_no_media_timer(v, ok, secret) == SetNumber("no_media_timer", v, TRUE, ok, secret)

set_locking_debug(v, ok, secret) == SetBoolean("lock_debug", v, ok, secret)
set_refcount_debug(v, ok, secret) == SetBoolean("refcount_debug", v, ok, secret)
set_log_timestamps(v, ok, secret) == SetBoolean("log_timestamps", v, ok, secret)
set_log_colors(v, ok, secret) == SetBoolean("log_colors", v, ok, secret)
set_libnice_debug(v, ok, secret) == SetBoolean("libnice_debug", v, ok, secret)
accept_new_sessions(v, ok, secret) == SetBoolean("accept_new_sessions", v, ok, secret)

----------------------------------------------------------------------------
\* Tokens.

\* janus_request_allow_token: a token is added, which skips plugins that are
\* not known, or it must be there and every plugin must be known.
janus_request_allow_token_Unchecked(t, allowed, allow, add, ok, secret) ==
  IF ~Admitted(ok, secret) \/ ~ad.stored \/ allowed = << >> THEN janus_process_error
  ELSE janus_process_success([ad EXCEPT !.tokens =
         [x \in DOMAIN @ \cup {t} |-> IF x = t THEN ToSet(allowed) ELSE @[x]]])
janus_request_allow_token_Adds(t, allowed, allow, add, ok, secret) ==
  LET all == IF allowed = << >> THEN Plugins ELSE ToSet(allowed) \cap Plugins
      known == t \in DOMAIN ad.tokens
      old == IF known THEN ad.tokens[t] ELSE {}
      new == IF allow THEN old \cup all ELSE old \ all
  IN  IF ~Admitted(ok, secret) \/ ~ad.stored \/ (~add /\ (~known \/ allowed = << >>))
      THEN janus_process_error
      ELSE IF ~add /\ ~(ToSet(allowed) \subseteq Plugins)
      THEN ad' = [Quiet(ad) EXCEPT !.tokens[t] = new, !.reply = "error"]
      ELSE janus_process_success([ad EXCEPT !.tokens =
             [x \in DOMAIN @ \cup {t} |-> IF x = t THEN new ELSE @[x]]])
janus_request_allow_token(t, allowed, allow, add, ok, secret) ==
  LET all == IF allowed = << >> THEN Plugins ELSE ToSet(allowed) \cap Plugins
      known == t \in DOMAIN ad.tokens
      old == IF known THEN ad.tokens[t] ELSE {}
      new == IF allow THEN old \cup all ELSE old \ all
  IN  IF \/ ~Admitted(ok, secret) \/ ~ad.stored
         \/ add /\ known
         \/ ~add /\ (~known \/ allowed = << >> \/ ~(ToSet(allowed) \subseteq Plugins))
      THEN janus_process_error
      ELSE janus_process_success([ad EXCEPT !.tokens =
             [x \in DOMAIN @ \cup {t} |-> IF x = t THEN new ELSE @[x]]])

add_token(t, allowed, ok, secret) ==
  janus_request_allow_token(t, allowed, TRUE, TRUE, ok, secret)
allow_token(t, allowed, ok, secret) ==
  janus_request_allow_token(t, allowed, TRUE, FALSE, ok, secret)
disallow_token(t, allowed, ok, secret) ==
  janus_request_allow_token(t, allowed, FALSE, FALSE, ok, secret)

remove_token(t, ok, secret) ==
  IF Admitted(ok, secret) /\ ad.stored /\ t \in DOMAIN ad.tokens
  THEN janus_process_success([ad EXCEPT !.tokens = Restrict(@, DOMAIN @ \ {t})])
  ELSE janus_process_error

----------------------------------------------------------------------------
\* The capture of a handle's packets; creating the file may fail.

start_pcap(created, ok, secret) ==
  IF Admitted(ok, secret) /\ ~ad.pcap /\ created
  THEN janus_process_success([ad EXCEPT !.pcap = TRUE, !.dump = TRUE])
  ELSE janus_process_error

stop_pcap_Frees(secret) ==
  IF Admitted(TRUE, secret) /\ ad.pcap
  THEN janus_process_success([ad EXCEPT !.pcap = FALSE]) ELSE janus_process_error
stop_pcap(secret) ==
  IF Admitted(TRUE, secret) /\ ad.pcap
  THEN janus_process_success(IF ad.dump THEN [ad EXCEPT !.dump = FALSE, !.pcap = FALSE] ELSE ad)
  ELSE janus_process_error

\* query_eventhandler, custom_event, list_*, get_status, handle_info: only a reply.
Ask(ok, secret) == IF Admitted(ok, secret) THEN janus_process_success(ad) ELSE janus_process_error

----------------------------------------------------------------------------
\* What a client meets.  A token that is "" is not in the request.

\* janus_request_check_secret: either the secret or a valid token will do.
janus_request_check_secret(secret, t) ==
  \/ ~ad.secret /\ ~ad.enabled
  \/ ad.secret /\ secret
  \/ ad.enabled /\ t \in DOMAIN ad.tokens

\* "attach": a token that is given must allow the plugin, whatever the secret.
Attach_SecretOnly(secret, t, p) ==
  IF janus_request_check_secret(secret, t) /\ p \in Plugins
  THEN ad' = [Quiet(ad) EXCEPT !.attached = <<secret, t, p>>, !.reply = "success"]
  ELSE janus_process_error
Attach(secret, t, p) ==
  IF /\ janus_request_check_secret(secret, t) /\ p \in Plugins
     /\ ad.enabled /\ t # "" => t \in DOMAIN ad.tokens /\ p \in ad.tokens[t]
  THEN ad' = [Quiet(ad) EXCEPT !.attached = <<secret, t, p>>, !.reply = "success"]
  ELSE janus_process_error

\* "create", as far as it depends on the settings.
Create(secret, t) ==
  IF "accept_new_sessions" \in ad.on /\ janus_request_check_secret(secret, t)
  THEN janus_process_success(ad) ELSE janus_process_error

\* A signature is valid for some time only.
Expires(t) ==
  /\ ad.enabled /\ ~ad.stored /\ t \in DOMAIN ad.tokens
  /\ ad' = [Quiet(ad) EXCEPT !.tokens = Restrict(@, DOMAIN @ \ {t}), !.reply = ""]

----------------------------------------------------------------------------
PluginLists == {<< >>, <<Unknown>>} \cup {<<p>> : p \in Plugins}
               \cup {<<p, Unknown>> : p \in Plugins}

Next ==
  \/ \E v \in Numbers, ok, secret \in BOOLEAN :
       \/ set_session_timeout(v, ok, secret) \/ set_log_level(v, ok, secret)
       \/ set_max_nack_queue(v, ok, secret) \/ set_no_media_timer(v, ok, secret)
  \/ \E v, ok, secret \in BOOLEAN :
       \/ set_locking_debug(v, ok, secret) \/ set_refcount_debug(v, ok, secret)
       \/ set_log_timestamps(v, ok, secret) \/ set_log_colors(v, ok, secret)
       \/ set_libnice_debug(v, ok, secret) \/ accept_new_sessions(v, ok, secret)
  \/ \E t \in Tokens, allowed \in PluginLists, ok, secret \in BOOLEAN :
       \/ add_token(t, allowed, ok, secret) \/ allow_token(t, allowed, ok, secret)
       \/ disallow_token(t, allowed, ok, secret)
  \/ \E t \in Tokens, ok, secret \in BOOLEAN : remove_token(t, ok, secret)
  \/ \E t \in Tokens : Expires(t)
  \/ \E created, ok, secret \in BOOLEAN : start_pcap(created, ok, secret)
  \/ \E secret \in BOOLEAN : stop_pcap(secret)
  \/ \E ok, secret \in BOOLEAN : Ask(ok, secret)
  \/ \E secret \in BOOLEAN, t \in Tokens \cup {""} :
       Create(secret, t) \/ \E p \in Plugins \cup {Unknown} : Attach(secret, t, p)

Spec == Init /\ [][Next]_ad

----------------------------------------------------------------------------
Settings == {"lock_debug", "refcount_debug", "log_timestamps", "log_colors", "libnice_debug",
             "accept_new_sessions"}

\* Settings and tokens are of their types.
TypeOK ==
  /\ ad.on \subseteq Settings /\ DOMAIN ad.tokens \subseteq Tokens
  /\ \A t \in DOMAIN ad.tokens : ad.tokens[t] \subseteq Plugins
  /\ ad.reply \in {"", "success", "error"}

\* Settings stay in their ranges whatever is sent, and packets are dumped
\* exactly while there is a file to dump them to.
SettingsValid ==
  /\ ad.session_timeout >= 0 /\ ad.log_level \in 0..MaxLevel
  /\ ad.max_nack_queue = 0 \/ ad.max_nack_queue >= MinNackQueue
  /\ ad.dump = ad.pcap

\* A client attaches to a plugin only with a token that allows it at that
\* moment, or with the secret, or when neither is asked for.
AttachAuthorized ==
  ad.attached # << >> =>
    LET secret == ad.attached[1]
        t == ad.attached[2]
    IN  \/ ad.enabled /\ t \in DOMAIN ad.tokens /\ ad.attached[3] \in ad.tokens[t]
        \/ ad.secret /\ secret /\ (ad.enabled => t = "")
        \/ ~ad.secret /\ ~ad.enabled

\* A request that is answered with an error has changed nothing.
ErrorStep == ad'.reply = "error" => ad' = [ad EXCEPT !.reply = "error", !.attached = << >>]
ErrorsChangeNothing == [][ErrorStep]_ad
=============================================================================
