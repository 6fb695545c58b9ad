------------------------------- MODULE WsBoot -------------------------------
(***************************************************************************)
(* The life of websocket_10: fuck_up (src/helper.c) runs in a task thread   *)
(* of the kore worker, from the configuration and the plugin folder         *)
(* (src/dlsym.c) to the shutdown; a stage that fails exits the process.     *)
(* The worker accepts connections all the while.  One numeric setting is in *)
(* focus; a library of the folder is a package and whether its init         *)
(* succeeds.                                                                *)
(***************************************************************************)
EXTENDS Integers, Sequences, FiniteSets, SequencesExt

CONSTANTS
  Settings,     \* the setting in focus: [name, cfg], cfg << >> or <<number>>
  Ranges,       \* rtp_port_range: << >> or <<first, second>>
  Folders,      \* the plugin folder: sequences of [pkg, gets]
  PortMod,      \* 2^16
  MinNackQueue, \* 200
  MaxSignals    \* signals sent to the process

VARIABLE wb
(***************************************************************************)
(* pc        the stage fuck_up is at; "exited" when the process is gone     *)
(* focus, value  the setting in focus and what it comes to                  *)
(* range, ports  rtp_port_range; rtp_min_port, rtp_max_port                 *)
(* local_ip, public_ip  "": not known yet                                   *)
(* lists     janus_ice_enforce_interface, janus_ice_ignore_interface called *)
(* sessions  the tables of sessions: "none", "live", "gone"; watchdog: same *)
(* folder    libraries still to be read; inited: packages, in order         *)
(* plugins   << >> when NULL, or <<the packages in the table>>              *)
(* destroyed packages whose destroy was called                              *)
(* told      a connection was told its session: "no", "lost" (it is in no   *)
(*           table), "known"                                                *)
(* attach    the worker is in an attach that has found its session          *)
(* seen      what the last attach found: << >>, <<plugins>>                 *)
(* late      lookups in the table of plugins after it was freed             *)
(* stop      how many signals there were                                    *)
(***************************************************************************)
Init ==
  \E f \in Settings, r \in Ranges, d \in Folders :
    wb = [pc |-> "log", focus |-> f, value |-> 1, range |-> r, ports |-> <<0, 0>>, local_ip |-> "",
          public_ip |-> "", lists |-> {}, sessions |-> "none", watchdog |-> "none", folder |-> d,
          inited |-> << >>, plugins |-> << >>, destroyed |-> {}, told |-> "no",
          attach |-> FALSE, seen |-> << >>, late |-> 0, stop |-> 0]

At(stage) == wb.pc = stage
GoOn(b, stage) == wb' = [b EXCEPT !.pc = stage, !.seen = << >>]
\* exit: janus_termination_handler is the last to run.
janus_termination_handler(b) == GoOn(b, "exited")
Fails == janus_termination_handler(wb)

Stored(valid) == IF wb.focus.cfg # << >> /\ valid THEN [wb EXCEPT !.value = wb.focus.cfg[1]] ELSE wb
Focus(name) == wb.focus.name = name
Cfg == wb.focus.cfg[1]

----------------------------------------------------------------------------
\* The configuration.

puzomerka == At("log") /\ (Fails \/ GoOn(wb, "file"))

\* A file that does not parse is replaced by an empty configuration.
set_conf_file ==
  /\ At("file")
  /\ \/ GoOn(wb, "enforce")
     \/ GoOn([wb EXCEPT !.focus.cfg = << >>, !.range = << >>], "enforce")
     \/ Fails

conf_ice_enforce_list ==
  At("enforce") /\ \E given \in BOOLEAN :
    GoOn(IF given THEN [wb EXCEPT !.lists = @ \cup {"enforce"}] ELSE wb, "ignore")
conf_ice_ignore_list ==
  At("ignore") /\ \E given \in BOOLEAN :
    GoOn(IF given THEN [wb EXCEPT !.lists = @ \cup {"ignore"}] ELSE wb, "interface")

\* The address of the interface that is asked for, if it has one.
conf_interface ==
  At("interface") /\ \E found \in BOOLEAN :
    GoOn(IF found THEN [wb EXCEPT !.local_ip = "interface"] ELSE wb, "address")
select_local_ip ==
  At("address") /\ \E ip \in {"detected", "loopback"} :
    GoOn([wb EXCEPT !.local_ip = IF @ # "" THEN @ ELSE ip], "timeout")

conf_session_timeout == At("timeout") /\ GoOn(Stored(Focus("session_timeout") /\ Cfg >= 0), "turn")

PortRange(r) ==
  LET a == r[1] % PortMod
      b == r[2] % PortMod
      high == IF a > b THEN a ELSE b
  IN  <<IF a > b THEN b ELSE a, IF high = 0 THEN PortMod - 1 ELSE high>>

\* janus_set_public_ip: the first address wins.
janus_set_public_ip(b) == [b EXCEPT !.public_ip = IF @ # "" THEN @ ELSE "mapping"]

\* The ports, the mapping, the STUN, TURN and TURN REST servers.
conf_turn ==
  /\ At("turn")
  /\ \E mapping \in BOOLEAN :
       LET b == [wb EXCEPT !.ports = IF wb.range = << >> THEN @ ELSE PortRange(wb.range)]
       IN  Fails \/ GoOn(IF mapping THEN janus_set_public_ip(b) ELSE b, "private")

\* A warning only.
test_private_address == At("private") /\ GoOn(wb, "nack")

conf_max_nack_queue ==
  /\ At("nack")
  /\ GoOn(Stored(Focus("max_nack_queue") /\ (Cfg = 0 \/ Cfg >= MinNackQueue)), "media")
conf_no_media_timer == At("media") /\ GoOn(Stored(Focus("no_media_timer") /\ Cfg >= 0), "certificates")

\* conf_cert_pem, conf_cert_key.  The result of janus_dtls_srtp_init is kept in
\* an unsigned number: it is never less than 0.
Certificates == At("certificates") /\ GoOn(wb, "mtu")

conf_dtls_mtu == At("mtu") /\ GoOn(Stored(Focus("dtls_mtu")), "tables")

----------------------------------------------------------------------------
\* SCTP may fail; the tables are there before the watchdog's thread.
Tables ==
  /\ At("tables")
  /\ \/ Fails
     \/ janus_termination_handler([wb EXCEPT !.sessions = "live"])
     \/ GoOn([wb EXCEPT !.sessions = "live", !.watchdog = "live"], "plugins")

\* plug_fucker: the table is published when it is made, and filled after that;
\* a plugin that finds a table is not inserted.
PublishTable(b) == [b EXCEPT !.plugins = <<{}>>]
plug_fucker(b, pkg) ==
  [b EXCEPT !.plugins = IF @ = <<{}>> /\ pkg = b.inited[1] THEN <<{pkg}>> ELSE @, !.folder = Tail(@)]

\* load_plugin: one library at a time; one that is not loaded, is incomplete or
\* too old, or whose init fails is skipped.
load_plugin ==
  /\ At("plugins")
  /\ \/ wb.folder = << >> /\ (GoOn(wb, "running") \/ Fails)
     \/ /\ wb.folder # << >>
        /\ LET l == Head(wb.folder)
               b == [wb EXCEPT !.inited = Append(@, l.pkg)]
           IN  IF l.gets = "skipped" THEN GoOn([wb EXCEPT !.folder = Tail(@)], "plugins")
               ELSE GoOn(IF wb.plugins = << >> THEN PublishTable(b) ELSE b, "register")
Register ==
  /\ At("register")
  /\ GoOn(plug_fucker(wb, Last(wb.inited)), "plugins")

----------------------------------------------------------------------------
\* The shutdown, at a signal; the third one exits.

janus_handle_signal ==
  /\ ~At("exited") /\ ~At("log") /\ wb.stop < MaxSignals
  /\ IF wb.stop = 2 THEN janus_termination_handler([wb EXCEPT !.stop = 3])
     ELSE wb' = [wb EXCEPT !.stop = @ + 1, !.seen = << >>]

Running == At("running") /\ wb.stop > 0 /\ GoOn(wb, "watchdog")
EndWatchdog == At("watchdog") /\ GoOn([wb EXCEPT !.watchdog = "gone"], "sessions")
ClearSessions == At("sessions") /\ GoOn([wb EXCEPT !.sessions = "gone"], "close")

\* janus_plugin_close for every plugin of the table, which is then freed.
janus_plugin_close ==
  /\ At("close")
  /\ GoOn([wb EXCEPT !.destroyed = IF wb.plugins = << >> THEN @ ELSE wb.plugins[1]], "bye")
Bye == At("bye") /\ janus_termination_handler([wb EXCEPT !.sessions = "gone"])

----------------------------------------------------------------------------
\* The worker, at any time until the process is gone.

\* janus_session_create inserts into whatever table there is.
Connect ==
  /\ ~At("exited")
  /\ wb' = [wb EXCEPT !.told = IF wb.sessions = "live" THEN "known" ELSE "lost", !.seen = << >>]

\* An attach finds its session, makes the handle, and looks for the plugin: in
\* between the task may have gone through the whole shutdown, which frees the
\* table of plugins and leaves its pointer.
AttachSession ==
  /\ ~At("exited") /\ ~wb.attach /\ wb.told = "known" /\ wb.sessions = "live"
  /\ wb' = [wb EXCEPT !.attach = TRUE, !.seen = << >>]
janus_plugin_find ==
  /\ ~At("exited") /\ wb.attach
  /\ wb' = IF At("bye") /\ wb.plugins # << >>
           THEN [wb EXCEPT !.attach = FALSE, !.seen = << >>, !.late = @ + 1]
           ELSE [wb EXCEPT !.attach = FALSE, !.seen = <<wb.plugins>>]

Next ==
  \/ puzomerka \/ set_conf_file \/ conf_ice_enforce_list \/ conf_ice_ignore_list \/ conf_interface
  \/ select_local_ip \/ conf_session_timeout \/ conf_turn \/ test_private_address
  \/ conf_max_nack_queue \/ conf_no_media_timer \/ Certificates \/ conf_dtls_mtu
  \/ Tables \/ load_plugin \/ Register
  \/ janus_handle_signal \/ Running \/ EndWatchdog \/ ClearSessions \/ janus_plugin_close \/ Bye
  \/ Connect \/ AttachSession \/ janus_plugin_find

Spec == Init /\ [][Next]_wb

----------------------------------------------------------------------------
\* Lifetimes, tables and settings are of their types.
TypeOK ==
  /\ {wb.sessions, wb.watchdog} \subseteq {"none", "live", "gone"} /\ wb.told \in {"no", "lost", "known"}
  /\ wb.stop \in 0..MaxSignals /\ wb.destroyed \subseteq ToSet(wb.inited)

\* An attach finds no plugin but the first one that was initialised, and none
\* whose destroy was called, at whatever stage the task is; only the attach that
\* the end of the sessions surprised can still look into the freed table.
FirstPluginOnly ==
  /\ wb.seen # << >> /\ wb.seen[1] # << >> =>
       wb.seen[1][1] \subseteq {wb.inited[1]} \ wb.destroyed
  /\ wb.destroyed # {} => wb.destroyed = {wb.inited[1]} /\ wb.watchdog = "gone" /\ wb.sessions = "gone"
  /\ wb.late <= 1 /\ (wb.late > 0 => ~wb.attach /\ wb.sessions = "gone")

\* Once sessions are served the numbers are in their ranges, the address is
\* known, and the ports are in order.
SettingsSettled ==
  wb.sessions = "live" =>
    /\ wb.value >= 0 /\ (Focus("max_nack_queue") /\ wb.value # 1 => wb.value = 0 \/ wb.value >= MinNackQueue)
    /\ wb.local_ip # "" /\ (wb.range # << >> => wb.ports[1] <= wb.ports[2] /\ wb.ports[2] > 0)
=============================================================================
