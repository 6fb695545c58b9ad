------------------------------ MODULE JanusBoot ------------------------------
(***************************************************************************)
(* The life of the janus bridge: Janusmain (janus/src/pjanus.c) runs in a   *)
(* task thread of the kore worker (janus/src/janus.c) from its              *)
(* configuration to its shutdown, while the worker serves requests.         *)
(*                                                                          *)
(* One step is one stage of Janusmain; a stage that fails ends the task and *)
(* leaves the worker serving.  Of the numeric settings one is in focus: it  *)
(* may be given on the command line and in the file, as a number or as text *)
(* (atoi gives 0).  A library in the plugin folder has a package name and   *)
(* the stage its loading gets to.                                           *)
(***************************************************************************)
EXTENDS Integers, Sequences, FiniteSets, SequencesExt, Functions

CONSTANTS
  Setups,       \* [focus, range, folder]: the setting in focus, [name, arg, cfg];
                \* rtp_port_range, << >> or <<first, second>>; the plugin folder
  PortMod,      \* 2^16
  LogMax,       \* LOG_MAX
  MinNackQueue  \* 200

VARIABLE bt
(***************************************************************************)
(* pc        the stage Janusmain is at; "ended" when the task is over       *)
(* focus     the setting in focus; value: what it comes to                  *)
(* item      what the configuration holds for it: << >>, <<n, is a number>> *)
(* range     rtp_port_range as configured; ports: rtp_min_port, rtp_max_port*)
(* local_ip  whether an address was found, "loopback" if not                *)
(* sessions, watchdog, events  "none", "live", "gone"                       *)
(* folder    the libraries still to be read; plugins: package -> library    *)
(* inited, destroyed  libraries whose init and destroy have been called     *)
(* daemon, child, code  daemonize; that we are the forked child; what the   *)
(*           child told the parent                                          *)
(* stop, serving  the stop flag; the worker's loop                          *)
(* seen      what the last request found: sessions and plugins              *)
(***************************************************************************)
Default(name) == IF name = "debug_level" THEN LogMax - 1 ELSE 1

Init ==
  \E u \in Setups, daemon \in BOOLEAN :
    bt = [pc |-> "configure", focus |-> u.focus, item |-> u.focus.cfg,
          value |-> Default(u.focus.name), range |-> u.range, ports |-> <<0, 0>>,
          local_ip |-> "", sessions |-> "none", watchdog |-> "none", events |-> "none",
          folder |-> u.folder, plugins |-> << >>,
          inited |-> << >>, destroyed |-> << >>, daemon |-> daemon, child |-> FALSE,
          code |-> -1, stop |-> FALSE, serving |-> TRUE, seen |-> << >>]

At(stage) == bt.pc = stage
GoOn(b, stage) == bt' = [b EXCEPT !.pc = stage, !.seen = << >>]
GiveUp == GoOn(bt, "ended")

----------------------------------------------------------------------------
\* From the command line and the file to the settings.

\* A file that cannot be read is fatal only if it was asked for.
Configure ==
  /\ At("configure")
  /\ \E parsed, given, read, created \in BOOLEAN :
       IF ~parsed \/ (~read /\ (given \/ ~created)) THEN GiveUp
       ELSE GoOn([bt EXCEPT !.item = IF read THEN @ ELSE << >>], "logging")

\* A daemon needs a log file.
Logging ==
  /\ At("logging")
  /\ \E logfile \in BOOLEAN :
       IF bt.daemon /\ ~logfile THEN GiveUp
       ELSE GoOn(bt, IF bt.daemon THEN "daemonize" ELSE "levels")

\* fork: the parent, which has the worker, only waits for the code of the
\* child; the child has no worker.
Daemonize ==
  /\ At("daemonize")
  /\ \/ GiveUp
     \/ GoOn(bt, "waiting")
     \/ GoOn([bt EXCEPT !.child = TRUE, !.serving = FALSE], "levels")
Wait == At("waiting") /\ GiveUp

Clamp(n) == IF n < 0 THEN 0 ELSE IF n > LogMax THEN LogMax ELSE n

\* The log level: the command line, then a number in the file.  The logger
\* and the pid file may fail.
Levels ==
  /\ At("levels")
  /\ \/ GiveUp
     \/ LET f == bt.focus
            from == IF f.arg # << >> THEN f.arg ELSE bt.item
        IN  GoOn([bt EXCEPT !.value =
                    IF f.name = "debug_level" /\ from # << >> /\ from[2]
                    THEN Clamp(from[1]) ELSE @], "override")

\* Command line arguments replace what the file says.
Override ==
  /\ At("override")
  /\ GoOn([bt EXCEPT !.item = IF bt.focus.arg # << >> THEN bt.focus.arg ELSE @], "locate")

\* The address: of the interface that is asked for, any, or the loopback.
Locate ==
  /\ At("locate")
  /\ \E found \in BOOLEAN :
       GoOn([bt EXCEPT !.local_ip = IF found THEN "found" ELSE "loopback"], "settings")

\* A setting that has no valid value keeps its default.
TimeoutSetting(name, n) ==
  CASE name \in {"session_timeout", "reclaim_session_timeout"} -> n >= 0
    [] name = "candidates_timeout" -> n > 0
    [] OTHER -> FALSE
Stored(valid) == IF bt.item # << >> /\ valid THEN bt.item[1] ELSE bt.value
Settings_Any ==
  At("settings") /\ GoOn([bt EXCEPT !.value = Stored(bt.focus.name # "debug_level")], "ports")
Settings ==
  /\ At("settings")
  /\ GoOn([bt EXCEPT !.value = Stored(bt.item # << >> /\ TimeoutSetting(bt.focus.name, bt.item[1]))],
          "ports")

\* rtp_port_range: both ports are truncated to 16 bits, put in order, and
\* only then an upper bound of 0 becomes the largest port.
Ports_NoSwap ==
  /\ At("ports")
  /\ GoOn([bt EXCEPT !.ports =
       IF bt.range = << >> THEN @
       ELSE <<bt.range[1] % PortMod,
              IF bt.range[2] % PortMod = 0 THEN PortMod - 1 ELSE bt.range[2] % PortMod>>], "ice")
Ports ==
  /\ At("ports")
  /\ LET a == bt.range[1] % PortMod
         b == bt.range[2] % PortMod
         low == IF a > b THEN b ELSE a
         high == IF a > b THEN a ELSE b
     IN  GoOn([bt EXCEPT !.ports = IF bt.range = << >> THEN @
                                   ELSE <<low, IF high = 0 THEN PortMod - 1 ELSE high>>], "ice")

\* A STUN or TURN server that is not valid is fatal.
IceInit ==
  /\ At("ice")
  /\ GiveUp \/ GoOn(bt, "media")

MediaSetting(name, n) ==
  \/ name = "max_nack_queue" /\ (n = 0 \/ n >= MinNackQueue)
  \/ name = "no_media_timer" /\ n >= 0
Media ==
  /\ At("media")
  /\ GoOn([bt EXCEPT !.value = Stored(bt.item # << >> /\ MediaSetting(bt.focus.name, bt.item[1]))],
          "crypto")

Crypto ==
  /\ At("crypto")
  /\ GiveUp \/ GoOn(bt, "sessions")

----------------------------------------------------------------------------
\* What the worker's requests need.

\* The table is there before the watchdog, whose thread may not start.
Sessions ==
  /\ At("sessions")
  /\ \/ GoOn([bt EXCEPT !.sessions = "live"], "ended")
     \/ GoOn([bt EXCEPT !.sessions = "live", !.watchdog = "live"], "events")

\* Event handlers are off unless asked for; without their folder they are on
\* and there is none; the broadcaster may fail.
Events ==
  /\ At("events")
  /\ \/ GoOn(bt, "plugins")
     \/ GoOn([bt EXCEPT !.events = "live"], "plugins")
     \/ GiveUp

\* One library of the folder: another kind of file, disabled, not loadable,
\* incomplete or too old; or its init fails; or it is registered under its
\* package, in the place of another of that package.
LoadPlugin_Early(l) ==
  [bt EXCEPT !.folder = Tail(@),
     !.inited = IF l.gets = "registered" THEN Append(@, l) ELSE @,
     !.plugins = IF l.gets \in {"init", "registered"}
                 THEN [p \in DOMAIN @ \cup {l.pkg} |-> IF p = l.pkg THEN l ELSE @[p]] ELSE @]
LoadPlugin(l) ==
  [bt EXCEPT !.folder = Tail(@),
     !.inited = IF l.gets = "registered" THEN Append(@, l) ELSE @,
     !.plugins = IF l.gets = "registered"
                 THEN [p \in DOMAIN @ \cup {l.pkg} |-> IF p = l.pkg THEN l ELSE @[p]] ELSE @]
Plugins ==
  /\ At("plugins")
  /\ IF bt.folder # << >> THEN GoOn(LoadPlugin(Head(bt.folder)), "plugins")
     ELSE GiveUp \/ GoOn(bt, "started")

\* The parent of a daemon is told; handlers are notified.
Started ==
  /\ At("started")
  /\ GoOn([bt EXCEPT !.code = IF bt.daemon THEN 0 ELSE @], "running")

----------------------------------------------------------------------------
\* The end.  kore_worker_teardown raises stop and gives the task half a
\* second; the process may then exit at any stage.

Running == At("running") /\ bt.stop /\ GoOn(bt, "stopping")

EndWatchdog ==
  /\ At("stopping")
  /\ GoOn([bt EXCEPT !.watchdog = "gone"], "clearing")

\* sessions becomes NULL; ICE, DTLS, SCTP and tokens are gone.
ClearSessions ==
  /\ At("clearing")
  /\ GoOn([bt EXCEPT !.sessions = "gone"], "closing")

\* The plugins that are registered are destroyed, then the broadcaster and
\* its handlers; the tables are freed and their pointers stay.
ClosePlugins ==
  /\ At("closing")
  /\ GoOn([bt EXCEPT !.destroyed = @ \o SetToSeq(Range(bt.plugins)),
                     !.events = IF @ = "live" THEN "gone" ELSE @], "ended")

kore_worker_teardown ==
  /\ bt.serving
  /\ bt' = [bt EXCEPT !.stop = TRUE, !.serving = FALSE, !.seen = << >>]

\* atexit: a daemon's parent is sent a code once more.
janus_termination_handler ==
  /\ ~bt.serving /\ ~At("exited")
  /\ GoOn([bt EXCEPT !.code = IF bt.daemon /\ bt.code < 0 THEN 1 ELSE @], "exited")

\* A request of a client: it looks up sessions and plugins.
Request ==
  /\ bt.serving
  /\ bt' = [bt EXCEPT !.seen = <<bt.sessions, Range(bt.plugins)>>]

Next ==
  \/ Configure \/ Logging \/ Daemonize \/ Wait \/ Levels \/ Override \/ Locate \/ Settings
  \/ Ports \/ IceInit \/ Media \/ Crypto \/ Sessions \/ Events \/ Plugins \/ Started \/ Running
  \/ EndWatchdog \/ ClearSessions \/ ClosePlugins
  \/ kore_worker_teardown \/ janus_termination_handler \/ Request

Spec == Init /\ [][Next]_bt

----------------------------------------------------------------------------
\* The stages and the lifetimes are of their types.
TypeOK ==
  /\ {bt.sessions, bt.watchdog, bt.events} \subseteq {"none", "live", "gone"}
  /\ bt.code \in {-1, 0, 1} /\ {bt.stop, bt.serving, bt.daemon, bt.child} \subseteq BOOLEAN

\* A request never finds sessions that are gone or a plugin that was not
\* initialised or has been destroyed, at whatever stage the task is or ended.
ServedFromLiveTables ==
  bt.seen # << >> =>
    /\ bt.seen[1] # "gone" /\ ~bt.stop
    /\ bt.seen[2] \subseteq ToSet(bt.inited)
    /\ bt.seen[2] \cap ToSet(bt.destroyed) = {}

\* What is settled once the sessions are served: every number is in its
\* range, a valid one on the command line is the one that counts, and the
\* ports are in order and leave something to choose from.
SettingsSettled ==
  bt.sessions # "none" =>
    LET f == bt.focus
    IN  /\ f.name = "debug_level" => bt.value \in 0..LogMax
        /\ f.name # "debug_level" =>
             \/ TimeoutSetting(f.name, bt.value) \/ MediaSetting(f.name, bt.value)
             \/ bt.value = Default(f.name)
        /\ (f.name # "debug_level" /\ f.arg # << >>
             /\ (TimeoutSetting(f.name, f.arg[1]) \/ MediaSetting(f.name, f.arg[1])))
             => bt.value = f.arg[1]
        /\ bt.range # << >> => bt.ports[1] <= bt.ports[2] /\ bt.ports[2] > 0

\* A daemon's parent hears 0 only from a child that has loaded everything, and
\* plugins are destroyed only when no watchdog and no session is left to call
\* them.
StartIsReported ==
  /\ bt.code = 0 => bt.watchdog # "none" /\ bt.folder = << >>
  /\ bt.destroyed # << >> => bt.watchdog = "gone" /\ bt.sessions = "gone"
=============================================================================
