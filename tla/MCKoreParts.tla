---------------------------- MODULE MCKoreParts ----------------------------
(***************************************************************************)
(* The other parts of the repository on small instances.  Each behaviour    *)
(* works one part, whose state is st: the states of the run are the sum and *)
(* not the product of those of the parts.                                   *)
(***************************************************************************)
EXTENDS Integers, Sequences, FiniteSets, TLC

CONSTANTS c1, c2   \* connections or requests, of which none is special
Symmetry == Permutations({c1, c2})

VARIABLES
  part,   \* the part that is worked
  st      \* its state

J == INSTANCE JanusSessions WITH jn <- st, Conns <- {c1, c2}, Ids <- {1}, MaxSessions <- 2,
       MaxHandles <- 1, MaxTimers <- 1, MaxConnects <- 2

G == INSTANCE JanusNegotiation WITH ng <- st, MaxTrickles <- 1, MaxMessages <- 2, MaxEvents <- 1,
       FullTrickle <- {FALSE}, LowType <- 96, HighType <- 99, Ptypes <- {<<99, 98, 34>>}

A == INSTANCE JanusAdmin WITH ad <- st, Tokens <- {"t"}, Plugins <- {"echo", "room"}, Unknown <- "none",
       Numbers <- {-1, 0, 1, 3}, MaxLevel <- 1, MinNackQueue <- 2, MaxChanges <- 2

\* A start of the server: one setting with every mix of argument and configured
\* value, or one port range and one plugin folder.
MCValues == {<< >>, <<-1, TRUE>>, <<0, TRUE>>, <<0, FALSE>>, <<3, TRUE>>}
MCFocus ==
  {[name |-> n, arg |-> a, cfg |-> c] :
     n \in {"debug_level", "session_timeout", "max_nack_queue"}, a \in MCValues, c \in MCValues}
  \cup {[name |-> n, arg |-> << >>, cfg |-> c] :
          n \in {"candidates_timeout", "no_media_timer"}, c \in MCValues}
MCLib(p, g) == [pkg |-> p, gets |-> g]
MCFolders ==
  {<< >>, <<MCLib("a", "registered"), MCLib("b", "init"), MCLib("a", "registered")>>,
   <<MCLib("a", "skipped"), MCLib("b", "registered")>>}
MCSetups ==
  {[focus |-> f, range |-> << >>, folder |-> << >>] : f \in MCFocus}
  \cup {[focus |-> [name |-> "session_timeout", arg |-> <<3, TRUE>>, cfg |-> <<0, TRUE>>],
         range |-> r, folder |-> d] :
          r \in {<< >>, <<0, 0>>, <<5, 0>>, <<5, 3>>, <<9, 3>>, <<3, 8>>}, d \in MCFolders}
B == INSTANCE JanusBoot WITH bt <- st, Setups <- MCSetups, PortMod <- 8, LogMax <- 2, MinNackQueue <- 2

\* What reaches the echo test plugin: an offer with simulcast and changes of the
\* controls, with packets of two of its three substreams; or offers without
\* VP8, that are not valid or cannot be parsed, with audio and slow links.
MCNone == [i \in 0..2 |-> 0]
MCSim == [i \in 0..2 |-> i + 1]
MCRequest ==
  [kind |-> "message", audio |-> "", video |-> "", bitrate |-> -1, substream |-> -1,
   temporal |-> -1, record |-> "", sdp |-> "", has |-> {}, sim |-> MCNone, vp8 |-> TRUE]
MCOffer == [MCRequest EXCEPT !.sdp = "ok", !.sim = MCSim, !.has = {"video"}]
MCTraffic ==
  {[messages |-> {MCOffer, [MCRequest EXCEPT !.substream = 0, !.temporal = 0],
                  [MCRequest EXCEPT !.video = "off"]},
    packets |-> {[video |-> TRUE, ssrc |-> 2, tid |-> 2], [video |-> TRUE, ssrc |-> 3, tid |-> -1]},
    slow |-> 0],
   [messages |-> {[MCOffer EXCEPT !.has = {"audio"}, !.vp8 = FALSE, !.audio = "off", !.record = "off"],
                  [MCRequest EXCEPT !.kind = "invalid", !.sim = MCSim],
                  [MCRequest EXCEPT !.bitrate = 3, !.record = "on", !.sdp = "bad", !.has = {"data"}]},
    packets |-> {[video |-> FALSE, ssrc |-> 9, tid |-> -1]}, slow |-> 1]}
E == INSTANCE EchoPlugin WITH ec <- st, Traffic <- MCTraffic, Bitrates <- {5}, Floor <- 1, Start <- 8,
       MaxMessages <- 2, MaxHangups <- 1

W == INSTANCE WsSessions WITH ws <- st, Conns <- {c1, c2}, MaxSessions <- 2, MaxHandles <- 1

V == INSTANCE WsNegotiation WITH wn <- st, MaxTrickles <- 1, MaxMessages <- 2, MaxEvents <- 1,
       LowType <- 96, HighType <- 99, Ptypes <- {<<99, 98, 34>>}

U == INSTANCE WsBoot WITH wb <- st, PortMod <- 8, MinNackQueue <- 3, MaxSignals <- 3,
       Settings <- {[name |-> "session_timeout", cfg |-> <<-1>>],
                    [name |-> "max_nack_queue", cfg |-> <<2>>],
                    [name |-> "no_media_timer", cfg |-> <<3>>]},
       Ranges <- {<<5, 0>>, <<13, 3>>},
       Folders <- {<<MCLib("b", "skipped"), MCLib("echo", "ok")>>,
                   <<MCLib("b", "ok"), MCLib("echo", "ok")>>}

\* Requests fired at the worker of mediasoup_1: of each method, and malformed ones.
MCDump ==
  [json |-> TRUE, id |-> 1, method |-> "room.dump", room |-> 1, level |-> "", tags |-> << >>,
   good |-> TRUE, big |-> FALSE, heap |-> TRUE]
MCSettings == [MCDump EXCEPT !.method = "worker.updateSettings"]
R == INSTANCE SoupBridge WITH br <- st, Ids <- {1, 2}, RoomIds <- {1, 2}, Fixed <- 3, MaxPort <- 63,
       MinPorts <- 9, LowestPort <- 32, Ports <- {<<41, 49>>, <<40, 48>>, <<10, 48>>, <<40, 47>>},
       MaxFired <- 3,
       Requests <- {MCDump, [MCDump EXCEPT !.json = FALSE], [MCDump EXCEPT !.id = -1],
                    [MCDump EXCEPT !.method = "x"], [MCDump EXCEPT !.method = "room.close"],
                    [MCDump EXCEPT !.room = -1], [MCDump EXCEPT !.good = FALSE, !.id = 2],
                    [MCDump EXCEPT !.method = "worker.dump", !.big = TRUE],
                    [MCSettings EXCEPT !.level = "warn", !.tags = <<"ice", "y">>],
                    [MCSettings EXCEPT !.level = "bad", !.tags = <<"rtp">>]}

M == INSTANCE MediasoupChannel WITH ms <- st, Conns <- {"c1", "c2"}, MaxWild <- 1

\* Two transports, three streams that are sent and three that are received; bytes
\* that follow the header of feedback, well-formed or not.
MCSenders ==
  <<[ssrc |-> 11, cname |-> <<97>>, count |-> 5, transport |-> 1],
    [ssrc |-> 12, cname |-> <<97, 98, 99>>, count |-> 0, transport |-> 1],
    [ssrc |-> 13, cname |-> <<97, 98>>, count |-> 7, transport |-> 2]>>
MCReceivers ==
  <<[losts |-> <<-5, 8388608>>, transport |-> 1], [losts |-> <<-9000000>>, transport |-> 1],
    [losts |-> << >>, transport |-> 2]>>
MCAreas ==
  {[i \in 1..n |-> (i * k) % 7] : n \in {0, 4, 8, 12, 16, 20, 24}, k \in {1, 3}}
  \cup {<<82, 69, 77, 66, 1, 2, 3, 0, 0, 0, 0, 5>>, <<82, 69, 77, 66, 2, 2, 3, 0, 0, 0, 0, 5>>,
        <<0, 0, 0, 1, 5, 7, 1, 0>>, <<8, 1, 1, 2, 3, 4, 5, 6>>}
P == INSTANCE SoupRtcp WITH rt <- st, Senders <- MCSenders, Receivers <- MCReceivers, Transports <- <<1, 2>>,
       Interval <- 2, Areas <- MCAreas, Tails <- {<< >>, <<129, 206, 0, 2, 0, 0, 0, 7, 0, 0, 0, 9>>},
       MantissaMax <- 7, BitrateMod <- 64, Rates <- {0, 1, 7, 8, 9, 15, 17, 31, 33, 63}, MaxTime <- 5

\* Packets to the bitrate estimator: each behaviour varies one aspect of them.
MCPackets ==
  [dts |-> {2}, tss |-> {0}, sizes |-> {2}, ssrcs |-> {1}, offsets |-> {"within"}, rising |-> {TRUE},
   rates |-> {}, packets |-> 6]
MCVaried ==
  {[MCPackets EXCEPT !.dts = {0, 1, 2}, !.tss = {0, -1, -2}, !.packets = 5],
   [MCPackets EXCEPT !.dts = {1, 3, 5}, !.ssrcs = {1, 2}],
   [MCPackets EXCEPT !.offsets = {"within", "above", "below"}, !.sizes = {1, 9}, !.rates = {0, 12}],
   [MCPackets EXCEPT !.offsets = {"within", "above"}, !.rising = BOOLEAN, !.packets = 5],
   [MCPackets EXCEPT !.dts = {1}, !.tss = {0, 1}, !.sizes = {12, 20}, !.packets = 7],
   [MCPackets EXCEPT !.dts = {1}, !.tss = {0, -2, -4}, !.sizes = {12}],
   [MCPackets EXCEPT !.dts = {2, 3}, !.tss = {0, 1}, !.sizes = {12}]}
D == INSTANCE SoupBitrate WITH bw <- st, Focuses <- MCVaried, Window <- 3, TsMod <- 16, GroupLength <- 0, Burst <- 1,
       OffsetThreshold <- 9, ReorderedReset <- 3, OverTime <- 1, StreamTimeOut <- 4, Probing <- 5,
       MinClusterSize <- 2, MaxProbes <- 4, ExpectedProbes <- 2, MinProbeSize <- 10, MinBitrate <- 2,
       StartBitrate <- 90, Slack <- 3, InitTime <- 3, FeedbackMin <- 1, FeedbackMax <- 4,
       FeedbackScale <- 40, Rtt <- 2, ReductionInterval <- 2, MinIncrease <- 1, NearMaxIncrease <- 1,
       Spread <- 3, CheckInterval <- 3, MaxTime <- 30

\* STUN messages that arrive as they were written, and one whose bytes change.
MCInet == [family |-> "inet", port |-> <<31, 144>>, ip |-> <<10, 0, 0, 7>>]
MCStuns ==
  {[methods |-> {1, 19}, passwords |-> {<< >>, <<112>>, <<113>>}, changes |-> {},
    usernames |-> {<< >>, <<108>>, <<108, 111, 58, 114>>, <<108, 111, 58>>, <<108, 111, 120, 58>>},
    addresses |-> {MCInet, [family |-> "inet6", port |-> <<1, 187>>, ip |-> [i \in 1..16 |-> 16 * i - 1]],
                   [family |-> "none", port |-> <<0, 0>>, ip |-> << >>]}],
   [methods |-> {1}, passwords |-> {<<112>>}, changes |-> {1, 4, 128, 240},
    usernames |-> {<<108, 111, 58, 114, 115>>}, addresses |-> {MCInet}]}
N == INSTANCE SoupStun WITH sm <- st, Focuses <- MCStuns, LocalUsername <- <<108, 111>>, LocalPassword <- <<112>>,
       Stale <- {0, 77}

\* RTP packets with csrcs, extensions and padding, and packets whose first byte says
\* what is not there.
MCLevel == [id |-> 1, value |-> <<200>>, gap |-> 0]
MCElements ==
  {<< >>, <<MCLevel>>, <<[MCLevel EXCEPT !.gap = 2], [id |-> 3, value |-> <<1, 2, 3>>, gap |-> 0]>>,
   <<MCLevel, [id |-> 3, value |-> <<7, 0>>, gap |-> 1], [MCLevel EXCEPT !.value = <<5>>]>>,
   <<[id |-> 2, value |-> <<0, 9, 0, 9>>, gap |-> 0], [id |-> 3, value |-> <<0, 0, 6>>, gap |-> 3], MCLevel>>}
MCPlain ==
  [first |-> 128, csrcs |-> << >>, ext |-> 0, elements |-> << >>, payload |-> << >>, padding |-> << >>]
MCPayloads == {<< >>, <<4>>, <<4, 5>>, <<6, 7, 8, 9, 10>>}
MCWritten ==
  {[MCPlain EXCEPT !.first = 128 + Len(c) \div 4 + (IF e = 0 THEN 0 ELSE 16) + (IF d = << >> THEN 0 ELSE 32),
                   !.csrcs = c, !.ext = e, !.elements = IF e = 0 THEN << >> ELSE els,
                   !.payload = l, !.padding = d] :
     c \in {<< >>, <<1, 1, 1, 1>>}, e \in {0, 48862, 4096, 4111, 1}, els \in MCElements, l \in MCPayloads,
     d \in {<< >>, <<1>>, <<0, 0, 3>>}}
  \cup {[MCPlain EXCEPT !.first = x, !.payload = l, !.padding = d] :
          x \in {0, 129, 143, 144, 160, 177, 191, 192},
          l \in MCPayloads \cup {<<190, 222, 0, 1, 18, 0>>, <<190, 222, 0, 1, 17, 2, 3, 0>>,
                                 <<16, 0, 0, 1, 1, 0, 0, 3>>},
          d \in {<< >>, <<0>>, <<2>>, <<0, 0, 0, 7>>}}
Q == INSTANCE SoupRtpPacket WITH rp <- st, Written <- MCWritten, LevelId <- 1, TimeId <- 3, MtuSize <- 34,
       Stale <- {0, 77}

\* The pgboss worker: three claims of two jobs, two clients, or one client, the page
\* and notifications; a connection may fail in the first and the last.
MCBudget == [clients |-> {}, tick |-> 0, message |-> 0, notify |-> 0, page |-> 0, failure |-> 0]
MCBudgets ==
  {[MCBudget EXCEPT !.tick = 3, !.failure = 1], [MCBudget EXCEPT !.clients = {"c1", "c2"}, !.message = 2],
   [MCBudget EXCEPT !.clients = {"c1"}, !.message = 1, !.notify = 2, !.page = 1, !.failure = 1]}
O == INSTANCE BossJobs WITH bj <- st, Clients <- {"c1", "c2"}, Jobs <- <<"j1", "j2">>, ConnMax <- 1, QueueLimit <- 1,
       CountMod <- 65536, QueueMod <- 1000000, Budgets <- MCBudgets

S == INSTANCE AuthSessions WITH au <- st, Requests <- {c1, c2}, ConnMax <- 1, QueueLimit <- 1, CountMod <- 65536,
       Budgets <- {[failure |-> 1, change |-> 0, leave |-> 0], [failure |-> 0, change |-> 1, leave |-> 0],
                   [failure |-> 0, change |-> 0, leave |-> 1]}

\* The event handler plugin: three events, groups of two, and one request of the admin
\* API, which may be refused.
MCConfig == [enabled |-> TRUE, backend |-> "http", retr |-> -1, backoff |-> 0, group |-> TRUE]
MCTweak == [request |-> "tweak", backend |-> "", retr |-> -1, backoff |-> -1, group |-> ""]
H == INSTANCE EventHandler WITH eh <- st, Events <- {"e1", "e2", "e3"}, GroupMax <- 2, MaxTweaks <- 1,
       Configs <- {<< >>, <<MCConfig>>, <<[MCConfig EXCEPT !.enabled = FALSE]>>,
                   <<[MCConfig EXCEPT !.group = FALSE, !.retr = 3, !.backoff = 7]>>},
       Tweaks <- {[MCTweak EXCEPT !.group = "no", !.retr = 0], [MCTweak EXCEPT !.retr = -2],
                  [MCTweak EXCEPT !.group = "yes", !.backend = "http"],
                  [MCTweak EXCEPT !.backend = "ftp", !.retr = 1], [MCTweak EXCEPT !.request = "other"]}

\* The message exchange: a client and the server that type more than a queue holds, and
\* two clients for one slot, one process of which is ended.  A socket holds one full queue,
\* of two messages in the first instance and of one in the second, where both sides fill it.
MCLines(s, a) == [server |-> s, a |-> a, b |-> << >>]
K == INSTANCE SeqPeers WITH sp <- st, Clients <- {"a", "b"}, List <- <<"i">>, QueueSize <- 2, Size <- 3, MaxSend <- 2,
       Capacity <- 6,
       Plans <- {[clients |-> {"a"}, lines |-> MCLines(<<"s1", "s2">>, <<"a1", "a2", "a3">>), ends |-> 0],
                 [clients |-> {"a"}, lines |-> MCLines(<< >>, <<"a1", "a2", "a3", "a4", "a5">>), ends |-> 0],
                 [clients |-> {"a", "b"}, lines |-> MCLines(<<"s1">>, <<"a1">>), ends |-> 1]}

L == INSTANCE SeqPeers WITH sp <- st, Clients <- {"a"}, List <- <<"i">>, QueueSize <- 1, Size <- 3, MaxSend <- 2,
       Capacity <- 3,
       Plans <- {[clients |-> {"a"}, lines |-> [server |-> <<"s1", "s2">>, a |-> l], ends |-> 0] :
                   l \in {<<"a1", "a2">>, <<"a1", "a2", "a3">>}}

I == INSTANCE PluginQueue WITH pq <- st, Conns <- {"a", "b"}, Lengths <- {0, 125, 126, 65534, 65535, 65536},
       Folders <- {<<"noload", "ok">>, <<"ok", "null">>, <<"ok", "ok">>, <<"nosym", "missing">>,
                   <<"ok", "fails">>}

KoreInit ==
  \/ part = "janus" /\ J!Init
  \/ part = "jsep" /\ G!Init
  \/ part = "admin" /\ A!Init
  \/ part = "boot" /\ B!Init
  \/ part = "echo" /\ E!Init
  \/ part = "ws" /\ W!Init
  \/ part = "wsjsep" /\ V!Init
  \/ part = "wsboot" /\ U!Init
  \/ part = "bridge" /\ R!Init
  \/ part = "channel" /\ M!Init
  \/ part = "rtcp" /\ P!Init
  \/ part = "bitrate" /\ D!Init
  \/ part = "stun" /\ N!Init
  \/ part = "rtp" /\ Q!Init
  \/ part = "boss" /\ O!Init
  \/ part = "auth" /\ S!Init
  \/ part = "evh" /\ H!Init
  \/ part = "seq" /\ K!Init
  \/ part = "full" /\ L!Init
  \/ part = "plugin" /\ I!Init

KoreNext ==
  /\ UNCHANGED part
  /\ \/ part = "janus" /\ J!Next
     \/ part = "jsep" /\ G!Next
     \/ part = "admin" /\ A!Next
     \/ part = "boot" /\ B!Next
     \/ part = "echo" /\ E!Next
     \/ part = "ws" /\ W!Next
     \/ part = "wsjsep" /\ V!Next
     \/ part = "wsboot" /\ U!Next
     \/ part = "bridge" /\ R!Next
     \/ part = "channel" /\ M!Next
     \/ part = "rtcp" /\ P!Next
     \/ part = "bitrate" /\ D!Next
     \/ part = "stun" /\ N!Next
     \/ part = "rtp" /\ Q!Next
     \/ part = "boss" /\ O!Next
     \/ part = "auth" /\ S!Next
     \/ part = "evh" /\ H!Next
     \/ part = "seq" /\ K!Next
     \/ part = "full" /\ L!Next
     \/ part = "plugin" /\ I!Next

KoreSpec == KoreInit /\ [][KoreNext]_<<st, part>>

\* Every part's state is of its type.
KoreTypeOK ==
  /\ part = "janus" => J!TypeOK
  /\ part = "jsep" => G!TypeOK
  /\ part = "admin" => A!TypeOK
  /\ part = "boot" => B!TypeOK
  /\ part = "echo" => E!TypeOK
  /\ part = "ws" => W!TypeOK
  /\ part = "wsjsep" => V!TypeOK
  /\ part = "wsboot" => U!TypeOK
  /\ part = "bridge" => R!TypeOK
  /\ part = "channel" => M!TypeOK
  /\ part = "rtcp" => P!TypeOK
  /\ part = "bitrate" => D!TypeOK
  /\ part = "stun" => N!TypeOK
  /\ part = "rtp" => Q!TypeOK
  /\ part = "boss" => O!TypeOK
  /\ part = "auth" => S!TypeOK
  /\ part = "evh" => H!TypeOK
  /\ part = "seq" => K!TypeOK
  /\ part = "full" => L!TypeOK
  /\ part = "plugin" => I!TypeOK

\* JanusSessions, JanusNegotiation, JanusAdmin, JanusBoot: the references of sessions
\* and handles are exact, but for an attach whose handle is freed before it holds it,
\* and events reach the connection that owns them;
\* a negotiation ends and its candidates flow; what an administrator or a
\* start-up sets is valid, and what is served comes from tables that are alive.
\* EventHandler: events are sent once and in order unless grouping is switched off,
\* the thread ends before its queue is freed, and references and settings are exact
\* up to the faults named.
JanusOK ==
  /\ part = "evh" =>
       H!EventsFlow /\ H!EndsInOrder /\ H!RefsExact /\ H!RequestsSettled /\ H!FaultsKnown
  /\ part = "janus" => J!RefsExact /\ J!NoOrphans /\ J!EventsReachOwner
  /\ part = "jsep" => G!ProcessingEnds /\ G!CandidatesFlow /\ G!RtxDistinct
  /\ part = "admin" => A!SettingsValid /\ A!AttachAuthorized
  /\ part = "boot" => B!ServedFromLiveTables /\ B!SettingsSettled /\ B!StartIsReported

\* JanusAdmin: a request that is answered with an error changes nothing.
\* SoupRtcp: no two reports of a stream are closer than the interval.
\* SoupBitrate: the estimate rises with what arrives, and never while the link is overused,
\* unless a probe has shown more.
StepsOK ==
  [][/\ part = "admin" => A!ErrorStep
     /\ part = "rtcp" => P!SpacedStep
     /\ part = "bitrate" => D!EstimateStep]_st


\* SoupBridge: every request of mediasoup_1's worker is answered once and in order,
\* the answers tell its rooms and settings, each buffer is freed once, and the
\* worker's thread ends in an order that uses nothing it has freed.
\* MediasoupChannel: in the first mediasoup server a client that waits has a letter
\* and a timer, is called back once, and kore and the worker agree on the rooms, up to
\* the first fault; no room outlives Close but those inserted while it ran, or later.
\* SeqPeers: what a side of a connection handles are whole messages that were queued for
\* it, each once; none stays half sent, and no two processes wait for each other.
\* PluginQueue: messages a plugin accepted are handled in order, its thread is woken at
\* the end, frames tell their length, and faults have the causes named.
MessagingOK ==
  /\ part = "bridge" =>
       R!AnswersTell /\ R!SettingsTold /\ R!BuffersExact /\ R!EndsInOrder /\ R!PortsUsable
  /\ part = "channel" => M!WaitsEnd /\ M!CalledBackOnce /\ M!RoomsMirrored /\ M!NoRoomLeft
  /\ part = "seq" => K!MessagesWhole /\ K!NothingStuck /\ K!NotBothBlocked /\ K!SlotsClean
  /\ part = "full" => L!MessagesWhole /\ L!NothingStuck /\ L!NotBothBlocked
  /\ part = "plugin" => I!AcceptedHandled /\ I!ThreadsWoken /\ I!FramesDecode /\ I!FaultsKnown

\* SoupRtcp: what is due is reported once and reads back as it was meant, sizes are
\* exact, and feedback is forwarded as it came if it comes alone, with its own items
\* first if another packet follows.
\* SoupStun: a STUN message reads back as it was written, only requests are answered,
\* with success if and only if they are authentic, whatever happens on the way.
\* SoupRtpPacket: the parts of a packet lie inside it, extensions are read as meant,
\* copies are exact, RTX gives the packet back, and the faults are the known ones.
ParsersOK ==
  /\ part = "rtcp" =>
       P!SizesExact /\ P!AllReported /\ P!ForwardExact /\ P!AnnouncedReadsBack /\ P!GoodbyeReadsBack
  /\ part = "stun" => N!SizeExact /\ N!ReadsBack /\ N!Answers /\ N!DatagramKept
  /\ part = "rtp" =>
       Q!PlacesInside /\ Q!ExtensionsRead /\ Q!StoredExact /\ Q!RtxRecovers /\ Q!FaultsKnown

\* SoupBitrate: the rate is that of the last window, what is announced is within its
\* bounds and for the streams that send, nothing is measured over a silence, and the
\* pace of a cluster is above zero unless a probe overtook another.
BitrateOK ==
  part = "bitrate" =>
    D!RateExact /\ D!AnnouncedSane /\ D!ControlSettled /\ D!NoSilence /\ D!ProbesHavePace

\* BossJobs: connections and waiters are counted exactly and owned by one handle each,
\* a claimed job is completed unless its own handle failed, clients are notified in
\* order and answered, and every fault has one of the causes named.
\* AuthSessions: the same of auth2's pool; who is let in was found by the query of the
\* same request, and an answered request holds nothing.
DatabaseOK ==
  /\ part = "boss" =>
       /\ O!ConnsOwned /\ O!CountsExact /\ O!JobsFollowed
       /\ O!NotifiedInOrder /\ O!ClientsAnswered /\ O!FaultsKnown
  /\ part = "auth" =>
       S!PoolExact /\ S!AdmittedRightly /\ S!NothingKept /\ S!AskingFollowed /\ S!FaultsKnown

=============================================================================
