--------------------------- MODULE MonitorAlarms ---------------------------
(***************************************************************************)
(* A monitored system that gets worse, one reading at a time, and what the *)
(* checks of MonitorChecks say of it.  watch is what is checked, under     *)
(* which thresholds, how bad each reading is, from 0, as good as it gets,  *)
(* to Worst, and the step of the check that fails, "" if none does.        *)
(***************************************************************************)
EXTENDS MonitorChecks

CONSTANT Worst          \* how bad a reading can get

VARIABLE watch

Levels == 0..Worst

\* Options of which only some are set, out of those of all checks of a kind.
Unset == [f \in {"peers", "peerLag", "peerSeen", "msgsCrit", "msgsWarn", "subjectsCrit",
                 "subjectsWarn", "lag", "seen", "minSources", "maxSources"} |-> 0]
Resources == {"ackPending", "waiting", "pending", "redelivered", "lastDelivery", "lastAck"}
NoServerOptions == [jetstream |-> FALSE, tls |-> FALSE, auth |-> FALSE, tlsCrit |-> <<>>,
                    tlsWarn |-> <<>>, upCrit |-> 0, upWarn |-> 0, cpuCrit |-> 0, cpuWarn |-> 0,
                    memCrit |-> 0, memWarn |-> 0, connCrit |-> 0, connWarn |-> 0,
                    subsCrit |-> 0, subsWarn |-> 0]

\* A pair of thresholds, a single reading and what it is compared with.
Rising(pair) == pair.warn < pair.crit
Pairs == [crit : Levels, warn : Levels]

SingleCases ==
    [kind : {"messages", "subjects", "cpu", "mem", "conns", "subs", "up", "tls", "kv", "age",
             "request", "connect", "credential", "account"}, o : Pairs, bad : [{"v"} -> {0}], step : {""}]
PeerCases ==
    [kind : {"cluster", "sources", "mirror", "meta", "replicas"},
     o : [lag : Levels, seen : 0..1], bad : [{"lag", "active", "offline"} -> {0}],
     step : {""}]
ConsumerCases ==
    [kind : Resources, o : [crit : Levels], bad : [{"v"} -> {0}], step : {""}]
    \cup [kind : {"pinned"}, o : [crit : {1}], bad : [{"v"} -> {0}], step : {""}]

\* A reading that gets worse by falling.
falling(b) == Worst - b

peer(b) == [lag |-> b["lag"], active |-> b["active"], offline |-> b["offline"] > 0,
            current |-> b["lag"] < Worst]
stream(b) == [clustered |-> TRUE, configured |-> 2, leader |-> TRUE, peers |-> <<peer(b)>>,
              msgs |-> 0, subjects |-> 0, sources |-> <<>>, mirror |-> <<>>]
alone == [stream([f \in {"lag", "active", "offline"} |-> 0]) EXCEPT !.clustered = FALSE, !.configured = 1]

\* The options come with the metadata of the stream.
streamLevels(w) ==
    LET o == w.o
        b == w.bad
        Health(nfo, options) == CheckStreamHealth(w.step,
            [invalid |-> IF w.step = "metadata" THEN {"seen"} ELSE {}, set |-> options], nfo, Unset)
    IN  CASE w.kind = "cluster" ->
                 Health(stream(b), [Unset EXCEPT
                     !["peers"] = 2, !["peerLag"] = o.lag, !["peerSeen"] = o.seen])
          [] w.kind = "sources" ->
                 Health([alone EXCEPT !.sources = <<peer(b)>>],
                     [Unset EXCEPT !["lag"] = o.lag, !["seen"] = o.seen])
          [] w.kind = "mirror" ->
                 Health([alone EXCEPT !.mirror = <<peer(b)>>],
                     [Unset EXCEPT !["lag"] = o.lag, !["seen"] = o.seen])
          [] w.kind = "messages" ->
                 Health([alone EXCEPT !.msgs = falling(b["v"])],
                     [Unset EXCEPT !["msgsCrit"] = o.crit, !["msgsWarn"] = o.warn])
          [] w.kind = "subjects" ->
                 Health(
                     [alone EXCEPT !.subjects = IF Rising(o) THEN b["v"] ELSE falling(b["v"])],
                     [Unset EXCEPT !["subjectsCrit"] = o.crit, !["subjectsWarn"] = o.warn])

age(b) == IF b = Worst THEN <<>> ELSE <<b>>
consumerLevels(w) ==
    LET v == w.bad["v"]
        nfo == [ackPending |-> v, waiting |-> v, pending |-> v, redelivered |-> v,
                lastDelivery |-> age(v), lastAck |-> age(v), policy |-> "pinned_client",
                groups |-> 2, states |-> <<v < 2, v < 1>>]
        unset == [f \in Resources \cup {"pinned"} |-> IF f = "pinned" THEN FALSE ELSE 0]
    IN  CheckConsumerHealth(w.step, nfo, IF w.kind = "pinned" THEN [unset EXCEPT !["pinned"] = TRUE]
                                             ELSE [unset EXCEPT ![w.kind] = w.o.crit])

\* conns and subs alarm when they fall if the critical threshold is the lower.
serverLevels(w) ==
    LET o == w.o
        v == w.bad["v"]
        either == IF o.crit < o.warn THEN falling(v) ELSE v
        vz == [jetstream |-> TRUE, tlsRequired |-> TRUE, auth |-> TRUE, cpu |-> v, mem |-> v,
               up |-> falling(v) * Second, conns |-> either, subs |-> either,
               tls |-> <<Worst * Second, falling(v) * Second>>]
    IN  CheckServer(IF w.step \in {"", "connect"} THEN w.step ELSE fetchVarz(TRUE, w.step), vz,
            CASE w.kind = "cpu" -> [NoServerOptions EXCEPT !.cpuCrit = o.crit, !.cpuWarn = o.warn]
              [] w.kind = "mem" -> [NoServerOptions EXCEPT !.memCrit = o.crit, !.memWarn = o.warn]
              [] w.kind = "conns" -> [NoServerOptions EXCEPT !.connCrit = o.crit, !.connWarn = o.warn]
              [] w.kind = "subs" -> [NoServerOptions EXCEPT !.subsCrit = o.crit, !.subsWarn = o.warn]
              [] w.kind = "up" -> [NoServerOptions EXCEPT !.upCrit = o.crit, !.upWarn = o.warn]
              [] w.kind = "tls" -> [NoServerOptions EXCEPT !.tlsCrit = <<o.crit * Second>>,
                                                           !.tlsWarn = <<o.warn * Second>>])

otherLevels(w) ==
    LET o == w.o
        v == w.bad["v"]
    IN  CASE w.kind = "meta" ->
                 CheckJetstreamMeta(w.step, [leader |-> TRUE, peers |-> <<peer(w.bad)>>],
                     [expect |-> 2, lag |-> o.lag, seen |-> o.seen])
          [] w.kind = "replicas" ->
                 CheckJetStreamAccount(w.step, <<>>, << <<alone>>, <<stream(w.bad)>> >>,
                     [crit |-> <<>>, warn |-> <<>>, replicas |-> TRUE, lag |-> o.lag, seen |-> o.seen])
          [] w.kind = "account" ->      \* thresholds and usage in steps of a third
                 CheckJetStreamAccount(w.step, <<[max |-> Worst, current |-> v]>>, <<>>,
                     [crit |-> <<o.crit * 30 - 1>>, warn |-> <<o.warn * 30 - 1>>, replicas |-> FALSE])
          [] w.kind = "kv" ->
                 CheckKVBucketAndKey(w.step,
                     [key |-> "put", values |-> IF o.crit < o.warn THEN falling(v) ELSE v],
                     [key |-> TRUE, crit |-> o.crit - 1, warn |-> o.warn - 1])
          [] w.kind = "age" ->
                 CheckStreamMessage(w.step, [age |-> v * Second, content |-> "a"],
                     [body |-> FALSE, content |-> "a", crit |-> o.crit, warn |-> o.warn])
          [] w.kind = "request" ->
                 CheckRequest(w.step, [data |-> "a", headers |-> <<>>, time |-> v * Second],
                     [match |-> "a", headers |-> <<>>, crit |-> o.crit, warn |-> o.warn])
          [] w.kind = "connect" ->
                 CheckConnection(w.step, [connect |-> v * Second, rtt |-> 0, request |-> 0],
                     [connectCrit |-> o.crit, connectWarn |-> o.warn, rttCrit |-> 0, rttWarn |-> 0,
                      requestCrit |-> 0, requestWarn |-> 0])
          [] w.kind = "credential" ->
                 CheckCredential(IF w.step = "" THEN "a" ELSE w.step, 100 + falling(v), 100,
                     [crit |-> o.crit, warn |-> o.warn, requiresExpiry |-> TRUE])

check(w) ==
    CASE w.kind \in {"cluster", "sources", "mirror", "messages", "subjects"} -> streamLevels(w)
      [] w.kind \in Resources \cup {"pinned"} -> consumerLevels(w)
      [] w.kind \in {"cpu", "mem", "conns", "subs", "up", "tls"} -> serverLevels(w)
      [] OTHER -> otherLevels(w)

\* What may fail in a check; a message with an invalid subject is an error the
\* caller sees, and not in the report.
Steps(kind) ==
    CASE kind \in {"cluster", "sources", "mirror", "messages", "subjects"} ->
             {"connect", "manager", "name", "load", "info", "metadata"}
      [] kind \in Resources \cup {"pinned"} ->
             {"connect", "manager", "name", "consumer", "load", "info"}
      [] kind \in {"cpu", "mem", "conns", "subs", "up", "tls"} ->
             {"connect", "timeout", "garbage", "error", "empty"}
      [] kind = "meta" -> {"connect", "request", "response", "empty", "no cluster"}
      [] kind = "replicas" -> {"connect", "manager", "info", "no manager", "streams"}
      [] kind = "account" -> {"connect", "manager", "info"}
      [] kind = "kv" -> {"connect", "jetstream", "bucket", "status"}
      [] kind = "age" -> {"connect", "manager", "no message", "load"}
      [] kind = "request" -> {"connect", "no subject", "request"}
      [] kind = "connect" ->
             {"connect", "rtt", "subscribe", "publish", "receive", "other message"}
      [] kind = "credential" -> {"missing", "directory", "unreadable", "invalid"}
OutFileSteps == {exitSteps[i] : i \in DOMAIN exitSteps}

severity(w) == GenericExit(check(w), w.step = "panic", "nagios", w.step, <<>>).exit

-----------------------------------------------------------------------------

AlarmInit == watch \in SingleCases \cup PeerCases \cup ConsumerCases

Worsen ==
    \E f \in DOMAIN watch.bad :
        /\ watch.step = "" /\ watch.bad[f] < Worst
        /\ watch' = [watch EXCEPT !.bad[f] = @ + 1]

StepFails ==
    \E step \in Steps(watch.kind) \cup OutFileSteps \cup {"panic"} :
        watch.step = "" /\ watch' = [watch EXCEPT !.step = step]

-----------------------------------------------------------------------------
(* Properties.                                                             *)

Strict == {"age", "request", "account", "replicas", "cluster", "meta"}
AllWorst(w) == \A f \in DOMAIN w.bad : w.bad[f] = Worst
Watched(w) ==       \* a critical threshold is set, and can be passed
    IF w.kind \in {"cluster", "meta", "replicas"} THEN TRUE         \* a peer is offline
    ELSE IF w.kind \in {"sources", "mirror"} THEN w.o.lag > 0 \/ w.o.seen > 0
    ELSE /\ w.o.crit > 0
         /\ w.kind \in Strict => w.o.crit < Worst
         /\ w.kind = "account" => w.o.warn > 0      \* one without the other is ignored

Thresholds(w) == IF "warn" \in DOMAIN w.o THEN {w.o.crit, w.o.warn} ELSE {}
Misread(w) ==
    LET crit == w.o.crit
        warn == w.o.warn
    IN  CASE w.kind \in {"subjects", "conns", "subs"} -> crit > 0 /\ warn = 0
          [] w.kind \in {"cpu", "mem"} -> (crit > 0 /\ warn = 0) \/ crit < warn
          [] w.kind = "up" -> crit > warn
          [] w.kind = "kv" -> warn <= crit /\ 1 \in {crit, warn}    \* a threshold of 0
          [] w.kind = "account" -> warn > 0 /\ crit > 0 /\ crit <= warn
          [] w.kind = "credential" -> \E t \in {crit, warn} : Worst <= secondsToDuration(t)
          [] OTHER -> FALSE

AlarmsAreDue ==
    /\ watch.step = "" /\ AllWorst(watch) /\ Watched(watch) => severity(watch) = 2
    /\ watch.step \notin OutFileSteps \cup {""} => severity(watch) = 2
    /\ watch.step = "" /\ (\A f \in DOMAIN watch.bad : watch.bad[f] = 0) =>
           \/ severity(watch) = 0
           \/ Worst \in Thresholds(watch)
           \/ Misread(watch)

(***************************************************************************)
(* A system that only gets worse is never reported better: no reading,     *)
(* however it combines with the others and with thresholds in any order,   *)
(* lowers the status of a check, nor does a step of the check that fails,  *)
(* unless it is one of writing the report, whose exit code, 1, then stands *)
(* for any status.  No alarm is missed: with a critical threshold the      *)
(* worst readings are CRITICAL, except that an account check needs both    *)
(* thresholds, and so is a check that could not be made, whichever of its  *)
(* steps fails or panics.  And none is raised for nothing: the best        *)
(* readings are OK, except for the options the checks misread: a critical  *)
(* threshold without a warning one, which every count reaches, thresholds  *)
(* in the wrong order, and the validity of credentials, whose seconds are  *)
(* compared with nanoseconds (checkVal, streamCheckSubjects, usage,        *)
(* streamCheckCluster, checkTLSCertExpiry, CheckCredential).               *)
(***************************************************************************)
AlarmsFollowReadings ==
    [][watch' # watch => /\ AlarmsAreDue /\ AlarmsAreDue'
                         /\ IF watch'.step \in OutFileSteps THEN severity(watch') = 1
                            ELSE severity(watch') >= severity(watch)]_watch
=============================================================================
