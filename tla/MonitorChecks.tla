--------------------------- MODULE MonitorChecks ---------------------------
(***************************************************************************)
(* The monitoring checks of package monitor.  A check looks at what a      *)
(* server reported and at the thresholds it was configured with and adds   *)
(* critical, warning and ok messages to a Result, whose status is that of  *)
(* its worst message.                                                      *)
(*                                                                         *)
(* What a check adds is the sequence of the levels of its messages; texts  *)
(* and performance data are left out.  Durations are in the unit of        *)
(* time.Duration, of which a second has Second.                            *)
(***************************************************************************)
EXTENDS Integers, Sequences, FiniteSets, SequencesExt

CONSTANT Second         \* time.Second

ASSUME SecondAssumption == Second \in Nat \ {0}

-----------------------------------------------------------------------------
(* The result.                                                             *)

Critical == <<"CRITICAL">>
Warn == <<"WARNING">>
Okay == <<"OK">>
includes(levels, level) == \E i \in DOMAIN levels : levels[i] = level

CriticalIfErr(err) == IF err THEN Critical ELSE <<>>
OkIfNoWarningsOrCriticals(levels) ==
    IF includes(levels, "CRITICAL") \/ includes(levels, "WARNING") THEN levels ELSE levels \o Okay

prepare(levels) ==
    IF includes(levels, "CRITICAL") THEN "CRITICAL"
    ELSE IF includes(levels, "WARNING") THEN "WARNING" ELSE "OK"

nagiosCode(status) ==
    CASE status = "OK" -> 0 [] status = "WARNING" -> 1 [] status = "CRITICAL" -> 2 [] OTHER -> 3
exitCode(status, format) == IF format = "prometheus" THEN 0 ELSE nagiosCode(status)

secondsToDuration(seconds) == seconds * Second

\* A value against thresholds it should stay below, or above.
AtLeast(v, crit, warn) == IF v >= crit THEN Critical ELSE IF v >= warn THEN Warn ELSE Okay
AtMost(v, crit, warn) == IF v <= crit THEN Critical ELSE IF v <= warn THEN Warn ELSE Okay

-----------------------------------------------------------------------------
(* Streams: nfo is the information the server has, o the options.          *)

streamCheckCluster(nfo, o) ==
    LET clustered == nfo.clustered /\ nfo.configured > 1
        count(P(_)) == Cardinality({i \in DOMAIN nfo.peers : P(nfo.peers[i])})
        lagged == count(LAMBDA p : o.peerLag > 0 /\ p.lag > o.peerLag)
        inactive == count(LAMBDA p : o.peerSeen > 0 /\ p.active > secondsToDuration(o.peerSeen))
        offline == count(LAMBDA p : p.offline)
    IN  IF ~ clustered THEN CriticalIfErr(o.peers > 0)
        ELSE IF ~ nfo.leader \/ Len(nfo.peers) + 1 # o.peers THEN Critical
        ELSE Okay \o CriticalIfErr(offline > 0)
                  \o (IF o.peerLag <= 0 THEN <<>> ELSE IF lagged > 0 THEN Critical ELSE Okay)
                  \o (IF o.peerSeen <= 0 THEN <<>> ELSE IF inactive > 0 THEN Critical ELSE Okay)

streamCheckMessages(nfo, o) ==
    IF o.msgsCrit <= 0 /\ o.msgsWarn <= 0 THEN <<>>
    ELSE IF o.msgsCrit > 0 /\ nfo.msgs <= o.msgsCrit THEN Critical
    ELSE IF o.msgsWarn > 0 /\ nfo.msgs <= o.msgsWarn THEN Warn ELSE Okay

streamCheckSubjects(nfo, o) ==
    IF o.subjectsWarn <= 0 /\ o.subjectsCrit <= 0 THEN <<>>
    ELSE IF o.subjectsWarn < o.subjectsCrit
         THEN AtLeast(nfo.subjects, o.subjectsCrit, o.subjectsWarn)
         ELSE AtMost(nfo.subjects, o.subjectsCrit, o.subjectsWarn)

lagging(s, o) == o.lag > 0 /\ s.lag >= o.lag
unseen(s, o) == o.seen > 0 /\ s.active >= secondsToDuration(o.seen)

streamCheckSources(nfo, o) ==
    LET count == Len(nfo.sources)
        some(P(_)) == \E i \in 1..count : P(nfo.sources[i])
        number == IF \/ o.minSources > 0 /\ count < o.minSources
                     \/ o.maxSources > 0 /\ count > o.maxSources THEN Critical ELSE Okay
    IN  IF o.lag <= 0 /\ o.seen <= 0 THEN number
        ELSE number \o (IF some(LAMBDA s : lagging(s, o)) THEN Critical ELSE Okay)
                    \o (IF some(LAMBDA s : unseen(s, o)) THEN Critical ELSE Okay)

\* The same thresholds ask for a mirror where there are no sources.
streamCheckMirror(nfo, o) ==
    IF (o.lag <= 0 /\ o.seen <= 0) \/ nfo.sources # <<>> THEN <<>>
    ELSE IF nfo.mirror = <<>> THEN Critical             \* not mirrored, or no state
    ELSE LET s == nfo.mirror[1]
         IN  IF lagging(s, o) \/ unseen(s, o)
             THEN CriticalIfErr(lagging(s, o)) \o CriticalIfErr(unseen(s, o)) ELSE Okay

CheckStreamInfoHealth(nfo, o) ==
    streamCheckCluster(nfo, o) \o streamCheckMessages(nfo, o) \o streamCheckSubjects(nfo, o)
        \o streamCheckSources(nfo, o) \o streamCheckMirror(nfo, o)

\* The options the metadata of the asset sets replace those of the caller;
\* one value that does not parse refuses all.
ParsesMetadata(metadata) == metadata.invalid = {}
populate(metadata, o) ==
    [k \in DOMAIN o |-> IF k \in DOMAIN metadata.set THEN metadata.set[k] ELSE o[k]]
populateStreamHealthCheckOptions(metadata, o) == populate(metadata, o)
populateConsumerHealthCheckOptions(metadata, o) == populate(metadata, o)

\* step is the first step to fail, "" if none does.
CheckStreamHealthWithConnection(step, metadata, nfo, o) ==
    IF step \in {"name", "load", "info"} \/ ~ ParsesMetadata(metadata) THEN Critical
    ELSE CheckStreamInfoHealth(nfo, populateStreamHealthCheckOptions(metadata, o))
CheckStreamHealth(step, metadata, nfo, o) ==
    IF step \in {"connect", "manager"} THEN Critical
    ELSE CheckStreamHealthWithConnection(step, metadata, nfo, o)

-----------------------------------------------------------------------------
(* Consumers.                                                              *)

reaches(v, crit) == IF crit <= 0 THEN <<>> ELSE IF v >= crit THEN Critical ELSE Okay

consumerCheckOutstandingAck(nfo, o) == reaches(nfo.ackPending, o.ackPending)
consumerCheckWaiting(nfo, o) == reaches(nfo.waiting, o.waiting)
consumerCheckUnprocessed(nfo, o) == reaches(nfo.pending, o.pending)
consumerCheckRedelivery(nfo, o) == reaches(nfo.redelivered, o.redelivered)

\* The time since the last delivery or acknowledgement; <<>> if there was none.
agedBy(last, crit) ==
    IF crit <= 0 THEN <<>>
    ELSE IF last = <<>> \/ last[1] >= secondsToDuration(crit) THEN Critical ELSE Okay
consumerCheckLastDelivery(nfo, o) == agedBy(nfo.lastDelivery, o.lastDelivery)
consumerCheckLastAck(nfo, o) == agedBy(nfo.lastAck, o.lastAck)

\* groups: the configured groups, states: whether each known group is pinned.
consumerCheckPinned(nfo, o) ==
    LET pinned == Cardinality({i \in DOMAIN nfo.states : nfo.states[i]})
    IN  IF ~ o.pinned THEN <<>>
        ELSE IF nfo.states = <<>> \/ nfo.groups = 0 \/ nfo.policy # "pinned_client"
                \/ pinned # nfo.groups
        THEN Critical ELSE Okay

CheckConsumerInfoHealth(nfo, o) ==
    consumerCheckOutstandingAck(nfo, o) \o consumerCheckWaiting(nfo, o)
        \o consumerCheckUnprocessed(nfo, o) \o consumerCheckRedelivery(nfo, o)
        \o consumerCheckLastDelivery(nfo, o) \o consumerCheckLastAck(nfo, o)
        \o consumerCheckPinned(nfo, o)

\* Here the metadata of the consumer is not looked at.
CheckConsumerHealthWithConnection(step, nfo, o) ==
    IF step \in {"name", "consumer", "load", "info"} THEN Critical
    ELSE CheckConsumerInfoHealth(nfo, o)
CheckConsumerHealth(step, nfo, o) ==
    IF step \in {"connect", "manager"} THEN Critical
    ELSE CheckConsumerHealthWithConnection(step, nfo, o)
-----------------------------------------------------------------------------
(* Servers.  vz is what the server reports; vz.tls the time until each of  *)
(* its certificates expires.                                               *)

checkVal(crit, warn, v, reverse) ==
    IF crit = 0 /\ warn = 0 THEN <<>>
    ELSE IF crit >= warn THEN AtLeast(v, crit, warn)
    ELSE IF reverse THEN AtMost(v, crit, warn) ELSE Critical        \* invalid thresholds

\* (A mutated checkTLSCertExpiry: a certificate that expired does not expire soon.)
checkTLSCertExpirySoon(until, crit, warn) ==
    LET left == (until \div Second) * Second
    IN  IF left > 0 /\ crit > 0 /\ left <= crit THEN Critical
        ELSE IF left > 0 /\ warn > 0 /\ left <= warn THEN Warn ELSE Okay

checkTLSCertExpiry(until, crit, warn) ==
    LET left == (until \div Second) * Second            \* Truncate(time.Second)
    IN  IF left <= 0 \/ (crit > 0 /\ left <= crit) THEN Critical
        ELSE IF warn > 0 /\ left <= warn THEN Warn ELSE Okay

Invalid == -1
hasTLSCertNotAfter(vz) == vz.tls # <<>>

\* <<>> is a threshold that is not given, <<Invalid>> one that does not parse.
\* The result, and whether it ends here.
tlsExpiry(vz, crit, warn) ==
    IF crit = <<>> /\ warn = <<>> THEN [levels |-> <<>>, ends |-> FALSE]
    ELSE IF crit = <<>> \/ warn = <<>> \/ Invalid \in {crit[1], warn[1]}
    THEN [levels |-> Critical, ends |-> TRUE]
    ELSE IF crit[1] = 0 /\ warn[1] = 0 THEN [levels |-> <<>>, ends |-> FALSE]
    ELSE IF ~ hasTLSCertNotAfter(vz) THEN [levels |-> Critical, ends |-> TRUE]
    ELSE [levels |-> FlattenSeq([i \in DOMAIN vz.tls |->
                                     checkTLSCertExpiry(vz.tls[i], crit[1], warn[1])]),
          ends |-> FALSE]

demand(wanted, met) == IF ~ wanted THEN <<>> ELSE IF met THEN Okay ELSE Critical

CheckServerWithConnection(step, vz, o) ==
    LET demands == demand(o.jetstream, vz.jetstream) \o demand(o.tls, vz.tlsRequired)
                       \o demand(o.auth, vz.auth)
        tls == tlsExpiry(vz, o.tlsCrit, o.tlsWarn)
        upBad == o.upCrit > o.upWarn
        up == IF o.upWarn <= 0 /\ o.upCrit <= 0 THEN <<>>
              ELSE AtMost(vz.up, secondsToDuration(o.upCrit), secondsToDuration(o.upWarn))
    IN  IF step \in {"varz", "empty", "wrong server"} THEN Critical
        ELSE IF tls.ends THEN demands \o tls.levels
        ELSE IF (o.upWarn > 0 \/ o.upCrit > 0) /\ upBad THEN demands \o tls.levels \o Critical
        ELSE demands \o tls.levels \o up
                 \o checkVal(o.cpuCrit, o.cpuWarn, vz.cpu, FALSE)
                 \o checkVal(o.memCrit, o.memWarn, vz.mem, FALSE)
                 \o checkVal(o.connCrit, o.connWarn, vz.conns, TRUE)
                 \o checkVal(o.subsCrit, o.subsWarn, vz.subs, TRUE)
CheckServer(step, vz, o) ==
    IF step = "connect" THEN Critical ELSE CheckServerWithConnection(step, vz, o)

\* The request for the report of a server: which step of it failed.
fetchVarz(given, answer) ==
    IF ~ given \/ answer \in {"timeout", "garbage", "error", "empty"} THEN "varz" ELSE ""

-----------------------------------------------------------------------------
(* The meta group.                                                         *)

CheckJetstreamMetaWithConnection(step, meta, o) ==
    LET some(P(_)) == CriticalIfErr(\E i \in DOMAIN meta.peers : P(meta.peers[i]))
        levels == CriticalIfErr(o.expect > 0 /\ Len(meta.peers) + 1 # o.expect)
                    \o some(LAMBDA p : ~ p.current)
                    \o some(LAMBDA p : o.seen > 0 /\ p.active > secondsToDuration(o.seen))
                    \o some(LAMBDA p : p.offline)
                    \o some(LAMBDA p : o.lag > 0 /\ p.lag > o.lag)
    IN  IF step \in {"request", "response", "empty", "no cluster"} \/ ~ meta.leader
        THEN Critical ELSE OkIfNoWarningsOrCriticals(levels)
CheckJetstreamMeta(step, meta, o) ==
    IF step = "connect" THEN Critical ELSE CheckJetstreamMetaWithConnection(step, meta, o)

-----------------------------------------------------------------------------
(* The account.                                                            *)

\* -1 is a threshold that is not set: only both together are looked at.
usage(crit, warn, max, current) ==
    LET pct == IF max > 0 THEN (current * 100) \div max ELSE 0
    IN  IF (warn # -1 /\ crit # -1 /\ warn >= crit) \/ pct > 100 THEN Critical
        ELSE IF warn < 0 \/ crit < 0 \/ pct <= warn THEN <<>>
        ELSE IF pct > crit THEN Critical ELSE Warn

checkJSAccountInfo(info, o) ==
    FlattenSeq([i \in DOMAIN info |-> usage(o.crit[i], o.warn[i], info[i].max, info[i].current)])

\* infos: <<>> for a stream whose information could not be loaded.
healthyReplica(r, o) ==
    /\ ~ r.offline
    /\ o.seen > 0 => r.active <= secondsToDuration(o.seen)
    /\ o.lag > 0 => r.lag <= o.lag
checkStreamClusterHealth(infos, o) ==
    CriticalIfErr(\E i \in DOMAIN infos :
        \/ infos[i] = <<>>
        \/ LET nfo == infos[i][1]
           IN  /\ nfo.configured # 1
               /\ \/ ~ nfo.clustered \/ ~ nfo.leader
                  \/ Len(nfo.peers) # nfo.configured - 1
                  \/ \E j \in DOMAIN nfo.peers : ~ healthyReplica(nfo.peers[j], o))

\* Without the account nothing else is looked at, and the failure is noted twice.
CheckJetStreamAccountWithConnection(step, info, infos, o) ==
    IF step = "info" THEN Critical \o Critical
    ELSE checkJSAccountInfo(info, o) \o
         (IF ~ o.replicas THEN <<>>
          ELSE IF step \in {"no manager", "streams"} THEN Critical
          ELSE checkStreamClusterHealth(infos, o))
CheckJetStreamAccount(step, info, infos, o) ==
    IF step \in {"connect", "manager"} THEN Critical
    ELSE CheckJetStreamAccountWithConnection(step, info, infos, o)

-----------------------------------------------------------------------------
(* Buckets, messages, requests, connections and credentials.               *)

\* -1 disables a threshold.  A lone warning threshold is one not to fall to.
checkValues(values, crit, warn) ==
    IF crit <= -1 /\ warn <= -1 THEN <<>>
    ELSE IF crit < warn
    THEN IF crit > -1 /\ values <= crit THEN Critical
         ELSE IF warn > -1 /\ values <= warn THEN Warn ELSE Okay
    ELSE IF crit > -1 /\ values >= crit THEN Critical
         ELSE IF warn > -1 /\ values >= warn THEN Warn ELSE Okay

CheckKVBucketAndKeyWithConnection(step, kv, o) ==
    IF step \in {"jetstream", "bucket"} THEN Critical
    ELSE IF step = "status" THEN Okay \o Critical
    ELSE Okay \o demand(o.key, kv.key = "put") \o checkValues(kv.values, o.crit, o.warn)
CheckKVBucketAndKey(step, kv, o) ==
    IF step = "connect" THEN Critical ELSE CheckKVBucketAndKeyWithConnection(step, kv, o)

\* Thresholds on a duration, 0 for none.
slow(v, crit, warn) ==
    IF crit > 0 /\ v > secondsToDuration(crit) THEN Critical
    ELSE IF warn > 0 /\ v > secondsToDuration(warn) THEN Warn ELSE <<>>

\* An invalid subject is the one failure reported as an error, not in the result.
CheckStreamMessageWithConnection(step, msg, o) ==
    IF step = "subject" THEN <<>>
    ELSE IF step \in {"no message", "load"} \/ (o.body /\ ~ msg.timestamp) THEN Critical
    ELSE LET aged == slow(msg.age, o.crit, o.warn)
         IN  IF o.content = "invalid" THEN aged \o Critical
             ELSE OkIfNoWarningsOrCriticals(
                      aged \o CriticalIfErr(o.content # "" /\ o.content # msg.content))
CheckStreamMessage(step, msg, o) ==
    IF step \in {"connect", "manager"} THEN Critical
    ELSE CheckStreamMessageWithConnection(step, msg, o)

CheckRequestWithConnection(step, resp, o) ==
    IF step \in {"no subject", "request"} \/ o.match = "invalid" THEN Critical
    ELSE OkIfNoWarningsOrCriticals(
             CriticalIfErr(o.match # "" /\ o.match # resp.data)
                 \o CriticalIfErr(\E k \in DOMAIN o.headers : o.headers[k] # resp.headers[k])
                 \o slow(resp.time, o.crit, o.warn))
CheckRequest(step, resp, o) ==
    IF step = "connect" THEN Critical ELSE CheckRequestWithConnection(step, resp, o)

took(v, crit, warn) ==
    IF crit # 0 /\ v >= secondsToDuration(crit) THEN Critical
    ELSE IF warn # 0 /\ v >= secondsToDuration(warn) THEN Warn ELSE Okay
CheckConnection(step, c, o) ==
    LET connected == took(c.connect, o.connectCrit, o.connectWarn)
        rtt == took(c.rtt, o.rttCrit, o.rttWarn)
    IN  CASE step = "connect" -> Critical
          [] step = "rtt" -> connected \o Critical
          [] step \in {"subscribe", "publish", "receive"} -> connected \o rtt \o Critical
          [] OTHER -> connected \o rtt \o CriticalIfErr(step = "other message")
                          \o took(c.request, o.requestCrit, o.requestWarn)

\* A credential expires at a time in seconds, 0 for never; the thresholds are
\* converted to nanoseconds and compared with the seconds that are left.
fileAccessible(file) == file \notin {"missing", "directory", "unreadable"}
CheckCredential(file, expires, now, o) ==
    LET until == expires - now
        crit == secondsToDuration(o.crit)
        warn == secondsToDuration(o.warn)
    IN  IF ~ fileAccessible(file) \/ file = "invalid" THEN Critical
        ELSE IF expires = 0 /\ o.requiresExpiry THEN Critical
        ELSE IF o.crit > 0 /\ until <= crit THEN Critical
        ELSE IF o.warn > 0 /\ until <= warn THEN Warn ELSE Okay

-----------------------------------------------------------------------------
(* GenericExit: the report goes to a temporary file that replaces OutFile; *)
(* a failing step removes it and exits with 1.  file is <<>> or <<report>>.*)

exitSteps == <<"create", "write", "close", "chmod", "rename">>
GenericExit(levels, panicked, format, failing, file) ==
    LET status == prepare(levels \o CriticalIfErr(panicked))
    IN  IF \E i \in DOMAIN exitSteps : exitSteps[i] = failing
        THEN [file |-> file, exit |-> 1]
        ELSE [file |-> <<status>>, exit |-> exitCode(status, format)]
=============================================================================
