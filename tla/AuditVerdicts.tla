---------------------------- MODULE AuditVerdicts ----------------------------
(***************************************************************************)
(* What the audit checks conclude as the archive they read changes: a      *)
(* server reports worse readings, or its artifact is lost, cannot be read  *)
(* or has no data.  audit is the check, its threshold and the artifact of  *)
(* each server; bad is how bad the reading of each server is.              *)
(***************************************************************************)
EXTENDS AuditChecks, MonitorAlarms

CONSTANTS
    AuditServers,   \* pairs of a cluster and a server
    MaxExamples     \* the limit on stored examples, 0 for none

VARIABLES audit, bad

auditVars == <<audit, bad>>

Healthy == [s \in AuditServers |-> 0]
limits == [conns |-> Worst - 1, leafs |-> 0, subs |-> 0]

\* The reading of a server in the terms of the check.
Reading(code, b) ==
    CASE code = "SERVER_001" -> IF b = 0 THEN "ok" ELSE IF b = 1 THEN "" ELSE "error"
      [] code = "SERVER_003" -> [cpu |-> 2 * b, cores |-> 2]
      [] code = "SERVER_005" -> [memory |-> b, maxMemory |-> Worst, store |-> b, maxStore |-> 0]
      [] code \in {"SERVER_006", "LEAF_001"} -> IF b = Worst THEN "a b" ELSE "a"
      [] code = "SERVER_007" -> b < Worst
      [] code = "SERVER_008" -> <<Worst, falling(b)>>
      [] code = "CLUSTER_002" -> [inbound |-> 1..b, outbound |-> {}]
      [] code = "META_001" -> [disabled |-> FALSE, meta |-> <<[leader |-> "a", offline |-> b]>>]
      [] code = "META_002" ->
             [disabled |-> FALSE, meta |-> <<[leader |-> IF b = 0 THEN "a" ELSE "b", offline |-> 0]>>]
      [] code = "ACCOUNTS_001" ->
             [claim |-> TRUE, conns |-> b, leafs |-> b, subs |-> b, max |-> limits]
      [] code = "JETSTREAM_003" ->
             [used |-> [l \in {"messages", "bytes", "consumers"} |-> b],
              max |-> [messages |-> Worst, bytes |-> 0, consumers |-> 0]]
      [] code = "JETSTREAM_004" ->
             [leads |-> TRUE, nfo |-> [alone EXCEPT !.msgs = falling(b)],
              metadata |-> [enabled |-> TRUE, invalid |-> {}, set |-> [msgsCrit |-> 1, msgsWarn |-> 2]]]
      [] code = "JETSTREAM_005" ->
             <<[leads |-> TRUE,
                nfo |-> [ackPending |-> b, waiting |-> 0, pending |-> 0, redelivered |-> 0,
                         lastDelivery |-> <<>>, lastAck |-> <<>>],
                metadata |-> [enabled |-> TRUE, set |-> [ackPending |-> 1],
                              invalid |-> IF b = Worst THEN {"waiting"} ELSE {}]]>>
      [] OTHER -> b         \* a number: version, slow consumers, memory, assets, sequence, subjects

handler(code, t, ar, order) ==
    CASE code = "SERVER_001" -> checkServerHealth(ar)
      [] code = "SERVER_002" -> checkServerVersion(ar)
      [] code = "SERVER_003" -> checkServerCPUUsage(ar, t)
      [] code = "SERVER_004" -> checkSlowConsumers(ar)
      [] code = "SERVER_005" -> checkServerResourceLimits(ar, t * 30, t)
      [] code = "SERVER_006" -> checkJetStreamDomainsForWhitespace(ar)
      [] code = "SERVER_007" -> checkServerAuthRequired(ar)
      [] code = "SERVER_008" -> checkTLSCertificateExpiry(ar, t, t + 1)
      [] code = "CLUSTER_001" -> checkClusterMemoryUsageOutliers(ar, 10 + t)
      [] code = "CLUSTER_002" -> checkClusterUniformGatewayConfig(ar, order)
      [] code = "CLUSTER_003" -> checkClusterHighHAAssets(ar, t)
      [] code = "CLUSTER_004" -> checkClusterNamesForWhitespace(ar)
      [] code = "META_001" -> checkMetaClusterOfflineReplicas(ar)
      [] code = "META_002" -> checkMetaClusterLeader(ar)
      [] code = "LEAF_001" -> checkLeafnodeServerNamesForWhitespace(
                 [s \in DOMAIN ar |-> IF ar[s].state = "data" THEN Data({ar[s].d}) ELSE ar[s]])
      [] code = "ACCOUNTS_001" -> checkAccountLimits(ar, t * 30, t)
      [] code = "JETSTREAM_001" -> checkStreamLaggingReplicas(ar, t * 30)
      [] code = "JETSTREAM_002" -> checkStreamHighCardinality(ar, t)
      [] code = "JETSTREAM_003" ->
             checkStreamLimits(ar, [l \in {"messages", "bytes", "consumers"} |-> t * 30])
      [] code = "JETSTREAM_004" -> checkStreamMetadataMonitoring(ar, Unset)
      [] code = "JETSTREAM_005" ->
             checkConsumerMetadataMonitoring(ar, [f \in Resources \cup {"pinned"} |->
                                                      IF f = "pinned" THEN FALSE ELSE 0])

Orders == {o \in [1..Cardinality(AuditServers) -> AuditServers] :
               \A s \in AuditServers : \E i \in DOMAIN o : o[i] = s}
anOrder == CHOOSE o \in Orders : TRUE
configured == {c.code : c \in {d \in NewDefaultCheckCollection : d.keys # {}}}

verdictOf(a, order) ==
    IF a.code \in {"META_001", "META_002"} /\ Panics(a.ar, order) THEN "Panic"
    ELSE runCheck(handler(a.code, a.t, a.ar, order), MaxExamples).outcome

-----------------------------------------------------------------------------

VerdictInit ==
    /\ \E code \in Codes, t \in NaN..Worst - 1 :
           /\ code \in configured \/ t = 0
           /\ t = NaN => code = "SERVER_003"
           /\ audit = [code |-> code, t |-> t, ar |-> [s \in AuditServers |-> Data(Reading(code, 0))]]
    /\ bad = Healthy

Degrade ==
    \E s \in given(audit.ar) :
        /\ bad[s] < Worst
        /\ bad' = [bad EXCEPT ![s] = @ + 1]
        /\ audit' = [audit EXCEPT !.ar[s] = Data(Reading(audit.code, bad[s] + 1))]

LoseArtifact ==
    \E s \in given(audit.ar), lost \in {Missing, Broken, Nothing} :
        /\ audit' = [audit EXCEPT !.ar[s] = lost]
        /\ bad' = [bad EXCEPT ![s] = 0]

-----------------------------------------------------------------------------
(* Properties.                                                             *)

rank(v) == CASE v = "Pass" -> 0 [] v = "PassWithIssues" -> 1 [] v = "Fail" -> 2
Ranked == {"Pass", "PassWithIssues", "Fail"}

Relative == {"SERVER_002", "CLUSTER_001", "CLUSTER_002", "META_002", "JETSTREAM_001"}
Agreement == {"CLUSTER_002", "META_002"}
agree(a) == \A s, u \in given(a.ar) : s[1] = u[1] => at(a.ar, s) = at(a.ar, u)

\* A consumer whose metadata does not parse is no longer checked.
Unparsed(a) == a.code = "JETSTREAM_005"
                 /\ \E s \in given(a.ar) : at(a.ar, s)[1].metadata.invalid # {}

VerdictStep ==
    LET v == verdictOf(audit, anOrder)
        w == verdictOf(audit', anOrder)
        lost == given(audit'.ar) # given(audit.ar)
    IN  /\ ~ lost /\ {v, w} \subseteq Ranked /\ audit.code \notin Relative =>
               rank(v) <= rank(w) \/ Unparsed(audit')
        /\ lost /\ {v, w} \subseteq Ranked =>
               rank(w) <= rank(v) \/ (audit.code = "CLUSTER_001" /\ inState(audit'.ar, {"empty"}))
        /\ w \in Ranked /\ audit.code \in Agreement => (w = "Pass" <=> agree(audit'))
        /\ audit.code \in Agreement \cup {"META_001"} =>
               \A o \in Orders : verdictOf(audit', o) \in {w, "Panic", "Skipped"}
        /\ (\A s \in AuditServers : bad'[s] = Worst) /\ audit.code \notin Relative \cup {"CLUSTER_004"} =>
               w \in {"PassWithIssues", "Fail"} \/ audit.t = NaN \/ Unparsed(audit')
        /\ w = "Panic" => inState(audit'.ar, {"empty"})

(***************************************************************************)
(* Verdicts follow the archive.  A server that gets worse never improves   *)
(* the verdict of a check on servers one by one, unless its metadata stops *)
(* parsing, and no check passes where every server is at its worst, unless *)
(* its threshold was set to NaN; lost artifacts never invent an issue, the *)
(* one exception being the average a response without data leaves; servers *)
(* that are to agree pass exactly if they do; and the order in which Go    *)
(* iterates its maps decides nothing but whether a meta check panics on a  *)
(* response without data or is skipped before (the handlers, runCheck).    *)
(***************************************************************************)
VerdictsFollowArchive == [][audit' # audit => VerdictStep]_auditVars
=============================================================================
