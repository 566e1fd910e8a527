----------------------------- MODULE AuditChecks -----------------------------
(***************************************************************************)
(* The checks of package audit: what each concludes from the artifacts of  *)
(* an archive, and the collection that registers, configures and runs      *)
(* them.                                                                   *)
(*                                                                         *)
(* ar is a function from <<cluster, server>> to the artifact of that       *)
(* server a check reads: "missing", "broken" (it cannot be decoded),       *)
(* "empty" (the response has no data) or its data.  For checks of streams  *)
(* and accounts it is a function from the server of a replica.  The order  *)
(* artifacts are visited in does not matter to the operators, as it does   *)
(* not to the code.  A handler gives its outcome and how many examples it  *)
(* added.                                                                  *)
(***************************************************************************)
EXTENDS MonitorChecks, FiniteSetsExt

Missing == [state |-> "missing"]
Broken == [state |-> "broken"]
Nothing == [state |-> "empty"]
Data(d) == [state |-> "data", d |-> d]

\* The servers whose artifact has data, and their data.
given(ar) == {s \in DOMAIN ar : ar[s].state = "data"}
at(ar, s) == ar[s].d
inState(ar, states) == \E s \in DOMAIN ar : ar[s].state \in states
clusters(ar) == {s[1] : s \in DOMAIN ar}
of(ar, cluster) == {s \in given(ar) : s[1] = cluster}

-----------------------------------------------------------------------------
(* Examples: counted past the limit, stored up to it (0 for no limit).     *)

newExamplesCollection(max) == [stored |-> 0, overflow |-> 0, max |-> max]
Add(c) == IF c.max > 0 /\ c.stored >= c.max THEN [c EXCEPT !.overflow = @ + 1]
          ELSE [c EXCEPT !.stored = @ + 1]
Clear(c) == [c EXCEPT !.stored = 0, !.overflow = 0]
Count(c) == c.stored + c.overflow
added(max, n) == LET collection[i \in 0..n] ==
                        IF i = 0 THEN newExamplesCollection(max) ELSE Add(collection[i - 1])
                 IN  collection[n]

-----------------------------------------------------------------------------
(* Outcomes.                                                               *)

result(outcome, examples) == [outcome |-> outcome, examples |-> examples, err |-> FALSE]
failed == [outcome |-> "Skipped", examples |-> 0, err |-> TRUE]

\* An artifact that is missing is passed over by some checks and ends others.
handleArchiveError(ar) == inState(ar, {"broken"})
required(ar) == inState(ar, {"missing", "broken"})

\* The outcome of a check that found so many issues.
verdict(err, issues, bad) ==
    IF err THEN failed ELSE result(IF issues > 0 THEN bad ELSE "Pass", issues)
issues(ar, Bad(_)) == Cardinality({s \in given(ar) : Bad(at(ar, s))})

-----------------------------------------------------------------------------
(* Server checks.                                                          *)

checkServerHealth(ar) ==
    verdict(handleArchiveError(ar), issues(ar, LAMBDA hz : hz \notin {"ok", ""}), "PassWithIssues")

\* One example per version, cleared if there is but one.
checkServerVersion(ar) ==
    LET seenVersions == {at(ar, s) : s \in given(ar)}
    IN  IF handleArchiveError(ar) THEN failed
        ELSE CASE seenVersions = {} -> result("Skipped", 0)
               [] Cardinality(seenVersions) > 1 -> result("Fail", Cardinality(seenVersions))
               [] OTHER -> result("Pass", Count(Clear(added(0, 1))))

\* NaN is accepted as a percentage, and nothing is above it.
NaN == -1
above(v, threshold) == threshold # NaN /\ v > threshold

checkServerCPUUsage(ar, cpu) ==
    verdict(handleArchiveError(ar),
            issues(ar, LAMBDA vz : vz.cores # 0 /\ above(vz.cpu \div vz.cores, cpu)), "Fail")

checkSlowConsumers(ar) ==
    verdict(handleArchiveError(ar), issues(ar, LAMBDA vz : vz > 0), "PassWithIssues")

\* uint64(float64(max) * (percent / 100))
share(max, percent) == (max * percent) \div 100

\* (A mutated near: what exceeds its limit is not near it.)
nearBelow(v, max, percent) == max > 0 /\ v > share(max, percent) /\ v < max

near(v, max, percent) == max > 0 /\ v > share(max, percent)

checkServerResourceLimits(ar, memory, store) ==
    verdict(handleArchiveError(ar),
            issues(ar, LAMBDA jsz : near(jsz.memory, jsz.maxMemory, memory))
              + issues(ar, LAMBDA jsz : near(jsz.store, jsz.maxStore, store)), "PassWithIssues")

checkJetStreamDomainsForWhitespace(ar) ==
    verdict(handleArchiveError(ar), issues(ar, LAMBDA domain : domain = "a b"), "PassWithIssues")

checkServerAuthRequired(ar) ==
    verdict(handleArchiveError(ar), issues(ar, LAMBDA auth : ~ auth), "PassWithIssues")

\* The times until the certificates of a server expire.
checkTLSCertificateExpiry(ar, crit, warn) ==
    LET certs == {<<s, i>> \in given(ar) \X (1..6) : i \in DOMAIN at(ar, s)}
        until(c) == at(ar, c[1])[c[2]]
        critical == {c \in certs : until(c) <= 0 \/ (crit > 0 /\ until(c) <= crit)}
        warning == {c \in certs \ critical : warn > 0 /\ until(c) <= warn}
        examples == Cardinality(critical) + Cardinality(warning)
    IN  IF handleArchiveError(ar) THEN failed
        ELSE CASE certs = {} -> result("Skipped", 0)
               [] critical # {} -> result("Fail", examples)
               [] critical = {} /\ warning # {} -> result("PassWithIssues", examples)
               [] OTHER -> result("Pass", 0)

-----------------------------------------------------------------------------
(* Cluster, meta group and leafnode checks.                                *)

\* Those using more than the mean of their cluster times the threshold, in tenths.
checkClusterMemoryUsageOutliers(ar, threshold) ==
    LET total(c) == MapThenSumSet(LAMBDA s : at(ar, s), of(ar, c))
        outlier(s) == at(ar, s) * Cardinality(of(ar, s[1])) * 10 > total(s[1]) * threshold
    IN  verdict(required(ar), Cardinality({s \in given(ar) : outlier(s)}), "PassWithIssues")

\* Each server is compared with the one before it in the order the map is
\* iterated in; order is that of all servers.
mismatches(ar, order, Gateways(_)) ==
    Cardinality({<<i, j>> \in (DOMAIN order) \X (DOMAIN order) :
        /\ i < j /\ order[i][1] = order[j][1] /\ {order[i], order[j]} \subseteq given(ar)
        /\ \A k \in i + 1..j - 1 : order[k] \notin of(ar, order[i][1])
        /\ Gateways(at(ar, order[i])) # Gateways(at(ar, order[j]))})
checkClusterUniformGatewayConfig(ar, order) ==
    verdict(required(ar),
            mismatches(ar, order, LAMBDA g : g.inbound) + mismatches(ar, order, LAMBDA g : g.outbound),
            "Fail")

checkClusterHighHAAssets(ar, assets) ==
    verdict(required(ar), issues(ar, LAMBDA jsz : jsz > assets), "PassWithIssues")

checkClusterNamesForWhitespace(ar) ==
    verdict(FALSE, Cardinality({c \in clusters(ar) : c = "c 1"}), "Fail")

\* A response without data makes both checks of the meta group panic, if no
\* artifact before it ends them.
Panics(ar, order) ==
    \E i \in DOMAIN order : /\ ar[order[i]].state = "empty"
                            /\ \A j \in 1..i - 1 : ar[order[j]].state = "data"
metaOf(ar, c) == {s \in of(ar, c) : ~ at(ar, s).disabled /\ at(ar, s).meta # <<>>}
checkMetaClusterLeader(ar) ==
    LET leaders(c) == {at(ar, s).meta[1].leader : s \in metaOf(ar, c)}
    IN  verdict(required(ar),
                Cardinality({c \in clusters(ar) : "" \in leaders(c) \/ Cardinality(leaders(c)) > 1}),
                "Fail")
checkMetaClusterOfflineReplicas(ar) ==
    LET offline(s) == at(ar, s).meta[1].offline
        reports == UNION {metaOf(ar, c) : c \in clusters(ar)}
    IN  verdict(required(ar), MapThenSumSet(offline, reports), "Fail")

\* The names of the leafnodes of a server.
checkLeafnodeServerNamesForWhitespace(ar) ==
    LET named(c) == UNION {at(ar, s) : s \in of(ar, c)}
    IN  verdict(required(ar), Cardinality({c \in clusters(ar) : "a b" \in named(c)}), "Fail")

-----------------------------------------------------------------------------
(* Account and stream checks.  A replica whose artifact is missing, broken *)
(* or refused by a check is passed over.                                   *)

accountLimit(v, max, percent) ==
    IF max <= 0 THEN "" ELSE IF v > max THEN "exceeded"
    ELSE IF v > share(max, percent) THEN "approaching" ELSE ""
checkAccountLimits(ar, connections, subscriptions) ==
    LET claimed == {s \in given(ar) : at(ar, s).claim}
        found == {<<s, l>> \in claimed \X {"conns", "leafs", "subs"} :
                    accountLimit(at(ar, s)[l], at(ar, s).max[l],
                                 IF l = "subs" THEN subscriptions ELSE connections) # ""}
        exceeded == \E f \in found : at(ar, f[1])[f[2]] > at(ar, f[1]).max[f[2]]
    IN  IF handleArchiveError(ar) THEN failed
        ELSE result(IF exceeded THEN "Fail" ELSE IF found # {} THEN "PassWithIssues" ELSE "Pass",
                    Cardinality(found))

\* The last sequence of each replica of a stream.
checkStreamLaggingReplicas(ar, percent) ==
    LET highest == Max({at(ar, s) : s \in given(ar)} \cup {0})
    IN  verdict(FALSE, issues(ar, LAMBDA seq : seq < highest - share(highest, percent)), "Fail")

checkStreamHighCardinality(ar, subjects) ==
    verdict(FALSE, issues(ar, LAMBDA n : n > subjects), "PassWithIssues")

checkStreamLimits(ar, percents) ==
    verdict(FALSE, MapThenSumSet(
                LAMBDA l : issues(ar, LAMBDA nfo : near(nfo.used[l], nfo.max[l], percents[l])),
                {"messages", "bytes", "consumers"}), "PassWithIssues")

\* Only what the leader reports is checked, if the metadata enables it.  The
\* sequences are those of one artifact: metadata that does not parse ends it.
monitored(ar, assets(_), levels(_)) ==
    LET checked(as) == {i \in DOMAIN as :
            /\ as[i].leads /\ as[i].metadata.enabled
            /\ \A j \in 1..i : as[j].leads => ParsesMetadata(as[j].metadata)}
        in(as, level) == MapThenSumSet(
            LAMBDA i : Len(SelectSeq(levels(as[i]), LAMBDA l : l = level)), checked(as))
        count(level) == MapThenSumSet(LAMBDA s : in(assets(at(ar, s)), level), given(ar))
        examples == count("CRITICAL") + count("WARNING")
    IN  result(IF count("CRITICAL") > 0 THEN "Fail"
               ELSE IF examples > 0 THEN "PassWithIssues" ELSE "Pass", examples)
checkStreamMetadataMonitoring(ar, o) ==
    monitored(ar, LAMBDA stream : <<stream>>,
              LAMBDA a : CheckStreamInfoHealth(a.nfo, populateStreamHealthCheckOptions(a.metadata, o)))
checkConsumerMetadataMonitoring(ar, o) ==
    monitored(ar, LAMBDA consumers : consumers,
              LAMBDA a : CheckConsumerInfoHealth(a.nfo, populateConsumerHealthCheckOptions(a.metadata, o)))
-----------------------------------------------------------------------------
(* The standard checks: code, suite and the keys that can be configured.   *)

Check(code, suite, keys) == [code |-> code, suite |-> suite, keys |-> keys]

RegisterServerChecks ==
    {Check("SERVER_00" \o n, "server", {}) : n \in {"1", "2", "4", "6", "7"}}
    \cup {Check("SERVER_003", "server", {"cpu"}), Check("SERVER_005", "server", {"memory", "store"}),
          Check("SERVER_008", "server", {"tls_expire_warning", "tls_expire_critical"})}
RegisterClusterChecks ==
    {Check("CLUSTER_001", "cluster", {"memory"}), Check("CLUSTER_002", "cluster", {}),
     Check("CLUSTER_003", "cluster", {"assets"}), Check("CLUSTER_004", "cluster", {})}
RegisterMetaChecks == {Check("META_001", "meta", {}), Check("META_002", "meta", {})}
RegisterLeafnodeChecks == {Check("LEAF_001", "leaf", {})}
RegisterAccountChecks == {Check("ACCOUNTS_001", "accounts", {"connections", "subscriptions"})}
RegisterJetStreamChecks ==
    {Check("JETSTREAM_001", "jetstream", {"last_seq"}), Check("JETSTREAM_002", "jetstream", {"subjects"}),
     Check("JETSTREAM_003", "jetstream", {"messages", "bytes", "consumers"}),
     Check("JETSTREAM_004", "jetstream", {}), Check("JETSTREAM_005", "jetstream", {})}

NewDefaultCheckCollection ==
    RegisterAccountChecks \cup RegisterClusterChecks \cup RegisterLeafnodeChecks
        \cup RegisterMetaChecks \cup RegisterServerChecks \cup RegisterJetStreamChecks
Codes == {c.code : c \in NewDefaultCheckCollection}

runCheck(res, max) ==
    [outcome |-> IF res.err THEN "Skipped" ELSE res.outcome, examples |-> added(max, res.examples)]
=============================================================================
