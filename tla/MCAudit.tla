------------------------------ MODULE MCAudit ------------------------------
(***************************************************************************)
(* An audit is gathered from two servers: of one cluster, of two, with     *)
(* names that share a directory, with an account one of them lacks, or     *)
(* with an account no file can be named after.                             *)
(*                                                                         *)
(* Or what audits and monitoring conclude is looked at, by a program whose *)
(* own gathering is refused: a system that gets worse, an archive of three *)
(* servers in two clusters, the collection of checks.                      *)
(***************************************************************************)
EXTENDS AuditGather, AuditVerdicts, AuditCollection

s1 == <<"s1">>
s2 == <<"s2">>
both == {s1, s2}

Sys == <<"SYS">>
A == <<"A">>
B == <<"B">>
Bad == <<"a/b">>

Info(s, n, c) == [id |-> s, name |-> n, cluster |-> c, host |-> <<"h">>, domain |-> <<>>, tags |-> {}]
streamIn(t, c) == [name |-> <<t>>, cluster |-> c]

World(n1, c1, n2, c2, accounts1, accounts2, js) ==
    [servers |-> both,
     info |-> [s \in both |-> IF s = s1 THEN Info(s, n1, c1) ELSE Info(s, n2, c2)],
     jetstream |-> js,
     accounts |-> [s \in both |-> IF s = s1 THEN accounts1 ELSE accounts2],
     streams |-> [s \in both |-> [a \in {Sys, A, B, Bad} |->
         IF a = A THEN (IF s = s1 THEN <<streamIn("t", c1), streamIn("u", <<>>)>> ELSE <<streamIn("t", c2)>>)
         ELSE IF a = B THEN <<streamIn("t", c1)>> ELSE <<>>]],
     system |-> Sys]

MCWorlds ==
    { World(<<"n1">>, <<"c">>, <<"n2">>, <<"c">>, <<A, B>>, <<A>>, both),
      World(<<"n1">>, <<"c">>, <<"n2">>, <<"c">>, <<A>>, <<A>>, both),
      World(<<"n">>, <<"c">>, <<"n">>, <<"d">>, <<A>>, <<A, B>>, both),
      World(<<"x", "n">>, <<"c">>, <<"n">>, <<"c", "x">>, <<A>>, <<A, B>>, {s1}),
      World(<<"n">>, <<>>, <<"n">>, <<>>, <<Bad>>, <<A>>, both) }

VARZ == [suffix |-> "VARZ", type |-> "variables"]
ROUTEZ == [suffix |-> "ROUTEZ", type |-> "routes"]
SUBSZ == [suffix |-> "SUBSZ", type |-> "subs"]
connz == [type |-> "account_connections", ping |-> FALSE]
raftz == [type |-> "account_raftz", ping |-> TRUE]
Gather(section, endpoint) ==
    [job |-> "gather", include |-> {section}, waitFor |-> 0, accountEndpoints |-> <<endpoint>>,
     detailed |-> TRUE, profiles |-> << <<"heap">> >>, cpuDuration |-> 5, subszPageSize |-> 1,
     serverEndpoints |-> <<JSZ>>]
Endpoints(list) == [Gather("endpoints", connz) EXCEPT !.serverEndpoints = list]
MCConfigurations ==
    {Gather(section, connz) : section \in {"endpoints", "accounts", "streams"}} \cup
    {Endpoints(<<VARZ, ROUTEZ>>), Endpoints(<<SUBSZ>>),
     [Endpoints(<<VARZ>>) EXCEPT !.include = {"endpoints", "profiles"},
                                 !.profiles = << <<"goroutine_1">> >>, !.detailed = FALSE]} \cup
    {Gather("accounts", raftz),
     [Gather("profiles", connz) EXCEPT !.profiles = << <<"cpu">> >>, !.cpuDuration = 0]} \cup
    {[Gather("streams", connz) EXCEPT !.job = "live", !.waitFor = n] : n \in {0, 1, 2}}

MCClusterFilter == <<>>
MCBadNames == {<<>>, Bad}

MCAuditServers == {<<"c1", 1>>, <<"c1", 2>>, <<"c2", 1>>}
\* A2 is refused for its default; the items of A1 and B1 have one name.
A1 == [code |-> <<"a">>, suite |-> "a", valid |-> "yes", keys |-> {<<"b", "x">>}]
A2 == [code |-> <<"c">>, suite |-> "a", valid |-> "default", keys |-> {<<"y">>}]
B1 == [code |-> <<"a", "b">>, suite |-> "b", valid |-> "yes", keys |-> {<<"x">>}]
MCOffers == {A1, A2, B1}
MCBatches == {<<A1>>, <<B1, A2>>, <<B1, A1>>, <<A2, B1>>}
MCSkippedCodes == {A1.code}

-----------------------------------------------------------------------------
VARIABLE part       \* "gather", "alarms", "verdicts" or "collection"

MCInit ==
    /\ part \in {"gather", "alarms", "verdicts", "collection"}
    /\ Init /\ (part # "gather" => ~ Accepted(conf) /\ world = CHOOSE w \in Worlds : TRUE)
    /\ conf.serverEndpoints # <<JSZ>> => infoOf(s1).name = infoOf(s2).name
    /\ AlarmInit /\ (part # "alarms" => watch = CHOOSE w \in ConsumerCases : TRUE)
    /\ VerdictInit /\ (part # "verdicts" => audit.code = "CLUSTER_004")
    /\ CollectionInit /\ (part # "collection" => \A c \in DOMAIN handlers : handlers[c] = "Fail")
    /\ handlers[A2.code] = "Fail"

MCNext ==
    /\ UNCHANGED part
    /\ \/ Next /\ UNCHANGED <<watch, auditVars, collectionVars>>
       \/ /\ stage = "done" /\ UNCHANGED vars
          /\ \/ part = "alarms" /\ (Worsen \/ StepFails) /\ UNCHANGED <<auditVars, collectionVars>>
             \/ /\ part = "verdicts" /\ (Degrade \/ LoseArtifact)
                /\ UNCHANGED <<watch, collectionVars>>
             \/ part = "collection" /\ CollectionNext /\ UNCHANGED <<watch, auditVars>>

MCSpec == MCInit /\ [][MCNext]_<<vars, watch, auditVars, collectionVars, part>> /\ Fairness
=============================================================================
