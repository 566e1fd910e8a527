----------------------------- MODULE AuditSource -----------------------------
(***************************************************************************)
(* The monitoring data of a cluster from its two sources: asked of the     *)
(* live servers, page by page, or read back from an audit archive.         *)
(*                                                                         *)
(* A response is [server, hasData, items]: the server that sent it, whether*)
(* it carries data and the list the endpoint is about - account details    *)
(* for JSZ, connections for CONNZ, and so on.  Options the archive cannot  *)
(* honour are refused before anything is read and are left out here.       *)
(***************************************************************************)
EXTENDS AuditArchive

NoFilter == [name |-> <<>>, host |-> <<>>, cluster |-> <<>>, domain |-> <<>>,
             tags |-> {}, exact |-> TRUE]

matchField(v, f, exact) ==
    IF exact THEN v = f ELSE \E i \in 1..(Len(v) + 1 - Len(f)) : SubSeq(v, i, i + Len(f) - 1) = f

matchesFilter(info, f) ==
    /\ f.name # <<>> => \/ matchField(info.name, f.name, f.exact)
                        \/ matchField(info.id, f.name, f.exact)
    /\ f.host # <<>> => matchField(info.host, f.host, f.exact)
    /\ f.cluster # <<>> => matchField(info.cluster, f.cluster, f.exact)
    /\ f.domain # <<>> => info.domain = f.domain
    /\ f.tags \subseteq info.tags           \* in any case of letters

-----------------------------------------------------------------------------
(* Reading the archive.                                                    *)

type(t) == Tag("artifact_type", <<t>>)

matching(responses, filter) == SelectSeq(responses, LAMBDA x : matchesFilter(x.server, filter))
withData(responses) == SelectSeq(responses, LAMBDA x : x.hasData)

items(responses) == FlattenSeq([i \in DOMAIN responses |-> responses[i].items])
firstWithAll(responses) == [responses[1] EXCEPT !.items = items(responses)]

\* The responses of each server of each cluster, in turn.
perServer(r, t, filter) ==
    LET pairs == SetToSeq(EachClusterServerArtifact(r, type(t)))
    IN  [i \in DOMAIN pairs |-> matching(pairs[i].artifacts, filter)]

\* Most endpoints give what was captured ...
Responses(r, t, filter) == FlattenSeq(perServer(r, t, filter))

Varz(r, filter) == Responses(r, "variables", filter)
Routez(r, filter) == Responses(r, "routes", filter)
Gatewayz(r, filter) == Responses(r, "gateways", filter)
Leafz(r, filter) == Responses(r, "leafs", filter)
Healthz(r, filter) == Responses(r, "health", filter)

\* ... and for two the pages of a server, known by its cluster and name, are one
\* response.
Merged(r, t, filter) ==
    LET pages == perServer(r, t, filter)
        found == SelectSeq([i \in DOMAIN pages |-> withData(pages[i])], LAMBDA p : p # <<>>)
    IN  [i \in DOMAIN found |-> firstWithAll(found[i])]

Jsz(r, filter) == Merged(r, "jetstream_info", filter)
Subsz(r, filter) == Merged(r, "subs", filter)

\* Connz: the connections of all accounts by the identity of the server, each
\* connection with its account.
inAccount(x, account) ==
    [x EXCEPT !.items = [i \in DOMAIN x.items |->
        IF x.items[i].account = <<>> THEN [x.items[i] EXCEPT !.account = account]
        ELSE x.items[i]]]
Connz(r, filter) ==
    LET accounts == SetToSeq(AccountNames(r))
        of(a) == withData(matching(ForEachTaggedArtifact(
                     r, {Tag("account", a), type("account_connections")}), filter))
        all == FlattenSeq([i \in DOMAIN accounts |->
                               [j \in DOMAIN of(accounts[i]) |-> inAccount(of(accounts[i])[j], accounts[i])]])
        servers == SetToSeq({x.server.id : x \in ToSet(all)})
    IN  [i \in DOMAIN servers |->
            firstWithAll(SelectSeq(all, LAMBDA x : x.server.id = servers[i]))]

accountzDetail(r, account, filter) ==
    matching(ForEachTaggedArtifact(r, {Tag("account", account), type("account_info")}), filter)
Accountz(r, account, filter) ==
    IF account = <<>> THEN Responses(r, "accounts", filter) ELSE accountzDetail(r, account, filter)

\* Statz joins what other endpoints say of the same server; a routes or a
\* gateways response without data is dereferenced.
byID(responses, id) == SelectSeq(responses, LAMBDA x : x.server.id = id)
StatzPanics(r, filter) ==
    \E v \in ToSet(withData(Varz(r, filter))), other \in {Routez(r, filter), Gatewayz(r, filter)} :
        LET same == byID(other, v.server.id) IN same # <<>> /\ ~ Last(same).hasData
Statz(r, filter) ==
    LET vs == withData(Varz(r, filter))
        joined(other, id) == LET same == byID(other, id)
                             IN  IF same = <<>> THEN <<>> ELSE Last(same).items
    IN  [i \in DOMAIN vs |-> [server |-> vs[i].server, stats |-> vs[i].items,
                              routes |-> joined(Routez(r, filter), vs[i].server.id),
                              gateways |-> joined(Gatewayz(r, filter), vs[i].server.id)]]

\* The archive can only narrow what was captured.
Raftz(r, account, group, filter) ==
    LET found == matching(ForEachTaggedArtifact(r, {type("account_raftz")}), filter)
        kept(g) == account \in {<<>>, g.account} /\ group \in {<<>>, g.group}
    IN  [i \in DOMAIN found |-> [found[i] EXCEPT !.items = SelectSeq(@, kept)]]

\* The name and debug level a profile is captured under.
SplitProfileName(tag) ==
    CASE tag = <<"goroutine_1">> -> [name |-> <<"goroutine">>, debug |-> 1]
      [] tag = <<"goroutine_2">> -> [name |-> <<"goroutine">>, debug |-> 2]
      [] OTHER -> [name |-> tag, debug |-> 0]

\* The profiles of a name and a debug level, with what Varz knows of the server.
Profilez(r, name, debug, filter) ==
    LET known(c, s) == SelectSeq(Varz(r, NoFilter),
                                 LAMBDA v : <<v.server.cluster, v.server.name>> = <<c, s>>)
        info(c, s) == IF known(c, s) # <<>> THEN Last(known(c, s)).server
                      ELSE [id |-> <<>>, name |-> s, cluster |-> c, host |-> <<>>,
                            domain |-> <<>>, tags |-> {}]
        cluster(f) == LET c == value(r.manifest[f], "cluster")
                      IN  IF c = noCluster THEN <<>> ELSE c
        from(f) == info(cluster(f), value(r.manifest[f], "server"))
        split(f) == SplitProfileName(value(r.manifest[f], "profile_name"))
    IN  {[server |-> from(f), profile |-> r.files[f][1]] :
            f \in {g \in intersectFileSets(r, {type("profile")}) :
                       /\ name \in {<<>>, split(g).name} /\ split(g).debug = debug
                       /\ matchesFilter(from(g), filter)}}

-----------------------------------------------------------------------------
(* The accounts and their streams.                                         *)

\* A stream seen before is not taken again.
mergeStreams(a, b) ==
    LET all == a \o b
        first(i) == \A j \in 1..(i - 1) : all[j].name # all[i].name
    IN  [k \in 1..Cardinality({i \in DOMAIN all : first(i)}) |->
            all[SetToSortSeq({i \in DOMAIN all : first(i)}, <)[k]]]

\* The merge, started from no accounts.
mergeAccounts(known, details) ==
    FoldLeft(LAMBDA m, acct :
                 set(m, acct.name, IF acct.name \in DOMAIN m
                                   THEN mergeStreams(m[acct.name], acct.streams)
                                   ELSE acct.streams),
             known, details)

\* Of an archive ...
ArchiveCollectAccounts(r) ==
    mergeAccounts(<<>>, items(withData(Jsz(r, NoFilter))))

\* ... and of live servers: a server is asked for more, by its identity, while
\* its pages are full.  The answers of a server are the pages it would give.
pagesRead(pages, pageLimit) ==
    LET short == {i \in DOMAIN pages : Len(pages[i]) # pageLimit}
    IN  IF short = {} THEN pages ELSE SubSeq(pages, 1, Min(short))
LiveCollectAccounts(answers, pageLimit) ==
    LET servers == SetToSeq(DOMAIN answers)
        first == FlattenSeq([i \in DOMAIN servers |-> SubSeq(answers[servers[i]], 1, 1)])
        more == FlattenSeq([i \in DOMAIN servers |-> Tail(pagesRead(answers[servers[i]], pageLimit))])
    IN  mergeAccounts(<<>>, FlattenSeq(first \o more))
=============================================================================
