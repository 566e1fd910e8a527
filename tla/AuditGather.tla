----------------------------- MODULE AuditGather -----------------------------
(***************************************************************************)
(* Gathering an audit archive: the servers are discovered, then their      *)
(* accounts, and the sections that were asked for are captured one request *)
(* after the other.  Whatever happens the log is added and the archive is  *)
(* closed.                                                                 *)
(*                                                                         *)
(* A world is a cluster as its servers would describe it; it does not      *)
(* change while it is gathered.  Names are sequences of words.             *)
(***************************************************************************)
EXTENDS AuditSource, ServerRequest

CONSTANTS
    Worlds,             \* what there may be to gather: see WorldAssumption
    Configurations,     \* see configuration
    ClusterFilter,      \* a cluster, or no filter
    PageLimit,
    MaxFaults           \* bad answers, duplicates and failing writes

ASSUME WorldAssumption ==
    \A w \in Worlds : /\ DOMAIN w.info = w.servers /\ DOMAIN w.accounts = w.servers
                      /\ IsFiniteSet(w.servers) /\ w.jetstream \subseteq w.servers
                      /\ \A s \in w.servers :
                             /\ w.info[s].name \in Seq(ToSet(w.info[s].name))
                             /\ \A a \in ToSet(w.accounts[s]) :
                                    w.streams[s][a] \in Seq(ToSet(w.streams[s][a]))

\* Gather these sections or ask the live servers once.  A server endpoint is
\* [suffix, type]; an account endpoint [type, ping] is asked of all servers or of those of the account; without
\* details no options are sent and so no pages asked for.  The types of artifacts are those of the
\* archive's tags, of which each kind of request has its own.  No profile is named twice: Gather drops
\* the names it has had before.
ASSUME ConfigurationAssumption == \A c \in Configurations :
    /\ c.job \in {"gather", "live"} /\ c.waitFor \in Int /\ c.detailed \in BOOLEAN
    /\ c.include \subseteq {"endpoints", "profiles", "accounts", "streams"}
    /\ c.serverEndpoints \in Seq(ToSet(c.serverEndpoints)) /\ c.profiles \in Seq(ToSet(c.profiles))
    /\ IsInjective(c.profiles)
    /\ c.accountEndpoints \in Seq(ToSet(c.accountEndpoints))
    /\ \A i \in DOMAIN c.accountEndpoints : c.accountEndpoints[i].ping \in BOOLEAN
    /\ \A e \in ToSet(c.serverEndpoints), d \in ToSet(c.accountEndpoints) : e.type # d.type
    /\ \A e \in ToSet(c.serverEndpoints) \cup ToSet(c.accountEndpoints) :
           e.type \notin {"profile", "stream_info"}
    /\ c.cpuDuration \in Int /\ c.subszPageSize \in Int

ServerProfiles == {<<p>> : p \in {"goroutine_1", "goroutine_2", "heap", "allocs", "mutex",
                                  "threadcreate", "block", "cpu"}}
MaxCPUDuration == 15        \* seconds

\* What Gather takes.
Accepted(c) ==
    /\ "profiles" \in c.include =>
           /\ ToSet(c.profiles) \subseteq ServerProfiles
           /\ <<"cpu">> \in ToSet(c.profiles) => c.cpuDuration \in 1..MaxCPUDuration
    /\ "endpoints" \in c.include /\ c.detailed
       /\ (\E e \in ToSet(c.serverEndpoints) : e.suffix = "SUBSZ") => c.subszPageSize > 0

VARIABLES
    world, conf,
    stage,          \* what is being captured
    known,          \* serverInfoMap: the servers that were discovered
    counts,         \* accountIdsToServersCountMap
    systemAccount,
    todo,           \* servers or accounts left in this stage
    cur,            \* the one being asked: [of, left, offset]
    got,            \* responses the callback kept, not yet stored
    aw,             \* the archive writer
    outcome,        \* what Gather returns, "" while it runs
    captured,       \* history: the artifacts added, in order
    faults,         \* history: faults so far
    expired,        \* history: whether a request that waited for answers ran out of time
    closed          \* history: how closing the archive went, "" before

gatherVars == <<world, conf, stage, known, counts, systemAccount, todo, cur, got, aw,
                outcome, captured, faults, expired, closed>>
vars == <<requestVars, gatherVars>>

Nobody == [of |-> <<>>, left |-> <<>>, offset |-> 0]

Init ==
    /\ world \in Worlds /\ conf \in Configurations
    /\ stage = "config" /\ known = {} /\ counts = <<>> /\ systemAccount = <<>>
    /\ todo = {} /\ cur = Nobody /\ got = <<>> /\ aw = NewWriter /\ outcome = ""
    /\ captured = <<>> /\ faults = 0 /\ expired = FALSE /\ closed = ""
    /\ req = Idle /\ net = {}

infoOf(s) == world.info[s]
accountsOf(s) == ToSet(world.accounts[s])

\* The configuration is refused before a file is created.
Configure ==
    /\ stage = "config"
    /\ IF ~ Accepted(conf) THEN stage' = "done" /\ outcome' = "refused"
       ELSE stage' = (IF conf.job = "live" THEN "live" ELSE "servers") /\ UNCHANGED outcome
    /\ UNCHANGED <<requestVars, world, conf, known, counts, systemAccount, todo, cur, got, aw,
                   captured, faults, expired, closed>>

-----------------------------------------------------------------------------
(* Requests.                                                               *)

asksPerServer == stage \in {"endpoints", "profiles"}
asksPerAccount == stage \in {"accounts", "streams"}

inFilter(s) == ClusterFilter = <<>> \/ infoOf(s).cluster = ClusterFilter

\* Every endpoint of the live source is one broadcast.
liveServers == world.servers

\* Who is asked; the filter goes with every request but the first and those to
\* one server.
responders ==
    CASE stage = "live" -> liveServers
      [] stage = "servers" -> world.servers
      [] stage = "discover" -> {s \in world.servers : inFilter(s)}
      [] asksPerServer -> {cur.of}
      [] stage = "accounts" -> {s \in world.servers : inFilter(s) /\
                                    (Head(cur.left).ping \/ cur.of \in accountsOf(s))}
      [] OTHER -> {s \in world.jetstream : inFilter(s)}

waitFor ==
    CASE stage = "live" -> conf.waitFor
      [] stage = "servers" -> 0 - 1
      [] stage = "discover" -> Cardinality(known)
      [] asksPerServer -> 1
      [] OTHER -> counts[cur.of]

page(list, offset, limit) == SubSeq(list, offset + 1, Min({offset + limit, Len(list)}))
pageLimit == IF Head(cur.left).suffix = "SUBSZ" THEN conf.subszPageSize ELSE PageLimit

\* Without options a server describes no accounts and no subscriptions.
buildServerOptions(list) == IF conf.detailed THEN page(list, cur.offset, pageLimit) ELSE <<>>
details(s, accounts) == [i \in DOMAIN accounts |->
                            [name |-> accounts[i], streams |-> world.streams[s][accounts[i]]]]

\* Every server has two subscriptions.
subscriptions(s) == <<[id |-> s, n |-> 1], [id |-> s, n |-> 2]>>
endpointAnswer(s, suffix) ==
    CASE suffix = "JSZ" -> details(s, buildServerOptions(world.accounts[s]))
      [] suffix = "SUBSZ" -> buildServerOptions(subscriptions(s))
      [] OTHER -> <<[id |-> s]>>

\* The list in the answer of a server.  Without the account asked for, a server
\* answers with no account or with several, which is ignored alike.
answer(s) ==
    CASE stage = "endpoints" -> endpointAnswer(s, Head(cur.left).suffix)
      [] stage = "accounts" -> <<[id |-> s, account |-> <<>>, group |-> <<"meta">>]>>
      [] stage = "streams" -> IF cur.of \in accountsOf(s) THEN details(s, <<cur.of>>) ELSE <<>>
      [] OTHER -> <<>>

response(s, kind) == [from |-> s, kind |-> kind, copy |-> 1, server |-> infoOf(s),
                      hasData |-> kind = "ok", items |-> IF kind = "ok" THEN answer(s) ELSE <<>>]

\* All answer well, or one answers badly or twice.
Request ==
    \/ /\ Ask(waitFor, {response(s, "ok") : s \in responders})
       /\ UNCHANGED faults
    \/ /\ faults < MaxFaults
       /\ \E s \in responders, kind \in {"error", "garbage", "snappy", "503", "twice"} :
              LET others == {response(t, "ok") : t \in responders \ {s}}
              IN  Ask(waitFor, others \cup
                      (IF kind = "twice" THEN {response(s, "ok"), [response(s, "ok") EXCEPT !.copy = 2]}
                       ELSE {response(s, kind)}))
       /\ faults' = faults + 1

\* A server without JetStream is not asked about it.
skipped == stage = "endpoints" /\ Head(cur.left).suffix = "JSZ" /\ cur.of \notin world.jetstream

\* A broadcast is sent at once, the others for the server or account at hand.
SendRequest ==
    /\ stage \in {"live", "servers", "discover"} \/ (cur.left # <<>> /\ got = <<>> /\ ~ skipped)
    /\ stage = "discover" => known # {}
    /\ Request
    /\ UNCHANGED <<world, conf, stage, known, counts, systemAccount, todo, cur, got, aw, outcome,
                   captured, expired, closed>>

\* (A mutated sameResponder: the cluster alone tells responders apart.)
sameResponderCluster(m, x) == m.server.cluster = x.server.cluster

\* The callbacks.
sameResponder(m, x) ==
    IF stage = "streams" THEN m.server.name = x.server.name
    ELSE m.server.name = x.server.name /\ m.server.cluster = x.server.cluster
keeps(m) ==
    \/ asksPerServer \/ stage = "live"
    \/ /\ asksPerAccount /\ m.kind = "ok" /\ m.from \in known
       /\ \A x \in ToSet(got) : ~ sameResponder(m, x)
       /\ stage = "streams" => Len(m.items) = 1

discovers(m) == stage = "servers" /\ m.kind = "ok" /\ inFilter(m.from)
counted(m) == IF stage = "discover" /\ m.kind = "ok" /\ m.from \in known
              THEN accountsOf(m.from) \cup {world.system} ELSE {}

count(a) == IF a \in DOMAIN counts THEN counts[a] ELSE 0

Callback(m) ==
    /\ got' = IF CallsBack(m) /\ keeps(m) THEN Append(got, m) ELSE got
    /\ known' = IF CallsBack(m) /\ discovers(m) THEN known \cup {m.from} ELSE known
    /\ LET new == IF CallsBack(m) THEN counted(m) ELSE {}
       IN  /\ counts' = [a \in DOMAIN counts \cup new |-> count(a) + IF a \in new THEN 1 ELSE 0]
           /\ systemAccount' = IF new # {} THEN world.system ELSE systemAccount

Receive ==
    /\ \E m \in net : Delivers(m) /\ Callback(m)
    /\ UNCHANGED <<world, conf, stage, todo, cur, aw, outcome, captured, faults, expired, closed>>

\* Running out of time matters where answers were waited for.
TimePasses == (Tick \/ Expire) /\ UNCHANGED gatherVars
Returns ==
    /\ Return
    /\ expired' = (expired \/ (req.waitFor > 0 /\ req.errs = "" /\ req.ctr < req.waitFor)
                           \/ (stage = "servers" /\ known # {s \in world.servers : inFilter(s)}))
    /\ UNCHANGED <<world, conf, stage, known, counts, systemAccount, todo, cur, got, aw, outcome,
                   captured, faults, closed>>

-----------------------------------------------------------------------------
(* Storing, and the way through the stages.                                *)

sections == <<"endpoints", "profiles", "accounts", "streams">>
subjects(s) ==
    CASE s \in {"endpoints", "profiles"} -> known
      [] s = "accounts" -> DOMAIN counts
      [] OTHER -> DOMAIN counts \ {systemAccount}
work ==
    CASE stage = "endpoints" -> conf.serverEndpoints
      [] stage = "profiles" -> conf.profiles
      [] stage = "accounts" -> conf.accountEndpoints
      [] OTHER -> <<"JSZ">>

\* The first section from i on that was asked for, then the metadata.
enter(i) ==
    LET asked == {j \in i..Len(sections) : sections[j] \in conf.include}
    IN  IF asked = {} THEN stage' = "metadata" /\ todo' = {}
        ELSE stage' = sections[Min(asked)] /\ todo' = subjects(sections[Min(asked)])

Fail ==
    /\ outcome' = "failed" /\ stage' = "log"
    /\ todo' = {} /\ cur' = Nobody /\ got' = <<>>
    /\ UNCHANGED <<known, counts, systemAccount>>

\* The live source: an error, or a response that is not JSON, is the answer.
TakeLive ==
    /\ stage = "live" /\ req.done /\ Taken
    /\ outcome' = IF req.err # "" \/ \E x \in ToSet(got) : x.kind = "garbage" THEN "failed" ELSE "ok"
    /\ stage' = "done"
    /\ UNCHANGED <<world, conf, known, counts, systemAccount, todo, cur, got, aw, captured, faults,
                   expired, closed>>

TakeServers ==
    /\ stage = "servers" /\ req.done /\ Taken
    /\ \/ req.err # "" /\ Fail
       \/ /\ req.err = "" /\ stage' = "discover"
          /\ UNCHANGED <<known, counts, systemAccount, todo, cur, got, outcome>>
    /\ UNCHANGED <<world, conf, aw, captured, faults, expired, closed>>

\* Without servers there are no accounts to ask for.
TakeAccounts ==
    /\ stage = "discover"
    /\ req.done \/ known = {}
    /\ Taken
    /\ \/ req.err # "" /\ Fail
       \/ /\ req.err = "" /\ enter(1)
          /\ UNCHANGED <<known, counts, systemAccount, cur, got, outcome>>
    /\ UNCHANGED <<world, conf, aw, captured, faults, expired, closed>>

Choose ==
    /\ stage \in ToSet(sections) /\ cur.left = <<>>
    /\ \E x \in todo : /\ todo' = todo \ {x}
                       /\ cur' = IF work = <<>> THEN Nobody
                              ELSE [of |-> x, left |-> work, offset |-> 0]
    /\ UNCHANGED <<requestVars, world, conf, stage, known, counts, systemAccount, got, aw, outcome,
                   captured, faults, expired, closed>>

NextSection ==
    /\ stage \in ToSet(sections) /\ cur.left = <<>> /\ todo = {}
    /\ \E i \in DOMAIN sections : stage = sections[i] /\ enter(i + 1)
    /\ UNCHANGED <<requestVars, world, conf, known, counts, systemAccount, cur, got, aw, outcome,
                   captured, faults, expired, closed>>

advance == IF Len(cur.left) = 1 THEN Nobody ELSE [cur EXCEPT !.left = Tail(@), !.offset = 0]

Skip ==
    /\ cur.left # <<>> /\ got = <<>> /\ ~ req.on /\ skipped
    /\ cur' = advance
    /\ UNCHANGED <<requestVars, world, conf, stage, known, counts, systemAccount, todo, got, aw, outcome,
                   captured, faults, expired, closed>>

\* A request to one server that failed is logged and its endpoint left; one
\* for an account likewise, but for its streams it ends the gathering.
unusable == req.err # "" \/ (asksPerServer /\ (Len(got) # 1 \/ got[1].kind # "ok"))
TakeAnswers ==
    /\ asksPerServer \/ asksPerAccount
    /\ req.done /\ Taken
    /\ \/ stage = "streams" /\ req.err # "" /\ Fail
       \/ /\ stage = "streams" => req.err = ""
          /\ got' = IF unusable THEN <<>> ELSE got
          /\ cur' = IF unusable \/ got = <<>> THEN advance ELSE cur
          /\ UNCHANGED <<stage, known, counts, systemAccount, todo, outcome>>
    /\ UNCHANGED <<world, conf, aw, captured, faults, expired, closed>>

pagedEndpoints == {"CONNZ", "JSZ", "SUBSZ"}

\* (A mutated hasNextPage: a page that is just full is taken for the last.)
hasNextPageLate(x) == Head(cur.left).suffix \in pagedEndpoints /\ Len(x.items) > pageLimit

hasNextPage(x) ==
    conf.detailed /\ Head(cur.left).suffix \in pagedEndpoints /\ Len(x.items) >= pageLimit

streamsOf(x) == x.items[1].streams

\* What is filed of a response, and the responses left then.
tagsFor(x) ==
    {Tag("server", x.server.name)} \cup
    CASE stage = "endpoints" -> {TagCluster(x.server.cluster), type(Head(cur.left).type)}
      [] stage = "profiles" -> {TagCluster(x.server.cluster), type("profile"),
                                Tag("profile_name", Head(cur.left))}
      [] stage = "accounts" -> {TagCluster(x.server.cluster), type(Head(cur.left).type),
                                Tag("account", cur.of)}
      [] OTHER -> {TagCluster(streamsOf(x)[1].cluster), type("stream_info"),
                   Tag("account", cur.of), Tag("stream", streamsOf(x)[1].name)}
dataOf(x) ==
    CASE stage = "profiles" -> [debug |-> SplitProfileName(Head(cur.left)).debug, of |-> x.from]
      [] stage = "streams" -> streamsOf(x)[1]
      [] OTHER -> [server |-> x.server, hasData |-> x.hasData, items |-> x.items]
leftAfter(i) ==
    IF stage = "streams" /\ Len(streamsOf(got[i])) > 1
    THEN [got EXCEPT ![i].items[1].streams = Tail(@)]
    ELSE RemoveAt(got, i)

stored(i) ==
    /\ got' = leftAfter(i)
    /\ cur' = IF leftAfter(i) # <<>> THEN cur
              ELSE IF stage = "endpoints" /\ hasNextPage(got[i])
              THEN [cur EXCEPT !.offset = @ + pageLimit] ELSE advance
    /\ UNCHANGED <<stage, known, counts, systemAccount, todo, outcome>>

\* The write of an artifact: done, or failed with or without a torn entry.
Write(tags, data, from) ==
    /\ NamesAFile(tags)
    /\ aw' = AddRaw(aw, tags, data)
    /\ captured' = Append(captured, [tags |-> tags, data |-> data, from |-> from])
    /\ UNCHANGED faults
WriteFails(tags) ==
    /\ UNCHANGED captured
    /\ \/ ~ NamesAFile(tags) /\ UNCHANGED <<aw, faults>>
       \/ /\ NamesAFile(tags) /\ faults < MaxFaults /\ faults' = faults + 1
          /\ aw' \in {aw, AddRawTorn(aw, tags)}

\* The responses to an account are stored in any order.
Store ==
    /\ asksPerServer \/ asksPerAccount
    /\ ~ req.on
    /\ \E i \in DOMAIN got :
           IF stage = "streams" /\ streamsOf(got[i]) = <<>>
           THEN stored(i) /\ UNCHANGED <<aw, captured, faults>>
           ELSE \/ Write(tagsFor(got[i]), dataOf(got[i]), got[i].from) /\ stored(i)
                \/ WriteFails(tagsFor(got[i])) /\ Fail
    /\ UNCHANGED <<requestVars, world, conf, expired, closed>>

special(name) == TagSpecial(name)
CaptureMetadata ==
    /\ stage = "metadata"
    /\ \/ /\ Write(special("audit_gather_metadata"), "metadata", <<>>)
          /\ outcome' = "ok" /\ stage' = "log"
          /\ UNCHANGED <<known, counts, systemAccount, todo, cur, got>>
       \/ WriteFails(special("audit_gather_metadata")) /\ Fail
    /\ UNCHANGED <<requestVars, world, conf, expired, closed>>

\* The deferred end: failures are logged and change nothing of the outcome.
AddLog ==
    /\ stage = "log" /\ stage' = "close"
    /\ Write(special("audit_gather_log"), "log", <<>>) \/ WriteFails(special("audit_gather_log"))
    /\ UNCHANGED <<requestVars, world, conf, known, counts, systemAccount, todo, cur, got, outcome,
                   expired, closed>>

CloseArchive ==
    /\ stage = "close" /\ stage' = "done"
    /\ \/ aw' = Close(aw) /\ closed' = "ok" /\ UNCHANGED faults
       \/ /\ faults < MaxFaults /\ faults' = faults + 1 /\ closed' = "failed"
          /\ aw' \in {aw, AddRawTorn(aw, special("manifest")), [aw EXCEPT !.zip = <<>>]}
    /\ UNCHANGED <<requestVars, world, conf, known, counts, systemAccount, todo, cur, got, outcome,
                   captured, expired>>

Finished == stage = "done" /\ UNCHANGED vars

Next ==
    \/ Configure \/ SendRequest \/ Receive \/ TimePasses \/ Returns
    \/ TakeLive \/ TakeServers \/ TakeAccounts \/ Choose \/ NextSection \/ Skip
    \/ TakeAnswers
    \/ Store \/ CaptureMetadata \/ AddLog \/ CloseArchive
    \/ Finished

Spec == Init /\ [][Next]_vars

\* Timers fire, the subscription delivers and the caller goes on.
Fairness == WF_vars(Next)
FairSpec == Spec /\ Fairness

-----------------------------------------------------------------------------
(* Properties.                                                             *)

reader == NewReader(aw.zip)
written(tags) == {i \in DOMAIN captured : captured[i].tags = tags}
torn(tags) == \E i \in entries(aw.zip, fileFor(NewWriter, tags)) : aw.zip[i].content = <<>>
inItsDirectory(i) ==    \* the page artifact i went to
    Cardinality({j \in 1..i : dirNameFromTags(captured[j].tags) = dirNameFromTags(captured[i].tags)})

(***************************************************************************)
(* An archive that was closed opens, however the gathering ended, and a    *)
(* query by the tags of any captured artifact gives that artifact, page    *)
(* after page: directories shared by two servers mix nothing up.  Lost are *)
(* only pages past the last with four digits, and a profile replaced by    *)
(* that, whole or torn, of another server of the same name and cluster.    *)
(* Only a torn write leaves a file that is not in the manifest             *)
(* (Writer.AddRaw, pagedWriter.WriteEntry, NewReader, Reader.Load,         *)
(* ForEachTaggedArtifact).                                                 *)
(***************************************************************************)
ArchiveReadsBack ==
    closed = "ok" =>
        /\ reader.readable
        /\ faults = 0 => reader.warnings = {}
        /\ \A i \in DOMAIN captured :
               LET c == captured[i]
                   found == ForEachTaggedArtifact(reader, c.tags)
               IN  IF isNonPagedArtifact(c.tags)
                   THEN \/ Load(reader, c.tags) = <<captured[Max(written(c.tags))].data>>
                        \/ /\ torn(c.tags) /\ isProfile(c.tags)
                           /\ Cardinality(written(c.tags)) < Cardinality(world.servers)
                   ELSE inItsDirectory(i) <= MaxPage =>
                            \E j \in DOMAIN found : j <= inItsDirectory(i) /\ found[j] = c.data
        /\ \A i \in DOMAIN captured : has(captured[i].tags, "account") =>
               LET tags == captured[i].tags
               IN  /\ value(tags, "account") \in AccountNames(reader)
                   /\ has(tags, "stream") =>
                          /\ value(tags, "stream") \in AccountStreamNames(reader, value(tags, "account"))
                          /\ value(tags, "server") \in StreamServerNames(
                                 reader, value(tags, "account"), value(tags, "stream"))

Undisturbed == outcome = "ok" /\ closed = "ok" /\ faults = 0 /\ ~ expired
gathered(section) == section \in conf.include

\* The pages a live server would give, up to and with the first empty one.
JSZ == [suffix |-> "JSZ", type |-> "jetstream_info"]
livePages(s) == [i \in 1..(Len(world.accounts[s]) + 1) |->
    details(s, page(world.accounts[s], (i - 1) * PageLimit, PageLimit))]
namesOf(accounts) == [a \in DOMAIN accounts |-> {x.name : x \in ToSet(accounts[a])}]

\* The connections by server identity are that server's, each once and with
\* its account.
connectionsAgree ==
    \A x \in ToSet(Connz(reader, NoFilter)) :
        /\ \A i, j \in DOMAIN x.items : x.items[i] = x.items[j] => i = j
        /\ \A c \in ToSet(x.items) : infoOf(c.id) = x.server /\
                                        c.account \in accountsOf(c.id) \cup {world.system}

\* Asked for one server by its identity, the archive gives what that server
\* answered and nothing of one that shares its name; statistics are joined
\* server by server, and a profile comes with the server it was taken from.
only(s) == [NoFilter EXCEPT !.name = s]
readAs(suffix, s) ==
    CASE suffix = "SUBSZ" -> items(Subsz(reader, only(s)))
      [] suffix = "VARZ" -> items(Varz(reader, only(s)))
      [] suffix = "ROUTEZ" -> items(Routez(reader, only(s)))
      [] suffix = "GATEWAYZ" -> items(Gatewayz(reader, only(s)))
      [] suffix = "LEAFZ" -> items(Leafz(reader, only(s)))
      [] suffix = "HEALTHZ" -> items(Healthz(reader, only(s)))
      [] suffix = "ACCOUNTZ" -> items(Accountz(reader, <<>>, only(s)))
      [] OTHER -> items(Jsz(reader, only(s)))
answered(suffix, s) ==
    CASE suffix = "JSZ" -> IF s \in world.jetstream THEN details(s, world.accounts[s]) ELSE <<>>
      [] suffix = "SUBSZ" -> subscriptions(s)
      [] OTHER -> <<[id |-> s]>>
serversAgree ==
    /\ gathered("endpoints") /\ conf.detailed =>
           \A e \in ToSet(conf.serverEndpoints), s \in known :
               readAs(e.suffix, s) = answered(e.suffix, s)
    /\ ~ StatzPanics(reader, NoFilter)
    /\ \A x \in ToSet(Statz(reader, NoFilter)), y \in {"routes", "gateways"} :
           \A i \in DOMAIN x[y] : x[y][i].id = x.server.id
    /\ \A p \in ToSet(conf.profiles) : gathered("profiles") =>
           \A x \in Profilez(reader, SplitProfileName(p).name, SplitProfileName(p).debug, NoFilter) :
               LET from == infoOf(x.profile.of)
               IN  /\ x.profile.debug = SplitProfileName(p).debug
                   /\ <<from.name, from.cluster>> = <<x.server.name, x.server.cluster>>
    /\ \A x \in ToSet(Raftz(reader, <<>>, <<"meta">>, NoFilter)) :
           x.items = <<[id |-> x.server.id, account |-> <<>>, group |-> <<"meta">>]>>

(***************************************************************************)
(* The two sources agree: after a gathering nothing disturbed, the         *)
(* accounts and streams collected from the archive are those collected     *)
(* from the live servers, although one merges the pages of a server by its *)
(* cluster and name and the other by its identity (CollectAccounts).       *)
(* Pages past the last that is read are excepted.  The connections of all  *)
(* accounts are put together server by server, and what is asked of one    *)
(* server is that server's (Statz, Subsz, Profilez, matchesFilter).        *)
(***************************************************************************)
SourcesAgree ==
    /\ Undisturbed
    /\ \A i \in DOMAIN captured : inItsDirectory(i) > MaxPage => captured[i].data.items = <<>>
    => /\ connectionsAgree /\ serversAgree
       /\ gathered("endpoints") /\ conf.detailed /\ JSZ \in ToSet(conf.serverEndpoints) =>
              namesOf(ArchiveCollectAccounts(reader)) =
              namesOf(LiveCollectAccounts([s \in known \cap world.jetstream |-> livePages(s)],
                                          PageLimit))

(***************************************************************************)
(* A replica of a stream that an undisturbed gathering misses is           *)
(* explained: either a server without the account answered and its answer  *)
(* was counted among those waited for, or another server of the same name  *)
(* has the account too.                                                    *)
(***************************************************************************)
hasReplica(s, a, t) == \E i \in DOMAIN captured :
    /\ {Tag("account", a), Tag("stream", t), Tag("server", infoOf(s).name)} \subseteq captured[i].tags
    /\ captured[i].from = s
countMisleads(a) == \E u \in world.jetstream : inFilter(u) /\ (a \notin accountsOf(u) \/ u \notin known)
shadowed(s, a) == \E u \in known \ {s} : a \in accountsOf(u) /\ infoOf(u).name = infoOf(s).name
MissingReplicaExplained ==
    Undisturbed /\ gathered("streams") =>
        \A s \in known \cap world.jetstream : \A a \in accountsOf(s) \ {systemAccount} :
            \A x \in ToSet(world.streams[s][a]) :
                hasReplica(s, a, x.name) \/ countMisleads(a) \/ shadowed(s, a)

\* What a request collected is final once it returned: a late response changes
\* nothing of it (the done flag of DoReqAsync).
ResultsAreFinal == [][req.done /\ req'.done => UNCHANGED <<got, known, counts>>]_vars

\* A gathering ends, however many answers are lost and whatever fails.
GatherEnds == <>(stage = "done")
=============================================================================
