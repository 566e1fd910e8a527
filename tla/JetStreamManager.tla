-------------------------- MODULE JetStreamManager --------------------------
(***************************************************************************)
(* The JetStream API client: what Manager, Stream and Consumer ask of the  *)
(* server and what they keep of its answers.                               *)
(*                                                                         *)
(* Goroutines share one manager and one handle, of the stream (or the      *)
(* consumer) named 1; names are the numbers they sort by.  A call is one   *)
(* or more requests; a request is answered, refused, lost or times out     *)
(* while other clients create, change and delete the same assets.  A late  *)
(* request that the server executes after its caller gave up is such a     *)
(* change.  Versions stand for configurations: every change makes one.     *)
(***************************************************************************)
EXTENDS Integers, FiniteSets, Sequences, Functions

CONSTANTS
    Goroutines,   \* callers of one Manager
    Names,        \* 1..n, the names of streams or consumers
    PageLimit,    \* items the server puts in one page
    MaxChanges,   \* bound: changes made on the server
    MaxCalls      \* bound: calls made by all the goroutines

ASSUME ManagerAssumption ==
    /\ 1 \in Names /\ Names \subseteq Nat \ {0} /\ IsFiniteSet(Names)
    /\ PageLimit \in Nat \ {0} /\ MaxChanges \in Nat /\ MaxCalls \in Nat

VARIABLES
    assets,   \* assets[n]: the version of the configuration of n, 0 when absent
    silent,   \* [lost, offline]: names the server has no details of
    clock,    \* the last version made
    handle,   \* [cfg, info]: the versions the handle caches, and the manager's
              \* cached apiLevel; 0 is nil
    stores,   \* writes to the handle
    raced,    \* two calls that write the handle overlapped
    call,     \* call[g]: the call g is in
    calls     \* calls made

managerVars == <<assets, silent, clock, handle, stores, raced, call, calls>>

NoCall == [op |-> "none", at |-> "idle", net |-> "none", resp |-> "none", ver |-> 0,
           offset |-> 0, page |-> {}, last |-> FALSE, got |-> <<>>, missing |-> {},
           err |-> "", done |-> FALSE, began |-> 0, stays |-> {}, created |-> {}, deleted |-> {}]

Lists   == {"names", "streams", "consumers", "subjects"}
Present == {n \in Names : assets[n] # 0}
Calling == {g \in Goroutines : call[g].at \notin {"idle", "returned"}}

ManagerInit ==
    /\ assets \in [Names -> {0, 1}]
    /\ silent \in {s \in [lost : SUBSET {2}, offline : SUBSET {2}] : s.offline \subseteq s.lost}
    /\ clock = 1
    /\ handle \in [cfg : {1}, info : {0, 1}, level : {0}]
    /\ stores = 0
    /\ raced = FALSE
    /\ call = [g \in Goroutines |-> NoCall]
    /\ calls = 0

-----------------------------------------------------------------------------
(* Calls: the checks before the first request, and the request.            *)

\* The first request of a call, or the error of the checks made before it.
\* IsValidName stands among those checks wherever a name becomes part of a
\* subject.
Send(g, op, request, valid) ==
    /\ call[g].at \in {"idle", "returned"}
    /\ calls < MaxCalls
    /\ calls' = calls + 1
    /\ call' = [call EXCEPT ![g] =
                  [NoCall EXCEPT !.op = op, !.began = stores, !.stays = IF request = "page" THEN Present ELSE {},
                                 !.at = IF valid THEN request ELSE "returned",
                                 !.net = IF valid THEN "sent" ELSE "none",
                                 !.err = IF valid THEN "" ELSE "refused"]]
    /\ UNCHANGED <<assets, silent, clock, handle, stores, raced>>

\* A call that is answered from the cache.
Cached(g, op, ver) ==
    /\ call[g].at \in {"idle", "returned"}
    /\ calls < MaxCalls
    /\ calls' = calls + 1
    /\ call' = [call EXCEPT ![g] = [NoCall EXCEPT !.op = op, !.at = "returned", !.ver = ver]]
    /\ UNCHANGED <<assets, silent, clock, handle, stores, raced>>

NewStreamFromDefault(g)         == \E valid \in BOOLEAN : Send(g, "new", "create", valid)
NewConsumerFromDefault(g)       == \E named \in BOOLEAN : Send(g, "new", "create", named)
LoadStream(g)                   == \E valid \in BOOLEAN : Send(g, "load", "info", valid)
LoadConsumer(g)                 == \E valid \in BOOLEAN : Send(g, "load", "info", valid)
LoadOrNewStreamFromDefault(g)   == \E valid \in BOOLEAN : Send(g, "loadOrNew", "info", valid)
LoadOrNewConsumerFromDefault(g) == \E valid \in BOOLEAN : Send(g, "loadOrNew", "info", valid)
IsKnownStream(g)                == \E valid \in BOOLEAN : Send(g, "known", "info", valid)
IsKnownConsumer(g)              == \E valid \in BOOLEAN : Send(g, "known", "info", valid)

\* Both load the configuration again once the update was accepted.
UpdateConfiguration(g)         == \E options \in BOOLEAN : Send(g, "update", "update", options)
UpdateConsumerConfiguration(g) == \E durable \in BOOLEAN : Send(g, "update", "update", durable)
Seal(g)                        == Send(g, "update", "update", TRUE)

Reset(g)              == Send(g, "reset", "info", TRUE)
Information(g)        == \E one \in BOOLEAN : Send(g, "information", "info", one)
State(g)              == Send(g, "information", "info", TRUE)
LatestInformation(g)  ==
    \/ handle.info # 0 /\ Cached(g, "latest", handle.info)
    \/ handle.info = 0 /\ Send(g, "information", "info", TRUE)
LatestState(g)        == LatestInformation(g)

JetStreamAccountInfo(g) == Send(g, "account", "account", TRUE)
MetaApiLevel(g)         == \E refresh \in BOOLEAN :
    \/ ~refresh /\ handle.level # 0 /\ Cached(g, "level", handle.level)
    \/ (refresh \/ handle.level = 0) /\ Send(g, "account", "account", TRUE)

\* Answers that carry the new state of the asset, which the handle takes over.
CancelMove(g)         == Send(g, "replace", "command", TRUE)
ResetConsumerState(g) == Send(g, "replace", "command", TRUE)

\* One request whose answer says whether it succeeded.
Command(g, valid) == Send(g, "command", "command", valid)

DeleteStream(g)         == \E valid \in BOOLEAN : Send(g, "delete", "delete", valid)
DeleteConsumer(g)       == \E valid \in BOOLEAN : Send(g, "delete", "delete", valid)
Delete(g)               == Send(g, "delete", "delete", TRUE)
DeleteOfConsumer(g)     == Send(g, "delete", "delete", TRUE)
PurgeExt(g)             == Command(g, TRUE)
Purge(g)                == \E one \in BOOLEAN : Command(g, one)
DeleteStreamMessage(g)  == \E valid \in BOOLEAN : Command(g, valid)
DeleteMessageRequest(g) == \E sequence \in {0, 1} : Command(g, sequence # 0)
RemoveRAFTPeer(g)       == Command(g, TRUE)
EvacuatePeer(g)         == Command(g, TRUE)
EvacuateConsumerPeer(g) == Command(g, TRUE)
EvacuateStream(g)       == \E valid \in BOOLEAN : Command(g, valid)
EvacuateConsumer(g)     == \E valid \in BOOLEAN : Command(g, valid)
LeaderStepDown(g)       == \E one \in BOOLEAN : Command(g, one)
ConsumerLeaderStepDown(g) == \E one \in BOOLEAN : Command(g, one)
MetaLeaderStandDown(g)  == Command(g, TRUE)
MetaPeerRemove(g)       == Command(g, TRUE)
MetaEvacuatePeer(g)     == Command(g, TRUE)
MetaPurgeAccount(g)     == \E named \in BOOLEAN : Command(g, named)
Pause(g)                == Command(g, TRUE)
Resume(g)               == Send(g, "resume", "command", TRUE)

\* Neither reads anything of the answer but its error.
Unpin(g)            == \E pinned \in BOOLEAN : Send(g, "unpin", "command", pinned)
CancelStreamMove(g) == \E valid \in BOOLEAN : Send(g, "cancel", "command", valid)

\* Reading one message changes nothing.
ReadMessage(g)               == Send(g, "read", "info", TRUE)
ReadLastMessageForSubject(g) == \E valid \in BOOLEAN : Send(g, "read", "info", valid)
NextMsg(g)                   == \E oldStyle \in BOOLEAN : Send(g, "read", "info", oldStyle)

\* Paged lists.
StreamNames(g)   == Send(g, "names", "page", TRUE)
ConsumerNames(g) == \E valid \in BOOLEAN : Send(g, "names", "page", valid)
Streams(g)       == Send(g, "streams", "page", TRUE)
Consumers(g)     == \E valid \in BOOLEAN : Send(g, "consumers", "page", valid)
StreamContainedSubjects(g) == \E valid \in BOOLEAN : Send(g, "subjects", "page", valid)

-----------------------------------------------------------------------------
(* The server, and the other clients of it.                                *)


\* The server's list of the names it has, one page of it.
position(n) == Cardinality({m \in Present : m < n})
page(offset) == {n \in Present : position(n) >= offset /\ position(n) < offset + PageLimit}

\* Asset n gets version v, 0 for a delete; the lists under way remember it.
Change(n, v) ==
    /\ assets' = [assets EXCEPT ![n] = v]
    /\ clock' = clock + 1

witnessed(c, n, v) ==
    IF c.at # "page" THEN c
    ELSE [c EXCEPT !.created = IF assets[n] = 0 /\ v # 0 THEN @ \cup {n} ELSE @,
                   !.deleted = IF v = 0 THEN @ \cup {n} ELSE @,
                   !.stays = IF v = 0 THEN @ \ {n} ELSE @]

answered(c, kind, ver, done) ==
    [c EXCEPT !.net = "answered", !.resp = kind, !.ver = ver, !.done = @ \/ done]

\* What the server does with a request: reads the asset, ...
Read(g) ==
    LET request == call[g].at IN
    /\ \/ /\ request \in {"info", "command", "update", "delete"} /\ assets[1] = 0
          /\ call' = [call EXCEPT ![g] = answered(@, "notfound", 0, FALSE)]
       \/ /\ request \in {"info", "command"} /\ assets[1] # 0
          /\ call' = [call EXCEPT ![g] = answered(@, "ok", assets[1], request = "command")]
       \/ /\ request = "account"
          /\ call' = [call EXCEPT ![g] = answered(@, "ok", clock, FALSE)]
    /\ UNCHANGED <<assets, clock>>

\* ... changes it, ...
Execute(g) ==
    LET request == call[g].at
        v == IF request = "delete" THEN 0 ELSE clock + 1
    IN  /\ clock <= MaxChanges
        /\ \/ request \in {"update", "delete"} /\ assets[1] # 0
           \/ request = "create" /\ assets[1] = 0
        /\ Change(1, v)
        /\ call' = [h \in Goroutines |-> IF h = g THEN answered(call[g], "ok", v, TRUE)
                                         ELSE witnessed(call[h], 1, v)]

\* ... refuses the request, says that it did not succeed, answers what is no
\* JSON, ...
Decline(g) ==
    /\ \E kind \in {"error", "nosuccess", "garbage"} :
          /\ kind = "nosuccess" => call[g].op \in {"command", "delete", "resume"}
          /\ call' = [call EXCEPT ![g] = answered(@, kind, 0, FALSE)]
    /\ UNCHANGED <<assets, clock>>

\* ... or gives a page of a list; a limit of 0 is a server's mistake.
AnswerPage(g) ==
    /\ call[g].at = "page"
    /\ \E limit \in {0, PageLimit} :
          call' = [call EXCEPT ![g] = [answered(@, "ok", limit, FALSE) EXCEPT
                     !.page = page(call[g].offset), !.last = call[g].offset + limit >= Cardinality(Present)]]
    /\ UNCHANGED <<assets, clock>>

Serve(g) ==
    /\ g \in Calling /\ call[g].net = "sent"
    /\ Read(g) \/ Execute(g) \/ Decline(g) \/ AnswerPage(g)
    /\ UNCHANGED <<silent, handle, stores, raced, calls>>

\* The connection loses the request or its answer.
Lose(g) ==
    /\ g \in Calling /\ call[g].net \in {"sent", "answered"}
    /\ call' = [call EXCEPT ![g].net = "lost"]
    /\ UNCHANGED <<assets, silent, clock, handle, stores, raced, calls>>

\* Another client creates, changes or deletes an asset.
OtherClient ==
    /\ clock <= MaxChanges
    /\ \E n \in Names, v \in {0, clock + 1} :
          /\ v = 0 => assets[n] # 0
          /\ Change(n, v)
          /\ call' = [g \in Goroutines |-> witnessed(call[g], n, v)]
    /\ UNCHANGED <<silent, handle, stores, raced, calls>>

-----------------------------------------------------------------------------
(* The answer: jsonRequest, and what each call does with it.               *)

\* (A mutated IsErrorResponse: only the -ERR text of old servers counts.)
IsErrorResponseText(c) == FALSE

\* An error in the JSON of any answer, whatever type the caller expects.
IsErrorResponse(c) == c.resp \in {"error", "notfound"}

\* The typed answer is asked for its error once more; the answers to Resume
\* and Unpin are pointers to pointers and have no such method.
ToError(c) == c.op \notin {"resume", "unpin"} /\ c.resp \in {"error", "notfound"}

\* An answer that is no JSON, or that a validator refuses, is an error too.
jsonRequest(c) ==
    IF IsErrorResponse(c) \/ ToError(c) \/ c.resp = "garbage" THEN c.resp ELSE ""

\* The error a call returns for its last answer: the success flag counts
\* where there is one, and what is not found is the answer of IsKnown.
outcome(c) ==
    IF c.op = "known" /\ jsonRequest(c) = "notfound" THEN ""
    ELSE IF jsonRequest(c) = "" /\ c.resp = "nosuccess" THEN "nosuccess"
    ELSE jsonRequest(c)

Return(c, err)      == [c EXCEPT !.at = "returned", !.net = "none", !.resp = "none", !.err = err,
                                 !.page = {}, !.last = FALSE, !.offset = 0, !.began = 0]
Request(c, request) == [c EXCEPT !.at = request, !.net = "sent", !.resp = "none"]

\* The requests a call makes after its first.
follows(c) ==
    IF c.op = "loadOrNew" /\ c.at = "info" /\ jsonRequest(c) = "notfound" THEN "create"
    ELSE IF c.op = "update" /\ c.at = "update" /\ jsonRequest(c) = "" THEN "info"
    ELSE "none"

\* (A mutated loadConfig: the configuration is loaded, the information kept.)
loadConfigOnly(h, c) == [h EXCEPT !.cfg = c.ver]

\* What the handle keeps of an answer: configuration and information, ...
loadConfig(h, c) == [h EXCEPT !.cfg = c.ver, !.info = c.ver]

\* ... or the information alone; the manager keeps the API level.
kept(c) ==
    IF c.op \in {"update", "reset", "replace"} THEN loadConfig(handle, c)
    ELSE IF c.op = "information" THEN [handle EXCEPT !.info = c.ver]
    ELSE IF c.op = "account" THEN [handle EXCEPT !.level = c.ver]
    ELSE handle

Keep(g, h) ==
    /\ handle' = h
    /\ stores' = IF h.cfg # handle.cfg \/ h.info # handle.info THEN stores + 1 ELSE stores
    /\ raced' = (raced \/ (call[g].op \in {"update", "reset", "replace", "information"}
                              /\ stores # call[g].began))

Receive(g) ==
    /\ g \in Calling /\ call[g].net = "answered" /\ call[g].op \notin Lists
    /\ LET c == call[g] IN
          IF follows(c) # "none"
          THEN /\ call' = [call EXCEPT ![g] = Request(@, follows(c))]
               /\ UNCHANGED <<handle, stores, raced>>
          ELSE /\ call' = [call EXCEPT ![g] = Return(@, outcome(c))]
               /\ IF outcome(c) = "" THEN Keep(g, kept(c))
                  ELSE UNCHANGED <<handle, stores, raced>>
    /\ UNCHANGED <<assets, silent, clock, calls>>

\* More pages without a limit would be asked for without end.
hasLimit(c) == c.ver # 0

\* (A mutated nextOffset: one more than the page had.)
nextOffsetSkips(c) == c.offset + c.ver + 1

nextOffset(c) == c.offset + c.ver

\* The values of f in ascending order, as sort leaves them: the i-th has less
\* than i before it.
ascending(f) ==
    [i \in 1..Cardinality(DOMAIN f) |->
        CHOOSE v \in Range(f) : /\ Cardinality({x \in DOMAIN f : f[x] < v}) < i
                                /\ i <= Cardinality({x \in DOMAIN f : f[x] <= v})]
listing(S) == ascending([n \in S |-> n])

\* The callbacks of the lists: a page adds the names, or the names with
\* details and those without.
collected(c) ==
    LET detailed == c.op \in {"streams", "consumers"}
        listed == IF detailed THEN c.page \ silent.lost ELSE c.page
    IN  [c EXCEPT !.got = @ \o listing(listed),
                  !.missing = IF detailed THEN @ \cup (c.page \cap silent.lost) ELSE @]

\* A finished list is sorted, that of Streams only page by page; the subjects
\* are the keys of a map.
finished(c) ==
    [c EXCEPT !.got = CASE c.op \in {"names", "consumers"} -> ascending(@)
                        [] c.op = "subjects" -> listing(Range(@))
                        [] OTHER -> @]

\* What is offline is not missing.
filteredMissing(c) == [c EXCEPT !.missing = @ \ silent.offline]

\* Only Streams returns what it has with its error.
Fail(c, err) ==
    Return(IF c.op = "streams" THEN filteredMissing(c)
           ELSE [c EXCEPT !.got = <<>>, !.missing = {}], err)

iterableRequest(g) ==
    /\ g \in Calling /\ call[g].net = "answered" /\ call[g].op \in Lists
    /\ LET c == collected(call[g]) IN
          call' = [call EXCEPT ![g] =
                    IF jsonRequest(call[g]) # "" THEN Fail(call[g], jsonRequest(call[g]))
                    ELSE IF c.last THEN Return(filteredMissing(finished(c)), "")
                    ELSE IF ~hasLimit(c) THEN Fail(c, "limit")
                    ELSE Request([c EXCEPT !.offset = nextOffset(c)], "page")]
    /\ UNCHANGED <<assets, silent, clock, handle, stores, raced, calls>>

\* (A mutated requestWithTimeout: a lost answer is waited for without end.)
requestWithoutTimeout(g) ==
    /\ g \in Calling /\ call[g].net # "lost"
    /\ call' = [call EXCEPT ![g] = Fail(@, "timeout")]
    /\ UNCHANGED <<assets, silent, clock, handle, stores, raced, calls>>

requestWithTimeout(g) ==
    /\ g \in Calling
    /\ call' = [call EXCEPT ![g] = Fail(@, "timeout")]
    /\ UNCHANGED <<assets, silent, clock, handle, stores, raced, calls>>

-----------------------------------------------------------------------------
HandleCalls(g) ==
    \/ UpdateConfiguration(g) \/ UpdateConsumerConfiguration(g) \/ Seal(g) \/ Reset(g)
    \/ Information(g) \/ State(g) \/ LatestInformation(g) \/ LatestState(g)
    \/ CancelMove(g) \/ ResetConsumerState(g)

AssetCalls(g) ==
    \/ NewStreamFromDefault(g) \/ NewConsumerFromDefault(g) \/ LoadStream(g) \/ LoadConsumer(g)
    \/ LoadOrNewStreamFromDefault(g) \/ LoadOrNewConsumerFromDefault(g)
    \/ IsKnownStream(g) \/ IsKnownConsumer(g) \/ JetStreamAccountInfo(g) \/ MetaApiLevel(g)
    \/ DeleteStream(g) \/ DeleteConsumer(g) \/ Delete(g) \/ DeleteOfConsumer(g)
    \/ ReadMessage(g) \/ ReadLastMessageForSubject(g) \/ NextMsg(g)

Commands(g) ==
    \/ PurgeExt(g) \/ Purge(g) \/ DeleteStreamMessage(g) \/ DeleteMessageRequest(g)
    \/ RemoveRAFTPeer(g) \/ EvacuatePeer(g) \/ EvacuateConsumerPeer(g) \/ EvacuateStream(g)
    \/ EvacuateConsumer(g) \/ LeaderStepDown(g) \/ ConsumerLeaderStepDown(g)
    \/ MetaLeaderStandDown(g) \/ MetaPeerRemove(g) \/ MetaEvacuatePeer(g) \/ MetaPurgeAccount(g)
    \/ Pause(g) \/ Resume(g) \/ Unpin(g) \/ CancelStreamMove(g)

ListCalls(g) ==
    \/ StreamNames(g) \/ ConsumerNames(g) \/ Streams(g) \/ Consumers(g)
    \/ StreamContainedSubjects(g)

Answers(g) ==
    Serve(g) \/ Lose(g) \/ Receive(g) \/ iterableRequest(g) \/ requestWithTimeout(g)

\* Any goroutine may make any call at any time.
ManagerStep ==
    \/ \E g \in Goroutines : HandleCalls(g) \/ AssetCalls(g) \/ Commands(g) \/ ListCalls(g) \/ Answers(g)
    \/ OtherClient

ManagerSpec == ManagerInit /\ [][ManagerStep]_managerVars
-----------------------------------------------------------------------------
(* Properties.                                                             *)

Succeeded(g) == call[g].at = "returned" /\ call[g].err = ""

Mutating == {"new", "update", "replace", "cancel", "command", "delete", "resume", "unpin"}

(***************************************************************************)
(* A call that changes something returns no error only when the server     *)
(* did what was asked, whatever was lost, refused or mangled on the way.   *)
(* LoadOrNew returns a stream or consumer that existed when it returned    *)
(* its version.                                                            *)
(***************************************************************************)
SuccessMeansDone ==
    \A g \in Goroutines : Succeeded(g) =>
        /\ call[g].op \in Mutating => call[g].done
        /\ call[g].op = "loadOrNew" => call[g].ver # 0

(***************************************************************************)
(* Pages are asked for by offset while other clients create and delete     *)
(* (manager.go:344).  A name that was there all along is left out of a     *)
(* finished list only if one that sorts before it was deleted meanwhile,   *)
(* and is in it twice, or out of order in that of Streams, only if one     *)
(* that sorts before it was created.  With details, every such name is     *)
(* either listed or missing, and none is both missing and offline.         *)
(***************************************************************************)
ListIsExplained ==
    \A g \in Goroutines : Succeeded(g) /\ call[g].op \in Lists =>
        LET c == call[g]
            seen == Range(c.got) \cup c.missing
            detailed == c.op \in {"streams", "consumers"}
        IN  /\ \A n \in c.stays \ seen :
                  \/ detailed /\ n \in silent.offline
                  \/ \E d \in c.deleted : d < n
            /\ \A i, j \in DOMAIN c.got : i < j /\ c.got[j] <= c.got[i] =>
                  /\ c.op \in {"names", "consumers"} => c.got[i] = c.got[j]
                  /\ \E b \in c.created : b <= c.got[j]
            /\ c.missing \cap silent.offline = {}

(***************************************************************************)
(* The information a handle caches is never older than its configuration,  *)
(* unless calls that load the handle overlapped: one answer may then be    *)
(* stored after a newer one (streams.go:231, consumers.go:230).            *)
(***************************************************************************)
InfoNotOlder ==
    raced \/ handle.info >= handle.cfg \/ handle.info = 0

(***************************************************************************)
(* Every call returns, though answers are lost and a server may say that   *)
(* there is more without giving a limit (manager.go:339, 361).             *)
(***************************************************************************)
CallsReturn == \A g \in Goroutines : g \in Calling ~> g \notin Calling

\* A request has a timeout, and a goroutine that has its answer goes on.
ManagerFairness ==
    \A g \in Goroutines :
        /\ WF_managerVars(Receive(g))
        /\ WF_managerVars(iterableRequest(g))
        /\ WF_managerVars(call[g].net \in {"sent", "lost"} /\ requestWithTimeout(g))
=============================================================================
