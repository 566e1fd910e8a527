---------------------------- MODULE ClientProofs ----------------------------
(***************************************************************************)
(* Theorems about the client's requests and reads.                         *)
(*                                                                         *)
(* JetStreamManager: for any number of goroutines that make any calls of   *)
(* one manager and one handle, while other clients change the same assets  *)
(* and answers are lost, mangled or late, a call that returns no error was *)
(* carried out, the handle's information is not older than its             *)
(* configuration unless calls that write it overlapped, and a name is left *)
(* out of a list or repeated only if others were deleted or created.       *)
(*                                                                         *)
(* StreamReader: for every page size and every stream, the pager reports   *)
(* the end only after every message that stayed was returned; a direct get *)
(* without an error was ended by the server or the caller; and the gaps    *)
(* reported are the longest runs of the deleted sequences listed.          *)
(***************************************************************************)
EXTENDS JetStreamManager, StreamReader, FiniteSetTheorems, SequenceTheorems,
        WellFoundedInduction, TLAPS

-----------------------------------------------------------------------------
(* JetStreamManager.                                                       *)

Fields  == DOMAIN NoCall
Writing == {"update", "reset", "replace", "information"}

\* A call waits for a request that belongs to it.
Course(c) ==
    /\ c.op = "update" => c.at \in {"update", "info", "returned"}
    /\ c.op \in {"reset", "information"} => c.at \in {"info", "returned"}
    /\ c.op = "replace" => c.at \in {"command", "returned"}
    /\ c.op = "loadOrNew" => c.at \in {"info", "create", "returned"}
    /\ c.op \in Mutating \ {"update"} => c.at \in {"create", "command", "delete", "returned"}

\* What an answer can be, and that a caller without one has none.
Answer(c) ==
    /\ c.resp \in {"none", "ok", "error", "notfound", "nosuccess", "garbage"}
    /\ c.net = "answered" => c.resp # "none"
    /\ c.at \in {"idle", "returned"} => c.resp = "none"
    /\ c.resp = "nosuccess" => c.op \in {"command", "delete", "resume"}

\* The asset never goes back to an earlier version, though it may be gone.
NotPassed(v) == v <= clock /\ (assets[1] # 0 => v <= assets[1])

\* A state of the asset that was read is one it has not gone back behind;
\* what a call that nobody overtook has read is not older than the handle.
Version(c) ==
    /\ c.ver \in Nat /\ c.began \in Nat /\ c.began <= stores
    /\ c.resp = "ok" /\ c.at \in {"info", "command"} =>
          /\ c.ver # 0 /\ NotPassed(c.ver)
          /\ c.op \in Writing /\ c.began = stores /\ ~raced => handle.cfg <= c.ver

\* The mark that a request was carried out is there from its answer on.
Effect(c) ==
    /\ c.op = "update" /\ c.at = "info" => c.done
    /\ c.op \in Mutating /\ c.at # "info" /\ c.resp = "ok" => c.done
    /\ c.op = "loadOrNew" /\ c.resp = "ok" => c.ver # 0
    /\ c.at = "returned" /\ c.err = "" =>
          /\ c.op \in Mutating => c.done
          /\ c.op = "loadOrNew" => c.ver # 0

CallInv(c) == DOMAIN c = Fields /\ Course(c) /\ Answer(c) /\ Version(c) /\ Effect(c)

Server ==
    /\ clock \in Nat /\ stores \in Nat
    /\ assets \in [Names -> Nat] /\ \A n \in Names : assets[n] <= clock
    /\ handle \in [cfg : Nat, info : Nat, level : Nat]
    /\ NotPassed(handle.cfg)

\* The inductive invariant.
ManagerInv ==
    /\ Server
    /\ DOMAIN call = Goroutines
    /\ \A g \in Goroutines : CallInv(call[g])
    /\ InfoNotOlder

-----------------------------------------------------------------------------
(* Single calls.                                                           *)

\* The parts of a call that the invariant is about.
SameCall(c, d) ==
    /\ DOMAIN d = DOMAIN c
    /\ d.op = c.op /\ d.at = c.at /\ d.net = c.net /\ d.resp = c.resp /\ d.ver = c.ver
    /\ d.err = c.err /\ d.done = c.done /\ d.began = c.began

\* Nothing the server or another goroutine does takes back what a call has
\* seen: versions grow, and the handle changes only with the count of stores.
Forward ==
    /\ clock' \in Nat /\ clock <= clock'
    /\ assets'[1] = assets[1] \/ assets'[1] = 0 \/ assets'[1] = clock + 1
    /\ stores' \in Nat
    /\ (stores' = stores /\ handle'.cfg = handle.cfg) \/ stores' = stores + 1
    /\ raced => raced'

\* What a call has seen stays true while the world moves forward.
LEMMA Bystander ==
    ASSUME Server, Forward, NEW h \in Goroutines, CallInv(call[h]), SameCall(call[h], call'[h])
    PROVE  CallInv(call[h])'
  <1>1. /\ clock \in Nat /\ clock' \in Nat /\ clock <= clock' /\ stores \in Nat /\ stores' \in Nat
        /\ 1 \in Names /\ assets[1] \in Nat
    BY ManagerAssumption DEF Server, Forward
  <1>2. Version(call[h])'
    BY <1>1 DEF CallInv, SameCall, Version, NotPassed, Forward, Server
  <1>3. Course(call[h])' /\ Answer(call[h])' /\ Effect(call[h])' /\ DOMAIN call'[h] = Fields
    BY DEF CallInv, SameCall, Course, Answer, Effect
  <1> QED BY <1>2, <1>3 DEF CallInv, Fields, NoCall

\* A step of one goroutine leaves the calls of the others alone.
LEMMA OneMoves ==
    ASSUME ManagerInv, Forward, NEW g \in Goroutines, NEW d,
           call' = [call EXCEPT ![g] = d], CallInv(call[g])'
    PROVE  DOMAIN call' = Goroutines /\ \A h \in Goroutines : CallInv(call[h])'
  <1>1. Server /\ DOMAIN call = Goroutines /\ DOMAIN call' = Goroutines
    BY DEF ManagerInv
  <1>2. ASSUME NEW h \in Goroutines, h # g PROVE CallInv(call[h])'
    <2>1. CallInv(call[h]) /\ call'[h] = call[h]
      BY <1>1, <1>2 DEF ManagerInv
    <2>2. SameCall(call[h], call'[h])
      BY <2>1 DEF SameCall
    <2> QED BY <1>1, <2>1, <2>2, Bystander
  <1> QED BY <1>1, <1>2

\* A step that touches neither the server's assets nor the handle.
LEMMA Quiet ==
    ASSUME Server, UNCHANGED <<assets, clock, handle, stores, raced>>
    PROVE  Server' /\ Forward /\ (InfoNotOlder => InfoNotOlder')
  <1>1. clock \in Nat /\ stores \in Nat
    BY DEF Server
  <1> QED BY <1>1 DEF Server, NotPassed, Forward, InfoNotOlder

-----------------------------------------------------------------------------
(* The start of a call.                                                    *)

\* The requests the calls begin with.
Begins(op, request) ==
    /\ request \in {"info", "create", "update", "command", "delete", "account", "page"}
    /\ op = "update" => request = "update"
    /\ op \in {"reset", "information", "loadOrNew"} => request = "info"
    /\ op = "replace" => request = "command"
    /\ op \in Mutating \ {"update"} => request \in {"create", "command", "delete"}
    /\ op \in Lists => request = "page"

Started(g) ==
    \/ \E op, request : \E valid \in BOOLEAN : Begins(op, request) /\ Send(g, op, request, valid)
    \/ \E op \in {"latest", "level"}, ver \in {handle.info, handle.level} : Cached(g, op, ver)

\* Every call of the package is one of these.
LEMMA Starts ==
    ASSUME NEW g \in Goroutines,
           HandleCalls(g) \/ AssetCalls(g) \/ Commands(g) \/ ListCalls(g)
    PROVE  Started(g)
  <1>0. \A op, request : \A valid \in BOOLEAN : Begins(op, request) /\ Send(g, op, request, valid) => Started(g)
    BY DEF Started
  <1>5. (Cached(g, "latest", handle.info) => Started(g)) /\ (Cached(g, "level", handle.level) => Started(g))
    BY DEF Started
  <1>1. CASE HandleCalls(g)
    <2>1. /\ \A valid \in BOOLEAN : Send(g, "update", "update", valid) => Started(g)
          /\ \A valid \in BOOLEAN : Send(g, "reset", "info", valid) => Started(g)
          /\ \A valid \in BOOLEAN : Send(g, "information", "info", valid) => Started(g)
          /\ \A valid \in BOOLEAN : Send(g, "replace", "command", valid) => Started(g)
      BY <1>0 DEF Begins, Mutating, Lists
    <2> QED BY <1>1, <1>5, <2>1 DEF HandleCalls, UpdateConfiguration, UpdateConsumerConfiguration, Seal,
              Reset, Information, State, LatestInformation, LatestState, CancelMove, ResetConsumerState
  <1>2. CASE AssetCalls(g)
    <2>1. /\ \A valid \in BOOLEAN : Send(g, "new", "create", valid) => Started(g)
          /\ \A valid \in BOOLEAN : Send(g, "load", "info", valid) => Started(g)
          /\ \A valid \in BOOLEAN : Send(g, "loadOrNew", "info", valid) => Started(g)
          /\ \A valid \in BOOLEAN : Send(g, "known", "info", valid) => Started(g)
          /\ \A valid \in BOOLEAN : Send(g, "account", "account", valid) => Started(g)
          /\ \A valid \in BOOLEAN : Send(g, "delete", "delete", valid) => Started(g)
          /\ \A valid \in BOOLEAN : Send(g, "read", "info", valid) => Started(g)
      BY <1>0 DEF Begins, Mutating, Lists
    <2> QED BY <1>2, <1>5, <2>1 DEF AssetCalls, NewStreamFromDefault, NewConsumerFromDefault, LoadStream,
              LoadConsumer, LoadOrNewStreamFromDefault, LoadOrNewConsumerFromDefault, IsKnownStream,
              IsKnownConsumer, JetStreamAccountInfo, MetaApiLevel, DeleteStream, DeleteConsumer, Delete,
              DeleteOfConsumer, ReadMessage, ReadLastMessageForSubject, NextMsg
  <1>3. CASE Commands(g)
    <2>1. /\ \A valid \in BOOLEAN : Send(g, "command", "command", valid) => Started(g)
          /\ \A valid \in BOOLEAN : Send(g, "resume", "command", valid) => Started(g)
          /\ \A valid \in BOOLEAN : Send(g, "unpin", "command", valid) => Started(g)
          /\ \A valid \in BOOLEAN : Send(g, "cancel", "command", valid) => Started(g)
      BY <1>0 DEF Begins, Mutating, Lists
    <2> QED BY <1>3, <1>5, <2>1 DEF Commands, Command, PurgeExt, Purge, DeleteStreamMessage,
              DeleteMessageRequest, RemoveRAFTPeer, EvacuatePeer, EvacuateConsumerPeer, EvacuateStream,
              EvacuateConsumer, LeaderStepDown, ConsumerLeaderStepDown, MetaLeaderStandDown,
              MetaPeerRemove, MetaEvacuatePeer, MetaPurgeAccount, Pause, Resume, Unpin, CancelStreamMove
  <1>4. CASE ListCalls(g)
    <2>1. /\ \A valid \in BOOLEAN : Send(g, "names", "page", valid) => Started(g)
          /\ \A valid \in BOOLEAN : Send(g, "streams", "page", valid) => Started(g)
          /\ \A valid \in BOOLEAN : Send(g, "consumers", "page", valid) => Started(g)
          /\ \A valid \in BOOLEAN : Send(g, "subjects", "page", valid) => Started(g)
      BY <1>0 DEF Begins, Mutating, Lists
    <2> QED BY <1>4, <1>5, <2>1 DEF ListCalls, StreamNames, ConsumerNames, Streams, Consumers,
              StreamContainedSubjects
  <1> QED BY <1>1, <1>2, <1>3, <1>4

\* A call that starts has no answer yet, and one that is refused an error.
LEMMA StartStep ==
    ASSUME ManagerInv, NEW g \in Goroutines, Started(g)
    PROVE  ManagerInv'
  <1>1. Server /\ InfoNotOlder /\ DOMAIN call = Goroutines /\ stores \in Nat /\ handle.info \in Nat /\ handle.level \in Nat
    BY DEF ManagerInv, Server
  <1>2. UNCHANGED <<assets, clock, handle, stores, raced>>
    BY DEF Started, Send, Cached
  <1>3. \E d : call' = [call EXCEPT ![g] = d]
    BY DEF Started, Send, Cached
  <1>4. CallInv(call[g])'
    <2>1. ASSUME NEW op, NEW request, NEW valid \in BOOLEAN, Begins(op, request), Send(g, op, request, valid)
          PROVE  CallInv(call[g])'
      <3>1. /\ call'[g].op = op /\ call'[g].at \in {request, "returned"} /\ call'[g].resp = "none"
            /\ call'[g].net \in {"sent", "none"} /\ call'[g].ver = 0 /\ call'[g].began = stores
            /\ call'[g].at = "returned" => call'[g].err = "refused"
            /\ DOMAIN call'[g] = Fields
        BY <1>1, <2>1 DEF Send, NoCall, Fields, Begins
      <3>2. Course(call[g])' /\ Effect(call[g])'
        BY <2>1, <3>1 DEF Course, Effect, Mutating, Begins
      <3>3. Answer(call[g])'
        BY <2>1, <3>1 DEF Answer, Begins
      <3>4. Version(call[g])'
        BY <1>1, <1>2, <2>1, <3>1 DEF Version
      <3> QED BY <3>1, <3>2, <3>3, <3>4 DEF CallInv, Fields, NoCall
    <2>2. ASSUME NEW op \in {"latest", "level"}, NEW ver \in {handle.info, handle.level}, Cached(g, op, ver)
          PROVE  CallInv(call[g])'
      <3>1. /\ call'[g].op = op /\ call'[g].at = "returned" /\ call'[g].resp = "none"
            /\ call'[g].net = "none" /\ call'[g].ver = ver /\ call'[g].began = 0
            /\ DOMAIN call'[g] = Fields
        BY <1>1, <2>2 DEF Cached, NoCall, Fields
      <3>2. Course(call[g])' /\ Effect(call[g])'
        BY <2>2, <3>1 DEF Course, Effect, Mutating
      <3>3. Answer(call[g])'
        BY <2>2, <3>1 DEF Answer
      <3>4. Version(call[g])'
        BY <1>1, <1>2, <2>2, <3>1 DEF Version
      <3> QED BY <3>1, <3>2, <3>3, <3>4 DEF CallInv, Fields, NoCall
    <2> QED BY <2>1, <2>2 DEF Started
  <1> QED BY <1>1, <1>2, <1>3, <1>4, Quiet, OneMoves DEF ManagerInv

-----------------------------------------------------------------------------
(* The end of a call.                                                      *)

\* Without an answer there is little to say of versions.
LEMMA Unread ==
    ASSUME Server', NEW g \in Goroutines, call'[g].ver \in Nat, call'[g].began = 0, call'[g].resp = "none"
    PROVE  Version(call[g])'
  BY DEF Server, Version

\* A call that returned has no answer left; it has an error, or the effect.
LEMMA Ended ==
    ASSUME Server', NEW g \in Goroutines, CallInv(call[g]), DOMAIN call'[g] = Fields,
           call'[g].op = call[g].op, call'[g].at = "returned", call'[g].net = "none",
           call'[g].resp = "none", call'[g].ver = call[g].ver, call'[g].done = call[g].done,
           call'[g].began = 0,
           \/ call'[g].err # ""
           \/ (call[g].op \in Mutating => call[g].done) /\ (call[g].op = "loadOrNew" => call[g].ver # 0)
    PROVE  CallInv(call[g])'
  <1>1. Course(call[g])'
    BY DEF Course, Mutating
  <1>2. Effect(call[g])'
    BY DEF Effect, Mutating
  <1>3. Answer(call[g])'
    BY DEF Answer
  <1>4. call'[g].ver \in Nat
    BY DEF CallInv, Version
  <1>5. Version(call[g])'
    BY <1>4, Unread
  <1> QED BY <1>1, <1>2, <1>3, <1>5 DEF CallInv, Fields, NoCall

\* The fields of a call that failed.
LEMMA Failed ==
    ASSUME NEW c, DOMAIN c = Fields, NEW err
    PROVE  LET d == Fail(c, err) IN
           /\ DOMAIN d = Fields /\ d.op = c.op /\ d.at = "returned" /\ d.net = "none" /\ d.resp = "none"
           /\ d.ver = c.ver /\ d.done = c.done /\ d.began = 0 /\ d.err = err
  <1>1. DOMAIN filteredMissing(c) = Fields /\ filteredMissing(c).op = c.op /\ filteredMissing(c).ver = c.ver
        /\ filteredMissing(c).done = c.done
    BY DEF filteredMissing, Fields, NoCall
  <1>2. \A e : DOMAIN e = Fields =>
           LET d == Return(e, err) IN
           /\ DOMAIN d = Fields /\ d.op = e.op /\ d.at = "returned" /\ d.net = "none" /\ d.resp = "none"
           /\ d.ver = e.ver /\ d.done = e.done /\ d.began = 0 /\ d.err = err
    BY DEF Return, Fields, NoCall
  <1> DEFINE e == [c EXCEPT !.got = <<>>, !.missing = {}]
  <1>3. DOMAIN e = Fields /\ e.op = c.op /\ e.ver = c.ver /\ e.done = c.done
    BY DEF Fields, NoCall
  <1>4. Fail(c, err) = Return(filteredMissing(c), err) \/ Fail(c, err) = Return(e, err)
    BY DEF Fail
  <1> HIDE DEF e
  <1> QED BY <1>1, <1>2, <1>3, <1>4

\* A timeout ends a call at any point, with an error.
LEMMA TimeoutStep ==
    ASSUME ManagerInv, NEW g \in Goroutines, requestWithTimeout(g)
    PROVE  ManagerInv'
  <1>1. Server /\ InfoNotOlder /\ DOMAIN call = Goroutines /\ CallInv(call[g]) /\ DOMAIN call[g] = Fields
    BY DEF ManagerInv, CallInv
  <1>2. UNCHANGED <<assets, clock, handle, stores, raced>> /\ call' = [call EXCEPT ![g] = Fail(call[g], "timeout")]
    BY DEF requestWithTimeout
  <1>3. Server' /\ Forward /\ InfoNotOlder'
    BY <1>1, <1>2, Quiet
  <1>4. CallInv(call[g])'
    <2>1. call'[g] = Fail(call[g], "timeout")
      BY <1>1, <1>2
    <2>2. /\ DOMAIN call'[g] = Fields /\ call'[g].op = call[g].op /\ call'[g].at = "returned"
          /\ call'[g].net = "none" /\ call'[g].resp = "none" /\ call'[g].ver = call[g].ver
          /\ call'[g].done = call[g].done /\ call'[g].began = 0 /\ call'[g].err = "timeout"
      BY <1>1, <2>1, Failed
    <2> QED BY <1>1, <1>3, <2>2, Ended
  <1> QED BY <1>2, <1>3, <1>4, OneMoves DEF ManagerInv

\* A request or an answer that is lost takes nothing back.
LEMMA LoseStep ==
    ASSUME ManagerInv, NEW g \in Goroutines, Lose(g)
    PROVE  ManagerInv'
  <1>1. Server /\ InfoNotOlder /\ DOMAIN call = Goroutines /\ CallInv(call[g]) /\ DOMAIN call[g] = Fields
    BY DEF ManagerInv, CallInv
  <1>2. UNCHANGED <<assets, clock, handle, stores, raced>> /\ call' = [call EXCEPT ![g] = [call[g] EXCEPT !.net = "lost"]]
    BY DEF Lose
  <1>3. Server' /\ Forward /\ InfoNotOlder'
    BY <1>1, <1>2, Quiet
  <1>4. CallInv(call[g])'
    <2>1. /\ DOMAIN call'[g] = Fields /\ call'[g].op = call[g].op /\ call'[g].at = call[g].at /\ call'[g].net = "lost"
          /\ call'[g].resp = call[g].resp /\ call'[g].ver = call[g].ver /\ call'[g].err = call[g].err
          /\ call'[g].done = call[g].done /\ call'[g].began = call[g].began
      BY <1>1, <1>2 DEF Fields, NoCall
    <2>2. Course(call[g])' /\ Effect(call[g])' /\ Answer(call[g])'
      BY <1>1, <2>1 DEF CallInv, Course, Effect, Answer
    <2>3. Version(call[g])'
      BY <1>1, <1>2, <2>1 DEF CallInv, Version, NotPassed
    <2> QED BY <2>1, <2>2, <2>3 DEF CallInv, Fields, NoCall
  <1> QED BY <1>2, <1>3, <1>4, OneMoves DEF ManagerInv

-----------------------------------------------------------------------------
(* The server's answers.                                                   *)

\* The fields of a call that was answered.
AnsweredBy(c, d, kind, ver) ==
    /\ DOMAIN d = Fields /\ d.op = c.op /\ d.at = c.at /\ d.err = c.err /\ d.began = c.began
    /\ d.net = "answered" /\ d.resp = kind /\ d.ver = ver

\* An answer sets these fields of the call and only adds to its effect.
LEMMA AnsweredFields ==
    ASSUME NEW c, DOMAIN c = Fields, NEW kind, NEW ver, NEW done \in BOOLEAN
    PROVE  LET d == answered(c, kind, ver, done) IN
           AnsweredBy(c, d, kind, ver) /\ (c.done => d.done) /\ (done => d.done)
  BY DEF answered, AnsweredBy, Fields, NoCall

\* Answers that carry nothing.
LEMMA Refused ==
    ASSUME ManagerInv, UNCHANGED <<assets, clock, handle, stores, raced>>, NEW g \in Goroutines,
           call[g].at \notin {"idle", "returned"},
           NEW kind \in {"error", "notfound", "nosuccess", "garbage"},
           kind = "nosuccess" => call[g].op \in {"command", "delete", "resume"},
           AnsweredBy(call[g], call'[g], kind, 0), call[g].done => call'[g].done
    PROVE  CallInv(call[g])'
  <1>1. CallInv(call[g])
    BY DEF ManagerInv
  <1>2. Course(call[g])' /\ Answer(call[g])'
    BY <1>1 DEF CallInv, AnsweredBy, Course, Answer
  <1>3. Effect(call[g])'
    BY <1>1 DEF CallInv, AnsweredBy, Effect
  <1>4. Version(call[g])'
    BY <1>1 DEF CallInv, AnsweredBy, Version
  <1> QED BY <1>2, <1>3, <1>4 DEF CallInv, AnsweredBy, Fields, NoCall

\* Answers that carry a version or a page.
LEMMA Accepted ==
    ASSUME ManagerInv, Server', UNCHANGED <<handle, stores, raced>>, NEW g \in Goroutines, NEW ver \in Nat,
           call[g].at \notin {"idle", "returned"},
           AnsweredBy(call[g], call'[g], "ok", ver), call[g].done => call'[g].done,
           call[g].at \in {"info", "command"} => ver = assets'[1] /\ ver # 0,
           call[g].at \in {"create", "command", "update", "delete"} => call'[g].done,
           call[g].at \in {"create", "info"} => ver # 0
    PROVE  CallInv(call[g])'
  <1>1. CallInv(call[g])
    BY DEF ManagerInv
  <1>2. Course(call[g])' /\ Answer(call[g])'
    BY <1>1 DEF CallInv, AnsweredBy, Course, Answer
  <1>3. Effect(call[g])'
    BY <1>1 DEF CallInv, AnsweredBy, Effect, Course, Mutating
  <1>4. Version(call[g])'
    <2>1. call[g].began \in Nat /\ call[g].began <= stores
      BY <1>1 DEF CallInv, Version
    <2>2. CASE call[g].at \notin {"info", "command"}
      BY <2>1, <2>2 DEF AnsweredBy, Version
    <2>3. CASE call[g].at \in {"info", "command"}
      <3>1. NotPassed(ver)' /\ handle'.cfg <= ver
        BY <2>3, ManagerAssumption DEF Server, NotPassed
      <3> QED BY <2>1, <2>3, <3>1 DEF AnsweredBy, Version, NotPassed
    <2> QED BY <2>2, <2>3
  <1> QED BY <1>2, <1>3, <1>4 DEF CallInv, AnsweredBy, Fields, NoCall

\* An answer to one call, with nothing changed on the server.
LEMMA AnswerOnly ==
    ASSUME ManagerInv, UNCHANGED <<assets, clock, handle, stores, raced>>, NEW g \in Goroutines,
           NEW d, call' = [call EXCEPT ![g] = d], CallInv(call[g])'
    PROVE  ManagerInv'
  <1>1. Server' /\ Forward /\ InfoNotOlder'
    BY Quiet DEF ManagerInv
  <1> QED BY <1>1, OneMoves DEF ManagerInv

\* The server reads the asset, or finds none.
LEMMA ReadStep ==
    ASSUME ManagerInv, NEW g \in Goroutines, g \in Calling, Read(g), UNCHANGED <<handle, stores, raced>>
    PROVE  ManagerInv'
  <1>1. Server /\ DOMAIN call = Goroutines /\ DOMAIN call[g] = Fields
    BY DEF ManagerInv, CallInv
  <1>2. call[g].at \notin {"idle", "returned"} /\ UNCHANGED <<assets, clock>>
    BY DEF Calling, Read
  <1>3. CASE call' = [call EXCEPT ![g] = answered(call[g], "notfound", 0, FALSE)]
    <2>1. call'[g] = answered(call[g], "notfound", 0, FALSE)
      BY <1>1, <1>3
    <2>2. AnsweredBy(call[g], call'[g], "notfound", 0) /\ (call[g].done => call'[g].done)
      BY <1>1, <2>1, AnsweredFields
    <2>3. CallInv(call[g])'
      BY <1>2, <2>2, Refused
    <2> QED BY <1>2, <1>3, <2>3, AnswerOnly
  <1>4. ASSUME call[g].at \in {"info", "command"}, assets[1] # 0,
               call' = [call EXCEPT ![g] = answered(call[g], "ok", assets[1], call[g].at = "command")]
        PROVE  ManagerInv'
    <2> DEFINE commanded == call[g].at = "command"
    <2>1. call'[g] = answered(call[g], "ok", assets[1], commanded) /\ commanded \in BOOLEAN
      BY <1>1, <1>4
    <2>2. /\ AnsweredBy(call[g], call'[g], "ok", assets[1]) /\ (call[g].done => call'[g].done)
          /\ commanded => call'[g].done
      <3> HIDE DEF commanded
      <3> QED BY <1>1, <2>1, AnsweredFields
    <2>3. assets[1] \in Nat /\ assets'[1] = assets[1] /\ Server'
      BY <1>1, <1>2, ManagerAssumption, Quiet DEF Server
    <2>4. CallInv(call[g])'
      BY <1>2, <1>4, <2>2, <2>3, Accepted
    <2> QED BY <1>2, <1>4, <2>4, AnswerOnly
  <1>5. ASSUME call[g].at = "account",
               call' = [call EXCEPT ![g] = answered(call[g], "ok", clock, FALSE)]
        PROVE  ManagerInv'
    <2>1. call'[g] = answered(call[g], "ok", clock, FALSE)
      BY <1>1, <1>5
    <2>2. AnsweredBy(call[g], call'[g], "ok", clock) /\ (call[g].done => call'[g].done)
      BY <1>1, <2>1, AnsweredFields
    <2>3. clock \in Nat /\ Server'
      BY <1>1, <1>2, Quiet DEF Server
    <2>4. CallInv(call[g])'
      BY <1>2, <1>5, <2>2, <2>3, Accepted
    <2> QED BY <1>2, <1>5, <2>4, AnswerOnly
  <1> QED BY <1>3, <1>4, <1>5 DEF Read

\* The server refuses the request or mangles its answer.
LEMMA DeclineStep ==
    ASSUME ManagerInv, NEW g \in Goroutines, g \in Calling, Decline(g), UNCHANGED <<handle, stores, raced>>
    PROVE  ManagerInv'
  <1>1. DOMAIN call = Goroutines /\ DOMAIN call[g] = Fields
    BY DEF ManagerInv, CallInv
  <1>2. call[g].at \notin {"idle", "returned"} /\ UNCHANGED <<assets, clock>>
    BY DEF Calling, Decline
  <1>3. PICK kind \in {"error", "nosuccess", "garbage"} :
           /\ kind = "nosuccess" => call[g].op \in {"command", "delete", "resume"}
           /\ call' = [call EXCEPT ![g] = answered(call[g], kind, 0, FALSE)]
    BY DEF Decline
  <1>4. call'[g] = answered(call[g], kind, 0, FALSE)
    BY <1>1, <1>3
  <1>5. AnsweredBy(call[g], call'[g], kind, 0) /\ (call[g].done => call'[g].done)
    BY <1>1, <1>4, AnsweredFields
  <1>6. CallInv(call[g])'
    BY <1>2, <1>3, <1>5, Refused
  <1> QED BY <1>2, <1>3, <1>6, AnswerOnly

\* The server gives a page of a list.
LEMMA AnswerPageStep ==
    ASSUME ManagerInv, NEW g \in Goroutines, AnswerPage(g), UNCHANGED <<handle, stores, raced>>
    PROVE  ManagerInv'
  <1>1. Server /\ DOMAIN call = Goroutines /\ DOMAIN call[g] = Fields
    BY DEF ManagerInv, CallInv
  <1>2. call[g].at = "page" /\ UNCHANGED <<assets, clock>>
    BY DEF AnswerPage
  <1>3. PICK limit \in {0, PageLimit} :
           call' = [call EXCEPT ![g] = [answered(call[g], "ok", limit, FALSE) EXCEPT
                      !.page = page(call[g].offset), !.last = call[g].offset + limit >= Cardinality(Present)]]
    BY DEF AnswerPage
  <1> DEFINE a == answered(call[g], "ok", limit, FALSE)
  <1>4. AnsweredBy(call[g], a, "ok", limit) /\ (call[g].done => a.done)
    BY <1>1, AnsweredFields
  <1> HIDE DEF a
  <1>5. AnsweredBy(call[g], call'[g], "ok", limit) /\ (call[g].done => call'[g].done)
    <2> DEFINE p == page(call[g].offset)
               l == call[g].offset + limit >= Cardinality(Present)
    <2>1. call'[g] = [a EXCEPT !.page = p, !.last = l]
      BY <1>1, <1>3 DEF a
    <2> HIDE DEF p, l
    <2> QED BY <1>4, <2>1 DEF AnsweredBy, Fields, NoCall
  <1>6. limit \in Nat /\ Server'
    BY <1>1, <1>2, <1>3, ManagerAssumption, Quiet
  <1>7. CallInv(call[g])'
    BY <1>2, <1>5, <1>6, Accepted
  <1> QED BY <1>2, <1>3, <1>7, AnswerOnly

-----------------------------------------------------------------------------
(* Changes on the server.                                                  *)

\* A change makes a version that nobody has seen.
LEMMA Changed ==
    ASSUME Server, NEW n \in Names, NEW v \in {0, clock + 1}, Change(n, v), UNCHANGED <<handle, stores, raced>>
    PROVE  Server' /\ Forward /\ (InfoNotOlder => InfoNotOlder')
  <1>1. /\ clock \in Nat /\ stores \in Nat /\ 1 \in Names /\ assets \in [Names -> Nat]
        /\ \A m \in Names : assets[m] <= clock
        /\ handle \in [cfg : Nat, info : Nat, level : Nat] /\ NotPassed(handle.cfg)
    BY ManagerAssumption DEF Server
  <1>2. clock' = clock + 1 /\ assets' = [assets EXCEPT ![n] = v] /\ v \in Nat /\ v <= clock'
    BY <1>1 DEF Change
  <1>3. assets' \in [Names -> Nat] /\ \A m \in Names : assets'[m] <= clock'
    BY <1>1, <1>2
  <1>4. assets'[1] = assets[1] \/ assets'[1] = 0 \/ assets'[1] = clock + 1
    BY <1>1, <1>2
  <1>5. NotPassed(handle.cfg)'
    BY <1>1, <1>2, <1>4 DEF NotPassed
  <1>6. Server'
    BY <1>1, <1>2, <1>3, <1>5 DEF Server
  <1>7. Forward
    BY <1>1, <1>2, <1>4 DEF Forward
  <1> QED BY <1>6, <1>7 DEF InfoNotOlder

\* A list remembers what changed under it, and nothing else.
LEMMA Witnessed ==
    ASSUME NEW c, DOMAIN c = Fields, NEW n, NEW v
    PROVE  SameCall(c, witnessed(c, n, v))
  BY DEF SameCall, witnessed, Fields, NoCall

\* Another client changes an asset.
LEMMA OtherClientStep ==
    ASSUME ManagerInv, OtherClient
    PROVE  ManagerInv'
  <1>1. PICK n \in Names, v \in {0, clock + 1} :
           Change(n, v) /\ call' = [g \in Goroutines |-> witnessed(call[g], n, v)]
    BY DEF OtherClient
  <1>2. Server' /\ Forward /\ InfoNotOlder'
    BY <1>1, Changed DEF ManagerInv, OtherClient
  <1>3. ASSUME NEW g \in Goroutines PROVE CallInv(call[g])'
    <2>1. call'[g] = witnessed(call[g], n, v) /\ CallInv(call[g]) /\ DOMAIN call[g] = Fields /\ Server
      BY <1>1 DEF ManagerInv, CallInv
    <2>2. SameCall(call[g], call'[g])
      BY <2>1, Witnessed
    <2> QED BY <1>2, <2>1, <2>2, Bystander
  <1>4. DOMAIN call' = Goroutines
    BY <1>1
  <1> QED BY <1>2, <1>3, <1>4 DEF ManagerInv

\* The server creates, updates or deletes the asset for the caller.
LEMMA ExecuteStep ==
    ASSUME ManagerInv, NEW g \in Goroutines, g \in Calling, Execute(g), UNCHANGED <<handle, stores, raced>>
    PROVE  ManagerInv'
  <1> DEFINE v == IF call[g].at = "delete" THEN 0 ELSE clock + 1
  <1>1. /\ call[g].at \in {"update", "delete", "create"} /\ Change(1, v)
        /\ call' = [h \in Goroutines |-> IF h = g THEN answered(call[g], "ok", v, TRUE)
                                         ELSE witnessed(call[h], 1, v)]
    BY DEF Execute
  <1>2. /\ Server /\ InfoNotOlder /\ clock \in Nat /\ 1 \in Names
        /\ \A h \in Goroutines : CallInv(call[h]) /\ DOMAIN call[h] = Fields
    BY ManagerAssumption DEF ManagerInv, CallInv, Server
  <1>3. v \in {0, clock + 1} /\ v \in Nat /\ (call[g].at # "delete" => v # 0)
    BY <1>2
  <1> HIDE DEF v
  <1>4. Server' /\ Forward /\ InfoNotOlder'
    BY <1>1, <1>2, <1>3, Changed
  <1>5. ASSUME NEW h \in Goroutines, h # g PROVE CallInv(call[h])'
    <2>1. call'[h] = witnessed(call[h], 1, v)
      BY <1>1, <1>5
    <2>2. SameCall(call[h], call'[h])
      BY <1>2, <2>1, Witnessed
    <2> QED BY <1>2, <1>4, <2>2, Bystander
  <1>6. CallInv(call[g])'
    <2>1. call'[g] = answered(call[g], "ok", v, TRUE)
      BY <1>1
    <2>2. AnsweredBy(call[g], call'[g], "ok", v) /\ (call[g].done => call'[g].done) /\ call'[g].done
      BY <1>2, <2>1, AnsweredFields
    <2>3. call[g].at \notin {"idle", "returned", "info", "command"}
      BY <1>1
    <2> QED BY <1>1, <1>3, <1>4, <2>2, <2>3, Accepted
  <1>7. DOMAIN call' = Goroutines
    BY <1>1
  <1> QED BY <1>4, <1>5, <1>6, <1>7 DEF ManagerInv

\* What the server does with a request.
LEMMA ServeStep ==
    ASSUME ManagerInv, NEW g \in Goroutines, Serve(g)
    PROVE  ManagerInv'
  BY ReadStep, ExecuteStep, DeclineStep, AnswerPageStep DEF Serve

-----------------------------------------------------------------------------
(* What a call does with its answer.                                       *)

\* No error is reported for what the server did not do, only IsKnown takes
\* "not found" for an answer.
LEMMA SuccessIsOk ==
    ASSUME NEW c, Answer(c), c.net = "answered", c.op # "known", outcome(c) = ""
    PROVE  c.resp = "ok"
  BY DEF Answer, outcome, jsonRequest, IsErrorResponse

\* A second request follows only on a missing asset or an accepted update.
LEMMA FollowStep ==
    ASSUME ManagerInv, NEW g \in Goroutines, g \in Calling, call[g].net = "answered", follows(call[g]) # "none",
           call' = [call EXCEPT ![g] = Request(call[g], follows(call[g]))],
           UNCHANGED <<assets, clock, handle, stores, raced>>
    PROVE  ManagerInv'
  <1>1. Server /\ DOMAIN call = Goroutines /\ CallInv(call[g]) /\ DOMAIN call[g] = Fields
    BY DEF ManagerInv, CallInv
  <1> DEFINE at == follows(call[g])
  <1>2. /\ DOMAIN call'[g] = Fields /\ call'[g].op = call[g].op /\ call'[g].at = at /\ call'[g].net = "sent"
        /\ call'[g].resp = "none" /\ call'[g].ver = call[g].ver /\ call'[g].err = call[g].err
        /\ call'[g].done = call[g].done /\ call'[g].began = call[g].began
    BY <1>1 DEF Request, Fields, NoCall
  <1>3. \/ call[g].op = "loadOrNew" /\ at = "create"
        \/ call[g].op = "update" /\ at = "info" /\ call[g].at = "update" /\ call[g].resp = "ok"
    BY <1>1 DEF follows, jsonRequest, IsErrorResponse, CallInv, Answer
  <1>4. call[g].op = "update" => call[g].done
    BY <1>1, <1>3 DEF CallInv, Effect, Mutating
  <1> HIDE DEF at
  <1>5. CallInv(call[g])'
    <2>1. Course(call[g])'
      BY <1>2, <1>3 DEF Course
    <2>2. Answer(call[g])'
      BY <1>2 DEF Answer
    <2>3. Effect(call[g])'
      BY <1>2, <1>3, <1>4 DEF Effect
    <2>4. Version(call[g])'
      BY <1>1, <1>2 DEF CallInv, Version
    <2> QED BY <1>2, <2>1, <2>2, <2>3, <2>4 DEF CallInv, Fields, NoCall
  <1> QED BY <1>5, AnswerOnly

\* What a call without an error was asked to do is done.
LEMMA SuccessHasEffect ==
    ASSUME NEW c, CallInv(c), c.net = "answered", follows(c) = "none", outcome(c) = ""
    PROVE  (c.op \in Mutating => c.done) /\ (c.op = "loadOrNew" => c.ver # 0)
  <1>1. CASE c.op \in Mutating
    <2>1. c.resp = "ok"
      BY <1>1, SuccessIsOk DEF CallInv, Mutating
    <2>2. c.op = "update" => c.at = "info"
      <3>1. jsonRequest(c) = ""
        BY <2>1 DEF jsonRequest, IsErrorResponse, ToError
      <3>2. c.op = "update" /\ c.at = "update" => follows(c) = "info"
        BY <3>1 DEF follows
      <3>3. c.op = "update" => c.at \in {"update", "info", "returned"}
        BY DEF CallInv, Course
      <3>4. c.at # "returned"
        BY <2>1 DEF CallInv, Answer
      <3> QED BY <3>2, <3>3, <3>4
    <2> QED BY <1>1, <2>1, <2>2 DEF CallInv, Effect, Course, Mutating
  <1>2. CASE c.op = "loadOrNew"
    <2>1. c.resp = "ok"
      BY <1>2, SuccessIsOk DEF CallInv
    <2> QED BY <1>2, <2>1 DEF CallInv, Effect, Mutating
  <1> QED BY <1>1, <1>2

\* Arithmetic, apart from records that also hold strings.
LEMMA Counting == \A n \in Nat : n + 1 \in Nat /\ n <= n /\ n >= n
  OBVIOUS

\* What the handle keeps is a version the asset has not gone back behind; a
\* call that nobody overtook makes neither part of the handle older.
LEMMA KeepStep ==
    ASSUME Server, InfoNotOlder, NEW g \in Goroutines, CallInv(call[g]), call[g].net = "answered",
           follows(call[g]) = "none", outcome(call[g]) = "", Keep(g, kept(call[g])), UNCHANGED <<assets, clock>>
    PROVE  Server' /\ Forward /\ InfoNotOlder'
  <1> DEFINE c == call[g]
  <1>1. /\ clock \in Nat /\ stores \in Nat /\ handle \in [cfg : Nat, info : Nat, level : Nat]
        /\ NotPassed(handle.cfg) /\ c.ver \in Nat /\ assets[1] \in Nat
    BY ManagerAssumption DEF Server, CallInv, Version
  <1>2. ASSUME c.op \in Writing
        PROVE  /\ c.ver # 0 /\ NotPassed(c.ver)
               /\ c.began = stores /\ ~raced => handle.cfg <= c.ver
    <2>1. c.resp = "ok"
      BY <1>2, SuccessIsOk DEF CallInv, Writing
    <2>2. c.op = "update" => c.at # "update"
      <3>1. jsonRequest(c) = ""
        BY <2>1 DEF jsonRequest, IsErrorResponse, ToError
      <3> QED BY <3>1 DEF follows
    <2>3. c.at \in {"info", "command"}
      <3>1. c.at # "returned"
        BY <2>1 DEF CallInv, Answer
      <3> QED BY <1>2, <2>2, <3>1 DEF CallInv, Course, Writing
    <2> QED BY <1>2, <2>1, <2>3 DEF CallInv, Version
  <1>3. /\ handle' = kept(c)
        /\ stores' = IF handle'.cfg # handle.cfg \/ handle'.info # handle.info THEN stores + 1 ELSE stores
    BY DEF Keep
  <1>9. raced' = (raced \/ (c.op \in Writing /\ stores # c.began))
    BY DEF Keep, Writing
  <1>4. raced => raced'
    BY <1>9
  <1>5. c.op \in Writing /\ ~raced' => c.began = stores /\ ~raced
    BY <1>9
  <1>10. clock' \in Nat /\ clock <= clock' /\ assets'[1] = assets[1]
    BY <1>1, Counting, Zenon
  <1> HIDE DEF c
  <1>6. CASE c.op \in {"update", "reset", "replace"}
    <2>1. /\ handle' \in [cfg : Nat, info : Nat, level : Nat]
          /\ handle'.cfg = c.ver /\ handle'.info = c.ver
      BY <1>1, <1>3, <1>6 DEF kept, loadConfig
    <2>2. stores' \in Nat /\ ((stores' = stores /\ handle'.cfg = handle.cfg) \/ stores' = stores + 1)
      BY <1>1, <1>3, <2>1, Counting, Zenon
    <2>3. NotPassed(c.ver)
      BY <1>2, <1>6 DEF Writing
    <2>4. Server'
      BY <1>1, <2>1, <2>2, <2>3 DEF Server, NotPassed
    <2>5. Forward
      BY <1>4, <1>10, <2>2, Zenon DEF Forward
    <2>6. InfoNotOlder'
      BY <1>1, <2>1, Counting, Zenon DEF InfoNotOlder
    <2> QED BY <2>4, <2>5, <2>6
  <1>7. CASE c.op = "information"
    <2>1. /\ handle' \in [cfg : Nat, info : Nat, level : Nat]
          /\ handle'.cfg = handle.cfg /\ handle'.info = c.ver
      BY <1>1, <1>3, <1>7 DEF kept
    <2>2. stores' \in Nat /\ ((stores' = stores /\ handle'.cfg = handle.cfg) \/ stores' = stores + 1)
      BY <1>1, <1>3, <2>1, Counting, Zenon
    <2>3. raced' \/ handle.cfg <= c.ver
      BY <1>2, <1>5, <1>7 DEF Writing
    <2>4. Server'
      BY <1>1, <2>1, <2>2 DEF Server, NotPassed
    <2>5. Forward
      BY <1>4, <1>10, <2>2, Zenon DEF Forward
    <2>6. InfoNotOlder'
      BY <1>1, <2>1, <2>3 DEF InfoNotOlder
    <2> QED BY <2>4, <2>5, <2>6
  <1>8. CASE c.op \notin Writing
    <2>1. /\ handle' \in [cfg : Nat, info : Nat, level : Nat]
          /\ handle'.cfg = handle.cfg /\ handle'.info = handle.info
      BY <1>1, <1>3, <1>8 DEF kept, Writing
    <2>2. stores' = stores
      BY <1>3, <2>1
    <2>3. Server'
      BY <1>1, <2>1, <2>2 DEF Server, NotPassed
    <2>4. Forward
      BY <1>1, <1>4, <1>10, <2>1, <2>2, Zenon DEF Forward
    <2>5. InfoNotOlder'
      BY <1>1, <1>4, <2>1 DEF InfoNotOlder
    <2> QED BY <2>3, <2>4, <2>5
  <1> QED BY <1>6, <1>7, <1>8 DEF Writing

\* A call goes on with its answer, or returns and the handle keeps what it read.
LEMMA ReceiveStep ==
    ASSUME ManagerInv, NEW g \in Goroutines, Receive(g)
    PROVE  ManagerInv'
  <1>1. Server /\ InfoNotOlder /\ DOMAIN call = Goroutines /\ CallInv(call[g]) /\ DOMAIN call[g] = Fields
    BY DEF ManagerInv, CallInv
  <1>2. g \in Calling /\ call[g].net = "answered" /\ UNCHANGED <<assets, clock>>
    BY DEF Receive
  <1>3. CASE follows(call[g]) # "none"
    <2>1. call' = [call EXCEPT ![g] = Request(call[g], follows(call[g]))] /\ UNCHANGED <<handle, stores, raced>>
      BY <1>3 DEF Receive
    <2> QED BY <1>2, <1>3, <2>1, FollowStep
  <1>4. CASE follows(call[g]) = "none"
    <2> DEFINE d == Return(call[g], outcome(call[g]))
    <2>1. /\ call' = [call EXCEPT ![g] = d]
          /\ outcome(call[g]) = "" => Keep(g, kept(call[g]))
          /\ outcome(call[g]) # "" => UNCHANGED <<handle, stores, raced>>
      BY <1>4 DEF Receive
    <2>2. Server' /\ Forward /\ InfoNotOlder'
      <3>1. CASE outcome(call[g]) = ""
        BY <1>1, <1>2, <1>4, <2>1, <3>1, KeepStep
      <3>2. CASE outcome(call[g]) # ""
        BY <1>1, <1>2, <2>1, <3>2, Quiet
      <3> QED BY <3>1, <3>2
    <2>3. /\ DOMAIN call'[g] = Fields /\ call'[g].op = call[g].op /\ call'[g].at = "returned"
          /\ call'[g].net = "none" /\ call'[g].resp = "none" /\ call'[g].ver = call[g].ver
          /\ call'[g].done = call[g].done /\ call'[g].began = 0 /\ call'[g].err = outcome(call[g])
      BY <1>1, <2>1 DEF Return, Fields, NoCall
    <2>4. \/ call'[g].err # ""
          \/ (call[g].op \in Mutating => call[g].done) /\ (call[g].op = "loadOrNew" => call[g].ver # 0)
      BY <1>1, <1>2, <1>4, <2>3, SuccessHasEffect
    <2>5. CallInv(call[g])'
      BY <1>1, <2>2, <2>3, <2>4, Ended
    <2> HIDE DEF d
    <2> QED BY <2>1, <2>2, <2>5, OneMoves DEF ManagerInv
  <1> QED BY <1>3, <1>4

\* The parts of a call that collecting a page leaves alone.
SameRequest(c, d) ==
    DOMAIN d = DOMAIN c /\ d.op = c.op /\ d.ver = c.ver /\ d.done = c.done /\ d.began = c.began

\* A list is none of the calls that change something.
LEMMA iterableStep ==
    ASSUME ManagerInv, NEW g \in Goroutines, iterableRequest(g)
    PROVE  ManagerInv'
  <1>1. Server /\ DOMAIN call = Goroutines /\ CallInv(call[g]) /\ DOMAIN call[g] = Fields
    BY DEF ManagerInv, CallInv
  <1>2. call[g].op \in Lists /\ UNCHANGED <<assets, clock, handle, stores, raced>>
    BY DEF iterableRequest
  <1> DEFINE c == collected(call[g])
             f == filteredMissing(finished(c))
             n == [c EXCEPT !.offset = nextOffset(c)]
  <1>3. PICK d :
          /\ call' = [call EXCEPT ![g] = d]
          /\ \/ \E e \in {call[g], c} : \E err : err # "" /\ d = Fail(e, err)
             \/ d = Return(f, "")
             \/ d = Request(n, "page")
    <2> DEFINE d == IF jsonRequest(call[g]) # "" THEN Fail(call[g], jsonRequest(call[g]))
                    ELSE IF c.last THEN Return(f, "")
                    ELSE IF ~hasLimit(c) THEN Fail(c, "limit")
                    ELSE Request(n, "page")
    <2>1. call' = [call EXCEPT ![g] = d]
      BY DEF iterableRequest
    <2>2. \/ \E e \in {call[g], c} : \E err : err # "" /\ d = Fail(e, err)
          \/ d = Return(f, "")
          \/ d = Request(n, "page")
      <3> HIDE DEF c, f, n
      <3> QED OBVIOUS
    <2> HIDE DEF d
    <2> QED BY <2>1, <2>2
  <1>4. SameRequest(call[g], c)
    BY <1>1 DEF SameRequest, collected, Fields, NoCall
  <1>5. SameRequest(call[g], f)
    <2> HIDE DEF c
    <2>1. SameRequest(call[g], finished(c))
      BY <1>1, <1>4 DEF SameRequest, finished, Fields, NoCall
    <2> DEFINE e == finished(c)
    <2> HIDE DEF e
    <2>2. SameRequest(call[g], filteredMissing(e))
      BY <1>1, <2>1 DEF e, SameRequest, filteredMissing, Fields, NoCall
    <2> QED BY <2>2 DEF e
  <1>6. SameRequest(call[g], n)
    <2> HIDE DEF c
    <2> QED BY <1>1, <1>4 DEF SameRequest, Fields, NoCall
  <1> HIDE DEF c, f, n
  <1>7. Server' /\ call'[g] = d
    BY <1>1, <1>2, <1>3, Quiet
  <1>8. CallInv(call[g])'
    <2>1. ASSUME NEW e \in {call[g], c}, NEW err, err # "", d = Fail(e, err)
          PROVE  CallInv(call[g])'
      <3>1. DOMAIN e = Fields /\ e.op = call[g].op /\ e.ver = call[g].ver /\ e.done = call[g].done
        BY <1>1, <1>4 DEF SameRequest
      <3>2. /\ DOMAIN d = Fields /\ d.op = call[g].op /\ d.at = "returned" /\ d.net = "none" /\ d.resp = "none"
            /\ d.ver = call[g].ver /\ d.done = call[g].done /\ d.began = 0 /\ d.err = err
        <4> DEFINE r == Fail(e, err)
        <4>1. /\ DOMAIN r = Fields /\ r.op = e.op /\ r.at = "returned" /\ r.net = "none" /\ r.resp = "none"
              /\ r.ver = e.ver /\ r.done = e.done /\ r.began = 0 /\ r.err = err
          BY <3>1, Failed
        <4> HIDE DEF r
        <4> QED BY <2>1, <3>1, <4>1, Zenon DEF r
      <3> QED BY <1>1, <1>7, <2>1, <3>2, Ended
    <2>2. CASE d = Return(f, "")
      <3>1. /\ DOMAIN d = Fields /\ d.op = call[g].op /\ d.at = "returned" /\ d.net = "none" /\ d.resp = "none"
            /\ d.ver = call[g].ver /\ d.done = call[g].done /\ d.began = 0
        BY <1>1, <1>5, <2>2 DEF SameRequest, Return, Fields, NoCall
      <3>2. call[g].op \notin Mutating /\ call[g].op # "loadOrNew"
        BY <1>2 DEF Lists, Mutating
      <3> QED BY <1>1, <1>7, <3>1, <3>2, Ended
    <2>3. CASE d = Request(n, "page")
      <3>1. /\ DOMAIN d = Fields /\ d.op = call[g].op /\ d.at = "page" /\ d.net = "sent" /\ d.resp = "none"
            /\ d.ver = call[g].ver /\ d.done = call[g].done /\ d.began = call[g].began
        BY <1>1, <1>6, <2>3 DEF SameRequest, Request, Fields, NoCall
      <3>2. Course(call[g])' /\ Effect(call[g])'
        BY <1>2, <1>7, <3>1 DEF Course, Effect, Lists, Mutating
      <3>3. Answer(call[g])'
        BY <1>7, <3>1 DEF Answer
      <3>4. Version(call[g])'
        <4>1. call[g].ver \in Nat /\ call[g].began \in Nat /\ call[g].began <= stores
          BY <1>1 DEF CallInv, Version
        <4> QED BY <1>2, <1>7, <3>1, <4>1, Zenon DEF Version
      <3> QED BY <1>7, <3>1, <3>2, <3>3, <3>4 DEF CallInv, Fields, NoCall
    <2> QED BY <1>3, <2>1, <2>2, <2>3
  <1> QED BY <1>2, <1>3, <1>8, AnswerOnly

-----------------------------------------------------------------------------
\* Every step keeps the inductive invariant.
LEMMA StepKeepsInv ==
    ASSUME ManagerInv, [ManagerStep]_managerVars
    PROVE  ManagerInv'
  <1>1. ASSUME NEW g \in Goroutines,
               HandleCalls(g) \/ AssetCalls(g) \/ Commands(g) \/ ListCalls(g)
        PROVE  ManagerInv'
    BY <1>1, Starts, StartStep
  <1>2. ASSUME NEW g \in Goroutines, Answers(g)
        PROVE  ManagerInv'
    BY <1>2, ServeStep, LoseStep, ReceiveStep, iterableStep, TimeoutStep DEF Answers
  <1>3. CASE OtherClient
    BY <1>3, OtherClientStep
  <1>4. CASE UNCHANGED managerVars
    <2>1. UNCHANGED <<assets, clock, handle, stores, raced>> /\ call' = call
      BY <1>4 DEF managerVars
    <2>2. Server' /\ Forward /\ InfoNotOlder'
      BY <2>1, Quiet DEF ManagerInv
    <2>3. ASSUME NEW h \in Goroutines PROVE CallInv(call[h])'
      <3>1. SameCall(call[h], call'[h]) /\ CallInv(call[h]) /\ Server
        BY <2>1 DEF SameCall, ManagerInv
      <3> QED BY <2>2, <3>1, Bystander
    <2> QED BY <2>1, <2>2, <2>3 DEF ManagerInv
  <1> QED BY <1>1, <1>2, <1>3, <1>4 DEF ManagerStep

\* It holds of a program that has made no call yet.
LEMMA InitHasInv == ManagerInit => ManagerInv
  <1> SUFFICES ASSUME ManagerInit PROVE ManagerInv
    OBVIOUS
  <1>1. Server
    BY ManagerAssumption DEF ManagerInit, Server, NotPassed
  <1>2. DOMAIN call = Goroutines /\ InfoNotOlder
    BY DEF ManagerInit, InfoNotOlder
  <1>3. ASSUME NEW g \in Goroutines PROVE CallInv(call[g])
    <2>1. call[g] = NoCall
      BY DEF ManagerInit
    <2>2. CallInv(NoCall)
      BY <1>1 DEF Server, CallInv, Fields, NoCall, Course, Answer, Version, Effect, Mutating
    <2> QED BY <2>1, <2>2
  <1> QED BY <1>1, <1>2, <1>3 DEF ManagerInv

(***************************************************************************)
(* Versions only grow, a call waits for a request of its own course, what  *)
(* it read has not been undone, and the mark of its effect is there from   *)
(* the answer on (manager.go, streams.go, consumers.go).                   *)
(***************************************************************************)
THEOREM ManagerInvariant == ManagerSpec => []ManagerInv
  <1> QED BY InitHasInv, StepKeepsInv, PTL DEF ManagerSpec

(***************************************************************************)
(* A call that changes something returns no error only when the server did *)
(* it, for any number of goroutines, calls, losses and mangled answers.    *)
(***************************************************************************)
THEOREM SuccessDone == ManagerSpec => []SuccessMeansDone
  <1>1. ManagerInv => SuccessMeansDone
    BY DEF ManagerInv, CallInv, Effect, SuccessMeansDone, Succeeded
  <1> QED BY <1>1, ManagerInvariant, PTL

(***************************************************************************)
(* A handle's information is older than its configuration only after calls *)
(* that write the handle overlapped (streams.go:231, consumers.go:230).    *)
(***************************************************************************)
THEOREM InfoKeepsUp == ManagerSpec => []InfoNotOlder
  <1>1. ManagerInv => InfoNotOlder
    BY DEF ManagerInv
  <1> QED BY <1>1, ManagerInvariant, PTL

-----------------------------------------------------------------------------
(* StreamReader: the invariant of the pager.                               *)

Msgs == Seqs \cup {0}

\* The messages everywhere are in M; 0 is a status.
Carries(M) ==
    /\ stored \subseteq M \ {0} /\ out \in Seq(M \ {0})
    /\ q \in Seq(M) /\ wire \in Seq(M)

PagerRec == [phase : {"new", "failed", "ready", "wait", "closed"}, direct : BOOLEAN, seen : Int,
             curSeq : Nat, sub : BOOLEAN]
SeenRec == [stays : SUBSET Seqs, slow : BOOLEAN, lost : BOOLEAN, ended : BOOLEAN, added : BOOLEAN,
            nexts : Nat]
AskTypes == [kind : {"fetch", "get"}, n : Nat]

PagerTypes ==
    /\ Carries(Msgs)
    /\ cons \subseteq stored
    /\ pgr \in PagerRec /\ seenBy \in SeenRec
    /\ asks \in Seq(AskTypes)
    /\ seenBy.stays \subseteq stored

Active == pgr.phase \in {"ready", "wait"}

\* Before and after it is read nothing is on its way.
Apart ==
    ~Active => /\ asks = << >> /\ wire = << >> /\ q = << >> /\ cons = {}
               /\ pgr.phase # "closed" => out = << >> /\ ~seenBy.ended /\ pgr.seen = -1

\* A message that was not published yet is nowhere.
Unpublished == ~seenBy.added => Carries(Msgs \ {MaxSeq})

\* One page is under way, and what is left of it fits in the channel.
PageFits ==
    IF pgr.seen = -1 THEN asks = << >> /\ q = << >> /\ wire = << >>
    ELSE /\ pgr.seen >= 0
         /\ IF asks = << >> THEN pgr.seen + Len(q) + Len(wire) <= PageSize
            ELSE pgr.seen = 0 /\ asks = <<fetchBatch>> /\ q = << >> /\ wire = << >>

Has(f, n, s) == \E i \in 1..n : f[i] = s

\* What was returned (o), what is on its way (L) and what the consumer has
\* still to deliver (C) follow each other, each in order and once.
InOrder(o, L, C) ==
    /\ \A i, j \in 1..Len(o) : i < j => o[i] < o[j]
    /\ \A i, j \in 1..Len(L) : i < j /\ L[i] # 0 /\ L[j] # 0 => L[i] < L[j]
    /\ \A i \in 1..Len(o), j \in 1..Len(L) : L[j] # 0 => o[i] < L[j]
    /\ \A s \in C : /\ \A i \in 1..Len(o) : o[i] < s
                    /\ \A i \in 1..Len(L) : L[i] < s

\* Nothing of S is passed over, and before a status all of it comes.
Covers(S, o, L, C) ==
    /\ \A s \in S : Has(o, Len(o), s) \/ Has(L, Len(L), s) \/ s \in C
    /\ \A k \in 1..Len(L) : L[k] = 0 => \A s \in S : Has(o, Len(o), s) \/ Has(L, k - 1, s)

\* The pager with a consumer.
PullInv ==
    /\ PageFits
    /\ InOrder(out, q \o wire, cons)
    /\ Active => Covers(seenBy.stays, out, q \o wire, cons)
    /\ seenBy.ended => \A s \in seenBy.stays : Has(out, Len(out), s)

\* The answer m to a direct get from n on.
AnswersGet(m, n) == (n \in seenBy.stays => m = n) /\ (m = 0 => \A s \in seenBy.stays : s < n)

\* Direct gets are made one at a time, and what stays is returned up to where they are.
DirectInv ==
    /\ seenBy.ended => \A s \in seenBy.stays : Has(out, Len(out), s)
    /\ pgr.phase = "ready" => /\ asks = << >> /\ q = << >> /\ wire = << >>
                              /\ \A s \in seenBy.stays : s < pgr.curSeq => Has(out, Len(out), s)
    /\ pgr.phase = "wait" =>
          /\ pgr.curSeq > 0
          /\ \A s \in seenBy.stays : s < pgr.curSeq - 1 => Has(out, Len(out), s)
          /\ \/ q = << >> /\ wire = << >> /\ asks = <<[kind |-> "get", n |-> pgr.curSeq - 1]>>
             \/ asks = << >> /\ \E m \in Msgs : AnswersGet(m, pgr.curSeq - 1)
                                   /\ ((q = <<m>> /\ wire = << >>) \/ (q = << >> /\ wire = <<m>>))

PagerInv ==
    /\ PagerTypes /\ Apart /\ Unpublished
    /\ ~seenBy.lost /\ ~pgr.direct => PullInv
    /\ ~seenBy.lost /\ ~seenBy.slow /\ pgr.direct => DirectInv

-----------------------------------------------------------------------------
(* Induction over the naturals, in the form of sets.                       *)

LEMMA NatMin == ASSUME NEW T, T \subseteq Nat, T # {} PROVE \E n \in T : \A m \in T : n <= m
<1> DEFINE R == OpToRel(<, Nat)
<1>1. IsWellFoundedOn(R, Nat)
  BY NatLessThanWellFounded
<1>2. \A m, n \in Nat : m < n => <<m, n>> \in R
  BY DEF OpToRel
<1> HIDE DEF R
<1>3. PICK n \in T : \A m \in T : ~(<<m, n>> \in R)
  BY <1>1, WFMin
<1>4. ASSUME NEW m \in T PROVE n <= m
  <2>1. ~(m < n)
    BY <1>2, <1>3
  <2> QED BY <2>1
<1> QED BY <1>4

LEMMA SetInduction == ASSUME NEW T, 0 \in T, \A n \in Nat : n \in T => n + 1 \in T PROVE Nat \subseteq T
<1> SUFFICES ASSUME ~(Nat \subseteq T) PROVE FALSE
  OBVIOUS
<1> DEFINE C == Nat \ T
<1>1. C # {} /\ C \subseteq Nat
  OBVIOUS
<1>2. PICK n \in C : \A m \in C : n <= m
  BY <1>1, NatMin
<1>3. n # 0 /\ n \in Nat
  OBVIOUS
<1>4. n - 1 \in Nat /\ n - 1 \notin C
  BY <1>2, <1>3
<1> QED BY <1>3, <1>4

\* The element that the sum of a set takes first.

-----------------------------------------------------------------------------
(* Sets of sequences: their least and largest, the first n, and the sorted *)
(* list.                                                                   *)

LEMMA SeqsNat == /\ Seqs \subseteq Nat /\ MaxSeq \in Seqs /\ 0 \notin Seqs
                 /\ \A t \in Seqs : t \in Nat /\ MaxSeq - t \in Nat /\ t > 0 /\ t <= MaxSeq
BY ReaderAssumption DEF Seqs

\* A set of stream sequences is finite.
LEMMA SeqsFinite == \A S \in SUBSET Seqs : IsFiniteSet(S) /\ Cardinality(S) \in Nat /\ (Cardinality(S) = 0 <=> S = {})
<1>1. IsFiniteSet(Seqs)
  BY FS_Interval, ReaderAssumption DEF Seqs
<1> QED BY <1>1, FS_Subset, FS_CardinalityType, FS_EmptySet

LEMMA LeastOf == \A S \in SUBSET Seqs : S # {} => least(S) \in S /\ \A t \in S : least(S) <= t
<1> SUFFICES ASSUME NEW S \in SUBSET Seqs, S # {} PROVE least(S) \in S /\ \A t \in S : least(S) <= t
  OBVIOUS
<1>1. S \subseteq Nat
  BY DEF Seqs
<1>2. \E s \in S : \A t \in S : s <= t
  BY <1>1, NatMin
<1> QED BY <1>2 DEF least

LEMMA LargestOf == \A S \in SUBSET Seqs : S # {} => \E m \in S : \A t \in S : t <= m
<1> SUFFICES ASSUME NEW S \in SUBSET Seqs, S # {} PROVE \E m \in S : \A t \in S : t <= m
  OBVIOUS
<1> DEFINE T == {MaxSeq - t : t \in S}
<1>1. T \subseteq Nat /\ T # {}
  <2>1. \A t \in S : MaxSeq - t \in Nat
    BY SeqsNat
  <2> QED BY <2>1
<1>2. PICK d \in T : \A e \in T : d <= e
  BY <1>1, NatMin
<1>3. PICK m \in S : d = MaxSeq - m
  OBVIOUS
<1>4. ASSUME NEW t \in S PROVE t <= m
  <2>1. MaxSeq - m <= MaxSeq - t
    BY <1>2, <1>3
  <2> QED BY <2>1, ReaderAssumption DEF Seqs
<1> QED BY <1>4

\* What a pull of n messages takes: the first n, or all there are.
Takes(B, S, n) ==
    /\ B \subseteq S /\ IsFiniteSet(B) /\ Cardinality(B) \in Nat /\ Cardinality(B) <= n
    /\ Cardinality(B) < n => B = S
    /\ \A s \in B, t \in S \ B : s < t

LEMMA FirstsFacts == \A S \in SUBSET Seqs : \A n \in Nat : Takes(firsts(S, n), S, n)
<1> SUFFICES ASSUME NEW S \in SUBSET Seqs, NEW n \in Nat PROVE Takes(firsts(S, n), S, n)
  OBVIOUS
<1> DEFINE B == firsts(S, n)
           Under(s) == {t \in S : t < s}
<1>0. \A s : Under(s) \in SUBSET Seqs
  OBVIOUS
<1>1. B \in SUBSET S /\ B \in SUBSET Seqs /\ \A s \in S : s \in B <=> Cardinality(Under(s)) < n
  BY DEF firsts
<1>2. IsFiniteSet(B) /\ Cardinality(B) \in Nat /\ \A s : IsFiniteSet(Under(s)) /\ Cardinality(Under(s)) \in Nat
  BY <1>0, <1>1, SeqsFinite
<1>u. \A s, t : t \in Under(s) <=> (t \in S /\ t < s)
  OBVIOUS
<1> HIDE DEF B, Under
<1>3. ASSUME NEW s \in B, NEW t \in S \ B PROVE s < t
  <2>1. SUFFICES ASSUME ~(s < t) PROVE FALSE
    OBVIOUS
  <2>2. s \in Nat /\ t \in Nat /\ t <= s /\ s \in S
    BY <1>1, <2>1 DEF Seqs
  <2>3. Under(t) \subseteq Under(s)
    <3>1. ASSUME NEW x \in Under(t) PROVE x \in Under(s)
      <4>1. x \in S /\ x < t /\ x \in Nat
        BY <1>u, SeqsNat
      <4> QED BY <4>1, <2>2, <1>u
    <3> QED BY <3>1
  <2>4. Cardinality(Under(t)) <= Cardinality(Under(s))
    BY <1>2, <2>3, FS_Subset
  <2>5. Cardinality(Under(t)) < n
    BY <1>1, <1>2, <2>2, <2>4
  <2> QED BY <1>1, <2>5
<1>4. Cardinality(B) < n => B = S
  <2> SUFFICES ASSUME Cardinality(B) < n, B # S PROVE FALSE
    OBVIOUS
  <2>1. S \ B # {} /\ S \ B \in SUBSET Seqs
    BY <1>1
  <2>2. PICK u \in S \ B : \A t \in S \ B : u <= t
    BY <2>1, LeastOf
  <2>3. Under(u) \subseteq B
    <3>1. ASSUME NEW x \in Under(u) PROVE x \in B
      <4>1. x \in S /\ x < u /\ x \in Nat /\ u \in Nat
        BY <1>u, SeqsNat
      <4> QED BY <4>1, <2>2
    <3> QED BY <3>1
  <2>4. Cardinality(Under(u)) <= Cardinality(B)
    BY <1>2, <2>3, FS_Subset
  <2>5. Cardinality(Under(u)) < n
    BY <1>2, <2>4
  <2> QED BY <1>1, <2>5
<1>5. Cardinality(B) <= n
  <2>1. CASE B = {}
    BY <2>1, FS_EmptySet
  <2>2. CASE B # {}
    <3>1. PICK m \in B : \A t \in B : t <= m
      BY <1>1, <2>2, LargestOf
    <3>2. B \ {m} \subseteq Under(m)
      <4>1. ASSUME NEW x \in B \ {m} PROVE x \in Under(m)
        <5>1. x \in S /\ x <= m /\ x # m /\ x \in Nat /\ m \in Nat
          BY <1>1, <3>1 DEF Seqs
        <5> QED BY <5>1, <1>u
      <4> QED BY <4>1
    <3>3. Cardinality(B \ {m}) = Cardinality(B) - 1
      BY <1>2, FS_RemoveElement
    <3>4. Cardinality(B \ {m}) <= Cardinality(Under(m))
      BY <1>2, <3>2, FS_Subset
    <3>5. Cardinality(Under(m)) < n
      BY <1>1
    <3> QED BY <1>2, <3>3, <3>4, <3>5
  <2> QED BY <2>1, <2>2
<1> QED BY <1>1, <1>2, <1>3, <1>4, <1>5 DEF B, Takes

Smaller(n) == {S \in SUBSET Seqs : Cardinality(S) <= n}
IsSort(g, D) == g = [S \in D |-> IF S = {} THEN << >> ELSE <<least(S)>> \o g[S \ {least(S)}]]

LEMMA WithoutLeast == \A S \in SUBSET Seqs : S # {} =>
    S \ {least(S)} \in SUBSET Seqs /\ Cardinality(S \ {least(S)}) = Cardinality(S) - 1
BY SeqsFinite, LeastOf, FS_RemoveElement

\* The list of a set exists.
LEMMA SortExists == \E g : IsSort(g, SUBSET Seqs)
<1> DEFINE T == {n \in Nat : \E g : IsSort(g, Smaller(n))}
<1>1. 0 \in T
  <2>1. \A S \in Smaller(0) : S = {}
    BY SeqsFinite DEF Smaller
  <2>2. IsSort([S \in Smaller(0) |-> << >>], Smaller(0))
    BY <2>1 DEF IsSort
  <2> QED BY <2>2
<1>2. ASSUME NEW n \in Nat, n \in T PROVE n + 1 \in T
  <2>1. PICK g : IsSort(g, Smaller(n))
    BY <1>2
  <2> DEFINE val(S) == IF S = {} THEN << >> ELSE <<least(S)>> \o g[S \ {least(S)}]
             h == [S \in Smaller(n + 1) |-> val(S)]
  <2>2. \A S \in Smaller(n) : g[S] = val(S)
    BY <2>1 DEF IsSort
  <2>3. ASSUME NEW S \in Smaller(n + 1), S # {} PROVE S \ {least(S)} \in Smaller(n)
    <3>1. S \in SUBSET Seqs /\ Cardinality(S) <= n + 1 /\ Cardinality(S) \in Nat
      BY SeqsFinite DEF Smaller
    <3>2. S \ {least(S)} \in SUBSET Seqs /\ Cardinality(S \ {least(S)}) = Cardinality(S) - 1
      BY <2>3, <3>1, WithoutLeast
    <3> QED BY <3>1, <3>2 DEF Smaller
  <2>5. Smaller(n) \subseteq Smaller(n + 1)
    BY SeqsFinite DEF Smaller
  <2>6. ASSUME NEW S \in Smaller(n) PROVE h[S] = g[S]
    BY <2>2, <2>5
  <2>7. ASSUME NEW S \in Smaller(n + 1)
        PROVE  h[S] = IF S = {} THEN << >> ELSE <<least(S)>> \o h[S \ {least(S)}]
    <3>1. CASE S = {}
      BY <3>1
    <3>2. CASE S # {}
      <4>1. h[S \ {least(S)}] = g[S \ {least(S)}]
        BY <2>3, <2>6, <3>2
      <4> QED BY <3>2, <4>1
    <3> QED BY <3>1, <3>2
  <2>8. h = [S \in Smaller(n + 1) |-> h[S]]
    OBVIOUS
  <2> HIDE DEF h
  <2>9. IsSort(h, Smaller(n + 1))
    BY <2>7, <2>8 DEF IsSort
  <2> QED BY <2>9
<1> HIDE DEF T
<1>3. MaxSeq \in T
  BY <1>1, <1>2, SetInduction, ReaderAssumption
<1>4. Smaller(MaxSeq) = SUBSET Seqs
  <2>1. IsFiniteSet(Seqs) /\ Cardinality(Seqs) = MaxSeq
    BY FS_Interval, ReaderAssumption DEF Seqs
  <2>2. ASSUME NEW S \in SUBSET Seqs PROVE Cardinality(S) <= MaxSeq
    BY <2>1, FS_Subset
  <2> QED BY <2>2 DEF Smaller
<1> QED BY <1>3, <1>4 DEF T

LEMMA SortedIs == \A S \in SUBSET Seqs : sorted[S] = IF S = {} THEN << >> ELSE <<least(S)>> \o sorted[S \ {least(S)}]
<1>1. PICK f : IsSort(f, SUBSET Seqs)
  BY SortExists
<1>2. f = [S \in SUBSET Seqs |-> IF S = {} THEN << >> ELSE <<least(S)>> \o f[S \ {least(S)}]]
  BY <1>1 DEF IsSort
<1>3. sorted = [S \in SUBSET Seqs |-> IF S = {} THEN << >> ELSE <<least(S)>> \o sorted[S \ {least(S)}]]
  BY <1>2, Zenon DEF sorted
<1> QED BY <1>3

\* f lists S in order.
Sorts(f, S) ==
    /\ f \in Seq(Seqs) /\ Len(f) = Cardinality(S)
    /\ \A i, j \in 1..Len(f) : i < j => f[i] < f[j]
    /\ \A i \in 1..Len(f) : f[i] \in S
    /\ \A s \in S : \E i \in 1..Len(f) : f[i] = s

LEMMA Concat ==
  ASSUME NEW S, NEW s \in Seq(S), NEW t \in Seq(S)
  PROVE  /\ s \o t \in Seq(S) /\ Len(s \o t) = Len(s) + Len(t)
         /\ \A i \in 1..Len(s) : (s \o t)[i] = s[i]
         /\ \A i \in 1..Len(t) : (s \o t)[Len(s) + i] = t[i]
         /\ \A i \in 1..Len(s) + Len(t) : i > Len(s) => (s \o t)[i] = t[i - Len(s)] /\ i - Len(s) \in 1..Len(t)
OBVIOUS

LEMMA SortedFacts == \A S \in SUBSET Seqs : Sorts(sorted[S], S)
<1> DEFINE T == {n \in Nat : \A S \in Smaller(n) : Sorts(sorted[S], S)}
<1>1. 0 \in T
  <2>1. ASSUME NEW S \in Smaller(0) PROVE Sorts(sorted[S], S)
    <3>1. S = {} /\ Cardinality(S) = 0
      BY SeqsFinite DEF Smaller
    <3>2. sorted[S] = << >>
      BY <3>1, SortedIs
    <3> QED BY <3>1, <3>2 DEF Sorts
  <2> QED BY <2>1
<1>2. ASSUME NEW n \in Nat, n \in T PROVE n + 1 \in T
  <2>1. ASSUME NEW S \in Smaller(n + 1) PROVE Sorts(sorted[S], S)
    <3>1. S \in SUBSET Seqs /\ Cardinality(S) <= n + 1 /\ Cardinality(S) \in Nat
      BY SeqsFinite DEF Smaller
    <3>2. CASE S = {}
      <4>1. sorted[S] = << >> /\ Cardinality(S) = 0
        BY <3>2, SortedIs, SeqsFinite
      <4> QED BY <3>2, <4>1 DEF Sorts
    <3>3. CASE S # {}
      <4>1. S \ {least(S)} \in SUBSET Seqs /\ Cardinality(S \ {least(S)}) = Cardinality(S) - 1
        BY <3>1, <3>3, WithoutLeast
      <4>2. S \ {least(S)} \in Smaller(n)
        BY <3>1, <4>1 DEF Smaller
      <4>3. PICK m : m = least(S)
        OBVIOUS
      <4>4. PICK f : f = sorted[S \ {m}]
        OBVIOUS
      <4>5. Sorts(f, S \ {m})
        BY <1>2, <4>2, <4>3, <4>4
      <4>6. PICK e : e = sorted[S]
        OBVIOUS
      <4>7. e = <<m>> \o f
        BY <3>1, <3>3, <4>3, <4>4, <4>6, SortedIs
      <4>8. m \in S /\ m \in Seqs /\ \A t \in S : m <= t
        BY <3>1, <3>3, <4>3, LeastOf
      <4>9. f \in Seq(Seqs) /\ Len(f) \in Nat /\ <<m>> \in Seq(Seqs) /\ Len(<<m>>) = 1 /\ <<m>>[1] = m
        BY <4>5, <4>8 DEF Sorts
      <4>10. /\ e \in Seq(Seqs) /\ Len(e) = 1 + Len(f)
             /\ e[1] = m
             /\ \A i \in 1..Len(e) : i > 1 => e[i] = f[i - 1] /\ i - 1 \in 1..Len(f)
             /\ \A i \in 1..Len(f) : e[1 + i] = f[i]
        <5>1. /\ e \in Seq(Seqs) /\ Len(e) = Len(<<m>>) + Len(f)
              /\ \A i \in 1..Len(<<m>>) : e[i] = <<m>>[i]
              /\ \A i \in 1..Len(f) : e[Len(<<m>>) + i] = f[i]
              /\ \A i \in 1..Len(<<m>>) + Len(f) : i > Len(<<m>>) => e[i] = f[i - Len(<<m>>)] /\ i - Len(<<m>>) \in 1..Len(f)
          BY <4>7, <4>9, Concat
        <5> QED BY <4>9, <5>1
      <4>11. Len(e) = Cardinality(S)
        BY <4>1, <4>3, <4>5, <4>10, <3>1 DEF Sorts
      <4>12. \A i \in 1..Len(f) : f[i] \in S /\ f[i] # m /\ f[i] \in Nat /\ m < f[i]
        <5> SUFFICES ASSUME NEW i \in 1..Len(f) PROVE f[i] \in S /\ f[i] # m /\ f[i] \in Nat /\ m < f[i]
          OBVIOUS
        <5>1. f[i] \in S \ {m}
          BY <4>5 DEF Sorts
        <5>2. f[i] \in Nat /\ m \in Nat /\ m <= f[i]
          BY <3>1, <4>8, <5>1, SeqsNat
        <5> QED BY <5>1, <5>2
      <4>13. ASSUME NEW i \in 1..Len(e), NEW j \in 1..Len(e), i < j PROVE e[i] < e[j]
        <5>1. e[j] = f[j - 1] /\ j - 1 \in 1..Len(f)
          BY <4>9, <4>10, <4>13
        <5>2. CASE i = 1
          BY <4>10, <4>12, <5>1, <5>2
        <5>3. CASE i # 1
          <6>1. e[i] = f[i - 1] /\ i - 1 \in 1..Len(f) /\ i - 1 < j - 1
            BY <4>9, <4>10, <4>13, <5>3
          <6> QED BY <4>5, <5>1, <6>1 DEF Sorts
        <5> QED BY <5>2, <5>3
      <4>14. ASSUME NEW i \in 1..Len(e) PROVE e[i] \in S
        <5>1. CASE i = 1
          BY <4>8, <4>10, <5>1
        <5>2. CASE i # 1
          <6>1. e[i] = f[i - 1] /\ i - 1 \in 1..Len(f)
            BY <4>9, <4>10, <5>2
          <6> QED BY <4>12, <6>1
        <5> QED BY <5>1, <5>2
      <4>15. ASSUME NEW s \in S PROVE \E i \in 1..Len(e) : e[i] = s
        <5>1. CASE s = m
          <6>1. 1 \in 1..Len(e)
            BY <4>9, <4>10
          <6> QED BY <4>10, <5>1, <6>1
        <5>2. CASE s # m
          <6>1. PICK i \in 1..Len(f) : f[i] = s
            BY <4>5, <5>2 DEF Sorts
          <6>2. 1 + i \in 1..Len(e) /\ e[1 + i] = s
            BY <4>9, <4>10, <6>1
          <6> QED BY <6>2
        <5> QED BY <5>1, <5>2
      <4> QED BY <4>6, <4>10, <4>11, <4>13, <4>14, <4>15 DEF Sorts
    <3> QED BY <3>2, <3>3
  <2> QED BY <2>1
<1> HIDE DEF T
<1>3. MaxSeq \in T
  BY <1>1, <1>2, SetInduction, ReaderAssumption
<1>4. ASSUME NEW S \in SUBSET Seqs PROVE S \in Smaller(MaxSeq)
  <2>1. IsFiniteSet(Seqs) /\ Cardinality(Seqs) = MaxSeq
    BY FS_Interval, ReaderAssumption DEF Seqs
  <2>2. Cardinality(S) <= MaxSeq
    BY <2>1, FS_Subset
  <2> QED BY <2>2 DEF Smaller
<1> QED BY <1>3, <1>4 DEF T

-----------------------------------------------------------------------------
(* How what is on its way changes.                                         *)

\* The typed parts: returned, on its way, to be delivered.
Flow(o, L, C) == o \in Seq(Seqs) /\ L \in Seq(Msgs) /\ C \in SUBSET Seqs

LEMMA MsgsNat == \A m \in Msgs : m \in Nat /\ (m # 0 => m \in Seqs /\ m > 0)
BY SeqsNat DEF Msgs

LEMMA Elements ==
  ASSUME NEW o, NEW L, NEW C, Flow(o, L, C)
  PROVE  /\ Len(o) \in Nat /\ Len(L) \in Nat
         /\ \A i \in 1..Len(o) : o[i] \in Seqs /\ o[i] \in Nat
         /\ \A i \in 1..Len(L) : L[i] \in Msgs /\ L[i] \in Nat
         /\ \A s \in C : s \in Seqs /\ s \in Nat /\ s > 0
<1>1. Len(o) \in Nat /\ Len(L) \in Nat
  BY DEF Flow
<1>2. \A i \in 1..Len(o) : o[i] \in Seqs
  BY DEF Flow
<1>3. \A i \in 1..Len(L) : L[i] \in Msgs
  BY DEF Flow
<1>4. \A s \in C : s \in Seqs
  BY DEF Flow
<1> QED BY <1>1, <1>2, <1>3, <1>4, SeqsNat, MsgsNat

\* The caller takes the first.
Taken(o, L, p, K) ==
    /\ L # << >> /\ K = Tail(L)
    /\ p = IF Head(L) = 0 THEN o ELSE Append(o, Head(L))

LEMMA TakenFacts ==
  ASSUME NEW o, NEW L, NEW C, Flow(o, L, C), NEW p, NEW K, Taken(o, L, p, K)
  PROVE  /\ Flow(p, K, C)
         /\ Len(L) > 0 /\ L[1] = Head(L) /\ Len(K) = Len(L) - 1
         /\ \A i \in 1..Len(K) : K[i] = L[i + 1] /\ i + 1 \in 1..Len(L)
         /\ Head(L) = 0 => p = o
         /\ Head(L) # 0 => Len(p) = Len(o) + 1 /\ p[Len(o) + 1] = Head(L) /\ Head(L) \in Seqs
         /\ \A i \in 1..Len(o) : p[i] = o[i] /\ i \in 1..Len(p)
<1>1. L \in Seq(Msgs) /\ L # << >> /\ K = Tail(L) /\ o \in Seq(Seqs)
  BY DEF Flow, Taken
<1>2. /\ K \in Seq(Msgs) /\ Len(L) > 0 /\ L[1] = Head(L) /\ Len(K) = Len(L) - 1
      /\ Head(L) \in Msgs /\ Len(L) \in Nat
  BY <1>1
<1>3. \A i \in 1..Len(K) : K[i] = L[i + 1] /\ i + 1 \in 1..Len(L)
  BY <1>1, <1>2
<1>4. CASE Head(L) = 0
  BY <1>1, <1>2, <1>3, <1>4 DEF Flow, Taken
<1>5. CASE Head(L) # 0
  <2>1. Head(L) \in Seqs
    BY <1>2, <1>5, MsgsNat
  <2>2. p = Append(o, Head(L))
    BY <1>5 DEF Taken
  <2>3. /\ p \in Seq(Seqs) /\ Len(p) = Len(o) + 1 /\ p[Len(o) + 1] = Head(L) /\ Len(o) \in Nat
        /\ \A i \in 1..Len(o) : p[i] = o[i]
    BY <1>1, <2>1, <2>2
  <2>4. \A i \in 1..Len(o) : i \in 1..Len(p)
    BY <2>3
  <2> QED BY <1>2, <1>3, <1>5, <2>1, <2>3, <2>4 DEF Flow
<1> QED BY <1>4, <1>5

LEMMA TakenOrder ==
  ASSUME NEW o, NEW L, NEW C, Flow(o, L, C), NEW p, NEW K, Taken(o, L, p, K), InOrder(o, L, C)
  PROVE  InOrder(p, K, C)
<1>1. /\ Flow(p, K, C)
      /\ Len(L) > 0 /\ L[1] = Head(L) /\ Len(K) = Len(L) - 1
      /\ \A i \in 1..Len(K) : K[i] = L[i + 1] /\ i + 1 \in 1..Len(L)
      /\ Head(L) = 0 => p = o
      /\ Head(L) # 0 => Len(p) = Len(o) + 1 /\ p[Len(o) + 1] = Head(L) /\ Head(L) \in Seqs
      /\ \A i \in 1..Len(o) : p[i] = o[i] /\ i \in 1..Len(p)
  BY TakenFacts
<1>2. Len(L) \in Nat /\ Len(o) \in Nat /\ 1 \in 1..Len(L)
  BY <1>1, Elements
<1>3. \A i \in 1..Len(p) : (i \in 1..Len(o) /\ p[i] = o[i]) \/ (i = Len(o) + 1 /\ p[i] = L[1] /\ L[1] # 0)
  BY <1>1, <1>2
<1>4. ASSUME NEW i \in 1..Len(p), NEW j \in 1..Len(p), i < j PROVE p[i] < p[j]
  <2>1. i \in 1..Len(o) /\ p[i] = o[i]
    BY <1>1, <1>2, <1>3, <1>4
  <2>2. CASE j \in 1..Len(o)
    BY <1>1, <1>4, <2>1, <2>2 DEF InOrder
  <2>3. CASE j = Len(o) + 1 /\ p[j] = L[1] /\ L[1] # 0
    BY <1>2, <2>1, <2>3 DEF InOrder
  <2> QED BY <1>3, <2>2, <2>3
<1>5. ASSUME NEW i \in 1..Len(K), NEW j \in 1..Len(K), i < j, K[i] # 0, K[j] # 0 PROVE K[i] < K[j]
  <2>1. K[i] = L[i + 1] /\ K[j] = L[j + 1] /\ i + 1 \in 1..Len(L) /\ j + 1 \in 1..Len(L) /\ i + 1 < j + 1
    BY <1>1, <1>5
  <2> QED BY <1>5, <2>1 DEF InOrder
<1>6. ASSUME NEW i \in 1..Len(p), NEW j \in 1..Len(K), K[j] # 0 PROVE p[i] < K[j]
  <2>1. K[j] = L[j + 1] /\ j + 1 \in 1..Len(L) /\ 1 < j + 1
    BY <1>1
  <2>2. CASE i \in 1..Len(o) /\ p[i] = o[i]
    BY <1>6, <2>1, <2>2 DEF InOrder
  <2>3. CASE i = Len(o) + 1 /\ p[i] = L[1] /\ L[1] # 0
    BY <1>2, <1>6, <2>1, <2>3 DEF InOrder
  <2> QED BY <1>3, <2>2, <2>3
<1>7. ASSUME NEW s \in C PROVE /\ \A i \in 1..Len(p) : p[i] < s
                               /\ \A i \in 1..Len(K) : K[i] < s
  BY <1>1, <1>2, <1>3 DEF InOrder
<1> QED BY <1>4, <1>5, <1>6, <1>7 DEF InOrder

LEMMA TakenCovers ==
  ASSUME NEW o, NEW L, NEW C, Flow(o, L, C), NEW p, NEW K, Taken(o, L, p, K),
         NEW S \in SUBSET Seqs, Covers(S, o, L, C)
  PROVE  /\ Covers(S, p, K, C)
         /\ \A s \in S : Has(o, Len(o), s) => Has(p, Len(p), s)
         /\ Head(L) = 0 => \A s \in S : Has(p, Len(p), s)
<1>1. /\ Flow(p, K, C)
      /\ Len(L) > 0 /\ L[1] = Head(L) /\ Len(K) = Len(L) - 1
      /\ \A i \in 1..Len(K) : K[i] = L[i + 1] /\ i + 1 \in 1..Len(L)
      /\ Head(L) = 0 => p = o
      /\ Head(L) # 0 => Len(p) = Len(o) + 1 /\ p[Len(o) + 1] = Head(L) /\ Head(L) \in Seqs
      /\ \A i \in 1..Len(o) : p[i] = o[i] /\ i \in 1..Len(p)
  BY TakenFacts
<1>2. Len(L) \in Nat /\ Len(o) \in Nat /\ 1 \in 1..Len(L)
  BY <1>1, Elements
<1>3. \A s \in S : Has(o, Len(o), s) => Has(p, Len(p), s)
  BY <1>1 DEF Has
<1>4. ASSUME NEW s \in S, NEW n \in 1..Len(L), Has(L, n, s) PROVE Has(p, Len(p), s) \/ Has(K, n - 1, s)
  <2>1. PICK i \in 1..n : L[i] = s
    BY <1>4 DEF Has
  <2>2. CASE i = 1
    <3>1. Head(L) = s /\ s # 0
      BY <1>1, <2>1, <2>2, SeqsNat
    <3>2. Len(p) = Len(o) + 1 /\ p[Len(o) + 1] = s
      BY <1>1, <3>1
    <3>3. Len(o) + 1 \in 1..Len(p)
      BY <1>2, <3>2
    <3> QED BY <3>2, <3>3 DEF Has
  <2>3. CASE i # 1
    <3>1. i - 1 \in 1..n - 1 /\ i - 1 \in 1..Len(K) /\ (i - 1) + 1 = i
      BY <1>1, <1>2, <2>3
    <3>2. K[i - 1] = s
      BY <1>1, <2>1, <3>1
    <3> QED BY <3>1, <3>2 DEF Has
  <2> QED BY <2>2, <2>3
<1>5. ASSUME NEW s \in S PROVE Has(p, Len(p), s) \/ Has(K, Len(K), s) \/ s \in C
  <2>1. Len(L) \in 1..Len(L)
    BY <1>1, <1>2
  <2>2. Has(o, Len(o), s) \/ Has(L, Len(L), s) \/ s \in C
    BY DEF Covers
  <2> QED BY <1>1, <1>3, <1>4, <2>1, <2>2
<1>6. ASSUME NEW k \in 1..Len(K), K[k] = 0, NEW s \in S PROVE Has(p, Len(p), s) \/ Has(K, k - 1, s)
  <2>1. L[k + 1] = 0 /\ k + 1 \in 1..Len(L) /\ (k + 1) - 1 = k /\ k \in 1..Len(L)
    BY <1>1, <1>2, <1>6
  <2>2. Has(o, Len(o), s) \/ Has(L, k, s)
    BY <2>1 DEF Covers
  <2> QED BY <1>3, <1>4, <2>1, <2>2
<1>7. ASSUME Head(L) = 0, NEW s \in S PROVE Has(p, Len(p), s)
  <2>1. Has(o, Len(o), s) \/ Has(L, 1 - 1, s)
    BY <1>1, <1>2, <1>7 DEF Covers
  <2>2. ~Has(L, 1 - 1, s)
    BY DEF Has
  <2> QED BY <1>3, <2>1, <2>2
<1> QED BY <1>3, <1>5, <1>6, <1>7 DEF Covers

LEMMA Widen == ASSUME NEW A, NEW B, A \subseteq B, NEW s \in Seq(A) PROVE s \in Seq(B)
<1>1. Len(s) \in Nat /\ s \in [1..Len(s) -> A]
  BY LenProperties
<1>2. s \in [1..Len(s) -> B]
  BY <1>1
<1> QED BY <1>1, <1>2

\* The consumer delivers B, its first, as F.
Delivered(L, C, B, F, K) == Sorts(F, B) /\ B \subseteq C /\ (\A s \in B, t \in C \ B : s < t) /\ K = L \o F

Lengthens(o, L, C, B, F, K) ==
    /\ Flow(o, K, C \ B) /\ Len(K) = Len(L) + Len(F) /\ Len(F) \in Nat
    /\ \A i \in 1..Len(K) : \/ i \in 1..Len(L) /\ K[i] = L[i]
                            \/ i > Len(L) /\ i - Len(L) \in 1..Len(F) /\ K[i] = F[i - Len(L)] /\ K[i] \in B /\ K[i] # 0
    /\ \A i \in 1..Len(L) : i \in 1..Len(K) /\ K[i] = L[i]
    /\ \A i \in 1..Len(F) : Len(L) + i \in 1..Len(K) /\ K[Len(L) + i] = F[i]

LEMMA DeliveredFacts ==
  ASSUME NEW o, NEW L, NEW C, Flow(o, L, C), NEW B, NEW F, NEW K, Delivered(L, C, B, F, K)
  PROVE  Lengthens(o, L, C, B, F, K)
<1>1. F \in Seq(Seqs) /\ L \in Seq(Msgs) /\ K = L \o F
  BY DEF Delivered, Sorts, Flow
<1>2. F \in Seq(Msgs) /\ Len(F) \in Nat /\ Len(L) \in Nat
  <2>1. Seqs \subseteq Msgs
    BY DEF Msgs
  <2> QED BY <1>1, <2>1, Widen
<1>3. /\ K \in Seq(Msgs) /\ Len(K) = Len(L) + Len(F)
      /\ \A i \in 1..Len(L) : K[i] = L[i]
      /\ \A i \in 1..Len(F) : K[Len(L) + i] = F[i]
      /\ \A i \in 1..Len(L) + Len(F) : i > Len(L) => K[i] = F[i - Len(L)] /\ i - Len(L) \in 1..Len(F)
  BY <1>1, <1>2, Concat
<1>4. \A i \in 1..Len(F) : F[i] \in B /\ F[i] # 0
  BY <1>1, SeqsNat DEF Delivered, Sorts
<1>5. Flow(o, K, C \ B)
  BY <1>3 DEF Flow
<1>6. \A i \in 1..Len(K) : i \in 1..Len(L) \/ i > Len(L)
  BY <1>2, <1>3
<1>7. \A i \in 1..Len(L) : i \in 1..Len(K)
  BY <1>2, <1>3
<1>8. \A i \in 1..Len(F) : Len(L) + i \in 1..Len(K)
  BY <1>2, <1>3
<1> QED BY <1>2, <1>3, <1>4, <1>5, <1>6, <1>7, <1>8 DEF Lengthens

LEMMA DeliveredOrder ==
  ASSUME NEW o, NEW L, NEW C, Flow(o, L, C), NEW B, NEW F, NEW K, Delivered(L, C, B, F, K), InOrder(o, L, C)
  PROVE  InOrder(o, K, C \ B)
<1>0. Lengthens(o, L, C, B, F, K)
  BY DeliveredFacts
<1>1. /\ Flow(o, K, C \ B) /\ Len(K) = Len(L) + Len(F) /\ Len(F) \in Nat
      /\ \A i \in 1..Len(K) : \/ i \in 1..Len(L) /\ K[i] = L[i]
                              \/ i > Len(L) /\ i - Len(L) \in 1..Len(F) /\ K[i] = F[i - Len(L)] /\ K[i] \in B /\ K[i] # 0
      /\ \A i \in 1..Len(L) : i \in 1..Len(K) /\ K[i] = L[i]
      /\ \A i \in 1..Len(F) : Len(L) + i \in 1..Len(K) /\ K[Len(L) + i] = F[i]
  BY <1>0 DEF Lengthens
<1>2. Len(L) \in Nat
  BY Elements
<1>3. B \subseteq C /\ Sorts(F, B)
  BY DEF Delivered
<1>4. ASSUME NEW i \in 1..Len(K), NEW j \in 1..Len(K), i < j, K[i] # 0, K[j] # 0 PROVE K[i] < K[j]
  <2>1. CASE i \in 1..Len(L) /\ K[i] = L[i]
    <3>1. CASE j \in 1..Len(L) /\ K[j] = L[j]
      BY <1>4, <2>1, <3>1 DEF InOrder
    <3>2. CASE K[j] \in B
      BY <1>3, <2>1, <3>2 DEF InOrder
    <3> QED BY <1>1, <3>1, <3>2
  <2>2. CASE i > Len(L) /\ i - Len(L) \in 1..Len(F) /\ K[i] = F[i - Len(L)]
    <3>1. j > Len(L) /\ i - Len(L) < j - Len(L)
      BY <1>2, <1>4, <2>2
    <3>2. j - Len(L) \in 1..Len(F) /\ K[j] = F[j - Len(L)]
      BY <1>1, <1>2, <3>1
    <3> QED BY <1>3, <2>2, <3>1, <3>2 DEF Sorts
  <2> QED BY <1>1, <2>1, <2>2
<1>5. ASSUME NEW i \in 1..Len(o), NEW j \in 1..Len(K), K[j] # 0 PROVE o[i] < K[j]
  <2>1. CASE j \in 1..Len(L) /\ K[j] = L[j]
    BY <1>5, <2>1 DEF InOrder
  <2>2. CASE K[j] \in B
    BY <1>3, <2>2 DEF InOrder
  <2> QED BY <1>1, <2>1, <2>2
<1>6. ASSUME NEW s \in C \ B PROVE /\ \A i \in 1..Len(o) : o[i] < s
                                   /\ \A i \in 1..Len(K) : K[i] < s
  <2>1. \A i \in 1..Len(o) : o[i] < s
    BY DEF InOrder
  <2>2. ASSUME NEW i \in 1..Len(K) PROVE K[i] < s
    <3>1. CASE i \in 1..Len(L) /\ K[i] = L[i]
      BY <3>1 DEF InOrder
    <3>2. CASE K[i] \in B
      BY <3>2 DEF Delivered
    <3> QED BY <1>1, <3>1, <3>2
  <2> QED BY <2>1, <2>2
<1>7. \A i, j \in 1..Len(o) : i < j => o[i] < o[j]
  BY DEF InOrder
<1> QED BY <1>4, <1>5, <1>6, <1>7 DEF InOrder

LEMMA DeliveredCovers ==
  ASSUME NEW o, NEW L, NEW C, Flow(o, L, C), NEW B, NEW F, NEW K, Delivered(L, C, B, F, K),
         NEW S, Covers(S, o, L, C)
  PROVE  Covers(S, o, K, C \ B)
<1>0. Lengthens(o, L, C, B, F, K)
  BY DeliveredFacts
<1>1. /\ Flow(o, K, C \ B) /\ Len(K) = Len(L) + Len(F) /\ Len(F) \in Nat
      /\ \A i \in 1..Len(K) : \/ i \in 1..Len(L) /\ K[i] = L[i]
                              \/ i > Len(L) /\ i - Len(L) \in 1..Len(F) /\ K[i] = F[i - Len(L)] /\ K[i] \in B /\ K[i] # 0
      /\ \A i \in 1..Len(L) : i \in 1..Len(K) /\ K[i] = L[i]
      /\ \A i \in 1..Len(F) : Len(L) + i \in 1..Len(K) /\ K[Len(L) + i] = F[i]
  BY <1>0 DEF Lengthens
<1>2. ASSUME NEW s \in S PROVE Has(o, Len(o), s) \/ Has(K, Len(K), s) \/ s \in C \ B
  <2>1. CASE Has(o, Len(o), s)
    BY <2>1
  <2>2. CASE Has(L, Len(L), s)
    BY <1>1, <2>2 DEF Has
  <2>3. CASE s \in B
    <3>1. PICK i \in 1..Len(F) : F[i] = s
      BY <2>3 DEF Delivered, Sorts
    <3> QED BY <1>1, <3>1 DEF Has
  <2>4. CASE s \in C \ B
    BY <2>4
  <2> QED BY <2>1, <2>2, <2>3, <2>4 DEF Covers
<1>3. ASSUME NEW k \in 1..Len(K), K[k] = 0, NEW s \in S PROVE Has(o, Len(o), s) \/ Has(K, k - 1, s)
  <2>1. k \in 1..Len(L) /\ L[k] = 0
    BY <1>1, <1>3
  <2>2. Has(o, Len(o), s) \/ Has(L, k - 1, s)
    BY <2>1 DEF Covers
  <2>3. \A i \in 1..k - 1 : i \in 1..Len(L) /\ K[i] = L[i]
    <3>1. \A i \in 1..k - 1 : i \in 1..Len(L)
      BY <2>1, Elements
    <3> QED BY <1>1, <3>1
  <2> QED BY <2>2, <2>3 DEF Has
<1> QED BY <1>2, <1>3 DEF Covers

\* A status comes when the consumer has nothing left.
LEMMA StatusFlow ==
  ASSUME NEW o, NEW L, Flow(o, L, {}), InOrder(o, L, {}), NEW S \in SUBSET Seqs, Covers(S, o, L, {}), NEW K, K = L \o << 0 >>
  PROVE  Flow(o, K, {}) /\ InOrder(o, K, {}) /\ Covers(S, o, K, {}) /\ Len(K) = Len(L) + 1
<1>1. L \in Seq(Msgs) /\ << 0 >> \in Seq(Msgs) /\ Len(<< 0 >>) = 1 /\ << 0 >>[1] = 0 /\ Len(L) \in Nat
  BY DEF Flow, Msgs
<1>2. /\ K \in Seq(Msgs) /\ Len(K) = Len(L) + 1 /\ K[Len(L) + 1] = 0
      /\ \A i \in 1..Len(L) : K[i] = L[i]
  BY <1>1
<1>3. \A i \in 1..Len(K) : (i \in 1..Len(L) /\ K[i] = L[i]) \/ (i = Len(L) + 1 /\ K[i] = 0)
  BY <1>1, <1>2
<1>3a. \A i \in 1..Len(L) : i \in 1..Len(K)
  BY <1>1, <1>2
<1>4. Flow(o, K, {})
  BY <1>2 DEF Flow
<1>5. InOrder(o, K, {})
  BY <1>3 DEF InOrder
<1>6. ASSUME NEW s \in S PROVE Has(o, Len(o), s) \/ Has(L, Len(L), s)
  BY DEF Covers
<1>7. ASSUME NEW s \in S PROVE Has(o, Len(o), s) \/ Has(K, Len(K), s)
  BY <1>2, <1>3a, <1>6 DEF Has
<1>8. ASSUME NEW k \in 1..Len(K), K[k] = 0, NEW s \in S PROVE Has(o, Len(o), s) \/ Has(K, k - 1, s)
  <2>1. CASE k = Len(L) + 1
    <3>1. k - 1 = Len(L)
      BY <1>1, <2>1
    <3> QED BY <1>2, <1>6, <3>1 DEF Has
  <2>2. CASE k \in 1..Len(L) /\ K[k] = L[k]
    <3>1. Has(o, Len(o), s) \/ Has(L, k - 1, s)
      BY <1>8, <2>2 DEF Covers
    <3>2. \A i \in 1..k - 1 : i \in 1..Len(L) /\ K[i] = L[i]
      BY <1>1, <1>2, <2>2
    <3> QED BY <3>1, <3>2 DEF Has
  <2> QED BY <1>3, <2>1, <2>2
<1> QED BY <1>2, <1>4, <1>5, <1>7, <1>8 DEF Covers

\* A pull: the first n and, when there are fewer, a status.
LEMMA ServedFlow ==
  ASSUME NEW o, NEW L, NEW C, Flow(o, L, C), InOrder(o, L, C), NEW S \in SUBSET Seqs, Covers(S, o, L, C),
         NEW n \in Nat, NEW B, Takes(B, C, n), NEW K,
         K = (L \o sorted[B]) \o (IF Cardinality(B) < n THEN << 0 >> ELSE << >>)
  PROVE  /\ Flow(o, K, C \ B) /\ InOrder(o, K, C \ B) /\ Covers(S, o, K, C \ B)
         /\ Len(K) <= Len(L) + n
<1>1. B \in SUBSET C /\ C \in SUBSET Seqs /\ Cardinality(B) \in Nat /\ B \in SUBSET Seqs /\ Cardinality(B) <= n
  BY DEF Takes, Flow
<1>2. PICK F : F = sorted[B]
  OBVIOUS
<1>3. Sorts(F, B)
  BY <1>1, <1>2, SortedFacts
<1>4. PICK J : J = L \o F
  OBVIOUS
<1>5. Delivered(L, C, B, F, J)
  BY <1>1, <1>3, <1>4 DEF Delivered, Takes
<1>6. Flow(o, J, C \ B) /\ Len(J) = Len(L) + Len(F) /\ Len(F) \in Nat
  <2>1. Lengthens(o, L, C, B, F, J)
    BY <1>5, DeliveredFacts
  <2> QED BY <2>1 DEF Lengthens
<1>7. InOrder(o, J, C \ B)
  BY <1>5, DeliveredOrder
<1>8. Covers(S, o, J, C \ B)
  BY <1>5, DeliveredCovers
<1>9. Len(F) = Cardinality(B) /\ Len(L) \in Nat
  BY <1>3 DEF Sorts, Flow
<1>10. CASE Cardinality(B) < n
  <2>1. C \ B = {}
    BY <1>10 DEF Takes
  <2>2. K = J \o << 0 >>
    BY <1>2, <1>4, <1>10
  <2>3. Flow(o, J, {}) /\ InOrder(o, J, {}) /\ Covers(S, o, J, {})
    BY <1>6, <1>7, <1>8, <2>1
  <2>4. Flow(o, K, {}) /\ InOrder(o, K, {}) /\ Covers(S, o, K, {}) /\ Len(K) = Len(J) + 1
    BY <2>2, <2>3, StatusFlow
  <2>5. Len(K) <= Len(L) + n
    BY <1>1, <1>6, <1>9, <1>10, <2>4
  <2> QED BY <2>1, <2>4, <2>5
<1>11. CASE ~(Cardinality(B) < n)
  <2>1. J \in Seq(Msgs)
    BY <1>6 DEF Flow
  <2>2. K = J
    <3>1. K = J \o << >>
      BY <1>2, <1>4, <1>11
    <3> QED BY <2>1, <3>1, ConcatEmptySeq
  <2>3. Len(K) <= Len(L) + n
    <3>1. Len(K) = Len(L) + Cardinality(B)
      BY <1>6, <1>9, <2>2
    <3>2. PICK c \in Nat : c = Cardinality(B) /\ c <= n
      BY <1>1
    <3>3. PICK l \in Nat : l = Len(L)
      BY <1>9
    <3>4. l + c <= l + n
      BY <3>2, <3>3
    <3> QED BY <3>1, <3>2, <3>3, <3>4
  <2> QED BY <1>6, <1>7, <1>8, <2>2, <2>3
<1> QED BY <1>10, <1>11

-----------------------------------------------------------------------------
(* The messages and the types.                                             *)

LEMMA InitPagerInv == ReaderInit => PagerInv
<1> SUFFICES ASSUME ReaderInit PROVE PagerInv
  OBVIOUS
<1> USE DEF ReaderInit, PagerInit
<1>1. stored \subseteq Seqs \ {MaxSeq} /\ 0 \notin Seqs
  BY SeqsNat
<1>2. \A M : << >> \in Seq(M)
  OBVIOUS
<1>3. Carries(Msgs) /\ Carries(Msgs \ {MaxSeq})
  BY <1>1, <1>2 DEF Carries, Msgs
<1>4. PagerTypes
  BY <1>3 DEF PagerTypes, PagerRec, SeenRec, AskTypes
<1>5. Apart /\ Unpublished
  BY <1>3 DEF Apart, Active, Unpublished
<1>6. PullInv
  <2>1. q \o wire = << >>
    OBVIOUS
  <2>2. PageFits
    BY DEF PageFits
  <2>3. InOrder(out, << >>, cons)
    BY DEF InOrder
  <2> QED BY <2>1, <2>2, <2>3 DEF PullInv, Active
<1> QED BY <1>4, <1>5, <1>6 DEF PagerInv

LEMMA TailFacts ==
  ASSUME NEW M, NEW f \in Seq(M), f # << >>
  PROVE  Head(f) \in M /\ Tail(f) \in Seq(M) /\ Len(f) \in Nat /\ Len(f) > 0 /\ Len(Tail(f)) = Len(f) - 1
OBVIOUS

LEMMA Within == ASSUME NEW A, NEW B, NEW f \in Seq(A), \A i \in 1..Len(f) : f[i] \in B PROVE f \in Seq(B)
<1>1. Len(f) \in Nat /\ f \in [1..Len(f) -> A]
  BY LenProperties
<1>2. f \in [1..Len(f) -> B]
  BY <1>1
<1> QED BY <1>1, <1>2

\* No step but a publish brings a message from outside M.
LEMMA CarriesStep ==
  ASSUME NEW M, 0 \in M, M \subseteq Msgs, PagerTypes, Carries(M), PagerNext, Publish => MaxSeq \in M
  PROVE  Carries(M)'
<1>t. stored \subseteq M \ {0} /\ out \in Seq(M \ {0}) /\ q \in Seq(M) /\ wire \in Seq(M)
  BY DEF Carries
<1>e. << >> \in Seq(M)
  OBVIOUS
<1>1. CASE PageContents
  BY <1>1, <1>t DEF PageContents, start, Carries
<1>2. CASE PagerNextMsg
  BY <1>2, <1>t DEF PagerNextMsg, Carries
<1>3. CASE NextMsgFails
  BY <1>3, <1>t DEF NextMsgFails, Carries
<1>4. CASE TakeMsg
  <2>1. q # << >> /\ q' = Tail(q) /\ stored' = stored /\ wire' = wire
        /\ out' = IF Head(q) = 0 THEN out ELSE Append(out, Head(q))
    BY <1>4 DEF TakeMsg
  <2>2. Head(q) \in M /\ Tail(q) \in Seq(M)
    BY <1>t, <2>1, TailFacts
  <2>3. out' \in Seq(M \ {0})
    <3>1. CASE Head(q) = 0
      BY <1>t, <2>1, <3>1
    <3>2. CASE Head(q) # 0
      BY <1>t, <2>1, <2>2, <3>2
    <3> QED BY <3>1, <3>2
  <2> QED BY <1>t, <2>1, <2>2, <2>3 DEF Carries
<1>5. CASE NextTimesOut
  BY <1>5, <1>t DEF NextTimesOut, Carries
<1>6. CASE Close
  BY <1>6, <1>t, <1>e DEF Close, Carries
<1>7. CASE ServeFetch
  <2>1. PICK B : /\ B = firsts(cons, Head(asks).n)
                 /\ wire' = wire \o sorted[B] \o (IF Cardinality(B) < Head(asks).n THEN << 0 >> ELSE <<>>)
    BY <1>7 DEF ServeFetch
  <2>2. B \subseteq cons /\ B \subseteq M /\ B \in SUBSET Seqs
    BY <1>t, <2>1 DEF firsts, PagerTypes, Msgs
  <2>3. PICK F : F = sorted[B]
    OBVIOUS
  <2>4. Sorts(F, B)
    BY <2>2, <2>3, SortedFacts
  <2>5. F \in Seq(M)
    <3>1. F \in Seq(Seqs) /\ \A i \in 1..Len(F) : F[i] \in M
      BY <2>2, <2>4 DEF Sorts
    <3> QED BY <3>1, Within
  <2>6. PICK e : e = IF Cardinality(B) < Head(asks).n THEN << 0 >> ELSE <<>>
    OBVIOUS
  <2>7. e \in Seq(M)
    BY <1>e, <2>6
  <2>8. wire' = (wire \o F) \o e
    BY <2>1, <2>3, <2>6
  <2>9. wire' \in Seq(M)
    BY <1>t, <2>5, <2>7, <2>8
  <2> QED BY <1>7, <1>t, <2>9 DEF ServeFetch, Carries
<1>8. CASE ServeGet
  <2>1. PICK msg \in M : wire' \in {Append(wire, msg), <<msg>> \o wire}
    <3> DEFINE from == {s \in stored : s >= Head(asks).n}
    <3>1. from \in SUBSET Seqs /\ from \subseteq M
      BY <1>t DEF PagerTypes, Carries, Msgs
    <3>2. (IF from = {} THEN 0 ELSE least(from)) \in M
      BY <3>1, LeastOf
    <3>3. wire' \in {Append(wire, IF from = {} THEN 0 ELSE least(from)), <<IF from = {} THEN 0 ELSE least(from)>> \o wire}
      BY <1>8 DEF ServeGet
    <3> QED BY <3>2, <3>3
  <2>2. Append(wire, msg) \in Seq(M) /\ <<msg>> \o wire \in Seq(M)
    BY <1>t
  <2>3. wire' \in Seq(M)
    BY <2>1, <2>2
  <2> QED BY <1>8, <1>t, <2>3 DEF ServeGet, Carries
<1>9. CASE Arrive
  <2>1. wire # << >> /\ wire' = Tail(wire) /\ q' \in {q, Append(q, Head(wire))} /\ stored' = stored /\ out' = out
    BY <1>9 DEF Arrive
  <2>2. Head(wire) \in M /\ Tail(wire) \in Seq(M)
    BY <1>t, <2>1, TailFacts
  <2>3. Append(q, Head(wire)) \in Seq(M)
    BY <1>t, <2>2
  <2> QED BY <1>t, <2>1, <2>2, <2>3 DEF Carries
<1>10. CASE LoseMessage
  <2>1. wire' = wire \/ (wire # << >> /\ wire' = Tail(wire))
    BY <1>10 DEF LoseMessage
  <2>2. wire' \in Seq(M)
    <3>1. CASE wire' = wire
      BY <1>t, <3>1
    <3>2. CASE wire # << >> /\ wire' = Tail(wire)
      <4>1. Tail(wire) \in Seq(M)
        BY <1>t, <3>2, TailFacts
      <4> QED BY <3>2, <4>1
    <3> QED BY <2>1, <3>1, <3>2
  <2> QED BY <1>10, <1>t, <2>2 DEF LoseMessage, Carries
<1>11. CASE Publish
  <2>1. MaxSeq # 0
    BY SeqsNat
  <2> QED BY <1>11, <1>t, <2>1 DEF Publish, Carries
<1>12. CASE RemoveMessages
  BY <1>12, <1>t DEF RemoveMessages, Carries
<1> QED BY <1>1, <1>2, <1>3, <1>4, <1>5, <1>6, <1>7, <1>8, <1>9, <1>10, <1>11, <1>12 DEF PagerNext

LEMMA FirstSeqNat ==
  ASSUME PagerTypes, NEW p \in Pagers
  PROVE firstSeq(p) \in Nat
<1>1. stored \in SUBSET Seqs
  BY DEF PagerTypes, Carries, Msgs
<1>2. p.startSeq \in {-1, 0, 1, 2}
  BY DEF Pagers
<1>3. stored # {} => least(stored) \in Nat
  BY <1>1, LeastOf, SeqsNat
<1> QED BY <1>2, <1>3 DEF firstSeq

\* The other types.
LEMMA TypesStep ==
  ASSUME PagerTypes, PagerNext
  PROVE PagerTypes'
<1> USE DEF PagerRec, SeenRec
<1>c. Carries(Msgs)'
  <2>1. 0 \in Msgs /\ MaxSeq \in Msgs
    BY SeqsNat DEF Msgs
  <2> QED BY <2>1, CarriesStep DEF PagerTypes
<1>t. /\ stored \subseteq Seqs /\ cons \subseteq stored /\ seenBy.stays \subseteq stored
      /\ asks \in Seq(AskTypes) /\ pgr.curSeq \in Nat /\ pgr.seen \in Int /\ seenBy.nexts \in Nat
  BY DEF PagerTypes, Carries, Msgs, AskTypes
<1>1. CASE PageContents
  <2>1. PICK p \in Pagers : start(p)
    BY <1>1 DEF PageContents
  <2>2. firstSeq(p) \in Nat /\ createConsumer(p) \subseteq stored
    BY <2>1, FirstSeqNat DEF createConsumer
  <2>3. PICK n \in Nat : n = IF useDirect(p) THEN firstSeq(p) ELSE 0
    BY <2>2
  <2>4. useDirect(p) \in BOOLEAN
    BY DEF useDirect
  <2>5. CASE /\ pgr' = [pgr EXCEPT !.phase = "ready", !.direct = useDirect(p), !.sub = TRUE, !.curSeq = n]
             /\ cons' \subseteq stored /\ seenBy' = [seenBy EXCEPT !.stays = createConsumer(p)]
    <3>1. createConsumer(p) \in SUBSET Seqs
      BY <1>t, <2>2
    <3>2. pgr' \in PagerRec
      BY <2>4, <2>5 DEF PagerTypes
    <3>3. /\ seenBy' \in SeenRec
          /\ seenBy'.stays = createConsumer(p)
      BY <2>5, <3>1 DEF PagerTypes
    <3> QED BY <1>c, <1>t, <2>1, <2>2, <2>5, <3>2, <3>3 DEF PagerTypes, start, AskTypes
  <2>6. CASE (\E b \in BOOLEAN : pgr' = [pgr EXCEPT !.phase = "failed", !.sub = b]) /\ UNCHANGED <<cons, seenBy>>
    <3>1. PICK b \in BOOLEAN : pgr' = [pgr EXCEPT !.phase = "failed", !.sub = b]
      BY <2>6
    <3>2. pgr' \in PagerRec
      BY <3>1 DEF PagerTypes
    <3> QED BY <1>c, <1>t, <2>1, <2>6, <3>2 DEF PagerTypes, start, AskTypes
  <2>7. CASE pgr' = [pgr EXCEPT !.phase = "failed"] /\ UNCHANGED <<cons, seenBy>>
    <3>2. pgr' \in PagerRec
      BY <2>7 DEF PagerTypes
    <3> QED BY <1>c, <1>t, <2>1, <2>7, <3>2 DEF PagerTypes, start, AskTypes
  <2>8. cons' = (IF useDirect(p) THEN {} ELSE createConsumer(p)) => cons' \subseteq stored
    BY <2>2
  <2> QED BY <2>1, <2>3, <2>4, <2>5, <2>6, <2>7, <2>8 DEF start
<1>2. CASE PagerNextMsg
  <2>1. PICK k \in Int, c \in Nat : pgr' = [pgr EXCEPT !.phase = "wait", !.seen = k, !.curSeq = c]
    <3>1. pgr' = [pgr EXCEPT !.phase = "wait", !.seen = IF pageSeen THEN 0 ELSE pgr.seen,
                             !.curSeq = IF pgr.direct THEN pgr.curSeq + 1 ELSE pgr.curSeq]
      BY <1>2 DEF PagerNextMsg
    <3>2. (IF pageSeen THEN 0 ELSE pgr.seen) \in Int /\ (IF pgr.direct THEN pgr.curSeq + 1 ELSE pgr.curSeq) \in Nat
      BY <1>t
    <3> QED BY <3>1, <3>2
  <2>2. pgr' \in PagerRec
    BY <2>1 DEF PagerTypes
  <2>3. PICK n \in Nat : seenBy' = [seenBy EXCEPT !.nexts = n]
    <3>1. seenBy' = [seenBy EXCEPT !.nexts = seenBy.nexts + 1] /\ seenBy.nexts + 1 \in Nat
      BY <1>2, <1>t DEF PagerNextMsg
    <3> QED BY <3>1
  <2>4. /\ seenBy' \in SeenRec
        /\ seenBy'.stays = seenBy.stays
    BY <2>3 DEF PagerTypes
  <2>5. asks' \in Seq(AskTypes)
    <3>1. directGetBatch \in AskTypes /\ fetchBatch \in AskTypes
      BY <1>t, ReaderAssumption DEF directGetBatch, fetchBatch, AskTypes
    <3>2. asks' \in {asks, Append(asks, directGetBatch), Append(asks, fetchBatch)}
      BY <1>2 DEF PagerNextMsg
    <3>3. Append(asks, directGetBatch) \in Seq(AskTypes) /\ Append(asks, fetchBatch) \in Seq(AskTypes)
      BY <1>t, <3>1
    <3> QED BY <1>t, <3>2, <3>3
  <2> QED BY <1>2, <1>c, <1>t, <2>2, <2>4, <2>5 DEF PagerNextMsg, PagerTypes, AskTypes
<1>3. CASE NextMsgFails
  <2>2. pgr' \in PagerRec
    <3>1. pgr' = pgr \/ pgr' = [pgr EXCEPT !.seen = 0]
      BY <1>3 DEF NextMsgFails
    <3> QED BY <3>1 DEF PagerTypes
  <2>3. PICK k \in Nat : seenBy' = [seenBy EXCEPT !.nexts = k, !.lost = TRUE]
    <3>1. seenBy' = [seenBy EXCEPT !.nexts = seenBy.nexts + 1, !.lost = TRUE] /\ seenBy.nexts + 1 \in Nat
      BY <1>3, <1>t DEF NextMsgFails
    <3> QED BY <3>1
  <2>4. /\ seenBy' \in SeenRec
        /\ seenBy'.stays = seenBy.stays
    BY <2>3 DEF PagerTypes
  <2> QED BY <1>3, <1>c, <1>t, <2>2, <2>4 DEF NextMsgFails, PagerTypes, AskTypes
<1>4. CASE TakeMsg
  <2>1. PICK k \in Int : pgr' = [pgr EXCEPT !.phase = "ready", !.seen = k]
    <3>1. pgr' = [pgr EXCEPT !.phase = "ready", !.seen = pgr.seen + 1] /\ pgr.seen + 1 \in Int
      BY <1>4, <1>t DEF TakeMsg
    <3> QED BY <3>1
  <2>2. pgr' \in PagerRec
    BY <2>1 DEF PagerTypes
  <2>3. PICK b \in BOOLEAN : seenBy' = [seenBy EXCEPT !.ended = b]
    <3>1. seenBy' = [seenBy EXCEPT !.ended = seenBy.ended \/ Head(q) = 0]
      BY <1>4 DEF TakeMsg
    <3>2. (seenBy.ended \/ Head(q) = 0) \in BOOLEAN
      OBVIOUS
    <3> QED BY <3>1, <3>2
  <2>4. /\ seenBy' \in SeenRec
        /\ seenBy'.stays = seenBy.stays
    BY <2>3 DEF PagerTypes
  <2> QED BY <1>4, <1>c, <1>t, <2>2, <2>4 DEF TakeMsg, PagerTypes, AskTypes
<1>5. CASE NextTimesOut
  <2>2. pgr' \in PagerRec
    BY <1>5 DEF NextTimesOut, PagerTypes
  <2>4. /\ seenBy' \in SeenRec
        /\ seenBy'.stays = seenBy.stays
    BY <1>5 DEF NextTimesOut, PagerTypes
  <2> QED BY <1>5, <1>c, <1>t, <2>2, <2>4 DEF NextTimesOut, PagerTypes, AskTypes
<1>6. CASE Close
  <2>2. pgr' \in PagerRec
    BY <1>6 DEF Close, PagerTypes
  <2>3. asks' \in Seq(AskTypes)
    BY <1>6 DEF Close
  <2> QED BY <1>6, <1>c, <1>t, <2>2, <2>3 DEF Close, PagerTypes, AskTypes
<1>7. CASE ServeFetch
  <2>1. asks' \in Seq(AskTypes)
    BY <1>7, <1>t, TailFacts DEF ServeFetch
  <2>2. cons' \subseteq stored
    BY <1>7, <1>t DEF ServeFetch
  <2> QED BY <1>7, <1>c, <1>t, <2>1, <2>2 DEF ServeFetch, PagerTypes, AskTypes
<1>8. CASE ServeGet
  <2>1. asks' \in Seq(AskTypes)
    BY <1>8, <1>t, TailFacts DEF ServeGet
  <2> QED BY <1>8, <1>c, <1>t, <2>1 DEF ServeGet, PagerTypes, AskTypes
<1>9. CASE Arrive
  BY <1>9, <1>c, <1>t DEF Arrive, PagerTypes, AskTypes
<1>10. CASE LoseMessage
  <2>1. cons' \subseteq stored
    BY <1>10, <1>t DEF LoseMessage
  <2>4. /\ seenBy' \in SeenRec
        /\ seenBy'.stays = seenBy.stays
    BY <1>10 DEF LoseMessage, PagerTypes
  <2> QED BY <1>10, <1>c, <1>t, <2>1, <2>4 DEF LoseMessage, PagerTypes, AskTypes
<1>11. CASE Publish
  <2>1. cons' \subseteq stored' /\ stored \subseteq stored'
    BY <1>11, <1>t DEF Publish
  <2>4. /\ seenBy' \in SeenRec
        /\ seenBy'.stays = seenBy.stays
    BY <1>11 DEF Publish, PagerTypes
  <2> QED BY <1>11, <1>c, <1>t, <2>1, <2>4 DEF Publish, PagerTypes, AskTypes
<1>12. CASE RemoveMessages
  <2>1. PICK s \in stored : /\ stored' = stored \ {s} /\ cons' = cons \ {s}
                            /\ seenBy' = [seenBy EXCEPT !.stays = seenBy.stays \ {s}]
    BY <1>12 DEF RemoveMessages
  <2>2. seenBy.stays \ {s} \in SUBSET Seqs
    BY <1>t
  <2>4. /\ seenBy' \in SeenRec
        /\ seenBy'.stays = seenBy.stays \ {s}
    BY <2>1, <2>2 DEF PagerTypes
  <2> QED BY <1>12, <1>c, <1>t, <2>1, <2>4 DEF RemoveMessages, PagerTypes, AskTypes
<1> QED BY <1>1, <1>2, <1>3, <1>4, <1>5, <1>6, <1>7, <1>8, <1>9, <1>10, <1>11, <1>12 DEF PagerNext

-----------------------------------------------------------------------------
(* The pager's steps.                                                      *)

\* What is late, lost, or published stays so, and only start decides how to read.
LEMMA SeenStep ==
  ASSUME PagerTypes, PagerNext
  PROVE  /\ ~seenBy'.added => ~seenBy.added /\ ~Publish
         /\ ~seenBy'.lost => ~seenBy.lost /\ ~NextMsgFails /\ ~LoseMessage
         /\ ~seenBy'.slow => ~seenBy.slow /\ ~NextTimesOut
         /\ pgr'.direct = pgr.direct \/ PageContents
<1> USE DEF PagerTypes, PagerRec, SeenRec
<1>1. CASE PageContents
  <2>1. PICK p \in Pagers : start(p)
    BY <1>1 DEF PageContents
  <2>2. seenBy'.added = seenBy.added /\ seenBy'.lost = seenBy.lost /\ seenBy'.slow = seenBy.slow
    BY <2>1 DEF start
  <2>3. pgr.phase = "new"
    BY <2>1 DEF start
  <2>4. ~Publish /\ ~NextMsgFails /\ ~NextTimesOut
    BY <2>3 DEF Publish, NextMsgFails, NextTimesOut
  <2>5. LoseMessage => seenBy'.lost
    BY DEF LoseMessage
  <2> QED BY <1>1, <2>2, <2>4, <2>5
<1>p. Publish => seenBy'.added
  BY DEF Publish
<1>f. NextMsgFails => seenBy'.lost
  BY DEF NextMsgFails
<1>l. LoseMessage => seenBy'.lost
  BY DEF LoseMessage
<1>s. NextTimesOut => seenBy'.slow
  BY DEF NextTimesOut
<1>2. CASE PagerNextMsg \/ NextMsgFails \/ TakeMsg \/ NextTimesOut \/ Close
  <2>1. /\ seenBy'.added = seenBy.added /\ pgr'.direct = pgr.direct
        /\ seenBy.lost => seenBy'.lost
        /\ seenBy.slow => seenBy'.slow
    BY <1>2 DEF PagerNextMsg, NextMsgFails, TakeMsg, NextTimesOut, Close
  <2> QED BY <1>p, <1>f, <1>l, <1>s, <2>1
<1>3. CASE ServeFetch \/ ServeGet \/ Arrive \/ LoseMessage \/ Publish \/ RemoveMessages
  <2>1. /\ seenBy.added => seenBy'.added
        /\ seenBy.lost => seenBy'.lost
        /\ seenBy.slow => seenBy'.slow
        /\ pgr'.direct = pgr.direct
    BY <1>3 DEF ServeFetch, ServeGet, Arrive, LoseMessage, Publish, RemoveMessages
  <2> QED BY <1>p, <1>f, <1>l, <1>s, <2>1
<1> QED BY <1>1, <1>2, <1>3 DEF PagerNext

LEMMA UnpublishedStep ==
  ASSUME PagerInv, PagerNext
  PROVE Unpublished'
<1> SUFFICES ASSUME ~seenBy'.added PROVE Carries(Msgs \ {MaxSeq})'
  BY DEF Unpublished, Carries
<1>1. PagerTypes /\ ~seenBy.added /\ ~Publish
  BY SeenStep DEF PagerInv
<1>2. Carries(Msgs \ {MaxSeq})
  BY <1>1 DEF PagerInv, Unpublished
<1>3. 0 \in Msgs \ {MaxSeq} /\ Msgs \ {MaxSeq} \subseteq Msgs
  BY SeqsNat DEF Msgs
<1>4. PICK M : M = Msgs \ {MaxSeq}
  OBVIOUS
<1>5. Carries(M)'
  BY <1>1, <1>2, <1>3, <1>4, CarriesStep
<1> QED BY <1>4, <1>5 DEF Carries

LEMMA ApartStep ==
  ASSUME PagerInv, PagerNext
  PROVE Apart'
<1> USE DEF PagerTypes, PagerRec, SeenRec
<1>t. PagerTypes /\ Apart
  BY DEF PagerInv
<1>1. CASE PageContents
  <2>1. PICK p \in Pagers : start(p)
    BY <1>1 DEF PageContents
  <2>2. /\ asks = << >> /\ wire = << >> /\ q = << >> /\ cons = {} /\ out = << >> /\ ~seenBy.ended /\ pgr.seen = -1
    BY <1>t, <2>1 DEF Apart, Active, start
  <2>3. UNCHANGED <<asks, wire, q, out>>
    BY <2>1 DEF start
  <2>4. pgr'.phase = "ready" \/ (UNCHANGED <<cons, seenBy>> /\ pgr'.seen = pgr.seen)
    BY <1>t, <2>1 DEF start
  <2> QED BY <2>2, <2>3, <2>4 DEF Apart, Active
<1>2. CASE PagerNextMsg \/ NextMsgFails \/ TakeMsg \/ NextTimesOut
  <2>1. Active'
    BY <1>2, <1>t DEF PagerNextMsg, NextMsgFails, TakeMsg, NextTimesOut, Active
  <2> QED BY <2>1 DEF Apart
<1>3. CASE Close
  BY <1>3, <1>t DEF Close, Apart, Active
<1>4. CASE ServeFetch \/ ServeGet \/ Arrive \/ LoseMessage \/ Publish \/ RemoveMessages
  <2>1. pgr' = pgr
    BY <1>4 DEF ServeFetch, ServeGet, Arrive, LoseMessage, Publish, RemoveMessages
  <2>2. Active
    BY <1>4, <1>t DEF ServeFetch, ServeGet, Arrive, LoseMessage, Publish, RemoveMessages, Apart, Active
  <2> QED BY <2>1, <2>2 DEF Apart, Active
<1> QED BY <1>1, <1>2, <1>3, <1>4 DEF PagerNext

LEMMA FlowNow ==
  ASSUME PagerTypes
  PROVE Flow(out, q \o wire, cons) /\ Msgs \ {0} = Seqs /\ seenBy.stays \in SUBSET Seqs
<1>1. Msgs \ {0} = Seqs
  BY SeqsNat DEF Msgs
<1>2. out \in Seq(Seqs) /\ q \in Seq(Msgs) /\ wire \in Seq(Msgs) /\ cons \subseteq Seqs /\ seenBy.stays \in SUBSET Seqs
  BY <1>1 DEF PagerTypes, Carries
<1> QED BY <1>1, <1>2 DEF Flow

\* What leaves the messages alone.
LEMMA PullFrame ==
  ASSUME PullInv, Active, PageFits', out' = out, q' \o wire' = q \o wire, cons' = cons,
         seenBy'.stays = seenBy.stays, seenBy'.ended = seenBy.ended
  PROVE  PullInv'
<1>1. InOrder(out, q \o wire, cons)'
  BY DEF PullInv, InOrder
<1>2. Covers(seenBy.stays, out, q \o wire, cons)'
  <2>1. Covers(seenBy.stays, out, q \o wire, cons)
    BY DEF PullInv
  <2>2. Covers(seenBy'.stays, out', q' \o wire', cons')
    BY <2>1
  <2> QED BY <2>2
<1>3. seenBy'.ended => \A s \in seenBy'.stays : Has(out', Len(out'), s)
  BY DEF PullInv
<1> QED BY <1>1, <1>2, <1>3 DEF PullInv, Has

LEMMA PullTake ==
  ASSUME PagerInv, PullInv, TakeMsg
  PROVE PullInv'
<1> USE DEF PagerTypes, PagerRec, SeenRec
<1>t. PagerTypes /\ Active
  BY DEF PagerInv, TakeMsg, Active
<1>1. /\ q # << >> /\ q' = Tail(q) /\ wire' = wire /\ cons' = cons /\ asks' = asks
      /\ out' = IF Head(q) = 0 THEN out ELSE Append(out, Head(q))
      /\ pgr'.seen = pgr.seen + 1 /\ seenBy'.stays = seenBy.stays
      /\ seenBy'.ended = (seenBy.ended \/ Head(q) = 0)
  BY <1>t DEF TakeMsg
<1>2. q \in Seq(Msgs) /\ wire \in Seq(Msgs)
  BY <1>t DEF Carries
<1>3. PICK L, K, o, p, C, S : L = q \o wire /\ K = q' \o wire' /\ o = out /\ p = out' /\ C = cons /\ S = seenBy.stays
  OBVIOUS
<1>4. Flow(o, L, C) /\ S \in SUBSET Seqs
  BY <1>t, <1>3, FlowNow
<1>5. L # << >> /\ Head(L) = Head(q) /\ K = Tail(L)
  <2>1. \A f, g \in Seq(Msgs) : f # << >> => f \o g # << >> /\ Head(f \o g) = Head(f) /\ Tail(f) \o g = Tail(f \o g)
    OBVIOUS
  <2> QED BY <1>1, <1>2, <1>3, <2>1
<1>6. Taken(o, L, p, K)
  BY <1>1, <1>3, <1>5 DEF Taken
<1>7. InOrder(o, L, C) /\ Covers(S, o, L, C)
  BY <1>3, <1>t DEF PullInv
<1>8. InOrder(p, K, C)
  BY <1>4, <1>6, <1>7, TakenOrder
<1>9. /\ Covers(S, p, K, C)
      /\ \A s \in S : Has(o, Len(o), s) => Has(p, Len(p), s)
      /\ Head(L) = 0 => \A s \in S : Has(p, Len(p), s)
  BY <1>4, <1>6, <1>7, TakenCovers
<1>10. PageFits'
  <2>1. pgr.seen # -1 /\ pgr.seen \in Int /\ pgr.seen >= 0 /\ asks = << >> /\ pgr.seen + Len(q) + Len(wire) <= PageSize
    BY <1>1, <1>t DEF PullInv, PageFits
  <2>2. Len(q') = Len(q) - 1 /\ Len(q) \in Nat /\ Len(wire) \in Nat
    BY <1>1, <1>2
  <2>3. pgr'.seen # -1 /\ pgr'.seen >= 0 /\ pgr'.seen + Len(q') + Len(wire') <= PageSize
    BY <1>1, <2>1, <2>2, ReaderAssumption
  <2> QED BY <1>1, <2>1, <2>3 DEF PageFits
<1>11. ASSUME seenBy'.ended PROVE \A s \in S : Has(p, Len(p), s)
  <2>1. CASE Head(q) = 0
    BY <1>5, <1>9, <2>1
  <2>2. CASE seenBy.ended
    <3>1. \A s \in S : Has(o, Len(o), s)
      BY <1>3, <2>2 DEF PullInv
    <3> QED BY <1>9, <3>1
  <2> QED BY <1>1, <1>11, <2>1, <2>2
<1>12. InOrder(out, q \o wire, cons)'
  BY <1>1, <1>3, <1>8 DEF InOrder
<1>13. Covers(seenBy.stays, out, q \o wire, cons)'
  <2>1. Covers(seenBy'.stays, out', q' \o wire', cons')
    BY <1>1, <1>3, <1>9
  <2> QED BY <2>1
<1>14. (seenBy.ended => \A s \in seenBy.stays : Has(out, Len(out), s))'
  BY <1>1, <1>3, <1>11 DEF Has
<1> QED BY <1>10, <1>12, <1>13, <1>14 DEF PullInv

LEMMA PullServe ==
  ASSUME PagerInv, PullInv, ServeFetch
  PROVE PullInv'
<1> USE DEF PagerTypes, PagerRec, SeenRec
<1>0. asks # << >>
  BY DEF ServeFetch
<1>t. PagerTypes /\ Active /\ pgr' = pgr /\ seenBy' = seenBy /\ q' = q /\ out' = out
  BY <1>0 DEF PagerInv, Apart, ServeFetch
<1>1. pgr.seen = 0 /\ asks = <<fetchBatch>> /\ q = << >> /\ wire = << >>
  BY <1>0 DEF PullInv, PageFits
<1>2. Head(asks).n = PageSize /\ Tail(asks) = << >> /\ PageSize \in Nat
  BY <1>1, ReaderAssumption DEF fetchBatch
<1>3. PICK B : /\ B = firsts(cons, PageSize) /\ cons' = cons \ B
               /\ wire' = wire \o sorted[B] \o (IF Cardinality(B) < PageSize THEN << 0 >> ELSE <<>>)
  BY <1>2 DEF ServeFetch
<1>4. PICK L, K, o, C, S : L = q \o wire /\ K = q' \o wire' /\ o = out /\ C = cons /\ S = seenBy.stays
  OBVIOUS
<1>5. Flow(o, L, C) /\ S \in SUBSET Seqs
  BY <1>t, <1>4, FlowNow
<1>6. Takes(B, C, PageSize)
  BY <1>2, <1>3, <1>4, <1>5, FirstsFacts DEF Flow
<1>7. L = << >> /\ Len(L) = 0
  BY <1>1, <1>4
<1>8. B \in SUBSET Seqs
  BY <1>5, <1>6 DEF Takes, Flow
<1>9. PICK F : F = sorted[B]
  OBVIOUS
<1>10. F \in Seq(Seqs)
  BY <1>8, <1>9, SortedFacts DEF Sorts
<1>11. PICK e : e = IF Cardinality(B) < PageSize THEN << 0 >> ELSE <<>>
  OBVIOUS
<1>12. wire' = (<< >> \o F) \o e
  BY <1>1, <1>3, <1>9, <1>11
<1>13. wire' \in Seq(Msgs)
  <2>1. << 0 >> \in Seq(Msgs) /\ << >> \in Seq(Msgs)
    BY DEF Msgs
  <2>2. F \in Seq(Msgs)
    <3>1. Seqs \subseteq Msgs
      BY DEF Msgs
    <3> QED BY <1>10, <3>1, Widen
  <2>3. e \in Seq(Msgs)
    BY <1>11, <2>1
  <2> QED BY <1>12, <2>2, <2>3
<1>14. K = wire'
  BY <1>1, <1>4, <1>t, <1>13, ConcatEmptySeq
<1>15. K = (L \o sorted[B]) \o (IF Cardinality(B) < PageSize THEN << 0 >> ELSE <<>>)
  BY <1>7, <1>9, <1>11, <1>12, <1>14
<1>16. InOrder(o, L, C) /\ Covers(S, o, L, C)
  BY <1>4, <1>t DEF PullInv
<1>17. /\ Flow(o, K, C \ B) /\ InOrder(o, K, C \ B) /\ Covers(S, o, K, C \ B)
       /\ Len(K) <= Len(L) + PageSize
  BY <1>2, <1>5, <1>6, <1>15, <1>16, ServedFlow
<1>18. PageFits'
  <2>1. asks' = << >>
    BY <1>2 DEF ServeFetch
  <2>2. Len(wire') \in Nat /\ Len(wire') <= PageSize /\ Len(q') = 0
    BY <1>1, <1>2, <1>7, <1>13, <1>14, <1>17, <1>t
  <2> QED BY <1>1, <1>t, <2>1, <2>2, ReaderAssumption DEF PageFits
<1>19. InOrder(out, q \o wire, cons)'
  BY <1>3, <1>4, <1>17, <1>t
<1>20. Covers(seenBy.stays, out, q \o wire, cons)'
  <2>1. Covers(seenBy'.stays, out', q' \o wire', cons')
    BY <1>3, <1>4, <1>17, <1>t
  <2> QED BY <2>1
<1>21. (seenBy.ended => \A s \in seenBy.stays : Has(out, Len(out), s))'
  BY <1>t DEF PullInv, Has
<1> QED BY <1>18, <1>19, <1>20, <1>21 DEF PullInv

LEMMA PullStep ==
  ASSUME PagerInv, PagerNext, ~seenBy'.lost, ~pgr'.direct
  PROVE PullInv'
<1> USE DEF PagerTypes, PagerRec, SeenRec
<1>t. PagerTypes /\ Apart /\ Unpublished /\ ~seenBy.lost /\ ~NextMsgFails /\ ~LoseMessage
  BY SeenStep DEF PagerInv
<1>1. CASE PageContents
  <2>1. PICK p \in Pagers : start(p)
    BY <1>1 DEF PageContents
  <2>2. /\ asks = << >> /\ wire = << >> /\ q = << >> /\ cons = {} /\ out = << >> /\ ~seenBy.ended /\ pgr.seen = -1
    BY <1>t, <2>1 DEF Apart, Active, start
  <2>3. UNCHANGED <<asks, wire, q, out>> /\ pgr'.seen = -1 /\ ~seenBy'.ended
    BY <1>t, <2>1, <2>2 DEF start
  <2>4. q' \o wire' = << >> /\ out' = << >>
    BY <2>2, <2>3
  <2>5. PageFits'
    BY <2>2, <2>3 DEF PageFits
  <2>6. InOrder(out', q' \o wire', cons')
    BY <2>4 DEF InOrder
  <2>7. Active' => Covers(seenBy'.stays, out', q' \o wire', cons')
    <3> SUFFICES ASSUME Active' PROVE Covers(seenBy'.stays, out', q' \o wire', cons')
      OBVIOUS
    <3>1. /\ pgr' = [pgr EXCEPT !.phase = "ready", !.direct = useDirect(p), !.sub = TRUE,
                                !.curSeq = IF useDirect(p) THEN firstSeq(p) ELSE 0]
          /\ cons' = IF useDirect(p) THEN {} ELSE createConsumer(p)
          /\ seenBy' = [seenBy EXCEPT !.stays = createConsumer(p)]
      BY <1>t, <2>1 DEF start, Active
    <3>2. ~useDirect(p)
      BY <1>t, <3>1
    <3>3. cons' = seenBy'.stays
      BY <1>t, <3>1, <3>2
    <3> QED BY <2>4, <3>3 DEF Covers
  <2> QED BY <2>3, <2>5, <2>6, <2>7 DEF PullInv
<1>i. CASE ~PageContents
  <2>0. PullInv
    BY <1>t, <1>i, SeenStep DEF PagerInv
  <2>2. CASE PagerNextMsg
    <3>1. /\ Active /\ ~pgr.direct /\ UNCHANGED <<wire, q, cons, out>>
          /\ seenBy'.stays = seenBy.stays /\ seenBy'.ended = seenBy.ended
          /\ pgr'.seen = (IF pageSeen THEN 0 ELSE pgr.seen)
          /\ asks' = IF pageSeen THEN Append(asks, fetchBatch) ELSE asks
      BY <1>t, <1>i, <2>2, SeenStep DEF PagerNextMsg, Active
    <3>2. PageFits'
      <4>1. CASE pageSeen
        <5>1. asks = << >> /\ q = << >> /\ wire = << >>
          <6>1. CASE pgr.seen = -1
            BY <2>0, <6>1 DEF PullInv, PageFits
          <6>2. CASE pgr.seen = PageSize
            <7>1. pgr.seen # -1 /\ pgr.seen # 0
              BY <6>2, ReaderAssumption
            <7>2. asks = << >> /\ pgr.seen + Len(q) + Len(wire) <= PageSize
              BY <2>0, <7>1 DEF PullInv, PageFits
            <7>3. q \in Seq(Msgs) /\ wire \in Seq(Msgs) /\ Len(q) \in Nat /\ Len(wire) \in Nat
              BY <1>t DEF Carries
            <7>4. Len(q) = 0 /\ Len(wire) = 0
              BY <6>2, <7>2, <7>3, ReaderAssumption
            <7> QED BY <7>2, <7>3, <7>4
          <6> QED BY <4>1, <6>1, <6>2 DEF pageSeen
        <5>2. asks' = <<fetchBatch>> /\ pgr'.seen = 0 /\ asks' # << >>
          BY <3>1, <4>1, <5>1
        <5> QED BY <3>1, <5>1, <5>2 DEF PageFits, fetchBatch
      <4>2. CASE ~pageSeen
        BY <2>0, <3>1, <4>2 DEF PullInv, PageFits, fetchBatch
      <4> QED BY <4>1, <4>2
    <3> QED BY <2>0, <3>1, <3>2, PullFrame
  <2>4. CASE TakeMsg
    BY <2>0, <2>4, PullTake
  <2>5. CASE NextTimesOut
    <3>1. /\ Active /\ UNCHANGED <<asks, wire, q, cons, out>> /\ pgr'.seen = pgr.seen
          /\ seenBy'.stays = seenBy.stays /\ seenBy'.ended = seenBy.ended
      BY <1>t, <2>5 DEF NextTimesOut, Active
    <3>2. PageFits'
      BY <2>0, <3>1 DEF PullInv, PageFits, fetchBatch
    <3> QED BY <2>0, <3>1, <3>2, PullFrame
  <2>6. CASE Close
    <3>1. /\ asks' = << >> /\ wire' = << >> /\ q' = << >> /\ cons' = {} /\ UNCHANGED <<out, seenBy>>
          /\ pgr'.seen = pgr.seen /\ ~Active'
      BY <1>t, <2>6 DEF Close, Active
    <3>2. q \in Seq(Msgs) /\ wire \in Seq(Msgs) /\ Len(q) \in Nat /\ Len(wire) \in Nat /\ pgr.seen \in Int
      BY <1>t DEF Carries
    <3>3. Len(q') = 0 /\ Len(wire') = 0 /\ q' \o wire' = << >>
      BY <3>1
    <3>4. pgr.seen = -1 \/ (pgr.seen >= 0 /\ pgr.seen <= PageSize)
      BY <2>0, <3>2, ReaderAssumption DEF PullInv, PageFits
    <3>5. PageFits'
      BY <3>1, <3>2, <3>3, <3>4, ReaderAssumption DEF PageFits
    <3>6. InOrder(out', q' \o wire', cons')
      BY <2>0, <3>1, <3>3 DEF InOrder, PullInv
    <3>7. (seenBy.ended => \A s \in seenBy.stays : Has(out, Len(out), s))'
      BY <2>0, <3>1 DEF PullInv, Has
    <3> QED BY <3>1, <3>5, <3>6, <3>7 DEF PullInv
  <2>7. CASE ServeFetch
    BY <2>0, <2>7, PullServe
  <2>8. CASE ServeGet
    <3>1. asks # << >> /\ Head(asks).kind = "get"
      BY <2>8 DEF ServeGet
    <3>2. asks = <<fetchBatch>>
      BY <2>0, <3>1 DEF PullInv, PageFits
    <3> QED BY <3>1, <3>2 DEF fetchBatch
  <2>9. CASE Arrive
    <3>1. /\ wire # << >> /\ wire' = Tail(wire) /\ UNCHANGED <<pgr, asks, cons, out, seenBy>>
          /\ q' = IF Len(q) < PageSize THEN Append(q, Head(wire)) ELSE q
      BY <2>9 DEF Arrive
    <3>2. /\ q \in Seq(Msgs) /\ wire \in Seq(Msgs) /\ Len(q) \in Nat /\ pgr.seen \in Int
          /\ Len(wire) \in Nat /\ Len(wire) > 0 /\ Len(wire') = Len(wire) - 1 /\ Head(wire) \in Msgs
      BY <1>t, <3>1 DEF Carries
    <3>3. pgr.seen >= 0 /\ asks = << >> /\ pgr.seen + Len(q) + Len(wire) <= PageSize
      BY <2>0, <3>1 DEF PullInv, PageFits
    <3>4. q' = Append(q, Head(wire))
      BY <3>1, <3>2, <3>3, ReaderAssumption
    <3>5. Len(q') = Len(q) + 1
      BY <3>2, <3>4
    <3>6. PageFits'
      BY <3>1, <3>2, <3>3, <3>5, ReaderAssumption DEF PageFits
    <3>7. q' \o wire' = q \o wire
      <4>1. \A f, g \in Seq(Msgs) : g # << >> => Append(f, Head(g)) \o Tail(g) = f \o g
        OBVIOUS
      <4> QED BY <3>1, <3>2, <3>4, <4>1
    <3>8. Active
      BY <1>t, <3>1 DEF Apart
    <3> QED BY <2>0, <3>1, <3>6, <3>7, <3>8, PullFrame
  <2>11. CASE Publish
    <3>1. /\ Active /\ UNCHANGED <<pgr, asks, wire, q, out>> /\ ~seenBy.added
          /\ seenBy'.stays = seenBy.stays /\ seenBy'.ended = seenBy.ended
          /\ cons' = cons \cup {MaxSeq}
      BY <1>t, <1>i, <2>11, SeenStep DEF Publish, Active
    <3>2. PageFits'
      BY <2>0, <3>1 DEF PullInv, PageFits, fetchBatch
    <3>3. Carries(Msgs \ {MaxSeq})
      BY <1>t, <3>1 DEF Unpublished
    <3>4. PICK L : L = q \o wire
      OBVIOUS
    <3>5. L \in Seq(Msgs \ {MaxSeq}) /\ out \in Seq(Msgs \ {MaxSeq})
      <4>1. q \in Seq(Msgs \ {MaxSeq}) /\ wire \in Seq(Msgs \ {MaxSeq}) /\ out \in Seq((Msgs \ {MaxSeq}) \ {0})
        BY <3>3 DEF Carries
      <4>2. (Msgs \ {MaxSeq}) \ {0} \subseteq Msgs \ {MaxSeq}
        OBVIOUS
      <4> QED BY <3>4, <4>1, <4>2, Widen
    <3>6. \A m \in Msgs \ {MaxSeq} : m < MaxSeq
      BY SeqsNat, ReaderAssumption DEF Msgs
    <3>7. InOrder(out, L, cons)
      BY <2>0, <3>4 DEF PullInv
    <3>8. InOrder(out, L, cons')
      <4>1. (\A i \in 1..Len(out) : out[i] < MaxSeq) /\ \A i \in 1..Len(L) : L[i] < MaxSeq
        <5>1. (\A i \in 1..Len(out) : out[i] \in Msgs \ {MaxSeq}) /\ \A i \in 1..Len(L) : L[i] \in Msgs \ {MaxSeq}
          BY <3>5
        <5> QED BY <3>6, <5>1
      <4> QED BY <3>1, <3>7, <4>1 DEF InOrder
    <3>9. Covers(seenBy.stays, out, L, cons')
      <4>1. Covers(seenBy.stays, out, L, cons)
        BY <2>0, <3>1, <3>4 DEF PullInv
      <4> QED BY <3>1, <4>1 DEF Covers
    <3>10. InOrder(out', q' \o wire', cons') /\ Covers(seenBy'.stays, out', q' \o wire', cons')
      BY <3>1, <3>4, <3>8, <3>9
    <3>11. (seenBy.ended => \A s \in seenBy.stays : Has(out, Len(out), s))'
      BY <2>0, <3>1 DEF PullInv, Has
    <3> QED BY <3>2, <3>10, <3>11 DEF PullInv
  <2>12. CASE RemoveMessages
    <3>1. PICK s \in stored : cons' = cons \ {s} /\ seenBy' = [seenBy EXCEPT !.stays = seenBy.stays \ {s}]
      BY <2>12 DEF RemoveMessages
    <3>2. /\ Active /\ UNCHANGED <<pgr, asks, wire, q, out>>
          /\ seenBy'.stays = seenBy.stays \ {s} /\ seenBy'.ended = seenBy.ended
      BY <1>t, <2>12, <3>1 DEF RemoveMessages, Active
    <3>3. PageFits'
      BY <2>0, <3>2 DEF PullInv, PageFits, fetchBatch
    <3>4. PICK L, S, R : L = q \o wire /\ S = seenBy.stays /\ R = seenBy'.stays
      OBVIOUS
    <3>5. InOrder(out, L, cons')
      BY <2>0, <3>1, <3>4 DEF PullInv, InOrder
    <3>6. Covers(R, out, L, cons')
      <4>1. Covers(S, out, L, cons) /\ R = S \ {s}
        BY <2>0, <3>2, <3>4 DEF PullInv
      <4> QED BY <3>1, <4>1 DEF Covers
    <3>7. InOrder(out', q' \o wire', cons') /\ Covers(seenBy'.stays, out', q' \o wire', cons')
      BY <3>2, <3>4, <3>5, <3>6
    <3>8. (seenBy.ended => \A x \in seenBy.stays : Has(out, Len(out), x))'
      BY <2>0, <3>2 DEF PullInv, Has
    <3> QED BY <3>3, <3>7, <3>8 DEF PullInv
  <2> QED BY <1>t, <1>i, <2>2, <2>4, <2>5, <2>6, <2>7, <2>8, <2>9, <2>11, <2>12 DEF PagerNext
<1> QED BY <1>1, <1>i

\* A returned message stays returned.
LEMMA StillHas ==
  ASSUME NEW A, NEW o \in Seq(A), NEW m \in A, NEW s, Has(o, Len(o), s)
  PROVE  Has(Append(o, m), Len(Append(o, m)), s)
<1>1. PICK i \in 1..Len(o) : o[i] = s
  BY DEF Has
<1>2. i \in 1..Len(Append(o, m)) /\ Append(o, m)[i] = s
  BY <1>1
<1> QED BY <1>2 DEF Has

LEMMA NowHas == ASSUME NEW A, NEW o \in Seq(A), NEW m \in A PROVE Has(Append(o, m), Len(Append(o, m)), m)
<1>1. Len(o) + 1 \in 1..Len(Append(o, m)) /\ Append(o, m)[Len(o) + 1] = m
  OBVIOUS
<1> QED BY <1>1 DEF Has

LEMMA OneOf ==
  \A m : /\ <<m>> # << >> /\ Head(<<m>>) = m /\ Tail(<<m>>) = << >>
         /\ Append(<< >>, m) = <<m>> /\ <<m>> \o << >> = <<m>> /\ Len(<< >>) = 0
OBVIOUS

LEMMA DirectTake ==
  ASSUME PagerInv, DirectInv, TakeMsg
  PROVE DirectInv'
<1> USE DEF PagerTypes, PagerRec, SeenRec
<1>t. PagerTypes /\ pgr.phase = "wait" /\ q # << >>
  BY DEF PagerInv, TakeMsg
<1>1. PICK m \in Msgs : /\ asks = << >> /\ AnswersGet(m, pgr.curSeq - 1) /\ q = <<m>> /\ wire = << >>
  BY <1>t DEF DirectInv
<1>2. /\ asks' = << >> /\ wire' = << >> /\ q' = << >>
      /\ out' = IF m = 0 THEN out ELSE Append(out, m)
      /\ pgr'.phase = "ready" /\ pgr'.curSeq = pgr.curSeq /\ pgr.curSeq \in Nat
      /\ seenBy'.stays = seenBy.stays
      /\ seenBy'.ended = (seenBy.ended \/ m = 0)
  BY <1>1, <1>t, OneOf DEF TakeMsg
<1>3. out \in Seq(Seqs) /\ seenBy.stays \in SUBSET Seqs
  BY <1>t, FlowNow DEF Flow
<1>4. ASSUME NEW s, Has(out, Len(out), s) PROVE Has(out', Len(out'), s)
  <2>1. CASE m = 0
    BY <1>2, <1>4, <2>1
  <2>2. CASE m # 0
    <3>1. m \in Seqs /\ out' = Append(out, m)
      BY <1>2, <2>2, MsgsNat
    <3>2. Has(Append(out, m), Len(Append(out, m)), s)
      BY <1>3, <1>4, <3>1, StillHas
    <3> QED BY <3>1, <3>2
  <2> QED BY <2>1, <2>2
<1>5. ASSUME NEW s \in seenBy.stays, s < pgr.curSeq PROVE Has(out', Len(out'), s)
  <2>0. s \in Seqs /\ s \in Nat /\ s > 0
    BY <1>3, SeqsNat
  <2>1. CASE s < pgr.curSeq - 1
    BY <1>4, <1>t, <2>1 DEF DirectInv
  <2>2. CASE s = pgr.curSeq - 1
    <3>1. m = s /\ m # 0
      BY <1>1, <2>0, <2>2 DEF AnswersGet
    <3>2. Has(Append(out, m), Len(Append(out, m)), m)
      BY <1>3, <2>0, <3>1, NowHas
    <3> QED BY <1>2, <3>1, <3>2
  <2> QED BY <1>2, <1>5, <2>0, <2>1, <2>2
<1>6. ASSUME seenBy'.ended, NEW s \in seenBy.stays PROVE Has(out', Len(out'), s)
  <2>1. CASE seenBy.ended
    BY <1>4, <2>1 DEF DirectInv
  <2>2. CASE m = 0
    <3>1. s < pgr.curSeq - 1
      BY <1>1, <2>2 DEF AnswersGet
    <3> QED BY <1>4, <1>t, <3>1 DEF DirectInv
  <2> QED BY <1>2, <1>6, <2>1, <2>2
<1> QED BY <1>2, <1>5, <1>6 DEF DirectInv

\* Nothing changes but who stays, and what is next to be answered.
LEMMA DirectStep ==
  ASSUME PagerInv, PagerNext, ~seenBy'.lost, ~seenBy'.slow, pgr'.direct
  PROVE DirectInv'
<1> USE DEF PagerTypes, PagerRec, SeenRec
<1>t. PagerTypes /\ Apart /\ ~seenBy.lost /\ ~seenBy.slow /\ ~NextMsgFails /\ ~LoseMessage /\ ~NextTimesOut
  BY SeenStep DEF PagerInv
<1>1. CASE PageContents
  <2>1. PICK p \in Pagers : start(p)
    BY <1>1 DEF PageContents
  <2>2. /\ asks = << >> /\ wire = << >> /\ q = << >> /\ cons = {} /\ out = << >> /\ ~seenBy.ended
    BY <1>t, <2>1 DEF Apart, Active, start
  <2>3. UNCHANGED <<asks, wire, q, out>> /\ ~seenBy'.ended /\ pgr'.phase \in {"ready", "failed"}
    BY <1>t, <2>1, <2>2 DEF start
  <2>4. ASSUME pgr'.phase = "ready", NEW s \in seenBy'.stays, s < pgr'.curSeq PROVE FALSE
    <3>1. /\ pgr' = [pgr EXCEPT !.phase = "ready", !.direct = useDirect(p), !.sub = TRUE,
                                !.curSeq = IF useDirect(p) THEN firstSeq(p) ELSE 0]
          /\ seenBy' = [seenBy EXCEPT !.stays = createConsumer(p)]
      <4>1. /\ ~(pgr' = [pgr EXCEPT !.phase = "failed"])
            /\ ~(pgr' = [pgr EXCEPT !.phase = "failed", !.sub = useDirect(p)])
        <5>1. /\ [pgr EXCEPT !.phase = "failed"].phase = "failed"
              /\ [pgr EXCEPT !.phase = "failed", !.sub = useDirect(p)].phase = "failed"
          BY <1>t
        <5> QED BY <2>4, <5>1
      <4> QED BY <2>1, <4>1 DEF start
    <3>2. pgr'.curSeq = firstSeq(p)
      BY <1>t, <3>1
    <3>3. s \in stored /\ s >= firstSeq(p)
      BY <1>t, <2>4, <3>1 DEF createConsumer
    <3>4. s \in Nat /\ firstSeq(p) \in Nat
      BY <1>t, <2>1, <3>3, FirstSeqNat, SeqsNat DEF Carries, Msgs
    <3> QED BY <2>4, <3>2, <3>3, <3>4
  <2> QED BY <2>2, <2>3, <2>4 DEF DirectInv
<1>i. CASE ~PageContents
  <2>0. DirectInv
    BY <1>t, <1>i, SeenStep DEF PagerInv
  <2>c. pgr.curSeq \in Nat
    BY <1>t
  <2>2. CASE PagerNextMsg
    <3>1. /\ pgr.phase = "ready" /\ pgr.direct /\ UNCHANGED <<wire, q, out>>
          /\ seenBy'.stays = seenBy.stays /\ seenBy'.ended = seenBy.ended
          /\ pgr'.phase = "wait" /\ pgr'.curSeq = pgr.curSeq + 1
          /\ asks' = Append(asks, directGetBatch)
      BY <1>t, <1>i, <2>2, SeenStep DEF PagerNextMsg
    <3>2. asks = << >> /\ q = << >> /\ wire = << >> /\ \A s \in seenBy.stays : s < pgr.curSeq => Has(out, Len(out), s)
      BY <2>0, <3>1 DEF DirectInv
    <3>3. pgr'.curSeq > 0 /\ pgr'.curSeq - 1 = pgr.curSeq
      BY <2>c, <3>1
    <3>4. asks' = <<[kind |-> "get", n |-> pgr'.curSeq - 1]>>
      BY <3>1, <3>2, <3>3, OneOf DEF directGetBatch
    <3> QED BY <2>0, <3>1, <3>2, <3>3, <3>4 DEF DirectInv
  <2>4. CASE TakeMsg
    BY <2>0, <2>4, DirectTake
  <2>6. CASE Close
    <3>1. UNCHANGED <<out, seenBy>> /\ pgr'.phase = "closed"
      BY <1>t, <2>6 DEF Close
    <3> QED BY <2>0, <3>1 DEF DirectInv
  <2>7. CASE ServeFetch
    <3>1. asks # << >> /\ Head(asks).kind = "fetch"
      BY <2>7 DEF ServeFetch
    <3>2. pgr.phase = "wait"
      BY <1>t, <2>0, <3>1 DEF Apart, Active, DirectInv
    <3>3. asks = <<[kind |-> "get", n |-> pgr.curSeq - 1]>>
      BY <2>0, <3>1, <3>2 DEF DirectInv
    <3> QED BY <3>1, <3>3
  <2>8. CASE ServeGet
    <3>1. asks # << >> /\ UNCHANGED <<pgr, q, out, seenBy>> /\ asks' = Tail(asks)
      BY <2>8 DEF ServeGet
    <3>2. pgr.phase = "wait"
      BY <1>t, <2>0, <3>1 DEF Apart, Active, DirectInv
    <3>3. q = << >> /\ wire = << >> /\ asks = <<[kind |-> "get", n |-> pgr.curSeq - 1]>> /\ pgr.curSeq > 0
      BY <2>0, <3>1, <3>2 DEF DirectInv
    <3>4. PICK k \in Nat : k = pgr.curSeq - 1
      BY <2>c, <3>3
    <3>5. Head(asks).n = k /\ asks' = << >>
      BY <3>1, <3>3, <3>4
    <3>6. PICK G : G = {s \in stored : s >= k}
      OBVIOUS
    <3>7. G \in SUBSET Seqs /\ seenBy.stays \subseteq stored /\ stored \subseteq Seqs
      BY <1>t, <3>6 DEF Carries, Msgs
    <3>8. PICK m : m = IF G = {} THEN 0 ELSE least(G)
      OBVIOUS
    <3>9. wire' \in {Append(wire, m), <<m>> \o wire}
      BY <2>8, <3>5, <3>6, <3>8 DEF ServeGet
    <3>10. wire' = <<m>>
      BY <3>3, <3>9, OneOf
    <3>11. m \in Msgs /\ (G # {} => m \in G /\ \A t \in G : m <= t)
      BY <3>7, <3>8, LeastOf DEF Msgs
    <3>12. AnswersGet(m, k)
      <4>1. ASSUME k \in seenBy.stays PROVE m = k
        <5>1. k \in G
          BY <3>6, <3>7, <4>1
        <5>2. m \in G /\ m <= k /\ m >= k /\ m \in Nat
          BY <3>6, <3>7, <3>11, <5>1, SeqsNat
        <5> QED BY <5>2
      <4>2. ASSUME m = 0, NEW s \in seenBy.stays PROVE s < k
        <5>1. G = {}
          BY <3>7, <3>11, <4>2, SeqsNat
        <5>2. s \in stored /\ s \in Nat /\ ~(s >= k)
          BY <3>6, <3>7, <5>1, SeqsNat
        <5> QED BY <5>2
      <4> QED BY <4>1, <4>2 DEF AnswersGet
    <3>13. \E x \in Msgs : AnswersGet(x, pgr.curSeq - 1) /\ q = << >> /\ wire' = <<x>>
      BY <3>3, <3>4, <3>10, <3>11, <3>12
    <3> QED BY <2>0, <3>1, <3>2, <3>3, <3>5, <3>13 DEF DirectInv, AnswersGet
  <2>9. CASE Arrive
    <3>1. /\ wire # << >> /\ wire' = Tail(wire) /\ UNCHANGED <<pgr, asks, out, seenBy>>
          /\ q' = IF Len(q) < PageSize THEN Append(q, Head(wire)) ELSE q
      BY <2>9 DEF Arrive
    <3>2. pgr.phase = "wait"
      BY <1>t, <2>0, <3>1 DEF Apart, Active, DirectInv
    <3>3. PICK m \in Msgs : asks = << >> /\ AnswersGet(m, pgr.curSeq - 1) /\ q = << >> /\ wire = <<m>>
      BY <2>0, <3>1, <3>2 DEF DirectInv
    <3>4. q' = <<m>> /\ wire' = << >>
      BY <3>1, <3>3, OneOf, ReaderAssumption
    <3>5. \E x \in Msgs : AnswersGet(x, pgr.curSeq - 1) /\ q' = <<x>> /\ wire' = << >>
      BY <3>3, <3>4
    <3> QED BY <2>0, <3>1, <3>2, <3>3, <3>5 DEF DirectInv, AnswersGet
  <2>11. CASE Publish
    <3>1. /\ UNCHANGED <<pgr, asks, wire, q, out>>
          /\ seenBy'.stays = seenBy.stays /\ seenBy'.ended = seenBy.ended
      BY <1>t, <2>11 DEF Publish
    <3> QED BY <2>0, <3>1 DEF DirectInv, AnswersGet
  <2>12. CASE RemoveMessages
    <3>1. PICK s \in stored : seenBy' = [seenBy EXCEPT !.stays = seenBy.stays \ {s}]
      BY <2>12 DEF RemoveMessages
    <3>2. /\ UNCHANGED <<pgr, asks, wire, q, out>>
          /\ seenBy'.stays \subseteq seenBy.stays /\ seenBy'.ended = seenBy.ended
      BY <1>t, <2>12, <3>1 DEF RemoveMessages
    <3>3. ASSUME NEW m, NEW k, AnswersGet(m, k) PROVE AnswersGet(m, k)'
      BY <3>2, <3>3 DEF AnswersGet
    <3> QED BY <2>0, <3>2, <3>3 DEF DirectInv, AnswersGet
  <2> QED BY <1>t, <1>i, <2>2, <2>4, <2>6, <2>7, <2>8, <2>9, <2>11, <2>12 DEF PagerNext
<1> QED BY <1>1, <1>i

LEMMA PagerStep == PagerInv /\ [ReaderStep]_readerVars => PagerInv'
<1> SUFFICES ASSUME PagerInv, [ReaderStep]_readerVars PROVE PagerInv'
  OBVIOUS
<1>1. CASE PagerNext
  <2>1. PagerTypes'
    BY <1>1, TypesStep DEF PagerInv
  <2>2. Apart' /\ Unpublished'
    BY <1>1, ApartStep, UnpublishedStep
  <2>3. ~seenBy'.lost /\ ~pgr'.direct => PullInv'
    BY <1>1, PullStep
  <2>4. ~seenBy'.lost /\ ~seenBy'.slow /\ pgr'.direct => DirectInv'
    BY <1>1, DirectStep
  <2> QED BY <2>1, <2>2, <2>3, <2>4 DEF PagerInv
<1>2. CASE UNCHANGED pagerVars
  <2> USE <1>2 DEF pagerVars
  <2>1. PagerTypes'
    BY DEF PagerInv, PagerTypes, Carries
  <2>2. Apart' /\ Unpublished'
    BY DEF PagerInv, Apart, Active, Unpublished, Carries
  <2>3. PullInv => PullInv'
    BY DEF PullInv, PageFits, Active, fetchBatch
  <2>4. DirectInv => DirectInv'
    BY DEF DirectInv, AnswersGet
  <2> QED BY <2>1, <2>2, <2>3, <2>4 DEF PagerInv
<1> QED BY <1>1, <1>2 DEF ReaderStep, readerVars

(***************************************************************************)
(* The pager's invariant: through a consumer, what was returned, what is   *)
(* on its way and what is to be delivered follow each other in order, no   *)
(* page overruns the channel and a status comes after all that stays; by   *)
(* direct gets, one answer at a time is awaited.                           *)
(***************************************************************************)
THEOREM PagerInvariant == ReaderSpec => []PagerInv
<1> QED BY InitPagerInv, PagerStep, PTL DEF ReaderSpec

(***************************************************************************)
(* NextMsg reports the end only after every message that stayed in the     *)
(* stream was returned, and through a consumer returns them in order and   *)
(* once, whatever the page size, while others publish and remove messages. *)
(***************************************************************************)
THEOREM PagerComplete == ReaderSpec => []PagerReturnsAll
<1>1. PagerInv => PagerReturnsAll
  <2> SUFFICES ASSUME PagerInv, ~seenBy.lost
               PROVE  /\ seenBy.ended /\ ~(pgr.direct /\ seenBy.slow) => seenBy.stays \subseteq Returned
                      /\ ~pgr.direct => \A i, j \in DOMAIN out : i < j => out[i] < out[j]
    BY DEF PagerReturnsAll
  <2>1. out \in Seq(Seqs)
    BY FlowNow DEF PagerInv, Flow
  <2>2. DOMAIN out = 1..Len(out)
    BY <2>1
  <2>3. \A s : Has(out, Len(out), s) => s \in Returned
    BY <2>2 DEF Has, Returned
  <2>4. ASSUME seenBy.ended, ~(pgr.direct /\ seenBy.slow) PROVE seenBy.stays \subseteq Returned
    <3>1. \A s \in seenBy.stays : Has(out, Len(out), s)
      BY <2>4 DEF PagerInv, PullInv, DirectInv
    <3> QED BY <2>3, <3>1
  <2>5. ASSUME ~pgr.direct PROVE \A i, j \in DOMAIN out : i < j => out[i] < out[j]
    <3>1. InOrder(out, q \o wire, cons)
      BY <2>5 DEF PagerInv, PullInv
    <3> QED BY <2>2, <3>1 DEF InOrder
  <2> QED BY <2>4, <2>5
<1> QED BY <1>1, PagerInvariant, PTL

-----------------------------------------------------------------------------
(* DetectGaps: the loop over the deleted sequences.                        *)

\* G are the longest runs of L.
Runs(G, L) ==
    /\ G \in SUBSET (Seqs \X Seqs)
    /\ UNION {g[1]..g[2] : g \in G} = L
    /\ \A g, h \in G : g # h => g[2] + 1 < h[1] \/ h[2] + 1 < g[1]

Upto(D, k) == {D[j] : j \in 1..k}

\* After the loop's i-th turn: a run from the k-th on is open, the gaps are those before.
Walked(D, p, k, i) ==
    /\ p \in [start : Seqs, gaps : SUBSET (Seqs \X Seqs)]
    /\ k \in 1..i + 1 /\ p.start = D[k]
    /\ \A j \in k..i + 1 : D[j] = D[k] + (j - k)
    /\ Runs(p.gaps, Upto(D, k - 1))
    /\ \A g \in p.gaps : g[2] + 1 < D[k]

LEMMA AddRun ==
  ASSUME NEW G, NEW L, Runs(G, L), NEW a \in Seqs, NEW b \in Seqs, \A g \in G : g[2] + 1 < a
  PROVE  Runs(G \cup {<<a, b>>}, L \cup (a..b))
<1> DEFINE H == G \cup {<<a, b>>}
<1>0. <<a, b>> \in Seqs \X Seqs /\ <<a, b>>[1] = a /\ <<a, b>>[2] = b
  OBVIOUS
<1>1. H \in SUBSET (Seqs \X Seqs)
  BY <1>0 DEF Runs
<1>2. UNION {g[1]..g[2] : g \in H} = L \cup (a..b)
  <2>1. \A x : (\E g \in H : x \in g[1]..g[2]) <=> ((\E g \in G : x \in g[1]..g[2]) \/ x \in a..b)
    BY <1>0
  <2>2. \A x : x \in L <=> \E g \in G : x \in g[1]..g[2]
    BY DEF Runs
  <2> HIDE DEF H
  <2>3. \A x : x \in UNION {g[1]..g[2] : g \in H} <=> \E g \in H : x \in g[1]..g[2]
    OBVIOUS
  <2> QED BY <2>1, <2>2, <2>3
<1>3. ASSUME NEW g \in H, NEW h \in H, g # h PROVE g[2] + 1 < h[1] \/ h[2] + 1 < g[1]
  BY <1>0, <1>3 DEF Runs
<1> QED BY <1>1, <1>2, <1>3 DEF Runs

\* An ascending list in Seqs.
Ascends(D) == D \in Seq(Seqs) /\ \A i, j \in 1..Len(D) : i < j => D[i] < D[j]

\* The open run closes at its last sequence.
LEMMA CloseRun ==
  ASSUME NEW D, Ascends(D), NEW i \in Nat, i + 1 <= Len(D), NEW p, NEW k, Walked(D, p, k, i),
         NEW b \in k..i + 1
  PROVE  /\ Runs(p.gaps \cup {<<D[k], D[b]>>}, Upto(D, b))
         /\ D[k] \in Seqs /\ D[b] \in Seqs /\ D[k] <= D[b]
<1>1. k \in Nat /\ k >= 1 /\ k <= i + 1 /\ b \in Nat /\ k <= b /\ b <= i + 1 /\ Len(D) \in Nat
  BY DEF Walked, Ascends
<1>2. D[k] \in Seqs /\ D[b] \in Seqs /\ D[k] \in Nat /\ D[b] \in Nat
  <2>1. k \in 1..Len(D) /\ b \in 1..Len(D) /\ D \in Seq(Seqs)
    BY <1>1 DEF Ascends
  <2>2. D[k] \in Seqs /\ D[b] \in Seqs
    BY <2>1
  <2> QED BY <2>2, SeqsNat
<1>3. D[b] = D[k] + (b - k)
  BY <1>1 DEF Walked
<1>4. Runs(p.gaps \cup {<<D[k], D[b]>>}, Upto(D, k - 1) \cup (D[k]..D[b]))
  BY <1>2, AddRun DEF Walked
<1>5. Upto(D, k - 1) \cup (D[k]..D[b]) = Upto(D, b)
  <2>1. ASSUME NEW x \in D[k]..D[b] PROVE x \in Upto(D, b)
    <3>1. k + (x - D[k]) \in k..b /\ x \in Nat
      BY <1>1, <1>2, <1>3
    <3>2. D[k + (x - D[k])] = D[k] + ((k + (x - D[k])) - k)
      BY <1>1, <3>1 DEF Walked
    <3>3. D[k + (x - D[k])] = x /\ k + (x - D[k]) \in 1..b
      BY <1>1, <1>2, <3>1, <3>2
    <3> QED BY <3>3 DEF Upto
  <2>2. ASSUME NEW x \in Upto(D, k - 1) PROVE x \in Upto(D, b)
    <3>1. PICK j \in 1..k - 1 : x = D[j]
      BY DEF Upto
    <3>2. j \in 1..b
      BY <1>1
    <3> QED BY <3>1, <3>2 DEF Upto
  <2>3. ASSUME NEW x \in Upto(D, b) PROVE x \in Upto(D, k - 1) \cup (D[k]..D[b])
    <3>1. PICK j \in 1..b : x = D[j]
      BY DEF Upto
    <3>2. CASE j < k
      <4>1. j \in 1..k - 1
        BY <1>1, <3>2
      <4> QED BY <3>1, <4>1 DEF Upto
    <3>3. CASE j >= k
      <4>1. j \in k..i + 1 /\ j <= b
        BY <1>1, <3>3
      <4>2. D[j] = D[k] + (j - k)
        BY <4>1 DEF Walked
      <4> QED BY <1>1, <1>2, <1>3, <3>1, <4>1, <4>2
    <3> QED BY <1>1, <3>2, <3>3
  <2> QED BY <2>1, <2>2, <2>3
<1>6. D[k] <= D[b]
  BY <1>1, <1>2, <1>3
<1> QED BY <1>2, <1>4, <1>5, <1>6

\* One turn of the loop, from p.
Turn(D, p, i) ==
    IF i = Len(D)
    THEN [p EXCEPT !.gaps = @ \cup {<<IF D[Len(D)] - 1 = D[Len(D) - 1] THEN p.start ELSE D[Len(D)], D[Len(D)]>>}]
    ELSE IF D[i + 1] # D[i] + 1
    THEN [start |-> D[i + 1], gaps |-> p.gaps \cup {<<p.start, D[i]>>}]
    ELSE p

IsWalk(g, D, m) ==
    g = [i \in 0..m |-> IF i = 0 THEN [start |-> D[1], gaps |-> {}] ELSE Turn(D, g[i - 1], i)]

LEMMA WalkExists == ASSUME NEW D, NEW n \in Nat PROVE \E g : IsWalk(g, D, n)
<1> DEFINE T == {m \in Nat : \E g : IsWalk(g, D, m)}
<1>1. 0 \in T
  <2>1. IsWalk([i \in 0..0 |-> [start |-> D[1], gaps |-> {}]], D, 0)
    BY DEF IsWalk
  <2> QED BY <2>1
<1>2. ASSUME NEW m \in Nat, m \in T PROVE m + 1 \in T
  <2>1. PICK g : IsWalk(g, D, m)
    BY <1>2
  <2> DEFINE val(i) == IF i = 0 THEN [start |-> D[1], gaps |-> {}] ELSE Turn(D, g[i - 1], i)
             h == [i \in 0..m + 1 |-> val(i)]
  <2>2. \A i \in 0..m : g[i] = val(i)
    BY <2>1 DEF IsWalk
  <2>3. ASSUME NEW i \in 0..m PROVE h[i] = g[i]
    <3>1. i \in 0..m + 1
      OBVIOUS
    <3>2. h[i] = val(i)
      BY <3>1
    <3> QED BY <2>2, <3>2
  <2>4. ASSUME NEW i \in 0..m + 1
        PROVE  h[i] = IF i = 0 THEN [start |-> D[1], gaps |-> {}] ELSE Turn(D, h[i - 1], i)
    <3>1. CASE i = 0
      BY <3>1
    <3>2. CASE i # 0
      <4>1. i - 1 \in 0..m
        BY <3>2
      <4>2. h[i - 1] = g[i - 1]
        BY <2>3, <4>1
      <4> QED BY <3>2, <4>2
    <3> QED BY <3>1, <3>2
  <2>5. h = [i \in 0..m + 1 |-> h[i]]
    OBVIOUS
  <2> HIDE DEF h
  <2>6. IsWalk(h, D, m + 1)
    BY <2>4, <2>5 DEF IsWalk
  <2> QED BY <2>6
<1> HIDE DEF T
<1>3. n \in T
  BY <1>1, <1>2, SetInduction
<1> QED BY <1>3 DEF T

LEMMA DetectGapsIs ==
  ASSUME NEW D, Len(D) \in Nat, Len(D) > 1
  PROVE  \E g : IsWalk(g, D, Len(D)) /\ detectGaps(D) = g[Len(D)].gaps
<1>4. Len(D) # 0 /\ Len(D) # 1
  <2>1. PICK n \in Nat : n = Len(D) /\ n > 1
    OBVIOUS
  <2>2. n # 0 /\ n # 1
    BY <2>1
  <2> QED BY <2>1, <2>2, Zenon
<1> DEFINE it == CHOOSE g : g = [i \in 0..Len(D) |->
            IF i = 0 THEN [start |-> D[1], gaps |-> {}] ELSE Turn(D, g[i - 1], i)]
<1>1. PICK f : IsWalk(f, D, Len(D))
  BY WalkExists
<1>2. f = [i \in 0..Len(D) |-> IF i = 0 THEN [start |-> D[1], gaps |-> {}] ELSE Turn(D, f[i - 1], i)]
  BY <1>1 DEF IsWalk
<1>3. it = [i \in 0..Len(D) |-> IF i = 0 THEN [start |-> D[1], gaps |-> {}] ELSE Turn(D, it[i - 1], i)]
  BY <1>2, Zenon
<1>5. detectGaps(D) = it[Len(D)].gaps
  BY <1>4, Zenon DEF detectGaps, Turn
<1> HIDE DEF it
<1>6. IsWalk(it, D, Len(D))
  BY <1>3 DEF IsWalk
<1> QED BY <1>5, <1>6

LEMMA TurnStep ==
  ASSUME NEW D, Ascends(D), NEW i \in Nat, i > 0, i < Len(D), NEW p, NEW k, Walked(D, p, k, i - 1)
  PROVE  \E l : Walked(D, Turn(D, p, i), l, i)
<1>1. k \in Nat /\ k >= 1 /\ k <= i /\ Len(D) \in Nat /\ i \in 1..Len(D) /\ i + 1 \in 1..Len(D) /\ i < i + 1
  BY DEF Walked, Ascends
<1>2. D[i] \in Seqs /\ D[i + 1] \in Seqs /\ D[i] < D[i + 1]
  BY <1>1 DEF Ascends
<1>2a. D[i] \in Nat /\ D[i + 1] \in Nat
  BY <1>2, SeqsNat
<1>3. CASE D[i + 1] # D[i] + 1
  <2>1. Turn(D, p, i) = [start |-> D[i + 1], gaps |-> p.gaps \cup {<<D[k], D[i]>>}]
    BY <1>1, <1>3 DEF Turn, Walked
  <2>2. PICK r : r = Turn(D, p, i)
    OBVIOUS
  <2>3. r.start = D[i + 1] /\ r.gaps = p.gaps \cup {<<D[k], D[i]>>} /\ r = [start |-> r.start, gaps |-> r.gaps]
    BY <2>1, <2>2
  <2>4. /\ Runs(r.gaps, Upto(D, i)) /\ D[k] \in Seqs /\ D[k] <= D[i]
    <3>1. i - 1 \in Nat /\ (i - 1) + 1 <= Len(D) /\ i \in k..(i - 1) + 1
      BY <1>1
    <3>2. /\ Runs(p.gaps \cup {<<D[k], D[i]>>}, Upto(D, i))
          /\ D[k] \in Seqs /\ D[i] \in Seqs /\ D[k] <= D[i]
      BY <3>1, CloseRun
    <3> QED BY <2>3, <3>2
  <2>5. r \in [start : Seqs, gaps : SUBSET (Seqs \X Seqs)]
    BY <1>2, <2>3, <2>4 DEF Runs
  <2>6. D[i] + 1 < D[i + 1]
    BY <1>2, <1>2a, <1>3
  <2>7. ASSUME NEW g \in r.gaps PROVE g[2] + 1 < D[i + 1]
    <3>1. CASE g = <<D[k], D[i]>>
      BY <2>6, <3>1
    <3>2. CASE g \in p.gaps
      <4>1. g[2] + 1 < D[k] /\ g[2] \in Seqs
        BY <3>2 DEF Walked
      <4>2. g[2] \in Nat /\ D[k] \in Nat
        BY <2>4, <4>1, SeqsNat
      <4> QED BY <4>1, <4>2, <1>2, <1>2a, <2>4
    <3> QED BY <2>3, <3>1, <3>2
  <2>8. Walked(D, r, i + 1, i)
    <3>1. i + 1 \in 1..i + 1 /\ (i + 1) - 1 = i
      BY <1>1
    <3>2. \A j \in i + 1..i + 1 : D[j] = D[i + 1] + (j - (i + 1))
      BY <1>2a, <1>1
    <3> QED BY <2>3, <2>4, <2>5, <2>7, <3>1, <3>2 DEF Walked
  <2> QED BY <2>2, <2>8
<1>4. CASE D[i + 1] = D[i] + 1
  <2>1. Turn(D, p, i) = p
    BY <1>1, <1>4 DEF Turn
  <2>2. D[i] = D[k] + (i - k)
    BY <1>1 DEF Walked
  <2>3. D[k] \in Nat
    <3>1. k \in 1..Len(D) /\ D \in Seq(Seqs)
      BY <1>1 DEF Ascends
    <3>2. D[k] \in Seqs
      BY <3>1
    <3> QED BY <3>2, SeqsNat
  <2>4. ASSUME NEW j \in k..i + 1 PROVE D[j] = D[k] + (j - k)
    <3>1. CASE j = i + 1
      BY <1>1, <1>4, <2>2, <2>3, <3>1
    <3>2. CASE j # i + 1
      <4>1. j \in k..(i - 1) + 1
        BY <1>1, <3>2
      <4> QED BY <4>1 DEF Walked
    <3> QED BY <3>1, <3>2
  <2>5. k \in 1..i + 1
    BY <1>1
  <2>6. Walked(D, p, k, i)
    BY <2>4, <2>5 DEF Walked
  <2> QED BY <2>1, <2>6
<1> QED BY <1>3, <1>4

\* The gaps reported are the longest runs of what is listed.
LEMMA GapsAreRuns == ASSUME NEW L \in SUBSET Seqs, NEW D, Sorts(D, L) PROVE Runs(detectGaps(D), L)
<1>0. Ascends(D) /\ D \in Seq(Seqs) /\ Len(D) \in Nat
  BY DEF Sorts, Ascends
<1>1. L = Upto(D, Len(D))
  BY DEF Sorts, Upto
<1>2. CASE Len(D) = 0
  <2>1. detectGaps(D) = {}
    BY <1>2 DEF detectGaps
  <2>2. L = {}
    BY <1>1, <1>2 DEF Upto
  <2> QED BY <2>1, <2>2 DEF Runs
<1>3. CASE Len(D) = 1
  <2>1. detectGaps(D) = {<<D[1], D[1]>>}
    BY <1>3 DEF detectGaps
  <2>2. D[1] \in Seqs
    BY <1>0, <1>3
  <2>3. Runs({}, {})
    BY DEF Runs
  <2>4. Runs({} \cup {<<D[1], D[1]>>}, {} \cup (D[1]..D[1]))
    BY <2>2, <2>3, AddRun
  <2>5. L = D[1]..D[1]
    <3>1. L = {D[1]}
      BY <1>1, <1>3 DEF Upto
    <3>2. D[1]..D[1] = {D[1]}
      BY <2>2, SeqsNat
    <3> QED BY <3>1, <3>2
  <2> QED BY <2>1, <2>4, <2>5
<1>4. CASE Len(D) > 1
  <2>1. PICK g : IsWalk(g, D, Len(D)) /\ detectGaps(D) = g[Len(D)].gaps
    BY <1>0, <1>4, DetectGapsIs
  <2>2. g[0] = [start |-> D[1], gaps |-> {}] /\ \A i \in 1..Len(D) : g[i] = Turn(D, g[i - 1], i)
    <3>1. \A i \in 0..Len(D) : g[i] = IF i = 0 THEN [start |-> D[1], gaps |-> {}] ELSE Turn(D, g[i - 1], i)
      BY <2>1 DEF IsWalk
    <3>2. 0 \in 0..Len(D) /\ \A i \in 1..Len(D) : i \in 0..Len(D) /\ i # 0
      BY <1>0
    <3> QED BY <3>1, <3>2
  <2> DEFINE T == {i \in Nat : i < Len(D) => \E k : Walked(D, g[i], k, i)}
  <2>3. 0 \in T
    <3>0. 1 \in 1..Len(D)
      BY <1>0, <1>4
    <3>a. D[1] \in Seqs
      BY <1>0, <3>0
    <3>b. g[0].start = D[1] /\ g[0].gaps = {}
      BY <2>2
    <3>1. g[0].start = D[1] /\ g[0].gaps = {} /\ D[1] \in Seqs /\ D[1] \in Nat
      BY <3>a, <3>b, SeqsNat
    <3>2. g[0] \in [start : Seqs, gaps : SUBSET (Seqs \X Seqs)]
      BY <2>2, <3>1
    <3>3. Upto(D, 1 - 1) = {}
      BY DEF Upto
    <3>4. Runs({}, {})
      BY DEF Runs
    <3>5. \A j \in 1..0 + 1 : D[j] = D[1] + (j - 1)
      BY <3>1
    <3>6. Runs(g[0].gaps, Upto(D, 1 - 1)) /\ \A h \in g[0].gaps : h[2] + 1 < D[1]
      BY <3>1, <3>3, <3>4
    <3>7. 1 \in 1..0 + 1
      OBVIOUS
    <3>8. Walked(D, g[0], 1, 0)
      BY <3>1, <3>2, <3>5, <3>6, <3>7, Zenon DEF Walked
    <3> QED BY <3>8
  <2>4. ASSUME NEW i \in Nat, i \in T PROVE i + 1 \in T
    <3> SUFFICES ASSUME i + 1 < Len(D) PROVE \E k : Walked(D, g[i + 1], k, i + 1)
      OBVIOUS
    <3>1. PICK k : Walked(D, g[i], k, i)
      BY <1>0, <2>4
    <3>2. i + 1 \in 1..Len(D) /\ (i + 1) - 1 = i /\ i + 1 > 0 /\ i + 1 \in Nat
      BY <1>0
    <3>3. g[i + 1] = Turn(D, g[i], i + 1)
      BY <2>2, <3>2
    <3>4. PICK a : a = i + 1
      OBVIOUS
    <3>5. Walked(D, g[i], k, a - 1)
      BY <3>1, <3>2, <3>4
    <3>6. \E l : Walked(D, Turn(D, g[i], a), l, a)
      BY <1>0, <3>2, <3>4, <3>5, TurnStep
    <3> QED BY <3>3, <3>4, <3>6
  <2> HIDE DEF T
  <2>5. Len(D) - 1 \in T
    <3>1. Nat \subseteq T
      BY <2>3, <2>4, SetInduction
    <3> QED BY <1>0, <1>4, <3>1
  <2>6. PICK n : n = Len(D)
    OBVIOUS
  <2>7. PICK k : Walked(D, g[n - 1], k, n - 1)
    BY <1>0, <2>5, <2>6 DEF T
  <2>8. PICK p : p = g[n - 1]
    OBVIOUS
  <2>9. g[n] = Turn(D, p, n)
    BY <1>0, <1>4, <2>2, <2>6, <2>8
  <2>10. p \in [start : Seqs, gaps : SUBSET (Seqs \X Seqs)] /\ p.start = D[k] /\ k \in 1..n /\ n \in Nat
    BY <1>0, <2>6, <2>7, <2>8 DEF Walked
  <2>11. (IF D[n] - 1 = D[n - 1] THEN p.start ELSE D[n]) = D[k]
    <3>1. CASE k = n
      BY <2>10, <3>1
    <3>2. CASE k # n
      <4>1. n \in k..(n - 1) + 1 /\ n - 1 \in k..(n - 1) + 1 /\ k \in Nat
        BY <2>10, <3>2
      <4>2. D[n] = D[k] + (n - k) /\ D[n - 1] = D[k] + ((n - 1) - k)
        BY <2>7, <4>1 DEF Walked
      <4>3. D[k] \in Nat
        BY <2>10, SeqsNat
      <4>4. D[n] - 1 = D[n - 1]
        BY <2>10, <4>1, <4>2, <4>3
      <4> QED BY <2>10, <4>4
    <3> QED BY <3>1, <3>2
  <2>12. g[n].gaps = p.gaps \cup {<<D[k], D[n]>>}
    BY <2>6, <2>9, <2>10, <2>11 DEF Turn
  <2>13. Runs(p.gaps \cup {<<D[k], D[n]>>}, Upto(D, n))
    <3>1. n - 1 \in Nat /\ (n - 1) + 1 <= Len(D) /\ n \in k..(n - 1) + 1
      BY <1>4, <2>6, <2>10
    <3>2. Walked(D, p, k, n - 1)
      BY <2>7, <2>8
    <3> QED BY <1>0, <3>1, <3>2, CloseRun
  <2> QED BY <1>1, <2>1, <2>6, <2>12, <2>13
<1>5. \A n \in Nat : n = 0 \/ n = 1 \/ n > 1
  OBVIOUS
<1> QED BY <1>0, <1>2, <1>3, <1>4, <1>5

-----------------------------------------------------------------------------
(* The direct get and the search for gaps.                                 *)

Causes == Bad \cup {"none", "canceled", "timeout", "deadline", ""}

\* A wait cancelled without an error was ended by the server or by the caller.
GetInv ==
    /\ get \in [phase : {"idle", "refused", "wait", "returned"}, cause : Causes, handled : Nat,
                ended : BOOLEAN, gone : BOOLEAN]
    /\ get.phase = "wait" /\ get.cause = "canceled" => get.ended \/ get.gone
    /\ get.phase = "returned" /\ get.cause = "" => get.ended \/ get.gone
    /\ get.phase = "wait" => get.cause # ""

HonestInv == GetInv /\ Runs(search.gaps, search.listed) /\ search.listed \subseteq search.deleted

LEMMA InitHonest == ReaderInit => HonestInv
<1> SUFFICES ASSUME ReaderInit PROVE HonestInv
  OBVIOUS
<1>1. GetInv
  BY DEF ReaderInit, NoGet, GetInv, Causes, Bad
<1>2. search.gaps = {} /\ search.listed = {} /\ search.deleted = {}
  BY DEF ReaderInit, NoSearch
<1>3. Runs({}, {})
  BY DEF Runs
<1> QED BY <1>1, <1>2, <1>3 DEF HonestInv

LEMMA GetStep == GetInv /\ DirectGetNext => GetInv'
<1> SUFFICES ASSUME GetInv, DirectGetNext PROVE GetInv'
  OBVIOUS
<1>1. CASE \E allowed, batch, lastFor \in BOOLEAN : DirectGet(allowed, batch, lastFor)
  <2>1. PICK allowed \in BOOLEAN, batch \in BOOLEAN, lastFor \in BOOLEAN : DirectGet(allowed, batch, lastFor)
    BY <1>1
  <2>2. get' = [NoGet EXCEPT !.phase = "refused"] \/ get' = [NoGet EXCEPT !.phase = "wait"]
    BY <2>1 DEF DirectGet
  <2>3. CASE get' = [NoGet EXCEPT !.phase = "refused"]
    BY <2>3 DEF NoGet, GetInv, Causes, Bad
  <2>4. CASE get' = [NoGet EXCEPT !.phase = "wait"]
    BY <2>4 DEF NoGet, GetInv, Causes, Bad
  <2> QED BY <2>2, <2>3, <2>4
<1>2. CASE HandleMsg
  <2>1. CASE get.handled < MaxSeq /\ get' = [get EXCEPT !.handled = @ + 1]
    <3>0. get.handled \in Nat
      BY DEF GetInv
    <3>1. PICK n \in Nat : n = get.handled + 1
      BY <3>0
    <3>2. get' = [get EXCEPT !.handled = n]
      BY <2>1, <3>1
    <3> QED BY <3>2 DEF GetInv
  <2>2. CASE get' = [cancel(get, "canceled") EXCEPT !.ended = TRUE]
    BY <2>2 DEF GetInv, cancel, Causes, Bad
  <2>3. CASE \E status \in Bad : get' = cancel(get, status)
    <3>1. PICK status \in Bad : get' = cancel(get, status)
      BY <2>3
    <3> QED BY <3>1 DEF GetInv, cancel, Causes, Bad
  <2> QED BY <1>2, <2>1, <2>2, <2>3 DEF HandleMsg
<1>3. CASE DirectGetTimesOut
  BY <1>3 DEF DirectGetTimesOut, GetInv, cancel, Causes, Bad
<1>4. CASE DirectGetContextEnds
  <2>1. PICK cause \in {"canceled", "deadline"} : get' = [cancel(get, cause) EXCEPT !.gone = TRUE]
    BY <1>4 DEF DirectGetContextEnds
  <2> QED BY <2>1 DEF GetInv, cancel, Causes, Bad
<1>5. CASE DirectGetReturns
  BY <1>5 DEF DirectGetReturns, GetInv, causeError, Causes, Bad
<1> QED BY <1>1, <1>2, <1>3, <1>4, <1>5 DEF DirectGetNext

LEMMA GapsStep == GapsNext => Runs(search.gaps, search.listed)' /\ (search.listed \subseteq search.deleted)'
<1> SUFFICES ASSUME GapsNext
             PROVE  Runs(search'.gaps, search'.listed) /\ search'.listed \subseteq search'.deleted
  BY DEF Runs
<1>1. PICK deleted \in SUBSET Seqs, limit \in Seqs : DetectGaps(deleted, limit)
  BY DEF GapsNext
<1>2. PICK L : L = firsts(deleted, limit)
  OBVIOUS
<1>3. search'.gaps = detectGaps(sorted[L]) /\ search'.listed = L /\ search'.deleted = deleted
  BY <1>1, <1>2 DEF DetectGaps
<1>4. L \in SUBSET Seqs /\ L \subseteq deleted
  BY <1>2 DEF firsts
<1>5. Sorts(sorted[L], L)
  BY <1>4, SortedFacts
<1>6. Runs(detectGaps(sorted[L]), L)
  BY <1>4, <1>5, GapsAreRuns
<1> QED BY <1>3, <1>4, <1>6

LEMMA HonestStep == HonestInv /\ [ReaderStep]_readerVars => HonestInv'
<1> SUFFICES ASSUME HonestInv, [ReaderStep]_readerVars PROVE HonestInv'
  OBVIOUS
<1>1. CASE UNCHANGED <<get, search>>
  BY <1>1 DEF HonestInv, GetInv, Runs
<1>2. CASE DirectGetNext /\ UNCHANGED <<pagerVars, search>>
  <2>1. GetInv'
    BY <1>2, GetStep DEF HonestInv
  <2> QED BY <1>2, <2>1 DEF HonestInv, Runs
<1>3. CASE GapsNext /\ UNCHANGED <<pagerVars, get>>
  <2>1. Runs(search.gaps, search.listed)' /\ (search.listed \subseteq search.deleted)'
    BY <1>3, GapsStep
  <2>2. GetInv'
    BY <1>3 DEF HonestInv, GetInv
  <2> QED BY <2>1, <2>2 DEF HonestInv
<1>4. CASE PagerNext /\ UNCHANGED <<get, search>>
  BY <1>1, <1>4
<1>5. CASE UNCHANGED readerVars
  BY <1>1, <1>5 DEF readerVars
<1> QED BY <1>2, <1>3, <1>4, <1>5 DEF ReaderStep

(***************************************************************************)
(* DirectGet returns no error only when the server ended the batch or the  *)
(* caller cancelled, whatever statuses, timeouts and cancellations came in *)
(* which order; and the loop of DetectGaps reports nothing that is stored, *)
(* no run in pieces, and all that is deleted when all of it is listed, for *)
(* every set of deleted messages.                                          *)
(***************************************************************************)
THEOREM ReadsHonest == ReaderSpec => []ReadsAreHonest
<1>1. HonestInv => ReadsAreHonest
  BY DEF HonestInv, GetInv, Runs, ReadsAreHonest, Reported
<1> QED BY <1>1, InitHonest, HonestStep, PTL DEF ReaderSpec

-----------------------------------------------------------------------------
(* Sorting: what ascending returns, by least and greatest elements.         *)

LEMMA Below ==
  ASSUME NEW D, IsFiniteSet(D), NEW A \in SUBSET D, NEW B \in SUBSET D, A \subseteq B
  PROVE  /\ Cardinality(A) \in Nat /\ Cardinality(B) \in Nat /\ Cardinality(A) <= Cardinality(B)
         /\ A # B => Cardinality(A) < Cardinality(B)
<1>1. IsFiniteSet(B) /\ IsFiniteSet(A)
  BY FS_Subset
<1>2. Cardinality(A) \in Nat /\ Cardinality(B) \in Nat /\ Cardinality(A) <= Cardinality(B)
  BY <1>1, FS_Subset, FS_CardinalityType
<1>3. A # B => Cardinality(A) # Cardinality(B)
  BY <1>1, FS_Subset
<1> QED BY <1>2, <1>3

Less(f, v) == {x \in DOMAIN f : f[x] < v}
NotAbove(f, v) == {x \in DOMAIN f : f[x] <= v}

Measured(f) == IsFiniteSet(DOMAIN f) /\ \A x \in DOMAIN f : f[x] \in Nat

\* A finite part of f has a greatest value.
LEMMA Greatest ==
  ASSUME NEW f, Measured(f), NEW A \in SUBSET DOMAIN f, A # {}
  PROVE  \E x \in A : \A y \in A : f[y] <= f[x]
<1> DEFINE N == Cardinality(A)
           U(x) == {y \in A : f[y] <= f[x]}
           T == {N - Cardinality(U(x)) : x \in A}
<1>1. IsFiniteSet(A) /\ N \in Nat /\ \A x \in A : f[x] \in Nat
  BY FS_Subset, FS_CardinalityType DEF Measured
<1>2. \A x \in A : Cardinality(U(x)) \in Nat /\ Cardinality(U(x)) <= N
  <2>1. \A x \in A : U(x) \in SUBSET A /\ U(x) \subseteq A /\ A \in SUBSET A
    OBVIOUS
  <2> HIDE DEF U
  <2> QED BY <1>1, <2>1, Below
<1>3. T \subseteq Nat /\ T # {}
  <2> HIDE DEF U, N
  <2> QED BY <1>1, <1>2
<1>4. PICK n \in T : \A m \in T : n <= m
  BY <1>3, NatMin
<1>5. PICK x \in A : n = N - Cardinality(U(x))
  BY <1>4
<1>6. ASSUME NEW y \in A, ~(f[y] <= f[x]) PROVE FALSE
  <2>1. f[x] \in Nat /\ f[y] \in Nat /\ f[x] < f[y]
    BY <1>1, <1>6
  <2>2. U(x) \subseteq U(y) /\ y \in U(y) /\ y \notin U(x) /\ U(x) \in SUBSET A /\ U(y) \in SUBSET A
    BY <1>1, <2>1
  <2>3. N - Cardinality(U(y)) \in T
    OBVIOUS
  <2> HIDE DEF U, T, N
  <2>4. Cardinality(U(x)) < Cardinality(U(y))
    BY <1>1, <2>2, Below
  <2>5. N - Cardinality(U(x)) <= N - Cardinality(U(y))
    BY <1>4, <1>5, <2>3
  <2> QED BY <1>1, <1>2, <2>4, <2>5
<1> QED BY <1>6

\* How many are below or up to a value.
LEMMA Counts ==
  ASSUME NEW f, Measured(f), NEW u \in Nat, NEW v \in Nat
  PROVE  /\ Cardinality(Less(f, v)) \in Nat /\ Cardinality(NotAbove(f, v)) \in Nat
         /\ Cardinality(NotAbove(f, v)) <= Cardinality(DOMAIN f)
         /\ u < v => Cardinality(NotAbove(f, u)) <= Cardinality(Less(f, v))
<1>1. /\ Less(f, v) \in SUBSET DOMAIN f /\ NotAbove(f, v) \in SUBSET DOMAIN f /\ DOMAIN f \in SUBSET DOMAIN f
      /\ NotAbove(f, u) \in SUBSET DOMAIN f /\ NotAbove(f, v) \subseteq DOMAIN f
  BY DEF Less, NotAbove
<1>2. u < v => NotAbove(f, u) \subseteq Less(f, v)
  BY DEF Less, NotAbove, Measured
<1> QED BY <1>1, <1>2, Below DEF Measured

Placed(f, v, i) == Cardinality(Less(f, v)) < i /\ i <= Cardinality(NotAbove(f, v))

\* Every place has a value, and one only.
LEMMA PlaceExists ==
  ASSUME NEW f, Measured(f), NEW i \in 1..Cardinality(DOMAIN f)
  PROVE  \E v \in Range(f) : Placed(f, v, i)
<1> DEFINE T == {v \in Range(f) : i <= Cardinality(NotAbove(f, v))}
<1>1. /\ \A v \in Range(f) : v \in Nat /\ \E x \in DOMAIN f : f[x] = v
      /\ \A x \in DOMAIN f : f[x] \in Range(f)
  BY DEF Range, Measured
<1>2. ASSUME NEW A \in SUBSET DOMAIN f, A # {}, i <= Cardinality(A)
      PROVE  \E x \in A : f[x] \in T
  <2>1. PICK x \in A : \A y \in A : f[y] <= f[x]
    BY <1>2, Greatest
  <2>2. A \subseteq NotAbove(f, f[x]) /\ NotAbove(f, f[x]) \in SUBSET DOMAIN f
    BY <2>1 DEF NotAbove
  <2>3. Cardinality(A) \in Nat /\ Cardinality(NotAbove(f, f[x])) \in Nat /\ Cardinality(A) <= Cardinality(NotAbove(f, f[x]))
    BY <2>2, Below DEF Measured
  <2>4. i <= Cardinality(NotAbove(f, f[x])) /\ f[x] \in Range(f)
    BY <1>1, <1>2, <2>3
  <2> QED BY <2>4
<1>3. Cardinality(DOMAIN f) \in Nat /\ DOMAIN f # {}
  BY FS_CardinalityType, FS_EmptySet DEF Measured
<1>4. T # {} /\ T \subseteq Nat
  BY <1>1, <1>2, <1>3
<1>5. PICK v \in T : \A w \in T : v <= w
  BY <1>4, NatMin
<1>6. v \in Nat /\ Cardinality(Less(f, v)) \in Nat
  BY <1>1, Counts
<1>7. ASSUME ~(Cardinality(Less(f, v)) < i) PROVE FALSE
  <2>1. i <= Cardinality(Less(f, v)) /\ Less(f, v) \in SUBSET DOMAIN f
    BY <1>6, <1>7 DEF Less
  <2>2. Less(f, v) # {}
    BY <1>6, <2>1, FS_EmptySet
  <2>3. PICK x \in Less(f, v) : f[x] \in T
    BY <1>2, <2>1, <2>2
  <2>4. f[x] < v /\ v <= f[x] /\ f[x] \in Nat
    BY <1>1, <1>5, <2>3 DEF Less
  <2> QED BY <1>6, <2>4
<1> QED BY <1>5, <1>7 DEF Placed

\* The value at a place is in order with that at a later one.
LEMMA PlacesOrdered ==
  ASSUME NEW f, Measured(f), NEW i \in Nat, NEW j \in Nat, i <= j, NEW u \in Nat, NEW v \in Nat,
         Placed(f, u, i), Placed(f, v, j)
  PROVE  u <= v
<1>1. /\ Cardinality(Less(f, u)) \in Nat /\ Cardinality(NotAbove(f, v)) \in Nat
      /\ v < u => Cardinality(NotAbove(f, v)) <= Cardinality(Less(f, u))
  BY Counts
<1>2. Cardinality(Less(f, u)) < i /\ j <= Cardinality(NotAbove(f, v))
  BY DEF Placed
<1>3. ~(v < u)
  BY <1>1, <1>2
<1> QED BY <1>3

\* What sorting does: the values of f in order, twice what f has twice.
Sorting(a, f) ==
    /\ a \in Seq(Range(f))
    /\ \A x \in DOMAIN f : \E i \in 1..Len(a) : a[i] = f[x]
    /\ \A i, j \in 1..Len(a) : i < j => a[i] <= a[j]
    /\ \A i, j \in 1..Len(a) : i < j /\ a[i] = a[j] =>
          \E x, y \in DOMAIN f : x # y /\ f[x] = a[i] /\ f[y] = a[i]

LEMMA AscendingSorts ==
  ASSUME NEW f, Measured(f)
  PROVE  Sorting(ascending(f), f)
<1> DEFINE N == Cardinality(DOMAIN f)
<1>1. N \in Nat
  BY FS_CardinalityType DEF Measured
<1>2. PICK a : a = [i \in 1..N |-> CHOOSE v \in Range(f) : Placed(f, v, i)]
  OBVIOUS
<1>3. a = ascending(f)
  BY <1>2 DEF ascending, Placed, Less, NotAbove
<1>4. \A i \in 1..N : a[i] \in Range(f) /\ Placed(f, a[i], i)
  <2>1. ASSUME NEW i \in 1..N PROVE a[i] \in Range(f) /\ Placed(f, a[i], i)
    <3>1. a[i] = CHOOSE v \in Range(f) : Placed(f, v, i)
      BY <1>2
    <3>2. \E v \in Range(f) : Placed(f, v, i)
      BY PlaceExists
    <3> QED BY <3>1, <3>2, Zenon
  <2> QED BY <2>1
<1>5. a \in Seq(Range(f)) /\ Len(a) = N /\ DOMAIN a = 1..N
  <2>1. a \in [1..N -> Range(f)]
    BY <1>2, <1>4
  <2> HIDE DEF N
  <2> QED BY <1>1, <2>1
<1>6. \A i \in 1..N : a[i] \in Nat /\ i \in Nat
  BY <1>1, <1>4 DEF Range, Measured
<1> HIDE DEF N
<1>7. ASSUME NEW i \in 1..N, NEW j \in 1..N, i < j PROVE a[i] <= a[j]
  BY <1>1, <1>4, <1>6, <1>7, PlacesOrdered
<1>8. ASSUME NEW x \in DOMAIN f PROVE \E i \in 1..N : a[i] = f[x]
  <2> DEFINE v == f[x]
  <2>1. v \in Nat
    BY DEF Measured
  <2>2. /\ Less(f, v) \in SUBSET DOMAIN f /\ NotAbove(f, v) \in SUBSET DOMAIN f /\ Less(f, v) \subseteq NotAbove(f, v)
        /\ x \in NotAbove(f, v) /\ x \notin Less(f, v)
    BY <2>1 DEF Less, NotAbove, Measured
  <2> HIDE DEF v
  <2>3. Cardinality(Less(f, v)) \in Nat /\ Cardinality(Less(f, v)) < Cardinality(NotAbove(f, v))
    BY <2>2, Below DEF Measured
  <2>4. Cardinality(NotAbove(f, v)) \in Nat /\ Cardinality(NotAbove(f, v)) <= N
    BY <2>1, Counts DEF N
  <2>5. PICK i : i = Cardinality(Less(f, v)) + 1
    OBVIOUS
  <2>6. i \in 1..N /\ Cardinality(Less(f, v)) < i /\ i <= Cardinality(NotAbove(f, v))
    BY <1>1, <2>3, <2>4, <2>5
  <2>7. Placed(f, v, i) /\ Placed(f, a[i], i) /\ a[i] \in Nat /\ i \in Nat /\ i <= i
    BY <1>4, <1>6, <2>6 DEF Placed
  <2>8. a[i] <= v /\ v <= a[i]
    BY <2>1, <2>7, PlacesOrdered
  <2>9. a[i] = v
    BY <2>1, <2>7, <2>8
  <2> QED BY <2>6, <2>9 DEF v
<1>9. ASSUME NEW i \in 1..N, NEW j \in 1..N, i < j, a[i] = a[j]
      PROVE  \E x, y \in DOMAIN f : x # y /\ f[x] = a[i] /\ f[y] = a[i]
  <2>1. PICK v : v = a[i]
    OBVIOUS
  <2>2. v \in Nat /\ Placed(f, v, i) /\ Placed(f, v, j) /\ i \in Nat /\ j \in Nat /\ v \in Range(f)
    BY <1>4, <1>6, <1>9, <2>1
  <2>3. PICK x \in DOMAIN f : f[x] = v
    BY <2>2 DEF Range
  <2>4. ASSUME \A y \in DOMAIN f : f[y] = v => y = x PROVE FALSE
    <3>1. NotAbove(f, v) \subseteq Less(f, v) \cup {x}
      BY <2>2, <2>4 DEF NotAbove, Less, Measured
    <3>2. Less(f, v) \in SUBSET DOMAIN f /\ NotAbove(f, v) \in SUBSET DOMAIN f
          /\ Less(f, v) \cup {x} \in SUBSET DOMAIN f /\ x \notin Less(f, v)
      BY <2>2, <2>3 DEF Less, NotAbove
    <3>3. IsFiniteSet(Less(f, v)) /\ Cardinality(Less(f, v)) \in Nat
      BY <3>2, FS_Subset, FS_CardinalityType DEF Measured
    <3>4. Cardinality(Less(f, v) \cup {x}) = Cardinality(Less(f, v)) + 1
      BY <3>2, <3>3, FS_AddElement
    <3>5. Cardinality(NotAbove(f, v)) \in Nat /\ Cardinality(NotAbove(f, v)) <= Cardinality(Less(f, v)) + 1
      BY <3>1, <3>2, <3>4, Below DEF Measured
    <3>6. Cardinality(Less(f, v)) < i /\ j <= Cardinality(NotAbove(f, v))
      BY <2>2 DEF Placed
    <3> QED BY <1>9, <2>2, <3>3, <3>5, <3>6
  <2> QED BY <2>1, <2>3, <2>4
<1>10. Sorting(a, f)
  BY <1>5, <1>7, <1>8, <1>9 DEF Sorting
<1> QED BY <1>3, <1>10

\* A set of names is listed once each, in order.
Listed(a, S) ==
    /\ a \in Seq(S)
    /\ \A s \in S : \E i \in 1..Len(a) : a[i] = s
    /\ \A i, j \in 1..Len(a) : i < j => a[i] < a[j]

LEMMA ListingSorts ==
  ASSUME NEW S, IsFiniteSet(S), S \subseteq Nat
  PROVE  Listed(listing(S), S)
<1>1. PICK f : f = [n \in S |-> n]
  OBVIOUS
<1>2. DOMAIN f = S /\ (\A n \in S : f[n] = n) /\ Range(f) = S /\ Measured(f)
  BY <1>1 DEF Range, Measured
<1>3. PICK a : a = listing(S)
  OBVIOUS
<1>4. Sorting(a, f)
  BY <1>1, <1>2, <1>3, AscendingSorts DEF listing
<1>5. a \in Seq(S) /\ \A i \in 1..Len(a) : a[i] \in S
  BY <1>2, <1>4 DEF Sorting
<1>6. \A s \in S : \E i \in 1..Len(a) : a[i] = s
  BY <1>2, <1>4 DEF Sorting
<1>7. ASSUME NEW i \in 1..Len(a), NEW j \in 1..Len(a), i < j PROVE a[i] < a[j]
  <2>1. a[i] <= a[j]
    BY <1>4, <1>7 DEF Sorting
  <2>2. ASSUME a[i] = a[j] PROVE FALSE
    <3>1. PICK x \in DOMAIN f, y \in DOMAIN f : x # y /\ f[x] = a[i] /\ f[y] = a[i]
      BY <1>4, <1>7, <2>2 DEF Sorting
    <3>2. x \in S /\ y \in S
      BY <1>2
    <3>3. f[x] = x /\ f[y] = y
      BY <1>2, <3>2
    <3> QED BY <3>1, <3>3
  <2>3. a[i] \in Nat /\ a[j] \in Nat
    BY <1>5
  <2> QED BY <2>1, <2>2, <2>3
<1> QED BY <1>3, <1>5, <1>6, <1>7 DEF Listed

-----------------------------------------------------------------------------
(* Lists: the pages of one call, while other clients create and delete.     *)

Detailed(c) == c.op \in {"streams", "consumers"}
Seen(c)     == Range(c.got) \cup c.missing

\* What explains a name that is left out, or one that comes again.
Skips(c, n)   == \E d \in c.deleted : d < n
Repeats(c, n) == \E b \in c.created : b <= n

\* The place of n among the names of P.
Place(P, n) == Cardinality({m \in P : m < n})

ListTypes(c, P) ==
    /\ c.got \in Seq(Names) /\ c.offset \in Nat
    /\ c.created \subseteq Names /\ c.deleted \subseteq Names /\ c.stays \subseteq P
    /\ ~Detailed(c) => c.missing = {}

\* Between two pages: a name that stays was seen or is still to come, and
\* nothing that comes is at or before what was listed.
Paging(c, P) ==
    /\ ListTypes(c, P)
    /\ \A n \in c.stays : n \in Seen(c) \/ Place(P, n) >= c.offset \/ Skips(c, n)
    /\ \A i \in 1..Len(c.got), n \in Names : n <= c.got[i] => Place(P, n) < c.offset \/ Repeats(c, n)
    /\ \A i, j \in 1..Len(c.got) : i < j /\ c.got[j] <= c.got[i] => Repeats(c, c.got[j])

\* With a page that was answered: the same after it, and for the last page
\* that nothing is still to come.
Paged(c, P) ==
    /\ c.page \subseteq Names /\ c.ver \in {0, PageLimit}
    /\ \A n \in c.stays : \/ n \in Seen(c) \cup c.page
                          \/ ~c.last /\ Place(P, n) >= c.offset + PageLimit
                          \/ Skips(c, n)
    /\ \A m \in c.page, n \in Names : n <= m => Place(P, n) < c.offset + PageLimit \/ Repeats(c, n)
    /\ \A i \in 1..Len(c.got), m \in c.page : m <= c.got[i] => Repeats(c, m)

\* What the caller gets; Off are the offline names.
Explained(c, Off) ==
    /\ \A n \in c.stays \ Seen(c) : (Detailed(c) /\ n \in Off) \/ Skips(c, n)
    /\ \A i, j \in DOMAIN c.got : i < j /\ c.got[j] <= c.got[i] =>
          /\ c.op \in {"names", "consumers"} => c.got[i] = c.got[j]
          /\ Repeats(c, c.got[j])
    /\ c.missing \cap Off = {}

ListInv(c, P, Off) ==
    c.op \in Lists =>
        /\ c.at \in {"page", "returned"}
        /\ c.at = "page" => Paging(c, P)
        /\ c.at = "page" /\ c.net = "answered" /\ c.resp = "ok" => Paged(c, P)
        /\ c.at = "returned" /\ c.err = "" => Explained(c, Off)

ListsInv == \A g \in Goroutines : ListInv(call[g], Present, silent.offline)

-----------------------------------------------------------------------------
(* The list of the server moves under the pages.                            *)

LEMMA NamesFacts == IsFiniteSet(Names) /\ Names \subseteq Nat /\ PageLimit \in Nat /\ PageLimit # 0
BY ManagerAssumption

LEMMA PlaceFacts ==
  ASSUME NEW P \in SUBSET Names, NEW n \in Names
  PROVE  /\ Place(P, n) \in Nat /\ Cardinality(P) \in Nat
         /\ n \in P => Place(P, n) < Cardinality(P)
         /\ \A m \in Names : m <= n => Place(P, m) <= Place(P, n)
<1>1. n \in Nat /\ \A m \in Names : m \in Nat
  BY NamesFacts
<1>2. {m \in P : m < n} \in SUBSET P /\ P \in SUBSET P /\ IsFiniteSet(P) /\ {m \in P : m < n} \subseteq P
  BY NamesFacts, FS_Subset
<1>3. Place(P, n) \in Nat /\ Cardinality(P) \in Nat
  BY <1>2, Below DEF Place
<1>4. n \in P => {m \in P : m < n} # P
  BY <1>1
<1>5. n \in P => Place(P, n) < Cardinality(P)
  BY <1>2, <1>4, Below DEF Place
<1>6. ASSUME NEW k \in Names, k <= n PROVE Place(P, k) <= Place(P, n)
  <2>0. k \in Nat /\ \A m \in P : m \in Nat /\ (m < k => m < n)
    BY <1>1, <1>6
  <2>1. /\ {m \in P : m < k} \subseteq {m \in P : m < n}
        /\ {m \in P : m < k} \in SUBSET P /\ {m \in P : m < n} \in SUBSET P
    BY <2>0
  <2> QED BY <1>2, <2>1, Below DEF Place
<1> QED BY <1>3, <1>5, <1>6

\* A list remembers a change of the server's names from P to Q.
Turned(c, d, P, Q) ==
    /\ d.op = c.op /\ d.got = c.got /\ d.offset = c.offset /\ d.missing = c.missing
    /\ d.page = c.page /\ d.ver = c.ver /\ d.last = c.last
    /\ d.stays \subseteq c.stays /\ d.stays \subseteq Q
    /\ c.created \subseteq d.created /\ d.created \subseteq Names
    /\ c.deleted \subseteq d.deleted /\ d.deleted \subseteq Names
    /\ \A n \in Names : Place(Q, n) < Place(P, n) => Skips(d, n)
    /\ \A n \in Names : Place(P, n) < Place(Q, n) => Repeats(d, n)

\* A list that is between two pages stays so.
LEMMA PagingTurns ==
  ASSUME NEW P \in SUBSET Names, NEW Q \in SUBSET Names, NEW c, NEW d, Turned(c, d, P, Q), Paging(c, P)
  PROVE  Paging(d, Q)
<1>1. /\ c.got \in Seq(Names) /\ c.offset \in Nat /\ ListTypes(d, Q)
      /\ Seen(d) = Seen(c) /\ d.offset = c.offset /\ d.got = c.got /\ d.stays \subseteq c.stays /\ d.stays \subseteq Names
  BY DEF Turned, Paging, ListTypes, Seen, Detailed
<1>2. (\A n : Skips(c, n) => Skips(d, n)) /\ (\A n : Repeats(c, n) => Repeats(d, n))
  BY DEF Turned, Skips, Repeats
<1>3. \A n \in Names : Place(P, n) \in Nat /\ Place(Q, n) \in Nat
  BY PlaceFacts
<1>4. \A n \in Names : (Place(P, n) <= Place(Q, n) \/ Skips(d, n)) /\ (Place(Q, n) <= Place(P, n) \/ Repeats(d, n))
  BY <1>3 DEF Turned
<1>5. \A n \in d.stays : n \in Seen(d) \/ Place(Q, n) >= d.offset \/ Skips(d, n)
  <2>1. ASSUME NEW n \in d.stays PROVE n \in Seen(d) \/ Place(Q, n) >= d.offset \/ Skips(d, n)
    <3>1. n \in Names /\ n \in c.stays
      BY <1>1
    <3>2. n \in Seen(c) \/ Place(P, n) >= c.offset \/ Skips(c, n)
      BY <3>1 DEF Paging
    <3> QED BY <1>1, <1>2, <1>3, <1>4, <3>1, <3>2
  <2> QED BY <2>1
<1>6. \A i \in 1..Len(d.got), n \in Names : n <= d.got[i] => Place(Q, n) < d.offset \/ Repeats(d, n)
  <2>1. ASSUME NEW i \in 1..Len(d.got), NEW n \in Names, n <= d.got[i] PROVE Place(Q, n) < d.offset \/ Repeats(d, n)
    <3>1. Place(P, n) < c.offset \/ Repeats(c, n)
      BY <1>1, <2>1 DEF Paging
    <3> QED BY <1>1, <1>2, <1>3, <1>4, <3>1
  <2> QED BY <2>1
<1>7. \A i, j \in 1..Len(d.got) : i < j /\ d.got[j] <= d.got[i] => Repeats(d, d.got[j])
  BY <1>1, <1>2 DEF Paging
<1> QED BY <1>1, <1>5, <1>6, <1>7 DEF Paging

\* So does one that has a page.
LEMMA PagedTurns ==
  ASSUME NEW P \in SUBSET Names, NEW Q \in SUBSET Names, NEW c, NEW d, Turned(c, d, P, Q), Paging(c, P), Paged(c, P)
  PROVE  Paged(d, Q)
<1>1. /\ c.got \in Seq(Names) /\ c.offset \in Nat /\ d.page = c.page /\ c.page \subseteq Names /\ d.last = c.last
      /\ Seen(d) = Seen(c) /\ d.offset = c.offset /\ d.got = c.got /\ d.stays \subseteq c.stays /\ d.stays \subseteq Names
  BY DEF Turned, Paging, Paged, ListTypes, Seen
<1>1a. d.page \subseteq Names /\ d.ver \in {0, PageLimit}
  BY DEF Turned, Paged
<1>2. (\A n : Skips(c, n) => Skips(d, n)) /\ (\A n : Repeats(c, n) => Repeats(d, n))
  BY DEF Turned, Skips, Repeats
<1>3a. \A n \in Names : Place(P, n) \in Nat /\ Place(Q, n) \in Nat
  BY PlaceFacts
<1>3b. c.offset + PageLimit \in Nat
  BY <1>1, NamesFacts
<1>3. (\A n \in Names : Place(P, n) \in Nat /\ Place(Q, n) \in Nat) /\ c.offset + PageLimit \in Nat
  BY <1>3a, <1>3b
<1>4. \A n \in Names : (Place(P, n) <= Place(Q, n) \/ Skips(d, n)) /\ (Place(Q, n) <= Place(P, n) \/ Repeats(d, n))
  BY <1>3 DEF Turned
<1>5. ASSUME NEW n \in d.stays
      PROVE  n \in Seen(d) \cup d.page \/ (~d.last /\ Place(Q, n) >= d.offset + PageLimit) \/ Skips(d, n)
  <2>1. n \in Names /\ n \in c.stays
    BY <1>1
  <2>2. n \in Seen(c) \cup c.page \/ (~c.last /\ Place(P, n) >= c.offset + PageLimit) \/ Skips(c, n)
    BY <2>1 DEF Paged
  <2> QED BY <1>1, <1>2, <1>3, <1>4, <2>1, <2>2
<1>6. ASSUME NEW m \in d.page, NEW n \in Names, n <= m PROVE Place(Q, n) < d.offset + PageLimit \/ Repeats(d, n)
  <2>1. Place(P, n) < c.offset + PageLimit \/ Repeats(c, n)
    BY <1>1, <1>6 DEF Paged
  <2> QED BY <1>1, <1>2, <1>3, <1>4, <2>1
<1>7. \A i \in 1..Len(d.got), m \in d.page : m <= d.got[i] => Repeats(d, m)
  BY <1>1, <1>2 DEF Paged
<1> QED BY <1>1a, <1>5, <1>6, <1>7 DEF Paged

\* One name comes or goes.
LEMMA PlacesMove ==
  ASSUME NEW P \in SUBSET Names, NEW k \in Names, NEW n \in Names
  PROVE  /\ Place(P \ {k}, n) <= Place(P, n) /\ (Place(P \ {k}, n) # Place(P, n) => k < n)
         /\ Place(P, n) <= Place(P \cup {k}, n) /\ (Place(P \cup {k}, n) # Place(P, n) => k < n)
<1>1. k \in Nat /\ n \in Nat /\ IsFiniteSet(Names)
  BY NamesFacts
<1> DEFINE A(S) == {m \in S : m < n}
<1>2. /\ A(P) \in SUBSET Names /\ A(P \ {k}) \in SUBSET Names /\ A(P \cup {k}) \in SUBSET Names
      /\ A(P \ {k}) \subseteq A(P) /\ A(P) \subseteq A(P \cup {k})
  OBVIOUS
<1>3. ~(k < n) => A(P \ {k}) = A(P) /\ A(P \cup {k}) = A(P)
  OBVIOUS
<1>4. /\ Cardinality(A(P \ {k})) <= Cardinality(A(P)) /\ Cardinality(A(P)) <= Cardinality(A(P \cup {k}))
  <2> HIDE DEF A
  <2> QED BY <1>1, <1>2, Below
<1> QED BY <1>3, <1>4 DEF Place


-----------------------------------------------------------------------------
(* A page is answered, collected, and the list finished.                    *)

\* The parts of a list that say where it is.
SameList(c, d) ==
    /\ d.op = c.op /\ d.got = c.got /\ d.offset = c.offset /\ d.missing = c.missing
    /\ d.stays = c.stays /\ d.created = c.created /\ d.deleted = c.deleted

LEMMA SamePaging ==
  ASSUME NEW P, NEW c, NEW d, SameList(c, d), Paging(c, P)
  PROVE  Paging(d, P)
<1>1. ListTypes(d, P) /\ Seen(d) = Seen(c)
  BY DEF SameList, Paging, ListTypes, Detailed, Seen
<1>2. (\A n : Skips(d, n) <=> Skips(c, n)) /\ (\A n : Repeats(d, n) <=> Repeats(c, n))
  BY DEF SameList, Skips, Repeats
<1> QED BY <1>1, <1>2 DEF SameList, Paging

\* The server's answer: the names from offset on, as they are now.
PageOf(d, P) ==
    /\ d.page = {n \in P : Place(P, n) >= d.offset /\ Place(P, n) < d.offset + PageLimit}
    /\ d.ver \in {0, PageLimit}
    /\ d.last = (d.offset + d.ver >= Cardinality(P))

LEMMA PageComes ==
  ASSUME NEW P \in SUBSET Names, NEW c, Paging(c, P), PageOf(c, P)
  PROVE  Paged(c, P)
<1>1. /\ c.got \in Seq(Names) /\ c.offset \in Nat /\ c.stays \subseteq P
      /\ (\A i \in 1..Len(c.got) : c.got[i] \in Names) /\ PageLimit \in Nat
  BY NamesFacts DEF Paging, ListTypes
<1>2. \A n \in Names : Place(P, n) \in Nat /\ (n \in P => Place(P, n) < Cardinality(P)) /\ Cardinality(P) \in Nat
  BY PlaceFacts
<1>3. c.page \subseteq Names /\ c.ver \in {0, PageLimit} /\ c.page \subseteq P
  BY DEF PageOf
<1>4. ASSUME NEW n \in c.stays
      PROVE  n \in Seen(c) \cup c.page \/ (~c.last /\ Place(P, n) >= c.offset + PageLimit) \/ Skips(c, n)
  <2>1. n \in P /\ n \in Names
    BY <1>1
  <2>2. n \in Seen(c) \/ Place(P, n) >= c.offset \/ Skips(c, n)
    BY DEF Paging
  <2>3. CASE Place(P, n) >= c.offset
    <3>1. Place(P, n) < c.offset + PageLimit => n \in c.page
      BY <2>1, <2>3 DEF PageOf
    <3>2. c.last => c.offset + c.ver >= Cardinality(P)
      BY DEF PageOf
    <3>3. c.last => Place(P, n) < c.offset + PageLimit
      BY <1>1, <1>2, <1>3, <2>1, <3>2
    <3>4. Place(P, n) < c.offset + PageLimit \/ Place(P, n) >= c.offset + PageLimit
      BY <1>1, <1>2, <2>1
    <3> QED BY <3>1, <3>3, <3>4
  <2> QED BY <2>2, <2>3
<1>5. ASSUME NEW m \in c.page, NEW n \in Names, n <= m PROVE Place(P, n) < c.offset + PageLimit
  <2>1. m \in Names /\ Place(P, m) < c.offset + PageLimit
    BY <1>3 DEF PageOf
  <2>2. Place(P, n) <= Place(P, m)
    BY <1>5, <2>1, PlaceFacts
  <2> QED BY <1>1, <1>2, <2>1, <2>2
<1>6. ASSUME NEW i \in 1..Len(c.got), NEW m \in c.page, m <= c.got[i] PROVE Repeats(c, m)
  <2>1. m \in Names /\ Place(P, m) >= c.offset
    BY <1>3 DEF PageOf
  <2>2. Place(P, m) < c.offset \/ Repeats(c, m)
    BY <1>6, <2>1 DEF Paging
  <2> QED BY <1>1, <1>2, <2>1, <2>2
<1> QED BY <1>3, <1>4, <1>5, <1>6 DEF Paged

\* A list with its page added.
Gathers(c, d, L, S) ==
    /\ Listed(L, S) /\ S \subseteq c.page
    /\ d.op = c.op /\ d.offset = c.offset /\ d.stays = c.stays /\ d.created = c.created
    /\ d.deleted = c.deleted /\ d.last = c.last /\ d.ver = c.ver
    /\ d.got = c.got \o L /\ d.missing = c.missing \cup (c.page \ S)
    /\ ~Detailed(c) => S = c.page

Gathered(d, P) ==
    /\ d.got \in Seq(Names) /\ d.offset \in Nat
    /\ d.created \subseteq Names /\ d.deleted \subseteq Names /\ d.stays \subseteq P
    /\ ~Detailed(d) => d.missing = {}
    /\ \A n \in d.stays : n \in Seen(d) \/ (~d.last /\ Place(P, n) >= d.offset + PageLimit) \/ Skips(d, n)
    /\ \A i \in 1..Len(d.got), n \in Names :
          n <= d.got[i] => Place(P, n) < d.offset + PageLimit \/ Repeats(d, n)
    /\ \A i, j \in 1..Len(d.got) : i < j /\ d.got[j] <= d.got[i] => Repeats(d, d.got[j])

LEMMA PageGathered ==
  ASSUME NEW P \in SUBSET Names, NEW c, Paging(c, P), Paged(c, P), NEW d, NEW L, NEW S, Gathers(c, d, L, S)
  PROVE  Gathered(d, P)
<1>1. /\ c.got \in Seq(Names) /\ c.offset \in Nat /\ c.page \subseteq Names /\ S \subseteq Names /\ PageLimit \in Nat
      /\ PageLimit # 0 /\ L \in Seq(S)
  BY NamesFacts DEF Paging, Paged, ListTypes, Gathers, Listed
<1>2. L \in Seq(Names)
  BY <1>1, Widen
<1>3. PICK g : g = c.got
  OBVIOUS
<1>4. PICK h : h = d.got
  OBVIOUS
<1>5. g \in Seq(Names) /\ h = g \o L
  BY <1>1, <1>3, <1>4 DEF Gathers
<1>6. /\ h \in Seq(Names) /\ Len(h) = Len(g) + Len(L) /\ Len(g) \in Nat /\ Len(L) \in Nat
      /\ \A i \in 1..Len(g) : h[i] = g[i]
      /\ \A i \in 1..Len(L) : h[Len(g) + i] = L[i]
  BY <1>2, <1>5
<1>7. ASSUME NEW i \in 1..Len(h) PROVE i \in 1..Len(g) \/ (i - Len(g) \in 1..Len(L) /\ h[i] = L[i - Len(g)])
  <2>1. CASE i <= Len(g)
    BY <1>6, <2>1
  <2>2. CASE i > Len(g)
    <3>1. PICK k : k = i - Len(g)
      OBVIOUS
    <3>2. k \in 1..Len(L) /\ i = Len(g) + k
      BY <1>6, <2>2, <3>1
    <3> QED BY <1>6, <3>1, <3>2
  <2> QED BY <1>6, <2>1, <2>2
<1>8. \A i \in 1..Len(L) : L[i] \in S /\ L[i] \in c.page
  BY <1>1 DEF Gathers
<1>9. (\A n : Skips(d, n) <=> Skips(c, n)) /\ (\A n : Repeats(d, n) <=> Repeats(c, n))
  BY DEF Gathers, Skips, Repeats
<1>10. \A n : n \in Seen(c) \cup c.page => n \in Seen(d)
  <2>1. DOMAIN g = 1..Len(g) /\ DOMAIN h = 1..Len(h)
    BY <1>5, <1>6
  <2>2. \A i \in 1..Len(g) : i \in 1..Len(h)
    BY <1>6
  <2>3. \A i \in 1..Len(L) : Len(g) + i \in 1..Len(h)
    BY <1>6
  <2>4. ASSUME NEW n \in Range(g) PROVE n \in Range(h)
    BY <1>6, <2>1, <2>2 DEF Range
  <2>5. ASSUME NEW n \in S PROVE n \in Range(h)
    <3>1. PICK i \in 1..Len(L) : L[i] = n
      BY DEF Gathers, Listed
    <3>2. h[Len(g) + i] = n /\ Len(g) + i \in DOMAIN h
      BY <1>6, <2>1, <2>3, <3>1
    <3> QED BY <3>2 DEF Range
  <2>6. d.missing = c.missing \cup (c.page \ S)
    BY DEF Gathers
  <2> QED BY <1>3, <1>4, <2>4, <2>5, <2>6 DEF Seen
<1>11. ASSUME NEW n \in d.stays
       PROVE  n \in Seen(d) \/ (~d.last /\ Place(P, n) >= d.offset + PageLimit) \/ Skips(d, n)
  <2>1. n \in c.stays /\ d.last = c.last /\ d.offset = c.offset
    BY DEF Gathers
  <2>2. n \in Seen(c) \cup c.page \/ (~c.last /\ Place(P, n) >= c.offset + PageLimit) \/ Skips(c, n)
    BY <2>1 DEF Paged
  <2> QED BY <1>9, <1>10, <2>1, <2>2
<1>12. ASSUME NEW i \in 1..Len(h), NEW n \in Names, n <= h[i]
       PROVE  Place(P, n) < d.offset + PageLimit \/ Repeats(d, n)
  <2>1. d.offset = c.offset /\ Place(P, n) \in Nat
    BY PlaceFacts DEF Gathers
  <2>2. CASE i \in 1..Len(g)
    <3>1. n <= g[i]
      BY <1>6, <1>12, <2>2
    <3>2. Place(P, n) < c.offset \/ Repeats(c, n)
      BY <1>3, <2>2, <3>1 DEF Paging
    <3> QED BY <1>1, <1>9, <2>1, <3>2
  <2>3. CASE i - Len(g) \in 1..Len(L) /\ h[i] = L[i - Len(g)]
    <3>1. h[i] \in c.page
      BY <1>8, <2>3
    <3>2. Place(P, n) < c.offset + PageLimit \/ Repeats(c, n)
      BY <1>12, <3>1 DEF Paged
    <3> QED BY <1>9, <2>1, <3>2
  <2> QED BY <1>7, <2>2, <2>3
<1>13. ASSUME NEW i \in 1..Len(h), NEW j \in 1..Len(h), i < j, h[j] <= h[i] PROVE Repeats(d, h[j])
  <2>1. CASE j \in 1..Len(g)
    <3>1. i \in 1..Len(g) /\ h[i] = g[i] /\ h[j] = g[j]
      BY <1>6, <1>13, <2>1
    <3> QED BY <1>3, <1>9, <1>13, <2>1, <3>1 DEF Paging
  <2>2. CASE i \in 1..Len(g) /\ j - Len(g) \in 1..Len(L) /\ h[j] = L[j - Len(g)]
    <3>1. h[i] = g[i] /\ h[j] \in c.page
      BY <1>6, <1>8, <2>2
    <3> QED BY <1>3, <1>9, <1>13, <2>2, <3>1 DEF Paged
  <2>3. CASE /\ i - Len(g) \in 1..Len(L) /\ h[i] = L[i - Len(g)]
             /\ j - Len(g) \in 1..Len(L) /\ h[j] = L[j - Len(g)]
    <3>1. PICK k \in 1..Len(L), m \in 1..Len(L) : h[i] = L[k] /\ h[j] = L[m] /\ k < m
      <4>1. i - Len(g) < j - Len(g)
        BY <1>6, <1>13
      <4> QED BY <2>3, <4>1
    <3>2. L[k] < L[m]
      BY <3>1 DEF Gathers, Listed
    <3>3. L[k] \in Nat /\ L[m] \in Nat
      BY <1>1, <1>8, NamesFacts
    <3> QED BY <1>13, <3>1, <3>2, <3>3
  <2> QED BY <1>7, <2>1, <2>2, <2>3
<1>14. /\ d.offset \in Nat /\ d.created \subseteq Names /\ d.deleted \subseteq Names /\ d.stays \subseteq P
       /\ ~Detailed(d) => d.missing = {}
  BY <1>1 DEF Gathers, Paging, ListTypes, Detailed
<1> QED BY <1>4, <1>6, <1>11, <1>12, <1>13, <1>14 DEF Gathered

\* The next page is asked for.
LEMMA NextPage ==
  ASSUME NEW P \in SUBSET Names, NEW c, Gathered(c, P), ~c.last, NEW d,
         d.op = c.op, d.got = c.got, d.missing = c.missing, d.stays = c.stays, d.created = c.created,
         d.deleted = c.deleted, d.offset = c.offset + PageLimit
  PROVE  Paging(d, P)
<1>1. ListTypes(d, P) /\ Seen(d) = Seen(c)
  BY NamesFacts DEF Gathered, ListTypes, Detailed, Seen
<1>2. (\A n : Skips(d, n) <=> Skips(c, n)) /\ (\A n : Repeats(d, n) <=> Repeats(c, n))
  BY DEF Skips, Repeats
<1> QED BY <1>1, <1>2 DEF Gathered, Paging

\* What the end of a list does with what was gathered.
Finishes(c, d, Off) ==
    /\ d.op = c.op /\ d.stays = c.stays /\ d.created = c.created /\ d.deleted = c.deleted
    /\ d.missing = c.missing \ Off
    /\ c.op \in {"names", "consumers"} => d.got = ascending(c.got)
    /\ c.op = "subjects" => d.got = listing(Range(c.got))
    /\ c.op = "streams" => d.got = c.got

LEMMA ListFinished ==
  ASSUME NEW P \in SUBSET Names, NEW c, Gathered(c, P), c.last, c.op \in Lists, NEW d, NEW Off, Finishes(c, d, Off)
  PROVE  Explained(d, Off)
<1>1. PICK g : g = c.got
  OBVIOUS
<1>2. PICK h : h = d.got
  OBVIOUS
<1>3. /\ g \in Seq(Names) /\ DOMAIN g = 1..Len(g) /\ Len(g) \in Nat
      /\ (\A i \in DOMAIN g : g[i] \in Names /\ g[i] \in Nat) /\ Range(g) \subseteq Names
  <2>1. g \in Seq(Names)
    BY <1>1 DEF Gathered
  <2>2. DOMAIN g = 1..Len(g) /\ Len(g) \in Nat /\ \A i \in DOMAIN g : g[i] \in Names
    BY <2>1
  <2>3. Range(g) \subseteq Names /\ \A i \in DOMAIN g : g[i] \in Nat
    BY <2>2, NamesFacts DEF Range
  <2> QED BY <2>1, <2>2, <2>3
<1>4. (\A n : Skips(d, n) <=> Skips(c, n)) /\ (\A n : Repeats(d, n) <=> Repeats(c, n))
  BY DEF Finishes, Skips, Repeats
<1>5. \A i, j \in DOMAIN g : i < j /\ g[j] <= g[i] => Repeats(d, g[j])
  BY <1>1, <1>3, <1>4 DEF Gathered
<1>6. /\ Range(h) = Range(g)
      /\ \A i, j \in DOMAIN h : i < j /\ h[j] <= h[i] =>
            (c.op \in {"names", "consumers"} => h[i] = h[j]) /\ Repeats(d, h[j])
  <2>1. CASE c.op \in {"names", "consumers"}
    <3>1. h = ascending(g)
      BY <1>1, <1>2, <2>1 DEF Finishes
    <3>2. Measured(g)
      BY <1>3, FS_Interval DEF Measured
    <3>3. Sorting(h, g)
      BY <3>1, <3>2, AscendingSorts
    <3>4. h \in Seq(Range(g)) /\ DOMAIN h = 1..Len(h) /\ \A i \in DOMAIN h : h[i] \in Range(g) /\ h[i] \in Nat
      <4>1. h \in Seq(Range(g))
        BY <3>3 DEF Sorting
      <4>2. DOMAIN h = 1..Len(h) /\ \A i \in DOMAIN h : h[i] \in Range(g)
        BY <4>1
      <4> QED BY <1>3, <4>1, <4>2, NamesFacts
    <3>5. Range(h) = Range(g)
      <4>1. Range(h) \subseteq Range(g)
        BY <3>4 DEF Range
      <4>2. ASSUME NEW x \in DOMAIN g PROVE g[x] \in Range(h)
        BY <3>3, <3>4 DEF Sorting, Range
      <4> QED BY <4>1, <4>2 DEF Range
    <3>6. ASSUME NEW i \in DOMAIN h, NEW j \in DOMAIN h, i < j, h[j] <= h[i] PROVE h[i] = h[j] /\ Repeats(d, h[j])
      <4>1. h[i] <= h[j]
        BY <3>3, <3>4, <3>6 DEF Sorting
      <4>2. h[i] = h[j]
        BY <3>4, <3>6, <4>1
      <4>3. PICK x \in DOMAIN g, y \in DOMAIN g : x # y /\ g[x] = h[i] /\ g[y] = h[i]
        BY <3>3, <3>4, <3>6, <4>2 DEF Sorting
      <4>4. x \in Nat /\ y \in Nat /\ g[x] \in Nat
        BY <1>3
      <4>5. x < y \/ y < x
        BY <4>3, <4>4
      <4> QED BY <1>5, <4>2, <4>3, <4>4, <4>5
    <3> QED BY <3>5, <3>6
  <2>2. CASE c.op = "subjects"
    <3>1. h = listing(Range(g))
      BY <1>1, <1>2, <2>2 DEF Finishes
    <3>2. IsFiniteSet(Range(g)) /\ Range(g) \subseteq Nat
      BY <1>3, NamesFacts, FS_Subset
    <3>3. Listed(h, Range(g))
      BY <3>1, <3>2, ListingSorts
    <3>4. h \in Seq(Range(g)) /\ DOMAIN h = 1..Len(h) /\ \A i \in DOMAIN h : h[i] \in Range(g) /\ h[i] \in Nat
      BY <3>2, <3>3 DEF Listed
    <3>5. Range(h) = Range(g)
      <4>1. Range(h) \subseteq Range(g)
        BY <3>4 DEF Range
      <4>2. ASSUME NEW s \in Range(g) PROVE s \in Range(h)
        BY <3>3, <3>4 DEF Listed, Range
      <4> QED BY <4>1, <4>2
    <3>6. ASSUME NEW i \in DOMAIN h, NEW j \in DOMAIN h, i < j, h[j] <= h[i] PROVE FALSE
      <4>1. h[i] < h[j]
        BY <3>3, <3>4, <3>6 DEF Listed
      <4> QED BY <3>4, <3>6, <4>1
    <3> QED BY <3>5, <3>6
  <2>3. CASE c.op = "streams"
    <3>1. h = g
      BY <1>1, <1>2, <2>3 DEF Finishes
    <3> QED BY <1>5, <2>3, <3>1
  <2> QED BY <2>1, <2>2, <2>3 DEF Lists
<1>7. ASSUME NEW n \in d.stays, n \notin Seen(d) PROVE (Detailed(d) /\ n \in Off) \/ Skips(d, n)
  <2>1. n \in c.stays /\ d.missing = c.missing \ Off /\ (Detailed(d) <=> Detailed(c))
    BY DEF Finishes, Detailed
  <2>2. n \in Seen(c) \/ Skips(c, n)
    BY <2>1 DEF Gathered
  <2>3. n \in Seen(c) => n \in c.missing /\ n \in Off
    BY <1>1, <1>2, <1>6, <1>7, <2>1 DEF Seen
  <2>4. n \in c.missing => Detailed(c)
    BY DEF Gathered
  <2> QED BY <1>4, <2>1, <2>2, <2>3, <2>4
<1>8. d.missing \cap Off = {} /\ d.op = c.op
  BY DEF Finishes
<1> QED BY <1>2, <1>6, <1>7, <1>8 DEF Explained


-----------------------------------------------------------------------------
(* The steps.                                                               *)

\* What a step leaves of a list: nothing, or what the invariant says of it.
LEMMA OneList ==
  ASSUME ListsInv, DOMAIN call = Goroutines, UNCHANGED <<assets, silent>>, NEW g \in Goroutines, NEW d,
         call' = [call EXCEPT ![g] = d], ListInv(d, Present, silent.offline)
  PROVE  ListsInv'
<1>1. Present' = Present /\ silent' = silent
  BY DEF Present
<1>2. ASSUME NEW h \in Goroutines PROVE ListInv(call'[h], Present', silent'.offline)
  <2>1. CASE h = g
    BY <1>1, <2>1
  <2>2. CASE h # g
    BY <1>1, <2>2 DEF ListsInv
  <2> QED BY <2>1, <2>2
<1> QED BY <1>2 DEF ListsInv

LEMMA PresentNames == Present \in SUBSET Names
BY DEF Present

\* A step of a call that is no list, or ends with an error.
LEMMA NoList ==
  ASSUME NEW d, NEW P, NEW Off, d.op \notin Lists \/ (d.at = "returned" /\ d.err # "")
  PROVE  ListInv(d, P, Off)
BY DEF ListInv

\* A list begins with nothing seen and all that is there to come.
LEMMA ListBegins ==
  ASSUME ManagerInv, ListsInv, NEW g \in Goroutines, Started(g)
  PROVE  ListsInv'
<1>1. DOMAIN call = Goroutines /\ UNCHANGED <<assets, silent>>
  BY DEF ManagerInv, Started, Send, Cached
<1>2. ASSUME NEW op, NEW request, NEW valid \in BOOLEAN, Begins(op, request), Send(g, op, request, valid)
      PROVE  ListsInv'
  <2> DEFINE d == [NoCall EXCEPT !.op = op, !.began = stores, !.stays = IF request = "page" THEN Present ELSE {},
                                 !.at = IF valid THEN request ELSE "returned",
                                 !.net = IF valid THEN "sent" ELSE "none",
                                 !.err = IF valid THEN "" ELSE "refused"]
  <2>1. call' = [call EXCEPT ![g] = d]
    BY <1>2 DEF Send
  <2>2. /\ d.op = op /\ d.at = (IF valid THEN request ELSE "returned") /\ d.net # "answered"
        /\ d.err = (IF valid THEN "" ELSE "refused")
        /\ d.got = << >> /\ d.offset = 0 /\ d.created = {} /\ d.deleted = {} /\ d.missing = {}
        /\ d.stays = IF request = "page" THEN Present ELSE {}
    BY DEF NoCall
  <2> HIDE DEF d
  <2>3. op \in Lists => request = "page"
    BY <1>2 DEF Begins
  <2>4. ASSUME op \in Lists, valid PROVE Paging(d, Present)
    <3>0. d.stays = Present /\ d.got = << >> /\ d.offset = 0
      BY <2>2, <2>3, <2>4, Zenon
    <3>e. << >> \in Seq(Names) /\ Len(<< >>) = 0
      OBVIOUS
    <3>1. ListTypes(d, Present)
      <4>1. d.got \in Seq(Names)
        BY <3>0, <3>e, Zenon
      <4>2. d.offset \in Nat
        BY <3>0
      <4> QED BY <2>2, <3>0, <4>1, <4>2, Zenon DEF ListTypes
    <3>2. \A n \in Present : Place(Present, n) \in Nat
      BY PresentNames, PlaceFacts
    <3>3. \A n \in d.stays : Place(Present, n) >= d.offset
      <4>1. \A n \in Present : Place(Present, n) >= 0
        BY <3>2
      <4> QED BY <3>0, <4>1, Zenon
    <3>4. 1..Len(d.got) = {}
      <4>1. Len(d.got) = 0
        BY <3>0, <3>e, Zenon
      <4> QED BY <4>1
    <3> QED BY <3>1, <3>3, <3>4 DEF Paging
  <2>5. ListInv(d, Present, silent.offline)
    BY <2>2, <2>3, <2>4 DEF ListInv
  <2> QED BY <1>1, <2>1, <2>5, OneList
<1>3. ASSUME NEW op \in {"latest", "level"}, NEW ver, Cached(g, op, ver)
      PROVE  ListsInv'
  <2> DEFINE d == [NoCall EXCEPT !.op = op, !.at = "returned", !.ver = ver]
  <2>1. call' = [call EXCEPT ![g] = d]
    BY <1>3 DEF Cached
  <2>2. d.op \notin Lists
    BY DEF NoCall, Lists
  <2> HIDE DEF d
  <2>3. ListInv(d, Present, silent.offline)
    BY <2>2, NoList
  <2> QED BY <1>1, <2>1, <2>3, OneList
<1> QED BY <1>2, <1>3 DEF Started

\* A timeout.
LEMMA ListTimesOut ==
  ASSUME ManagerInv, ListsInv, NEW g \in Goroutines, requestWithTimeout(g)
  PROVE  ListsInv'
<1>1. DOMAIN call = Goroutines /\ UNCHANGED <<assets, silent>> /\ DOMAIN call[g] = Fields
  BY DEF ManagerInv, CallInv, requestWithTimeout
<1>2. PICK d : d = Fail(call[g], "timeout")
  OBVIOUS
<1>3. call' = [call EXCEPT ![g] = d]
  BY <1>2 DEF requestWithTimeout
<1>4. d.at = "returned" /\ d.err = "timeout"
  BY <1>1, <1>2, Failed
<1>5. ListInv(d, Present, silent.offline)
  BY <1>4, NoList
<1> QED BY <1>1, <1>3, <1>5, OneList

\* A lost answer.
LEMMA ListLoses ==
  ASSUME ManagerInv, ListsInv, NEW g \in Goroutines, Lose(g)
  PROVE  ListsInv'
<1>1. DOMAIN call = Goroutines /\ UNCHANGED <<assets, silent>> /\ DOMAIN call[g] = Fields /\ g \in Calling
  BY DEF ManagerInv, CallInv, Lose
<1>2. PICK c : c = call[g]
  OBVIOUS
<1>3. PICK d : d = [c EXCEPT !.net = "lost"]
  OBVIOUS
<1>4. call' = [call EXCEPT ![g] = d]
  BY <1>2, <1>3 DEF Lose
<1>5. SameList(c, d) /\ d.at = c.at /\ d.net = "lost" /\ c.at # "returned" /\ d.op = c.op
  BY <1>1, <1>2, <1>3 DEF SameList, Fields, NoCall, Calling
<1>6. ListInv(c, Present, silent.offline)
  BY <1>2 DEF ListsInv
<1>7. ListInv(d, Present, silent.offline)
  BY <1>5, <1>6, SamePaging DEF ListInv
<1> QED BY <1>1, <1>4, <1>7, OneList

\* A call that asks for no list goes on.
LEMMA OtherReceives ==
  ASSUME ManagerInv, ListsInv, NEW g \in Goroutines, Receive(g)
  PROVE  ListsInv'
<1>1. DOMAIN call = Goroutines /\ UNCHANGED <<assets, silent>> /\ DOMAIN call[g] = Fields /\ call[g].op \notin Lists
  BY DEF ManagerInv, CallInv, Receive
<1>2. PICK c : c = call[g]
  OBVIOUS
<1>3. PICK d : call' = [call EXCEPT ![g] = d] /\ (d = Request(c, follows(c)) \/ d = Return(c, outcome(c)))
  BY <1>2 DEF Receive
<1>4. d.op = c.op
  <2>1. \A x : Request(c, x).op = c.op /\ Return(c, x).op = c.op
    BY <1>1, <1>2 DEF Request, Return, Fields, NoCall
  <2> QED BY <1>3, <2>1
<1>5. ListInv(d, Present, silent.offline)
  BY <1>1, <1>2, <1>4, NoList
<1> QED BY <1>1, <1>3, <1>5, OneList

\* The server's names after a change, and what a list remembers of it.
LEMMA WitnessTurns ==
  ASSUME Server, NEW k \in Names, NEW v \in {0, clock + 1}, Change(k, v), NEW c, DOMAIN c = Fields,
         c.at = "page", Paging(c, Present)
  PROVE  Turned(c, witnessed(c, k, v), Present, Present')
<1>1. clock \in Nat /\ assets \in [Names -> Nat] /\ (v = 0 \/ v # 0)
  BY DEF Server
<1>2. assets' = [assets EXCEPT ![k] = v] /\ \A n \in Names : assets'[n] = IF n = k THEN v ELSE assets[n]
  BY <1>1 DEF Change
<1>3. PICK P : P = Present
  OBVIOUS
<1>4. PICK Q : Q = Present'
  OBVIOUS
<1>5. /\ P \in SUBSET Names /\ (k \in P <=> assets[k] # 0)
      /\ Q = IF v = 0 THEN P \ {k} ELSE P \cup {k}
  BY <1>1, <1>2, <1>3, <1>4 DEF Present
<1>6. PICK d : d = witnessed(c, k, v)
  OBVIOUS
<1>7. /\ d.op = c.op /\ d.got = c.got /\ d.offset = c.offset /\ d.missing = c.missing
      /\ d.page = c.page /\ d.ver = c.ver /\ d.last = c.last
      /\ d.created = (IF assets[k] = 0 /\ v # 0 THEN c.created \cup {k} ELSE c.created)
      /\ d.deleted = (IF v = 0 THEN c.deleted \cup {k} ELSE c.deleted)
      /\ d.stays = (IF v = 0 THEN c.stays \ {k} ELSE c.stays)
  BY <1>6 DEF witnessed, Fields, NoCall
<1>8. c.created \subseteq Names /\ c.deleted \subseteq Names /\ c.stays \subseteq P
  BY <1>3 DEF Paging, ListTypes
<1>9. /\ d.stays \subseteq c.stays /\ d.stays \subseteq Q
      /\ c.created \subseteq d.created /\ d.created \subseteq Names
      /\ c.deleted \subseteq d.deleted /\ d.deleted \subseteq Names
  BY <1>5, <1>7, <1>8
<1>10. ASSUME NEW n \in Names
       PROVE  (Place(Q, n) < Place(P, n) => Skips(d, n)) /\ (Place(P, n) < Place(Q, n) => Repeats(d, n))
  <2>1. /\ Place(P \ {k}, n) <= Place(P, n) /\ (Place(P \ {k}, n) # Place(P, n) => k < n)
        /\ Place(P, n) <= Place(P \cup {k}, n) /\ (Place(P \cup {k}, n) # Place(P, n) => k < n)
    BY <1>5, PlacesMove
  <2>2. Place(P, n) \in Nat /\ Place(Q, n) \in Nat /\ k \in Nat /\ n \in Nat
    <3>1. Q \in SUBSET Names
      BY <1>5
    <3> QED BY <1>5, <3>1, PlaceFacts, NamesFacts
  <2>3. CASE v = 0
    <3>1. Q = P \ {k} /\ k \in d.deleted
      BY <1>5, <1>7, <2>3
    <3>2. ~(Place(P, n) < Place(Q, n)) /\ (Place(Q, n) < Place(P, n) => k < n)
      BY <2>1, <2>2, <3>1
    <3> QED BY <3>1, <3>2 DEF Skips
  <2>4. CASE v # 0 /\ k \in P
    <3>1. Q = P
      BY <1>5, <2>4
    <3> QED BY <2>2, <3>1
  <2>5. CASE v # 0 /\ k \notin P
    <3>1. Q = P \cup {k} /\ k \in d.created
      BY <1>5, <1>7, <2>5
    <3>2. ~(Place(Q, n) < Place(P, n)) /\ (Place(P, n) < Place(Q, n) => k <= n)
      BY <2>1, <2>2, <3>1
    <3> QED BY <3>1, <3>2 DEF Repeats
  <2> QED BY <2>3, <2>4, <2>5
<1>11. Turned(c, d, P, Q)
  BY <1>7, <1>9, <1>10 DEF Turned
<1> QED BY <1>3, <1>4, <1>6, <1>11

\* A list under way stays explained by what it remembers.
LEMMA ListWitnesses ==
  ASSUME Server, NEW k \in Names, NEW v \in {0, clock + 1}, Change(k, v), NEW c, DOMAIN c = Fields, NEW Off,
         ListInv(c, Present, Off)
  PROVE  ListInv(witnessed(c, k, v), Present', Off)
<1>1. PICK d : d = witnessed(c, k, v)
  OBVIOUS
<1>2. PICK P : P = Present
  OBVIOUS
<1>3. PICK Q : Q = Present'
  OBVIOUS
<1>4. P \in SUBSET Names /\ Q \in SUBSET Names
  BY <1>2, <1>3 DEF Present
<1>5. d.op = c.op /\ d.at = c.at /\ d.net = c.net /\ d.resp = c.resp /\ d.err = c.err
  BY <1>1, Witnessed DEF SameCall
<1>6. CASE c.op \notin Lists
  BY <1>1, <1>5, <1>6, NoList
<1>7. CASE c.op \in Lists /\ c.at = "page"
  <2>1. Paging(c, P)
    BY <1>2, <1>7 DEF ListInv
  <2>2. Turned(c, d, P, Q)
    BY <1>1, <1>2, <1>3, <1>7, <2>1, WitnessTurns
  <2>3. Paging(d, Q)
    BY <1>4, <2>1, <2>2, PagingTurns
  <2>4. c.net = "answered" /\ c.resp = "ok" => Paged(d, Q)
    BY <1>2, <1>4, <1>7, <2>1, <2>2, PagedTurns DEF ListInv
  <2>5. ListInv(d, Q, Off)
    BY <1>5, <1>7, <2>3, <2>4 DEF ListInv
  <2> QED BY <1>1, <1>3, <2>5
<1>8. CASE c.op \in Lists /\ c.at # "page"
  <2>1. d = c
    BY <1>1, <1>8 DEF witnessed
  <2>2. ListInv(c, Q, Off)
    BY <1>8 DEF ListInv
  <2> QED BY <1>1, <1>3, <2>1, <2>2
<1> QED BY <1>6, <1>7, <1>8

LEMMA OtherClientLists ==
  ASSUME ManagerInv, ListsInv, OtherClient
  PROVE  ListsInv'
<1>1. PICK k \in Names, v \in {0, clock + 1} :
         Change(k, v) /\ call' = [g \in Goroutines |-> witnessed(call[g], k, v)]
  BY DEF OtherClient
<1>2. silent' = silent /\ Server
  BY DEF OtherClient, ManagerInv
<1>3. ASSUME NEW g \in Goroutines PROVE ListInv(call'[g], Present', silent'.offline)
  <2>1. PICK Off : Off = silent.offline
    OBVIOUS
  <2>2. call'[g] = witnessed(call[g], k, v) /\ DOMAIN call[g] = Fields /\ ListInv(call[g], Present, Off)
    BY <1>1, <2>1 DEF ManagerInv, CallInv, ListsInv
  <2>3. ListInv(witnessed(call[g], k, v), Present', Off)
    BY <1>1, <1>2, <2>2, ListWitnesses
  <2> QED BY <1>2, <2>1, <2>2, <2>3
<1> QED BY <1>3 DEF ListsInv

LEMMA ExecuteLists ==
  ASSUME ManagerInv, ListsInv, NEW g \in Goroutines, g \in Calling, Execute(g), silent' = silent
  PROVE  ListsInv'
<1>1. PICK v \in {0, clock + 1} :
        /\ call[g].at \in {"update", "delete", "create"} /\ Change(1, v)
        /\ call' = [h \in Goroutines |-> IF h = g THEN answered(call[g], "ok", v, TRUE)
                                         ELSE witnessed(call[h], 1, v)]
  <2>1. PICK w : w = IF call[g].at = "delete" THEN 0 ELSE clock + 1
    OBVIOUS
  <2>2. /\ call[g].at \in {"update", "delete", "create"} /\ Change(1, w)
        /\ call' = [h \in Goroutines |-> IF h = g THEN answered(call[g], "ok", w, TRUE)
                                         ELSE witnessed(call[h], 1, w)]
    BY <2>1 DEF Execute
  <2>3. w \in {0, clock + 1}
    BY <2>1
  <2> QED BY <2>2, <2>3
<1>2. Server /\ 1 \in Names
  BY ManagerAssumption DEF ManagerInv
<1>3. ASSUME NEW h \in Goroutines PROVE ListInv(call'[h], Present', silent'.offline)
  <2>1. PICK Off : Off = silent.offline
    OBVIOUS
  <2>2. DOMAIN call[h] = Fields /\ ListInv(call[h], Present, Off)
    BY <2>1 DEF ManagerInv, CallInv, ListsInv
  <2>3. CASE h # g
    <3>1. call'[h] = witnessed(call[h], 1, v)
      BY <1>1, <2>3
    <3>2. ListInv(witnessed(call[h], 1, v), Present', Off)
      BY <1>1, <1>2, <2>2, ListWitnesses
    <3> QED BY <2>1, <3>1, <3>2
  <2>4. CASE h = g
    <3>1. PICK d : d = answered(call[g], "ok", v, TRUE)
      OBVIOUS
    <3>2. call'[g] = d /\ d.op = call[g].op
      BY <1>1, <2>2, <2>4, <3>1 DEF answered, Fields, NoCall
    <3>3. call[g].op \notin Lists
      BY <1>1, <2>2, <2>4 DEF ListInv
    <3>4. ListInv(d, Present', Off)
      BY <3>2, <3>3, NoList
    <3> QED BY <2>1, <2>4, <3>2, <3>4
  <2> QED BY <2>3, <2>4
<1> QED BY <1>3 DEF ListsInv


\* The server reads what no list asks for.
LEMMA ReadLists ==
  ASSUME ManagerInv, ListsInv, NEW g \in Goroutines, Read(g), silent' = silent
  PROVE  ListsInv'
<1>1. DOMAIN call = Goroutines /\ UNCHANGED <<assets, silent>> /\ DOMAIN call[g] = Fields
      /\ call[g].at \in {"info", "command", "update", "delete", "account"}
  BY DEF ManagerInv, CallInv, Read
<1>2. call[g].op \notin Lists
  BY <1>1 DEF ListsInv, ListInv
<1>3. PICK d : call' = [call EXCEPT ![g] = d] /\ \E kind, ver, done : d = answered(call[g], kind, ver, done)
  <2>1. PICK command : command = (call[g].at = "command")
    OBVIOUS
  <2>2. \/ call' = [call EXCEPT ![g] = answered(call[g], "notfound", 0, FALSE)]
        \/ call' = [call EXCEPT ![g] = answered(call[g], "ok", assets[1], command)]
        \/ call' = [call EXCEPT ![g] = answered(call[g], "ok", clock, FALSE)]
    BY <2>1 DEF Read
  <2> QED BY <2>2, Zenon
<1>4. d.op = call[g].op
  <2>1. PICK kind, ver, done : d = answered(call[g], kind, ver, done)
    BY <1>3
  <2> QED BY <1>1, <2>1 DEF answered, Fields, NoCall
<1>5. ListInv(d, Present, silent.offline)
  BY <1>2, <1>4, NoList
<1> QED BY <1>1, <1>3, <1>5, OneList

\* What an answer leaves of a list.
AnsweredIs(c, d, kind, ver) ==
    /\ DOMAIN d = Fields /\ SameList(c, d)
    /\ d.at = c.at /\ d.net = "answered" /\ d.resp = kind /\ d.ver = ver

LEMMA AnsweredList ==
  ASSUME NEW c, DOMAIN c = Fields, NEW kind, NEW ver, NEW done, NEW d, d = answered(c, kind, ver, done)
  PROVE  AnsweredIs(c, d, kind, ver)
BY DEF AnsweredIs, answered, SameList, Fields, NoCall

\* The server declines.
LEMMA DeclineLists ==
  ASSUME ManagerInv, ListsInv, NEW g \in Goroutines, g \in Calling, Decline(g), silent' = silent
  PROVE  ListsInv'
<1>1. DOMAIN call = Goroutines /\ UNCHANGED <<assets, silent>> /\ DOMAIN call[g] = Fields /\ call[g].at # "returned"
  BY DEF ManagerInv, CallInv, Decline, Calling
<1>2. PICK c : c = call[g]
  OBVIOUS
<1>3. PICK kind \in {"error", "nosuccess", "garbage"} : call' = [call EXCEPT ![g] = answered(c, kind, 0, FALSE)]
  BY <1>2 DEF Decline
<1>4. PICK d : d = answered(c, kind, 0, FALSE)
  OBVIOUS
<1>4a. DOMAIN c = Fields
  BY <1>1, <1>2
<1>4b. AnsweredIs(c, d, kind, 0)
  BY <1>4, <1>4a, AnsweredList
<1>5. SameList(c, d) /\ d.at = c.at /\ d.resp = kind
  BY <1>4b DEF AnsweredIs
<1>6. d.op = c.op /\ d.resp # "ok"
  BY <1>5 DEF SameList
<1>7. ListInv(c, Present, silent.offline)
  BY <1>2 DEF ListsInv
<1>8. ListInv(d, Present, silent.offline)
  BY <1>1, <1>2, <1>5, <1>6, <1>7, SamePaging DEF ListInv
<1> QED BY <1>1, <1>3, <1>4, <1>8, OneList

\* The server gives a page.
LEMMA PageLists ==
  ASSUME ManagerInv, ListsInv, NEW g \in Goroutines, AnswerPage(g), silent' = silent
  PROVE  ListsInv'
<1>1. DOMAIN call = Goroutines /\ UNCHANGED <<assets, silent>> /\ DOMAIN call[g] = Fields /\ call[g].at = "page"
  BY DEF ManagerInv, CallInv, AnswerPage
<1>2. PICK c : c = call[g]
  OBVIOUS
<1>3. PICK limit \in {0, PageLimit} :
         call' = [call EXCEPT ![g] = [answered(c, "ok", limit, FALSE) EXCEPT
                    !.page = page(c.offset), !.last = c.offset + limit >= Cardinality(Present)]]
  BY <1>2 DEF AnswerPage
<1>4. PICK a : a = answered(c, "ok", limit, FALSE)
  OBVIOUS
<1>4a. DOMAIN c = Fields
  BY <1>1, <1>2
<1>4b. AnsweredIs(c, a, "ok", limit)
  BY <1>4, <1>4a, AnsweredList
<1>5. DOMAIN a = Fields /\ SameList(c, a) /\ a.at = c.at /\ a.net = "answered" /\ a.resp = "ok" /\ a.ver = limit
  BY <1>4b DEF AnsweredIs
<1>6. PICK S : S = page(c.offset)
  OBVIOUS
<1>7. PICK l : l = (c.offset + limit >= Cardinality(Present))
  OBVIOUS
<1>8. PICK d : d = [a EXCEPT !.page = S, !.last = l]
  OBVIOUS
<1>9. call' = [call EXCEPT ![g] = d]
  BY <1>3, <1>4, <1>6, <1>7, <1>8
<1>10. /\ SameList(c, d) /\ d.at = c.at /\ d.net = "answered" /\ d.resp = "ok" /\ d.ver = limit
       /\ d.page = S /\ d.last = l
  BY <1>5, <1>8 DEF SameList, Fields, NoCall
<1>11. d.op = c.op /\ d.offset = c.offset
  BY <1>10 DEF SameList
<1>12. ASSUME c.op \in Lists PROVE Paging(d, Present) /\ Paged(d, Present)
  <2>1. Paging(c, Present)
    BY <1>1, <1>2, <1>12 DEF ListsInv, ListInv
  <2>2. Paging(d, Present)
    BY <1>10, <2>1, SamePaging
  <2>3. S = {n \in Present : Place(Present, n) >= c.offset /\ Place(Present, n) < c.offset + PageLimit}
    BY <1>6 DEF page, position, Place
  <2>4. PageOf(d, Present)
    BY <1>3, <1>7, <1>10, <1>11, <2>3 DEF PageOf
  <2> QED BY <2>2, <2>4, PresentNames, PageComes
<1>13. ListInv(d, Present, silent.offline)
  BY <1>1, <1>2, <1>10, <1>11, <1>12 DEF ListInv
<1> QED BY <1>1, <1>9, <1>13, OneList

LEMMA ServeLists ==
  ASSUME ManagerInv, ListsInv, NEW g \in Goroutines, Serve(g)
  PROVE  ListsInv'
BY ReadLists, ExecuteLists, DeclineLists, PageLists DEF Serve

-----------------------------------------------------------------------------
(* The callback of a list and its end.                                      *)

LEMMA CollectedGathers ==
  ASSUME NEW c, DOMAIN c = Fields, c.page \subseteq Names
  PROVE  LET d == collected(c) IN
         DOMAIN d = Fields /\ \E L, S : Gathers(c, d, L, S)
<1>1. PICK lost : lost = silent.lost
  OBVIOUS
<1>2. PICK S : S = IF Detailed(c) THEN c.page \ lost ELSE c.page
  OBVIOUS
<1>3. S \subseteq c.page /\ (Detailed(c) => c.page \cap lost = c.page \ S) /\ (~Detailed(c) => S = c.page)
  BY <1>2
<1>4. PICK L : L = listing(S)
  OBVIOUS
<1>5. Listed(L, S)
  <2>1. IsFiniteSet(S) /\ S \subseteq Nat
    BY <1>3, NamesFacts, FS_Subset
  <2> QED BY <1>4, <2>1, ListingSorts
<1>6. PICK M : M = IF Detailed(c) THEN c.missing \cup (c.page \cap lost) ELSE c.missing
  OBVIOUS
<1>7. PICK G : G = c.got \o L
  OBVIOUS
<1>8. collected(c) = [c EXCEPT !.got = G, !.missing = M]
  BY <1>1, <1>2, <1>4, <1>6, <1>7 DEF collected, Detailed
<1>9. PICK d : d = collected(c)
  OBVIOUS
<1>10. /\ DOMAIN d = Fields /\ d.op = c.op /\ d.offset = c.offset /\ d.stays = c.stays /\ d.created = c.created
       /\ d.deleted = c.deleted /\ d.last = c.last /\ d.ver = c.ver /\ d.got = G /\ d.missing = M
  BY <1>8, <1>9 DEF Fields, NoCall
<1>11. M = c.missing \cup (c.page \ S)
  BY <1>3, <1>6
<1>12. Gathers(c, d, L, S)
  BY <1>3, <1>5, <1>7, <1>10, <1>11 DEF Gathers
<1> QED BY <1>9, <1>10, <1>12

LEMMA FinishedFields ==
  ASSUME NEW c, DOMAIN c = Fields
  PROVE  LET d == Return(filteredMissing(finished(c)), "") IN
         /\ d.at = "returned" /\ d.err = "" /\ Finishes(c, d, silent.offline)
<1>1. PICK G : G = CASE c.op \in {"names", "consumers"} -> ascending(c.got)
                     [] c.op = "subjects" -> listing(Range(c.got))
                     [] OTHER -> c.got
  OBVIOUS
<1>2. PICK e : e = finished(c)
  OBVIOUS
<1>3. e = [c EXCEPT !.got = G]
  BY <1>1, <1>2 DEF finished
<1>4. /\ DOMAIN e = Fields /\ e.op = c.op /\ e.stays = c.stays /\ e.created = c.created /\ e.deleted = c.deleted
      /\ e.missing = c.missing /\ e.got = G
  BY <1>3 DEF Fields, NoCall
<1>5. PICK Off : Off = silent.offline
  OBVIOUS
<1>6. PICK f : f = filteredMissing(e)
  OBVIOUS
<1>7. /\ DOMAIN f = Fields /\ f.op = e.op /\ f.stays = e.stays /\ f.created = e.created /\ f.deleted = e.deleted
      /\ f.missing = e.missing \ Off /\ f.got = e.got
  BY <1>4, <1>5, <1>6 DEF filteredMissing, Fields, NoCall
<1>8. PICK d : d = Return(f, "")
  OBVIOUS
<1>9. /\ d.op = f.op /\ d.stays = f.stays /\ d.created = f.created /\ d.deleted = f.deleted
      /\ d.missing = f.missing /\ d.got = f.got /\ d.at = "returned" /\ d.err = ""
  BY <1>7, <1>8 DEF Return, Fields, NoCall
<1>10. /\ c.op \in {"names", "consumers"} => G = ascending(c.got)
       /\ c.op = "subjects" => G = listing(Range(c.got))
       /\ c.op = "streams" => G = c.got
  BY <1>1
<1>11. Finishes(c, d, Off)
  BY <1>4, <1>7, <1>9, <1>10 DEF Finishes
<1> QED BY <1>2, <1>5, <1>6, <1>8, <1>9, <1>11

LEMMA RequestFields ==
  ASSUME NEW c, DOMAIN c = Fields, NEW o
  PROVE  LET d == Request([c EXCEPT !.offset = o], "page") IN
         /\ d.op = c.op /\ d.got = c.got /\ d.missing = c.missing /\ d.stays = c.stays /\ d.created = c.created
         /\ d.deleted = c.deleted /\ d.offset = o /\ d.at = "page" /\ d.net = "sent"
BY DEF Request, Fields, NoCall

LEMMA iterableLists ==
  ASSUME ManagerInv, ListsInv, NEW g \in Goroutines, iterableRequest(g)
  PROVE  ListsInv'
<1>1. /\ DOMAIN call = Goroutines /\ UNCHANGED <<assets, silent>> /\ DOMAIN call[g] = Fields /\ Answer(call[g])
      /\ call[g].net = "answered" /\ call[g].op \in Lists /\ call[g].at # "returned"
  BY DEF ManagerInv, CallInv, iterableRequest, Calling
<1>2. PICK b : b = call[g]
  OBVIOUS
<1>3. b.at = "page" /\ Paging(b, Present) /\ (b.resp = "ok" => Paged(b, Present))
  BY <1>1, <1>2 DEF ListsInv, ListInv
<1>4. PICK c : c = collected(b)
  OBVIOUS
<1>5. PICK d : d = IF jsonRequest(b) # "" THEN Fail(b, jsonRequest(b))
                   ELSE IF c.last THEN Return(filteredMissing(finished(c)), "")
                   ELSE IF ~hasLimit(c) THEN Fail(c, "limit")
                   ELSE Request([c EXCEPT !.offset = nextOffset(c)], "page")
  OBVIOUS
<1>6. call' = [call EXCEPT ![g] = d]
  BY <1>2, <1>4, <1>5 DEF iterableRequest
<1>7. ListInv(d, Present, silent.offline)
  <2>1. CASE jsonRequest(b) # ""
    <3>1. d = Fail(b, jsonRequest(b))
      BY <1>5, <2>1
    <3>2. d.at = "returned" /\ d.err = jsonRequest(b)
      BY <1>1, <1>2, <3>1, Failed
    <3> QED BY <2>1, <3>2, NoList
  <2>2. CASE jsonRequest(b) = ""
    <3>1. b.resp = "ok"
      BY <1>1, <1>2, <2>2 DEF Answer, jsonRequest, IsErrorResponse, Lists
    <3>2. Paged(b, Present)
      BY <1>3, <3>1
    <3>3. b.page \subseteq Names /\ b.ver \in {0, PageLimit} /\ DOMAIN b = Fields
      BY <1>1, <1>2, <3>2 DEF Paged
    <3>4. DOMAIN c = Fields /\ \E L, S : Gathers(b, c, L, S)
      BY <1>4, <3>3, CollectedGathers
    <3>5. PICK L, S : Gathers(b, c, L, S)
      BY <3>4
    <3>6. Gathered(c, Present)
      BY <1>3, <3>2, <3>5, PresentNames, PageGathered
    <3>7. c.op = b.op /\ c.ver = b.ver /\ c.op \in Lists
      BY <1>1, <1>2, <3>5 DEF Gathers
    <3>8. CASE c.last
      <4>1. d = Return(filteredMissing(finished(c)), "")
        BY <1>5, <2>2, <3>8
      <4>2. d.at = "returned" /\ d.err = "" /\ Finishes(c, d, silent.offline)
        BY <3>4, <4>1, FinishedFields
      <4>3. Explained(d, silent.offline)
        BY <3>6, <3>7, <3>8, <4>2, PresentNames, ListFinished
      <4> QED BY <4>2, <4>3 DEF ListInv
    <3>9. CASE ~c.last /\ ~hasLimit(c)
      <4>1. d = Fail(c, "limit")
        BY <1>5, <2>2, <3>9
      <4>2. d.at = "returned" /\ d.err = "limit"
        BY <3>4, <4>1, Failed
      <4> QED BY <4>2, NoList
    <3>10. CASE ~c.last /\ hasLimit(c)
      <4>1. PICK o : o = nextOffset(c)
        OBVIOUS
      <4>2. d = Request([c EXCEPT !.offset = o], "page")
        BY <1>5, <2>2, <3>10, <4>1
      <4>3. o = c.offset + PageLimit
        BY <3>3, <3>7, <3>10, <4>1 DEF nextOffset, hasLimit
      <4>4. /\ d.op = c.op /\ d.got = c.got /\ d.missing = c.missing /\ d.stays = c.stays
            /\ d.created = c.created /\ d.deleted = c.deleted /\ d.offset = c.offset + PageLimit
            /\ d.at = "page" /\ d.net = "sent"
        BY <3>4, <4>2, <4>3, RequestFields
      <4>5. Paging(d, Present)
        BY <3>6, <3>10, <4>4, PresentNames, NextPage
      <4> QED BY <4>4, <4>5 DEF ListInv
    <3> QED BY <3>8, <3>9, <3>10
  <2> QED BY <2>1, <2>2
<1> QED BY <1>1, <1>6, <1>7, OneList

\* Every step keeps what the invariant says of lists.
LEMMA StepKeepsLists ==
  ASSUME ManagerInv, ListsInv, [ManagerStep]_managerVars
  PROVE  ListsInv'
<1>1. ASSUME NEW g \in Goroutines,
             HandleCalls(g) \/ AssetCalls(g) \/ Commands(g) \/ ListCalls(g)
      PROVE  ListsInv'
  BY <1>1, Starts, ListBegins
<1>2. ASSUME NEW g \in Goroutines, Answers(g)
      PROVE  ListsInv'
  BY <1>2, ServeLists, ListLoses, OtherReceives, iterableLists, ListTimesOut DEF Answers
<1>3. CASE OtherClient
  BY <1>3, OtherClientLists
<1>4. CASE UNCHANGED managerVars
  <2>1. Present' = Present /\ silent' = silent /\ call' = call
    BY <1>4 DEF managerVars, Present
  <2> QED BY <2>1 DEF ListsInv
<1> QED BY <1>1, <1>2, <1>3, <1>4 DEF ManagerStep

LEMMA InitHasLists == ManagerInit => ListsInv
<1>1. ManagerInit => \A g \in Goroutines : call[g].op \notin Lists
  <2>1. NoCall.op \notin Lists
    BY DEF NoCall, Lists
  <2>2. ManagerInit => \A g \in Goroutines : call[g] = NoCall
    BY DEF ManagerInit
  <2> QED BY <2>1, <2>2
<1> QED BY <1>1, NoList DEF ListsInv

(***************************************************************************)
(* A finished list leaves out a name that was there all along only if one  *)
(* before it was deleted meanwhile, and has one twice or out of order only *)
(* if one was created, for every page size, set of names and sequence of   *)
(* changes by other clients (manager.go:344).                              *)
(***************************************************************************)
THEOREM ListExplained == ManagerSpec => []ListIsExplained
<1>1. ListsInv => ListIsExplained
  <2> SUFFICES ASSUME ListsInv, NEW g \in Goroutines, Succeeded(g), call[g].op \in Lists
               PROVE  Explained(call[g], silent.offline)
    BY DEF ListIsExplained, Explained, Seen, Detailed, Skips, Repeats
  <2> QED BY DEF ListsInv, ListInv, Succeeded
<1>2. ManagerInv /\ ListsInv /\ [ManagerStep]_managerVars => (ManagerInv /\ ListsInv)'
  BY StepKeepsInv, StepKeepsLists
<1> QED BY <1>1, <1>2, InitHasInv, InitHasLists, PTL DEF ManagerSpec
=============================================================================
