----------------------------- MODULE AuditProofs -----------------------------
(***************************************************************************)
(* Proofs about the audit: the gathering of an archive, for any worlds,    *)
(* configurations, filters and timings, and the collection of checks, for  *)
(* any checks, batches and handlers.                                       *)
(*                                                                         *)
(* Of a gathering nothing is claimed once an answer was bad or a request   *)
(* ran out of time (Smooth).  Until then the accounts counted are those of *)
(* the servers that have answered (Tally), each answer is the only one of  *)
(* its server, and what a server answered about the streams of an account  *)
(* is filed, in hand, or hidden by another of its name (InHand).  As many  *)
(* answers as the account has servers are therefore all of them, unless    *)
(* the count misleads.                                                     *)
(*                                                                         *)
(* Of the archive something is claimed however the gathering goes: each    *)
(* artifact captured is in a file of its own, its page after the earlier   *)
(* ones (Place), unless it is a profile of servers of one name (Kept), and *)
(* an entry that is torn ends the gathering (TornInv).  What was filed is  *)
(* what the reader of the closed archive finds for the tags.               *)
(*                                                                         *)
(* Of a collection, every item of the configuration is that of a check and *)
(* its key, and the report of a run counts each check once.                *)
(***************************************************************************)
EXTENDS AuditGather, AuditCollection, FiniteSetTheorems, WellFoundedInduction, TLAPS

-----------------------------------------------------------------------------
(* The gathering: its invariant.                                           *)

Sections == {"endpoints", "profiles", "accounts", "streams"}

\* Nothing has gone wrong and no request ran out of time.
Smooth == faults = 0 /\ ~ expired

\* The servers that may answer, those of a stream request, those still to answer.
Filtered == {s \in world.servers : inFilter(s)}
Hosts == {s \in world.jetstream : inFilter(s)}
Waiting == {m.from : m \in net}

\* The counts c are those of the servers in S, in a world w.
Having(w, a, S) == {u \in S : a \in ToSet(w.accounts[u]) \cup {w.system}}
Tally(c, w, S) ==
    /\ \A u \in S : ToSet(w.accounts[u]) \cup {w.system} \subseteq DOMAIN c
    /\ \A a \in DOMAIN c : c[a] = Cardinality(Having(w, a, S))

GatherTypes ==
    /\ world \in Worlds
    /\ req = [on |-> req.on, waitFor |-> req.waitFor, left |-> req.left, ctr |-> req.ctr,
              clock |-> req.clock, finisher |-> req.finisher, ctxDone |-> req.ctxDone,
              errs |-> req.errs, done |-> req.done, err |-> req.err]
    /\ req.on \in BOOLEAN /\ req.done \in BOOLEAN /\ req.ctr \in Nat
    /\ faults \in Nat /\ expired \in BOOLEAN
    /\ counts \in [DOMAIN counts -> Nat]
    /\ captured \in Seq(ToSet(captured)) /\ got \in Seq(ToSet(got))

\* Where requests are made, and that nothing is left over between them.
Course ==
    /\ req.done => req.on
    /\ req.on => stage \in {"live", "servers", "discover"} \cup Sections
    /\ req.on /\ stage \in Sections => cur.left # <<>>
    /\ stage \in Sections /\ cur.left = <<>> => got = <<>>
    /\ stage \notin Sections => cur.left = <<>>
    /\ stage \in {"config", "servers", "discover"} => got = <<>> /\ cur = Nobody
    /\ stage \in {"config", "servers"} \/ (stage = "discover" /\ ~ req.on) => counts = <<>>
    /\ closed # "" => stage = "done"

\* Every answer on its way is good and the only one of its server.
NetSound ==
    Smooth => /\ req.errs = ""
              /\ \A m \in net : m.kind = "ok" /\ \A n \in net : n.from = m.from => n = m

\* Past the discovery, unless the gathering failed.
Late ==
    \/ stage \in Sections \cup {"metadata"}
    \/ outcome = "ok" /\ (stage \in {"log", "close"} \/ closed = "ok")

DiscoveryInv ==
    Smooth =>
        /\ (stage = "servers" /\ req.done) \/ stage = "discover" \/ Late => known = Filtered
        /\ Late => Tally(counts, world, known)
        /\ stage = "discover" /\ req.on =>
               IF req.done THEN Tally(counts, world, known)
               ELSE /\ req.waitFor = Cardinality(known) /\ known # {}
                    /\ Waiting \subseteq known
                    /\ req.ctr = Cardinality(known \ Waiting)
                    /\ Tally(counts, world, known \ Waiting)

\* What a server answers about the streams of an account.
Reply(s, a, left) ==
    [from |-> s, kind |-> "ok", copy |-> 1, server |-> infoOf(s), hasData |-> TRUE,
     items |-> <<[name |-> a, streams |-> left]>>]
Answer(s, a) ==
    [from |-> s, kind |-> "ok", copy |-> 1, server |-> infoOf(s), hasData |-> TRUE,
     items |-> IF a \in accountsOf(s) THEN details(s, <<a>>) ELSE <<>>]

GotSound(a) == \A g \in ToSet(got) :
    /\ g.from \in Hosts \cap known /\ a \in accountsOf(g.from)
    /\ g = Reply(g.from, a, streamsOf(g))
    /\ streamsOf(g) \in Seq(ToSet(world.streams[g.from][a]))

\* The replicas of a server are filed or in hand, unless another hides it.
InHand(s, a) ==
    \/ shadowed(s, a)
    \/ \A x \in ToSet(world.streams[s][a]) :
           hasReplica(s, a, x.name) \/ \E g \in ToSet(got) : g.from = s /\ x \in ToSet(streamsOf(g))
AllInHand(S, a) == countMisleads(a) \/ \A s \in S : InHand(s, a)

Filed(s, a) ==
    \/ shadowed(s, a)
    \/ \A x \in ToSet(world.streams[s][a]) : hasReplica(s, a, x.name)
Through(a) == countMisleads(a) \/ \A s \in Hosts : Filed(s, a)

\* A request for the streams of an account, from the answers to the last one filed.
Asking(a) ==
    /\ GotSound(a)
    /\ req.on /\ ~ req.done =>
           /\ req.waitFor = counts[a] /\ req.ctr = Cardinality(Hosts \ Waiting)
           /\ Waiting \subseteq Hosts
           /\ \A m \in net : m = Answer(m.from, a)
           /\ \A g \in ToSet(got) : g.from \notin Waiting
           /\ AllInHand(Hosts \ Waiting, a)
    /\ req.done \/ (~ req.on /\ got # <<>>) => AllInHand(Hosts, a)

StreamsInv ==
    Smooth /\ stage = "streams" =>
        /\ todo \subseteq DOMAIN counts
        /\ cur.left # <<>> => cur.of \in DOMAIN counts /\ cur.left = <<"JSZ">>
        /\ \A a \in {cur.of} : Asking(a)
        /\ \A a \in DOMAIN counts \ {systemAccount} :
               a \in todo \/ (cur.left # <<>> /\ cur.of = a) \/ Through(a)

EndInv ==
    Smooth /\ Late /\ stage \notin Sections /\ gathered("streams") =>
        \A a \in DOMAIN counts \ {systemAccount} : Through(a)

GatherInv == GatherTypes /\ Course /\ NetSound /\ DiscoveryInv /\ StreamsInv /\ EndInv

-----------------------------------------------------------------------------
(* What the parts of the invariant need.                                   *)

LEMMA SectionsAre ==
  /\ ToSet(sections) = Sections /\ DOMAIN sections = 1..4 /\ Len(sections) = 4
  /\ sections[4] = "streams" /\ \A i \in 1..4 : sections[i] = "streams" => i = 4
BY DEF sections, Sections, ToSet

\* Faults and lapses of time are not taken back.
LEMMA SmoothBefore ==
  ASSUME GatherTypes, Next
  PROVE  Smooth' => Smooth
<1>1. faults \in Nat /\ faults' \in {faults, faults + 1}
  BY DEF GatherTypes, Next, vars, gatherVars, Configure, SendRequest, Request, Receive, TimePasses,
         Returns, TakeLive, TakeServers, TakeAccounts, Choose, NextSection, Skip, TakeAnswers, Store, Write,
         WriteFails, CaptureMetadata, AddLog, CloseArchive, Finished
<1>2. expired => expired'
  BY DEF GatherTypes, Next, vars, gatherVars, Configure, SendRequest, Request, Receive, TimePasses,
         Returns, TakeLive, TakeServers, TakeAccounts, Choose, NextSection, Skip, TakeAnswers, Store,
         CaptureMetadata, AddLog, CloseArchive, Finished
<1> QED BY <1>1, <1>2 DEF Smooth

LEMMA Appended ==
  ASSUME NEW S, NEW c \in Seq(S), NEW z
  PROVE  /\ Append(c, z) \in Seq(ToSet(Append(c, z))) /\ DOMAIN c \subseteq DOMAIN Append(c, z)
         /\ \A i \in DOMAIN c : Append(c, z)[i] = c[i]
         /\ ToSet(Append(c, z)) = ToSet(c) \cup {z}
         /\ Append(c, z) # <<>>
<1>1. c \in Seq(S \cup {z})
  OBVIOUS
<1>2. PICK d : d = Append(c, z)
  OBVIOUS
<1>3. /\ d \in Seq(S \cup {z}) /\ Len(c) \in Nat /\ DOMAIN c = 1..Len(c) /\ DOMAIN d = 1..Len(c) + 1
      /\ Len(d) = Len(c) + 1 /\ (\A i \in 1..Len(c) : d[i] = c[i]) /\ d[Len(c) + 1] = z
  BY <1>1, <1>2
<1>4. \A i \in 1..Len(c) + 1 : i \in 1..Len(c) \/ i = Len(c) + 1
  BY <1>3
<1>5. ToSet(d) = ToSet(c) \cup {z}
  <2>1. Len(c) + 1 \in 1..Len(c) + 1
    BY <1>3
  <2>2. ASSUME NEW i \in 1..Len(c) + 1 PROVE d[i] \in ToSet(c) \cup {z}
    BY <1>3, <1>4 DEF ToSet
  <2>3. ASSUME NEW x \in ToSet(c) \cup {z} PROVE x \in ToSet(d)
    BY <1>3, <2>1 DEF ToSet
  <2> QED BY <1>3, <2>2, <2>3 DEF ToSet
<1>6. d \in Seq(ToSet(d))
  <2>1. d \in [1..Len(d) -> ToSet(d)] /\ Len(d) \in Nat
    BY <1>3 DEF ToSet
  <2> QED BY <2>1
<1>7. d # <<>>
  BY <1>3
<1> QED BY <1>2, <1>3, <1>5, <1>6, <1>7

\* What is filed stays filed.
Files == captured' = captured \/ \E z : captured' = Append(captured, z)

LEMMA FiledStays ==
  ASSUME GatherTypes, UNCHANGED <<world, known>>, Files
  PROVE  /\ captured' \in Seq(ToSet(captured'))
         /\ \A s, a, t : hasReplica(s, a, t) => hasReplica(s, a, t)'
         /\ \A s, a : shadowed(s, a) <=> shadowed(s, a)'
         /\ \A a : countMisleads(a) <=> countMisleads(a)'
         /\ Hosts' = Hosts
         /\ \A a : Through(a) => Through(a)'
<1>1. /\ captured' \in Seq(ToSet(captured')) /\ DOMAIN captured \subseteq DOMAIN captured'
      /\ \A i \in DOMAIN captured : captured'[i] = captured[i]
  <2>1. CASE captured' = captured
    BY <2>1 DEF GatherTypes
  <2>2. ASSUME NEW z, captured' = Append(captured, z)
        PROVE  /\ captured' \in Seq(ToSet(captured')) /\ DOMAIN captured \subseteq DOMAIN captured'
               /\ \A i \in DOMAIN captured : captured'[i] = captured[i]
    BY <2>2, Appended DEF GatherTypes
  <2> QED BY <2>1, <2>2 DEF Files
<1>2. ASSUME NEW s, NEW a, NEW t, hasReplica(s, a, t) PROVE hasReplica(s, a, t)'
  BY <1>1, <1>2 DEF hasReplica, infoOf
<1>3. ASSUME NEW s, NEW a PROVE shadowed(s, a) <=> shadowed(s, a)'
  BY DEF shadowed, accountsOf, infoOf
<1>4. ASSUME NEW a PROVE countMisleads(a) <=> countMisleads(a)'
  BY DEF countMisleads, inFilter, accountsOf, infoOf
<1>5. Hosts' = Hosts
  BY DEF Hosts, inFilter, infoOf
<1>6. ASSUME NEW a, Through(a) PROVE Through(a)'
  <2>1. ASSUME NEW s, Filed(s, a) PROVE Filed(s, a)'
    BY <1>2, <1>3, <2>1 DEF Filed
  <2> QED BY <1>4, <1>5, <1>6, <2>1 DEF Through
<1> QED BY <1>1, <1>2, <1>3, <1>4, <1>5, <1>6

\* Who passes the filter does not change.
LEMMA FilterStays == ASSUME UNCHANGED world PROVE Filtered' = Filtered
BY DEF Filtered, inFilter, infoOf

\* The end is reached with what the stage before it had.
LEMMA EndStays ==
  ASSUME GatherInv, Smooth' => Smooth, UNCHANGED <<world, known, counts, systemAccount, conf>>, Files,
         Late' => Late, stage \notin Sections, stage' \notin Sections
  PROVE  EndInv'
<1> SUFFICES ASSUME Smooth', Late', gathered("streams")', NEW a \in (DOMAIN counts \ {systemAccount})'
             PROVE  Through(a)'
  BY DEF EndInv
<1>1. gathered("streams")
  BY DEF gathered
<1>2. Through(a)
  BY <1>1 DEF GatherInv, EndInv
<1> QED BY <1>2, FiledStays DEF GatherInv

LEMMA DiscoveryStays ==
  ASSUME GatherInv, Smooth' => Smooth, UNCHANGED <<world, known, counts>>,
         Late' => Late, stage' \notin {"servers", "discover"}
  PROVE  DiscoveryInv'
BY FilterStays DEF GatherInv, DiscoveryInv

-----------------------------------------------------------------------------
(* The steps outside the requests.                                         *)

LEMMA IdleFacts ==
  ASSUME Taken
  PROVE  /\ req' = [on |-> req'.on, waitFor |-> req'.waitFor, left |-> req'.left, ctr |-> req'.ctr,
                    clock |-> req'.clock, finisher |-> req'.finisher, ctxDone |-> req'.ctxDone,
                    errs |-> req'.errs, done |-> req'.done, err |-> req'.err]
         /\ req'.on = FALSE /\ req'.done = FALSE /\ req'.ctr \in Nat /\ req'.errs = "" /\ net' = {}
BY DEF Taken, Idle

LEMMA Empty == <<>> \in Seq(ToSet(<<>>)) /\ Nobody.left = <<>>
BY DEF Nobody

LEMMA ConfigureStep ==
  ASSUME GatherInv, Next, Configure
  PROVE  GatherInv'
<1>0. Smooth' => Smooth
  BY SmoothBefore DEF GatherInv
<1>1. GatherTypes'
  BY DEF GatherInv, GatherTypes, Configure, requestVars
<1>2. /\ stage = "config" /\ stage' \in {"live", "servers", "done"} /\ closed' = ""
      /\ req'.on = FALSE /\ req'.done = FALSE
  BY DEF GatherInv, GatherTypes, Course, Configure, requestVars, Sections
<1>3. Course'
  BY <1>2 DEF GatherInv, Course, Configure, requestVars, Sections
<1>4. NetSound'
  BY <1>0 DEF GatherInv, NetSound, Configure, requestVars
<1>5. ~ Late'
  BY <1>2 DEF Late, Sections
<1>6. DiscoveryInv'
  BY <1>2, <1>5 DEF DiscoveryInv
<1>7. StreamsInv' /\ EndInv'
  BY <1>2, <1>5 DEF StreamsInv, EndInv
<1> QED BY <1>1, <1>3, <1>4, <1>6, <1>7 DEF GatherInv

LEMMA TakeLiveStep ==
  ASSUME GatherInv, Next, TakeLive
  PROVE  GatherInv'
<1>1. GatherTypes'
  BY IdleFacts DEF GatherInv, GatherTypes, TakeLive
<1>2. stage' = "done" /\ closed' = "" /\ req'.on = FALSE /\ req'.done = FALSE
  BY IdleFacts DEF GatherInv, GatherTypes, Course, TakeLive
<1>3. Course'
  BY <1>2 DEF GatherInv, Course, TakeLive, Sections
<1>4. NetSound'
  BY IdleFacts DEF NetSound, TakeLive
<1>5. ~ Late'
  BY <1>2 DEF Late, Sections
<1>7. DiscoveryInv' /\ StreamsInv' /\ EndInv'
  BY <1>2, <1>5 DEF DiscoveryInv, StreamsInv, EndInv
<1> QED BY <1>1, <1>3, <1>4, <1>7 DEF GatherInv

\* Of a gathering that failed nothing is claimed.
LEMMA FailStep ==
  ASSUME GatherInv, Next, Fail, req'.on = FALSE, req'.done = FALSE, closed' = "", GatherTypes', NetSound'
  PROVE  GatherInv'
<1>1. stage' = "log" /\ outcome' = "failed"
  BY DEF Fail
<1>2. Course'
  <2>1. cur'.left = <<>>
    BY Empty DEF Fail
  <2> QED BY <1>1, <2>1 DEF Course, Sections
<1>3. ~ Late'
  BY <1>1 DEF Late, Sections
<1>4. DiscoveryInv' /\ StreamsInv' /\ EndInv'
  BY <1>1, <1>3 DEF DiscoveryInv, StreamsInv, EndInv
<1> QED BY <1>2, <1>4 DEF GatherInv

LEMMA TakeServersStep ==
  ASSUME GatherInv, Next, TakeServers
  PROVE  GatherInv'
<1>0. Smooth' => Smooth
  BY SmoothBefore DEF GatherInv
<1>1. stage = "servers" /\ closed = "" /\ closed' = "" /\ req.done
  BY DEF GatherInv, Course, TakeServers
<1>2. NetSound'
  BY IdleFacts DEF NetSound, TakeServers
<1>3. CASE Fail
  <2>1. GatherTypes'
    BY <1>3, IdleFacts, Empty DEF GatherInv, GatherTypes, TakeServers, Fail
  <2> QED BY <1>1, <1>2, <1>3, <2>1, IdleFacts, FailStep DEF TakeServers
<1>4. CASE stage' = "discover" /\ UNCHANGED <<known, counts, systemAccount, todo, cur, got, outcome>>
  <2>1. GatherTypes'
    BY <1>4, IdleFacts DEF GatherInv, GatherTypes, TakeServers
  <2>2. Course'
    BY <1>1, <1>4, IdleFacts DEF GatherInv, Course, TakeServers, Sections
  <2>3. ~ Late'
    BY <1>1, <1>4 DEF Late, Sections
  <2>4. DiscoveryInv'
    <3>1. Smooth' => known' = Filtered'
      BY <1>0, <1>1, <1>4, FilterStays DEF GatherInv, DiscoveryInv, TakeServers
    <3>2. req'.on = FALSE
      BY IdleFacts DEF TakeServers
    <3> QED BY <1>4, <2>3, <3>1, <3>2 DEF DiscoveryInv
  <2>5. StreamsInv' /\ EndInv'
    BY <1>4, <2>3 DEF StreamsInv, EndInv
  <2> QED BY <1>2, <2>1, <2>2, <2>4, <2>5 DEF GatherInv
<1> QED BY <1>3, <1>4 DEF TakeServers

LEMMA CaptureMetadataStep ==
  ASSUME GatherInv, Next, CaptureMetadata
  PROVE  GatherInv'
<1>0. Smooth' => Smooth
  BY SmoothBefore DEF GatherInv
<1>1. /\ stage = "metadata" /\ closed = "" /\ closed' = "" /\ req.on = FALSE /\ req.done = FALSE
      /\ req' = req /\ net' = net
  BY DEF GatherInv, GatherTypes, Course, CaptureMetadata, requestVars, Sections
<1>2. NetSound'
  BY <1>0, <1>1 DEF GatherInv, NetSound
<1>3. faults' \in Nat /\ Files
  BY DEF GatherInv, GatherTypes, CaptureMetadata, Write, WriteFails, Files
<1>4. captured' \in Seq(ToSet(captured'))
  BY <1>3, FiledStays DEF GatherInv, CaptureMetadata, Fail
<1>5. CASE Fail
  <2>1. GatherTypes'
    BY <1>1, <1>3, <1>4, <1>5, Empty DEF GatherInv, GatherTypes, CaptureMetadata, Fail
  <2> QED BY <1>1, <1>2, <1>5, <2>1, FailStep
<1>6. CASE stage' = "log" /\ outcome' = "ok" /\ UNCHANGED <<known, counts, systemAccount, todo, cur, got>>
  <2>1. GatherTypes'
    BY <1>1, <1>3, <1>4, <1>6 DEF GatherInv, GatherTypes, CaptureMetadata
  <2>2. Course'
    <3>1. cur'.left = <<>>
      BY <1>1, <1>6 DEF GatherInv, Course, Sections
    <3> QED BY <1>1, <1>6, <3>1 DEF Course, Sections
  <2>3. Late /\ stage \notin Sections /\ stage' \notin Sections
    BY <1>1, <1>6 DEF Late, Sections
  <2>4. DiscoveryInv'
    BY <1>0, <1>6, <2>3, DiscoveryStays DEF CaptureMetadata
  <2>5. StreamsInv' /\ EndInv'
    BY <1>0, <1>3, <1>6, <2>3, EndStays DEF StreamsInv, CaptureMetadata
  <2> QED BY <1>2, <2>1, <2>2, <2>4, <2>5 DEF GatherInv
<1> QED BY <1>5, <1>6 DEF CaptureMetadata

LEMMA AddLogStep ==
  ASSUME GatherInv, Next, AddLog
  PROVE  GatherInv'
<1>0. Smooth' => Smooth
  BY SmoothBefore DEF GatherInv
<1>1. /\ stage = "log" /\ stage' = "close" /\ closed = "" /\ closed' = "" /\ req.on = FALSE
      /\ req.done = FALSE /\ req' = req /\ net' = net
  BY DEF GatherInv, GatherTypes, Course, AddLog, requestVars, Sections
<1>2. NetSound'
  BY <1>0, <1>1 DEF GatherInv, NetSound
<1>3. faults' \in Nat /\ Files
  BY DEF GatherInv, GatherTypes, AddLog, Write, WriteFails, Files
<1>4. captured' \in Seq(ToSet(captured'))
  BY <1>3, FiledStays DEF GatherInv, AddLog
<1>5. GatherTypes'
  BY <1>1, <1>3, <1>4 DEF GatherInv, GatherTypes, AddLog
<1>6. Course'
  <2>1. cur'.left = <<>>
    BY <1>1 DEF GatherInv, Course, Sections, AddLog
  <2> QED BY <1>1, <2>1 DEF Course, Sections
<1>7. (Late' => Late) /\ stage \notin Sections /\ stage' \notin Sections
  BY <1>1 DEF Late, Sections, AddLog
<1>8. DiscoveryInv'
  BY <1>0, <1>1, <1>7, DiscoveryStays DEF AddLog
<1>9. StreamsInv' /\ EndInv'
  BY <1>0, <1>1, <1>3, <1>7, EndStays DEF StreamsInv, AddLog
<1> QED BY <1>2, <1>5, <1>6, <1>8, <1>9 DEF GatherInv

LEMMA CloseArchiveStep ==
  ASSUME GatherInv, Next, CloseArchive
  PROVE  GatherInv'
<1>0. Smooth' => Smooth
  BY SmoothBefore DEF GatherInv
<1>1. /\ stage = "close" /\ stage' = "done" /\ req.on = FALSE
      /\ req.done = FALSE /\ req' = req /\ net' = net
  BY DEF GatherInv, GatherTypes, Course, CloseArchive, requestVars, Sections
<1>2. NetSound'
  BY <1>0, <1>1 DEF GatherInv, NetSound
<1>3. faults' \in Nat /\ Files
  BY DEF GatherInv, GatherTypes, CloseArchive, Files
<1>5. GatherTypes'
  BY <1>1, <1>3 DEF GatherInv, GatherTypes, CloseArchive
<1>6. Course'
  <2>1. cur'.left = <<>>
    BY <1>1 DEF GatherInv, Course, Sections, CloseArchive
  <2> QED BY <1>1, <2>1 DEF Course, Sections
<1>7. (Late' => Late) /\ stage \notin Sections /\ stage' \notin Sections
  BY <1>1 DEF Late, Sections, CloseArchive
<1>8. DiscoveryInv'
  BY <1>0, <1>1, <1>7, DiscoveryStays DEF CloseArchive
<1>9. StreamsInv' /\ EndInv'
  BY <1>0, <1>1, <1>3, <1>7, EndStays DEF StreamsInv, CloseArchive
<1> QED BY <1>2, <1>5, <1>6, <1>8, <1>9 DEF GatherInv

-----------------------------------------------------------------------------
(* The way through the sections.                                           *)

\* The least element of a set of numbers.
LEMMA NatMin == ASSUME NEW T, T \subseteq Nat, T # {} PROVE \E n \in T : \A m \in T : n <= m
<1> DEFINE R == OpToRel(<, Nat)
<1>1. IsWellFoundedOn(R, Nat)
  BY NatLessThanWellFounded
<1>2. \A m, n \in Nat : m < n => <<m, n>> \in R
  BY DEF OpToRel
<1> HIDE DEF R
<1>3. PICK n \in T : \A m \in T : ~(<<m, n>> \in R)
  BY <1>1, WFMin
<1>4. ASSUME NEW m \in T PROVE n <= m
  <2>1. ~(m < n)
    BY <1>2, <1>3
  <2> QED BY <2>1
<1> QED BY <1>4

LEMMA Enters ==
  ASSUME NEW i \in 1..5, enter(i)
  PROVE  \/ stage' = "metadata" /\ ("streams" \in conf.include => i = 5)
         \/ \E j \in i..4 : /\ stage' = sections[j] /\ todo' = subjects(sections[j])
                         /\ stage' \in conf.include
<1> DEFINE asked == {j \in i..4 : sections[j] \in conf.include}
<1>1. CASE asked = {}
  <2>1. stage' = "metadata"
    BY <1>1, SectionsAre DEF enter
  <2>2. "streams" \in conf.include => i = 5
    <3>1. i # 5 => 4 \in i..4
      OBVIOUS
    <3> QED BY <1>1, <3>1, SectionsAre
  <2> QED BY <2>1, <2>2
<1>2. CASE asked # {}
  <2>1. \E n \in asked : \A m \in asked : n <= m
    BY <1>2, NatMin
  <2>2. Min(asked) \in asked
    BY <2>1 DEF Min
  <2>3. stage' = sections[Min(asked)] /\ todo' = subjects(sections[Min(asked)])
    BY <1>2, SectionsAre, Zenon DEF enter
  <2>4. sections[Min(asked)] \in conf.include
    BY <2>2
  <2> QED BY <2>2, <2>3, <2>4
<1> QED BY <1>1, <1>2

\* The streams are entered with every account still to do.
LEMMA StreamsEntered ==
  ASSUME stage' = "streams", todo' = subjects("streams"), cur'.left = <<>>, got' = <<>>,
         req'.on = FALSE, req'.done = FALSE, UNCHANGED <<counts, systemAccount>>
  PROVE  StreamsInv'
<1>1. todo' = DOMAIN counts \ {systemAccount}
  BY DEF subjects
<1>2. ToSet(got') = {}
  BY DEF ToSet
<1>3. ASSUME NEW a PROVE Asking(a)'
  BY <1>2 DEF Asking, GotSound
<1> QED BY <1>1, <1>3 DEF StreamsInv

\* A section is entered once the accounts are known.
LEMMA SectionEntered ==
  ASSUME GatherInv, Smooth' => Smooth, GatherTypes', UNCHANGED <<world, known, counts, systemAccount, conf>>,
         Smooth => known = Filtered /\ Tally(counts, world, known),
         cur'.left = <<>>, got' = <<>>, req'.on = FALSE, req'.done = FALSE,
         net' = {} \/ UNCHANGED requestVars,
         req'.errs = req.errs \/ req'.errs = "", closed' = "",
         NEW j \in 1..4, stage' = sections[j], todo' = subjects(sections[j])
  PROVE  GatherInv'
<1>1. stage' \in Sections
  BY SectionsAre DEF ToSet
<1>2. Course'
  BY <1>1 DEF Course, Sections
<1>3. NetSound'
  BY DEF GatherInv, NetSound, requestVars
<1>4. DiscoveryInv'
  BY <1>1, FilterStays DEF DiscoveryInv, Sections
<1>5. StreamsInv'
  <2>1. CASE stage' = "streams"
    BY <2>1, StreamsEntered
  <2>2. CASE stage' # "streams"
    BY <2>2 DEF StreamsInv
  <2> QED BY <2>1, <2>2
<1>6. EndInv'
  BY <1>1 DEF EndInv
<1> QED BY <1>2, <1>3, <1>4, <1>5, <1>6 DEF GatherInv

LEMMA TakeAccountsStep ==
  ASSUME GatherInv, Next, TakeAccounts
  PROVE  GatherInv'
<1>0. Smooth' => Smooth
  BY SmoothBefore DEF GatherInv
<1>1. /\ stage = "discover" /\ closed = "" /\ closed' = "" /\ got = <<>> /\ cur = Nobody
      /\ req'.on = FALSE /\ req'.done = FALSE
  BY IdleFacts DEF GatherInv, Course, TakeAccounts
<1>2. NetSound'
  BY IdleFacts DEF NetSound, TakeAccounts
<1>3. CASE Fail
  <2>1. GatherTypes'
    BY <1>3, IdleFacts, Empty DEF GatherInv, GatherTypes, TakeAccounts, Fail
  <2> QED BY <1>1, <1>2, <1>3, <2>1, FailStep
<1>4. CASE enter(1) /\ UNCHANGED <<known, counts, systemAccount, cur, got, outcome>>
  <2>1. GatherTypes'
    BY <1>4, IdleFacts DEF GatherInv, GatherTypes, TakeAccounts
  <2>2. Smooth => known = Filtered /\ Tally(counts, world, known)
    <3> SUFFICES ASSUME Smooth PROVE known = Filtered /\ Tally(counts, world, known)
      OBVIOUS
    <3>1. known = Filtered
      BY <1>1 DEF GatherInv, DiscoveryInv
    <3>2. CASE req.on
      BY <1>1, <3>2 DEF GatherInv, DiscoveryInv, TakeAccounts
    <3>3. CASE ~ req.on
      <4>1. known = {} /\ counts = <<>>
        BY <1>1, <3>3 DEF GatherInv, Course, TakeAccounts
      <4>2. DOMAIN counts = {}
        BY <4>1
      <4> QED BY <3>1, <4>1, <4>2 DEF Tally
    <3> QED BY <3>1, <3>2, <3>3
  <2>3. CASE stage' = "metadata" /\ "streams" \notin conf.include
    <3>1. Course'
      <4>1. cur'.left = <<>>
        BY <1>1, <1>4, Empty
      <4> QED BY <1>1, <2>3, <4>1 DEF Course, Sections
    <3>2. DiscoveryInv'
      BY <1>0, <1>4, <2>2, <2>3, FilterStays DEF DiscoveryInv, TakeAccounts
    <3>3. StreamsInv' /\ EndInv'
      BY <2>3 DEF StreamsInv, EndInv, gathered, TakeAccounts
    <3> QED BY <1>2, <2>1, <3>1, <3>2, <3>3 DEF GatherInv
  <2>4. ASSUME NEW j \in 1..4, stage' = sections[j], todo' = subjects(sections[j]) PROVE GatherInv'
    BY <1>0, <1>1, <1>4, <2>1, <2>2, <2>4, IdleFacts, Empty, SectionEntered DEF TakeAccounts
  <2> QED BY <1>4, <2>3, <2>4, Enters
<1> QED BY <1>3, <1>4 DEF TakeAccounts

LEMMA NextSectionStep ==
  ASSUME GatherInv, Next, NextSection
  PROVE  GatherInv'
<1>0. Smooth' => Smooth
  BY SmoothBefore DEF GatherInv
<1>1. /\ stage \in Sections /\ closed = "" /\ closed' = "" /\ got = <<>> /\ cur.left = <<>> /\ todo = {}
      /\ req.on = FALSE /\ req.done = FALSE /\ req' = req /\ net' = net
  BY SectionsAre DEF GatherInv, GatherTypes, Course, NextSection, requestVars, Sections
<1>2. NetSound'
  BY <1>0, <1>1 DEF GatherInv, NetSound
<1>3. GatherTypes'
  BY <1>1 DEF GatherInv, GatherTypes, NextSection
<1>4. Smooth => known = Filtered /\ Tally(counts, world, known)
  BY <1>1 DEF GatherInv, DiscoveryInv, Late
<1>5. PICK i \in 1..4 : stage = sections[i] /\ enter(i + 1)
  BY SectionsAre DEF NextSection
<1>6. CASE stage' = "metadata" /\ ("streams" \in conf.include => i = 4)
  <2>1. Course'
    <3>1. cur'.left = <<>>
      BY <1>1 DEF NextSection
    <3> QED BY <1>1, <1>6, <3>1 DEF Course, Sections
  <2>2. DiscoveryInv'
    BY <1>0, <1>4, <1>6, FilterStays DEF DiscoveryInv, NextSection
  <2>3. StreamsInv'
    BY <1>6 DEF StreamsInv
  <2>4. EndInv'
    <3> SUFFICES ASSUME Smooth', gathered("streams")', NEW a \in (DOMAIN counts \ {systemAccount})'
                 PROVE  Through(a)'
      BY DEF EndInv
    <3>1. stage = "streams"
      BY <1>5, <1>6, SectionsAre DEF gathered, NextSection
    <3>2. Through(a)
      BY <1>0, <1>1, <3>1 DEF GatherInv, StreamsInv, NextSection
    <3> QED BY <3>2, FiledStays DEF GatherInv, NextSection, Files
  <2> QED BY <1>2, <1>3, <2>1, <2>2, <2>3, <2>4 DEF GatherInv
<1>7. ASSUME NEW j \in 1..4, stage' = sections[j], todo' = subjects(sections[j]) PROVE GatherInv'
  BY <1>0, <1>1, <1>3, <1>4, <1>7, SectionEntered DEF NextSection
<1>8. i + 1 \in 1..5 /\ (i + 1 = 5 => i = 4) /\ \A j \in i + 1..4 : j \in 1..4
  OBVIOUS
<1> QED BY <1>5, <1>6, <1>7, <1>8, Enters

-----------------------------------------------------------------------------
(* Between the requests.                                                   *)

LEMMA ChooseStep ==
  ASSUME GatherInv, Next, Choose
  PROVE  GatherInv'
<1>0. Smooth' => Smooth
  BY SmoothBefore DEF GatherInv
<1>1. /\ stage \in Sections /\ stage' = stage /\ closed = "" /\ closed' = "" /\ got = <<>> /\ cur.left = <<>>
      /\ req.on = FALSE /\ req.done = FALSE /\ req' = req /\ net' = net
  BY SectionsAre DEF GatherInv, GatherTypes, Course, Choose, requestVars, Sections
<1>2. NetSound'
  BY <1>0, <1>1 DEF GatherInv, NetSound
<1>3. GatherTypes'
  BY <1>1 DEF GatherInv, GatherTypes, Choose
<1>4. Course'
  BY <1>1 DEF Course, Choose, Sections
<1>5. DiscoveryInv'
  BY <1>0, <1>1, DiscoveryStays DEF Choose, Late, Sections
<1>6. EndInv'
  BY <1>1 DEF EndInv
<1>7. StreamsInv'
  <2> SUFFICES ASSUME Smooth', stage = "streams" PROVE StreamsInv'
    BY <1>1 DEF StreamsInv
  <2>1. PICK x \in todo : todo' = todo \ {x} /\ cur' = IF work = <<>> THEN Nobody
                                 ELSE [of |-> x, left |-> work, offset |-> 0]
    BY DEF Choose
  <2>2. work = <<"JSZ">>
    BY DEF work
  <2>3. cur'.of = x /\ cur'.left = <<"JSZ">> /\ cur'.left # <<>>
    BY <2>1, <2>2
  <2>4. ASSUME NEW a PROVE Asking(a)'
    <3>1. got' = <<>>
      BY <1>1 DEF Choose
    <3>2. ToSet(got') = {}
      BY <3>1 DEF ToSet
    <3> QED BY <1>1, <3>1, <3>2 DEF Asking, GotSound
  <2>5. \A a \in DOMAIN counts \ {systemAccount} : a \in todo \/ Through(a)
    BY <1>0, <1>1 DEF GatherInv, StreamsInv
  <2>6. \A a : Through(a) => Through(a)'
    BY FiledStays DEF GatherInv, Choose, Files
  <2>7. todo \subseteq DOMAIN counts
    BY <1>0, <1>1 DEF GatherInv, StreamsInv
  <2>8. \A a \in (DOMAIN counts \ {systemAccount})' :
               a \in todo' \/ (cur'.left # <<>> /\ cur'.of = a) \/ Through(a)'
    BY <2>1, <2>3, <2>5, <2>6 DEF Choose
  <2>9. todo' \subseteq DOMAIN counts' /\ cur'.of \in DOMAIN counts'
    BY <2>1, <2>3, <2>7 DEF Choose
  <2> QED BY <2>3, <2>4, <2>8, <2>9 DEF StreamsInv
<1> QED BY <1>2, <1>3, <1>4, <1>5, <1>6, <1>7 DEF GatherInv

LEMMA SkippedStep ==
  ASSUME GatherInv, Next, Skip
  PROVE  GatherInv'
<1>0. Smooth' => Smooth
  BY SmoothBefore DEF GatherInv
<1>1. /\ stage = "endpoints" /\ stage' = stage /\ closed = "" /\ closed' = "" /\ got = <<>> /\ got' = <<>>
      /\ req.on = FALSE /\ req.done = FALSE /\ req' = req /\ net' = net
  BY DEF GatherInv, GatherTypes, Course, Skip, skipped, requestVars
<1>2. NetSound'
  BY <1>0, <1>1 DEF GatherInv, NetSound
<1>3. GatherTypes'
  BY <1>1 DEF GatherInv, GatherTypes, Skip
<1>4. Course'
  BY <1>1 DEF Course, Skip, Sections
<1>5. DiscoveryInv'
  BY <1>0, <1>1, DiscoveryStays DEF Skip, Late, Sections
<1>6. EndInv' /\ StreamsInv'
  BY <1>1 DEF EndInv, StreamsInv, Sections
<1> QED BY <1>2, <1>3, <1>4, <1>5, <1>6 DEF GatherInv

\* What is in hand does not depend on the request.
LEMMA HandStays ==
  ASSUME UNCHANGED <<world, known, captured, got>>
  PROVE  /\ Hosts' = Hosts
         /\ \A a : GotSound(a) => GotSound(a)'
         /\ \A S, a : AllInHand(S, a) => AllInHand(S, a)'
         /\ \A a : Through(a) => Through(a)'
<1>1. Hosts' = Hosts
  BY DEF Hosts, inFilter, infoOf
<1>2. ASSUME NEW a, GotSound(a) PROVE GotSound(a)'
  BY <1>1, <1>2 DEF GotSound, Reply, accountsOf, infoOf, streamsOf
<1>3. ASSUME NEW s, NEW a PROVE shadowed(s, a) <=> shadowed(s, a)'
  BY DEF shadowed, accountsOf, infoOf
<1>4. ASSUME NEW a PROVE countMisleads(a) <=> countMisleads(a)'
  BY DEF countMisleads, inFilter, accountsOf, infoOf
<1>5. ASSUME NEW s, NEW a, NEW t PROVE hasReplica(s, a, t) <=> hasReplica(s, a, t)'
  BY DEF hasReplica, infoOf
<1>6. ASSUME NEW s, NEW a, InHand(s, a) PROVE InHand(s, a)'
  BY <1>3, <1>5, <1>6 DEF InHand, streamsOf
<1>7. ASSUME NEW S, NEW a, AllInHand(S, a) PROVE AllInHand(S, a)'
  BY <1>4, <1>6, <1>7 DEF AllInHand
<1>8. ASSUME NEW a, Through(a) PROVE Through(a)'
  BY <1>1, <1>3, <1>4, <1>5, <1>8 DEF Through, Filed
<1> QED BY <1>1, <1>2, <1>7, <1>8

LEMMA TimePassesStep ==
  ASSUME GatherInv, Next, TimePasses
  PROVE  GatherInv'
<1>0. Smooth' => Smooth
  BY SmoothBefore DEF GatherInv
<1>1. req' = [req EXCEPT !.clock = req.clock + 1] \/ req' = [req EXCEPT !.ctxDone = TRUE]
  BY DEF TimePasses, Tick, Expire
<1>2. /\ req'.on = req.on /\ req'.done = req.done /\ req'.ctr = req.ctr /\ req'.waitFor = req.waitFor
      /\ req'.errs = req.errs /\ net' = net /\ req.done = FALSE
      /\ req' = [on |-> req'.on, waitFor |-> req'.waitFor, left |-> req'.left, ctr |-> req'.ctr,
                 clock |-> req'.clock, finisher |-> req'.finisher, ctxDone |-> req'.ctxDone,
                 errs |-> req'.errs, done |-> req'.done, err |-> req'.err]
  BY <1>1 DEF GatherInv, GatherTypes, TimePasses, Tick, Expire
<1>3. GatherTypes'
  BY <1>2 DEF GatherInv, GatherTypes, TimePasses, gatherVars
<1>4. Course'
  BY <1>2 DEF GatherInv, Course, TimePasses, gatherVars
<1>5. NetSound'
  BY <1>0, <1>2 DEF GatherInv, NetSound
<1>6. DiscoveryInv'
  BY <1>0, <1>2, FilterStays DEF GatherInv, DiscoveryInv, TimePasses, gatherVars, Late, Waiting
<1>7. StreamsInv'
  <2> SUFFICES ASSUME Smooth', stage' = "streams" PROVE StreamsInv'
    BY DEF StreamsInv
  <2>1. Smooth /\ stage = "streams"
    BY <1>0 DEF TimePasses, gatherVars
  <2>2. ASSUME NEW a \in {cur'.of} PROVE Asking(a)'
    <3>1. Asking(a)
      BY <2>1 DEF GatherInv, StreamsInv, TimePasses, gatherVars
    <3>2. PICK S : S = Hosts \ Waiting
      OBVIOUS
    <3>3. PICK H : H = Hosts
      OBVIOUS
    <3>4. Hosts' = H /\ (Hosts \ Waiting)' = S
      BY <1>2, <3>2, <3>3, HandStays DEF TimePasses, gatherVars, Waiting
    <3>5. GotSound(a)'
      BY <3>1, HandStays DEF Asking, TimePasses, gatherVars
    <3>6. AllInHand(S, a) => AllInHand(S, a)'
      BY HandStays DEF TimePasses, gatherVars
    <3>7. AllInHand(H, a) => AllInHand(H, a)'
      BY HandStays DEF TimePasses, gatherVars
    <3>8. req'.on /\ ~ req'.done =>
           /\ req'.waitFor = counts'[a] /\ req'.ctr = Cardinality(S)
           /\ Waiting' \subseteq H
           /\ \A m \in net' : m = Answer(m.from, a)'
           /\ \A g \in ToSet(got') : g.from \notin Waiting'
           /\ AllInHand(S, a)'
      <4>1. \A s : Answer(s, a)' = Answer(s, a)
        BY DEF Answer, details, accountsOf, infoOf, TimePasses, gatherVars
      <4> QED BY <1>2, <3>1, <3>2, <3>3, <3>6, <4>1 DEF Asking, Waiting, TimePasses, gatherVars
    <3>9. req'.done \/ (~ req'.on /\ got' # <<>>) => AllInHand(H, a)'
      BY <1>2, <3>1, <3>3, <3>7 DEF Asking, TimePasses, gatherVars
    <3> QED BY <3>4, <3>5, <3>8, <3>9 DEF Asking, AllInHand
  <2>3. \A a : Through(a) => Through(a)'
    BY HandStays DEF TimePasses, gatherVars
  <2> QED BY <2>1, <2>2, <2>3 DEF GatherInv, StreamsInv, TimePasses, gatherVars
<1>8. EndInv'
  BY <1>0, HandStays DEF GatherInv, EndInv, TimePasses, gatherVars, Late, gathered
<1> QED BY <1>3, <1>4, <1>5, <1>6, <1>7, <1>8 DEF GatherInv

-----------------------------------------------------------------------------
(* Requests: sent, returned and taken.                                     *)

LEMMA WorldFacts ==
  ASSUME GatherTypes
  PROVE  /\ IsFiniteSet(world.servers) /\ world.jetstream \subseteq world.servers
         /\ IsFiniteSet(Filtered) /\ IsFiniteSet(Hosts)
<1>1. IsFiniteSet(world.servers) /\ world.jetstream \subseteq world.servers
  BY WorldAssumption DEF GatherTypes
<1>2. Filtered \subseteq world.servers /\ Hosts \subseteq world.servers
  BY <1>1 DEF Filtered, Hosts
<1> QED BY <1>1, <1>2, FS_Subset

\* If as many have answered as there are, nobody is left.
LEMMA NobodyLeft ==
  ASSUME NEW S, NEW W, IsFiniteSet(S)
  PROVE  /\ Cardinality(S) \in Nat /\ Cardinality(S \ W) \in Nat
         /\ Cardinality(S \ W) >= Cardinality(S) => S \ W = S
<1>1. /\ IsFiniteSet(S \ W) /\ Cardinality(S \ W) <= Cardinality(S)
      /\ Cardinality(S) = Cardinality(S \ W) => S = S \ W
  BY FS_Subset
<1>2. Cardinality(S) \in Nat /\ Cardinality(S \ W) \in Nat
  BY <1>1, FS_CardinalityType
<1>3. Cardinality(S \ W) >= Cardinality(S) => Cardinality(S \ W) = Cardinality(S)
  BY <1>1, <1>2
<1> QED BY <1>1, <1>2, <1>3

LEMMA SendRequestStep ==
  ASSUME GatherInv, Next, SendRequest
  PROVE  GatherInv'
<1>0. Smooth' => Smooth
  BY SmoothBefore DEF GatherInv
<1>1. /\ ~ req.on /\ req'.on = TRUE /\ req'.done = FALSE /\ req'.ctr = 0 /\ req'.errs = ""
      /\ req'.waitFor = waitFor
      /\ req' = [on |-> req'.on, waitFor |-> req'.waitFor, left |-> req'.left, ctr |-> req'.ctr,
                 clock |-> req'.clock, finisher |-> req'.finisher, ctxDone |-> req'.ctxDone,
                 errs |-> req'.errs, done |-> req'.done, err |-> req'.err]
  <2>1. ~ req.on /\ req' = [Idle EXCEPT !.on = TRUE, !.waitFor = waitFor,
                           !.left = AutoUnsubscribe(waitFor), !.finisher = Timeout]
    BY DEF SendRequest, Request, Ask
  <2> QED BY <2>1 DEF Idle
<1>2. faults' \in Nat
  BY DEF GatherInv, GatherTypes, SendRequest, Request
<1>3. GatherTypes'
  <2>1. /\ world' \in Worlds /\ expired' \in BOOLEAN /\ counts' \in [DOMAIN counts' -> Nat]
        /\ captured' \in Seq(ToSet(captured')) /\ got' \in Seq(ToSet(got'))
    BY DEF GatherInv, GatherTypes, SendRequest
  <2>2. req'.on \in BOOLEAN /\ req'.done \in BOOLEAN /\ req'.ctr \in Nat
    <3>1. req'.on = TRUE /\ req'.done = FALSE /\ req'.ctr = 0
      BY <1>1, Zenon
    <3>2. 0 \in Nat
      OBVIOUS
    <3> QED BY <3>1, <3>2, Zenon
  <2> QED BY <1>1, <1>2, <2>1, <2>2, Zenon DEF GatherTypes
<1>4. Course'
  <2>1. stage \in {"live", "servers", "discover"} \cup Sections
    BY DEF GatherInv, Course, SendRequest
  <2>2. UNCHANGED <<stage, cur, got, counts, closed>> /\ (stage \in Sections => cur.left # <<>>)
    BY DEF SendRequest, Sections
  <2> QED BY <1>1, <2>1, <2>2 DEF GatherInv, Course, Sections
<1>5. Smooth' => net' = {response(s, "ok") : s \in responders}
  BY DEF GatherInv, GatherTypes, SendRequest, Request, Ask, Smooth
<1>6. \A s : response(s, "ok") = [from |-> s, kind |-> "ok", copy |-> 1, server |-> infoOf(s),
                                  hasData |-> TRUE, items |-> answer(s)]
  BY DEF response
<1>7. Smooth' => Waiting' = responders /\ \A m \in net' : m = response(m.from, "ok") /\ m.kind = "ok"
  BY <1>5, <1>6 DEF Waiting
<1>8. NetSound'
  BY <1>1, <1>7 DEF NetSound
<1>9. stage' = stage /\ (Late' => Late)
  BY DEF SendRequest, Late
<1>10. Smooth' /\ Late' => known' = Filtered' /\ Tally(counts', world', known')
  BY <1>0, <1>9, FilterStays DEF GatherInv, DiscoveryInv, SendRequest
<1>11. DiscoveryInv'
  <2>1. ASSUME Smooth', stage = "discover"
        PROVE  /\ known' = Filtered' /\ req'.waitFor = Cardinality(known') /\ known' # {}
               /\ Waiting' \subseteq known' /\ req'.ctr = Cardinality(known' \ Waiting')
               /\ Tally(counts', world', known' \ Waiting')
    <3>1. known = Filtered /\ known # {} /\ counts = <<>>
      BY <1>0, <1>1, <2>1 DEF GatherInv, DiscoveryInv, Course, SendRequest
    <3>2. responders = Filtered /\ waitFor = Cardinality(known)
      <4>1. stage = "discover" /\ stage # "live" /\ stage # "servers"
        BY <2>1
      <4>2. responders = {s \in world.servers : inFilter(s)}
        BY <4>1 DEF responders, asksPerServer
      <4>3. waitFor = Cardinality(known)
        BY <4>1 DEF waitFor, asksPerServer
      <4> QED BY <4>2, <4>3 DEF Filtered
    <3>3. Waiting' = known
      BY <1>7, <2>1, <3>1, <3>2
    <3>4. known \ known = {}
      OBVIOUS
    <3>5. Cardinality({}) = 0
      BY FS_EmptySet
    <3>6. Tally(<<>>, world, {})
      <4>1. DOMAIN <<>> = {}
        OBVIOUS
      <4> QED BY <4>1 DEF Tally
    <3> QED BY <1>1, <3>1, <3>2, <3>3, <3>4, <3>5, <3>6, FilterStays DEF SendRequest
  <2> QED BY <1>1, <1>9, <1>10, <2>1 DEF DiscoveryInv
<1>12. StreamsInv'
  <2> SUFFICES ASSUME Smooth', stage = "streams" PROVE StreamsInv'
    BY <1>9 DEF StreamsInv
  <2>1. got = <<>> /\ cur.left # <<>>
    BY DEF SendRequest
  <2>2. ToSet(got') = {} /\ got' = <<>>
    <3>1. got' = <<>>
      BY <2>1 DEF SendRequest
    <3> QED BY <3>1 DEF ToSet
  <2>3. responders = Hosts /\ waitFor = counts[cur.of]
    BY DEF responders, waitFor, Hosts, asksPerServer
  <2>4. ASSUME NEW a \in {cur'.of} PROVE Asking(a)'
    <3>1. a = cur.of
      BY DEF SendRequest
    <3>2. PICK H : H = Hosts
      OBVIOUS
    <3>3. Hosts' = H /\ Waiting' = H
      BY <1>7, <2>3, <3>2, HandStays DEF SendRequest
    <3>4. H \ H = {} /\ Cardinality({}) = 0
      BY FS_EmptySet
    <3>5. ASSUME NEW m \in net' PROVE m = Answer(m.from, a)'
      <4>1. m = response(m.from, "ok")
        BY <1>7
      <4>2. answer(m.from) = IF a \in accountsOf(m.from) THEN details(m.from, <<a>>) ELSE <<>>
        BY <3>1 DEF answer
      <4>3. m = Answer(m.from, a)
        BY <1>6, <4>1, <4>2 DEF Answer
      <4>4. Answer(m.from, a)' = Answer(m.from, a)
        BY DEF Answer, details, accountsOf, infoOf, SendRequest
      <4> QED BY <4>3, <4>4
    <3>6. counts'[a] = req'.waitFor
      BY <1>1, <2>3, <3>1 DEF SendRequest
    <3>7. AllInHand({}, a)'
      BY DEF AllInHand
    <3>8. GotSound(a)'
      BY <2>2 DEF GotSound
    <3>9. PICK E : E = {}
      OBVIOUS
    <3>10. (Hosts \ Waiting)' = {}
      BY <3>3
    <3>11. AllInHand(Hosts \ Waiting, a)'
      BY <3>10 DEF AllInHand
    <3> QED BY <1>1, <2>2, <3>3, <3>4, <3>5, <3>6, <3>8, <3>11 DEF Asking
  <2>5. \A a : Through(a) => Through(a)'
    BY HandStays DEF SendRequest
  <2> QED BY <1>0, <1>9, <2>4, <2>5 DEF GatherInv, StreamsInv, SendRequest
<1>13. EndInv'
  <2>1. stage \in {"live", "servers", "discover"} \cup Sections
    BY DEF GatherInv, Course, SendRequest
  <2>2. closed = ""
    BY <2>1 DEF GatherInv, Course, Sections
  <2> QED BY <1>9, <2>1, <2>2 DEF EndInv, Late, Sections, SendRequest
<1> QED BY <1>3, <1>4, <1>8, <1>11, <1>12, <1>13 DEF GatherInv

LEMMA ReturnsStep ==
  ASSUME GatherInv, Next, Returns
  PROVE  GatherInv'
<1>0. Smooth' => Smooth
  BY SmoothBefore DEF GatherInv
<1>1. /\ req.on /\ req.done = FALSE /\ req'.on = req.on /\ req'.done = TRUE /\ req'.ctr = req.ctr
      /\ req'.waitFor = req.waitFor /\ req'.errs = req.errs /\ net' = net
      /\ req' = [on |-> req'.on, waitFor |-> req'.waitFor, left |-> req'.left, ctr |-> req'.ctr,
                 clock |-> req'.clock, finisher |-> req'.finisher, ctxDone |-> req'.ctxDone,
                 errs |-> req'.errs, done |-> req'.done, err |-> req'.err]
  <2>1. req.on /\ req.done = FALSE /\ net' = net
    BY DEF GatherInv, GatherTypes, Returns, Return
  <2>2. req' = [req EXCEPT !.done = TRUE, !.err = req.errs] \/ req' = [req EXCEPT !.done = TRUE]
    BY DEF Returns, Return
  <2> QED BY <2>1, <2>2 DEF GatherInv, GatherTypes
<1>2. expired' \in BOOLEAN
  BY DEF Returns
<1>3. GatherTypes'
  BY <1>1, <1>2 DEF GatherInv, GatherTypes, Returns
<1>4. Course'
  BY <1>1 DEF GatherInv, Course, Returns
<1>5. NetSound'
  BY <1>0, <1>1 DEF GatherInv, NetSound
<1>6. stage' = stage /\ (Late' => Late)
  BY DEF Returns, Late
<1>7. Smooth' => /\ req.waitFor > 0 => ~(req.ctr < req.waitFor)
                 /\ stage = "servers" => known = Filtered
  BY <1>0 DEF GatherInv, NetSound, Returns, Smooth, Filtered
<1>8. DiscoveryInv'
  <2> SUFFICES ASSUME Smooth' PROVE DiscoveryInv'
    BY DEF DiscoveryInv
  <2>1. Late' => known' = Filtered' /\ Tally(counts', world', known')
    BY <1>0, <1>6, FilterStays DEF GatherInv, DiscoveryInv, Returns
  <2>2. stage = "servers" => known' = Filtered'
    BY <1>7, FilterStays DEF Returns
  <2>3. ASSUME stage = "discover" PROVE known' = Filtered' /\ Tally(counts', world', known')
    <3>1. /\ known = Filtered /\ req.waitFor = Cardinality(known) /\ known # {}
          /\ Waiting \subseteq known /\ req.ctr = Cardinality(known \ Waiting)
          /\ Tally(counts, world, known \ Waiting)
      BY <1>0, <1>1, <2>3 DEF GatherInv, DiscoveryInv
    <3>2. IsFiniteSet(known)
      BY <3>1, WorldFacts DEF GatherInv
    <3>3. Cardinality(known) \in Nat /\ Cardinality(known) # 0
      BY <3>1, <3>2, FS_CardinalityType, FS_EmptySet
    <3>4. Cardinality(known \ Waiting) >= Cardinality(known)
      BY <1>7, <3>1, <3>2, <3>3, NobodyLeft
    <3>5. known \ Waiting = known
      BY <3>2, <3>4, NobodyLeft
    <3>6. Tally(counts, world, known)
      BY <3>1, <3>5
    <3> QED BY <3>1, <3>6, FilterStays DEF Returns
  <2> QED BY <1>1, <1>6, <2>1, <2>2, <2>3 DEF DiscoveryInv
<1>9. StreamsInv'
  <2> SUFFICES ASSUME Smooth', stage = "streams" PROVE StreamsInv'
    BY <1>6 DEF StreamsInv
  <2>1. Smooth /\ stage \in Sections /\ cur.left # <<>> /\ Late
    BY <1>0, <1>1 DEF GatherInv, Course, Late, Sections
  <2>2. ASSUME NEW a \in {cur'.of} PROVE Asking(a)'
    <3>1. Asking(a) /\ a = cur.of
      BY <2>1 DEF GatherInv, StreamsInv, Returns
    <3>2. AllInHand(Hosts, a)
      <4>1. CASE countMisleads(a)
        BY <4>1 DEF AllInHand
      <4>2. CASE ~ countMisleads(a)
        <5>1. req.waitFor = counts[a] /\ req.ctr = Cardinality(Hosts \ Waiting)
              /\ AllInHand(Hosts \ Waiting, a)
          BY <1>1, <3>1 DEF Asking
        <5>2. \A u \in Hosts : u \in known /\ a \in accountsOf(u)
          BY <4>2 DEF countMisleads, Hosts
        <5>3. Hosts \subseteq Having(world, a, known)
          BY <5>2 DEF Having, accountsOf
        <5>4. counts[a] = Cardinality(Having(world, a, known))
          BY <2>1, <3>1 DEF GatherInv, DiscoveryInv, StreamsInv, Tally
        <5>5. IsFiniteSet(Having(world, a, known))
          <6>1. known = Filtered
            BY <2>1 DEF GatherInv, DiscoveryInv
          <6>2. Having(world, a, known) \subseteq known
            BY DEF Having
          <6> QED BY <6>1, <6>2, WorldFacts, FS_Subset DEF GatherInv
        <5>6. IsFiniteSet(Hosts) /\ Cardinality(Hosts) <= counts[a]
              /\ Cardinality(Hosts) \in Nat /\ counts[a] \in Nat /\ Cardinality(Hosts \ Waiting) \in Nat
          <6>1. IsFiniteSet(Hosts) /\ Cardinality(Hosts) <= counts[a]
            BY <5>3, <5>4, <5>5, FS_Subset
          <6> QED BY <5>4, <5>5, <6>1, FS_CardinalityType, NobodyLeft
        <5>7. Cardinality(Hosts \ Waiting) >= Cardinality(Hosts)
          BY <1>7, <5>1, <5>6
        <5>8. Hosts \ Waiting = Hosts
          BY <5>6, <5>7, NobodyLeft
        <5> QED BY <5>1, <5>8
      <4> QED BY <4>1, <4>2
    <3>3. PICK H : H = Hosts
      OBVIOUS
    <3>4. Hosts' = H /\ AllInHand(H, a)'
      BY <3>2, <3>3, HandStays DEF Returns
    <3>5. AllInHand(Hosts, a)'
      BY <3>4 DEF AllInHand
    <3>6. GotSound(a)'
      BY <3>1, HandStays DEF Asking, Returns
    <3> QED BY <1>1, <3>5, <3>6 DEF Asking
  <2>3. \A a : Through(a) => Through(a)'
    BY HandStays DEF Returns
  <2> QED BY <1>6, <2>1, <2>2, <2>3 DEF GatherInv, StreamsInv, Returns
<1>10. EndInv'
  <2>1. stage \in {"live", "servers", "discover"} \cup Sections
    BY <1>1 DEF GatherInv, Course
  <2>2. closed = ""
    BY <2>1 DEF GatherInv, Course, Sections
  <2> QED BY <1>6, <2>1, <2>2 DEF EndInv, Late, Sections, Returns
<1> QED BY <1>3, <1>4, <1>5, <1>8, <1>9, <1>10 DEF GatherInv

LEMMA TakeAnswersStep ==
  ASSUME GatherInv, Next, TakeAnswers
  PROVE  GatherInv'
<1>0. Smooth' => Smooth
  BY SmoothBefore DEF GatherInv
<1>1. /\ stage \in Sections /\ closed = "" /\ closed' = "" /\ req'.on = FALSE /\ req'.done = FALSE
      /\ req.on /\ req.done /\ cur.left # <<>>
  BY IdleFacts DEF GatherInv, Course, TakeAnswers, asksPerServer, asksPerAccount, Sections
<1>2. NetSound'
  BY IdleFacts DEF NetSound, TakeAnswers
<1>3. CASE Fail
  <2>1. GatherTypes'
    BY <1>3, IdleFacts, Empty DEF GatherInv, GatherTypes, TakeAnswers, Fail
  <2> QED BY <1>1, <1>2, <1>3, <2>1, FailStep
<1>4. CASE /\ stage = "streams" => req.err = ""
           /\ got' = IF unusable THEN <<>> ELSE got
           /\ cur' = IF unusable \/ got = <<>> THEN advance ELSE cur
           /\ UNCHANGED <<stage, known, counts, systemAccount, todo, outcome>>
  <2>1. got' \in Seq(ToSet(got'))
    BY <1>4, Empty DEF GatherInv, GatherTypes
  <2>2. GatherTypes'
    BY <1>4, <2>1, IdleFacts DEF GatherInv, GatherTypes, TakeAnswers
  <2>3. cur'.left = <<>> => got' = <<>>
    BY <1>1, <1>4
  <2>4. Course'
    BY <1>1, <1>4, <2>3 DEF Course, Sections
  <2>5. Late /\ (Late' => Late)
    BY <1>1, <1>4 DEF Late
  <2>6. DiscoveryInv'
    BY <1>0, <1>1, <1>4, <2>5, DiscoveryStays DEF TakeAnswers, Sections
  <2>7. EndInv'
    BY <1>1, <1>4 DEF EndInv
  <2>8. StreamsInv'
    <3> SUFFICES ASSUME Smooth', stage = "streams" PROVE StreamsInv'
      BY <1>4 DEF StreamsInv
    <3>1. ~ unusable
      BY <1>4 DEF unusable, asksPerServer
    <3>2. got' = got /\ cur' = IF got = <<>> THEN advance ELSE cur
      BY <1>4, <3>1
    <3>3. Files
      BY DEF Files, TakeAnswers
    <3>4. \A a : Through(a) => Through(a)'
      BY <1>4, <3>2, HandStays DEF TakeAnswers
    <3>5. /\ cur.of \in DOMAIN counts /\ cur.left = <<"JSZ">> /\ todo \subseteq DOMAIN counts
          /\ \A a \in {cur.of} : Asking(a)
          /\ \A a \in DOMAIN counts \ {systemAccount} : a \in todo \/ cur.of = a \/ Through(a)
      BY <1>0, <1>1 DEF GatherInv, StreamsInv
    <3>6. CASE got = <<>>
      <4>1. cur' = Nobody
        BY <3>2, <3>5, <3>6 DEF advance
      <4>2. ToSet(got') = {} /\ got' = <<>>
        BY <3>2, <3>6 DEF ToSet
      <4>3. ASSUME NEW a PROVE Asking(a)'
        BY <1>1, <4>2 DEF Asking, GotSound
      <4>4. ASSUME NEW a \in {cur.of} PROVE Through(a)
        <5>1. AllInHand(Hosts, a)
          BY <1>1, <3>5 DEF Asking
        <5>2. ToSet(got) = {}
          BY <3>6 DEF ToSet
        <5> QED BY <5>1, <5>2 DEF AllInHand, InHand, Through, Filed
      <4>5. \A a \in DOMAIN counts \ {systemAccount} : a \in todo \/ Through(a)
        BY <3>5, <4>4
      <4>6. UNCHANGED <<counts, systemAccount, todo>> /\ cur'.left = <<>>
        BY <1>4, <4>1, Empty
      <4> QED BY <3>4, <3>5, <4>3, <4>5, <4>6 DEF StreamsInv
    <3>7. CASE got # <<>>
      <4>1. cur' = cur
        BY <3>2, <3>7
      <4>2. ASSUME NEW a \in {cur'.of} PROVE Asking(a)'
        <5>1. Asking(a)
          BY <3>5, <4>1
        <5>2. PICK H : H = Hosts
          OBVIOUS
        <5>3. Hosts' = H /\ AllInHand(H, a)' /\ GotSound(a)'
          BY <1>1, <1>4, <3>2, <5>1, <5>2, HandStays DEF Asking, TakeAnswers
        <5>4. AllInHand(Hosts, a)'
          BY <5>3 DEF AllInHand
        <5> QED BY <1>1, <5>3, <5>4 DEF Asking
      <4>3. UNCHANGED <<counts, systemAccount, todo>>
        BY <1>4
      <4>4. \A a \in (DOMAIN counts \ {systemAccount})' :
                   a \in todo' \/ (cur'.left # <<>> /\ cur'.of = a) \/ Through(a)'
        BY <1>1, <3>4, <3>5, <4>1, <4>3
      <4>5. todo' \subseteq DOMAIN counts' /\ cur'.of \in DOMAIN counts' /\ cur'.left = <<"JSZ">>
        BY <3>5, <4>1, <4>3
      <4> QED BY <4>2, <4>4, <4>5, Zenon DEF StreamsInv
    <3> QED BY <3>6, <3>7
  <2> QED BY <1>2, <2>2, <2>4, <2>6, <2>7, <2>8 DEF GatherInv
<1> QED BY <1>3, <1>4 DEF TakeAnswers

-----------------------------------------------------------------------------
(* Requests: an answer is delivered.                                       *)

\* Of the set S all but W have answered, and now u does.
LEMMA OneMore ==
  ASSUME NEW S, IsFiniteSet(S), NEW W, W \subseteq S, NEW u \in W
  PROVE  /\ S \ (W \ {u}) = (S \ W) \cup {u} /\ u \notin S \ W /\ IsFiniteSet(S \ W)
         /\ Cardinality(S \ (W \ {u})) = Cardinality(S \ W) + 1
<1>1. S \ (W \ {u}) = (S \ W) \cup {u} /\ u \notin S \ W
  OBVIOUS
<1>2. IsFiniteSet(S \ W)
  BY FS_Subset
<1>3. Cardinality((S \ W) \cup {u}) = Cardinality(S \ W) + 1
  BY <1>1, <1>2, FS_AddElement
<1> QED BY <1>1, <1>2, <1>3

LEMMA LessWaiting ==
  ASSUME NEW m \in net, net' = net \ {m}, \A n \in net : n.from = m.from => n = m
  PROVE  Waiting' = Waiting \ {m.from}
BY DEF Waiting

\* The accounts N of a server u are counted.
Counting(c, N) == [a \in DOMAIN c \cup N |->
                      (IF a \in DOMAIN c THEN c[a] ELSE 0) + IF a \in N THEN 1 ELSE 0]

LEMMA CountsStay ==
  ASSUME NEW c, c \in [DOMAIN c -> Nat]
  PROVE  Counting(c, {}) = c
<1>1. PICK d : d = Counting(c, {})
  OBVIOUS
<1>2. d \in [DOMAIN c -> Nat] /\ \A a \in DOMAIN c : d[a] = c[a]
  BY <1>1 DEF Counting
<1> QED BY <1>1, <1>2

LEMMA CountsTyped ==
  ASSUME NEW c, NEW N, c \in [DOMAIN c -> Nat]
  PROVE  Counting(c, N) \in [DOMAIN Counting(c, N) -> Nat]
<1>1. \A a \in DOMAIN c \cup N : (IF a \in DOMAIN c THEN c[a] ELSE 0) + (IF a \in N THEN 1 ELSE 0) \in Nat
  OBVIOUS
<1> QED BY <1>1 DEF Counting

LEMMA TallyMore ==
  ASSUME NEW c, NEW w, NEW S, NEW u, c \in [DOMAIN c -> Nat], IsFiniteSet(S), u \notin S, Tally(c, w, S)
  PROVE  Tally(Counting(c, ToSet(w.accounts[u]) \cup {w.system}), w, S \cup {u})
<1>1. PICK N : N = ToSet(w.accounts[u]) \cup {w.system}
  OBVIOUS
<1>2. PICK d : d = Counting(c, N)
  OBVIOUS
<1>3. DOMAIN d = DOMAIN c \cup N
  BY <1>2 DEF Counting
<1>4. ASSUME NEW v \in S \cup {u} PROVE ToSet(w.accounts[v]) \cup {w.system} \subseteq DOMAIN d
  BY <1>1, <1>3 DEF Tally
<1>5. ASSUME NEW a \in DOMAIN d PROVE d[a] = Cardinality(Having(w, a, S \cup {u}))
  <2>1. PICK H : H = Having(w, a, S)
    OBVIOUS
  <2>2. H \subseteq S /\ u \notin H /\ IsFiniteSet(H) /\ Cardinality(H) \in Nat
    BY <2>1, FS_Subset, FS_CardinalityType DEF Having
  <2>3. Cardinality(H) = IF a \in DOMAIN c THEN c[a] ELSE 0
    <3>1. CASE a \in DOMAIN c
      BY <2>1, <3>1 DEF Tally
    <3>2. CASE a \notin DOMAIN c
      <4>1. H = {}
        BY <2>1, <3>2 DEF Tally, Having
      <4> QED BY <3>2, <4>1, FS_EmptySet
    <3> QED BY <3>1, <3>2
  <2>4. Having(w, a, S \cup {u}) = IF a \in N THEN H \cup {u} ELSE H
    BY <1>1, <2>1 DEF Having
  <2>5. d[a] = Cardinality(H) + IF a \in N THEN 1 ELSE 0
    BY <1>2, <1>3, <2>3 DEF Counting
  <2>6. Cardinality(H \cup {u}) = Cardinality(H) + 1
    BY <2>2, FS_AddElement
  <2> QED BY <2>2, <2>4, <2>5, <2>6
<1> QED BY <1>1, <1>2, <1>4, <1>5 DEF Tally

\* What every delivery does.
LEMMA Delivered ==
  ASSUME GatherInv, NEW m \in net, Delivers(m), Callback(m)
  PROVE  /\ req.on /\ req'.on = req.on /\ req'.done = req.done /\ req'.waitFor = req.waitFor
         /\ req'.ctr \in Nat /\ net' = net \ {m}
         /\ req' = [on |-> req'.on, waitFor |-> req'.waitFor, left |-> req'.left, ctr |-> req'.ctr,
                    clock |-> req'.clock, finisher |-> req'.finisher, ctxDone |-> req'.ctxDone,
                    errs |-> req'.errs, done |-> req'.done, err |-> req'.err]
         /\ m.kind = "ok" => req'.errs = req.errs
         /\ m.kind = "ok" /\ ~ req.done => req'.ctr = req.ctr + 1
         /\ got' \in Seq(ToSet(got')) /\ ToSet(got) \subseteq ToSet(got')
         /\ counts' = Counting(counts, IF CallsBack(m) THEN counted(m) ELSE {})
         /\ counts' \in [DOMAIN counts' -> Nat]
         /\ req.done => UNCHANGED <<got, known, counts>>
<1>1. /\ req = [on |-> req.on, waitFor |-> req.waitFor, left |-> req.left, ctr |-> req.ctr,
                clock |-> req.clock, finisher |-> req.finisher, ctxDone |-> req.ctxDone,
                errs |-> req.errs, done |-> req.done, err |-> req.err]
      /\ req.ctr \in Nat
  BY DEF GatherInv, GatherTypes
<1>2. req.on /\ net' = net \ {m} /\ req' = received(m)
  BY DEF Delivers
<1>3. PICK r : r = [req EXCEPT !.left = req.left - 1]
  OBVIOUS
<1>4. /\ r = [on |-> r.on, waitFor |-> r.waitFor, left |-> r.left, ctr |-> r.ctr,
              clock |-> r.clock, finisher |-> r.finisher, ctxDone |-> r.ctxDone,
              errs |-> r.errs, done |-> r.done, err |-> r.err]
      /\ r.on = req.on /\ r.done = req.done /\ r.waitFor = req.waitFor /\ r.ctr = req.ctr /\ r.errs = req.errs
  BY <1>1, <1>3
<1>5. /\ req'.on = req.on /\ req'.done = req.done /\ req'.waitFor = req.waitFor /\ req'.ctr \in Nat
      /\ req' = [on |-> req'.on, waitFor |-> req'.waitFor, left |-> req'.left, ctr |-> req'.ctr,
                 clock |-> req'.clock, finisher |-> req'.finisher, ctxDone |-> req'.ctxDone,
                 errs |-> req'.errs, done |-> req'.done, err |-> req'.err]
      /\ m.kind = "ok" => req'.errs = req.errs
      /\ m.kind = "ok" /\ ~ req.done => req'.ctr = req.ctr + 1
  <2>1. PICK f : f = req.clock + Quiet
    OBVIOUS
  <2>2. PICK t : t = [r EXCEPT !.finisher = f]
    OBVIOUS
  <2>3. PICK e : e = raise("snappy")
    OBVIOUS
  <2>4. PICK e2 : e2 = raise("503")
    OBVIOUS
  <2>5. PICK x : x = (r.ctxDone \/ (req.waitFor > 0 /\ req.ctr + 1 = req.waitFor))
    OBVIOUS
  <2>6. \/ req' = r /\ req.done
        \/ req' = [r EXCEPT !.errs = e] /\ m.kind = "snappy"
        \/ req' = [t EXCEPT !.errs = e2] /\ m.kind = "503"
        \/ req' = [t EXCEPT !.ctr = req.ctr + 1, !.ctxDone = x]
    <3>1. t.ctr = req.ctr /\ t.ctxDone = r.ctxDone
      BY <1>4, <2>2
    <3>2. CASE req.done
      BY <1>2, <1>3, <3>2 DEF received, Ignored
    <3>3. CASE ~ req.done /\ m.kind = "snappy"
      BY <1>2, <1>3, <2>3, <3>3 DEF received, Ignored
    <3>4. CASE ~ req.done /\ m.kind = "503"
      BY <1>2, <1>3, <2>1, <2>2, <2>4, <3>4 DEF received, Ignored
    <3>5. CASE ~ req.done /\ m.kind # "snappy" /\ m.kind # "503"
      BY <1>2, <1>3, <2>1, <2>2, <2>5, <3>1, <3>5 DEF received, Ignored
    <3> QED BY <3>2, <3>3, <3>4, <3>5
  <2>7. CASE req' = r /\ req.done
    BY <1>1, <1>4, <2>7
  <2>8. CASE req' = [r EXCEPT !.errs = e] /\ m.kind = "snappy"
    BY <1>1, <1>4, <2>8
  <2>9. CASE req' = [t EXCEPT !.errs = e2] /\ m.kind = "503"
    BY <1>1, <1>4, <2>2, <2>9
  <2>10. CASE req' = [t EXCEPT !.ctr = req.ctr + 1, !.ctxDone = x]
    <3>1. PICK n : n = req.ctr + 1
      OBVIOUS
    <3>2. n \in Nat
      BY <1>1, <3>1
    <3>3. /\ t = [on |-> t.on, waitFor |-> t.waitFor, left |-> t.left, ctr |-> t.ctr,
                  clock |-> t.clock, finisher |-> t.finisher, ctxDone |-> t.ctxDone,
                  errs |-> t.errs, done |-> t.done, err |-> t.err]
          /\ t.on = r.on /\ t.done = r.done /\ t.waitFor = r.waitFor /\ t.errs = r.errs
      BY <1>4, <2>2
    <3>4. req' = [t EXCEPT !.ctr = n, !.ctxDone = x]
      BY <2>10, <3>1
    <3>5. /\ req'.on = t.on /\ req'.done = t.done /\ req'.waitFor = t.waitFor /\ req'.errs = t.errs
          /\ req'.ctr = n
          /\ req' = [on |-> req'.on, waitFor |-> req'.waitFor, left |-> req'.left, ctr |-> req'.ctr,
                     clock |-> req'.clock, finisher |-> req'.finisher, ctxDone |-> req'.ctxDone,
                     errs |-> req'.errs, done |-> req'.done, err |-> req'.err]
      BY <3>3, <3>4
    <3> QED BY <1>4, <3>1, <3>2, <3>3, <3>5, Zenon
  <2> QED BY <2>6, <2>7, <2>8, <2>9, <2>10
<1>6. got' \in Seq(ToSet(got')) /\ ToSet(got) \subseteq ToSet(got')
  <2>1. CASE got' = got
    BY <2>1 DEF GatherInv, GatherTypes
  <2>2. CASE got' = Append(got, m)
    BY <2>2, Appended DEF GatherInv, GatherTypes
  <2> QED BY <2>1, <2>2 DEF Callback
<1>7. counts' = Counting(counts, IF CallsBack(m) THEN counted(m) ELSE {})
  BY DEF Callback, Counting, count
<1>8. counts' \in [DOMAIN counts' -> Nat]
  BY <1>7, CountsTyped DEF GatherInv, GatherTypes
<1>9. req.done => UNCHANGED <<got, known, counts>>
  BY <1>7, CountsStay DEF GatherInv, GatherTypes, Callback, CallsBack, Ignored
<1> QED BY <1>2, <1>5, <1>6, <1>7, <1>8, <1>9

LEMMA AnswerIs ==
  ASSUME NEW s, NEW a
  PROVE  /\ Answer(s, a).from = s /\ Answer(s, a).server = infoOf(s)
         /\ a \in accountsOf(s) =>
                /\ Answer(s, a) = Reply(s, a, world.streams[s][a])
                /\ streamsOf(Answer(s, a)) = world.streams[s][a]
         /\ a \notin accountsOf(s) => Len(Answer(s, a).items) # 1
<1>1. details(s, <<a>>) = <<[name |-> a, streams |-> world.streams[s][a]]>>
  <2>1. DOMAIN <<a>> = {1} /\ <<a>>[1] = a
    OBVIOUS
  <2>2. details(s, <<a>>) = [i \in {1} |-> [name |-> a, streams |-> world.streams[s][a]]]
    BY <2>1 DEF details
  <2> QED BY <2>2
<1>2. Answer(s, a).from = s /\ Answer(s, a).server = infoOf(s)
  BY DEF Answer
<1>3. CASE a \in accountsOf(s)
  <2>1. Answer(s, a) = Reply(s, a, world.streams[s][a])
    BY <1>1, <1>3 DEF Answer, Reply
  <2>2. Reply(s, a, world.streams[s][a]).items = <<[name |-> a, streams |-> world.streams[s][a]]>>
    BY DEF Reply
  <2>3. streamsOf(Answer(s, a)) = world.streams[s][a]
    BY <2>1, <2>2 DEF streamsOf
  <2> QED BY <1>2, <1>3, <2>1, <2>3
<1>4. CASE a \notin accountsOf(s)
  <2>1. Answer(s, a).items = <<>>
    BY <1>4 DEF Answer
  <2> QED BY <1>2, <1>4, <2>1
<1> QED BY <1>3, <1>4

\* An answer about the streams of an account is kept, hidden by one that was, or misleads.
LEMMA AnswerInHand ==
  ASSUME GatherInv, Smooth, stage = "streams", ~ req.done, req.on, NEW m \in net, m.kind = "ok",
         UNCHANGED <<world, known, captured>>, Callback(m), net' = net \ {m},
         NEW a, a = cur.of, Asking(a),
         NEW R, R = Hosts \ (Waiting \ {m.from})
  PROVE  /\ GotSound(a)'
         /\ \A g \in ToSet(got') : g.from \notin Waiting \ {m.from}
         /\ AllInHand(R, a)'
<1>1. /\ GotSound(a) /\ Waiting \subseteq Hosts /\ m = Answer(m.from, a) /\ m.from \in Waiting
      /\ \A g \in ToSet(got) : g.from \notin Waiting
      /\ AllInHand(Hosts \ Waiting, a)
  BY DEF Asking, Waiting
<1>2. Hosts' = Hosts
  BY DEF Hosts, inFilter, infoOf
<1>3. /\ \A s, b : shadowed(s, b) <=> shadowed(s, b)'
      /\ \A b : countMisleads(b) <=> countMisleads(b)'
      /\ \A s, b, t : hasReplica(s, b, t) <=> hasReplica(s, b, t)'
      /\ \A s : infoOf(s)' = infoOf(s) /\ accountsOf(s)' = accountsOf(s)
  <2>1. \A s : infoOf(s)' = infoOf(s) /\ accountsOf(s)' = accountsOf(s)
    BY DEF infoOf, accountsOf
  <2>2. \A s, b : shadowed(s, b) <=> shadowed(s, b)'
    BY DEF shadowed, accountsOf, infoOf
  <2>3. \A b : countMisleads(b) <=> countMisleads(b)'
    BY DEF countMisleads, inFilter, accountsOf, infoOf
  <2>4. \A s, b, t : hasReplica(s, b, t) <=> hasReplica(s, b, t)'
    BY DEF hasReplica, infoOf
  <2> QED BY <2>1, <2>2, <2>3, <2>4
<1>4. CallsBack(m) /\ (keeps(m) <=> /\ m.from \in known /\ Len(m.items) = 1
                                    /\ \A x \in ToSet(got) : m.server.name # x.server.name)
  BY DEF CallsBack, Ignored, keeps, asksPerServer, asksPerAccount, sameResponder
<1>5. CASE keeps(m)
  <2>1. got' = Append(got, m) /\ ToSet(got') = ToSet(got) \cup {m}
    BY <1>4, <1>5, Appended DEF Callback, GatherInv, GatherTypes
  <2>2. /\ m.from \in Hosts \cap known /\ a \in accountsOf(m.from)
        /\ m = Reply(m.from, a, streamsOf(m)) /\ streamsOf(m) = world.streams[m.from][a]
    BY <1>1, <1>4, <1>5, AnswerIs
  <2>3. streamsOf(m) \in Seq(ToSet(world.streams[m.from][a]))
    <3>1. m.from \in world.servers
      BY <2>2, WorldFacts DEF Hosts, GatherInv
    <3>2. \A s \in world.servers : \A b \in ToSet(world.accounts[s]) :
              world.streams[s][b] \in Seq(ToSet(world.streams[s][b]))
      BY WorldAssumption DEF GatherInv, GatherTypes
    <3> QED BY <2>2, <3>1, <3>2 DEF accountsOf
  <2>4. GotSound(a)'
    <3>1. ASSUME NEW g \in ToSet(got')
          PROVE  /\ g.from \in Hosts \cap known /\ a \in accountsOf(g.from)
                 /\ g = Reply(g.from, a, streamsOf(g))
                 /\ streamsOf(g) \in Seq(ToSet(world.streams[g.from][a]))
      BY <1>1, <2>1, <2>2, <2>3 DEF GotSound
    <3>2. \A s, l : Reply(s, a, l)' = Reply(s, a, l)
      BY DEF Reply, infoOf
    <3> QED BY <1>2, <1>3, <3>1, <3>2 DEF GotSound, streamsOf, Reply, infoOf
  <2>5. \A g \in ToSet(got') : g.from \notin Waiting \ {m.from}
    BY <1>1, <2>1
  <2>6. CASE countMisleads(a)
    BY <1>3, <2>4, <2>5, <2>6 DEF AllInHand
  <2>7. ASSUME ~ countMisleads(a), NEW s \in R PROVE InHand(s, a)'
    <3>1. CASE s = m.from
      <4>1. \A x \in ToSet(world'.streams[s][a]) :
                \E g \in ToSet(got') : g.from = s /\ x \in ToSet(streamsOf(g))
        BY <2>1, <2>2, <3>1
      <4> QED BY <4>1 DEF InHand, streamsOf
    <3>2. CASE s # m.from
      <4>1. InHand(s, a)
        BY <1>1, <2>7, <3>2 DEF AllInHand
      <4> QED BY <1>3, <2>1, <4>1 DEF InHand, streamsOf
    <3> QED BY <3>1, <3>2
  <2> QED BY <1>3, <2>4, <2>5, <2>6, <2>7 DEF AllInHand
<1>6. CASE ~ keeps(m)
  <2>1. got' = got
    BY <1>6 DEF Callback
  <2>2. GotSound(a)'
    BY <1>1, <2>1, HandStays
  <2>3. \A g \in ToSet(got') : g.from \notin Waiting \ {m.from}
    BY <1>1, <2>1
  <2>4. CASE countMisleads(a)
    BY <1>3, <2>2, <2>3, <2>4 DEF AllInHand
  <2>5. ASSUME ~ countMisleads(a), NEW s \in R PROVE InHand(s, a)'
    <3>1. CASE s = m.from
      <4>1. s \in Hosts /\ s \in known /\ a \in accountsOf(s)
        BY <1>1, <2>5, <3>1 DEF countMisleads, Hosts
      <4>2. Len(m.items) = 1
        <5>1. m = Reply(s, a, world.streams[s][a])
          BY <1>1, <3>1, <4>1, AnswerIs
        <5> QED BY <5>1 DEF Reply
      <4>3. PICK x \in ToSet(got) : m.server.name = x.server.name
        BY <1>4, <1>6, <3>1, <4>1, <4>2
      <4>4. x.from \notin Waiting /\ x.from \in known /\ a \in accountsOf(x.from) /\ x.server = infoOf(x.from)
        BY <1>1 DEF GotSound, Reply
      <4>5. m.server = infoOf(s)
        BY <1>1, <3>1, AnswerIs
      <4>6. shadowed(s, a)
        BY <1>1, <3>1, <4>3, <4>4, <4>5 DEF shadowed
      <4> QED BY <1>3, <4>6 DEF InHand
    <3>2. CASE s # m.from
      <4>1. InHand(s, a)
        BY <1>1, <2>5, <3>2 DEF AllInHand
      <4> QED BY <1>3, <2>1, <4>1 DEF InHand, streamsOf
    <3> QED BY <3>1, <3>2
  <2> QED BY <1>3, <2>2, <2>3, <2>4, <2>5 DEF AllInHand
<1> QED BY <1>5, <1>6

LEMMA ReceiveStep ==
  ASSUME GatherInv, Next, Receive
  PROVE  GatherInv'
<1>0. Smooth' => Smooth
  BY SmoothBefore DEF GatherInv
<1>1. PICK m \in net : Delivers(m) /\ Callback(m)
  BY DEF Receive
<1>2. UNCHANGED <<world, conf, stage, todo, cur, aw, outcome, captured, faults, expired, closed>>
  BY DEF Receive
<1>3. /\ req.on /\ req'.on = req.on /\ req'.done = req.done /\ req'.waitFor = req.waitFor
      /\ req'.ctr \in Nat /\ net' = net \ {m}
      /\ req' = [on |-> req'.on, waitFor |-> req'.waitFor, left |-> req'.left, ctr |-> req'.ctr,
                 clock |-> req'.clock, finisher |-> req'.finisher, ctxDone |-> req'.ctxDone,
                 errs |-> req'.errs, done |-> req'.done, err |-> req'.err]
      /\ m.kind = "ok" => req'.errs = req.errs
      /\ m.kind = "ok" /\ ~ req.done => req'.ctr = req.ctr + 1
      /\ got' \in Seq(ToSet(got')) /\ ToSet(got) \subseteq ToSet(got')
      /\ counts' = Counting(counts, IF CallsBack(m) THEN counted(m) ELSE {})
      /\ counts' \in [DOMAIN counts' -> Nat]
      /\ req.done => UNCHANGED <<got, known, counts>>
  BY <1>1, Delivered
<1>4. GatherTypes'
  <2>1. world' \in Worlds /\ expired' \in BOOLEAN /\ faults' \in Nat /\ captured' \in Seq(ToSet(captured'))
        /\ req'.on \in BOOLEAN /\ req'.done \in BOOLEAN
    BY <1>2, <1>3, Zenon DEF GatherInv, GatherTypes
  <2> QED BY <1>3, <2>1, Zenon DEF GatherTypes
<1>5. stage \in {"live", "servers", "discover"} \cup Sections
  BY <1>3 DEF GatherInv, Course
<1>6. stage # "discover" => counts' = counts
  BY <1>3, CountsStay DEF counted, GatherInv, GatherTypes
<1>7. stage # "servers" => known' = known
  BY <1>1 DEF Callback, discovers
<1>8. stage \in {"servers", "discover"} => got' = got
  BY <1>1 DEF Callback, keeps, asksPerServer, asksPerAccount
<1>9. Course'
  <2>1. stage \in Sections => cur.left # <<>>
    BY <1>3 DEF GatherInv, Course
  <2> QED BY <1>2, <1>3, <1>5, <1>6, <1>8, <2>1 DEF GatherInv, Course, Sections
<1>10. Smooth' => m.kind = "ok" /\ \A n \in net : n.from = m.from => n = m
  BY <1>0 DEF GatherInv, NetSound
<1>11. NetSound'
  BY <1>0, <1>3, <1>10 DEF GatherInv, NetSound
<1>12. Late' => Late
  BY <1>2 DEF Late
<1>13. Smooth' => Waiting' = Waiting \ {m.from} /\ m.from \in Waiting
  <2>1. m.from \in Waiting
    BY DEF Waiting
  <2> QED BY <1>3, <1>10, <2>1, LessWaiting
<1>14. EndInv'
  <2>1. stage \notin Sections => closed = ""
    BY <1>5 DEF GatherInv, Course, Sections
  <2> QED BY <1>2, <1>5, <2>1 DEF EndInv, Late, Sections
<1>15. DiscoveryInv'
  <2> SUFFICES ASSUME Smooth' PROVE DiscoveryInv'
    BY DEF DiscoveryInv
  <2>1. CASE req.done
    <3>1. UNCHANGED <<world, known, counts, stage>> /\ req'.done /\ req'.on /\ Smooth /\ Filtered' = Filtered
      BY <1>0, <1>2, <1>3, <2>1, FilterStays
    <3>2. /\ stage = "servers" \/ stage = "discover" \/ Late => known = Filtered
          /\ Late \/ stage = "discover" => Tally(counts, world, known)
      BY <1>3, <2>1, <3>1 DEF GatherInv, DiscoveryInv
    <3>3. /\ stage' = "servers" \/ stage' = "discover" \/ Late' => known' = Filtered'
          /\ Late' \/ stage' = "discover" => Tally(counts', world', known')
      BY <1>12, <3>1, <3>2
    <3> QED BY <3>1, <3>3 DEF DiscoveryInv
  <2>2. CASE ~ req.done /\ stage = "discover"
    <3>1. /\ known = Filtered /\ req.waitFor = Cardinality(known) /\ known # {}
          /\ Waiting \subseteq known /\ req.ctr = Cardinality(known \ Waiting)
          /\ Tally(counts, world, known \ Waiting)
      BY <1>0, <1>3, <2>2 DEF GatherInv, DiscoveryInv
    <3>2. IsFiniteSet(known)
      BY <3>1, WorldFacts DEF GatherInv
    <3>3. PICK u : u = m.from
      OBVIOUS
    <3>4. PICK S : S = known \ Waiting
      OBVIOUS
    <3>5. /\ known \ Waiting' = S \cup {u} /\ u \notin S /\ IsFiniteSet(S)
          /\ Cardinality(known \ Waiting') = Cardinality(S) + 1
      <4>1. PICK W : W = Waiting
        OBVIOUS
      <4>2. W \subseteq known /\ u \in W /\ Waiting' = W \ {u} /\ S = known \ W
        BY <1>13, <3>1, <3>3, <3>4, <4>1
      <4> QED BY <3>2, <4>2, OneMore
    <3>6. counts' = Counting(counts, ToSet(world.accounts[u]) \cup {world.system})
      <4>1. CallsBack(m)
        BY <1>10, <2>2 DEF CallsBack, Ignored
      <4>2. counted(m) = ToSet(world.accounts[u]) \cup {world.system}
        BY <1>10, <1>13, <2>2, <3>1, <3>3 DEF counted, accountsOf
      <4> QED BY <1>3, <4>1, <4>2
    <3>7. Tally(counts', world, known \ Waiting')
      <4>1. PICK c : c = counts
        OBVIOUS
      <4>2. PICK w : w = world
        OBVIOUS
      <4>3. c \in [DOMAIN c -> Nat]
        BY <4>1 DEF GatherInv, GatherTypes
      <4>4. Tally(c, w, S)
        BY <3>1, <3>4, <4>1, <4>2
      <4>5. Tally(Counting(c, ToSet(w.accounts[u]) \cup {w.system}), w, S \cup {u})
        BY <3>5, <4>3, <4>4, TallyMore
      <4> QED BY <3>5, <3>6, <4>1, <4>2, <4>5
    <3>8. /\ known' = known /\ world' = world /\ Filtered' = Filtered /\ stage' = "discover"
          /\ req'.done = req.done
      BY <1>2, <1>3, <1>7, <2>2, FilterStays
    <3>9. req'.ctr = Cardinality(known' \ Waiting')
      BY <1>3, <1>10, <2>2, <3>1, <3>4, <3>5, <3>8
    <3>10. Waiting' \subseteq known'
      BY <1>13, <3>1, <3>8
    <3>11. ~ Late'
      BY <3>8, <1>2, <2>2 DEF Late, Sections, GatherInv, Course
    <3>12. req'.waitFor = Cardinality(known')
      BY <1>3, <3>1, <3>8
    <3>13. Tally(counts', world', known' \ Waiting')
      BY <3>7, <3>8
    <3> QED BY <2>2, <3>1, <3>8, <3>9, <3>10, <3>11, <3>12, <3>13 DEF DiscoveryInv
  <2>3. CASE ~ req.done /\ stage # "discover"
    <3>1. Late' => Late /\ UNCHANGED <<world, known, counts>> /\ Filtered' = Filtered
      BY <1>2, <1>5, <1>6, <1>7, <1>12, <2>3, FilterStays DEF Late, Sections, GatherInv, Course
    <3>2. stage' # "discover" /\ ~ req'.done
      BY <1>2, <1>3, <2>3
    <3> QED BY <1>0, <3>1, <3>2 DEF GatherInv, DiscoveryInv
  <2> QED BY <2>1, <2>2, <2>3
<1>16. StreamsInv'
  <2> SUFFICES ASSUME Smooth', stage = "streams" PROVE StreamsInv'
    BY <1>2 DEF StreamsInv
  <2>1. UNCHANGED <<world, known, counts, captured, todo, cur, stage>>
        /\ m.kind = "ok" /\ cur.left # <<>> /\ Smooth
    BY <1>0, <1>2, <1>3, <1>6, <1>7, <1>10 DEF GatherInv, Course, Sections
  <2>2. systemAccount' = systemAccount
    BY <1>1 DEF Callback, counted
  <2>3. /\ todo \subseteq DOMAIN counts /\ cur.of \in DOMAIN counts /\ cur.left = <<"JSZ">>
        /\ \A a \in {cur.of} : Asking(a)
        /\ \A a \in DOMAIN counts \ {systemAccount} : a \in todo \/ cur.of = a \/ Through(a)
    BY <2>1 DEF GatherInv, StreamsInv
  <2>4. \A a : Through(a) => Through(a)'
    BY <2>1, FiledStays DEF GatherInv, Files
  <2>5. Hosts' = Hosts
    BY <2>1 DEF Hosts, inFilter, infoOf
  <2>6. ASSUME NEW a \in {cur'.of} PROVE Asking(a)'
    <3>1. Asking(a) /\ a = cur.of
      BY <2>1, <2>3
    <3>2. PICK H : H = Hosts
      OBVIOUS
    <3>3. CASE req.done
      <4>1. UNCHANGED <<world, known, captured, got>>
        BY <1>3, <2>1, <3>3
      <4>2. GotSound(a)' /\ AllInHand(H, a)'
        BY <3>1, <3>2, <3>3, <4>1, HandStays DEF Asking
      <4>3. AllInHand(Hosts, a)'
        BY <2>5, <3>2, <4>2 DEF AllInHand
      <4> QED BY <1>3, <3>3, <4>2, <4>3 DEF Asking
    <3>4. CASE ~ req.done
      <4>1. PICK R : R = Hosts \ (Waiting \ {m.from})
        OBVIOUS
      <4>2. /\ GotSound(a)' /\ AllInHand(R, a)'
            /\ \A g \in ToSet(got') : g.from \notin Waiting \ {m.from}
        BY <1>1, <1>3, <2>1, <3>1, <3>4, <4>1, AnswerInHand
      <4>3. (Hosts \ Waiting)' = R /\ Waiting' = Waiting \ {m.from}
        BY <1>13, <2>5, <4>1
      <4>4. AllInHand(Hosts \ Waiting, a)'
        BY <4>2, <4>3 DEF AllInHand
      <4>5. req'.ctr = Cardinality(Hosts' \ Waiting')
        <5>1. Waiting \subseteq Hosts /\ req.ctr = Cardinality(Hosts \ Waiting) /\ IsFiniteSet(Hosts)
          BY <1>3, <3>1, <3>4, WorldFacts DEF Asking, GatherInv
        <5>2. Cardinality(Hosts \ (Waiting \ {m.from})) = Cardinality(Hosts \ Waiting) + 1
          <6>1. PICK W : W = Waiting
            OBVIOUS
          <6>2. PICK u : u = m.from
            OBVIOUS
          <6>3. W \subseteq H /\ u \in W /\ IsFiniteSet(H)
            BY <1>13, <3>2, <5>1, <6>1, <6>2
          <6>4. Cardinality(H \ (W \ {u})) = Cardinality(H \ W) + 1
            BY <6>3, OneMore
          <6> QED BY <3>2, <6>1, <6>2, <6>4
        <5> QED BY <1>3, <2>1, <2>5, <3>4, <4>3, <5>1, <5>2
      <4>6. \A n \in net' : n = Answer(n.from, a)'
        <5>1. \A s : Answer(s, a)' = Answer(s, a)
          BY <2>1 DEF Answer, details, accountsOf, infoOf
        <5> QED BY <1>3, <3>1, <3>4, <5>1 DEF Asking
      <4>7. req'.waitFor = counts'[a] /\ Waiting' \subseteq Hosts'
        BY <1>3, <1>13, <2>1, <2>5, <3>1, <3>4 DEF Asking
      <4>8. \A g \in ToSet(got') : g.from \notin Waiting'
        BY <4>2, <4>3
      <4>9. req'.on /\ ~ req'.done
        BY <1>3, <3>4
      <4> QED BY <4>2, <4>4, <4>5, <4>6, <4>7, <4>8, <4>9 DEF Asking
    <3> QED BY <3>3, <3>4
  <2>7. todo' \subseteq DOMAIN counts' /\ cur'.of \in DOMAIN counts' /\ cur'.left = <<"JSZ">>
    BY <2>1, <2>3
  <2>8. \A a \in (DOMAIN counts \ {systemAccount})' :
               a \in todo' \/ (cur'.left # <<>> /\ cur'.of = a) \/ Through(a)'
    BY <2>1, <2>2, <2>3, <2>4
  <2> QED BY <2>6, <2>7, <2>8, Zenon DEF StreamsInv
<1> QED BY <1>4, <1>9, <1>11, <1>14, <1>15, <1>16 DEF GatherInv

-----------------------------------------------------------------------------
(* What was answered is filed.                                             *)

\* Of a sequence, one element left out.
LEMMA Removed ==
  ASSUME NEW S, NEW s \in Seq(S), NEW i \in DOMAIN s
  PROVE  /\ RemoveAt(s, i) \in Seq(ToSet(RemoveAt(s, i))) /\ ToSet(RemoveAt(s, i)) \subseteq ToSet(s)
         /\ \A x \in ToSet(s) : x # s[i] => x \in ToSet(RemoveAt(s, i))
<1>1. PICK n : n = Len(s)
  OBVIOUS
<1>2. n \in Nat /\ DOMAIN s = 1..n /\ i \in 1..n /\ s \in Seq(S)
  BY <1>1
<1>3. PICK d : d = RemoveAt(s, i)
  OBVIOUS
<1>4. PICK p : p = SubSeq(s, 1, i - 1)
  OBVIOUS
<1>5. PICK q : q = SubSeq(s, i + 1, n)
  OBVIOUS
<1>6. p \in Seq(S) /\ Len(p) = i - 1 /\ \A k \in 1..i - 1 : p[k] = s[k]
  BY <1>1, <1>2, <1>4
<1>7. q \in Seq(S) /\ Len(q) = n - i /\ \A k \in 1..n - i : q[k] = s[i + k]
  BY <1>1, <1>2, <1>5
<1>8. d = p \o q
  BY <1>1, <1>3, <1>4, <1>5 DEF RemoveAt
<1>9. /\ d \in Seq(S) /\ Len(d) = n - 1
      /\ \A k \in 1..i - 1 : d[k] = s[k]
      /\ \A k \in i..n - 1 : d[k] = s[k + 1]
  <2>1. d \in Seq(S) /\ Len(d) = (i - 1) + (n - i)
    <3>1. p \in Seq(S) /\ q \in Seq(S)
      BY <1>6, <1>7
    <3>2. d \in Seq(S) /\ Len(d) = Len(p) + Len(q)
      BY <1>8, <3>1
    <3> QED BY <1>6, <1>7, <3>2
  <2>2. ASSUME NEW k \in 1..i - 1 PROVE d[k] = s[k]
    BY <1>2, <1>6, <1>7, <1>8
  <2>3. ASSUME NEW k \in i..n - 1 PROVE d[k] = s[k + 1]
    <3>1. k - (i - 1) \in 1..n - i /\ i + (k - (i - 1)) = k + 1
      BY <1>2
    <3>2. d[k] = q[k - (i - 1)]
      BY <1>2, <1>6, <1>7, <1>8
    <3> QED BY <1>7, <3>1, <3>2
  <2> QED BY <1>2, <2>1, <2>2, <2>3
<1>10. DOMAIN d = 1..n - 1
  BY <1>2, <1>9
<1>11. d \in Seq(ToSet(d))
  <2>1. d \in [1..n - 1 -> ToSet(d)] /\ n - 1 \in Nat
    BY <1>2, <1>9, <1>10 DEF ToSet
  <2> QED BY <2>1
<1>12. ASSUME NEW k \in DOMAIN d PROVE d[k] \in ToSet(s)
  <2>1. k \in 1..i - 1 \/ k \in i..n - 1
    BY <1>2, <1>10
  <2>2. CASE k \in 1..i - 1
    BY <1>2, <1>9, <2>2 DEF ToSet
  <2>3. CASE k \in i..n - 1
    <3>1. k + 1 \in 1..n
      BY <1>2, <2>3
    <3> QED BY <1>2, <1>9, <2>3, <3>1 DEF ToSet
  <2> QED BY <2>1, <2>2, <2>3
<1>13. ASSUME NEW j \in DOMAIN s, s[j] # s[i] PROVE s[j] \in ToSet(d)
  <2>1. j \in 1..n /\ j # i
    BY <1>2, <1>13
  <2>2. CASE j < i
    <3>1. j \in 1..i - 1 /\ j \in 1..n - 1
      BY <1>2, <2>1, <2>2
    <3>2. d[j] = s[j]
      BY <1>9, <3>1
    <3> QED BY <1>10, <3>1, <3>2 DEF ToSet
  <2>3. CASE j > i
    <3>1. j - 1 \in i..n - 1 /\ j - 1 \in 1..n - 1 /\ (j - 1) + 1 = j
      BY <1>2, <2>1, <2>3
    <3>2. d[j - 1] = s[j]
      BY <1>9, <3>1
    <3> QED BY <1>10, <3>1, <3>2 DEF ToSet
  <2> QED BY <1>2, <2>1, <2>2, <2>3
<1>14. ToSet(d) \subseteq ToSet(s) /\ \A x \in ToSet(s) : x # s[i] => x \in ToSet(d)
  BY <1>12, <1>13 DEF ToSet
<1> QED BY <1>3, <1>11, <1>14

\* Of a sequence, one element put in the place of another.
LEMMA Replaced ==
  ASSUME NEW S, NEW s \in Seq(S), NEW i \in DOMAIN s, NEW z
  PROVE  /\ [s EXCEPT ![i] = z] \in Seq(ToSet([s EXCEPT ![i] = z]))
         /\ ToSet([s EXCEPT ![i] = z]) \subseteq ToSet(s) \cup {z} /\ z \in ToSet([s EXCEPT ![i] = z])
         /\ \A x \in ToSet(s) : x # s[i] => x \in ToSet([s EXCEPT ![i] = z])
<1>1. PICK n : n = Len(s)
  OBVIOUS
<1>2. n \in Nat /\ DOMAIN s = 1..n /\ i \in 1..n
  BY <1>1
<1>3. PICK d : d = [s EXCEPT ![i] = z]
  OBVIOUS
<1>4. DOMAIN d = 1..n /\ d[i] = z /\ \A k \in 1..n : k # i => d[k] = s[k]
  BY <1>2, <1>3
<1>5. d \in Seq(ToSet(d))
  <2>1. d \in [1..n -> ToSet(d)]
    BY <1>2, <1>3, <1>4 DEF ToSet
  <2> QED BY <1>2, <2>1
<1>6. ToSet(d) \subseteq ToSet(s) \cup {z} /\ z \in ToSet(d)
  BY <1>2, <1>4 DEF ToSet
<1>7. ASSUME NEW j \in 1..n, s[j] # s[i] PROVE s[j] \in ToSet(d)
  <2>1. d[j] = s[j]
    BY <1>4, <1>7
  <2> QED BY <1>4, <2>1 DEF ToSet
<1>8. \A x \in ToSet(s) : x # s[i] => x \in ToSet(d)
  BY <1>2, <1>7 DEF ToSet
<1> QED BY <1>3, <1>5, <1>6, <1>8

LEMMA LeftTyped ==
  ASSUME GatherTypes, NEW i \in DOMAIN got
  PROVE  leftAfter(i) \in Seq(ToSet(leftAfter(i)))
<1>1. CASE stage = "streams" /\ Len(streamsOf(got[i])) > 1
  <2>1. PICK z : z = [got[i] EXCEPT !.items[1].streams = Tail(@)]
    OBVIOUS
  <2>2. leftAfter(i) = [got EXCEPT ![i] = z]
    BY <1>1, <2>1 DEF leftAfter
  <2>3. PICK S : S = ToSet(got)
    OBVIOUS
  <2>4. PICK s : s = got
    OBVIOUS
  <2>5. s \in Seq(S) /\ i \in DOMAIN s /\ leftAfter(i) = [s EXCEPT ![i] = z]
    BY <2>2, <2>3, <2>4 DEF GatherTypes
  <2>6. [s EXCEPT ![i] = z] \in Seq(ToSet([s EXCEPT ![i] = z]))
    BY <2>5, Replaced
  <2> QED BY <2>5, <2>6
<1>2. CASE ~(stage = "streams" /\ Len(streamsOf(got[i])) > 1)
  <2>1. leftAfter(i) = RemoveAt(got, i)
    BY <1>2 DEF leftAfter
  <2> QED BY <2>1, Removed DEF GatherTypes
<1> QED BY <1>1, <1>2

LEMMA ReplyIs ==
  ASSUME NEW s, NEW a, NEW l
  PROVE  /\ Reply(s, a, l).from = s /\ Reply(s, a, l).server = infoOf(s) /\ streamsOf(Reply(s, a, l)) = l
<1>1. Reply(s, a, l).items = <<[name |-> a, streams |-> l]>>
  BY DEF Reply
<1>2. streamsOf(Reply(s, a, l)) = l
  BY <1>1 DEF streamsOf
<1>3. Reply(s, a, l).from = s /\ Reply(s, a, l).server = infoOf(s)
  BY DEF Reply
<1> QED BY <1>2, <1>3

\* A reply without its first stream.
Shorter(g) == [g EXCEPT !.items[1].streams = Tail(@)]

LEMMA ReplyTail ==
  ASSUME NEW s, NEW a, NEW l, NEW g, g = Reply(s, a, l)
  PROVE  Shorter(g) = Reply(s, a, Tail(l))
<1>1. g.items = <<[name |-> a, streams |-> l]>>
  BY DEF Reply
<1>4. [g EXCEPT !.items[1].streams = Tail(@)] = Reply(s, a, Tail(l))
  <2>1. PICK t : t = Tail(l)
    OBVIOUS
  <2>2. PICK y : y = [name |-> a, streams |-> l]
    OBVIOUS
  <2>3. [y EXCEPT !.streams = t] = [name |-> a, streams |-> t] /\ y.streams = l
    BY <2>2
  <2>4. PICK b : b = <<y>>
    OBVIOUS
  <2>5. [b EXCEPT ![1] = [name |-> a, streams |-> t]] = <<[name |-> a, streams |-> t]>> /\ b[1] = y
    BY <2>4
  <2>6. PICK e : e = <<[name |-> a, streams |-> t]>>
    OBVIOUS
  <2>7. PICK r : r = g
    OBVIOUS
  <2>8. PICK v : v = infoOf(s)
    OBVIOUS
  <2>9. /\ r = [from |-> s, kind |-> "ok", copy |-> 1, server |-> v, hasData |-> TRUE, items |-> b]
        /\ Reply(s, a, t) = [from |-> s, kind |-> "ok", copy |-> 1, server |-> v, hasData |-> TRUE,
                             items |-> e]
    BY <2>2, <2>4, <2>6, <2>7, <2>8 DEF Reply
  <2>10. [r EXCEPT !.items = e] = Reply(s, a, t) /\ r.items = b
    <3>1. PICK h : h = TRUE
      OBVIOUS
    <3>2. PICK o : o = 1
      OBVIOUS
    <3>3. PICK k : k = "ok"
      OBVIOUS
    <3>4. /\ r = [from |-> s, kind |-> k, copy |-> o, server |-> v, hasData |-> h, items |-> b]
          /\ Reply(s, a, t) = [from |-> s, kind |-> k, copy |-> o, server |-> v, hasData |-> h,
                               items |-> e]
      BY <2>9, <3>1, <3>2, <3>3, Zenon
    <3>5. [r EXCEPT !.items = e] =
              [from |-> s, kind |-> k, copy |-> o, server |-> v, hasData |-> h, items |-> e]
      BY <3>4
    <3>6. r.items = b
      BY <3>4
    <3> QED BY <3>4, <3>5, <3>6, Zenon
  <2>11. [b EXCEPT ![1] = [b[1] EXCEPT !.streams = t]] = e /\ b[1].streams = l
    BY <2>3, <2>5, <2>6
  <2>12. [r EXCEPT !.items = [r.items EXCEPT ![1] = [r.items[1] EXCEPT !.streams = t]]] = Reply(s, a, t)
    BY <2>10, <2>11
  <2> QED BY <2>1, <2>7, <2>10, <2>11, <2>12
<1> QED BY <1>4 DEF Shorter

\* The first stream of a list is filed and the others are kept.
LEMMA Kept ==
  ASSUME NEW T, NEW l \in Seq(T)
  PROVE  /\ l # <<>> => Tail(l) \in Seq(T) /\ ToSet(l) = {l[1]} \cup ToSet(Tail(l))
         /\ l # <<>> /\ ~(Len(l) > 1) => ToSet(l) = {l[1]}
<1>5. ASSUME l # <<>> PROVE /\ Tail(l) \in Seq(T) /\ ToSet(l) = {l[1]} \cup ToSet(Tail(l))
                            /\ ~(Len(l) > 1) => ToSet(l) = {l[1]}
  <2>1. PICK n : n = Len(l)
    OBVIOUS
  <2>2. PICK t : t = Tail(l)
    OBVIOUS
  <2>3. /\ n \in Nat /\ n >= 1 /\ DOMAIN l = 1..n /\ t \in Seq(T) /\ Len(t) = n - 1 /\ DOMAIN t = 1..n - 1
        /\ \A k \in 1..n - 1 : t[k] = l[k + 1]
    BY <1>5, <2>1, <2>2
  <2>4. ASSUME NEW k \in 1..n PROVE l[k] \in {l[1]} \cup ToSet(t)
    <3>1. k = 1 \/ (k - 1 \in 1..n - 1 /\ (k - 1) + 1 = k)
      BY <2>3
    <3> QED BY <2>3, <3>1 DEF ToSet
  <2>5. ASSUME NEW k \in 1..n - 1 PROVE t[k] \in ToSet(l)
    <3>1. k + 1 \in 1..n
      BY <2>3
    <3> QED BY <2>3, <3>1 DEF ToSet
  <2>6. 1 \in 1..n
    BY <2>3
  <2>7. ToSet(l) = {l[1]} \cup ToSet(t)
    BY <2>3, <2>4, <2>5, <2>6 DEF ToSet
  <2>8. ~(n > 1) => ToSet(l) = {l[1]}
    <3>1. ~(n > 1) => 1..n = {1}
      BY <2>3
    <3> QED BY <2>3, <3>1 DEF ToSet
  <2> QED BY <2>1, <2>2, <2>3, <2>7, <2>8
<1> QED BY <1>5

\* A stream is filed: what was in hand is filed or still in hand.
LEMMA Filing ==
  ASSUME GatherInv, stage = "streams", NEW i \in DOMAIN got,
         UNCHANGED <<world, known>>, got' = leftAfter(i), NEW a, a = cur.of, GotSound(a),
         \/ streamsOf(got[i]) = <<>> /\ captured' = captured
         \/ Write(tagsFor(got[i]), dataOf(got[i]), got[i].from),
         NEW H, H = Hosts
  PROVE  GotSound(a)' /\ (AllInHand(H, a) => AllInHand(H, a)')
<1>1. PICK g : g = got[i]
  OBVIOUS
<1>2. PICK s : s = g.from
  OBVIOUS
<1>3. PICK l : l = streamsOf(g)
  OBVIOUS
<1>4. PICK T : T = ToSet(world.streams[s][a])
  OBVIOUS
<1>5. /\ g \in ToSet(got) /\ s \in Hosts \cap known /\ a \in accountsOf(s)
      /\ g = Reply(s, a, l) /\ l \in Seq(T)
  <2>1. g \in ToSet(got)
    BY <1>1 DEF ToSet
  <2> QED BY <1>2, <1>3, <1>4, <2>1 DEF GotSound
<1>6. got \in Seq(ToSet(got))
  BY DEF GatherInv, GatherTypes
<1>7. /\ \A x \in ToSet(got') : x \in ToSet(got) \/ (x = Reply(s, a, Tail(l)) /\ l # <<>>)
      /\ \A x \in ToSet(got) : x # g => x \in ToSet(got')
      /\ l # <<>> => \A x \in ToSet(l) : x = l[1] \/
                        (x \in ToSet(Tail(l)) /\ Reply(s, a, Tail(l)) \in ToSet(got'))
  <2>1. CASE Len(l) > 1
    <3>1. PICK z : z = Reply(s, a, Tail(l))
      OBVIOUS
    <3>2. Shorter(g) = z
      <4>1. g = Reply(s, a, l)
        BY <1>5
      <4>2. Shorter(g) = Reply(s, a, Tail(l))
        BY <4>1, ReplyTail
      <4> QED BY <3>1, <4>2
    <3>3. got' = [got EXCEPT ![i] = z]
      BY <1>1, <1>3, <2>1, <3>2 DEF leftAfter, Shorter
    <3>4. /\ ToSet(got') \subseteq ToSet(got) \cup {z} /\ z \in ToSet(got')
          /\ \A x \in ToSet(got) : x # got[i] => x \in ToSet(got')
      <4>1. PICK q : q = got
        OBVIOUS
      <4>2. PICK Q : Q = ToSet(got)
        OBVIOUS
      <4>3. q \in Seq(Q) /\ i \in DOMAIN q /\ got' = [q EXCEPT ![i] = z]
        BY <1>6, <3>3, <4>1, <4>2
      <4>4. /\ ToSet([q EXCEPT ![i] = z]) \subseteq ToSet(q) \cup {z} /\ z \in ToSet([q EXCEPT ![i] = z])
            /\ \A x \in ToSet(q) : x # q[i] => x \in ToSet([q EXCEPT ![i] = z])
        BY <4>3, Replaced
      <4> QED BY <4>1, <4>3, <4>4
    <3>5. l # <<>>
      BY <2>1
    <3>6. ToSet(l) = {l[1]} \cup ToSet(Tail(l))
      BY <1>5, <3>5, Kept
    <3> QED BY <1>1, <3>1, <3>4, <3>5, <3>6
  <2>2. CASE ~(Len(l) > 1)
    <3>1. got' = RemoveAt(got, i)
      BY <1>1, <1>3, <2>2 DEF leftAfter
    <3>2. /\ ToSet(got') \subseteq ToSet(got)
          /\ \A x \in ToSet(got) : x # got[i] => x \in ToSet(got')
      BY <1>6, <3>1, Removed
    <3>3. l # <<>> => ToSet(l) = {l[1]}
      BY <1>5, <2>2, Kept
    <3> QED BY <1>1, <3>2, <3>3
  <2> QED BY <2>1, <2>2
<1>8. \A v : infoOf(v)' = infoOf(v) /\ accountsOf(v)' = accountsOf(v)
  BY DEF infoOf, accountsOf
<1>9. Hosts' = Hosts
  BY DEF Hosts, inFilter, infoOf
<1>10. GotSound(a)'
  <2>1. ASSUME NEW x \in ToSet(got')
        PROVE  /\ x.from \in Hosts \cap known /\ a \in accountsOf(x.from)
               /\ x = Reply(x.from, a, streamsOf(x))
               /\ streamsOf(x) \in Seq(ToSet(world.streams[x.from][a]))
    <3>1. CASE x \in ToSet(got)
      BY <3>1 DEF GotSound
    <3>2. CASE x = Reply(s, a, Tail(l)) /\ l # <<>>
      <4>1. Tail(l) \in Seq(T)
        BY <1>5, <3>2, Kept
      <4>2. x.from = s /\ streamsOf(x) = Tail(l)
        BY <3>2, ReplyIs
      <4> QED BY <1>4, <1>5, <3>2, <4>1, <4>2
    <3> QED BY <1>7, <3>1, <3>2
  <2>2. \A v, m : Reply(v, a, m)' = Reply(v, a, m)
    BY DEF Reply, infoOf
  <2> QED BY <1>8, <1>9, <2>1, <2>2 DEF GotSound, streamsOf, Reply, infoOf
<1>11. Files
  BY DEF Files, Write
<1>12. /\ \A v, b, t : hasReplica(v, b, t) => hasReplica(v, b, t)'
       /\ \A v, b : shadowed(v, b) <=> shadowed(v, b)'
       /\ \A b : countMisleads(b) <=> countMisleads(b)'
  BY <1>11, FiledStays DEF GatherInv
<1>13. l # <<>> => hasReplica(s, a, l[1].name)'
  <2> SUFFICES ASSUME l # <<>> PROVE hasReplica(s, a, l[1].name)'
    OBVIOUS
  <2>1. PICK c : c = [tags |-> tagsFor(g), data |-> dataOf(g), from |-> s]
    OBVIOUS
  <2>2. captured' = Append(captured, c)
    BY <1>1, <1>2, <1>3, <2>1 DEF Write
  <2>3. PICK j \in DOMAIN captured' : captured'[j] = c
    <3>1. c \in ToSet(captured')
      BY <2>2, Appended DEF GatherInv, GatherTypes
    <3> QED BY <3>1 DEF ToSet
  <2>4. {Tag("account", a), Tag("stream", l[1].name), Tag("server", infoOf(s).name)} \subseteq tagsFor(g)
    <3>1. g.server = infoOf(s)
      BY <1>5, ReplyIs
    <3>2. tagsFor(g) = {Tag("server", g.server.name)} \cup
              {TagCluster(streamsOf(g)[1].cluster), type("stream_info"),
               Tag("account", cur.of), Tag("stream", streamsOf(g)[1].name)}
      BY DEF tagsFor
    <3> QED BY <1>3, <3>1, <3>2
  <2>5. c.tags = tagsFor(g) /\ c.from = s
    BY <2>1
  <2> QED BY <1>8, <2>3, <2>4, <2>5 DEF hasReplica
<1>14. ASSUME NEW v, InHand(v, a) PROVE InHand(v, a)'
  <2>1. CASE shadowed(v, a)
    BY <1>12, <2>1 DEF InHand
  <2>2. CASE ~ shadowed(v, a)
    <3>1. ASSUME NEW x \in ToSet(world.streams[v][a])
          PROVE  hasReplica(v, a, x.name)' \/ \E y \in ToSet(got') : y.from = v /\ x \in ToSet(streamsOf(y))
      <4>1. CASE hasReplica(v, a, x.name)
        BY <1>12, <4>1
      <4>2. ASSUME NEW y \in ToSet(got), y.from = v, x \in ToSet(streamsOf(y))
            PROVE  hasReplica(v, a, x.name)' \/ \E w \in ToSet(got') : w.from = v /\ x \in ToSet(streamsOf(w))
        <5>1. CASE y # g
          BY <1>7, <4>2, <5>1
        <5>2. CASE y = g
          <6>1. x \in ToSet(l) /\ v = s
            BY <1>2, <1>3, <4>2, <5>2
          <6>2. l # <<>>
            <7>1. ToSet(<<>>) = {}
              BY DEF ToSet
            <7> QED BY <6>1, <7>1
          <6>3. CASE x = l[1]
            BY <1>13, <6>1, <6>2, <6>3
          <6>4. CASE x \in ToSet(Tail(l)) /\ Reply(s, a, Tail(l)) \in ToSet(got')
            <7>1. PICK w : w = Reply(s, a, Tail(l))
              OBVIOUS
            <7>2. Tail(l) \in Seq(T)
              BY <1>5, <6>2, Kept
            <7>3. w.from = s /\ streamsOf(w) = Tail(l)
              BY <7>1, ReplyIs
            <7> QED BY <6>1, <6>4, <7>1, <7>3
          <6> QED BY <1>7, <6>1, <6>2, <6>3, <6>4
        <5> QED BY <5>1, <5>2
      <4>3. hasReplica(v, a, x.name) \/ \E y \in ToSet(got) : y.from = v /\ x \in ToSet(streamsOf(y))
        BY <1>14, <2>2 DEF InHand
      <4> QED BY <4>1, <4>2, <4>3
    <3> QED BY <3>1 DEF InHand, streamsOf
  <2> QED BY <2>1, <2>2
<1>15. AllInHand(H, a) => AllInHand(H, a)'
  BY <1>12, <1>14 DEF AllInHand
<1> QED BY <1>10, <1>15

LEMMA StoreStep ==
  ASSUME GatherInv, Next, Store
  PROVE  GatherInv'
<1>0. Smooth' => Smooth
  BY SmoothBefore DEF GatherInv
<1>1. UNCHANGED <<req, net, world, conf, expired, closed>> /\ req.on = FALSE
  BY DEF Store, requestVars, GatherInv, GatherTypes
<1>2. PICK i \in DOMAIN got :
           IF stage = "streams" /\ streamsOf(got[i]) = <<>>
           THEN stored(i) /\ UNCHANGED <<aw, captured, faults>>
           ELSE \/ Write(tagsFor(got[i]), dataOf(got[i]), got[i].from) /\ stored(i)
                \/ WriteFails(tagsFor(got[i])) /\ Fail
  BY DEF Store
<1>3. got # <<>>
  <2>1. DOMAIN <<>> = {}
    OBVIOUS
  <2> QED BY <2>1
<1>4. stage \in Sections /\ cur.left # <<>> /\ req.done = FALSE /\ closed = ""
  <2>1. stage \in Sections
    BY DEF Store, asksPerServer, asksPerAccount, Sections
  <2> QED BY <1>1, <1>3, <2>1 DEF GatherInv, GatherTypes, Course, Sections
<1>5. NetSound'
  BY <1>0, <1>1 DEF GatherInv, NetSound
<1>6. Files /\ faults' \in Nat
  BY <1>2 DEF Files, Write, WriteFails, GatherInv, GatherTypes
<1>7. captured' \in Seq(ToSet(captured'))
  <2>1. CASE captured' = captured
    BY <2>1 DEF GatherInv, GatherTypes
  <2>2. CASE \E z : captured' = Append(captured, z)
    BY <2>2, Appended DEF GatherInv, GatherTypes
  <2> QED BY <1>6, <2>1, <2>2 DEF Files
<1>8. CASE Fail
  <2>1. GatherTypes'
    BY <1>1, <1>6, <1>7, <1>8, Empty DEF GatherInv, GatherTypes, Fail
  <2> QED BY <1>1, <1>4, <1>5, <1>8, <2>1, FailStep
<1>9. CASE /\ stored(i)
           /\ \/ stage = "streams" /\ streamsOf(got[i]) = <<>> /\ captured' = captured
              \/ Write(tagsFor(got[i]), dataOf(got[i]), got[i].from)
  <2>1. /\ got' = leftAfter(i) /\ UNCHANGED <<stage, known, counts, systemAccount, todo, outcome>>
        /\ got' # <<>> => cur' = cur
        /\ got' = <<>> /\ stage # "endpoints" => cur' = advance
    BY <1>9 DEF stored
  <2>2. GatherTypes'
    <3>1. got' \in Seq(ToSet(got'))
      BY <2>1, LeftTyped DEF GatherInv
    <3> QED BY <1>1, <1>6, <1>7, <2>1, <3>1 DEF GatherInv, GatherTypes
  <2>3. Course'
    BY <1>1, <1>4, <2>1 DEF GatherInv, Course, Sections
  <2>4. Late' => Late
    BY <1>4, <2>1 DEF Late
  <2>5. DiscoveryInv'
    BY <1>0, <1>1, <1>4, <2>1, <2>4, DiscoveryStays DEF Sections
  <2>6. EndInv'
    BY <1>4, <2>1 DEF EndInv
  <2>7. StreamsInv'
    <3> SUFFICES ASSUME Smooth', stage = "streams" PROVE StreamsInv'
      BY <2>1 DEF StreamsInv
    <3>1. /\ todo \subseteq DOMAIN counts /\ cur.of \in DOMAIN counts /\ cur.left = <<"JSZ">>
          /\ \A b \in {cur.of} : Asking(b)
          /\ \A b \in DOMAIN counts \ {systemAccount} : b \in todo \/ cur.of = b \/ Through(b)
      BY <1>0, <1>4 DEF GatherInv, StreamsInv
    <3>2. PICK a : a = cur.of
      OBVIOUS
    <3>3. PICK H : H = Hosts
      OBVIOUS
    <3>4. GotSound(a) /\ AllInHand(Hosts, a)
      BY <1>1, <1>3, <3>1, <3>2 DEF Asking
    <3>5. AllInHand(H, a)
      BY <3>3, <3>4
    <3>6. GotSound(a)' /\ AllInHand(H, a)'
      BY <1>1, <1>9, <2>1, <3>2, <3>3, <3>4, <3>5, Filing
    <3>7. Hosts' = H
      BY <1>1, <3>3 DEF Hosts, inFilter, infoOf
    <3>8. \A b : Through(b) => Through(b)'
      BY <1>1, <1>6, <2>1, FiledStays DEF GatherInv
    <3>9. CASE got' # <<>>
      <4>1. cur' = cur
        BY <2>1, <3>9
      <4>2. ASSUME NEW b \in {cur'.of} PROVE Asking(b)'
        <5>1. b = a
          BY <3>2, <4>1
        <5>2. AllInHand(Hosts, a)'
          BY <3>6, <3>7 DEF AllInHand
        <5>3. req'.on = FALSE /\ req'.done = FALSE
          BY <1>1, <1>4
        <5> QED BY <3>6, <5>1, <5>2, <5>3 DEF Asking
      <4>3. \A b \in (DOMAIN counts \ {systemAccount})' :
                   b \in todo' \/ (cur'.left # <<>> /\ cur'.of = b) \/ Through(b)'
        BY <1>4, <2>1, <3>1, <3>8, <4>1
      <4>4. todo' \subseteq DOMAIN counts' /\ cur'.of \in DOMAIN counts' /\ cur'.left = <<"JSZ">>
        BY <2>1, <3>1, <4>1
      <4> QED BY <4>2, <4>3, <4>4, Zenon DEF StreamsInv
    <3>10. CASE got' = <<>>
      <4>1. cur' = Nobody
        BY <2>1, <3>1, <3>10 DEF advance
      <4>2. ToSet(got') = {}
        BY <3>10 DEF ToSet
      <4>3. ASSUME NEW b PROVE Asking(b)'
        BY <1>1, <1>4, <3>10, <4>2 DEF Asking, GotSound
      <4>4. Through(a)'
        BY <3>6, <3>7, <4>2 DEF AllInHand, InHand, Through, Filed
      <4>5. cur'.left = <<>> /\ todo' \subseteq DOMAIN counts'
        BY <2>1, <3>1, <4>1, Empty
      <4>6. \A b \in (DOMAIN counts \ {systemAccount})' : b \in todo' \/ Through(b)'
        BY <2>1, <3>1, <3>2, <3>8, <4>4
      <4> QED BY <4>3, <4>5, <4>6 DEF StreamsInv
    <3> QED BY <3>9, <3>10
  <2> QED BY <1>5, <2>2, <2>3, <2>5, <2>6, <2>7 DEF GatherInv
<1> QED BY <1>2, <1>8, <1>9

-----------------------------------------------------------------------------
(* The invariant, and what it says of the archive.                         *)

LEMMA GatherInit == Init => GatherInv
<1> SUFFICES ASSUME Init PROVE GatherInv
  OBVIOUS
<1>1. req = Idle /\ net = {} /\ stage = "config" /\ got = <<>> /\ cur = Nobody /\ counts = <<>> /\ closed = ""
  BY DEF Init
<1>2. req.on = FALSE /\ req.done = FALSE /\ req.ctr = 0 /\ req.errs = ""
  BY <1>1 DEF Idle
<1>3. GatherTypes
  <2>1. req = [on |-> req.on, waitFor |-> req.waitFor, left |-> req.left, ctr |-> req.ctr,
               clock |-> req.clock, finisher |-> req.finisher, ctxDone |-> req.ctxDone,
               errs |-> req.errs, done |-> req.done, err |-> req.err]
    BY <1>1 DEF Idle
  <2>2. <<>> \in Seq(ToSet(<<>>)) /\ <<>> \in [DOMAIN <<>> -> Nat]
    OBVIOUS
  <2>3. req.on \in BOOLEAN /\ req.done \in BOOLEAN /\ req.ctr \in Nat
    <3>1. 0 \in Nat
      OBVIOUS
    <3> QED BY <1>2, <3>1, Zenon
  <2>4. world \in Worlds /\ faults \in Nat /\ expired \in BOOLEAN /\ captured = <<>>
    BY DEF Init
  <2> QED BY <1>1, <2>1, <2>2, <2>3, <2>4, Zenon DEF GatherTypes
<1>4. Course
  BY <1>1, <1>2, Empty DEF Course, Sections
<1>5. NetSound
  BY <1>1, <1>2 DEF NetSound
<1>6. ~ Late
  BY <1>1 DEF Late, Sections
<1>7. DiscoveryInv /\ StreamsInv /\ EndInv
  BY <1>1, <1>2, <1>6 DEF DiscoveryInv, StreamsInv, EndInv
<1> QED BY <1>3, <1>4, <1>5, <1>7 DEF GatherInv

LEMMA GatherStutter == ASSUME GatherInv, UNCHANGED vars PROVE GatherInv'
<1>1. UNCHANGED <<req, net, world, conf, stage, known, counts, systemAccount, todo, cur, got,
                  outcome, captured, faults, expired, closed>>
  BY DEF vars, requestVars, gatherVars
<1>2. GatherTypes' /\ Course' /\ NetSound'
  BY <1>1 DEF GatherInv, GatherTypes, Course, NetSound, Smooth
<1>3. DiscoveryInv'
  BY <1>1, FilterStays DEF GatherInv, DiscoveryInv, Smooth, Late, Waiting
<1>4. \A a : Through(a) => Through(a)'
  BY <1>1, HandStays
<1>5. \A a : Asking(a) => Asking(a)'
  BY <1>1 DEF Asking, GotSound, AllInHand, InHand, shadowed, countMisleads, hasReplica, Hosts, Waiting,
              Answer, Reply, details, streamsOf, accountsOf, infoOf, inFilter
<1>6. StreamsInv'
  BY <1>1, <1>4, <1>5 DEF GatherInv, StreamsInv, Smooth
<1>7. EndInv'
  BY <1>1, <1>4 DEF GatherInv, EndInv, Smooth, Late, gathered
<1> QED BY <1>2, <1>3, <1>6, <1>7 DEF GatherInv

(***************************************************************************)
(* However a gathering goes, nothing is left over between the requests,    *)
(* and of one without a fault and a lapse of time: the count of an account *)
(* is that of the discovered servers that have it, and a request for its   *)
(* streams that has returned has every replica in hand or an explanation   *)
(* (captureAccountServers, captureAccountStreams, DoReqAsync).             *)
(***************************************************************************)
THEOREM GatherInvariant == Spec => []GatherInv
<1>1. Init => GatherInv
  BY GatherInit
<1>2. GatherInv /\ [Next]_vars => GatherInv'
  <2> SUFFICES ASSUME GatherInv, [Next]_vars PROVE GatherInv'
    OBVIOUS
  <2>1. CASE UNCHANGED vars
    BY <2>1, GatherStutter
  <2>2. CASE Next
    <3>1. CASE Configure BY <2>2, <3>1, ConfigureStep
    <3>2. CASE SendRequest BY <2>2, <3>2, SendRequestStep
    <3>3. CASE Receive BY <2>2, <3>3, ReceiveStep
    <3>4. CASE TimePasses BY <2>2, <3>4, TimePassesStep
    <3>5. CASE Returns BY <2>2, <3>5, ReturnsStep
    <3>6. CASE TakeLive BY <2>2, <3>6, TakeLiveStep
    <3>7. CASE TakeServers BY <2>2, <3>7, TakeServersStep
    <3>8. CASE TakeAccounts BY <2>2, <3>8, TakeAccountsStep
    <3>9. CASE Choose BY <2>2, <3>9, ChooseStep
    <3>10. CASE NextSection BY <2>2, <3>10, NextSectionStep
    <3>11. CASE TakeAnswers BY <2>2, <3>11, TakeAnswersStep
    <3>12. CASE Store BY <2>2, <3>12, StoreStep
    <3>13. CASE CaptureMetadata BY <2>2, <3>13, CaptureMetadataStep
    <3>14. CASE AddLog BY <2>2, <3>14, AddLogStep
    <3>15. CASE CloseArchive BY <2>2, <3>15, CloseArchiveStep
    <3>16. CASE Finished BY <3>16, GatherStutter DEF Finished
    <3>17. CASE Skip BY <2>2, <3>17, SkippedStep
    <3> QED BY <2>2, <3>1, <3>2, <3>3, <3>4, <3>5, <3>6, <3>7, <3>8, <3>9, <3>10, <3>11, <3>12,
               <3>13, <3>14, <3>15, <3>16, <3>17 DEF Next
  <2> QED BY <2>1, <2>2
<1> QED BY <1>1, <1>2, PTL DEF Spec

(***************************************************************************)
(* A replica of a stream that an undisturbed gathering misses is           *)
(* explained: a server without the account was counted among those waited  *)
(* for, or another server of the same name has the account too             *)
(* (captureAccountStreams).                                                *)
(***************************************************************************)
THEOREM ReplicasExplained == Spec => []MissingReplicaExplained
<1>1. GatherInv => MissingReplicaExplained
  <2> SUFFICES ASSUME GatherInv, Undisturbed, gathered("streams"), NEW s \in known \cap world.jetstream,
                      NEW a \in accountsOf(s) \ {systemAccount}, NEW x \in ToSet(world.streams[s][a])
               PROVE  hasReplica(s, a, x.name) \/ countMisleads(a) \/ shadowed(s, a)
    BY DEF MissingReplicaExplained
  <2>1. Smooth /\ Late /\ stage = "done"
    BY DEF Undisturbed, Smooth, Late, GatherInv, Course
  <2>2. known = Filtered /\ Tally(counts, world, known)
    BY <2>1 DEF GatherInv, DiscoveryInv
  <2>3. s \in Hosts
    BY <2>2 DEF Filtered, Hosts
  <2>4. a \in DOMAIN counts \ {systemAccount}
    BY <2>2 DEF Tally, accountsOf
  <2>5. Through(a)
    BY <2>1, <2>4 DEF GatherInv, EndInv, Sections
  <2> QED BY <2>3, <2>5 DEF Through, Filed
<1> QED BY <1>1, GatherInvariant, PTL

(***************************************************************************)
(* What a request collected is final once it returned (the done flag of    *)
(* DoReqAsync): nothing else happens before the answers are taken, and a   *)
(* late response is ignored.                                               *)
(***************************************************************************)
THEOREM ResultsFinal == Spec => ResultsAreFinal
<1>1. GatherInv /\ [Next]_vars => (req.done /\ req'.done => UNCHANGED <<got, known, counts>>)
  <2> SUFFICES ASSUME GatherInv, [Next]_vars, req.done, req'.done
               PROVE  UNCHANGED <<got, known, counts>>
    OBVIOUS
  <2>1. req.on /\ stage \in {"live", "servers", "discover"} \cup Sections
    BY DEF GatherInv, Course
  <2>2. CASE UNCHANGED vars
    BY <2>2 DEF vars, gatherVars
  <2>3. CASE Configure \/ SendRequest \/ TimePasses \/ Returns \/ Choose \/ NextSection \/ Skip
             \/ AddLog \/ CloseArchive
    BY <2>3 DEF Configure, SendRequest, TimePasses, gatherVars, Returns, Choose, NextSection, Skip,
                AddLog, CloseArchive
  <2>4. CASE Receive
    BY <2>4, Delivered DEF Receive
  <2>5. CASE TakeLive \/ TakeServers \/ TakeAccounts \/ TakeAnswers
    BY <2>5, IdleFacts DEF TakeLive, TakeServers, TakeAccounts, TakeAnswers
  <2>6. CASE Store
    BY <2>1, <2>6 DEF Store
  <2>7. CASE CaptureMetadata
    BY <2>1, <2>7 DEF CaptureMetadata, Sections
  <2>8. CASE Finished
    BY <2>8 DEF Finished, vars, gatherVars
  <2> QED BY <2>2, <2>3, <2>4, <2>5, <2>6, <2>7, <2>8 DEF Next
<1> QED BY <1>1, GatherInvariant, PTL DEF Spec, ResultsAreFinal

-----------------------------------------------------------------------------
(* The archive: what the tags of an artifact say of its file.              *)

\* The tags of the artifacts a gathering makes.
ServerTags(s, c, ty) == {Tag("server", s), Tag("cluster", c), type(ty)}
ProfileTags(s, c, p) == ServerTags(s, c, "profile") \cup {Tag("profile_name", p)}
AccountTags(s, c, ty, a) == ServerTags(s, c, ty) \cup {Tag("account", a)}
StreamTags(s, c, a, t) == AccountTags(s, c, "stream_info", a) \cup {Tag("stream", t)}
Specials == {"audit_gather_metadata", "audit_gather_log"}

IsSpecial(t) == \E n \in Specials : t = TagSpecial(n)
IsServers(t, S) == \E s, c : \E ty \in S : t = ServerTags(s, c, ty)
IsProfiles(t) == \E s, c : \E p \in ServerProfiles : s \in Seq(ToSet(s)) /\ t = ProfileTags(s, c, p)
IsAccounts(t, A) == \E s, c, a : \E ty \in A : t = AccountTags(s, c, ty, a)
IsStreams(t) == \E s, c, a, x : t = StreamTags(s, c, a, x)

\* S and A are the types of the endpoints of servers and accounts.
IsTypes(S, A) == S \cap A = {} /\ {"profile", "stream_info"} \cap (S \cup A) = {}
Gathered(t, S, A) ==
    IsSpecial(t) \/ IsServers(t, S) \/ IsProfiles(t) \/ IsAccounts(t, A) \/ IsStreams(t)

Labels(t) == {x.name : x \in t}
Functional(t) == \A x, y \in t : x.name = y.name => x = y

LEMMA ValueIs ==
  ASSUME NEW t, NEW n, NEW v, Tag(n, v) \in t, \A x \in t : x.name = n => x = Tag(n, v)
  PROVE  values(t, n) = {v} /\ has(t, n) /\ value(t, n) = v
<1>1. {u \in t : u.name = n} = {Tag(n, v)}
  BY DEF Tag
<1>2. values(t, n) = {v}
  BY <1>1 DEF values, Tag
<1> QED BY <1>2 DEF has, value

LEMMA NoValue == ASSUME NEW t, NEW n, n \notin Labels(t) PROVE ~ has(t, n)
BY DEF Labels, has, values

\* A type belongs to one kind of tags, and tags to one file.
LEMMA TypesTell ==
  ASSUME NEW t, NEW u, NEW ty, t \subseteq u, type(ty) \in t, Functional(u), Labels(u) \subseteq Labels(t)
  PROVE  t = u
<1>1. ASSUME NEW x \in u PROVE x \in t
  <2>1. PICK y \in t : y.name = x.name
    BY <1>1 DEF Labels
  <2> QED BY <2>1 DEF Functional
<1> QED BY <1>1

LEMMA SpecialIs ==
  ASSUME NEW n
  PROVE  LET t == TagSpecial(n)
         IN  /\ createFilenameFromTags(t) = << <<"misc">>, <<n>> >>
             /\ isNonPagedArtifact(t) /\ ~ isProfile(t) /\ Labels(t) = {"special"} /\ Functional(t)
             /\ t = {Tag("special", <<n>>)}
<1>1. PICK t : t = TagSpecial(n)
  OBVIOUS
<1>2. t = {Tag("special", <<n>>)}
  BY <1>1 DEF TagSpecial
<1>3. has(t, "special") /\ value(t, "special") = <<n>>
  BY <1>2, ValueIs
<1>4. ~ isProfile(t) /\ Labels(t) = {"special"} /\ Functional(t)
  BY <1>2 DEF isProfile, Tag, Labels, Functional
<1>5. createFilenameFromTags(t) = << <<"misc">>, <<n>> >>
  BY <1>3 DEF createFilenameFromTags
<1> QED BY <1>1, <1>2, <1>3, <1>4, <1>5 DEF isNonPagedArtifact

LEMMA ServerIs ==
  ASSUME NEW s, NEW c, NEW ty, ty # "profile"
  PROVE  LET t == ServerTags(s, c, ty)
         IN  /\ createFilenameFromTags(t) = << <<"clusters">>, c, s, <<ty>> >>
             /\ ~ isNonPagedArtifact(t) /\ type(ty) \in t
             /\ Labels(t) = {"server", "cluster", "artifact_type"} /\ Functional(t)
<1>1. PICK t : t = ServerTags(s, c, ty)
  OBVIOUS
<1>2. t = {Tag("server", s), Tag("cluster", c), Tag("artifact_type", <<ty>>)}
  BY <1>1 DEF ServerTags, type
<1>3. Labels(t) = {"server", "cluster", "artifact_type"} /\ Functional(t)
  BY <1>2 DEF Tag, Labels, Functional
<1>4. /\ Tag("server", s) \in t /\ \A x \in t : x.name = "server" => x = Tag("server", s)
      /\ Tag("cluster", c) \in t /\ \A x \in t : x.name = "cluster" => x = Tag("cluster", c)
      /\ Tag("artifact_type", <<ty>>) \in t /\ \A x \in t : x.name = "artifact_type" => x = Tag("artifact_type", <<ty>>)
  BY <1>2 DEF Tag
<1>5. value(t, "server") = s /\ value(t, "cluster") = c /\ value(t, "artifact_type") = <<ty>>
  BY <1>4, ValueIs
<1>6. ~ has(t, "special") /\ ~ has(t, "stream") /\ ~ has(t, "account")
  BY <1>3, NoValue
<1>7. ~ isProfile(t)
  BY <1>2 DEF isProfile, Tag
<1>8. createFilenameFromTags(t) = << <<"clusters">>, c, s, <<ty>> >>
  BY <1>5, <1>6, <1>7 DEF createFilenameFromTags
<1> QED BY <1>1, <1>2, <1>3, <1>6, <1>7, <1>8 DEF isNonPagedArtifact, type

LEMMA ProfileIs ==
  ASSUME NEW s, NEW c, NEW p
  PROVE  LET t == ProfileTags(s, c, p)
         IN  /\ createFilenameFromTags(t) = << <<"profiles">>, c, s \o p >>
             /\ isNonPagedArtifact(t) /\ isProfile(t) /\ type("profile") \in t
             /\ Labels(t) = {"server", "cluster", "artifact_type", "profile_name"} /\ Functional(t)
             /\ value(t, "server") = s /\ value(t, "cluster") = c /\ value(t, "profile_name") = p
<1>1. PICK t : t = ProfileTags(s, c, p)
  OBVIOUS
<1>2. t = {Tag("server", s), Tag("cluster", c), Tag("artifact_type", <<"profile">>), Tag("profile_name", p)}
  BY <1>1 DEF ProfileTags, ServerTags, type
<1>3. Labels(t) = {"server", "cluster", "artifact_type", "profile_name"} /\ Functional(t)
  BY <1>2 DEF Tag, Labels, Functional
<1>4. /\ Tag("server", s) \in t /\ \A x \in t : x.name = "server" => x = Tag("server", s)
      /\ Tag("cluster", c) \in t /\ \A x \in t : x.name = "cluster" => x = Tag("cluster", c)
      /\ Tag("profile_name", p) \in t /\ \A x \in t : x.name = "profile_name" => x = Tag("profile_name", p)
  BY <1>2 DEF Tag
<1>5. value(t, "server") = s /\ value(t, "cluster") = c /\ value(t, "profile_name") = p
  BY <1>4, ValueIs
<1>6. ~ has(t, "special") /\ ~ has(t, "stream") /\ ~ has(t, "account")
  BY <1>3, NoValue
<1>7. isProfile(t)
  BY <1>2 DEF isProfile
<1>8. createFilenameFromTags(t) = << <<"profiles">>, c, s \o p >>
  BY <1>5, <1>6, <1>7 DEF createFilenameFromTags
<1> QED BY <1>1, <1>2, <1>3, <1>5, <1>7, <1>8 DEF isNonPagedArtifact, type

LEMMA AccountIs ==
  ASSUME NEW s, NEW c, NEW ty, NEW a, ty # "profile"
  PROVE  LET t == AccountTags(s, c, ty, a)
         IN  /\ createFilenameFromTags(t)[1] = <<"accounts">>
             /\ ~ isNonPagedArtifact(t) /\ type(ty) \in t
             /\ Labels(t) = {"server", "cluster", "artifact_type", "account"} /\ Functional(t)
<1>1. PICK t : t = AccountTags(s, c, ty, a)
  OBVIOUS
<1>2. t = {Tag("server", s), Tag("cluster", c), Tag("artifact_type", <<ty>>), Tag("account", a)}
  BY <1>1 DEF AccountTags, ServerTags, type
<1>3. Labels(t) = {"server", "cluster", "artifact_type", "account"} /\ Functional(t)
  BY <1>2 DEF Tag, Labels, Functional
<1>4. /\ Tag("account", a) \in t /\ \A x \in t : x.name = "account" => x = Tag("account", a)
  BY <1>2 DEF Tag
<1>5. has(t, "account")
  BY <1>4, ValueIs
<1>6. ~ has(t, "special") /\ ~ has(t, "stream")
  BY <1>3, NoValue
<1>7. ~ isProfile(t)
  BY <1>2 DEF isProfile, Tag
<1>8. createFilenameFromTags(t)[1] = <<"accounts">>
  BY <1>5, <1>6 DEF createFilenameFromTags
<1> QED BY <1>1, <1>2, <1>3, <1>6, <1>7, <1>8 DEF isNonPagedArtifact, type

LEMMA StreamIs ==
  ASSUME NEW s, NEW c, NEW a, NEW x
  PROVE  LET t == StreamTags(s, c, a, x)
         IN  /\ createFilenameFromTags(t)[1] = <<"accounts">>
             /\ ~ isNonPagedArtifact(t) /\ type("stream_info") \in t
             /\ Labels(t) = {"server", "cluster", "artifact_type", "account", "stream"} /\ Functional(t)
<1>1. PICK t : t = StreamTags(s, c, a, x)
  OBVIOUS
<1>2. t = {Tag("server", s), Tag("cluster", c), Tag("artifact_type", <<"stream_info">>),
           Tag("account", a), Tag("stream", x)}
  BY <1>1 DEF StreamTags, AccountTags, ServerTags, type
<1>3. Labels(t) = {"server", "cluster", "artifact_type", "account", "stream"} /\ Functional(t)
  BY <1>2 DEF Tag, Labels, Functional
<1>4. /\ Tag("stream", x) \in t /\ \A y \in t : y.name = "stream" => y = Tag("stream", x)
  BY <1>2 DEF Tag
<1>5. has(t, "stream")
  BY <1>4, ValueIs
<1>6. ~ has(t, "special")
  BY <1>3, NoValue
<1>7. ~ isProfile(t)
  BY <1>2 DEF isProfile, Tag
<1>8. createFilenameFromTags(t)[1] = <<"accounts">>
  BY <1>5, <1>6 DEF createFilenameFromTags
<1> QED BY <1>1, <1>2, <1>3, <1>6, <1>7, <1>8 DEF isNonPagedArtifact, type

LEMMA KindLabels ==
  ASSUME NEW t
  PROVE  /\ IsSpecial(t) => Labels(t) = {"special"}
         /\ IsProfiles(t) => Labels(t) = {"server", "cluster", "artifact_type", "profile_name"}
<1>1. IsSpecial(t) => Labels(t) = {"special"}
  BY SpecialIs DEF IsSpecial
<1>2. IsProfiles(t) => Labels(t) = {"server", "cluster", "artifact_type", "profile_name"}
  BY ProfileIs DEF IsProfiles
<1> QED BY <1>1, <1>2

\* What the writer and the reader rely on.
LEMMA GatheredIs ==
  ASSUME NEW S, NEW A, IsTypes(S, A), NEW t, Gathered(t, S, A)
  PROVE  /\ Functional(t)
         /\ isNonPagedArtifact(t) <=> IsSpecial(t) \/ IsProfiles(t)
         /\ isProfile(t) <=> IsProfiles(t)
         /\ isNonPagedArtifact(t) <=> createFilenameFromTags(t)[1] \in {<<"misc">>, <<"profiles">>}
         /\ \A x \in t : x = Tag(x.name, x.value)
<1>1. CASE IsSpecial(t)
  <2>1. PICK n \in Specials : t = TagSpecial(n)
    BY <1>1 DEF IsSpecial
  <2>2. ~ IsProfiles(t)
    BY <1>1, KindLabels
  <2>3. \A x \in t : x = Tag(x.name, x.value)
    BY <2>1 DEF TagSpecial, Tag
  <2>4. /\ createFilenameFromTags(t) = << <<"misc">>, <<n>> >> /\ isNonPagedArtifact(t)
        /\ ~ isProfile(t) /\ Functional(t)
    BY <2>1, SpecialIs
  <2> QED BY <1>1, <2>2, <2>3, <2>4
<1>2. CASE IsServers(t, S)
  <2>1. PICK s, c, ty : ty \in S /\ t = ServerTags(s, c, ty)
    BY <1>2 DEF IsServers
  <2>2. ty # "profile"
    BY <2>1 DEF IsTypes
  <2>3. /\ createFilenameFromTags(t) = << <<"clusters">>, c, s, <<ty>> >> /\ ~ isNonPagedArtifact(t)
        /\ Labels(t) = {"server", "cluster", "artifact_type"} /\ Functional(t)
    BY <2>1, <2>2, ServerIs
  <2>4. ~ IsSpecial(t) /\ ~ IsProfiles(t)
    BY <2>3, KindLabels
  <2>5. \A x \in t : x = Tag(x.name, x.value)
    BY <2>1 DEF ServerTags, type, Tag
  <2>6. ~ isProfile(t)
    BY <2>3 DEF isNonPagedArtifact
  <2>7. createFilenameFromTags(t)[1] = <<"clusters">> /\ <<"clusters">> # <<"misc">> /\ <<"clusters">> # <<"profiles">>
    BY <2>3
  <2> QED BY <2>3, <2>4, <2>5, <2>6, <2>7
<1>3. CASE IsProfiles(t)
  <2>1. PICK s, c, p : p \in ServerProfiles /\ t = ProfileTags(s, c, p)
    BY <1>3 DEF IsProfiles
  <2>2. \A x \in t : x = Tag(x.name, x.value)
    BY <2>1 DEF ProfileTags, ServerTags, type, Tag
  <2>3. createFilenameFromTags(t)[1] = <<"profiles">>
    BY <2>1, ProfileIs
  <2> QED BY <1>3, <2>1, <2>2, <2>3, ProfileIs
<1>4. CASE IsAccounts(t, A)
  <2>1. PICK s, c, a, ty : ty \in A /\ t = AccountTags(s, c, ty, a)
    BY <1>4 DEF IsAccounts
  <2>2. ty # "profile"
    BY <2>1 DEF IsTypes
  <2>3. /\ createFilenameFromTags(t)[1] = <<"accounts">> /\ ~ isNonPagedArtifact(t)
        /\ Labels(t) = {"server", "cluster", "artifact_type", "account"} /\ Functional(t)
    BY <2>1, <2>2, AccountIs
  <2>4. ~ IsSpecial(t) /\ ~ IsProfiles(t)
    BY <2>3, KindLabels
  <2>5. \A x \in t : x = Tag(x.name, x.value)
    BY <2>1 DEF AccountTags, ServerTags, type, Tag
  <2>6. ~ isProfile(t)
    BY <2>3 DEF isNonPagedArtifact
  <2>7. <<"accounts">> # <<"misc">> /\ <<"accounts">> # <<"profiles">>
    OBVIOUS
  <2> QED BY <2>3, <2>4, <2>5, <2>6, <2>7
<1>5. CASE IsStreams(t)
  <2>1. PICK s, c, a, y : t = StreamTags(s, c, a, y)
    BY <1>5 DEF IsStreams
  <2>3. /\ createFilenameFromTags(t)[1] = <<"accounts">> /\ ~ isNonPagedArtifact(t)
        /\ Labels(t) = {"server", "cluster", "artifact_type", "account", "stream"} /\ Functional(t)
    BY <2>1, StreamIs
  <2>4. ~ IsSpecial(t) /\ ~ IsProfiles(t)
    BY <2>3, KindLabels
  <2>5. \A x \in t : x = Tag(x.name, x.value)
    BY <2>1 DEF StreamTags, AccountTags, ServerTags, type, Tag
  <2>6. ~ isProfile(t)
    BY <2>3 DEF isNonPagedArtifact
  <2>7. <<"accounts">> # <<"misc">> /\ <<"accounts">> # <<"profiles">>
    OBVIOUS
  <2> QED BY <2>3, <2>4, <2>5, <2>6, <2>7
<1> QED BY <1>1, <1>2, <1>3, <1>4, <1>5 DEF Gathered

\* The labels that tags of a type have.
LabelsOf(ty, S, A) ==
    {"server", "cluster", "artifact_type"} \cup
    (IF ty \in S THEN {} ELSE IF ty \in A THEN {"account"}
     ELSE IF ty = "profile" THEN {"profile_name"} ELSE {"account", "stream"})

LEMMA LabelsTell ==
  ASSUME NEW S, NEW A, IsTypes(S, A), NEW t, Gathered(t, S, A), ~ IsSpecial(t)
  PROVE  \E ty : type(ty) \in t /\ Labels(t) = LabelsOf(ty, S, A)
<1>1. CASE IsServers(t, S)
  BY <1>1, ServerIs DEF IsServers, IsTypes, LabelsOf
<1>2. CASE IsProfiles(t)
  <2>1. type("profile") \in t /\ Labels(t) = {"server", "cluster", "artifact_type", "profile_name"}
    BY <1>2, ProfileIs DEF IsProfiles
  <2> QED BY <2>1 DEF IsTypes, LabelsOf
<1>3. CASE IsAccounts(t, A)
  <2>1. PICK ty \in A : type(ty) \in t /\ Labels(t) = {"server", "cluster", "artifact_type", "account"}
    BY <1>3, AccountIs DEF IsAccounts, IsTypes
  <2> QED BY <2>1 DEF IsTypes, LabelsOf
<1>4. CASE IsStreams(t)
  <2>1. /\ type("stream_info") \in t
        /\ Labels(t) = {"server", "cluster", "artifact_type", "account", "stream"}
    BY <1>4, StreamIs DEF IsStreams
  <2> QED BY <2>1 DEF IsTypes, LabelsOf
<1> QED BY <1>1, <1>2, <1>3, <1>4 DEF Gathered

\* No artifact has the tags of another and more.
LEMMA TagsApart ==
  ASSUME NEW S, NEW A, IsTypes(S, A), NEW t, NEW u, Gathered(t, S, A), Gathered(u, S, A), t \subseteq u
  PROVE  t = u
<1>1. Labels(t) \subseteq Labels(u) /\ Functional(u)
  BY GatheredIs DEF Labels
<1>2. ASSUME NEW x, Gathered(x, S, A)
      PROVE  IF IsSpecial(x) THEN Labels(x) = {"special"}
             ELSE \E ty : type(ty) \in x /\ Labels(x) = LabelsOf(ty, S, A)
  BY <1>2, LabelsTell, SpecialIs DEF IsSpecial
<1>3. \A ty : LabelsOf(ty, S, A) # {"special"} /\ "server" \in LabelsOf(ty, S, A)
              /\ "special" \notin LabelsOf(ty, S, A)
  BY DEF LabelsOf
<1>4. CASE IsSpecial(t)
  <2>1. Labels(t) = {"special"}
    BY <1>2, <1>4
  <2>2. IsSpecial(u)
    BY <1>1, <1>2, <1>3, <2>1
  <2> QED BY <1>4, <2>2, SpecialIs, TypesTell, <1>1, <1>2 DEF IsSpecial, Functional, Labels, TagSpecial
<1>5. CASE ~ IsSpecial(t)
  <2>1. PICK ty : type(ty) \in t /\ Labels(t) = LabelsOf(ty, S, A)
    BY <1>2, <1>5
  <2>2. ~ IsSpecial(u)
    BY <1>1, <1>2, <1>3, <2>1
  <2>3. PICK tz : type(tz) \in u /\ Labels(u) = LabelsOf(tz, S, A)
    BY <1>2, <2>2
  <2>4. ty = tz
    <3>1. type(ty) \in u /\ type(ty).name = type(tz).name
      BY <2>1 DEF type, Tag
    <3>2. type(ty) = type(tz)
      BY <1>1, <2>3, <3>1 DEF Functional
    <3> QED BY <3>2 DEF type, Tag
  <2> QED BY <1>1, <2>1, <2>3, <2>4, TypesTell
<1> QED BY <1>4, <1>5

\* The files of artifacts without pages are their own.
LEMMA NonPagedApart ==
  ASSUME NEW S, NEW A, IsTypes(S, A), NEW t, NEW u, Gathered(t, S, A), Gathered(u, S, A),
         isNonPagedArtifact(t), createFilenameFromTags(t) = createFilenameFromTags(u)
  PROVE  t = u
<1>1. /\ IsSpecial(t) \/ IsProfiles(t)
      /\ IsSpecial(u) \/ IsProfiles(u)
  BY GatheredIs
<1>2. \A n : createFilenameFromTags(TagSpecial(n)) = << <<"misc">>, <<n>> >>
  BY SpecialIs
<1>3. \A s, c, p : createFilenameFromTags(ProfileTags(s, c, p)) = << <<"profiles">>, c, s \o p >>
  BY ProfileIs
<1>4. CASE IsSpecial(t)
  BY <1>1, <1>2, <1>3, <1>4 DEF IsSpecial, IsProfiles
<1>5. CASE IsProfiles(t)
  <2>1. IsProfiles(u)
    BY <1>1, <1>2, <1>3, <1>5 DEF IsSpecial, IsProfiles
  <2>2. PICK s, c, p : p \in ServerProfiles /\ s \in Seq(ToSet(s)) /\ t = ProfileTags(s, c, p)
    BY <1>5 DEF IsProfiles
  <2>3. PICK r, d, q : q \in ServerProfiles /\ r \in Seq(ToSet(r)) /\ u = ProfileTags(r, d, q)
    BY <2>1 DEF IsProfiles
  <2>4. << <<"profiles">>, c, s \o p >> = << <<"profiles">>, d, r \o q >>
    BY <1>3, <2>2, <2>3
  <2>5. c = d /\ s \o p = r \o q
    BY <2>4
  <2>6. PICK v, w : p = <<v>> /\ q = <<w>>
    BY <2>2, <2>3 DEF ServerProfiles
  <2>7. s = r /\ p = q
    <3> DEFINE N == ToSet(s) \cup ToSet(r) \cup {v, w}
    <3>1. s \in Seq(N) /\ r \in Seq(N) /\ <<v>> \in Seq(N) /\ <<w>> \in Seq(N)
      BY <2>2, <2>3
    <3> HIDE DEF N
    <3>2. Len(s) + 1 = Len(r) + 1
      BY <2>5, <2>6, <3>1
    <3>3. \A i \in 1..Len(s) : s[i] = (s \o <<v>>)[i] /\ r[i] = (r \o <<w>>)[i]
      BY <3>1, <3>2
    <3>4. (s \o <<v>>)[Len(s) + 1] = v /\ (r \o <<w>>)[Len(s) + 1] = w
      BY <3>1, <3>2
    <3>5. Len(s) = Len(r) /\ \A i \in 1..Len(s) : s[i] = r[i]
      BY <2>5, <2>6, <3>1, <3>2, <3>3
    <3> QED BY <2>5, <2>6, <3>1, <3>4, <3>5
  <2> QED BY <2>2, <2>3, <2>5, <2>7
<1> QED BY <1>1, <1>4, <1>5

-----------------------------------------------------------------------------
(* The archive: the writer files the artifacts c one after the other.      *)

Dir(x) == createFilenameFromTags(x.tags)
Place(c, i) == Cardinality({j \in 1..i : Dir(c[j]) = Dir(c[i])})
FileAt(c, i) == [dir |-> Dir(c[i]), page |-> IF isNonPagedArtifact(c[i].tags) THEN 0 ELSE Place(c, i)]

LastEntry(zip, f, k) ==
    k \in DOMAIN zip /\ zip[k].file = f /\ \A l \in DOMAIN zip : l > k => zip[l].file # f

Paged(c, d) == {j \in DOMAIN c : Dir(c[j]) = d /\ ~ isNonPagedArtifact(c[j].tags)}

Writer(w, c) ==
    /\ w = [zip |-> w.zip, manifest |-> w.manifest, pagedWriters |-> w.pagedWriters]
    /\ w.zip \in Seq(ToSet(w.zip))
    /\ DOMAIN w.manifest = {FileAt(c, i) : i \in DOMAIN c}
    /\ \A i \in DOMAIN c : w.manifest[FileAt(c, i)] = c[i].tags
    /\ \A d : pageIndex(w, d) = 1 + Cardinality(Paged(c, d))
    /\ \A k \in DOMAIN w.zip : w.zip[k].content # <<>> => \E i \in DOMAIN c : w.zip[k].file = FileAt(c, i)
    /\ \A i \in DOMAIN c :
           (\A j \in DOMAIN c : j > i => FileAt(c, j) # FileAt(c, i)) =>
               \E k : /\ LastEntry(w.zip, FileAt(c, i), k)
                      /\ \/ w.zip[k].content = <<c[i].data>>
                         \/ isNonPagedArtifact(c[i].tags) /\ w.zip[k].content = <<>>

\* The artifacts of a gathering.
Artifacts(c, S, A) == c \in Seq(ToSet(c)) /\ \A i \in DOMAIN c : Gathered(c[i].tags, S, A)

LEMMA Lengthened ==
  ASSUME NEW c, c \in Seq(ToSet(c)), NEW x
  PROVE  LET e == Append(c, x)
         IN  /\ Len(c) \in Nat /\ DOMAIN c = 1..Len(c) /\ DOMAIN e = 1..Len(c) + 1
             /\ e \in Seq(ToSet(e)) /\ (\A i \in 1..Len(c) : e[i] = c[i]) /\ e[Len(c) + 1] = x
             /\ \A i \in DOMAIN e : i \in DOMAIN c \/ i = Len(c) + 1
<1>1. PICK e : e = Append(c, x)
  OBVIOUS
<1>2. e \in Seq(ToSet(e))
  BY <1>1, Appended
<1>3. /\ Len(c) \in Nat /\ DOMAIN c = 1..Len(c) /\ DOMAIN e = 1..Len(c) + 1
      /\ (\A i \in 1..Len(c) : e[i] = c[i]) /\ e[Len(c) + 1] = x
  BY <1>1
<1> QED BY <1>1, <1>2, <1>3

LEMMA Subsets1 ==
  ASSUME NEW n \in Nat, NEW T \in SUBSET (1..n)
  PROVE  IsFiniteSet(T) /\ Cardinality(T) \in Nat
<1>1. IsFiniteSet(1..n)
  BY FS_Interval
<1> QED BY <1>1, FS_Subset, FS_CardinalityType

LEMMA SmallerSet ==
  ASSUME NEW T, IsFiniteSet(T), NEW U \in SUBSET T, NEW x \in T, x \notin U
  PROVE  Cardinality(U) < Cardinality(T) /\ Cardinality(U) \in Nat /\ Cardinality(T) \in Nat
<1>1. IsFiniteSet(U) /\ Cardinality(U) <= Cardinality(T) /\ (Cardinality(U) = Cardinality(T) => U = T)
  BY FS_Subset
<1>2. Cardinality(U) \in Nat /\ Cardinality(T) \in Nat
  BY <1>1, FS_CardinalityType
<1> QED BY <1>1, <1>2

\* A later artifact of a directory has a later page.
LEMMA Later ==
  ASSUME NEW c, c \in Seq(ToSet(c)), NEW i \in DOMAIN c, NEW j \in DOMAIN c, i < j, Dir(c[i]) = Dir(c[j])
  PROVE  Place(c, i) < Place(c, j)
<1>1. Len(c) \in Nat /\ DOMAIN c = 1..Len(c) /\ i \in Nat /\ j \in Nat
  OBVIOUS
<1> DEFINE U == {l \in 1..i : Dir(c[l]) = Dir(c[i])}
           T == {l \in 1..j : Dir(c[l]) = Dir(c[j])}
<1>2. T \in SUBSET (1..j)
  OBVIOUS
<1>3. IsFiniteSet(T)
  BY <1>1, <1>2, Subsets1
<1>4. U \subseteq T /\ j \in T /\ j \notin U
  BY <1>1
<1> HIDE DEF U, T
<1>5. Cardinality(U) < Cardinality(T)
  BY <1>3, <1>4, SmallerSet
<1> QED BY <1>5 DEF U, T, Place

LEMMA PlaceIs ==
  ASSUME NEW c, c \in Seq(ToSet(c)), NEW i \in DOMAIN c
  PROVE  Place(c, i) \in Nat /\ Place(c, i) >= 1
<1>1. i \in Nat /\ i \in 1..i
  OBVIOUS
<1> DEFINE T == {l \in 1..i : Dir(c[l]) = Dir(c[i])}
<1>2. IsFiniteSet(T) /\ i \in T
  BY <1>1, Subsets1
<1>3. T # {} /\ Cardinality(T) \in Nat
  BY <1>2, FS_CardinalityType
<1> HIDE DEF T
<1>4. Cardinality(T) # 0
  BY <1>2, <1>3, FS_EmptySet
<1> QED BY <1>3, <1>4 DEF T, Place

\* Two artifacts in one file are of one kind without pages.
LEMMA FilesApart ==
  ASSUME NEW S, NEW A, IsTypes(S, A), NEW c, Artifacts(c, S, A), NEW i \in DOMAIN c, NEW j \in DOMAIN c,
         FileAt(c, i) = FileAt(c, j), i # j
  PROVE  isNonPagedArtifact(c[i].tags) /\ c[i].tags = c[j].tags
<1>1. Dir(c[i]) = Dir(c[j]) /\ FileAt(c, i).page = FileAt(c, j).page
  BY DEF FileAt
<1>2. isNonPagedArtifact(c[i].tags) <=> isNonPagedArtifact(c[j].tags)
  BY <1>1, GatheredIs DEF Dir, Artifacts
<1>3. CASE isNonPagedArtifact(c[i].tags)
  BY <1>1, <1>3, NonPagedApart DEF Dir, Artifacts
<1>4. CASE ~ isNonPagedArtifact(c[i].tags)
  <2>1. Place(c, i) = Place(c, j)
    BY <1>1, <1>2, <1>4 DEF FileAt
  <2>2. i \in Nat /\ j \in Nat
    BY DEF Artifacts
  <2>3. i < j \/ j < i
    BY <2>2
  <2>4. Place(c, i) \in Nat /\ Place(c, j) \in Nat
    BY PlaceIs DEF Artifacts
  <2> QED BY <1>1, <2>1, <2>3, <2>4, Later DEF Artifacts
<1> QED BY <1>3, <1>4

\* What was filed stays where it is; the next goes where the writer puts it.
LEMMA NextFile ==
  ASSUME NEW S, NEW A, IsTypes(S, A), NEW c, NEW x, Artifacts(c, S, A), Gathered(x.tags, S, A),
         NEW w, Writer(w, c)
  PROVE  LET e == Append(c, x)
         IN  /\ Artifacts(e, S, A)
             /\ \A i \in DOMAIN c : FileAt(e, i) = FileAt(c, i)
             /\ FileAt(e, Len(c) + 1) = fileFor(w, x.tags)
             /\ \A d : Paged(e, d) = Paged(c, d) \cup
                          (IF Dir(x) = d /\ ~ isNonPagedArtifact(x.tags) THEN {Len(c) + 1} ELSE {})
<1>1. PICK e : e = Append(c, x)
  OBVIOUS
<1>2. PICK n : n = Len(c)
  OBVIOUS
<1>3. /\ n \in Nat /\ DOMAIN c = 1..n /\ DOMAIN e = 1..n + 1 /\ e \in Seq(ToSet(e))
      /\ (\A i \in 1..n : e[i] = c[i]) /\ e[n + 1] = x
      /\ \A i \in DOMAIN e : i \in DOMAIN c \/ i = n + 1
  BY <1>1, <1>2, Lengthened DEF Artifacts
<1>4. Artifacts(e, S, A)
  BY <1>3 DEF Artifacts
<1>5. ASSUME NEW i \in DOMAIN c PROVE FileAt(e, i) = FileAt(c, i)
  <2>1. i \in 1..n /\ \A j \in 1..i : j \in 1..n
    BY <1>3
  <2>2. {j \in 1..i : Dir(e[j]) = Dir(e[i])} = {j \in 1..i : Dir(c[j]) = Dir(c[i])}
    BY <1>3, <2>1
  <2> QED BY <1>3, <2>1, <2>2 DEF FileAt, Place
<1>6. ASSUME NEW d
      PROVE  Paged(e, d) = Paged(c, d) \cup (IF Dir(x) = d /\ ~ isNonPagedArtifact(x.tags) THEN {n + 1} ELSE {})
  BY <1>3 DEF Paged
<1>7. FileAt(e, n + 1) = fileFor(w, x.tags)
  <2>1. CASE isNonPagedArtifact(x.tags)
    BY <1>3, <2>1 DEF FileAt, fileFor, Dir, dirNameFromTags
  <2>2. CASE ~ isNonPagedArtifact(x.tags)
    <3>1. \A j \in DOMAIN c : Dir(c[j]) = Dir(x) => ~ isNonPagedArtifact(c[j].tags)
      BY <2>2, GatheredIs DEF Dir, Artifacts
    <3>2. {j \in 1..n + 1 : Dir(e[j]) = Dir(e[n + 1])} = Paged(c, Dir(x)) \cup {n + 1}
      BY <1>3, <3>1 DEF Paged
    <3>3. n + 1 \notin Paged(c, Dir(x)) /\ Paged(c, Dir(x)) \in SUBSET (1..n)
      BY <1>3 DEF Paged
    <3>4. IsFiniteSet(Paged(c, Dir(x))) /\ Cardinality(Paged(c, Dir(x))) \in Nat
      BY <1>3, <3>3, Subsets1
    <3>5. Place(e, n + 1) = Cardinality(Paged(c, Dir(x))) + 1
      BY <3>2, <3>3, <3>4, FS_AddElement DEF Place
    <3>6. pageIndex(w, Dir(x)) = 1 + Cardinality(Paged(c, Dir(x)))
      BY DEF Writer
    <3>7. pageIndex(w, Dir(x)) = Place(e, n + 1)
      BY <3>4, <3>5, <3>6
    <3> QED BY <1>3, <2>2, <3>7 DEF FileAt, fileFor, Dir, dirNameFromTags
  <2> QED BY <2>1, <2>2
<1> QED BY <1>1, <1>2, <1>4, <1>5, <1>6, <1>7

\* An artifact that is written is the last of its file.
LEMMA WriterAdds ==
  ASSUME NEW S, NEW A, IsTypes(S, A), NEW c, NEW x, Artifacts(c, S, A), Gathered(x.tags, S, A),
         NEW w, Writer(w, c)
  PROVE  Writer(AddRaw(w, x.tags, x.data), Append(c, x))
<1>1. PICK e : e = Append(c, x)
  OBVIOUS
<1>2. PICK n : n = Len(c)
  OBVIOUS
<1>3. PICK v : v = AddRaw(w, x.tags, x.data)
  OBVIOUS
<1>4. PICK f : f = fileFor(w, x.tags)
  OBVIOUS
<1>5. /\ n \in Nat /\ DOMAIN c = 1..n /\ DOMAIN e = 1..n + 1
      /\ (\A i \in 1..n : e[i] = c[i]) /\ e[n + 1] = x
      /\ \A i \in DOMAIN e : i \in DOMAIN c \/ i = n + 1
  BY <1>1, <1>2, Lengthened DEF Artifacts
<1>6. /\ Artifacts(e, S, A) /\ (\A i \in DOMAIN c : FileAt(e, i) = FileAt(c, i)) /\ FileAt(e, n + 1) = f
      /\ \A d : Paged(e, d) = Paged(c, d) \cup
                   (IF Dir(x) = d /\ ~ isNonPagedArtifact(x.tags) THEN {n + 1} ELSE {})
  BY <1>1, <1>2, <1>4, NextFile
<1>7. PICK z : z = [file |-> f, content |-> <<x.data>>]
  OBVIOUS
<1>8. PICK m : m = Len(w.zip)
  OBVIOUS
<1>9. v = [zip |-> v.zip, manifest |-> v.manifest, pagedWriters |-> v.pagedWriters]
  BY <1>3 DEF AddRaw
<1>10. v.zip = Append(w.zip, z) /\ v.manifest = set(w.manifest, f, x.tags)
  BY <1>3, <1>4, <1>7 DEF AddRaw, entry
<1>11. /\ m \in Nat /\ DOMAIN w.zip = 1..m /\ DOMAIN v.zip = 1..m + 1 /\ v.zip \in Seq(ToSet(v.zip))
       /\ (\A k \in 1..m : v.zip[k] = w.zip[k]) /\ v.zip[m + 1] = z
       /\ \A k \in DOMAIN v.zip : k \in DOMAIN w.zip \/ k = m + 1
  BY <1>8, <1>10, Lengthened DEF Writer
<1>12. DOMAIN v.manifest = {FileAt(e, i) : i \in DOMAIN e}
  <2>1. DOMAIN v.manifest = DOMAIN w.manifest \cup {f}
    BY <1>10 DEF set
  <2>2. DOMAIN w.manifest = {FileAt(c, i) : i \in DOMAIN c}
    BY DEF Writer
  <2> QED BY <1>5, <1>6, <2>1, <2>2
<1>13. ASSUME NEW i \in DOMAIN e PROVE v.manifest[FileAt(e, i)] = e[i].tags
  <2>1. FileAt(e, i) \in DOMAIN w.manifest \cup {f}
    BY <1>10, <1>12 DEF set
  <2>2. CASE FileAt(e, i) = f
    <3>1. e[i].tags = x.tags
      <4>1. CASE i = n + 1
        BY <1>5, <4>1
      <4>2. CASE i # n + 1
        BY <1>5, <1>6, <2>2, <4>2, FilesApart
      <4> QED BY <4>1, <4>2
    <3> QED BY <1>10, <2>1, <2>2, <3>1 DEF set
  <2>3. CASE FileAt(e, i) # f
    <3>1. i \in DOMAIN c /\ FileAt(e, i) = FileAt(c, i) /\ e[i] = c[i]
      BY <1>5, <1>6, <2>3
    <3>2. w.manifest[FileAt(c, i)] = c[i].tags
      BY <3>1 DEF Writer
    <3> QED BY <1>10, <2>1, <2>3, <3>1, <3>2 DEF set
  <2> QED BY <2>2, <2>3
<1>14. ASSUME NEW d PROVE pageIndex(v, d) = 1 + Cardinality(Paged(e, d))
  <2>1. pageIndex(w, d) = 1 + Cardinality(Paged(c, d)) /\ Dir(x) = dirNameFromTags(x.tags)
    BY DEF Writer, Dir, dirNameFromTags
  <2>2. CASE isNonPagedArtifact(x.tags)
    <3>1. v.pagedWriters = w.pagedWriters /\ Paged(e, d) = Paged(c, d)
      BY <1>3, <1>6, <2>2 DEF AddRaw
    <3> QED BY <2>1, <3>1 DEF pageIndex
  <2>3. CASE ~ isNonPagedArtifact(x.tags)
    <3>1. v.pagedWriters = set(w.pagedWriters, Dir(x), pageIndex(w, Dir(x)) + 1)
      BY <1>3, <2>1, <2>3 DEF AddRaw, nextPage
    <3>2. CASE d # Dir(x)
      <4>1. pageIndex(v, d) = pageIndex(w, d)
        BY <3>1, <3>2 DEF pageIndex, set
      <4> QED BY <1>6, <2>1, <3>2, <4>1
    <3>3. CASE d = Dir(x)
      <4>1. pageIndex(v, d) = pageIndex(w, d) + 1
        BY <3>1, <3>3 DEF pageIndex, set
      <4>2. Paged(e, d) = Paged(c, d) \cup {n + 1}
        BY <1>6, <2>3, <3>3
      <4>3. n + 1 \notin Paged(c, d) /\ Paged(c, d) \in SUBSET (1..n)
        BY <1>5 DEF Paged
      <4>4. IsFiniteSet(Paged(c, d)) /\ Cardinality(Paged(c, d)) \in Nat
        BY <1>5, <4>3, Subsets1
      <4>5. Cardinality(Paged(e, d)) = Cardinality(Paged(c, d)) + 1
        BY <4>2, <4>3, <4>4, FS_AddElement
      <4> QED BY <2>1, <4>1, <4>4, <4>5
    <3> QED BY <3>2, <3>3
  <2> QED BY <2>2, <2>3
<1>15. ASSUME NEW k \in DOMAIN v.zip, v.zip[k].content # <<>>
       PROVE  \E i \in DOMAIN e : v.zip[k].file = FileAt(e, i)
  <2>1. CASE k = m + 1
    <3>1. v.zip[k].file = FileAt(e, n + 1) /\ n + 1 \in DOMAIN e
      BY <1>5, <1>6, <1>7, <1>11, <2>1
    <3> QED BY <3>1
  <2>2. CASE k \in DOMAIN w.zip
    <3>1. v.zip[k] = w.zip[k]
      BY <1>11, <2>2
    <3>2. PICK i \in DOMAIN c : w.zip[k].file = FileAt(c, i)
      BY <1>15, <2>2, <3>1 DEF Writer
    <3>3. i \in DOMAIN e
      BY <1>5
    <3> QED BY <1>6, <3>1, <3>2, <3>3
  <2> QED BY <1>11, <2>1, <2>2
<1>16. ASSUME NEW i \in DOMAIN e, \A j \in DOMAIN e : j > i => FileAt(e, j) # FileAt(e, i)
       PROVE  \E k : /\ LastEntry(v.zip, FileAt(e, i), k)
                     /\ \/ v.zip[k].content = <<e[i].data>>
                        \/ isNonPagedArtifact(e[i].tags) /\ v.zip[k].content = <<>>
  <2>1. CASE i = n + 1
    <3>1. m + 1 \in DOMAIN v.zip /\ v.zip[m + 1].file = f /\ v.zip[m + 1].content = <<x.data>>
          /\ \A l \in DOMAIN v.zip : ~ (l > m + 1)
      BY <1>7, <1>11
    <3>2. LastEntry(v.zip, f, m + 1)
      BY <3>1 DEF LastEntry
    <3> QED BY <1>5, <1>6, <2>1, <3>1, <3>2
  <2>2. CASE i \in DOMAIN c
    <3>1. n + 1 \in DOMAIN e /\ n + 1 > i
      BY <1>5, <2>2
    <3>2. FileAt(e, i) = FileAt(c, i) /\ e[i] = c[i] /\ FileAt(c, i) # f
      BY <1>5, <1>6, <1>16, <2>2, <3>1
    <3>3. \A j \in DOMAIN c : j \in DOMAIN e
      BY <1>5
    <3>4. \A j \in DOMAIN c : j > i => FileAt(c, j) # FileAt(c, i)
      BY <1>6, <1>16, <2>2, <3>3
    <3>5. PICK k : /\ LastEntry(w.zip, FileAt(c, i), k)
                   /\ \/ w.zip[k].content = <<c[i].data>>
                      \/ isNonPagedArtifact(c[i].tags) /\ w.zip[k].content = <<>>
      BY <2>2, <3>4 DEF Writer
    <3>6. k \in DOMAIN w.zip /\ v.zip[k] = w.zip[k]
      BY <1>11, <3>5 DEF LastEntry
    <3>7. v.zip[m + 1].file # FileAt(c, i)
      BY <1>7, <1>11, <3>2
    <3>8. LastEntry(v.zip, FileAt(c, i), k)
      BY <1>11, <3>5, <3>6, <3>7 DEF LastEntry
    <3> QED BY <3>2, <3>5, <3>6, <3>8
  <2> QED BY <1>5, <2>1, <2>2
<1>17. v.zip \in Seq(ToSet(v.zip))
  BY <1>11
<1>18. Writer(v, e)
  BY <1>9, <1>12, <1>13, <1>14, <1>15, <1>16, <1>17, Zenon DEF Writer
<1> QED BY <1>1, <1>3, <1>18

\* A torn write is of a file of its own, or of one without pages.
LEMMA TornApart ==
  ASSUME NEW S, NEW A, IsTypes(S, A), NEW c, Artifacts(c, S, A), NEW t, Gathered(t, S, A),
         NEW w, Writer(w, c), NEW i \in DOMAIN c, FileAt(c, i) = fileFor(w, t)
  PROVE  isNonPagedArtifact(c[i].tags) /\ c[i].tags = t
<1>1. PICK x : x = [tags |-> t]
  OBVIOUS
<1>2. x.tags = t
  BY <1>1
<1>3. PICK e : e = Append(c, x)
  OBVIOUS
<1>4. PICK n : n = Len(c)
  OBVIOUS
<1>5. n \in Nat /\ DOMAIN c = 1..n /\ DOMAIN e = 1..n + 1 /\ (\A j \in 1..n : e[j] = c[j]) /\ e[n + 1] = x
  BY <1>3, <1>4, Lengthened DEF Artifacts
<1>6. Artifacts(e, S, A) /\ FileAt(e, i) = FileAt(c, i) /\ FileAt(e, n + 1) = fileFor(w, t)
  BY <1>2, <1>3, <1>4, NextFile
<1>7. i \in DOMAIN e /\ n + 1 \in DOMAIN e /\ i # n + 1 /\ e[i] = c[i]
  BY <1>5
<1>8. isNonPagedArtifact(e[i].tags) /\ e[i].tags = e[n + 1].tags
  BY <1>6, <1>7, FilesApart
<1> QED BY <1>2, <1>5, <1>7, <1>8

LEMMA TornKeeps ==
  ASSUME NEW S, NEW A, IsTypes(S, A), NEW c, Artifacts(c, S, A), NEW t, Gathered(t, S, A),
         NEW w, Writer(w, c)
  PROVE  Writer(AddRawTorn(w, t), c)
<1>1. PICK v : v = AddRawTorn(w, t)
  OBVIOUS
<1>2. PICK z : z = [file |-> fileFor(w, t), content |-> <<>>]
  OBVIOUS
<1>3. PICK m : m = Len(w.zip)
  OBVIOUS
<1>4. /\ v = [zip |-> v.zip, manifest |-> v.manifest, pagedWriters |-> v.pagedWriters]
      /\ v.zip = Append(w.zip, z) /\ v.manifest = w.manifest /\ v.pagedWriters = w.pagedWriters
  <2>1. w = [zip |-> w.zip, manifest |-> w.manifest, pagedWriters |-> w.pagedWriters]
    BY DEF Writer
  <2>2. v = [w EXCEPT !.zip = Append(w.zip, z)]
    BY <1>1, <1>2 DEF AddRawTorn, entry
  <2> QED BY <2>1, <2>2
<1>5. /\ m \in Nat /\ DOMAIN w.zip = 1..m /\ DOMAIN v.zip = 1..m + 1 /\ v.zip \in Seq(ToSet(v.zip))
      /\ (\A k \in 1..m : v.zip[k] = w.zip[k]) /\ v.zip[m + 1] = z
      /\ \A k \in DOMAIN v.zip : k \in DOMAIN w.zip \/ k = m + 1
  BY <1>3, <1>4, Lengthened DEF Writer
<1>6. \A d : pageIndex(v, d) = 1 + Cardinality(Paged(c, d))
  BY <1>4 DEF Writer, pageIndex
<1>7. ASSUME NEW k \in DOMAIN v.zip, v.zip[k].content # <<>>
      PROVE  \E i \in DOMAIN c : v.zip[k].file = FileAt(c, i)
  <2>1. k # m + 1
    BY <1>2, <1>5, <1>7
  <2>2. k \in DOMAIN w.zip /\ v.zip[k] = w.zip[k]
    BY <1>5, <2>1
  <2> QED BY <1>7, <2>2 DEF Writer
<1>8. ASSUME NEW i \in DOMAIN c, \A j \in DOMAIN c : j > i => FileAt(c, j) # FileAt(c, i)
      PROVE  \E k : /\ LastEntry(v.zip, FileAt(c, i), k)
                    /\ \/ v.zip[k].content = <<c[i].data>>
                       \/ isNonPagedArtifact(c[i].tags) /\ v.zip[k].content = <<>>
  <2>1. CASE FileAt(c, i) = fileFor(w, t)
    <3>1. isNonPagedArtifact(c[i].tags)
      BY <2>1, TornApart
    <3>2. m + 1 \in DOMAIN v.zip /\ v.zip[m + 1].file = FileAt(c, i) /\ v.zip[m + 1].content = <<>>
          /\ \A l \in DOMAIN v.zip : ~ (l > m + 1)
      BY <1>2, <1>5, <2>1
    <3>3. LastEntry(v.zip, FileAt(c, i), m + 1)
      BY <3>2 DEF LastEntry
    <3> QED BY <3>1, <3>2, <3>3
  <2>2. CASE FileAt(c, i) # fileFor(w, t)
    <3>1. PICK k : /\ LastEntry(w.zip, FileAt(c, i), k)
                   /\ \/ w.zip[k].content = <<c[i].data>>
                      \/ isNonPagedArtifact(c[i].tags) /\ w.zip[k].content = <<>>
      BY <1>8 DEF Writer
    <3>2. k \in DOMAIN w.zip /\ v.zip[k] = w.zip[k] /\ v.zip[m + 1].file # FileAt(c, i)
      BY <1>2, <1>5, <2>2, <3>1 DEF LastEntry
    <3>3. LastEntry(v.zip, FileAt(c, i), k)
      BY <1>5, <3>1, <3>2 DEF LastEntry
    <3> QED BY <3>1, <3>2, <3>3
  <2> QED BY <2>1, <2>2
<1>9. DOMAIN v.manifest = {FileAt(c, i) : i \in DOMAIN c} /\ \A i \in DOMAIN c : v.manifest[FileAt(c, i)] = c[i].tags
  BY <1>4 DEF Writer
<1>10. v.zip \in Seq(ToSet(v.zip))
  BY <1>5
<1>11. v = [zip |-> v.zip, manifest |-> v.manifest, pagedWriters |-> v.pagedWriters]
  BY <1>4
<1>12. Writer(v, c)
  BY <1>6, <1>7, <1>8, <1>9, <1>10, <1>11, Zenon DEF Writer
<1> QED BY <1>1, <1>12

-----------------------------------------------------------------------------
(* The reader of an archive that was closed.                               *)

LEMMA NatMax == ASSUME NEW n \in Nat, NEW T \in SUBSET (1..n), T # {}
  PROVE  Max(T) \in T /\ \A m \in T : m <= Max(T)
<1> DEFINE U == {n - m : m \in T}
<1>1. U \subseteq Nat /\ U # {}
  <2>1. \A m \in T : n - m \in Nat
    OBVIOUS
  <2> QED BY <2>1
<1> HIDE DEF U
<1>2. PICK u \in U : \A v \in U : u <= v
  BY <1>1, NatMin
<1>3. PICK x \in T : u = n - x
  BY <1>2 DEF U
<1>4. \A m \in T : x >= m
  <2> SUFFICES ASSUME NEW m \in T PROVE x >= m
    OBVIOUS
  <2>1. n - x <= n - m
    BY <1>2, <1>3 DEF U
  <2> QED BY <2>1
<1>5. Max(T) \in T /\ \A m \in T : Max(T) >= m
  BY <1>4 DEF Max
<1> QED BY <1>5

LEMMA LastIs ==
  ASSUME NEW zip, zip \in Seq(ToSet(zip)), NEW f, NEW k, LastEntry(zip, f, k)
  PROVE  f \in DOMAIN filesMap(zip) /\ filesMap(zip)[f] = zip[k].content
<1>1. PICK n : n = Len(zip)
  OBVIOUS
<1>2. n \in Nat /\ DOMAIN zip = 1..n /\ k \in 1..n /\ zip[k].file = f
      /\ \A l \in 1..n : l > k => zip[l].file # f
  BY <1>1 DEF LastEntry
<1>3. k \in entries(zip, f) /\ entries(zip, f) \in SUBSET (1..n) /\ \A l \in entries(zip, f) : l <= k
  BY <1>2 DEF entries
<1>4. Max(entries(zip, f)) = k
  <2>1. Max(entries(zip, f)) \in entries(zip, f) /\ \A m \in entries(zip, f) : m <= Max(entries(zip, f))
    BY <1>2, <1>3, NatMax
  <2> QED BY <1>2, <1>3, <2>1
<1> QED BY <1>2, <1>4 DEF filesMap

\* The last artifact of a file.
LastOf(c, i) == \A j \in DOMAIN c : j > i => FileAt(c, j) # FileAt(c, i)

LEMMA HasLast ==
  ASSUME NEW c, c \in Seq(ToSet(c)), NEW i \in DOMAIN c
  PROVE  \E j \in DOMAIN c : FileAt(c, j) = FileAt(c, i) /\ LastOf(c, j)
<1>1. PICK n : n = Len(c) /\ n \in Nat /\ DOMAIN c = 1..n
  OBVIOUS
<1> DEFINE T == {j \in 1..n : FileAt(c, j) = FileAt(c, i)}
<1>2. T \in SUBSET (1..n) /\ i \in T
  BY <1>1
<1>3. Max(T) \in T /\ \A m \in T : m <= Max(T)
  BY <1>1, <1>2, NatMax
<1>4. PICK j \in T : \A m \in T : m <= j
  BY <1>3
<1>5. LastOf(c, j)
  BY <1>1, <1>4 DEF LastOf
<1> QED BY <1>1, <1>4, <1>5

\* What a reader r of the entries zip finds of the artifacts c.
Finds(r, zip, c) ==
    /\ r.readable /\ DOMAIN r.manifest = {FileAt(c, i) : i \in DOMAIN c}
    /\ \A i \in DOMAIN c : r.manifest[FileAt(c, i)] = c[i].tags
    /\ (\A k \in DOMAIN zip : zip[k].content # <<>>) => r.warnings = {}
    /\ \A i \in DOMAIN c : LastOf(c, i) =>
           \/ r.files[FileAt(c, i)] = <<c[i].data>>
           \/ /\ isNonPagedArtifact(c[i].tags) /\ r.files[FileAt(c, i)] = <<>>
              /\ \E k \in DOMAIN zip : zip[k].file = FileAt(c, i) /\ zip[k].content = <<>>

LEMMA NotManifest ==
  ASSUME NEW S, NEW A, IsTypes(S, A), NEW t, Gathered(t, S, A)
  PROVE  createFilenameFromTags(t) # manifestFile.dir
<1>1. manifestFile.dir = << <<"misc">>, <<"manifest">> >>
  BY SpecialIs DEF manifestFile
<1>2. CASE IsSpecial(t)
  <2>1. PICK n \in Specials : t = TagSpecial(n)
    BY <1>2 DEF IsSpecial
  <2>2. createFilenameFromTags(t) = << <<"misc">>, <<n>> >>
    BY <2>1, SpecialIs
  <2> QED BY <1>1, <2>1, <2>2 DEF Specials
<1>3. CASE IsProfiles(t)
  <2>1. createFilenameFromTags(t)[1] = <<"profiles">>
    BY <1>3, ProfileIs DEF IsProfiles
  <2> QED BY <1>1, <2>1
<1>4. CASE ~ IsSpecial(t) /\ ~ IsProfiles(t)
  <2>1. createFilenameFromTags(t)[1] # <<"misc">>
    BY <1>4, GatheredIs
  <2> QED BY <1>1, <2>1
<1> QED BY <1>2, <1>3, <1>4

LEMMA ClosedReads ==
  ASSUME NEW S, NEW A, IsTypes(S, A), NEW c, Artifacts(c, S, A), NEW w, Writer(w, c)
  PROVE  Finds(NewReader(Close(w).zip), Close(w).zip, c)
<1>1. PICK Z : Z = Close(w).zip
  OBVIOUS
<1>2. PICK m : m = Len(w.zip)
  OBVIOUS
<1>3. PICK z : z = [file |-> manifestFile, content |-> <<w.manifest>>]
  OBVIOUS
<1>4. Z = Append(w.zip, z)
  <2>1. fileFor(w, TagSpecial("manifest")) = manifestFile
    BY SpecialIs DEF fileFor, manifestFile, dirNameFromTags
  <2> QED BY <1>1, <1>3, <2>1 DEF Close, AddRaw, entry
<1>5. /\ m \in Nat /\ DOMAIN w.zip = 1..m /\ DOMAIN Z = 1..m + 1 /\ Z \in Seq(ToSet(Z))
      /\ (\A k \in 1..m : Z[k] = w.zip[k]) /\ Z[m + 1] = z
      /\ \A k \in DOMAIN Z : k \in DOMAIN w.zip \/ k = m + 1
  BY <1>2, <1>4, Lengthened DEF Writer
<1>6. PICK F : F = filesMap(Z)
  OBVIOUS
<1>7. manifestFile \in DOMAIN F /\ F[manifestFile] = <<w.manifest>>
  <2>1. LastEntry(Z, manifestFile, m + 1)
    BY <1>3, <1>5 DEF LastEntry
  <2>2. Z[m + 1].content = <<w.manifest>>
    BY <1>3, <1>5
  <2> QED BY <1>5, <1>6, <2>1, <2>2, LastIs
<1>8. ASSUME NEW i \in DOMAIN c PROVE FileAt(c, i) # manifestFile
  <2>1. Dir(c[i]) # manifestFile.dir
    BY NotManifest DEF Artifacts, Dir
  <2> QED BY <2>1 DEF FileAt
<1>9. ASSUME NEW i \in DOMAIN c, LastOf(c, i)
      PROVE  /\ FileAt(c, i) \in DOMAIN F
             /\ \/ F[FileAt(c, i)] = <<c[i].data>>
                \/ /\ isNonPagedArtifact(c[i].tags) /\ F[FileAt(c, i)] = <<>>
                   /\ \E k \in DOMAIN Z : Z[k].file = FileAt(c, i) /\ Z[k].content = <<>>
  <2>1. PICK k : /\ LastEntry(w.zip, FileAt(c, i), k)
                 /\ \/ w.zip[k].content = <<c[i].data>>
                    \/ isNonPagedArtifact(c[i].tags) /\ w.zip[k].content = <<>>
    BY <1>9 DEF Writer, LastOf
  <2>2. k \in DOMAIN w.zip /\ k \in DOMAIN Z /\ Z[k] = w.zip[k] /\ Z[m + 1].file # FileAt(c, i)
        /\ w.zip[k].file = FileAt(c, i)
    BY <1>3, <1>5, <1>8, <2>1 DEF LastEntry
  <2>3. LastEntry(Z, FileAt(c, i), k)
    BY <1>5, <2>1, <2>2 DEF LastEntry
  <2>4. FileAt(c, i) \in DOMAIN F /\ F[FileAt(c, i)] = Z[k].content
    BY <1>5, <1>6, <2>3, LastIs
  <2> QED BY <2>1, <2>2, <2>4
<1>10. DOMAIN w.manifest = {FileAt(c, i) : i \in DOMAIN c} /\ \A i \in DOMAIN c : w.manifest[FileAt(c, i)] = c[i].tags
  BY DEF Writer
<1>11. DOMAIN w.manifest \subseteq DOMAIN F
  <2> SUFFICES ASSUME NEW i \in DOMAIN c PROVE FileAt(c, i) \in DOMAIN F
    BY <1>10
  <2>1. PICK j \in DOMAIN c : FileAt(c, j) = FileAt(c, i) /\ LastOf(c, j)
    BY HasLast DEF Artifacts
  <2> QED BY <1>9, <2>1
<1>12. PICK r : r = NewReader(Z)
  OBVIOUS
<1>13. r = [manifest |-> w.manifest, files |-> F, readable |-> TRUE,
            warnings |-> DOMAIN F \ (DOMAIN w.manifest \cup {manifestFile})]
  <2>1. <<w.manifest>> # <<>> /\ <<w.manifest>>[1] = w.manifest
    OBVIOUS
  <2> QED BY <1>6, <1>7, <1>11, <1>12, <2>1 DEF NewReader
<1>14. r.readable /\ r.manifest = w.manifest /\ r.files = F
       /\ r.warnings = DOMAIN F \ (DOMAIN w.manifest \cup {manifestFile})
  BY <1>13
<1>15. (\A k \in DOMAIN Z : Z[k].content # <<>>) => r.warnings = {}
  <2> SUFFICES ASSUME \A k \in DOMAIN Z : Z[k].content # <<>>, NEW f \in DOMAIN F
               PROVE  f \in DOMAIN w.manifest \cup {manifestFile}
    BY <1>14
  <2>1. PICK k \in DOMAIN Z : f = Z[k].file
    BY <1>6 DEF filesMap
  <2>2. CASE k = m + 1
    BY <1>3, <1>5, <2>1, <2>2
  <2>3. CASE k \in DOMAIN w.zip
    <3>1. Z[k] = w.zip[k] /\ w.zip[k].content # <<>>
      BY <1>5, <2>3
    <3>2. \E i \in DOMAIN c : w.zip[k].file = FileAt(c, i)
      BY <2>3, <3>1 DEF Writer
    <3> QED BY <1>10, <2>1, <3>1, <3>2
  <2> QED BY <1>5, <2>2, <2>3
<1>16. Finds(r, Z, c)
  BY <1>9, <1>10, <1>14, <1>15, Zenon DEF Finds
<1> QED BY <1>1, <1>12, <1>16

LEMMA QueryIs ==
  ASSUME NEW S, NEW A, IsTypes(S, A), NEW c, Artifacts(c, S, A), NEW r, NEW zip, Finds(r, zip, c),
         NEW i \in DOMAIN c
  PROVE  LET found == intersectFileSets(r, c[i].tags)
         IN  /\ \A j \in DOMAIN c : c[j].tags = c[i].tags => FileAt(c, j) \in found
             /\ \A f \in found : \E j \in DOMAIN c : c[j].tags = c[i].tags /\ f = FileAt(c, j)
<1>1. PICK t : t = c[i].tags /\ Gathered(t, S, A)
  BY DEF Artifacts
<1>2. t # {}
  <2>1. CASE IsSpecial(t)
    BY <2>1 DEF IsSpecial, TagSpecial
  <2>2. CASE ~ IsSpecial(t)
    BY <1>1, <2>2, LabelsTell
  <2> QED BY <2>1, <2>2
<1>3. intersectFileSets(r, t) = {f \in DOMAIN r.manifest : t \subseteq r.manifest[f]}
  BY <1>2 DEF intersectFileSets
<1>4. /\ DOMAIN r.manifest = {FileAt(c, j) : j \in DOMAIN c}
      /\ \A j \in DOMAIN c : r.manifest[FileAt(c, j)] = c[j].tags
  BY DEF Finds
<1>5. \A j \in DOMAIN c : t \subseteq c[j].tags => c[j].tags = t
  BY <1>1, TagsApart DEF Artifacts
<1> QED BY <1>1, <1>3, <1>4, <1>5

\* An artifact without pages is read as it was written last, or torn.
LEMMA NonPagedReads ==
  ASSUME NEW S, NEW A, IsTypes(S, A), NEW c, Artifacts(c, S, A), NEW r, NEW zip, Finds(r, zip, c),
         NEW i \in DOMAIN c, isNonPagedArtifact(c[i].tags)
  PROVE  \/ Load(r, c[i].tags) = <<c[Max({j \in DOMAIN c : c[j].tags = c[i].tags})].data>>
         \/ \E k \in DOMAIN zip : zip[k].file = fileFor(NewWriter, c[i].tags) /\ zip[k].content = <<>>
<1>1. PICK t : t = c[i].tags
  OBVIOUS
<1>2. PICK f : f = FileAt(c, i)
  OBVIOUS
<1>3. PICK n : n = Len(c) /\ n \in Nat /\ DOMAIN c = 1..n
  BY DEF Artifacts
<1>4. f = fileFor(NewWriter, t)
  BY <1>1, <1>2 DEF FileAt, fileFor, Dir, dirNameFromTags
<1>5. \A j \in DOMAIN c : c[j].tags = t => FileAt(c, j) = f
  BY <1>1, <1>2 DEF FileAt, Dir
<1>6. intersectFileSets(r, t) = {f}
  <2>1. PICK found : found = intersectFileSets(r, t)
    OBVIOUS
  <2>2. /\ \A j \in DOMAIN c : c[j].tags = t => FileAt(c, j) \in found
        /\ \A g \in found : \E j \in DOMAIN c : c[j].tags = t /\ g = FileAt(c, j)
    BY <1>1, <2>1, QueryIs
  <2> QED BY <1>1, <1>2, <1>5, <2>1, <2>2
<1>7. Load(r, t) = r.files[f]
  <2>1. Cardinality({f}) = 1
    BY FS_Singleton
  <2> QED BY <1>6, <2>1 DEF Load
<1>8. PICK W : W = {j \in DOMAIN c : c[j].tags = t}
  OBVIOUS
<1>9. PICK j : j = Max(W)
  OBVIOUS
<1>10. j \in W /\ \A l \in W : l <= j
  <2>1. W \in SUBSET (1..n) /\ i \in W
    BY <1>1, <1>3, <1>8
  <2> QED BY <1>3, <1>9, <2>1, NatMax
<1>11. j \in DOMAIN c /\ c[j].tags = t /\ FileAt(c, j) = f
  BY <1>5, <1>8, <1>10
<1>12. LastOf(c, j)
  <2> SUFFICES ASSUME NEW l \in DOMAIN c, l > j, FileAt(c, l) = FileAt(c, j) PROVE FALSE
    BY DEF LastOf
  <2>1. l # j
    BY <1>3, <1>11
  <2>2. c[l].tags = t
    BY <1>11, <2>1, FilesApart
  <2>3. l <= j
    BY <1>8, <1>10, <2>2
  <2> QED BY <1>3, <1>11, <2>3
<1>13. \/ r.files[f] = <<c[j].data>>
       \/ \E k \in DOMAIN zip : zip[k].file = f /\ zip[k].content = <<>>
  BY <1>11, <1>12 DEF Finds
<1> QED BY <1>1, <1>4, <1>7, <1>8, <1>9, <1>13

\* The pages of a directory are read in their order, each at its rank.
LEMMA FlattenOne == ASSUME NEW q, DOMAIN q = 1..1, Len(q) = 1 PROVE FlattenSeq(q) = q[1]
<1> DEFINE R(g) == g = [i \in 1..Len(q) |-> IF i = 1 THEN q[i] ELSE g[i-1] \o q[i]]
           flatten == CHOOSE g : R(g)
<1>1. PICK h : h = [i \in 1..1 |-> q[i]]
  OBVIOUS
<1>2. R(h)
  BY <1>1
<1>3. R(flatten)
  BY <1>2
<1>4. flatten[1] = q[1]
  BY <1>3
<1>5. FlattenSeq(q) = flatten[Len(q)]
  BY DEF FlattenSeq
<1> QED BY <1>4, <1>5

LEMMA OnlyOne == ASSUME NEW d PROVE Cardinality({d}) = 1 /\ SetToSeq({d})[1] = d
<1>1. Cardinality({d}) = 1
  BY FS_Singleton
<1>2. PICK h : h = [j \in 1..1 |-> d]
  OBVIOUS
<1>3. h \in [1..1 -> {d}] /\ IsInjective(h)
  BY <1>2 DEF IsInjective
<1>4. SetToSeq({d}) = CHOOSE f \in [1..1 -> {d}] : IsInjective(f)
  BY <1>1 DEF SetToSeq
<1>5. SetToSeq({d}) \in [1..1 -> {d}]
  BY <1>3, <1>4
<1> QED BY <1>1, <1>5

\* In a set P of pages of a directory a page has a rank of its own.
Lower(P, f) == {g \in P : g.dir = f.dir /\ g.page < f.page}

LEMMA RankIs ==
  ASSUME NEW d, NEW P, \A f \in P : f.page \in 1..MaxPage /\ f = [dir |-> d, page |-> f.page],
         NEW f \in P
  PROVE  /\ Cardinality(Lower(P, f)) \in Nat
         /\ Cardinality(Lower(P, f)) + 1 <= f.page /\ Cardinality(Lower(P, f)) + 1 \in 1..Cardinality(P)
         /\ \A g \in P : Cardinality(Lower(P, g)) = Cardinality(Lower(P, f)) => g = f
<1> USE PageAssumption
<1> DEFINE file(n) == [dir |-> d, page |-> n]
           First(n) == {file(k) : k \in 1..n}
<1>1. ASSUME NEW n \in Nat PROVE IsFiniteSet(First(n)) /\ Cardinality(First(n)) <= n
  <2>1. IsFiniteSet(1..n) /\ Cardinality(1..n) = n
    BY FS_Interval
  <2>2. PICK h : h = [k \in 1..n |-> file(k)]
    OBVIOUS
  <2>3. First(n) = {h[k] : k \in 1..n} /\ h \in [1..n -> First(n)]
    BY <2>2
  <2>4. h \in Surjection(1..n, First(n))
    BY <2>3 DEF Surjection
  <2> QED BY <2>1, <2>4, FS_Surjection
<1>2. P \subseteq First(MaxPage)
  OBVIOUS
<1>3. IsFiniteSet(P)
  BY <1>1, <1>2, FS_Subset
<1>4. ASSUME NEW g \in P PROVE Lower(P, g) \subseteq P /\ g \notin Lower(P, g)
  BY DEF Lower
<1>5. ASSUME NEW g \in P, NEW h \in P, g.page < h.page
      PROVE  Cardinality(Lower(P, g)) < Cardinality(Lower(P, h))
  <2>1. Lower(P, g) \subseteq Lower(P, h) /\ g \in Lower(P, h) /\ g \notin Lower(P, g)
    <3>1. \A x \in P : x.page \in Nat /\ x.dir = d
      OBVIOUS
    <3> QED BY <1>5, <3>1 DEF Lower
  <2>2. IsFiniteSet(Lower(P, h))
    BY <1>3, <1>4, FS_Subset
  <2> QED BY <2>1, <2>2, SmallerSet
<1>6. \A g \in P : Cardinality(Lower(P, g)) \in Nat
  BY <1>3, <1>4, FS_Subset, FS_CardinalityType
<1>7. \A g \in P : Cardinality(Lower(P, g)) = Cardinality(Lower(P, f)) => g = f
  <2> SUFFICES ASSUME NEW g \in P, Cardinality(Lower(P, g)) = Cardinality(Lower(P, f)), g # f PROVE FALSE
    OBVIOUS
  <2>1. g.page # f.page /\ g.page \in Nat /\ f.page \in Nat
    OBVIOUS
  <2>2. g.page < f.page \/ f.page < g.page
    BY <2>1
  <2> QED BY <1>5, <1>6, <2>2
<1>8. Cardinality(Lower(P, f)) + 1 <= f.page
  <2>1. f.page - 1 \in Nat /\ f.page \in Nat
    OBVIOUS
  <2>2. Lower(P, f) \subseteq First(f.page - 1)
    <3> SUFFICES ASSUME NEW g \in Lower(P, f) PROVE g \in First(f.page - 1)
      OBVIOUS
    <3>1. g \in P /\ g.page < f.page
      BY DEF Lower
    <3>2. g = file(g.page) /\ g.page \in 1..f.page - 1
      BY <2>1, <3>1
    <3> QED BY <3>2
  <2>3. Cardinality(Lower(P, f)) <= Cardinality(First(f.page - 1))
    BY <1>1, <2>1, <2>2, FS_Subset
  <2>4. IsFiniteSet(First(f.page - 1)) /\ Cardinality(First(f.page - 1)) <= f.page - 1
    BY <1>1, <2>1
  <2>5. Cardinality(First(f.page - 1)) \in Nat
    BY <2>4, FS_CardinalityType
  <2> QED BY <1>6, <2>1, <2>3, <2>4, <2>5
<1>9. Cardinality(Lower(P, f)) < Cardinality(P) /\ Cardinality(P) \in Nat
  BY <1>3, <1>4, SmallerSet
<1>10. Cardinality(Lower(P, f)) \in Nat
  BY <1>6
<1> HIDE DEF First, file
<1>11. Cardinality(Lower(P, f)) + 1 \in 1..Cardinality(P)
  BY <1>9, <1>10
<1> QED BY <1>7, <1>8, <1>10, <1>11

\* A page is read no later than it was written, up to the last with four digits.
LEMMA PagedReads ==
  ASSUME NEW S, NEW A, IsTypes(S, A), NEW c, Artifacts(c, S, A), NEW r, NEW zip, Finds(r, zip, c),
         NEW i \in DOMAIN c, ~ isNonPagedArtifact(c[i].tags), Place(c, i) <= MaxPage
  PROVE  LET found == ForEachTaggedArtifact(r, c[i].tags)
         IN  \E j \in DOMAIN found : j <= Place(c, i) /\ found[j] = c[i].data
<1> USE PageAssumption
<1>1. PICK t : t = c[i].tags
  OBVIOUS
<1>2. PICK d : d = Dir(c[i])
  OBVIOUS
<1>3. PICK f : f = FileAt(c, i)
  OBVIOUS
<1> DEFINE P == {g \in intersectFileSets(r, t) : g.page \in 1..MaxPage}
           before(g) == {h \in P : h.dir = g.dir /\ h.page < g.page}
           of(dir) == [l \in 1..Cardinality({g \in P : g.dir = dir}) |->
                           CHOOSE g \in P : g.dir = dir /\ Cardinality(before(g)) = l - 1]
           dirs == {g.dir : g \in P}
           lists == [l \in 1..Cardinality(dirs) |-> of(SetToSeq(dirs)[l])]
           sorted == FlattenSeq(lists)
<1>4. ForEachTaggedArtifact(r, t) = [l \in DOMAIN sorted |-> r.files[sorted[l]][1]]
  BY Zenon DEF ForEachTaggedArtifact
<1>5. Place(c, i) \in 1..MaxPage /\ f = [dir |-> d, page |-> Place(c, i)] /\ f.page = Place(c, i) /\ f.dir = d
  BY <1>2, <1>3, PlaceIs DEF Artifacts, FileAt
<1>6. f \in P
  <2>1. f \in intersectFileSets(r, t)
    <3>1. f \in intersectFileSets(r, c[i].tags)
      BY <1>3, QueryIs
    <3> QED BY <1>1, <3>1
  <2> QED BY <1>5, <2>1
<1>7. \A g \in P : g.page \in 1..MaxPage /\ g = [dir |-> d, page |-> g.page]
  <2> SUFFICES ASSUME NEW g \in P PROVE g.page \in 1..MaxPage /\ g = [dir |-> d, page |-> g.page]
    OBVIOUS
  <2>1. g \in intersectFileSets(r, t) /\ g.page \in 1..MaxPage
    OBVIOUS
  <2>2. PICK j \in DOMAIN c : c[j].tags = t /\ g = FileAt(c, j)
    BY <1>1, <2>1, QueryIs
  <2>3. Dir(c[j]) = d
    BY <1>1, <1>2, <2>2 DEF Dir
  <2> QED BY <2>1, <2>2, <2>3 DEF FileAt
<1>8. PICK k : k = Cardinality(Lower(P, f)) + 1
  OBVIOUS
<1>9. /\ Cardinality(Lower(P, f)) \in Nat /\ k <= Place(c, i) /\ k \in 1..Cardinality(P)
      /\ \A g \in P : Cardinality(Lower(P, g)) = Cardinality(Lower(P, f)) => g = f
  <2> HIDE DEF P
  <2>1. PICK n : n = Cardinality(Lower(P, f))
    OBVIOUS
  <2>2. n \in Nat /\ n + 1 <= f.page /\ n + 1 \in 1..Cardinality(P)
    BY <1>6, <1>7, <2>1, RankIs
  <2>3. \A g \in P : Cardinality(Lower(P, g)) = Cardinality(Lower(P, f)) => g = f
    BY <1>6, <1>7, RankIs
  <2> QED BY <1>5, <1>8, <2>1, <2>2, <2>3
<1> HIDE DEF P
<1>11. dirs = {d}
  BY <1>5, <1>6, <1>7
<1>12. {g \in P : g.dir = d} = P
  BY <1>7
<1>13. Cardinality(dirs) = 1 /\ SetToSeq(dirs)[1] = d
  BY <1>11, OnlyOne
<1>14. sorted = of(d)
  <2> HIDE DEF dirs, of
  <2>1. DOMAIN lists = 1..1 /\ Len(lists) = 1 /\ lists[1] = of(d)
    BY <1>13
  <2> HIDE DEF lists
  <2> QED BY <2>1, FlattenOne
<1>15. DOMAIN of(d) = 1..Cardinality(P) /\ of(d)[k] = f
  <2>1. \A g : before(g) = Lower(P, g)
    BY DEF Lower
  <2> HIDE DEF before
  <2>2. of(d) = [l \in 1..Cardinality(P) |-> CHOOSE g \in P : g.dir = d /\ Cardinality(before(g)) = l - 1]
    BY <1>12
  <2>3. of(d)[k] = CHOOSE g \in P : g.dir = d /\ Cardinality(before(g)) = k - 1
    BY <1>9, <2>2
  <2>4. f.dir = d /\ Cardinality(before(f)) = k - 1
    BY <1>5, <1>8, <1>9, <2>1
  <2>5. \A g \in P : g.dir = d /\ Cardinality(before(g)) = k - 1 => g = f
    BY <1>8, <1>9, <2>1
  <2>6. of(d)[k] = f
    <3> HIDE DEF of
    <3> QED BY <1>6, <2>3, <2>4, <2>5
  <2> QED BY <2>2, <2>6
<1>16. PICK found : found = ForEachTaggedArtifact(r, t)
  OBVIOUS
<1>17. k \in DOMAIN found /\ found[k] = r.files[f][1]
  <2> HIDE DEF sorted, of
  <2>1. k \in DOMAIN sorted /\ sorted[k] = f
    BY <1>9, <1>14, <1>15
  <2> QED BY <1>4, <1>16, <2>1
<1>18. r.files[f] = <<c[i].data>>
  <2>1. LastOf(c, i)
    <3> SUFFICES ASSUME NEW j \in DOMAIN c, j > i, FileAt(c, j) = FileAt(c, i) PROVE FALSE
      BY DEF LastOf
    <3>1. j # i
      BY DEF Artifacts
    <3> QED BY <3>1, FilesApart
  <2> QED BY <1>3, <2>1 DEF Finds
<1>19. r.files[f][1] = c[i].data
  BY <1>18
<1> QED BY <1>1, <1>9, <1>16, <1>17, <1>19

\* The names of accounts, of their streams and of the servers of those.
LEMMA NamesRead ==
  ASSUME NEW S, NEW A, IsTypes(S, A), NEW c, Artifacts(c, S, A), NEW r, NEW zip, Finds(r, zip, c),
         NEW i \in DOMAIN c, has(c[i].tags, "account"), NEW t, t = c[i].tags
  PROVE  /\ value(t, "account") \in AccountNames(r)
         /\ has(t, "stream") =>
                /\ value(t, "stream") \in AccountStreamNames(r, value(t, "account"))
                /\ value(t, "server") \in StreamServerNames(r, value(t, "account"), value(t, "stream"))
<1>1. PICK f : f = FileAt(c, i)
  OBVIOUS
<1>2. f \in DOMAIN r.manifest /\ r.manifest[f] = t
  BY <1>1 DEF Finds
<1>3. ASSUME NEW l, has(t, l) PROVE value(t, l) \in values(t, l)
  BY <1>3 DEF has, value
<1>4. value(t, "account") \in AccountNames(r)
  <2>1. value(t, "account") \in values(r.manifest[f], "account")
    BY <1>2, <1>3
  <2> QED BY <1>2, <2>1 DEF AccountNames, tagValues
<1>5. ASSUME NEW l, has(t, l) PROVE Tag(l, value(t, l)) \in t
  <2>1. PICK x \in t : x.name = l /\ x.value = value(t, l)
    BY <1>3, <1>5 DEF values
  <2>2. x = Tag(x.name, x.value)
    BY GatheredIs DEF Artifacts
  <2> QED BY <2>1, <2>2
<1>6. ASSUME NEW q, q # {}, q \subseteq t, NEW l, has(t, l) PROVE value(t, l) \in with(r, q, l)
  <2>1. f \in intersectFileSets(r, q)
    BY <1>2, <1>6 DEF intersectFileSets
  <2>2. value(t, l) \in values(r.manifest[f], l)
    BY <1>2, <1>3, <1>6
  <2> QED BY <2>1, <2>2 DEF with
<1>7. ASSUME has(t, "stream") PROVE has(t, "server")
  <2>1. "stream" \in Labels(t)
    BY <1>7, NoValue
  <2>2. ~ IsSpecial(t)
    BY <2>1, KindLabels
  <2>3. "server" \in Labels(t)
    BY <2>2, LabelsTell DEF Artifacts, LabelsOf
  <2> QED BY <2>3 DEF Labels, has, values
<1>8. ASSUME has(t, "stream")
      PROVE  /\ value(t, "stream") \in AccountStreamNames(r, value(t, "account"))
             /\ value(t, "server") \in StreamServerNames(r, value(t, "account"), value(t, "stream"))
  <2>1. Tag("account", value(t, "account")) \in t /\ Tag("stream", value(t, "stream")) \in t
    BY <1>5, <1>8
  <2> QED BY <1>6, <1>7, <1>8, <2>1 DEF AccountStreamNames, StreamServerNames
<1> QED BY <1>4, <1>8

-----------------------------------------------------------------------------
(* The gathering: the invariant of its archive.                            *)

Ending == {"log", "close", "done"}
ServerTypes == {e.type : e \in ToSet(conf.serverEndpoints)}
AccountTypes == {e.type : e \in ToSet(conf.accountEndpoints)}

\* What is asked and of whom.
Asked ==
    /\ world \in Worlds /\ conf \in Configurations /\ known \subseteq world.servers
    /\ cur = [of |-> cur.of, left |-> cur.left, offset |-> cur.offset]
    /\ stage \in {"servers", "discover"} \cup Sections => Accepted(conf)
    /\ stage \in Sections => stage \in conf.include /\ cur.left \in Seq(ToSet(work))
    /\ asksPerServer => todo \subseteq known /\ (cur.left # <<>> => cur.of \in known \ todo)

\* Every response tells the server it is from; one asked alone is stored once.
Message(m) ==
    /\ m.from \in world.servers
    /\ m = [from |-> m.from, kind |-> m.kind, copy |-> m.copy, server |-> infoOf(m.from),
            hasData |-> m.hasData, items |-> m.items]
Origins ==
    /\ ~ req.on => net = {}
    /\ \A m \in net \cup ToSet(got) : Message(m) /\ (asksPerServer => m.from = cur.of)
    /\ asksPerServer /\ ~ req.on => Len(got) <= 1

\* A profile of a server is taken once.
Profiled ==
    /\ stage \in {"config", "live", "servers", "discover", "endpoints"} =>
           \A i \in DOMAIN captured : ~ isProfile(captured[i].tags)
    /\ \A i \in DOMAIN captured : isProfile(captured[i].tags) => captured[i].from \in world.servers
    /\ \A i, j \in DOMAIN captured :
           isProfile(captured[i].tags) /\ captured[i].tags = captured[j].tags
           /\ captured[i].from = captured[j].from => i = j
    /\ stage = "profiles" =>
           /\ IsInjective(cur.left)
           /\ \A i \in DOMAIN captured : isProfile(captured[i].tags) =>
                  /\ captured[i].from \notin todo
                  /\ cur.left # <<>> /\ captured[i].from = cur.of =>
                         \A q \in ToSet(cur.left) : Tag("profile_name", q) \notin captured[i].tags

\* The writer has what was captured, and the closed archive what the writer had.
Archived ==
    /\ Artifacts(captured, ServerTypes, AccountTypes)
    /\ closed \in {"", "ok", "failed"}
    /\ closed = "" => Writer(aw, captured)
    /\ closed = "ok" => \E w : Writer(w, captured) /\ aw = Close(w)
    /\ stage \notin Ending => \A i \in DOMAIN captured : ~ IsSpecial(captured[i].tags)
    /\ stage = "log" => \A i \in DOMAIN captured : captured[i].tags # special("audit_gather_log")

\* A torn entry ends the gathering, and spoils at most a profile of another server.
Spoils(f) == \A i \in DOMAIN captured : FileAt(captured, i) = f =>
    /\ isProfile(captured[i].tags)
    /\ \E s \in world.servers : \A j \in written(captured[i].tags) : captured[j].from # s
TornInv == \A k \in DOMAIN aw.zip : aw.zip[k].content = <<>> /\ closed # "failed" =>
    /\ faults > 0 /\ stage \in Ending
    /\ stage = "log" => aw.zip[k].file # fileFor(NewWriter, special("audit_gather_log"))
    /\ Spoils(aw.zip[k].file)

ArchInv == Asked /\ Origins /\ Profiled /\ Archived /\ TornInv

LEMMA TypesAre == ASSUME conf \in Configurations PROVE IsTypes(ServerTypes, AccountTypes)
<1>1. /\ \A e \in ToSet(conf.serverEndpoints), d \in ToSet(conf.accountEndpoints) : e.type # d.type
      /\ \A e \in ToSet(conf.serverEndpoints) \cup ToSet(conf.accountEndpoints) :
             e.type \notin {"profile", "stream_info"}
  BY ConfigurationAssumption
<1> QED BY <1>1 DEF IsTypes, ServerTypes, AccountTypes

LEMMA FirstLeft ==
  ASSUME NEW T, NEW l \in Seq(T), l # <<>>
  PROVE  /\ Head(l) \in T /\ Head(l) \in ToSet(l) /\ Tail(l) \in Seq(T)
         /\ \A x \in ToSet(Tail(l)) : x \in ToSet(l)
         /\ IsInjective(l) => IsInjective(Tail(l)) /\ Head(l) \notin ToSet(Tail(l))
<1>1. PICK n : n = Len(l) /\ n \in Nat /\ DOMAIN l = 1..n /\ n >= 1 /\ Head(l) = l[1] /\ l[1] \in T
  OBVIOUS
<1>2. PICK k : k = Tail(l) /\ k \in Seq(T) /\ DOMAIN k = 1..n - 1 /\ \A i \in 1..n - 1 : k[i] = l[i + 1]
  <2>1. Tail(l) \in Seq(T) /\ Len(Tail(l)) = n - 1
    BY <1>1
  <2>2. DOMAIN Tail(l) = 1..n - 1
    BY <2>1
  <2>3. \A i \in 1..n - 1 : Tail(l)[i] = l[i + 1]
    BY <1>1
  <2> QED BY <2>1, <2>2, <2>3
<1>3. \A i \in 1..n - 1 : i + 1 \in DOMAIN l /\ i + 1 # 1
  BY <1>1
<1>4. Head(l) \in ToSet(l) /\ \A x \in ToSet(k) : x \in ToSet(l)
  BY <1>1, <1>2, <1>3 DEF ToSet
<1>5. ASSUME IsInjective(l) PROVE IsInjective(k) /\ Head(l) \notin ToSet(k)
  <2>1. IsInjective(k)
    <3> SUFFICES ASSUME NEW i \in 1..n - 1, NEW j \in 1..n - 1, k[i] = k[j] PROVE i = j
      BY <1>2 DEF IsInjective
    <3>1. l[i + 1] = l[j + 1]
      BY <1>2
    <3>2. i + 1 = j + 1
      BY <1>3, <1>5, <3>1 DEF IsInjective
    <3> QED BY <3>2
  <2>2. Head(l) \notin ToSet(k)
    <3> SUFFICES ASSUME NEW i \in 1..n - 1, k[i] = l[1] PROVE FALSE
      BY <1>1, <1>2 DEF ToSet
    <3>1. l[i + 1] = l[1]
      BY <1>2
    <3>2. 1 \in DOMAIN l
      BY <1>1
    <3>3. i + 1 = 1
      BY <1>3, <1>5, <3>1, <3>2 DEF IsInjective
    <3> QED BY <1>3, <3>3
  <2> QED BY <2>1, <2>2
<1> QED BY <1>1, <1>2, <1>4, <1>5

\* What is filed of a response.
LEMMA FiledAs ==
  ASSUME ArchInv, asksPerServer \/ asksPerAccount, cur.left # <<>>, NEW g, Message(g)
  PROVE  LET t == tagsFor(g)
         IN  /\ Gathered(t, ServerTypes, AccountTypes) /\ ~ IsSpecial(t)
             /\ isProfile(t) <=> stage = "profiles"
             /\ stage = "profiles" => \A q : Tag("profile_name", q) \in t => q = Head(cur.left)
             /\ stage = "profiles" => Tag("profile_name", Head(cur.left)) \in t
<1>1. stage \in Sections
  BY DEF asksPerServer, asksPerAccount, Sections
<1>2. PICK h : h = Head(cur.left)
  OBVIOUS
<1>3. h \in ToSet(work) /\ h \in ToSet(cur.left)
  BY <1>1, <1>2, FirstLeft DEF ArchInv, Asked
<1>4. PICK s : s = g.server.name
  OBVIOUS
<1>5. PICK t : t = tagsFor(g)
  OBVIOUS
<1>6. IsTypes(ServerTypes, AccountTypes)
  BY TypesAre DEF ArchInv, Asked
<1>7. \A c : \E d : TagCluster(c) = Tag("cluster", d)
  BY DEF TagCluster
<1>8. CASE stage = "endpoints"
  <2>1. t = {Tag("server", s)} \cup {TagCluster(g.server.cluster), type(h.type)}
    BY <1>2, <1>4, <1>5, <1>8 DEF tagsFor
  <2>2. PICK d : TagCluster(g.server.cluster) = Tag("cluster", d)
    BY <1>7
  <2>3. t = ServerTags(s, d, h.type)
    BY <2>1, <2>2 DEF ServerTags
  <2>4. h.type \in ServerTypes /\ h.type # "profile"
    BY <1>3, <1>6, <1>8 DEF work, ServerTypes, IsTypes
  <2>5. IsServers(t, ServerTypes)
    BY <2>3, <2>4 DEF IsServers
  <2>6. ~ isNonPagedArtifact(t)
    BY <2>3, <2>4, ServerIs
  <2> QED BY <1>5, <1>6, <1>8, <2>5, <2>6, GatheredIs DEF Gathered, isNonPagedArtifact
<1>9. CASE stage = "profiles"
  <2>1. t = {Tag("server", s)} \cup {TagCluster(g.server.cluster), type("profile"), Tag("profile_name", h)}
    BY <1>2, <1>4, <1>5, <1>9 DEF tagsFor
  <2>2. PICK d : TagCluster(g.server.cluster) = Tag("cluster", d)
    BY <1>7
  <2>3. t = ProfileTags(s, d, h)
    BY <2>1, <2>2 DEF ProfileTags, ServerTags
  <2>4. h \in ServerProfiles
    <3>1. Accepted(conf) /\ "profiles" \in conf.include
      BY <1>1, <1>9 DEF ArchInv, Asked
    <3> QED BY <1>3, <1>9, <3>1 DEF work, Accepted
  <2>5. s \in Seq(ToSet(s))
    <3>1. g.from \in world.servers /\ g.server = world.info[g.from]
      BY DEF Message, infoOf
    <3>2. world \in Worlds
      BY DEF ArchInv, Asked
    <3> QED BY <1>4, <3>1, <3>2, WorldAssumption
  <2>6. IsProfiles(t)
    BY <2>3, <2>4, <2>5 DEF IsProfiles
  <2>7. Gathered(t, ServerTypes, AccountTypes)
    BY <2>6 DEF Gathered
  <2>8. ~ IsSpecial(t) /\ isProfile(t)
    <3>1. Labels(t) = {"server", "cluster", "artifact_type", "profile_name"}
      BY <2>6, KindLabels
    <3>2. ~ IsSpecial(t)
      BY <3>1, KindLabels
    <3> QED BY <2>3, <3>2, ProfileIs
  <2>9. Tag("profile_name", h) \in t /\ \A q : Tag("profile_name", q) \in t => q = h
    BY <2>3 DEF ProfileTags, ServerTags, Tag, type
  <2> QED BY <1>2, <1>5, <1>9, <2>7, <2>8, <2>9
<1>10. CASE stage = "accounts"
  <2>1. t = {Tag("server", s)} \cup {TagCluster(g.server.cluster), type(h.type), Tag("account", cur.of)}
    BY <1>2, <1>4, <1>5, <1>10 DEF tagsFor
  <2>2. PICK d : TagCluster(g.server.cluster) = Tag("cluster", d)
    BY <1>7
  <2>3. t = AccountTags(s, d, h.type, cur.of)
    BY <2>1, <2>2 DEF AccountTags, ServerTags
  <2>4. h.type \in AccountTypes /\ h.type # "profile"
    BY <1>3, <1>6, <1>10 DEF work, AccountTypes, IsTypes
  <2>5. IsAccounts(t, AccountTypes)
    BY <2>3, <2>4 DEF IsAccounts
  <2>6. ~ isNonPagedArtifact(t)
    BY <2>3, <2>4, AccountIs
  <2> QED BY <1>5, <1>6, <1>10, <2>5, <2>6, GatheredIs DEF Gathered, isNonPagedArtifact
<1>11. CASE stage = "streams"
  <2>1. t = {Tag("server", s)} \cup {TagCluster(streamsOf(g)[1].cluster), type("stream_info"),
               Tag("account", cur.of), Tag("stream", streamsOf(g)[1].name)}
    BY <1>4, <1>5, <1>11 DEF tagsFor
  <2>2. PICK d : TagCluster(streamsOf(g)[1].cluster) = Tag("cluster", d)
    BY <1>7
  <2>3. t = StreamTags(s, d, cur.of, streamsOf(g)[1].name)
    BY <2>1, <2>2 DEF StreamTags, AccountTags, ServerTags
  <2>5. IsStreams(t)
    BY <2>3 DEF IsStreams
  <2>6. ~ isNonPagedArtifact(t)
    BY <2>3, StreamIs
  <2> QED BY <1>5, <1>6, <1>11, <2>5, <2>6, GatheredIs DEF Gathered, isNonPagedArtifact
<1> QED BY <1>1, <1>8, <1>9, <1>10, <1>11 DEF Sections

LEMMA ProfiledStays ==
  ASSUME Profiled, UNCHANGED <<world, conf, captured>>,
         stage' \in {"config", "live", "servers", "discover", "endpoints"} =>
             stage \in {"config", "live", "servers", "discover", "endpoints"},
         stage' = "profiles" =>
             /\ IsInjective(cur'.left)
             /\ \A i \in DOMAIN captured : isProfile(captured[i].tags) =>
                    /\ captured[i].from \notin todo'
                    /\ cur'.left # <<>> /\ captured[i].from = cur'.of =>
                           \A q \in ToSet(cur'.left) : Tag("profile_name", q) \notin captured[i].tags
  PROVE  Profiled'
BY DEF Profiled

\* A step that writes nothing keeps the archive.
LEMMA QuietKeeps ==
  ASSUME ArchInv, stage \notin Ending, UNCHANGED <<world, conf, aw, captured, closed>>,
         Asked', Origins', Profiled'
  PROVE  ArchInv'
<1>1. Archived'
  <2>1. ServerTypes' = ServerTypes /\ AccountTypes' = AccountTypes
    BY DEF ServerTypes, AccountTypes
  <2>2. Artifacts(captured, ServerTypes, AccountTypes)'
    BY <2>1 DEF ArchInv, Archived, Artifacts
  <2>3. \A i \in DOMAIN captured : captured[i].tags # special("audit_gather_log")
    BY DEF ArchInv, Archived, IsSpecial, special, Specials
  <2>4. stage' = "log" => \A i \in DOMAIN captured' : captured'[i].tags # special("audit_gather_log")
    BY <2>3 DEF special
  <2> QED BY <2>2, <2>4 DEF ArchInv, Archived
<1>2. TornInv'
  BY DEF ArchInv, TornInv
<1> QED BY <1>1, <1>2 DEF ArchInv

\* A gathering that fails asks nobody any more and goes on to its log.
LEMMA FailAsks ==
  ASSUME ArchInv, stage \notin Ending, UNCHANGED <<world, conf, captured>>, Fail, net' = {}
  PROVE  Asked' /\ Origins' /\ Profiled' /\ stage' = "log"
<1>1. stage' = "log" /\ todo' = {} /\ cur' = Nobody /\ got' = <<>> /\ known' = known
  BY DEF Fail
<1>2. Asked'
  BY <1>1 DEF ArchInv, Asked, asksPerServer, Nobody, Sections
<1>3. ToSet(got') = {} /\ ~ asksPerServer'
  BY <1>1 DEF ToSet, asksPerServer
<1>4. Origins'
  BY <1>1, <1>3 DEF Origins
<1>5. Profiled'
  BY <1>1, ProfiledStays DEF ArchInv
<1> QED BY <1>1, <1>2, <1>4, <1>5

LEMMA FailQuiet ==
  ASSUME ArchInv, stage \notin Ending, UNCHANGED <<world, conf, aw, captured, closed>>, Fail, Taken
  PROVE  ArchInv'
<1>1. net' = {} /\ todo' = {} /\ known' = known
  BY IdleFacts DEF Fail
<1>2. Asked' /\ Origins' /\ Profiled'
  BY <1>1, FailAsks
<1> QED BY <1>2, QuietKeeps

\* Nobody is asked.
LEMMA BetweenKeeps ==
  ASSUME ArchInv, stage \notin Ending, UNCHANGED <<world, conf, aw, captured, closed, known>>,
         cur' = Nobody, got' = <<>>, net' = {}, stage' \notin Sections,
         stage' \in {"servers", "discover"} => Accepted(conf),
         stage' \in {"config", "live", "servers", "discover"} =>
             stage \in {"config", "live", "servers", "discover"}
  PROVE  ArchInv'
<1>1. Asked'
  <2>1. Accepted(conf') <=> Accepted(conf)
    BY DEF Accepted
  <2> QED BY <2>1 DEF ArchInv, Asked, asksPerServer, Nobody, Sections
<1>2. ToSet(got') = {} /\ ~ asksPerServer'
  BY DEF ToSet, asksPerServer, Sections
<1>3. Origins'
  BY <1>2 DEF Origins
<1>4. Profiled'
  BY ProfiledStays DEF ArchInv, Sections
<1> QED BY <1>1, <1>3, <1>4, QuietKeeps

\* A section is entered.
LEMMA EnterKeeps ==
  ASSUME GatherInv, ArchInv, stage \notin Ending, UNCHANGED <<world, conf, aw, captured, closed, known>>,
         cur'.left = <<>>, cur' = cur, got' = <<>>, net' = {}, Accepted(conf),
         NEW i \in 1..5, enter(i),
         i = 1 => stage \in {"config", "live", "servers", "discover", "endpoints"},
         i = 2 => stage = "endpoints"
  PROVE  ArchInv'
<1>1. CASE stage' = "metadata"
  <2>1. Asked'
    BY <1>1 DEF ArchInv, Asked, asksPerServer, Sections
  <2>2. ToSet(got') = {} /\ ~ asksPerServer'
    BY <1>1 DEF ToSet, asksPerServer, Sections
  <2>3. Origins'
    BY <2>2 DEF Origins
  <2>4. Profiled'
    BY <1>1, ProfiledStays DEF ArchInv, Sections
  <2> QED BY <2>1, <2>3, <2>4, QuietKeeps
<1>2. ASSUME NEW j \in i..4, stage' = sections[j], todo' = subjects(sections[j]), stage' \in conf.include
      PROVE  ArchInv'
  <2>1. j \in 1..4 /\ stage' \in Sections
    BY <1>2, SectionsAre DEF ToSet
  <2>2. /\ stage' = "endpoints" => j = 1
        /\ stage' = "profiles" => j = 2
        /\ stage' \in {"endpoints", "profiles"} => todo' = known
    BY <1>2, <2>1 DEF sections, subjects
  <2>3. Accepted(conf')
    BY DEF Accepted
  <2>4. <<>> \in Seq(ToSet(work)')
    OBVIOUS
  <2>5. Asked'
    BY <1>2, <2>1, <2>2, <2>3, <2>4 DEF ArchInv, Asked, asksPerServer
  <2>6. ToSet(got') = {} /\ Len(got') <= 1
    BY DEF ToSet
  <2>7. Origins'
    BY <2>6 DEF Origins
  <2>8. Profiled'
    <3>1. stage' \in {"endpoints", "profiles"} =>
              stage \in {"config", "live", "servers", "discover", "endpoints"}
      BY <1>2, <2>1, <2>2
    <3>2. stage' = "profiles" => \A k \in DOMAIN captured : ~ isProfile(captured[k].tags)
      BY <3>1 DEF ArchInv, Profiled
    <3>3. IsInjective(<<>>)
      BY DEF IsInjective
    <3>4. stage' \notin {"config", "live", "servers", "discover"}
      BY <2>1 DEF Sections
    <3> QED BY <3>1, <3>2, <3>3, <3>4, ProfiledStays DEF ArchInv
  <2> QED BY <2>5, <2>7, <2>8, QuietKeeps
<1> QED BY <1>1, <1>2, Enters

LEMMA MessageStays == ASSUME UNCHANGED world PROVE \A m : Message(m) <=> Message(m)'
BY DEF Message, infoOf

LEMMA ConfigureKeeps == ASSUME GatherInv, ArchInv, Configure PROVE ArchInv'
<1>1. /\ stage = "config" /\ ~ req.on /\ got = <<>> /\ cur = Nobody
      /\ UNCHANGED <<req, net, world, conf, aw, captured, closed, known, cur, got>>
  BY DEF GatherInv, Course, Configure, requestVars, Sections
<1>2. net' = {}
  BY <1>1 DEF ArchInv, Origins
<1>3. stage' \in {"done", "live"} \/ (stage' = "servers" /\ Accepted(conf))
  BY DEF Configure
<1> QED BY <1>1, <1>2, <1>3, BetweenKeeps DEF Ending, Sections

LEMMA TakeLiveKeeps == ASSUME GatherInv, ArchInv, TakeLive PROVE ArchInv'
<1>1. /\ stage = "live" /\ stage' = "done" /\ net' = {}
      /\ UNCHANGED <<world, conf, aw, captured, closed, known, cur, got, todo>>
  BY IdleFacts DEF TakeLive
<1>2. Asked'
  BY <1>1 DEF ArchInv, Asked, asksPerServer, Sections
<1>3. Origins'
  BY <1>1, MessageStays DEF ArchInv, Origins, asksPerServer
<1>4. Profiled'
  BY <1>1, ProfiledStays DEF ArchInv
<1> QED BY <1>1, <1>2, <1>3, <1>4, QuietKeeps DEF Ending

LEMMA TakeServersKeeps == ASSUME GatherInv, ArchInv, TakeServers PROVE ArchInv'
<1>1. /\ stage = "servers" /\ net' = {} /\ got = <<>> /\ cur = Nobody /\ Taken /\ Accepted(conf)
      /\ UNCHANGED <<world, conf, aw, captured, closed>>
  BY IdleFacts DEF TakeServers, GatherInv, Course, ArchInv, Asked
<1>2. CASE Fail
  BY <1>1, <1>2, FailQuiet DEF Ending
<1>3. CASE stage' = "discover" /\ UNCHANGED <<known, counts, systemAccount, todo, cur, got, outcome>>
  BY <1>1, <1>3, BetweenKeeps DEF Ending, Sections
<1> QED BY <1>2, <1>3 DEF TakeServers

LEMMA TakeAccountsKeeps == ASSUME GatherInv, ArchInv, TakeAccounts PROVE ArchInv'
<1>1. /\ stage = "discover" /\ net' = {} /\ got = <<>> /\ cur = Nobody /\ Taken /\ Accepted(conf)
      /\ UNCHANGED <<world, conf, aw, captured, closed>>
  BY IdleFacts DEF TakeAccounts, GatherInv, Course, ArchInv, Asked
<1>2. CASE Fail
  BY <1>1, <1>2, FailQuiet DEF Ending
<1>3. CASE enter(1) /\ UNCHANGED <<known, counts, systemAccount, cur, got, outcome>>
  BY <1>1, <1>3, Empty, EnterKeeps DEF Ending
<1> QED BY <1>2, <1>3 DEF TakeAccounts

LEMMA NextSectionKeeps == ASSUME GatherInv, ArchInv, NextSection PROVE ArchInv'
<1>1. /\ stage \in Sections /\ cur.left = <<>> /\ got = <<>> /\ ~ req.on
      /\ UNCHANGED <<req, net, world, conf, aw, captured, closed, known, cur, got>>
  BY SectionsAre DEF GatherInv, Course, NextSection, requestVars, Sections
<1>2. net' = {} /\ Accepted(conf)
  BY <1>1 DEF ArchInv, Origins, Asked
<1>3. PICK k \in 1..4 : stage = sections[k] /\ enter(k + 1)
  BY SectionsAre DEF NextSection
<1>4. PICK i : i = k + 1
  OBVIOUS
<1>5. i \in 1..5 /\ i # 1 /\ (i = 2 => stage = "endpoints") /\ enter(i)
  BY <1>3, <1>4 DEF sections
<1> QED BY <1>1, <1>2, <1>5, EnterKeeps DEF Ending, Sections

LEMMA ChooseKeeps == ASSUME GatherInv, ArchInv, Choose PROVE ArchInv'
<1>1. /\ stage \in Sections /\ cur.left = <<>> /\ got = <<>> /\ ~ req.on
      /\ UNCHANGED <<req, net, world, conf, aw, captured, closed, known, got, stage>>
  BY SectionsAre DEF GatherInv, Course, Choose, requestVars, Sections
<1>2. PICK x \in todo : todo' = todo \ {x} /\ cur' = IF work = <<>> THEN Nobody
                                 ELSE [of |-> x, left |-> work, offset |-> 0]
  BY DEF Choose
<1>3. work \in Seq(ToSet(work)) /\ work' = work
  <2>1. conf.serverEndpoints \in Seq(ToSet(conf.serverEndpoints)) /\ conf.profiles \in Seq(ToSet(conf.profiles))
        /\ conf.accountEndpoints \in Seq(ToSet(conf.accountEndpoints))
    BY ConfigurationAssumption DEF ArchInv, Asked
  <2>2. <<"JSZ">> \in Seq(ToSet(<<"JSZ">>))
    BY DEF ToSet
  <2> QED BY <1>1, <2>1, <2>2 DEF work
<1>4. /\ cur' = [of |-> cur'.of, left |-> cur'.left, offset |-> cur'.offset]
      /\ cur'.left \in {<<>>, work} /\ (cur'.left # <<>> => cur'.of = x)
  BY <1>2 DEF Nobody
<1>5. Asked'
  <2>1. Accepted(conf')
    BY <1>1 DEF ArchInv, Asked, Accepted
  <2>2. cur'.left \in Seq(ToSet(work'))
    <3>1. PICK v : v = work /\ v \in Seq(ToSet(v))
      BY <1>3
    <3>2. cur'.left \in {<<>>, v} /\ <<>> \in Seq(ToSet(v))
      BY <1>4, <3>1
    <3>3. cur'.left \in Seq(ToSet(v))
      BY <3>1, <3>2
    <3> QED BY <1>3, <3>1, <3>3
  <2>3. asksPerServer' => x \in known /\ x \notin todo' /\ todo' \subseteq known
    BY <1>1, <1>2 DEF ArchInv, Asked, asksPerServer
  <2> QED BY <1>1, <1>4, <2>1, <2>2, <2>3 DEF ArchInv, Asked, asksPerServer
<1>6. ToSet(got') = {} /\ Len(got') <= 1 /\ net' = {}
  BY <1>1 DEF ToSet, ArchInv, Origins
<1>7. Origins'
  BY <1>6 DEF Origins
<1>8. Profiled'
  <2>1. ASSUME stage = "profiles"
        PROVE  /\ IsInjective(cur'.left)
               /\ \A i \in DOMAIN captured : isProfile(captured[i].tags) =>
                    captured[i].from \notin todo' /\ (cur'.left # <<>> => captured[i].from # cur'.of)
    <3>1. work = conf.profiles /\ IsInjective(conf.profiles) /\ IsInjective(<<>>)
      BY <2>1, ConfigurationAssumption DEF work, IsInjective, ArchInv, Asked
    <3>2. \A i \in DOMAIN captured : isProfile(captured[i].tags) => captured[i].from \notin todo
      BY <2>1 DEF ArchInv, Profiled
    <3> QED BY <1>2, <1>4, <2>1, <3>1, <3>2
  <2> QED BY <1>1, <2>1, ProfiledStays DEF ArchInv
<1> QED BY <1>1, <1>5, <1>7, <1>8, QuietKeeps DEF Ending, Sections

\* The next of what is left.
LEMMA Advanced ==
  ASSUME Asked, stage \in Sections, cur.left # <<>>
  PROVE  /\ advance = [of |-> advance.of, left |-> advance.left, offset |-> advance.offset]
         /\ advance.left \in Seq(ToSet(work))
         /\ advance.left # <<>> => advance.of = cur.of
         /\ \A q \in ToSet(advance.left) : q \in ToSet(cur.left)
         /\ IsInjective(cur.left) => IsInjective(advance.left) /\ Head(cur.left) \notin ToSet(advance.left)
<1>1. cur.left \in Seq(ToSet(work)) /\ cur = [of |-> cur.of, left |-> cur.left, offset |-> cur.offset]
  BY DEF Asked
<1>2. CASE Len(cur.left) = 1
  <2>1. advance = Nobody /\ Nobody.left = <<>> /\ ToSet(<<>>) = {} /\ IsInjective(<<>>)
    BY <1>2 DEF advance, Nobody, ToSet, IsInjective
  <2> QED BY <2>1 DEF Nobody
<1>3. CASE Len(cur.left) # 1
  <2>1. advance = [of |-> cur.of, left |-> Tail(cur.left), offset |-> 0]
    BY <1>1, <1>3 DEF advance
  <2>2. advance.left = Tail(cur.left) /\ advance.of = cur.of
    BY <2>1
  <2> QED BY <1>1, <2>1, <2>2, FirstLeft
<1> QED BY <1>2, <1>3

LEMMA OnwardKeeps ==
  ASSUME GatherInv, ArchInv, stage \in Sections, cur.left # <<>>, cur' = advance, got' = <<>>, net' = {},
         UNCHANGED <<world, conf, aw, captured, closed, known, stage, todo>>
  PROVE  ArchInv'
<1>1. work' = work /\ (asksPerServer' <=> asksPerServer) /\ (Accepted(conf') <=> Accepted(conf))
  BY DEF work, asksPerServer, Accepted
<1>2. Asked'
  BY <1>1, Advanced DEF ArchInv, Asked
<1>3. ToSet(got') = {} /\ Len(got') <= 1
  BY DEF ToSet
<1>4. Origins'
  BY <1>3 DEF Origins
<1>5. Profiled'
  <2>1. ASSUME stage = "profiles"
        PROVE  /\ IsInjective(advance.left)
               /\ \A i \in DOMAIN captured : isProfile(captured[i].tags) =>
                    /\ captured[i].from \notin todo
                    /\ advance.left # <<>> /\ captured[i].from = advance.of =>
                           \A q \in ToSet(advance.left) : Tag("profile_name", q) \notin captured[i].tags
    BY <2>1, Advanced DEF ArchInv, Profiled
  <2> QED BY <2>1, ProfiledStays DEF ArchInv
<1> QED BY <1>2, <1>4, <1>5, QuietKeeps DEF Ending, Sections

LEMMA SkipKeeps == ASSUME GatherInv, ArchInv, Skip PROVE ArchInv'
<1>1. /\ stage \in Sections /\ cur.left # <<>> /\ cur' = advance /\ got' = <<>> /\ ~ req.on /\ net' = net
      /\ UNCHANGED <<world, conf, aw, captured, closed, known, stage, todo>>
  BY DEF Skip, skipped, requestVars, Sections
<1>2. net' = {}
  BY <1>1 DEF ArchInv, Origins
<1> QED BY <1>1, <1>2, OnwardKeeps

LEMMA TakeAnswersKeeps == ASSUME GatherInv, ArchInv, TakeAnswers PROVE ArchInv'
<1>1. /\ stage \in Sections /\ cur.left # <<>> /\ net' = {} /\ ~ req'.on /\ Taken
      /\ UNCHANGED <<world, conf, aw, captured, closed>>
  BY IdleFacts DEF GatherInv, Course, TakeAnswers, asksPerServer, asksPerAccount, Sections
<1>2. CASE Fail
  BY <1>1, <1>2, FailQuiet DEF Ending, Sections
<1>3. CASE /\ got' = IF unusable THEN <<>> ELSE got
           /\ cur' = IF unusable \/ got = <<>> THEN advance ELSE cur
           /\ UNCHANGED <<stage, known, counts, systemAccount, todo, outcome>>
  <2>1. CASE unusable \/ got = <<>>
    BY <1>1, <1>3, <2>1, OnwardKeeps
  <2>2. CASE ~ (unusable \/ got = <<>>)
    <3>1. UNCHANGED <<cur, got, stage, todo, known, world, conf, captured>>
      BY <1>1, <1>3, <2>2
    <3>2. asksPerServer => Len(got) = 1
      BY <2>2 DEF unusable
    <3>3. Asked'
      BY <3>1 DEF ArchInv, Asked, asksPerServer, Accepted, work
    <3>4. Origins'
      BY <1>1, <3>1, <3>2, MessageStays DEF ArchInv, Origins, asksPerServer
    <3>5. Profiled'
      BY <3>1 DEF ArchInv, Profiled
    <3> QED BY <1>1, <3>3, <3>4, <3>5, QuietKeeps DEF Ending, Sections
  <2> QED BY <2>1, <2>2
<1> QED BY <1>2, <1>3 DEF TakeAnswers

\* During a request only answers arrive.
LEMMA RequestKeeps ==
  ASSUME ArchInv, stage \notin Ending, UNCHANGED <<world, conf, aw, captured, closed, stage, todo, cur>>,
         known' \subseteq world.servers, asksPerServer => known' = known, Origins'
  PROVE  ArchInv'
<1>1. Asked'
  <2>1. work' = work /\ (asksPerServer' <=> asksPerServer) /\ (Accepted(conf') <=> Accepted(conf))
    BY DEF work, asksPerServer, Accepted
  <2> QED BY <2>1 DEF ArchInv, Asked
<1>2. Profiled'
  BY DEF ArchInv, Profiled
<1> QED BY <1>1, <1>2, QuietKeeps

LEMMA TimeKeeps == ASSUME GatherInv, ArchInv, TimePasses \/ Returns PROVE ArchInv'
<1>1. req.on /\ UNCHANGED <<net, world, conf, aw, captured, closed, stage, todo, cur, known, got>>
  BY DEF TimePasses, Tick, Expire, Returns, Return, gatherVars
<1>2. req'.on = req.on
  BY DEF GatherInv, GatherTypes, TimePasses, Tick, Expire, Returns, Return
<1>3. Origins'
  BY <1>1, <1>2, MessageStays DEF ArchInv, Origins, asksPerServer
<1>4. stage \notin Ending /\ known' \subseteq world.servers
  BY <1>1 DEF GatherInv, Course, Ending, Sections, ArchInv, Asked
<1> QED BY <1>1, <1>3, <1>4, RequestKeeps

LEMMA SendRequestKeeps == ASSUME GatherInv, ArchInv, SendRequest PROVE ArchInv'
<1>1. /\ UNCHANGED <<world, conf, aw, captured, closed, stage, todo, cur, known, got>>
      /\ ~ req.on /\ req'.on = TRUE /\ Request
  <2>1. ~ req.on /\ req' = [Idle EXCEPT !.on = TRUE, !.waitFor = waitFor,
                           !.left = AutoUnsubscribe(waitFor), !.finisher = Timeout]
    BY DEF SendRequest, Request, Ask
  <2>2. req'.on = TRUE
    BY <2>1 DEF Idle
  <2> QED BY <2>1, <2>2 DEF SendRequest
<1>2. stage \notin Ending /\ (stage \in Sections => cur.left # <<>>)
  BY DEF SendRequest, GatherInv, Course, Ending, Sections
<1>3. \A s \in responders : s \in world.servers /\ (asksPerServer => s = cur.of)
  <2>1. world.jetstream \subseteq world.servers
    BY WorldFacts DEF GatherInv
  <2>2. asksPerServer => responders = {cur.of} /\ cur.of \in world.servers
    <3>1. asksPerServer => stage \in {"endpoints", "profiles"}
      BY DEF asksPerServer
    <3>2. asksPerServer => cur.of \in known /\ known \subseteq world.servers
      BY <1>2, <3>1 DEF ArchInv, Asked, Sections
    <3> QED BY <3>1, <3>2 DEF responders
  <2>3. ~ asksPerServer => responders \subseteq world.servers
    BY <2>1 DEF responders, liveServers
  <2> QED BY <2>2, <2>3
<1>4. \A s \in responders : \A kind : Message(response(s, kind)) /\ response(s, kind).from = s
  <2> SUFFICES ASSUME NEW s \in responders, NEW kind
               PROVE  Message(response(s, kind)) /\ response(s, kind).from = s
    OBVIOUS
  <2>1. PICK m : m = response(s, kind)
    OBVIOUS
  <2>2. /\ m = [from |-> m.from, kind |-> m.kind, copy |-> m.copy, server |-> m.server,
                hasData |-> m.hasData, items |-> m.items]
        /\ m.from = s /\ m.server = infoOf(s)
    BY <2>1 DEF response
  <2> QED BY <1>3, <2>1, <2>2 DEF Message
<1>5. ASSUME NEW m \in net' PROVE Message(m) /\ (asksPerServer => m.from = cur.of)
  <2>1. CASE \E s \in responders : \E kind : m = response(s, kind)
    BY <1>3, <1>4, <2>1
  <2>2. CASE \E s \in responders : m = [response(s, "ok") EXCEPT !.copy = 2]
    <3>1. PICK s \in responders : m = [response(s, "ok") EXCEPT !.copy = 2]
      BY <2>2
    <3>2. PICK n : n = response(s, "ok") /\ Message(n) /\ n.from = s
      BY <1>4
    <3>3. n = [from |-> n.from, kind |-> n.kind, copy |-> n.copy, server |-> infoOf(n.from),
               hasData |-> n.hasData, items |-> n.items]
      BY <3>2 DEF Message
    <3>4. m = [from |-> n.from, kind |-> n.kind, copy |-> 2, server |-> infoOf(n.from),
               hasData |-> n.hasData, items |-> n.items]
      BY <3>1, <3>2, <3>3
    <3> QED BY <1>3, <3>2, <3>4 DEF Message
  <2>3. \/ \E s \in responders : \E kind : m = response(s, kind)
        \/ \E s \in responders : m = [response(s, "ok") EXCEPT !.copy = 2]
    <3>1. CASE net' = {response(s, "ok") : s \in responders}
      BY <3>1
    <3>2. ASSUME NEW s \in responders, NEW kind,
                 net' = {response(t, "ok") : t \in responders \ {s}} \cup
                      (IF kind = "twice" THEN {response(s, "ok"), [response(s, "ok") EXCEPT !.copy = 2]}
                       ELSE {response(s, kind)})
          PROVE  \/ \E u \in responders : \E k : m = response(u, k)
                 \/ \E u \in responders : m = [response(u, "ok") EXCEPT !.copy = 2]
      BY <3>2
    <3> QED BY <1>1, <3>1, <3>2 DEF Request, Ask
  <2> QED BY <2>1, <2>2, <2>3
<1>6. Origins'
  <2>1. \A m \in ToSet(got) : Message(m) /\ (asksPerServer => m.from = cur.of)
    BY DEF ArchInv, Origins
  <2> QED BY <1>1, <1>5, <2>1, MessageStays DEF Origins, asksPerServer
<1> QED BY <1>1, <1>2, <1>6, RequestKeeps DEF ArchInv, Asked

LEMMA ReceiveKeeps == ASSUME GatherInv, ArchInv, Receive PROVE ArchInv'
<1>1. PICK m \in net : Delivers(m) /\ Callback(m)
  BY DEF Receive
<1>2. UNCHANGED <<world, conf, aw, captured, closed, stage, todo, cur>>
  BY DEF Receive
<1>3. req.on /\ req'.on = req.on /\ net' = net \ {m}
  BY <1>1, Delivered
<1>4. \A x \in ToSet(got') : x \in ToSet(got) \/ x = m
  <2>1. got' = got \/ got' = Append(got, m)
    BY <1>1 DEF Callback
  <2>2. ToSet(Append(got, m)) = ToSet(got) \cup {m}
    BY Appended DEF GatherInv, GatherTypes
  <2> QED BY <2>1, <2>2
<1>5. \A x \in net \cup ToSet(got) : Message(x) /\ (asksPerServer => x.from = cur.of)
  BY DEF ArchInv, Origins
<1>6. Origins'
  <2>1. \A x \in net' \cup ToSet(got') : Message(x) /\ (asksPerServer => x.from = cur.of)
    BY <1>1, <1>3, <1>4, <1>5
  <2> QED BY <1>2, <1>3, <2>1, MessageStays DEF Origins, asksPerServer
<1>7. known' \subseteq world.servers /\ (asksPerServer => known' = known)
  <2>1. known' = known \/ (known' = known \cup {m.from} /\ stage = "servers")
    BY <1>1 DEF Callback, discovers
  <2>2. m.from \in world.servers
    BY <1>1, <1>5 DEF Message
  <2> QED BY <2>1, <2>2 DEF ArchInv, Asked, asksPerServer
<1>8. stage \notin Ending
  BY <1>3 DEF GatherInv, Course, Ending, Sections
<1> QED BY <1>2, <1>6, <1>7, <1>8, RequestKeeps

-----------------------------------------------------------------------------
(* The gathering: an artifact is filed, or its write torn.                 *)

LEMMA RemovedOnly ==
  ASSUME NEW S, NEW s \in Seq(S), Len(s) <= 1, NEW i \in DOMAIN s
  PROVE  RemoveAt(s, i) = <<>>
<1>1. PICK p : p = SubSeq(s, 1, i - 1)
  OBVIOUS
<1>2. PICK q : q = SubSeq(s, i + 1, Len(s))
  OBVIOUS
<1>3. i = 1 /\ Len(s) = 1
  <2>1. PICK n : n = Len(s)
    OBVIOUS
  <2>2. n \in Nat /\ n <= 1 /\ i \in 1..n
    BY <2>1
  <2> QED BY <2>1, <2>2
<1>4. p \in Seq(S) /\ q \in Seq(S) /\ Len(p) = 0 /\ Len(q) = 0
  BY <1>1, <1>2, <1>3
<1>5. p = <<>> /\ q = <<>>
  BY <1>4
<1>6. RemoveAt(s, i) = p \o q
  BY <1>1, <1>2 DEF RemoveAt
<1> QED BY <1>5, <1>6

LEMMA ShorterIs == ASSUME NEW g, Message(g) PROVE Message(Shorter(g)) /\ Shorter(g).from = g.from
<1>1. PICK y : y = [g.items EXCEPT ![1] = [g.items[1] EXCEPT !.streams = Tail(g.items[1].streams)]]
  OBVIOUS
<1>2. Shorter(g) = [g EXCEPT !.items = y]
  BY <1>1 DEF Shorter
<1>3. PICK v : v = infoOf(g.from)
  OBVIOUS
<1>4. PICK h : h = g
  OBVIOUS
<1>5. h = [from |-> h.from, kind |-> h.kind, copy |-> h.copy, server |-> v, hasData |-> h.hasData, items |-> h.items]
  BY <1>3, <1>4 DEF Message
<1>6. [h EXCEPT !.items = y] =
        [from |-> h.from, kind |-> h.kind, copy |-> h.copy, server |-> v, hasData |-> h.hasData, items |-> y]
  BY <1>5
<1>7. PICK k : k = [h EXCEPT !.items = y]
  OBVIOUS
<1>8. k = [from |-> k.from, kind |-> k.kind, copy |-> k.copy, server |-> v, hasData |-> k.hasData, items |-> k.items]
      /\ k.from = h.from
  BY <1>6, <1>7
<1>9. k = Shorter(g)
  BY <1>2, <1>4, <1>7
<1> QED BY <1>3, <1>4, <1>8, <1>9 DEF Message

LEMMA StoredAsks ==
  ASSUME GatherInv, ArchInv, asksPerServer \/ asksPerAccount, ~ req.on, NEW i \in DOMAIN got, stored(i),
         UNCHANGED <<req, net, world, conf>>
  PROVE  /\ Asked' /\ Origins'
         /\ stage \in Sections /\ cur.left # <<>> /\ got[i] \in ToSet(got)
         /\ asksPerServer => got' = <<>>
<1>1. stage \in Sections /\ got # <<>> /\ got[i] \in ToSet(got)
  <2>1. DOMAIN <<>> = {}
    OBVIOUS
  <2> QED BY <2>1 DEF asksPerServer, asksPerAccount, Sections, ToSet
<1>2. cur.left # <<>>
  BY <1>1 DEF GatherInv, Course
<1>3. UNCHANGED <<stage, known, todo>> /\ got' = leftAfter(i)
  BY DEF stored
<1>4. asksPerServer => got' = <<>>
  <2> SUFFICES ASSUME asksPerServer PROVE got' = <<>>
    OBVIOUS
  <2>1. Len(got) <= 1 /\ got \in Seq(ToSet(got))
    BY DEF ArchInv, Origins, GatherInv, GatherTypes
  <2>2. leftAfter(i) = RemoveAt(got, i)
    BY DEF leftAfter, asksPerServer
  <2> QED BY <1>3, <2>1, <2>2, RemovedOnly
<1>5. cur' \in {cur, [cur EXCEPT !.offset = @ + pageLimit], advance}
  BY DEF stored
<1>6. Asked'
  <2>1. Asked /\ work' = work /\ (asksPerServer' <=> asksPerServer) /\ (Accepted(conf') <=> Accepted(conf))
    BY <1>3 DEF work, asksPerServer, Accepted, ArchInv
  <2>2. PICK o : o = cur.offset + pageLimit
    OBVIOUS
  <2>3. [cur EXCEPT !.offset = @ + pageLimit] = [of |-> cur.of, left |-> cur.left, offset |-> o]
    <3>1. PICK c : c = cur
      OBVIOUS
    <3>2. c = [of |-> c.of, left |-> c.left, offset |-> c.offset]
      BY <2>1, <3>1 DEF Asked
    <3>3. [c EXCEPT !.offset = o] = [of |-> c.of, left |-> c.left, offset |-> o]
      BY <3>2
    <3>4. [cur EXCEPT !.offset = @ + pageLimit] = [cur EXCEPT !.offset = o]
      BY <2>2
    <3> QED BY <3>1, <3>3, <3>4
  <2>4. /\ cur' = [of |-> cur'.of, left |-> cur'.left, offset |-> cur'.offset]
        /\ cur'.left \in Seq(ToSet(work)) /\ (cur'.left # <<>> => cur'.of = cur.of)
    <3>1. CASE cur' = cur
      BY <1>1, <2>1, <3>1 DEF Asked
    <3>2. CASE cur' = [of |-> cur.of, left |-> cur.left, offset |-> o]
      <4>1. cur.left \in Seq(ToSet(work))
        BY <1>1, <2>1 DEF Asked
      <4>2. cur'.left = cur.left /\ cur'.of = cur.of /\ cur'.offset = o
        BY <3>2
      <4> QED BY <3>2, <4>1, <4>2, Zenon
    <3>3. CASE cur' = advance
      BY <1>1, <1>2, <2>1, <3>3, Advanced
    <3> QED BY <1>5, <2>3, <3>1, <3>2, <3>3
  <2> QED BY <1>1, <1>2, <1>3, <2>1, <2>4 DEF Asked
<1>7. ASSUME NEW m \in ToSet(leftAfter(i)) PROVE Message(m) /\ (asksPerServer => m.from = cur.of)
  <2>1. \A x \in ToSet(got) : Message(x) /\ (asksPerServer => x.from = cur.of)
    BY DEF ArchInv, Origins
  <2>2. PICK S : S = ToSet(got)
    OBVIOUS
  <2>3. got \in Seq(S)
    BY <2>2 DEF GatherInv, GatherTypes
  <2>4. CASE stage = "streams" /\ Len(streamsOf(got[i])) > 1
    <3>1. PICK z : z = Shorter(got[i])
      OBVIOUS
    <3>2. leftAfter(i) = [got EXCEPT ![i] = z]
      BY <2>4, <3>1 DEF leftAfter, Shorter
    <3>3. ToSet(leftAfter(i)) \subseteq ToSet(got) \cup {z}
      BY <2>3, <3>2, Replaced
    <3>4. Message(z) /\ ~ asksPerServer
      BY <1>1, <2>1, <2>4, <3>1, ShorterIs DEF asksPerServer
    <3> QED BY <2>1, <3>3, <3>4
  <2>5. CASE ~ (stage = "streams" /\ Len(streamsOf(got[i])) > 1)
    <3>1. leftAfter(i) = RemoveAt(got, i)
      BY <2>5 DEF leftAfter
    <3>2. ToSet(leftAfter(i)) \subseteq ToSet(got)
      BY <2>3, <3>1, Removed
    <3> QED BY <2>1, <3>2
  <2> QED BY <2>4, <2>5
<1>8. Origins'
  <2>1. net' = {} /\ (asksPerServer' <=> asksPerServer)
    BY <1>3 DEF ArchInv, Origins, asksPerServer
  <2>2. asksPerServer => Len(got') <= 1 /\ ToSet(got') = {}
    BY <1>4 DEF ToSet
  <2>3. \A m \in ToSet(got') : Message(m)'
    BY <1>3, <1>7, MessageStays
  <2> QED BY <2>1, <2>2, <2>3 DEF Origins
<1> QED BY <1>1, <1>2, <1>4, <1>6, <1>8

\* What is written of a response is its server's.
LEMMA ProfileTaken ==
  ASSUME GatherInv, ArchInv, asksPerServer \/ asksPerAccount, cur.left # <<>>, NEW g, g \in ToSet(got),
         NEW x, x = [tags |-> tagsFor(g), data |-> dataOf(g), from |-> g.from],
         captured' = Append(captured, x), UNCHANGED <<world, conf, stage, todo>>,
         stage = "profiles" => cur' = advance
  PROVE  Profiled'
<1>1. stage \in Sections
  BY DEF asksPerServer, asksPerAccount, Sections
<1>2. x.tags = tagsFor(g) /\ x.from = g.from
  OBVIOUS
<1>3. Message(g) /\ (asksPerServer => g.from = cur.of)
  BY DEF ArchInv, Origins
<1>4. /\ isProfile(x.tags) <=> stage = "profiles"
      /\ stage = "profiles" => \A q : Tag("profile_name", q) \in x.tags => q = Head(cur.left)
      /\ stage = "profiles" => Tag("profile_name", Head(cur.left)) \in x.tags
  BY <1>2, <1>3, FiledAs
<1>5. PICK e : e = captured'
  OBVIOUS
<1>6. PICK n : n = Len(captured)
  OBVIOUS
<1>7. /\ n \in Nat /\ DOMAIN captured = 1..n /\ DOMAIN e = 1..n + 1
      /\ (\A i \in DOMAIN captured : e[i] = captured[i]) /\ e[n + 1] = x
      /\ \A i \in DOMAIN e : i \in DOMAIN captured \/ i = n + 1
  <2>1. PICK c : c = captured
    OBVIOUS
  <2>2. c \in Seq(ToSet(c))
    BY <2>1 DEF GatherInv, GatherTypes
  <2>3. e = Append(c, x) /\ n = Len(c)
    BY <1>5, <1>6, <2>1
  <2>4. /\ n \in Nat /\ DOMAIN c = 1..n /\ DOMAIN e = 1..n + 1
        /\ (\A i \in 1..n : e[i] = c[i]) /\ e[n + 1] = x
        /\ \A i \in DOMAIN e : i \in DOMAIN c \/ i = n + 1
    BY <2>2, <2>3, Lengthened
  <2> QED BY <2>1, <2>4
<1>8. g.from \in world.servers
  BY <1>3 DEF Message
<1>9. \A i \in DOMAIN e : isProfile(e[i].tags) => e[i].from \in world.servers
  BY <1>2, <1>7, <1>8 DEF ArchInv, Profiled
<1>10. CASE stage # "profiles"
  <2>1. \A i \in DOMAIN e : isProfile(e[i].tags) => i \in DOMAIN captured /\ e[i] = captured[i]
    BY <1>4, <1>7, <1>10
  <2> QED BY <1>5, <1>9, <1>10, <2>1 DEF ArchInv, Profiled
<1>11. CASE stage = "profiles"
  <2>1. asksPerServer /\ g.from = cur.of /\ cur.of \notin todo
    BY <1>1, <1>3, <1>11 DEF asksPerServer, ArchInv, Asked
  <2> SUFFICES /\ \A i, j \in DOMAIN e :
                     isProfile(e[i].tags) /\ e[i].tags = e[j].tags /\ e[i].from = e[j].from => i = j
               /\ IsInjective(advance.left)
               /\ \A i \in DOMAIN e : isProfile(e[i].tags) =>
                     /\ e[i].from \notin todo
                     /\ advance.left # <<>> /\ e[i].from = advance.of =>
                            \A q \in ToSet(advance.left) : Tag("profile_name", q) \notin e[i].tags
    BY <1>5, <1>9, <1>11 DEF Profiled
  <2>2. /\ \A i, j \in DOMAIN captured :
               isProfile(captured[i].tags) /\ captured[i].tags = captured[j].tags
               /\ captured[i].from = captured[j].from => i = j
        /\ IsInjective(cur.left)
        /\ \A i \in DOMAIN captured : isProfile(captured[i].tags) =>
               /\ captured[i].from \notin todo
               /\ captured[i].from = cur.of =>
                      \A q \in ToSet(cur.left) : Tag("profile_name", q) \notin captured[i].tags
    BY <1>11 DEF ArchInv, Profiled
  <2>3. /\ IsInjective(advance.left) /\ Head(cur.left) \notin ToSet(advance.left)
        /\ advance.left # <<>> => advance.of = cur.of
        /\ \A q \in ToSet(advance.left) : q \in ToSet(cur.left)
    BY <1>1, <2>2, Advanced DEF ArchInv
  <2>4. Head(cur.left) \in ToSet(cur.left)
    BY <1>1, FirstLeft DEF ArchInv, Asked
  <2>5. \A i \in DOMAIN captured : isProfile(captured[i].tags) /\ captured[i].from = cur.of =>
            captured[i].tags # x.tags
    BY <1>4, <1>11, <2>2, <2>4
  <2>6. ASSUME NEW i \in DOMAIN e, NEW j \in DOMAIN e,
               isProfile(e[i].tags), e[i].tags = e[j].tags, e[i].from = e[j].from
        PROVE  i = j
    BY <1>2, <1>7, <2>1, <2>2, <2>5, <2>6
  <2>7. ASSUME NEW i \in DOMAIN e, isProfile(e[i].tags)
        PROVE  /\ e[i].from \notin todo
               /\ advance.left # <<>> /\ e[i].from = advance.of =>
                      \A q \in ToSet(advance.left) : Tag("profile_name", q) \notin e[i].tags
    <3>1. CASE i \in DOMAIN captured
      BY <1>7, <2>2, <2>3, <2>7, <3>1
    <3>2. CASE i = n + 1
      BY <1>2, <1>4, <1>7, <1>11, <2>1, <2>3, <3>2
    <3> QED BY <1>7, <3>1, <3>2
  <2> QED BY <2>3, <2>6, <2>7
<1> QED BY <1>10, <1>11

LEMMA Unclosed == ASSUME GatherInv, stage # "done" PROVE closed = ""
BY DEF GatherInv, Course

\* An artifact is written.
LEMMA WriteKeeps ==
  ASSUME GatherInv, ArchInv, stage # "done", UNCHANGED closed, NEW t, NEW d, NEW from, Write(t, d, from),
         Gathered(t, ServerTypes, AccountTypes), UNCHANGED <<world, conf>>,
         stage' \notin Ending => ~ IsSpecial(t) /\ stage \notin Ending,
         stage' = "log" => t # special("audit_gather_log") /\ stage \notin Ending
  PROVE  Archived'
<1>1. PICK x : x = [tags |-> t, data |-> d, from |-> from]
  OBVIOUS
<1>2. x.tags = t /\ x.data = d /\ captured' = Append(captured, x) /\ aw' = AddRaw(aw, x.tags, x.data)
  BY <1>1 DEF Write
<1>3. PICK S : S = ServerTypes
  OBVIOUS
<1>4. PICK A : A = AccountTypes
  OBVIOUS
<1>5. PICK c : c = captured
  OBVIOUS
<1>6. IsTypes(S, A) /\ ServerTypes' = S /\ AccountTypes' = A
  BY <1>3, <1>4, TypesAre DEF ArchInv, Asked, ServerTypes, AccountTypes
<1>7. Artifacts(c, S, A) /\ Writer(aw, c) /\ Gathered(x.tags, S, A)
  <2>1. Writer(aw, captured)
    BY Unclosed DEF ArchInv, Archived
  <2> QED BY <1>2, <1>3, <1>4, <1>5, <2>1 DEF ArchInv, Archived
<1>8. Artifacts(Append(c, x), S, A) /\ Writer(AddRaw(aw, x.tags, x.data), Append(c, x))
  BY <1>6, <1>7, NextFile, WriterAdds
<1>9. Artifacts(captured', S, A) /\ Writer(aw', captured')
  BY <1>2, <1>5, <1>8
<1>10. \A i \in DOMAIN captured' : captured'[i].tags = t \/ \E j \in DOMAIN captured : captured'[i] = captured[j]
  <2>1. c \in Seq(ToSet(c)) /\ captured' = Append(c, x)
    BY <1>2, <1>5, <1>7 DEF Artifacts
  <2>2. /\ \A i \in 1..Len(c) : captured'[i] = c[i]
        /\ captured'[Len(c) + 1] = x /\ DOMAIN c = 1..Len(c)
        /\ \A i \in DOMAIN captured' : i \in DOMAIN c \/ i = Len(c) + 1
    BY <2>1, Lengthened
  <2> QED BY <1>2, <1>5, <2>2
<1>11. stage' \notin Ending => \A i \in DOMAIN captured' : ~ IsSpecial(captured'[i].tags)
  BY <1>10 DEF ArchInv, Archived
<1>12. stage' = "log" => \A i \in DOMAIN captured' : captured'[i].tags # special("audit_gather_log")
  <2>1. stage \notin Ending => \A i \in DOMAIN captured : captured[i].tags # special("audit_gather_log")
    BY DEF ArchInv, Archived, IsSpecial, special, Specials
  <2> QED BY <1>10, <2>1
<1> QED BY <1>6, <1>9, <1>11, <1>12, Unclosed DEF Archived, special

\* The entries of an archive that another was added to, or was torn.
LEMMA EntryAdded ==
  ASSUME NEW c, NEW w, Writer(w, c), NEW x, NEW e, e = Append(w.zip, x), NEW k \in DOMAIN e
  PROVE  (k \in DOMAIN w.zip /\ e[k] = w.zip[k]) \/ e[k] = x
<1>1. PICK y : y = w.zip
  OBVIOUS
<1>2. y \in Seq(ToSet(y)) /\ e = Append(y, x)
  BY <1>1 DEF Writer
<1>3. /\ Len(y) \in Nat /\ DOMAIN y = 1..Len(y) /\ (\A i \in 1..Len(y) : e[i] = y[i])
      /\ e[Len(y) + 1] = x
      /\ \A i \in DOMAIN e : i \in DOMAIN y \/ i = Len(y) + 1
  BY <1>2, Lengthened
<1> QED BY <1>1, <1>3

LEMMA TornBefore ==
  ASSUME NEW c, NEW w, Writer(w, c), NEW t, NEW d, NEW v, v = AddRaw(w, t, d),
         NEW k \in DOMAIN v.zip, v.zip[k].content = <<>>
  PROVE  k \in DOMAIN w.zip /\ v.zip[k] = w.zip[k]
<1>1. PICK y : y = [file |-> fileFor(w, t), content |-> <<d>>]
  OBVIOUS
<1>2. y.content # <<>> /\ v.zip = Append(w.zip, y)
  BY <1>1 DEF AddRaw, entry
<1> QED BY <1>2, EntryAdded

LEMMA TornNow ==
  ASSUME NEW c, NEW w, Writer(w, c), NEW t, NEW v, v = AddRawTorn(w, t), NEW k \in DOMAIN v.zip
  PROVE  (k \in DOMAIN w.zip /\ v.zip[k] = w.zip[k]) \/ v.zip[k].file = fileFor(w, t)
<1>1. PICK z : z = [file |-> fileFor(w, t), content |-> <<>>]
  OBVIOUS
<1>2. z.file = fileFor(w, t) /\ v.zip = Append(w.zip, z)
  <2>1. w = [zip |-> w.zip, manifest |-> w.manifest, pagedWriters |-> w.pagedWriters]
    BY DEF Writer
  <2>2. v = [w EXCEPT !.zip = Append(w.zip, z)]
    BY <1>1 DEF AddRawTorn, entry
  <2> QED BY <1>1, <2>1, <2>2
<1> QED BY <1>2, EntryAdded

LEMMA NoneTorn ==
  ASSUME GatherInv, ArchInv, stage \notin Ending
  PROVE  \A k \in DOMAIN aw.zip : aw.zip[k].content # <<>>
BY Unclosed DEF ArchInv, TornInv, Ending

\* A write that failed, and what it may have spoiled.
Torn(t) ==
    /\ aw' = AddRawTorn(aw, t) /\ faults' = faults + 1
    /\ Gathered(t, ServerTypes, AccountTypes) /\ t # special("audit_gather_log")
Harmless(t) == \A i \in DOMAIN captured : captured[i].tags = t /\ isNonPagedArtifact(t) =>
    /\ isProfile(t)
    /\ \E s \in world.servers : \A j \in written(t) : captured[j].from # s

LEMMA TearKeeps ==
  ASSUME GatherInv, ArchInv, stage \notin Ending, stage' = "log",
         UNCHANGED <<world, conf, captured, closed>>, NEW t,
         aw' = aw \/ Torn(t), Harmless(t)
  PROVE  Archived' /\ TornInv'
<1>1. PICK S : S = ServerTypes
  OBVIOUS
<1>2. PICK A : A = AccountTypes
  OBVIOUS
<1>3. PICK c : c = captured
  OBVIOUS
<1>4. IsTypes(S, A) /\ ServerTypes' = S /\ AccountTypes' = A
  BY <1>1, <1>2, TypesAre DEF ArchInv, Asked, ServerTypes, AccountTypes
<1>5. Artifacts(c, S, A) /\ Writer(aw, c)
  <2>1. Writer(aw, captured)
    BY Unclosed DEF ArchInv, Archived, Ending
  <2> QED BY <1>1, <1>2, <1>3, <2>1 DEF ArchInv, Archived
<1>6. Writer(aw', c)
  BY <1>1, <1>2, <1>4, <1>5, TornKeeps DEF Torn
<1>7. Archived'
  <2>1. \A i \in DOMAIN captured : captured[i].tags # special("audit_gather_log")
    BY DEF ArchInv, Archived, IsSpecial, special, Specials
  <2> QED BY <1>3, <1>4, <1>5, <1>6, <2>1, Unclosed DEF Archived, special, Ending
<1>8. TornInv'
  <2>1. PICK v : v = aw /\ \A k \in DOMAIN v.zip : v.zip[k].content # <<>>
    BY NoneTorn
  <2>2. PICK z : z = aw'
    OBVIOUS
  <2> SUFFICES ASSUME NEW k \in DOMAIN z.zip, z.zip[k].content = <<>>, NEW f, f = z.zip[k].file
               PROVE  faults' > 0 /\ f # fileFor(NewWriter, special("audit_gather_log")) /\ Spoils(f)'
    BY <2>2 DEF TornInv, Ending, special
  <2>3. z = AddRawTorn(v, t) /\ faults' = faults + 1 /\ Gathered(t, S, A) /\ t # special("audit_gather_log")
    BY <1>1, <1>2, <2>1, <2>2 DEF Torn
  <2>4. f = fileFor(v, t)
    <3>1. Writer(v, c) /\ z = AddRawTorn(v, t)
      BY <1>5, <2>1, <2>3
    <3>2. \/ k \in DOMAIN v.zip /\ z.zip[k] = v.zip[k]
          \/ z.zip[k].file = fileFor(v, t)
      BY <3>1, TornNow
    <3> QED BY <2>1, <3>2
  <2>5. faults' > 0
    <3>1. PICK n : n = faults
      OBVIOUS
    <3>2. n \in Nat /\ faults' = n + 1
      BY <2>3, <3>1 DEF GatherInv, GatherTypes
    <3> QED BY <3>2
  <2>6. f # fileFor(NewWriter, special("audit_gather_log"))
    <3>1. PICK l : l = special("audit_gather_log")
      OBVIOUS
    <3>2. Gathered(l, S, A) /\ isNonPagedArtifact(l)
      BY <3>1, SpecialIs DEF Gathered, IsSpecial, special, Specials
    <3>3. createFilenameFromTags(l) # createFilenameFromTags(t)
      BY <1>4, <2>3, <3>1, <3>2, NonPagedApart
    <3>4. fileFor(v, t).dir = createFilenameFromTags(t) /\ fileFor(NewWriter, l).dir = createFilenameFromTags(l)
      BY DEF fileFor, dirNameFromTags
    <3> QED BY <2>4, <3>1, <3>3, <3>4
  <2>7. ASSUME NEW i \in DOMAIN captured, FileAt(captured, i) = f
        PROVE  /\ isProfile(captured[i].tags)
               /\ \E s \in world.servers : \A j \in written(captured[i].tags) : captured[j].from # s
    <3>1. i \in DOMAIN c /\ FileAt(c, i) = fileFor(v, t) /\ Writer(v, c)
      BY <1>3, <1>5, <2>1, <2>4, <2>7
    <3>2. isNonPagedArtifact(c[i].tags) /\ c[i].tags = t
      BY <1>4, <1>5, <2>3, <3>1, TornApart
    <3>3. captured[i].tags = t /\ isNonPagedArtifact(t) /\ i \in DOMAIN captured
      BY <1>3, <3>2
    <3> QED BY <3>3 DEF Harmless
  <2>8. Spoils(f)'
    BY <2>7 DEF Spoils, written
  <2> QED BY <2>5, <2>6, <2>8
<1> QED BY <1>7, <1>8

\* Nothing is torn by a write that succeeds.
LEMMA WholeKeeps ==
  ASSUME GatherInv, ArchInv, stage \notin Ending, NEW t, NEW d, aw' = AddRaw(aw, t, d)
  PROVE  TornInv'
<1>1. Writer(aw, captured)
  BY Unclosed DEF ArchInv, Archived, Ending
<1>2. PICK v : v = aw /\ \A k \in DOMAIN v.zip : v.zip[k].content # <<>>
  BY NoneTorn
<1>3. PICK c : c = captured
  OBVIOUS
<1>4. Writer(v, c)
  BY <1>1, <1>2, <1>3
<1>5. PICK z : z = aw' /\ z = AddRaw(v, t, d)
  BY <1>2
<1>6. \A k \in DOMAIN z.zip : z.zip[k].content # <<>>
  BY <1>2, <1>4, <1>5, TornBefore
<1> QED BY <1>5, <1>6 DEF TornInv

LEMMA StoreKeeps == ASSUME GatherInv, ArchInv, Store PROVE ArchInv'
<1>1. /\ UNCHANGED <<req, net, world, conf, closed>> /\ ~ req.on /\ net' = {}
      /\ asksPerServer \/ asksPerAccount
  BY DEF Store, requestVars, ArchInv, Origins
<1>2. PICK i \in DOMAIN got :
           IF stage = "streams" /\ streamsOf(got[i]) = <<>>
           THEN stored(i) /\ UNCHANGED <<aw, captured, faults>>
           ELSE \/ Write(tagsFor(got[i]), dataOf(got[i]), got[i].from) /\ stored(i)
                \/ WriteFails(tagsFor(got[i])) /\ Fail
  BY DEF Store
<1>3. stage \in Sections /\ stage \notin Ending /\ got[i] \in ToSet(got) /\ cur.left # <<>>
  <2>1. got # <<>>
    <3>1. DOMAIN <<>> = {}
      OBVIOUS
    <3> QED BY <3>1
  <2> QED BY <1>1, <2>1 DEF asksPerServer, asksPerAccount, Sections, Ending, ToSet, GatherInv, Course
<1>5. PICK g : g = got[i]
  OBVIOUS
<1>6. Message(g) /\ (asksPerServer => g.from = cur.of)
  BY <1>3, <1>5 DEF ArchInv, Origins
<1>7. PICK t : t = tagsFor(g)
  OBVIOUS
<1>8. /\ Gathered(t, ServerTypes, AccountTypes) /\ ~ IsSpecial(t)
      /\ isProfile(t) <=> stage = "profiles"
      /\ stage = "profiles" => Tag("profile_name", Head(cur.left)) \in t
  BY <1>1, <1>3, <1>6, <1>7, FiledAs
<1>9. CASE stage = "streams" /\ stored(i) /\ UNCHANGED <<aw, captured>>
  <2>1. Asked' /\ Origins' /\ stage' = stage /\ todo' = todo
    BY <1>1, <1>9, StoredAsks DEF stored
  <2>2. Profiled'
    BY <1>1, <1>9, <2>1, ProfiledStays DEF ArchInv
  <2> QED BY <1>1, <1>3, <1>9, <2>1, <2>2, QuietKeeps
<1>10. CASE Write(t, dataOf(g), g.from) /\ stored(i)
  <2>1. Asked' /\ Origins' /\ UNCHANGED <<stage, todo>> /\ (asksPerServer => got' = <<>>)
    BY <1>1, <1>10, StoredAsks DEF stored
  <2>2. stage = "profiles" => cur' = advance
    BY <1>10, <2>1 DEF asksPerServer, stored
  <2>3. Profiled'
    <3>1. PICK x : x = [tags |-> t, data |-> dataOf(g), from |-> g.from]
      OBVIOUS
    <3>2. captured' = Append(captured, x)
      BY <1>10, <3>1 DEF Write
    <3> QED BY <1>1, <1>3, <1>5, <1>7, <2>1, <2>2, <3>1, <3>2, ProfileTaken
  <2>4. Archived'
    <3>1. stage' \notin Ending /\ stage' # "log"
      BY <1>3, <2>1 DEF Ending
    <3> QED BY <1>1, <1>3, <1>8, <1>10, <3>1, WriteKeeps DEF Ending
  <2>5. TornInv'
    BY <1>3, <1>10, WholeKeeps DEF Write
  <2> QED BY <2>1, <2>3, <2>4, <2>5 DEF ArchInv
<1>11. CASE WriteFails(t) /\ Fail
  <2>1. captured' = captured /\ (aw' = aw \/ (aw' = AddRawTorn(aw, t) /\ faults' = faults + 1))
    BY <1>11 DEF WriteFails
  <2>2. Asked' /\ Origins' /\ Profiled' /\ stage' = "log"
    BY <1>1, <1>3, <1>11, <2>1, FailAsks
  <2>3. t # special("audit_gather_log")
    BY <1>8 DEF IsSpecial, Specials, special
  <2>4. IsTypes(ServerTypes, AccountTypes)
    BY TypesAre DEF ArchInv, Asked
  <2>5. ASSUME isNonPagedArtifact(t)
        PROVE  /\ isProfile(t)
               /\ \E s \in world.servers : \A j \in written(t) : captured[j].from # s
    <3>1. isProfile(t) /\ stage = "profiles"
      BY <1>8, <2>4, <2>5, GatheredIs
    <3>2. cur.of \in world.servers
      BY <1>3, <3>1 DEF ArchInv, Asked, asksPerServer
    <3>3. Head(cur.left) \in ToSet(cur.left)
      BY <1>3, FirstLeft DEF ArchInv, Asked
    <3>4. \A j \in written(t) : captured[j].from # cur.of
      BY <1>3, <1>8, <3>1, <3>3 DEF ArchInv, Profiled, written
    <3> QED BY <3>1, <3>2, <3>4
  <2>6. Harmless(t)
    BY <2>5 DEF Harmless
  <2>7. aw' = aw \/ Torn(t)
    BY <1>8, <2>1, <2>3 DEF Torn
  <2>8. Archived' /\ TornInv'
    BY <1>1, <1>3, <2>1, <2>2, <2>6, <2>7, TearKeeps
  <2> QED BY <2>2, <2>8 DEF ArchInv
<1> QED BY <1>2, <1>5, <1>7, <1>9, <1>10, <1>11

-----------------------------------------------------------------------------
(* The gathering: the end of its archive, and what is read back.           *)

\* At the end nobody is asked any more.
LEMMA EndingAsks ==
  ASSUME ArchInv, UNCHANGED <<req, net, world, conf, known, cur, got>>, stage' \in Ending
  PROVE  Asked' /\ Origins'
<1>1. Asked'
  BY DEF ArchInv, Asked, asksPerServer, Sections, Ending
<1>2. ~ asksPerServer'
  BY DEF asksPerServer, Ending
<1>3. Origins'
  BY <1>2, MessageStays DEF ArchInv, Origins
<1> QED BY <1>1, <1>3

LEMMA OtherTaken ==
  ASSUME ArchInv, NEW x, ~ isProfile(x.tags), captured' = captured \/ captured' = Append(captured, x),
         UNCHANGED <<world, conf>>, stage' \in Ending
  PROVE  Profiled'
<1>1. CASE captured' = captured
  BY <1>1, ProfiledStays DEF ArchInv, Ending
<1>2. CASE captured' = Append(captured, x)
  <2>1. PICK c : c = captured
    OBVIOUS
  <2>2. c \in Seq(ToSet(c)) /\ captured' = Append(c, x)
    BY <1>2, <2>1 DEF ArchInv, Archived, Artifacts
  <2>3. /\ \A i \in 1..Len(c) : captured'[i] = c[i]
        /\ captured'[Len(c) + 1] = x /\ DOMAIN c = 1..Len(c)
        /\ \A i \in DOMAIN captured' : i \in DOMAIN c \/ i = Len(c) + 1
    BY <2>2, Lengthened
  <2>4. \A i \in DOMAIN captured' : isProfile(captured'[i].tags) =>
            i \in DOMAIN captured /\ captured'[i] = captured[i]
    BY <2>1, <2>3
  <2> QED BY <2>4 DEF ArchInv, Profiled, Ending
<1> QED BY <1>1, <1>2

LEMMA SpecialTags ==
  ASSUME NEW n \in Specials, NEW S, NEW A
  PROVE  /\ Gathered(special(n), S, A) /\ IsSpecial(special(n)) /\ ~ isProfile(special(n))
         /\ isNonPagedArtifact(special(n))
BY SpecialIs DEF Gathered, IsSpecial, special

LEMMA CaptureMetadataKeeps == ASSUME GatherInv, ArchInv, CaptureMetadata PROVE ArchInv'
<1>1. PICK t : t = special("audit_gather_metadata")
  OBVIOUS
<1>2. /\ UNCHANGED <<req, net, world, conf, closed>> /\ stage = "metadata" /\ ~ req.on /\ net' = {}
      /\ stage \notin Ending /\ stage' = "log"
  BY DEF CaptureMetadata, requestVars, GatherInv, Course, ArchInv, Origins, Sections, Ending, Fail
<1>3. /\ Gathered(t, ServerTypes, AccountTypes) /\ IsSpecial(t) /\ ~ isProfile(t)
      /\ t # special("audit_gather_log")
  <2>1. "audit_gather_metadata" \in Specials
    BY DEF Specials
  <2>2. t # special("audit_gather_log")
    <3>1. createFilenameFromTags(t) = << <<"misc">>, <<"audit_gather_metadata">> >>
      BY <1>1, SpecialIs DEF special
    <3>2. createFilenameFromTags(special("audit_gather_log")) = << <<"misc">>, <<"audit_gather_log">> >>
      BY SpecialIs DEF special
    <3> QED BY <3>1, <3>2
  <2> QED BY <1>1, <2>1, <2>2, SpecialTags
<1>4. CASE Write(t, "metadata", <<>>) /\ UNCHANGED <<known, counts, systemAccount, todo, cur, got>>
  <2>1. Asked' /\ Origins'
    BY <1>2, <1>4, EndingAsks DEF Ending
  <2>2. Profiled'
    <3>1. PICK x : x = [tags |-> t, data |-> "metadata", from |-> <<>>]
      OBVIOUS
    <3>2. captured' = Append(captured, x) /\ x.tags = t
      BY <1>4, <3>1 DEF Write
    <3> QED BY <1>2, <1>3, <3>2, OtherTaken DEF Ending
  <2>3. Archived'
    BY <1>2, <1>3, <1>4, WriteKeeps DEF Ending
  <2>4. TornInv'
    BY <1>2, <1>4, WholeKeeps DEF Write
  <2> QED BY <2>1, <2>2, <2>3, <2>4 DEF ArchInv
<1>5. CASE WriteFails(t) /\ Fail
  <2>1. captured' = captured /\ (aw' = aw \/ (aw' = AddRawTorn(aw, t) /\ faults' = faults + 1))
    BY <1>5 DEF WriteFails
  <2>2. Asked' /\ Origins' /\ Profiled'
    BY <1>2, <1>5, <2>1, FailAsks
  <2>3. Harmless(t)
    BY <1>2, <1>3 DEF Harmless, ArchInv, Archived
  <2>4. aw' = aw \/ Torn(t)
    BY <1>3, <2>1 DEF Torn
  <2>5. Archived' /\ TornInv'
    BY <1>2, <2>1, <2>3, <2>4, TearKeeps
  <2> QED BY <2>2, <2>5 DEF ArchInv
<1> QED BY <1>1, <1>4, <1>5 DEF CaptureMetadata

\* The log is in a file that nothing else is in.
LEMMA AddLogKeeps == ASSUME GatherInv, ArchInv, AddLog PROVE ArchInv'
<1>1. PICK t : t = special("audit_gather_log")
  OBVIOUS
<1>2. /\ UNCHANGED <<req, net, world, conf, known, cur, got, closed>>
      /\ stage = "log" /\ stage' = "close" /\ stage # "done" /\ stage' \in Ending
  BY DEF AddLog, requestVars, Ending
<1>3. PICK S : S = ServerTypes
  OBVIOUS
<1>4. PICK A : A = AccountTypes
  OBVIOUS
<1>5. Gathered(t, S, A) /\ ~ isProfile(t) /\ isNonPagedArtifact(t)
  <2>1. "audit_gather_log" \in Specials
    BY DEF Specials
  <2> QED BY <1>1, <2>1, SpecialTags
<1>6. PICK x : x = [tags |-> t, data |-> "log", from |-> <<>>]
  OBVIOUS
<1>7. x.tags = t /\ (Write(t, "log", <<>>) => captured' = Append(captured, x))
  BY <1>6 DEF Write
<1>8. Asked' /\ Origins'
  BY <1>2, EndingAsks
<1>9. Profiled'
  <2>1. captured' = captured \/ captured' = Append(captured, x)
    BY <1>1, <1>7 DEF AddLog, WriteFails
  <2> QED BY <1>2, <1>5, <1>7, <2>1, OtherTaken
<1>10. IsTypes(S, A) /\ ServerTypes' = S /\ AccountTypes' = A
  BY <1>2, <1>3, <1>4, TypesAre DEF ArchInv, Asked, ServerTypes, AccountTypes
<1>11. PICK c : c = captured
  OBVIOUS
<1>12. PICK w : w = aw
  OBVIOUS
<1>13. Artifacts(c, S, A) /\ Writer(w, c) /\ \A i \in DOMAIN c : c[i].tags # t
  BY <1>1, <1>2, <1>3, <1>4, <1>11, <1>12, Unclosed DEF ArchInv, Archived
<1>14. ASSUME NEW k \in DOMAIN w.zip, w.zip[k].content = <<>>
       PROVE  faults > 0 /\ w.zip[k].file # fileFor(w, t) /\ Spoils(w.zip[k].file)
  <2>1. closed # "failed"
    BY <1>2, Unclosed
  <2>2. fileFor(w, t) = fileFor(NewWriter, t)
    BY <1>5 DEF fileFor
  <2> QED BY <1>1, <1>2, <1>12, <1>14, <2>1, <2>2 DEF ArchInv, TornInv
<1>15. PICK z : z = aw'
  OBVIOUS
<1>16. CASE Write(t, "log", <<>>)
  <2>1. Archived'
    <3>1. Gathered(t, ServerTypes, AccountTypes)
      BY <1>3, <1>4, <1>5
    <3> QED BY <1>2, <1>16, <3>1, WriteKeeps DEF Ending
  <2>2. z = AddRaw(w, t, "log") /\ faults' = faults
    BY <1>12, <1>15, <1>16 DEF Write
  <2>3. PICK e : e = captured' /\ e = Append(c, x)
    BY <1>7, <1>11, <1>16
  <2>4. /\ \A i \in DOMAIN c : e[i] = c[i]
        /\ e[Len(c) + 1] = x /\ \A i \in DOMAIN e : i \in DOMAIN c \/ i = Len(c) + 1
    BY <1>13, <2>3, Lengthened DEF Artifacts
  <2>5. /\ \A i \in DOMAIN c : FileAt(e, i) = FileAt(c, i)
        /\ FileAt(e, Len(c) + 1) = fileFor(w, t)
    BY <1>5, <1>7, <1>10, <1>13, <2>3, NextFile
  <2>6. TornInv'
    <3> SUFFICES ASSUME NEW k \in DOMAIN z.zip, z.zip[k].content = <<>>, NEW f, f = z.zip[k].file
                 PROVE  faults' > 0 /\ Spoils(f)'
      BY <1>2, <1>15 DEF TornInv
    <3>1. k \in DOMAIN w.zip /\ z.zip[k] = w.zip[k]
      BY <1>13, <2>2, TornBefore
    <3>2. faults > 0 /\ f # fileFor(w, t) /\ Spoils(f)
      BY <1>14, <3>1
    <3>3. ASSUME NEW i \in DOMAIN e, FileAt(e, i) = f
          PROVE  /\ isProfile(e[i].tags)
                 /\ \E s \in world.servers : \A j \in DOMAIN e : e[j].tags = e[i].tags => e[j].from # s
      <4>1. i \in DOMAIN c /\ e[i] = c[i] /\ FileAt(c, i) = f
        BY <2>4, <2>5, <3>2, <3>3
      <4>2. /\ isProfile(c[i].tags)
            /\ \E s \in world.servers : \A j \in DOMAIN c : c[j].tags = c[i].tags => c[j].from # s
        BY <1>11, <3>2, <4>1 DEF Spoils, written
      <4>3. \A j \in DOMAIN e : e[j].tags = c[i].tags => j \in DOMAIN c /\ e[j] = c[j]
        BY <1>7, <1>13, <2>4, <4>1
      <4> QED BY <4>1, <4>2, <4>3
    <3>4. Spoils(f)'
      BY <1>2, <2>3, <3>3 DEF Spoils, written
    <3> QED BY <2>2, <3>2, <3>4
  <2> QED BY <1>8, <1>9, <2>1, <2>6 DEF ArchInv
<1>17. CASE WriteFails(t)
  <2>1. captured' = c /\ faults' \in {faults, faults + 1}
        /\ (z = w \/ (z = AddRawTorn(w, t) /\ faults' = faults + 1))
    BY <1>11, <1>12, <1>15, <1>17 DEF WriteFails
  <2>2. PICK n : n = faults /\ n \in Nat
    BY DEF GatherInv, GatherTypes
  <2>3. Writer(z, c)
    BY <1>5, <1>10, <1>13, <2>1, TornKeeps
  <2>4. Archived'
    <3>1. Artifacts(captured', S, A) /\ Writer(aw', captured')
      BY <1>13, <1>15, <2>1, <2>3
    <3> QED BY <1>2, <1>10, <3>1, Unclosed DEF Archived, Ending
  <2>5. TornInv'
    <3> SUFFICES ASSUME NEW k \in DOMAIN z.zip, z.zip[k].content = <<>>, NEW f, f = z.zip[k].file
                 PROVE  faults' > 0 /\ Spoils(f)'
      BY <1>2, <1>15 DEF TornInv
    <3>1. (k \in DOMAIN w.zip /\ z.zip[k] = w.zip[k])
          \/ (z = AddRawTorn(w, t) /\ faults' = faults + 1 /\ f = fileFor(w, t))
      <4>1. CASE z = w
        BY <4>1
      <4>2. CASE z = AddRawTorn(w, t) /\ faults' = faults + 1
        <5>1. (k \in DOMAIN w.zip /\ z.zip[k] = w.zip[k]) \/ z.zip[k].file = fileFor(w, t)
          BY <1>13, <4>2, TornNow
        <5> QED BY <4>2, <5>1
      <4> QED BY <2>1, <4>1, <4>2
    <3>2. CASE k \in DOMAIN w.zip /\ z.zip[k] = w.zip[k]
      <4>1. faults > 0 /\ Spoils(f)
        BY <1>14, <3>2
      <4>2. Spoils(f)'
        BY <1>2, <1>11, <2>1, <4>1 DEF Spoils, written
      <4>3. faults' > 0
        BY <2>1, <2>2, <4>1
      <4> QED BY <4>2, <4>3
    <3>3. CASE faults' = faults + 1 /\ f = fileFor(w, t)
      <4>1. \A i \in DOMAIN c : FileAt(c, i) # f
        <5> SUFFICES ASSUME NEW i \in DOMAIN c, FileAt(c, i) = fileFor(w, t) PROVE FALSE
          BY <3>3
        <5>1. c[i].tags = t
          BY <1>5, <1>10, <1>13, TornApart
        <5> QED BY <1>13, <5>1
      <4>2. Spoils(f)'
        BY <2>1, <4>1 DEF Spoils
      <4>3. faults' > 0
        BY <2>2, <3>3
      <4> QED BY <4>2, <4>3
    <3> QED BY <3>1, <3>2, <3>3
  <2> QED BY <1>8, <1>9, <2>4, <2>5 DEF ArchInv
<1> QED BY <1>1, <1>16, <1>17 DEF AddLog

LEMMA CloseArchiveKeeps == ASSUME GatherInv, ArchInv, CloseArchive PROVE ArchInv'
<1>1. /\ UNCHANGED <<req, net, world, conf, known, cur, got, captured>>
      /\ stage = "close" /\ stage' = "done" /\ stage # "done" /\ stage' \in Ending
  BY DEF CloseArchive, requestVars, Ending
<1>2. Asked' /\ Origins'
  BY <1>1, EndingAsks
<1>3. Profiled'
  BY <1>1, ProfiledStays DEF ArchInv
<1>4. Artifacts(captured, ServerTypes, AccountTypes)' /\ Writer(aw, captured) /\ closed # "failed"
  <2>1. ServerTypes' = ServerTypes /\ AccountTypes' = AccountTypes
    BY <1>1 DEF ServerTypes, AccountTypes
  <2>2. Writer(aw, captured) /\ closed # "failed"
    BY <1>1, Unclosed DEF ArchInv, Archived
  <2>3. Artifacts(captured, ServerTypes, AccountTypes)
    BY DEF ArchInv, Archived
  <2> QED BY <1>1, <2>1, <2>2, <2>3 DEF Artifacts
<1>5. CASE closed' = "failed"
  <2>1. Archived'
    BY <1>1, <1>4, <1>5 DEF Archived, Ending
  <2>2. TornInv'
    BY <1>5 DEF TornInv
  <2> QED BY <1>2, <1>3, <2>1, <2>2 DEF ArchInv
<1>6. CASE aw' = Close(aw) /\ closed' = "ok" /\ UNCHANGED faults
  <2>1. \E w : Writer(w, captured') /\ aw' = Close(w)
    BY <1>1, <1>4, <1>6
  <2>2. Archived'
    BY <1>1, <1>4, <1>6, <2>1 DEF Archived, Ending
  <2>3. TornInv'
    <3>1. PICK w : w = aw
      OBVIOUS
    <3>2. PICK z : z = aw' /\ z = AddRaw(w, TagSpecial("manifest"), w.manifest)
      BY <1>6, <3>1 DEF Close
    <3>3. PICK c : c = captured /\ Writer(w, c)
      BY <1>4, <3>1
    <3> SUFFICES ASSUME NEW k \in DOMAIN z.zip, z.zip[k].content = <<>>, NEW f, f = z.zip[k].file
                 PROVE  faults' > 0 /\ Spoils(f)'
      BY <1>1, <3>2 DEF TornInv
    <3>4. k \in DOMAIN w.zip /\ z.zip[k] = w.zip[k]
      BY <3>2, <3>3, TornBefore
    <3>5. faults > 0 /\ Spoils(f)
      BY <1>4, <3>1, <3>4 DEF ArchInv, TornInv
    <3>6. Spoils(f)'
      BY <1>1, <3>5 DEF Spoils, written
    <3> QED BY <1>6, <3>5, <3>6
  <2> QED BY <1>2, <1>3, <2>2, <2>3 DEF ArchInv
<1> QED BY <1>5, <1>6 DEF CloseArchive

LEMMA ArchStutter == ASSUME ArchInv, UNCHANGED vars PROVE ArchInv'
<1>1. UNCHANGED <<req, net, world, conf, stage, known, todo, cur, got, aw, captured, faults, closed>>
  BY DEF vars, requestVars, gatherVars
<1>2. Asked'
  BY <1>1 DEF ArchInv, Asked, asksPerServer, Accepted, work
<1>3. Origins'
  BY <1>1, MessageStays DEF ArchInv, Origins, asksPerServer
<1>4. Profiled'
  BY <1>1, ProfiledStays DEF ArchInv, Profiled
<1>5. Archived'
  <2>1. ServerTypes' = ServerTypes /\ AccountTypes' = AccountTypes
    BY <1>1 DEF ServerTypes, AccountTypes
  <2>2. Artifacts(captured, ServerTypes, AccountTypes)'
    BY <1>1, <2>1 DEF ArchInv, Archived, Artifacts
  <2> QED BY <1>1, <2>2 DEF ArchInv, Archived, special
<1>6. TornInv'
  BY <1>1 DEF ArchInv, TornInv, Spoils, written
<1> QED BY <1>2, <1>3, <1>4, <1>5, <1>6 DEF ArchInv

LEMMA ArchStarts == Init => ArchInv
<1> SUFFICES ASSUME Init PROVE ArchInv
  OBVIOUS
<1>1. /\ world \in Worlds /\ conf \in Configurations /\ stage = "config" /\ known = {} /\ net = {} /\ got = <<>>
      /\ cur = Nobody /\ captured = <<>> /\ aw = NewWriter
  BY DEF Init
<1>2. Asked
  BY <1>1 DEF Asked, asksPerServer, Sections, Nobody
<1>3. Origins
  BY <1>1 DEF Origins, asksPerServer, ToSet
<1>4. Profiled
  BY <1>1 DEF Profiled
<1>5. Writer(NewWriter, <<>>)
  <2>1. \A d : Paged(<<>>, d) = {} /\ pageIndex(NewWriter, d) = 1
    BY DEF Paged, pageIndex, NewWriter
  <2>2. Cardinality({}) = 0
    BY FS_EmptySet
  <2>3. \A d : pageIndex(NewWriter, d) = 1 + Cardinality(Paged(<<>>, d))
    BY <2>1, <2>2
  <2>4. /\ NewWriter = [zip |-> NewWriter.zip, manifest |-> NewWriter.manifest, pagedWriters |-> NewWriter.pagedWriters]
        /\ NewWriter.zip = <<>> /\ NewWriter.manifest = <<>>
    BY DEF NewWriter
  <2>5. <<>> \in Seq(ToSet(<<>>)) /\ DOMAIN <<>> = {}
    OBVIOUS
  <2> QED BY <2>3, <2>4, <2>5 DEF Writer
<1>6. Archived
  <2>1. captured \in Seq(ToSet(captured)) /\ DOMAIN captured = {}
    BY <1>1
  <2>2. Artifacts(captured, ServerTypes, AccountTypes)
    BY <2>1 DEF Artifacts
  <2>3. Writer(aw, captured)
    BY <1>1, <1>5
  <2>4. closed \in {"", "ok", "failed"} /\ closed # "ok"
    BY DEF Init
  <2> QED BY <2>1, <2>2, <2>3, <2>4 DEF Archived
<1>7. TornInv
  BY <1>1 DEF TornInv, NewWriter
<1> QED BY <1>2, <1>3, <1>4, <1>6, <1>7 DEF ArchInv

(***************************************************************************)
(* However a gathering goes, the writer has filed every artifact captured  *)
(* so far in a place of its own, a page after the other; a profile is      *)
(* replaced only by that of another server of the same name and cluster;   *)
(* and an entry that is torn ends the gathering and spoils at most such a  *)
(* profile (Writer.AddRaw, pagedWriter.WriteEntry, captureServerProfiles,  *)
(* Gather).                                                                *)
(***************************************************************************)
THEOREM ArchiveInvariant == Spec => []ArchInv
<1>1. Init => ArchInv
  BY ArchStarts
<1>2. GatherInv /\ ArchInv /\ [Next]_vars => ArchInv'
  <2> SUFFICES ASSUME GatherInv, ArchInv, [Next]_vars PROVE ArchInv'
    OBVIOUS
  <2>1. CASE UNCHANGED vars
    BY <2>1, ArchStutter
  <2>2. CASE Next
    <3>1. CASE Configure BY <3>1, ConfigureKeeps
    <3>2. CASE SendRequest BY <3>2, SendRequestKeeps
    <3>3. CASE Receive BY <3>3, ReceiveKeeps
    <3>4. CASE TimePasses \/ Returns BY <3>4, TimeKeeps
    <3>5. CASE TakeLive BY <3>5, TakeLiveKeeps
    <3>6. CASE TakeServers BY <3>6, TakeServersKeeps
    <3>7. CASE TakeAccounts BY <3>7, TakeAccountsKeeps
    <3>8. CASE Choose BY <3>8, ChooseKeeps
    <3>9. CASE NextSection BY <3>9, NextSectionKeeps
    <3>10. CASE Skip BY <3>10, SkipKeeps
    <3>11. CASE TakeAnswers BY <3>11, TakeAnswersKeeps
    <3>12. CASE Store BY <3>12, StoreKeeps
    <3>13. CASE CaptureMetadata BY <3>13, CaptureMetadataKeeps
    <3>14. CASE AddLog BY <3>14, AddLogKeeps
    <3>15. CASE CloseArchive BY <3>15, CloseArchiveKeeps
    <3>16. CASE Finished BY <3>16, ArchStutter DEF Finished
    <3> QED BY <2>2, <3>1, <3>2, <3>3, <3>4, <3>5, <3>6, <3>7, <3>8, <3>9, <3>10, <3>11, <3>12,
               <3>13, <3>14, <3>15, <3>16 DEF Next
  <2> QED BY <2>1, <2>2
<1> QED BY <1>1, <1>2, GatherInvariant, PTL DEF Spec

\* A profile that was torn is one that another server has too.
LEMMA SharedProfile ==
  ASSUME GatherTypes, Profiled, NEW t, isProfile(t), captured \in Seq(ToSet(captured)),
         NEW s \in world.servers, \A j \in written(t) : captured[j].from # s
  PROVE  Cardinality(written(t)) < Cardinality(world.servers)
<1>1. PICK W : W = written(t)
  OBVIOUS
<1>2. PICK T : T = world.servers \ {s}
  OBVIOUS
<1>3. IsFiniteSet(world.servers)
  BY WorldFacts
<1>4. T \subseteq world.servers /\ s \notin T
  BY <1>2
<1>5. Cardinality(T) < Cardinality(world.servers) /\ Cardinality(T) \in Nat /\ Cardinality(world.servers) \in Nat
  BY <1>3, <1>4, SmallerSet
<1>6. \A j \in W : captured[j].from \in T
  BY <1>1, <1>2 DEF Profiled, written
<1>7. \A i, j \in W : captured[i].from = captured[j].from => i = j
  BY <1>1 DEF Profiled, written
<1>8. PICK h : h = [j \in W |-> captured[j].from]
  OBVIOUS
<1>9. h \in Injection(W, T)
  BY <1>6, <1>7, <1>8 DEF Injection, IsInjective
<1>10. IsFiniteSet(T)
  BY <1>3, <1>4, FS_Subset
<1>11. Cardinality(W) <= Cardinality(T) /\ IsFiniteSet(W)
  BY <1>9, <1>10, FS_Injection
<1>12. Cardinality(W) \in Nat
  BY <1>11, FS_CardinalityType
<1> QED BY <1>1, <1>5, <1>11, <1>12

LEMMA InvReadsBack == ASSUME GatherInv, ArchInv PROVE ArchiveReadsBack
<1> SUFFICES ASSUME closed = "ok" PROVE ArchiveReadsBack
  BY DEF ArchiveReadsBack
<1>1. PICK S : S = ServerTypes
  OBVIOUS
<1>2. PICK A : A = AccountTypes
  OBVIOUS
<1>3. PICK c : c = captured
  OBVIOUS
<1>4. IsTypes(S, A) /\ Artifacts(c, S, A)
  BY <1>1, <1>2, <1>3, TypesAre DEF ArchInv, Asked, Archived
<1>5. PICK w : Writer(w, c) /\ aw = Close(w)
  BY <1>3 DEF ArchInv, Archived
<1>6. PICK r : r = reader
  OBVIOUS
<1>7. PICK zip : zip = aw.zip
  OBVIOUS
<1>8. Finds(r, zip, c)
  <2>1. zip = Close(w).zip /\ r = NewReader(zip)
    BY <1>5, <1>6, <1>7 DEF reader
  <2> QED BY <1>4, <1>5, <2>1, ClosedReads
<1>9. r.readable /\ (faults = 0 => r.warnings = {})
  <2>1. faults = 0 => \A k \in DOMAIN zip : zip[k].content # <<>>
    BY <1>7 DEF ArchInv, TornInv
  <2> QED BY <1>8, <2>1 DEF Finds
<1>10. ASSUME NEW i \in DOMAIN c, isNonPagedArtifact(c[i].tags)
       PROVE  \/ Load(r, c[i].tags) = <<c[Max(written(c[i].tags))].data>>
              \/ /\ torn(c[i].tags) /\ isProfile(c[i].tags)
                 /\ Cardinality(written(c[i].tags)) < Cardinality(world.servers)
  <2>1. PICK t : t = c[i].tags
    OBVIOUS
  <2>2. written(t) = {j \in DOMAIN c : c[j].tags = c[i].tags}
    BY <1>3, <2>1 DEF written
  <2>3. \/ Load(r, t) = <<c[Max(written(t))].data>>
        \/ \E k \in DOMAIN zip : zip[k].file = fileFor(NewWriter, t) /\ zip[k].content = <<>>
    BY <1>4, <1>8, <1>10, <2>1, <2>2, NonPagedReads
  <2>4. ASSUME NEW k \in DOMAIN zip, zip[k].file = fileFor(NewWriter, t), zip[k].content = <<>>
        PROVE  /\ torn(t) /\ isProfile(t)
               /\ Cardinality(written(t)) < Cardinality(world.servers)
    <3>1. torn(t)
      BY <1>7, <2>4 DEF torn, entries
    <3>2. Spoils(fileFor(NewWriter, t))
      BY <1>7, <2>4 DEF ArchInv, TornInv
    <3>3. FileAt(c, i) = fileFor(NewWriter, t)
      BY <1>10, <2>1 DEF FileAt, fileFor, Dir, dirNameFromTags
    <3>4. /\ isProfile(t)
          /\ \E s \in world.servers : \A j \in written(t) : captured[j].from # s
      BY <1>3, <2>1, <3>2, <3>3 DEF Spoils
    <3> QED BY <3>1, <3>4, SharedProfile DEF ArchInv, GatherInv, GatherTypes
  <2> QED BY <2>1, <2>3, <2>4
<1>11. ASSUME NEW i \in DOMAIN c, ~ isNonPagedArtifact(c[i].tags), inItsDirectory(i) <= MaxPage,
              NEW found, found = ForEachTaggedArtifact(r, c[i].tags)
       PROVE  \E j \in DOMAIN found : j <= inItsDirectory(i) /\ found[j] = c[i].data
  <2>1. inItsDirectory(i) = Place(c, i)
    BY <1>3 DEF inItsDirectory, Place, Dir, dirNameFromTags
  <2> QED BY <1>4, <1>8, <1>11, <2>1, PagedReads
<1>12. ASSUME NEW i \in DOMAIN c, has(c[i].tags, "account"), NEW t, t = c[i].tags
       PROVE  /\ value(t, "account") \in AccountNames(r)
              /\ has(t, "stream") =>
                     /\ value(t, "stream") \in AccountStreamNames(r, value(t, "account"))
                     /\ value(t, "server") \in StreamServerNames(r, value(t, "account"), value(t, "stream"))
  BY <1>4, <1>8, <1>12, NamesRead
<1> QED BY <1>3, <1>6, <1>9, <1>10, <1>11, <1>12 DEF ArchiveReadsBack

(***************************************************************************)
(* An archive that was closed opens, however the gathering ended, and      *)
(* every captured artifact is read back by its tags, page after page, with *)
(* the exceptions that the property names (Writer.AddRaw,                  *)
(* pagedWriter.WriteEntry, NewReader, Reader.Load, ForEachTaggedArtifact). *)
(***************************************************************************)
THEOREM ArchiveRead == Spec => []ArchiveReadsBack
BY InvReadsBack, GatherInvariant, ArchiveInvariant, PTL

-----------------------------------------------------------------------------
(* Items of the configuration: a key is found again in the item of its     *)
(* check.                                                                  *)

\* What is left of two sequences joined after the first is the second.
LEMMA Rest ==
  ASSUME NEW s, NEW t, IsSequence(s), IsSequence(t)
  PROVE  SubSeq(s \o t, Len(s) + 1, Len(s \o t)) = t
<1> DEFINE A == {s[i] : i \in DOMAIN s} \cup {t[i] : i \in DOMAIN t}
<1>1. Len(s) \in Nat /\ s \in [1..Len(s) -> A] /\ Len(t) \in Nat /\ t \in [1..Len(t) -> A]
  BY DEF IsSequence
<1>2. s \in Seq(A) /\ t \in Seq(A)
  BY <1>1
<1> HIDE DEF A
<1>3. /\ s \o t \in Seq(A) /\ Len(s \o t) = Len(s) + Len(t)
      /\ \A i \in 1..Len(t) : (s \o t)[Len(s) + i] = t[i]
  BY <1>2
<1> DEFINE u == SubSeq(s \o t, Len(s) + 1, Len(s \o t))
<1>4. Len(u) = Len(t) /\ u \in Seq(A) /\ \A i \in 1..Len(t) : u[i] = (s \o t)[i + Len(s)]
  BY <1>1, <1>3
<1>5. \A i \in 1..Len(t) : u[i] = t[i]
  BY <1>1, <1>3, <1>4
<1> QED BY <1>1, <1>2, <1>4, <1>5

LEMMA KeyFound ==
  ASSUME NEW o \in Offers, NEW k \in o.keys
  PROVE  keyOf(o, configItemKey(o.code, k)) = k
BY Rest, CollectionAssumption DEF keyOf, configItemKey

\* Checks of one code have different items for different keys.
LEMMA OneKey ==
  ASSUME NEW o \in Offers, NEW k \in o.keys, NEW x \in Offers, NEW j \in x.keys, x.code = o.code,
         configItemKey(o.code, k) = configItemKey(x.code, j)
  PROVE  j = k
<1>1. keyOf(o, configItemKey(o.code, k)) = k /\ keyOf(x, configItemKey(x.code, j)) = j
  BY KeyFound
<1> QED BY <1>1 DEF keyOf

-----------------------------------------------------------------------------
(* The collection.                                                         *)

IsCollection(c) ==
    /\ c = [registered |-> c.registered, configuration |-> c.configuration, set |-> c.set,
            skipCheck |-> c.skipCheck, skipSuite |-> c.skipSuite]
    /\ c.registered \in Seq(Offers)

\* No code is registered twice.
Once(c) == \A i, j \in DOMAIN c.registered : c.registered[i].code = c.registered[j].code => i = j

\* Every check that is registered has its items, ...
Stored(c) == \A o \in EachCheck(c) : \A k \in o.keys : configItemKey(o.code, k) \in DOMAIN c.configuration

\* ... and every item belongs to a check and the key it is named after.
Owned(c) == \A i \in DOMAIN c.configuration :
    \E x \in Offers : \E k \in x.keys :
        i = configItemKey(x.code, k) /\ c.configuration[i] = <<x.code, k>>

Checked(c) == \A s \in c.set : s[2] \in ValidValues

Coherent(c) == IsCollection(c) /\ Once(c) /\ Stored(c) /\ Owned(c) /\ Checked(c)

\* d is what c may become: nothing registered or skipped is forgotten.
Grown(c, d) ==
    /\ EachCheck(c) \subseteq EachCheck(d)
    /\ c.skipCheck \subseteq d.skipCheck /\ c.skipSuite \subseteq d.skipSuite

LEMMA Stores ==
  ASSUME NEW c, Coherent(c), NEW o \in Offers, NEW keys \in SUBSET o.keys
  PROVE  LET d == store(c, o, keys)
         IN  /\ Coherent(d) /\ Grown(c, d) /\ d.registered = c.registered
             /\ \A k \in keys : configItemKey(o.code, k) \in DOMAIN d.configuration
<1> DEFINE slots == {configItemKey(o.code, k) : k \in keys}
           f == [i \in slots \cup DOMAIN c.configuration |->
                    IF i \in slots THEN <<o.code, keyOf(o, i)>> ELSE c.configuration[i]]
<1>1. PICK d : d = store(c, o, keys)
  OBVIOUS
<1>2. d = [c EXCEPT !.configuration = f]
  BY <1>1 DEF store
<1>3. /\ d.registered = c.registered /\ d.set = c.set /\ d.skipCheck = c.skipCheck
      /\ d.skipSuite = c.skipSuite /\ d.configuration = f
      /\ d = [registered |-> d.registered, configuration |-> d.configuration, set |-> d.set,
              skipCheck |-> d.skipCheck, skipSuite |-> d.skipSuite]
  BY <1>2 DEF Coherent, IsCollection
<1>4. IsCollection(d) /\ Once(d) /\ Checked(d) /\ Grown(c, d)
  BY <1>3 DEF Coherent, IsCollection, Once, Checked, Grown, EachCheck
<1>5. DOMAIN d.configuration = slots \cup DOMAIN c.configuration
  BY <1>3
<1>6. Stored(d)
  BY <1>3, <1>5 DEF Coherent, Stored, EachCheck
<1>7. Owned(d)
  <2> SUFFICES ASSUME NEW i \in DOMAIN d.configuration
               PROVE  \E x \in Offers : \E k \in x.keys :
                          i = configItemKey(x.code, k) /\ d.configuration[i] = <<x.code, k>>
    BY DEF Owned
  <2>1. CASE i \in slots
    <3>1. PICK k \in keys : i = configItemKey(o.code, k)
      BY <2>1
    <3>2. d.configuration[i] = <<o.code, k>>
      BY <1>3, <1>5, <2>1, <3>1, KeyFound
    <3> QED BY <3>1, <3>2
  <2>2. CASE i \notin slots
    <3>1. i \in DOMAIN c.configuration /\ d.configuration[i] = c.configuration[i]
      BY <1>3, <1>5, <2>2
    <3> QED BY <3>1 DEF Coherent, Owned
  <2> QED BY <2>1, <2>2
<1>8. \A k \in keys : configItemKey(o.code, k) \in DOMAIN d.configuration
  BY <1>5
<1> QED BY <1>1, <1>3, <1>4, <1>6, <1>7, <1>8 DEF Coherent

LEMMA Registers ==
  ASSUME NEW c, Coherent(c), NEW o \in Offers, o.code \notin codes(c)
  PROVE  Coherent(registerOne(c, o)) /\ Grown(c, registerOne(c, o))
<1>1. PICK b : b = store(c, o, o.keys)
  OBVIOUS
<1>2. /\ Coherent(b) /\ Grown(c, b) /\ b.registered = c.registered
      /\ \A k \in o.keys : configItemKey(o.code, k) \in DOMAIN b.configuration
  BY <1>1, Stores
<1>3. PICK d : d = registerOne(c, o)
  OBVIOUS
<1>4. d = [b EXCEPT !.registered = Append(b.registered, o)]
  BY <1>1, <1>3 DEF registerOne
<1>5. /\ d.registered = Append(b.registered, o) /\ d.set = b.set /\ d.skipCheck = b.skipCheck
      /\ d.skipSuite = b.skipSuite /\ d.configuration = b.configuration
      /\ d = [registered |-> d.registered, configuration |-> d.configuration, set |-> d.set,
              skipCheck |-> d.skipCheck, skipSuite |-> d.skipSuite]
  BY <1>2, <1>4 DEF Coherent, IsCollection
<1>6. PICK r : r = b.registered /\ r \in Seq(Offers)
  BY <1>2 DEF Coherent, IsCollection
<1>7. /\ d.registered \in Seq(Offers) /\ Len(r) \in Nat
      /\ DOMAIN r = 1..Len(r) /\ DOMAIN d.registered = 1..Len(r) + 1
      /\ \A i \in 1..Len(r) : d.registered[i] = r[i]
      /\ d.registered[Len(r) + 1] = o
  BY <1>5, <1>6
<1>8. IsCollection(d)
  BY <1>5, <1>7 DEF IsCollection
<1>9. EachCheck(d) = EachCheck(b) \cup {o}
  <2>1. \A x \in EachCheck(d) : x \in EachCheck(b) \cup {o}
    <3> SUFFICES ASSUME NEW i \in 1..Len(r) + 1 PROVE d.registered[i] \in EachCheck(b) \cup {o}
      BY <1>7 DEF EachCheck
    <3>1. i \in 1..Len(r) \/ i = Len(r) + 1
      BY <1>7
    <3> QED BY <1>6, <1>7, <3>1 DEF EachCheck
  <2>2. \A x \in EachCheck(b) \cup {o} : x \in EachCheck(d)
    <3>1. Len(r) + 1 \in 1..Len(r) + 1 /\ \A i \in 1..Len(r) : i \in 1..Len(r) + 1
      BY <1>7
    <3> QED BY <1>6, <1>7, <3>1 DEF EachCheck
  <2> QED BY <2>1, <2>2
<1>10. Once(d)
  <2>1. \A i \in 1..Len(r) : r[i].code # o.code
    BY <1>2, <1>6, <1>7 DEF codes
  <2> SUFFICES ASSUME NEW i \in 1..Len(r) + 1, NEW j \in 1..Len(r) + 1,
                      d.registered[i].code = d.registered[j].code
               PROVE  i = j
    BY <1>7 DEF Once
  <2>2. /\ i \in 1..Len(r) \/ i = Len(r) + 1
        /\ j \in 1..Len(r) \/ j = Len(r) + 1
    BY <1>7
  <2>3. CASE i \in 1..Len(r) /\ j \in 1..Len(r)
    BY <1>2, <1>6, <1>7, <2>3 DEF Coherent, Once
  <2>4. CASE ~(i \in 1..Len(r) /\ j \in 1..Len(r))
    BY <1>7, <2>1, <2>2, <2>4
  <2> QED BY <2>3, <2>4
<1>11. Stored(d)
  BY <1>2, <1>5, <1>9 DEF Coherent, Stored
<1>12. Owned(d) /\ Checked(d)
  BY <1>2, <1>5 DEF Coherent, Owned, Checked
<1>13. Grown(c, d)
  BY <1>2, <1>5, <1>9 DEF Grown
<1> QED BY <1>3, <1>8, <1>10, <1>11, <1>12, <1>13 DEF Coherent

-----------------------------------------------------------------------------
(* A batch.                                                                *)

LEMMA SetInduction == ASSUME NEW T, 0 \in T, \A n \in Nat : n \in T => n + 1 \in T PROVE Nat \subseteq T
<1> SUFFICES ASSUME ~(Nat \subseteq T) PROVE FALSE
  OBVIOUS
<1> DEFINE C == Nat \ T
<1>1. C # {} /\ C \subseteq Nat
  OBVIOUS
<1>2. PICK n \in C : \A m \in C : n <= m
  BY <1>1, NatMin
<1>3. n # 0 /\ n \in Nat
  OBVIOUS
<1>4. n - 1 \in Nat /\ n - 1 \notin C
  BY <1>2, <1>3
<1> QED BY <1>3, <1>4

\* One turn of the loop over the batch.
Turn(before, o) ==
    IF before.refused # <<>> THEN before
    ELSE IF validDefinition(before.done, o) /\ o.valid = "yes"
    THEN [before EXCEPT !.done = registerOne(@, o)]
    ELSE [before EXCEPT !.refused = <<o>>]

IsLoop(g, c, batch, m) ==
    g = [i \in 0..m |-> IF i = 0 THEN [done |-> c, refused |-> <<>>] ELSE Turn(g[i - 1], batch[i])]

LEMMA LoopExists == ASSUME NEW c, NEW batch, NEW n \in Nat PROVE \E g : IsLoop(g, c, batch, n)
<1> DEFINE T == {m \in Nat : \E g : IsLoop(g, c, batch, m)}
<1>1. 0 \in T
  <2>1. IsLoop([i \in 0..0 |-> [done |-> c, refused |-> <<>>]], c, batch, 0)
    BY DEF IsLoop
  <2> QED BY <2>1
<1>2. ASSUME NEW m \in Nat, m \in T PROVE m + 1 \in T
  <2>1. PICK g : IsLoop(g, c, batch, m)
    BY <1>2
  <2> DEFINE val(i) == IF i = 0 THEN [done |-> c, refused |-> <<>>] ELSE Turn(g[i - 1], batch[i])
             h == [i \in 0..m + 1 |-> val(i)]
  <2>2. \A i \in 0..m : g[i] = val(i)
    BY <2>1 DEF IsLoop
  <2>3. ASSUME NEW i \in 0..m PROVE h[i] = g[i]
    <3>1. i \in 0..m + 1
      OBVIOUS
    <3>2. h[i] = val(i)
      BY <3>1
    <3> QED BY <2>2, <3>2
  <2>4. ASSUME NEW i \in 0..m + 1
        PROVE  h[i] = IF i = 0 THEN [done |-> c, refused |-> <<>>] ELSE Turn(h[i - 1], batch[i])
    <3>1. CASE i = 0
      BY <3>1
    <3>2. CASE i # 0
      <4>1. i - 1 \in 0..m
        BY <3>2
      <4>2. h[i - 1] = g[i - 1]
        BY <2>3, <4>1
      <4> QED BY <3>2, <4>2
    <3> QED BY <3>1, <3>2
  <2>5. h = [i \in 0..m + 1 |-> h[i]]
    OBVIOUS
  <2> HIDE DEF h
  <2>6. IsLoop(h, c, batch, m + 1)
    BY <2>4, <2>5 DEF IsLoop
  <2> QED BY <2>6
<1> HIDE DEF T
<1>3. n \in T
  BY <1>1, <1>2, SetInduction
<1> QED BY <1>3 DEF T

LEMMA RegisteredIs ==
  ASSUME NEW c, NEW batch, Len(batch) \in Nat
  PROVE  \E g : IsLoop(g, c, batch, Len(batch)) /\ Registered(c, batch) = g[Len(batch)]
<1> DEFINE it == CHOOSE g : g = [i \in 0..Len(batch) |->
            IF i = 0 THEN [done |-> c, refused |-> <<>>] ELSE Turn(g[i - 1], batch[i])]
<1>1. PICK f : IsLoop(f, c, batch, Len(batch))
  BY LoopExists
<1>2. f = [i \in 0..Len(batch) |->
            IF i = 0 THEN [done |-> c, refused |-> <<>>] ELSE Turn(f[i - 1], batch[i])]
  BY <1>1 DEF IsLoop
<1>3. it = [i \in 0..Len(batch) |->
            IF i = 0 THEN [done |-> c, refused |-> <<>>] ELSE Turn(it[i - 1], batch[i])]
  BY <1>2, Zenon
<1>4. Registered(c, batch) = it[Len(batch)]
  BY Zenon DEF Registered, Turn
<1> HIDE DEF it
<1>5. IsLoop(it, c, batch, Len(batch))
  BY <1>3 DEF IsLoop
<1> QED BY <1>4, <1>5

\* After any turn the collection has grown, and a check that was refused is one
\* of those offered.
Batched(c, b) ==
    /\ b = [done |-> b.done, refused |-> b.refused]
    /\ Coherent(b.done) /\ Grown(c, b.done)
    /\ b.refused = <<>> \/ \E o \in Offers : b.refused = <<o>>

LEMMA Turns ==
  ASSUME NEW c, NEW b, Batched(c, b), NEW o \in Offers
  PROVE  Batched(c, Turn(b, o))
<1>1. CASE b.refused # <<>>
  BY <1>1 DEF Turn
<1>2. CASE b.refused = <<>> /\ validDefinition(b.done, o) /\ o.valid = "yes"
  <2>1. PICK d : d = registerOne(b.done, o)
    OBVIOUS
  <2>2. Coherent(d) /\ Grown(b.done, d)
    BY <1>2, <2>1, Registers DEF Batched, validDefinition
  <2>3. Turn(b, o) = [b EXCEPT !.done = d]
    BY <1>2, <2>1 DEF Turn
  <2>4. Turn(b, o) = [done |-> d, refused |-> <<>>]
    BY <1>2, <2>3 DEF Batched
  <2>5. Grown(c, d)
    BY <2>2 DEF Batched, Grown
  <2> QED BY <2>2, <2>4, <2>5 DEF Batched
<1>3. CASE b.refused = <<>> /\ ~(validDefinition(b.done, o) /\ o.valid = "yes")
  <2>1. Turn(b, o) = [b EXCEPT !.refused = <<o>>]
    BY <1>3 DEF Turn
  <2>2. Turn(b, o) = [done |-> b.done, refused |-> <<o>>]
    BY <2>1 DEF Batched
  <2> QED BY <2>2 DEF Batched
<1> QED BY <1>1, <1>2, <1>3

LEMMA BatchRegistered ==
  ASSUME NEW c, Coherent(c), NEW batch \in Batches
  PROVE  Batched(c, Registered(c, batch))
<1>1. batch \in Seq(Offers) /\ Len(batch) \in Nat /\ \A i \in 1..Len(batch) : batch[i] \in Offers
  BY CollectionAssumption
<1>2. PICK g : IsLoop(g, c, batch, Len(batch)) /\ Registered(c, batch) = g[Len(batch)]
  BY <1>1, RegisteredIs
<1>3. \A i \in 0..Len(batch) :
         g[i] = IF i = 0 THEN [done |-> c, refused |-> <<>>] ELSE Turn(g[i - 1], batch[i])
  BY <1>2 DEF IsLoop
<1> DEFINE T == {i \in Nat : i <= Len(batch) => Batched(c, g[i])}
<1>4. 0 \in T
  <2>1. 0 \in 0..Len(batch)
    BY <1>1
  <2>2. g[0] = [done |-> c, refused |-> <<>>]
    BY <1>3, <2>1
  <2> QED BY <2>2 DEF Batched, Grown
<1>5. ASSUME NEW i \in Nat, i \in T PROVE i + 1 \in T
  <2> SUFFICES ASSUME i + 1 <= Len(batch) PROVE Batched(c, g[i + 1])
    OBVIOUS
  <2>1. i + 1 \in 0..Len(batch) /\ i + 1 # 0 /\ (i + 1) - 1 = i /\ i + 1 \in 1..Len(batch) /\ i <= Len(batch)
    BY <1>1
  <2>2. g[i + 1] = Turn(g[i], batch[i + 1])
    BY <1>3, <2>1
  <2> QED BY <1>1, <1>5, <2>1, <2>2, Turns
<1> HIDE DEF T
<1>6. Len(batch) \in T
  BY <1>1, <1>4, <1>5, SetInduction
<1> QED BY <1>1, <1>2, <1>6 DEF T

-----------------------------------------------------------------------------
(* The report.                                                             *)

Outcomes == {"Pass", "PassWithIssues", "Fail", "Skipped"}

\* A result is that of a registered check, with the skips that were listed and the
\* values that are valid.
Accounted(r, rep, c) ==
    /\ r.check \in EachCheck(c)
    /\ r.outcome \in Outcomes
    /\ r.check.code \in rep.checks \/ r.check.suite \in rep.suites => r.outcome = "Skipped"
    /\ r.outcome = "Skipped" => \/ handlers[r.check.code] \in {"Skipped", "error"}
                                \/ ~ shouldRun(c, r.check)
    /\ \A k \in r.check.keys : r.values[k] \in ValidValues \cup {"default"}

Reports(rep, c) ==
    /\ rep = [phase |-> rep.phase, checks |-> rep.checks, suites |-> rep.suites,
              results |-> rep.results]
    /\ rep.phase \in {"idle", "copied", "done"}
    /\ rep.phase # "idle" => rep.checks \subseteq c.skipCheck /\ rep.suites \subseteq c.skipSuite
    /\ rep.phase = "done" => IsFiniteSet(rep.results) /\ \A r \in rep.results : Accounted(r, rep, c)

CollectionInv ==
    /\ Coherent(collection)
    /\ handlers \in [{o.code : o \in Offers} -> HandlerOutcomes]
    /\ Reports(report, collection)

LEMMA ReportsLast ==
  ASSUME NEW rep, NEW c, NEW d, Reports(rep, c), Grown(c, d)
  PROVE  Reports(rep, d)
<1>1. \A r : Accounted(r, rep, c) => Accounted(r, rep, d)
  BY DEF Accounted, Grown, shouldRun
<1>2. rep.phase # "idle" => rep.checks \subseteq d.skipCheck /\ rep.suites \subseteq d.skipSuite
  BY DEF Reports, Grown
<1> QED BY <1>1, <1>2 DEF Reports

\* The checks of a collection are finitely many.
LEMMA ChecksFinite == ASSUME NEW c, IsCollection(c) PROVE IsFiniteSet(EachCheck(c))
<1>1. PICK r : r = c.registered /\ r \in Seq(Offers)
  BY DEF IsCollection
<1>2. Len(r) \in Nat /\ DOMAIN r = 1..Len(r)
  BY <1>1
<1>3. IsFiniteSet(1..Len(r))
  BY <1>2, FS_Interval
<1>4. r \in Surjection(1..Len(r), EachCheck(c))
  <2>1. \A i \in 1..Len(r) : r[i] \in EachCheck(c)
    BY <1>1, <1>2 DEF EachCheck
  <2>2. \A x \in EachCheck(c) : \E i \in 1..Len(r) : r[i] = x
    BY <1>1, <1>2 DEF EachCheck
  <2>3. r \in [1..Len(r) -> EachCheck(c)]
    BY <1>1, <1>2, <2>1
  <2> QED BY <2>2, <2>3 DEF Surjection
<1> QED BY <1>3, <1>4, FS_Surjection

\* A set of results is the union of those of each outcome.
LEMMA OutcomesCounted ==
  ASSUME NEW rep, IsFiniteSet(rep.results), \A x \in rep.results : x.outcome \in Outcomes
  PROVE  Cardinality(rep.results) = Counted(rep, "Pass") + Counted(rep, "Fail")
             + Counted(rep, "PassWithIssues") + Counted(rep, "Skipped")
<1> DEFINE S(o) == {x \in rep.results : x.outcome = o}
<1>1. \A o : IsFiniteSet(S(o)) /\ Cardinality(S(o)) \in Nat
  BY FS_Subset, FS_CardinalityType
<1>2. \A a, b : IsFiniteSet(a) /\ IsFiniteSet(b) /\ a \cap b = {} =>
          IsFiniteSet(a \cup b) /\ Cardinality(a \cup b) = Cardinality(a) + Cardinality(b)
  <2> SUFFICES ASSUME NEW a, NEW b, IsFiniteSet(a), IsFiniteSet(b), a \cap b = {}
               PROVE  IsFiniteSet(a \cup b) /\ Cardinality(a \cup b) = Cardinality(a) + Cardinality(b)
    OBVIOUS
  <2>1. /\ IsFiniteSet(a \cup b) /\ Cardinality(a) \in Nat /\ Cardinality(b) \in Nat
        /\ Cardinality(a \cup b) = Cardinality(a) + Cardinality(b) - Cardinality(a \cap b)
    BY FS_Union, FS_CardinalityType
  <2>2. Cardinality(a \cap b) = 0
    BY FS_EmptySet
  <2> QED BY <2>1, <2>2
<1>3. /\ IsFiniteSet(S("Pass") \cup S("Fail"))
      /\ Cardinality(S("Pass") \cup S("Fail")) = Cardinality(S("Pass")) + Cardinality(S("Fail"))
  <2>1. S("Pass") \cap S("Fail") = {}
    OBVIOUS
  <2> HIDE DEF S
  <2> QED BY <1>1, <1>2, <2>1
<1>4. /\ IsFiniteSet((S("Pass") \cup S("Fail")) \cup S("PassWithIssues"))
      /\ Cardinality((S("Pass") \cup S("Fail")) \cup S("PassWithIssues"))
             = Cardinality(S("Pass") \cup S("Fail")) + Cardinality(S("PassWithIssues"))
  <2>1. (S("Pass") \cup S("Fail")) \cap S("PassWithIssues") = {}
    OBVIOUS
  <2> HIDE DEF S
  <2> QED BY <1>1, <1>2, <1>3, <2>1
<1>5. Cardinality(((S("Pass") \cup S("Fail")) \cup S("PassWithIssues")) \cup S("Skipped"))
             = Cardinality((S("Pass") \cup S("Fail")) \cup S("PassWithIssues")) + Cardinality(S("Skipped"))
  <2>1. ((S("Pass") \cup S("Fail")) \cup S("PassWithIssues")) \cap S("Skipped") = {}
    OBVIOUS
  <2> HIDE DEF S
  <2> QED BY <1>1, <1>2, <1>4, <2>1
<1>6. ((S("Pass") \cup S("Fail")) \cup S("PassWithIssues")) \cup S("Skipped") = rep.results
  BY DEF Outcomes
<1>7. \A o : Counted(rep, o) = Cardinality(S(o))
  BY DEF Counted
<1> HIDE DEF S
<1> QED BY <1>1, <1>3, <1>4, <1>5, <1>6, <1>7

-----------------------------------------------------------------------------
(* The steps.                                                              *)

LEMMA CollectionStarts == CollectionInit => CollectionInv
<1> SUFFICES ASSUME CollectionInit PROVE CollectionInv
  OBVIOUS
<1>1. Coherent(NewCollection)
  BY DEF NewCollection, Coherent, IsCollection, Once, Stored, Owned, Checked, EachCheck
<1>2. Reports(NoReport, NewCollection)
  BY DEF Reports, NoReport
<1> QED BY <1>1, <1>2 DEF CollectionInit, CollectionInv

\* What changes the collection only lets it grow.
LEMMA Grows ==
  ASSUME CollectionInv, Coherent(collection'), Grown(collection, collection'),
         UNCHANGED <<handlers, report>>
  PROVE  CollectionInv'
<1>1. PICK c : c = collection'
  OBVIOUS
<1>2. Reports(report, c)
  BY <1>1, ReportsLast DEF CollectionInv
<1>3. Reports(report, c)'
  BY <1>2 DEF Reports, Accounted
<1> QED BY <1>1, <1>3 DEF CollectionInv

LEMMA RegisterStep ==
  ASSUME CollectionInv, NEW batch \in Batches, Register(batch)
  PROVE  CollectionInv'
<1>1. PICK r : r = Registered(collection, batch)
  OBVIOUS
<1>2. Batched(collection, r)
  BY <1>1, BatchRegistered DEF CollectionInv
<1>3. CASE collection' = r.done
  BY <1>2, <1>3, Grows DEF Register, Batched
<1>4. CASE r.refused # <<>> /\ \E stray \in SUBSET r.refused[1].keys :
               collection' = store(r.done, r.refused[1], stray)
  <2>1. PICK o \in Offers : r.refused = <<o>>
    BY <1>2, <1>4 DEF Batched
  <2>2. PICK stray \in SUBSET o.keys : collection' = store(r.done, o, stray)
    BY <1>4, <2>1
  <2>3. Coherent(collection') /\ Grown(r.done, collection')
    BY <1>2, <2>2, Stores DEF Batched
  <2>4. Grown(collection, collection')
    BY <1>2, <2>3 DEF Batched, Grown
  <2> QED BY <2>3, <2>4, Grows DEF Register
<1> QED BY <1>1, <1>3, <1>4 DEF Register

LEMMA SkipStep ==
  ASSUME CollectionInv, NEW x, SkipChecks(x) \/ SkipSuites(x)
  PROVE  CollectionInv'
<1>1. PICK c : c = collection
  OBVIOUS
<1>2. PICK d : d = collection'
  OBVIOUS
<1>3. Coherent(c)
  BY <1>1 DEF CollectionInv
<1>4. d = [c EXCEPT !.skipCheck = @ \cup {x}] \/ d = [c EXCEPT !.skipSuite = @ \cup {x}]
  BY <1>1, <1>2 DEF SkipChecks, SkipSuites
<1>5. /\ d.registered = c.registered /\ d.set = c.set /\ d.configuration = c.configuration
      /\ c.skipCheck \subseteq d.skipCheck /\ c.skipSuite \subseteq d.skipSuite
      /\ d = [registered |-> d.registered, configuration |-> d.configuration, set |-> d.set,
              skipCheck |-> d.skipCheck, skipSuite |-> d.skipSuite]
  BY <1>3, <1>4 DEF Coherent, IsCollection
<1>6. Coherent(d)
  BY <1>3, <1>5 DEF Coherent, IsCollection, Once, Stored, Owned, Checked, EachCheck
<1>7. Grown(c, d)
  BY <1>5 DEF Grown, EachCheck
<1> QED BY <1>1, <1>2, <1>6, <1>7, Grows DEF SkipChecks, SkipSuites

LEMMA SetStep ==
  ASSUME CollectionInv, NEW owner, NEW v, Set(owner, v)
  PROVE  CollectionInv'
<1>1. PICK c : c = collection
  OBVIOUS
<1>2. PICK d : d = collection'
  OBVIOUS
<1>3. Coherent(c)
  BY <1>1 DEF CollectionInv
<1>4. CASE ~ validateUnitValue(v)
  <2>1. d = c
    BY <1>1, <1>2, <1>4 DEF Set
  <2> QED BY <1>1, <1>2, <1>3, <2>1, Grows DEF Set, Grown
<1>5. CASE validateUnitValue(v)
  <2>1. PICK new : new = {s \in c.set : s[1] # owner} \cup {<<owner, v>>}
    OBVIOUS
  <2>2. d = [c EXCEPT !.set = new]
    BY <1>1, <1>2, <1>5, <2>1 DEF Set
  <2>3. /\ d.registered = c.registered /\ d.set = new /\ d.configuration = c.configuration
        /\ c.skipCheck = d.skipCheck /\ c.skipSuite = d.skipSuite
        /\ d = [registered |-> d.registered, configuration |-> d.configuration, set |-> d.set,
                skipCheck |-> d.skipCheck, skipSuite |-> d.skipSuite]
    BY <1>3, <2>2 DEF Coherent, IsCollection
  <2>4. Checked(d)
    BY <1>3, <1>5, <2>1, <2>3 DEF Coherent, Checked, validateUnitValue
  <2>5. Coherent(d)
    BY <1>3, <2>3, <2>4 DEF Coherent, IsCollection, Once, Stored, Owned, EachCheck
  <2>6. Grown(c, d)
    BY <2>3 DEF Grown, EachCheck
  <2> QED BY <1>1, <1>2, <2>5, <2>6, Grows DEF Set
<1> QED BY <1>4, <1>5

LEMMA CopyStep == ASSUME CollectionInv, CopySkips PROVE CollectionInv'
<1>1. Reports(report', collection)
  BY DEF CollectionInv, Reports, CopySkips
<1>2. Reports(report, collection)'
  BY <1>1 DEF Reports, Accounted, CopySkips
<1> QED BY <1>2 DEF CollectionInv, CopySkips

LEMMA RunStep == ASSUME CollectionInv, RunChecks PROVE CollectionInv'
<1> DEFINE result(o) ==
        [check |-> o, values |-> [k \in o.keys |-> Value(collection, <<o.code, k>>)],
         outcome |-> IF shouldRun(collection, o) THEN outcomeOf(o.code) ELSE "Skipped"]
<1>1. PICK rep : rep = report'
  OBVIOUS
<1>2. rep = [report EXCEPT !.phase = "done", !.results = {result(o) : o \in EachCheck(collection)}]
  BY <1>1 DEF RunChecks
<1>3. /\ rep = [phase |-> rep.phase, checks |-> rep.checks, suites |-> rep.suites,
                results |-> rep.results]
      /\ rep.phase = "done" /\ rep.results = {result(o) : o \in EachCheck(collection)}
      /\ rep.checks = report.checks /\ rep.suites = report.suites
  BY <1>2 DEF CollectionInv, Reports
<1>4. rep.checks \subseteq collection.skipCheck /\ rep.suites \subseteq collection.skipSuite
  BY <1>3 DEF CollectionInv, Reports, RunChecks
<1>5. IsFiniteSet(rep.results)
  <2>1. IsFiniteSet(EachCheck(collection))
    BY ChecksFinite DEF CollectionInv, Coherent
  <2> DEFINE f == [o \in EachCheck(collection) |-> result(o)]
  <2>2. f \in Surjection(EachCheck(collection), rep.results)
    <3>1. f \in [EachCheck(collection) -> rep.results]
      BY <1>3
    <3>2. \A r \in rep.results : \E o \in EachCheck(collection) : f[o] = r
      BY <1>3
    <3> HIDE DEF f
    <3> QED BY <3>1, <3>2 DEF Surjection
  <2> HIDE DEF f
  <2> QED BY <2>1, <2>2, FS_Surjection
<1>6. ASSUME NEW r \in rep.results PROVE Accounted(r, rep, collection)
  <2>1. PICK o \in EachCheck(collection) : r = result(o)
    BY <1>3
  <2>2. o \in Offers
    BY DEF CollectionInv, Coherent, IsCollection, EachCheck
  <2>3. /\ r.check = o
        /\ r.outcome = IF shouldRun(collection, o) THEN outcomeOf(o.code) ELSE "Skipped"
        /\ \A k \in o.keys : r.values[k] = Value(collection, <<o.code, k>>)
    BY <2>1
  <2> HIDE DEF result
  <2>4. handlers[o.code] \in {"Pass", "PassWithIssues", "Fail", "Skipped", "error"}
    BY <2>2, CollectionAssumption DEF CollectionInv
  <2>5. r.outcome \in Outcomes
    BY <2>3, <2>4 DEF Outcomes, outcomeOf
  <2>6. r.outcome = "Skipped" => handlers[o.code] \in {"Skipped", "error"} \/ ~ shouldRun(collection, o)
    BY <2>3, <2>4 DEF outcomeOf
  <2>7. o.code \in rep.checks \/ o.suite \in rep.suites => r.outcome = "Skipped"
    BY <1>4, <2>3 DEF shouldRun
  <2>8. ASSUME NEW k \in o.keys PROVE r.values[k] \in ValidValues \cup {"default"}
    <3>1. PICK owner : owner = <<o.code, k>>
      OBVIOUS
    <3>2. Value(collection, owner) \in ValidValues \cup {"default"}
      <4>1. CASE \E s \in collection.set : s[1] = owner
        <5>1. PICK s : s = CHOOSE x \in collection.set : x[1] = owner
          OBVIOUS
        <5>2. s \in collection.set
          BY <4>1, <5>1
        <5>3. Value(collection, owner) = s[2]
          BY <4>1, <5>1 DEF Value
        <5> QED BY <5>2, <5>3 DEF CollectionInv, Coherent, Checked
      <4>2. CASE ~ \E s \in collection.set : s[1] = owner
        BY <4>2 DEF Value
      <4> QED BY <4>1, <4>2
    <3> QED BY <2>3, <3>1, <3>2
  <2> QED BY <2>3, <2>5, <2>6, <2>7, <2>8 DEF Accounted
<1> HIDE DEF result
<1>7. Reports(rep, collection)
  BY <1>3, <1>4, <1>5, <1>6 DEF Reports
<1>8. Reports(report, collection)'
  BY <1>1, <1>7 DEF Reports, Accounted, RunChecks
<1> QED BY <1>8 DEF CollectionInv, RunChecks

LEMMA CollectionSteps == CollectionInv /\ [CollectionNext]_collectionVars => CollectionInv'
<1> SUFFICES ASSUME CollectionInv, [CollectionNext]_collectionVars PROVE CollectionInv'
  OBVIOUS
<1>1. ASSUME NEW batch \in Batches, Register(batch) PROVE CollectionInv'
  BY <1>1, RegisterStep
<1>2. ASSUME NEW code \in SkippedCodes, SkipChecks(code) PROVE CollectionInv'
  BY <1>2, SkipStep
<1>3. ASSUME NEW suite \in SkippedSuites, SkipSuites(suite) PROVE CollectionInv'
  BY <1>3, SkipStep
<1>4. ASSUME NEW owner \in ConfigurationItems(collection), NEW v \in Values, Set(owner, v)
      PROVE  CollectionInv'
  BY <1>4, SetStep
<1>5. CASE CopySkips
  BY <1>5, CopyStep
<1>6. CASE RunChecks
  BY <1>6, RunStep
<1>7. CASE UNCHANGED collectionVars
  <2>1. collection' = collection /\ handlers' = handlers /\ report' = report
    BY <1>7 DEF collectionVars
  <2>2. Reports(report, collection)'
    BY <2>1 DEF CollectionInv, Reports, Accounted
  <2> QED BY <2>1, <2>2 DEF CollectionInv
<1> QED BY <1>1, <1>2, <1>3, <1>4, <1>5, <1>6, <1>7 DEF CollectionNext

LEMMA InvAccounts == CollectionInv => ReportAccounts
<1> SUFFICES ASSUME CollectionInv PROVE ReportAccounts
  OBVIOUS
<1>1. \A i, j \in DOMAIN collection.registered :
           collection.registered[i].code = collection.registered[j].code => i = j
  BY DEF CollectionInv, Coherent, Once
<1>2. ASSUME NEW o \in EachCheck(collection), NEW k \in o.keys
      PROVE  \/ <<o.code, k>> \in ConfigurationItems(collection)
             \/ \E x \in Offers : x.code # o.code /\ configItemKey(o.code, k) \in
                                       {configItemKey(x.code, j) : j \in x.keys}
  <2>1. o \in Offers
    BY DEF CollectionInv, Coherent, IsCollection, EachCheck
  <2>2. PICK i : i = configItemKey(o.code, k)
    OBVIOUS
  <2>3. i \in DOMAIN collection.configuration
    BY <2>2 DEF CollectionInv, Coherent, Stored
  <2>8. PICK x \in Offers : \E j \in x.keys :
            i = configItemKey(x.code, j) /\ collection.configuration[i] = <<x.code, j>>
    BY <2>3 DEF CollectionInv, Coherent, Owned
  <2>4. PICK j \in x.keys :
            i = configItemKey(x.code, j) /\ collection.configuration[i] = <<x.code, j>>
    BY <2>8
  <2>5. CASE x.code = o.code
    <3>1. j = k
      BY <2>1, <2>2, <2>4, <2>5, OneKey
    <3> QED BY <2>3, <2>4, <2>5, <3>1 DEF ConfigurationItems
  <2>6. CASE x.code # o.code
    BY <2>2, <2>4, <2>6
  <2> QED BY <2>5, <2>6
<1>3. ASSUME report.phase = "done"
      PROVE  /\ registeredAtRun \subseteq EachCheck(collection)
             /\ Cardinality(report.results) = Counted(report, "Pass") + Counted(report, "Fail")
                    + Counted(report, "PassWithIssues") + Counted(report, "Skipped")
             /\ \A r \in report.results :
                    /\ r.check.code \in report.checks \/ r.check.suite \in report.suites
                           => r.outcome = "Skipped"
                    /\ r.outcome = "Skipped" => \/ handlers[r.check.code] \in {"Skipped", "error"}
                                                \/ ~ shouldRun(collection, r.check)
                    /\ \A k \in r.check.keys : r.values[k] \in ValidValues \cup {"default"}
  <2>1. IsFiniteSet(report.results) /\ \A r \in report.results : Accounted(r, report, collection)
    BY <1>3 DEF CollectionInv, Reports
  <2>2. Cardinality(report.results) = Counted(report, "Pass") + Counted(report, "Fail")
             + Counted(report, "PassWithIssues") + Counted(report, "Skipped")
    BY <2>1, OutcomesCounted DEF Accounted
  <2> QED BY <2>1, <2>2 DEF Accounted, registeredAtRun
<1> QED BY <1>1, <1>2, <1>3 DEF ReportAccounts

(***************************************************************************)
(* The collection accounts for every check in its report, whoever changes  *)
(* it while it runs: ReportAccounts holds of every collection, for any     *)
(* checks and batches offered (Register, SkipChecks, SkipSuites, Set, Run).*)
(***************************************************************************)
THEOREM ReportAccounted == CollectionSpec => []ReportAccounts
<1>1. CollectionSpec => []CollectionInv
  BY CollectionStarts, CollectionSteps, PTL DEF CollectionSpec
<1>2. CollectionInv => ReportAccounts
  BY InvAccounts
<1> QED BY <1>1, <1>2, PTL
=============================================================================
