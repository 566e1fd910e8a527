------------------------------ MODULE Balancer ------------------------------
(***************************************************************************)
(* Balancer (balancer/balancer.go): stream or consumer leaders are spread  *)
(* over the servers of a cluster by asking leaders to step down in favour  *)
(* of a preferred server.  The balancer works from the leaders it found at *)
(* the start and from offsets it maintains itself, while the cluster goes  *)
(* on electing leaders, loses requests and answers, and need not follow    *)
(* the preference.  BalanceStreams and BalanceConsumers differ only in the *)
(* type of the entity; clusters are balanced one after the other and share *)
(* nothing, so one cluster is modelled.                                    *)
(***************************************************************************)
EXTENDS Integers, FiniteSets, SequencesExt

CONSTANTS
    Servers,
    Group,          \* Group[e]: the peers of entity e, for e in 1 .. Len(Group)
    NoServer,       \* no leader, or no server being visited
    BALANCERUNS,
    MaxElections    \* bound on the leader changes that nobody asked for

ASSUME BalancerAssumption ==
    /\ Group \in Seq(SUBSET Servers)
    /\ IsFiniteSet(Servers)
    /\ NoServer \notin Servers
    /\ BALANCERUNS \in Nat \ {0}
    /\ MaxElections \in Nat

Entities == DOMAIN Group
Leader   == Servers \cup {NoServer}

VARIABLES
    leader,         \* the cluster: who leads each entity
    elections,      \* leader changes so far that nobody asked for
    mapped,         \* entities createClusterMappings has looked at
    peers,          \* the servers of the cluster map
    entities,       \* entities[s]: what s was found to lead and may still be moved
    balancedDistribution,
    offset,
    run, todo,      \* the run of balance, and the servers it has not visited
    current,        \* the server being visited
    retries,
    picked,         \* the entity picked and what ClusterInfo said of it, or << >>
    steppedDown,
    pc,
    found,          \* found[s]: the entities s was found to lead (history)
    moved           \* moved[e]: successful requests for e (history)

cluster  == <<leader, elections>>
tables   == <<mapped, peers, entities, found, balancedDistribution>>
progress == <<offset, run, todo, current, retries, picked, steppedDown>>
vars     == <<cluster, tables, progress, pc, moved>>

Init ==
    /\ leader \in [Entities -> Leader]
    /\ \A e \in Entities : leader[e] \in Group[e] \cup {NoServer}
    /\ elections = 0
    /\ mapped = 0
    /\ peers = {}
    /\ entities = [s \in Servers |-> << >>]
    /\ balancedDistribution = 0
    /\ offset = [s \in Servers |-> 0]
    /\ run = 1
    /\ todo = {}
    /\ current = NoServer
    /\ retries = 0
    /\ picked = << >>
    /\ steppedDown = 0
    /\ pc = "map"
    /\ found = [s \in Servers |-> {}]
    /\ moved = [e \in Entities |-> 0]

-----------------------------------------------------------------------------
(* The cluster.                                                            *)

Election(e) ==
    /\ pc \in {"map", "balance"}
    /\ elections < MaxElections
    /\ \E s \in Group[e] \cup {NoServer} :
          s # leader[e] /\ leader' = [leader EXCEPT ![e] = s]
    /\ elections' = elections + 1
    /\ UNCHANGED <<tables, progress, pc, moved>>

\* What ClusterInfo lists as replicas: the peers without the leader.
Replicas(e, l) == Group[e] \ {l}

-----------------------------------------------------------------------------
(* The view of the world.                                                  *)

\* An entity without a leader is not counted, but its replicas are peers.
createClusterMappings ==
    /\ pc = "map"
    /\ mapped < Len(Group)
    /\ LET e == mapped + 1
           l == leader[e]
       IN  \/ /\ peers' = peers \cup Group[e]
              /\ entities' = [s \in Servers |-> IF s = l THEN Append(entities[s], e) ELSE entities[s]]
              /\ found' = [s \in Servers |-> IF s = l THEN found[s] \cup {e} ELSE found[s]]
              /\ mapped' = e
              /\ UNCHANGED pc
           \/ /\ pc' = "failed"
              /\ UNCHANGED <<mapped, peers, entities, found>>
    /\ UNCHANGED <<cluster, progress, moved, balancedDistribution>>

\* entitycount / servercount, or that plus a half rounded up when it is not integral.
calcClusterDistribution(servercount, entitycount) ==
    LET quotient  == entitycount \div servercount
        remainder == entitycount % servercount
    IN  IF servercount = 0 THEN 0
        ELSE quotient + CASE remainder = 0 -> 0
                          [] remainder > 0 /\ 2 * remainder <= servercount -> 1
                          [] OTHER -> 2

calcLeaderOffset(distribution) ==
    [s \in Servers |-> IF s \in peers THEN Len(entities[s]) - distribution ELSE 0]

startBalance ==
    /\ pc = "map"
    /\ mapped = Len(Group)
    /\ balancedDistribution' =
          calcClusterDistribution(Cardinality(peers), Cardinality(UNION {found[s] : s \in Servers}))
    /\ offset' = calcLeaderOffset(balancedDistribution')
    /\ todo' = peers
    /\ pc' = "balance"
    /\ UNCHANGED <<cluster, moved, mapped, peers, entities, found, run, current, retries, picked, steppedDown>>

-----------------------------------------------------------------------------
(* balance: the servers of the map in any order, BALANCERUNS times.        *)

\* A server that is not over the distribution is passed by.
visit(s) ==
    /\ pc = "balance"
    /\ current = NoServer
    /\ s \in todo
    /\ todo' = todo \ {s}
    /\ current' = IF offset[s] > 0 THEN s ELSE NoServer
    /\ retries' = 0
    /\ UNCHANGED <<cluster, tables, pc, moved, offset, run, picked, steppedDown>>

\* A random entity of the server and its cluster information; an entity whose
\* information cannot be had is dropped.
pick ==
    /\ pc = "balance"
    /\ current # NoServer
    /\ picked = << >>
    /\ offset[current] > 0
    /\ \E i \in DOMAIN entities[current] :
          \/ /\ picked' = [index |-> i, leader |-> leader[entities[current][i]]]
             /\ UNCHANGED entities
          \/ /\ entities' = [entities EXCEPT ![current] = RemoveAt(@, i)]
             /\ UNCHANGED picked
    /\ UNCHANGED <<cluster, pc, moved, mapped, peers, found, balancedDistribution,
                   offset, run, todo, current, retries, steppedDown>>

\* The server is balanced, or has nothing left to move.
leave ==
    /\ pc = "balance"
    /\ current # NoServer
    /\ picked = << >>
    /\ offset[current] <= 0 \/ entities[current] = << >>
    /\ current' = NoServer
    /\ UNCHANGED <<cluster, tables, pc, moved, offset, run, todo, retries, picked, steppedDown>>

Entity == entities[current][picked.index]

\* The servers with room among the replicas the information lists.
Candidates ==
    {s \in peers : /\ offset[s] < 0
                   /\ s \in Replicas(Entity, picked.leader)
                   /\ s # picked.leader}

\* The index is deleted again when the list is still long enough.
DeleteAgain(list, i) == IF i <= Len(list) THEN RemoveAt(list, i) ELSE list

\* Mutant: the entity stays and another one of the server is tried.
skipContinues ==
    /\ picked # << >>
    /\ Candidates = {}
    /\ picked' = << >>
    /\ UNCHANGED <<cluster, tables, pc, moved, offset, run, todo, current, retries, steppedDown>>

\* Nobody can take the entity: it is skipped and the server left for this run.
skip ==
    /\ picked # << >>
    /\ Candidates = {}
    /\ entities' = [entities EXCEPT ![current] = DeleteAgain(@, picked.index)]
    /\ picked' = << >>
    /\ current' = NoServer
    /\ UNCHANGED <<cluster, pc, moved, mapped, peers, found, balancedDistribution,
                   offset, run, todo, retries, steppedDown>>

\* A leader steps down and the preferred server is elected, or another peer wins.
Granted(e, s) ==
    /\ leader[e] # NoServer
    /\ \/ /\ leader' = [leader EXCEPT ![e] = s]
          /\ UNCHANGED elections
       \/ /\ elections < MaxElections
          /\ \E p \in Group[e] : leader' = [leader EXCEPT ![e] = p]
          /\ elections' = elections + 1

\* Mutant: the offset of the server that gave up the entity is left for the next run.
LeaderStepDownKeepsOffset(s) ==
    /\ picked # << >>
    /\ s \in Candidates
    /\ Granted(Entity, s)
    /\ steppedDown' = steppedDown + 1
    /\ offset' = [offset EXCEPT ![s] = @ + 1]
    /\ entities' = [entities EXCEPT ![current] = RemoveAt(@, picked.index)]
    /\ retries' = 0
    /\ moved' = [moved EXCEPT ![Entity] = @ + 1]
    /\ picked' = << >>
    /\ UNCHANGED <<pc, mapped, peers, found, balancedDistribution, run, todo, current>>

\* The request for a candidate succeeds.
LeaderStepDown(s) ==
    /\ picked # << >>
    /\ s \in Candidates
    /\ Granted(Entity, s)
    /\ steppedDown' = steppedDown + 1
    /\ offset' = [offset EXCEPT ![s] = @ + 1, ![current] = @ - 1]
    /\ entities' = [entities EXCEPT ![current] = RemoveAt(@, picked.index)]
    /\ retries' = 0
    /\ moved' = [moved EXCEPT ![Entity] = @ + 1]
    /\ picked' = << >>
    /\ UNCHANGED <<pc, mapped, peers, found, balancedDistribution, run, todo, current>>

\* Mutant: the entity stays in the list for a later run.
LeaderStepDownFailsKeeps(s) ==
    /\ picked # << >>
    /\ s \in Candidates
    /\ Granted(Entity, s) \/ UNCHANGED cluster
    /\ retries' = 1
    /\ picked' = << >>
    /\ current' = NoServer
    /\ UNCHANGED <<pc, tables, offset, run, todo, steppedDown, moved>>

\* The request fails, or only its answer is lost.  The first failure of a visit
\* deletes the entity, and the code after the loop deletes at the same index
\* again and ends the visit; the second returns.
LeaderStepDownFails(s) ==
    /\ picked # << >>
    /\ s \in Candidates
    /\ Granted(Entity, s) \/ UNCHANGED cluster
    /\ entities' = [entities EXCEPT ![current] = DeleteAgain(RemoveAt(@, picked.index), picked.index)]
    /\ retries' = 1
    /\ pc' = IF retries = 0 THEN pc ELSE "failed"
    /\ picked' = << >>
    /\ current' = NoServer
    /\ UNCHANGED <<mapped, peers, found, balancedDistribution, offset, run, todo, steppedDown, moved>>

\* The offsets are recalculated from what is left in the lists.
endRun ==
    /\ pc = "balance"
    /\ current = NoServer
    /\ todo = {}
    /\ offset' = calcLeaderOffset(balancedDistribution)
    /\ run' = run + 1
    /\ todo' = IF run < BALANCERUNS THEN peers ELSE {}
    /\ pc' = IF run < BALANCERUNS THEN pc ELSE "done"
    /\ UNCHANGED <<cluster, tables, moved, current, retries, picked, steppedDown>>

Balance ==
    \/ createClusterMappings \/ startBalance \/ pick \/ leave \/ skip \/ endRun
    \/ \E s \in Servers : visit(s) \/ LeaderStepDown(s) \/ LeaderStepDownFails(s)

Returned == pc \in {"done", "failed"} /\ UNCHANGED vars

Next == Balance \/ Returned \/ \E e \in Entities : Election(e)

Spec == Init /\ [][Next]_vars

\* The goroutine that balances keeps running; its requests time out.
FairSpec == Spec /\ WF_vars(Balance)

-----------------------------------------------------------------------------
\* A server gives up no more than the leaders it was found to have over the even
\* distribution, over all runs, whatever was dropped, skipped or failed between
\* the recalculations of its offset; and no leader is disturbed twice by one call:
\* an entity that was moved is not picked again, by the same server or by the one
\* it was moved to, in this run or a later one.
GivesUpSurplusOnly ==
    /\ \A e \in Entities : moved[e] <= 1
    /\ \A s \in Servers :
           LET given == Cardinality({e \in found[s] : moved[e] > 0})
           IN  given > 0 => given <= Cardinality(found[s]) - balancedDistribution

\* While every leader change was one the balancer asked for, no server that led its
\* share is left leading less than the even distribution, lost answers included.
ShareKept ==
    (elections = 0 /\ pc \in {"balance", "done"}) =>
        \A s \in Servers :
            LET leads == Cardinality({e \in Entities : leader[e] = s})
            IN  leads < balancedDistribution => leads >= Cardinality(found[s])

\* Every call returns, however many requests fail.
BalanceReturns == <>(pc \in {"done", "failed"})
=============================================================================
