------------------------------ MODULE MCClient ------------------------------
(***************************************************************************)
(* A program that uses the client: two goroutines that work with one       *)
(* handle, create and delete one asset, send commands or list three; a     *)
(* goroutine that pages through a stream; a direct get; a search for gaps. *)
(* The parts share no state, so each is explored by itself.                *)
(***************************************************************************)
EXTENDS JetStreamManager, StreamReader

VARIABLE part

Parts == {"handle", "asset", "command", "list", "pager", "get", "gaps"}
Managing == {"handle", "asset", "command", "list"}

\* One asset is enough where nothing is listed, and the handle matters only to
\* its own calls.
MCInit ==
    /\ part \in Parts
    /\ ManagerInit /\ ReaderInit
    /\ part # "list" => silent.lost = {} /\ \A n \in Names \ {1} : assets[n] = 0
    /\ part \notin {"handle", "asset"} => handle.info = 0
    /\ part \notin Managing => assets[1] = 0
    /\ part # "pager" => stored = {}

\* A pair of calls on the handle, one call of another kind.
Begin(g) ==
    \/ part = "handle" /\ HandleCalls(g)
    \/ /\ calls = 0 /\ g = 1
       /\ \/ part = "asset" /\ AssetCalls(g)
          \/ part = "command" /\ Commands(g)
          \/ part = "list" /\ ListCalls(g)

ManagerNext ==
    \/ \E g \in Goroutines : Begin(g) \/ Answers(g)
    \/ OtherClient /\ (part # "list" => \A n \in Names \ {1} : assets'[n] = 0)

ReaderNext ==
    \/ part = "pager" /\ PagerNext /\ UNCHANGED <<get, search>>
    \/ part = "get" /\ DirectGetNext /\ UNCHANGED <<pagerVars, search>>
    \/ part = "gaps" /\ GapsNext /\ UNCHANGED <<pagerVars, get>>

MCNext ==
    /\ UNCHANGED part
    /\ \/ part \in Managing /\ ManagerNext /\ UNCHANGED <<pagerVars, get, search>>
       \/ part \notin Managing /\ ReaderNext /\ UNCHANGED managerVars

clientVars == <<managerVars, readerVars, part>>
MCSpec == MCInit /\ [][MCNext]_clientVars /\ ManagerFairness
=============================================================================
