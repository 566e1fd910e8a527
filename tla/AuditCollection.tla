--------------------------- MODULE AuditCollection ---------------------------
(***************************************************************************)
(* The collection of audit checks: registering, configuring, skipping and  *)
(* running them.  A run copies the lists of what is skipped under the      *)
(* lock, releases it and takes it again to run the checks, so that other   *)
(* goroutines change the collection in between.                            *)
(*                                                                         *)
(* A check is offered with a suite, an outcome its handler would give      *)
(* ("error" where it returns one), and the validity of its definition.     *)
(* Codes and keys are sequences of words: joined, two of them may give the *)
(* same item, which then belongs to the check that was registered last.    *)
(***************************************************************************)
EXTENDS Naturals, FiniteSets, Sequences

CONSTANTS
    Offers,         \* the checks that may be registered: records code, suite, valid, keys
    Batches,        \* sequences of them, offered together
    SkippedCodes,   \* the checks and the suites that may be skipped
    SkippedSuites,
    Values,         \* what a configuration item may be set to, with the valid ones
    ValidValues,
    HandlerOutcomes \* out of Pass, PassWithIssues, Fail, Skipped and "error"

IsSequence(s) == s \in Seq({s[i] : i \in DOMAIN s})

ASSUME CollectionAssumption ==
    /\ \A o \in Offers : IsSequence(o.code) /\ \A k \in o.keys : IsSequence(k)
    /\ Batches \subseteq Seq(Offers)
    /\ HandlerOutcomes \subseteq {"Pass", "PassWithIssues", "Fail", "Skipped", "error"}

VARIABLES collection, handlers, report

collectionVars == <<collection, handlers, report>>

NewCollection == [registered |-> <<>>, configuration |-> <<>>, set |-> {},
                  skipCheck |-> {}, skipSuite |-> {}]
NoReport == [phase |-> "idle", checks |-> {}, suites |-> {}, results |-> {}]

CollectionInit ==
    /\ collection = NewCollection
    /\ handlers \in [{o.code : o \in Offers} -> HandlerOutcomes]
    /\ report = NoReport

codes(c) == {c.registered[i].code : i \in DOMAIN c.registered}

\* A check in a batch is registered whole, or refused: of one whose default is
\* invalid any of its other items may have been stored.
validDefinition(c, o) == o.valid # "incomplete" /\ o.code \notin codes(c)
configItemKey(code, key) == code \o key
keyOf(o, item) == SubSeq(item, Len(o.code) + 1, Len(item))
store(c, o, keys) ==
    LET items == {configItemKey(o.code, k) : k \in keys}
    IN  [c EXCEPT !.configuration =
            [i \in items \cup DOMAIN @ |-> IF i \in items THEN <<o.code, keyOf(o, i)>> ELSE @[i]]]

registerOne(c, o) == [store(c, o, o.keys) EXCEPT !.registered = Append(@, o)]
Registered(c, batch) ==
    LET upTo[i \in 0..Len(batch)] ==
            IF i = 0 THEN [done |-> c, refused |-> <<>>]
            ELSE LET before == upTo[i - 1]
                 IN  IF before.refused # <<>> THEN before
                     ELSE IF validDefinition(before.done, batch[i]) /\ batch[i].valid = "yes"
                     THEN [before EXCEPT !.done = registerOne(@, batch[i])]
                     ELSE [before EXCEPT !.refused = <<batch[i]>>]
    IN  upTo[Len(batch)]

Register(batch) ==
    LET r == Registered(collection, batch)
    IN  /\ IF r.refused = <<>> \/ ~ validDefinition(r.done, r.refused[1]) THEN collection' = r.done
           ELSE \E stray \in SUBSET r.refused[1].keys : collection' = store(r.done, r.refused[1], stray)
        /\ UNCHANGED <<handlers, report>>

SkipChecks(code) ==
    /\ collection' = [collection EXCEPT !.skipCheck = @ \cup {code}]
    /\ UNCHANGED <<handlers, report>>
SkipSuites(suite) ==
    /\ collection' = [collection EXCEPT !.skipSuite = @ \cup {suite}]
    /\ UNCHANGED <<handlers, report>>

\* An item is set through the list ConfigurationItems gives.
validateUnitValue(v) == v \in ValidValues
ConfigurationItems(c) == {c.configuration[i] : i \in DOMAIN c.configuration}
Set(owner, v) ==
    /\ owner \in ConfigurationItems(collection)
    /\ collection' = IF ~ validateUnitValue(v) THEN collection
                     ELSE [collection EXCEPT !.set = {s \in @ : s[1] # owner} \cup {<<owner, v>>}]
    /\ UNCHANGED <<handlers, report>>

\* The value in use: the one that was set, or the default.
Value(c, owner) ==
    IF \E s \in c.set : s[1] = owner THEN (CHOOSE s \in c.set : s[1] = owner)[2] ELSE "default"

CopySkips ==
    /\ report.phase = "idle"
    /\ report' = [report EXCEPT !.phase = "copied", !.checks = collection.skipCheck,
                                !.suites = collection.skipSuite]
    /\ UNCHANGED <<collection, handlers>>

\* (A mutated shouldRun: a suite is not looked at.)
shouldRunSuite(c, o) == o.code \notin c.skipCheck

shouldRun(c, o) == o.code \notin c.skipCheck /\ o.suite \notin c.skipSuite

outcomeOf(code) == IF handlers[code] = "error" THEN "Skipped" ELSE handlers[code]
EachCheck(c) == {c.registered[i] : i \in DOMAIN c.registered}
RunChecks ==
    /\ report.phase = "copied"
    /\ report' = [report EXCEPT !.phase = "done",
           !.results = {[check |-> o, values |-> [k \in o.keys |-> Value(collection, <<o.code, k>>)],
                         outcome |-> IF shouldRun(collection, o) THEN outcomeOf(o.code) ELSE "Skipped"] :
                            o \in EachCheck(collection)}]
    /\ UNCHANGED <<collection, handlers>>

Counted(r, outcome) == Cardinality({x \in r.results : x.outcome = outcome})

CollectionNext ==
    \/ \E batch \in Batches : Register(batch)
    \/ \E code \in SkippedCodes : SkipChecks(code)
    \/ \E suite \in SkippedSuites : SkipSuites(suite)
    \/ \E owner \in ConfigurationItems(collection), v \in Values : Set(owner, v)
    \/ CopySkips
    \/ RunChecks

CollectionSpec == CollectionInit /\ [][CollectionNext]_collectionVars

-----------------------------------------------------------------------------
(* Properties.                                                             *)

registeredAtRun == {r.check : r \in report.results}

(***************************************************************************)
(* A finished report accounts for every registered check once, by counts   *)
(* that add up; it honours every skip it lists, for whatever goroutine     *)
(* changes the collection between the copy of the lists and the run, and a *)
(* check it shows as skipped although it was to run is one whose handler   *)
(* could not tell.  No check runs with a value its unit refuses, and each  *)
(* can be configured, however batches failed before, unless its item has   *)
(* the name of another's (Register, SkipChecks, SkipSuites, Set, Run,      *)
(* EachCheck, configItemKey).                                              *)
(***************************************************************************)
ReportAccounts ==
    /\ \A i, j \in DOMAIN collection.registered :
           collection.registered[i].code = collection.registered[j].code => i = j
    /\ \A o \in EachCheck(collection) : \A k \in o.keys :
           \/ <<o.code, k>> \in ConfigurationItems(collection)
           \/ \E x \in Offers : x.code # o.code /\ configItemKey(o.code, k) \in
                                     {configItemKey(x.code, j) : j \in x.keys}
    /\ report.phase = "done" =>
           /\ registeredAtRun \subseteq EachCheck(collection)
           /\ Cardinality(report.results) = Counted(report, "Pass") + Counted(report, "Fail")
                  + Counted(report, "PassWithIssues") + Counted(report, "Skipped")
           /\ \A r \in report.results :
                  /\ r.check.code \in report.checks \/ r.check.suite \in report.suites
                         => r.outcome = "Skipped"
                  /\ r.outcome = "Skipped" => \/ handlers[r.check.code] \in {"Skipped", "error"}
                                              \/ ~ shouldRun(collection, r.check)
                  /\ \A k \in r.check.keys : r.values[k] \in ValidValues \cup {"default"}
=============================================================================
