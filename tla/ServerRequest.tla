---------------------------- MODULE ServerRequest ----------------------------
(***************************************************************************)
(* One request with several responses (serverdata.DoReqAsync): the caller  *)
(* waits for its context or for an error, while the subscription delivers  *)
(* responses to the callback under a mutex.                                *)
(*                                                                         *)
(* Time passes in ticks.  net holds the responses on their way; one that   *)
(* is slow is one that is not delivered before the request ends.           *)
(***************************************************************************)
EXTENDS Integers, FiniteSets

CONSTANTS
    Timeout,        \* of a request, in ticks
    Quiet           \* what an adaptive request waits after a response, 300ms in the code

ASSUME TimesAssumption == Timeout \in Nat /\ Quiet \in 0..Timeout

VARIABLES
    req,            \* the request: see Idle
    net             \* responses on their way

requestVars == <<req, net>>

Idle == [on |-> FALSE, waitFor |-> 0, left |-> 0, ctr |-> 0, clock |-> 0, finisher |-> 0,
         ctxDone |-> FALSE, errs |-> "", done |-> FALSE, err |-> ""]

AutoUnsubscribe(waitFor) == IF waitFor > 0 THEN waitFor ELSE 0 - 1      \* -1: no limit

\* waitFor < 0 waits the full timeout, 0 adapts, > 0 waits for so many responses.
Ask(waitFor, responses) ==
    /\ ~ req.on
    /\ req' = [Idle EXCEPT !.on = TRUE, !.waitFor = waitFor,
                           !.left = AutoUnsubscribe(waitFor), !.finisher = Timeout]
    /\ net' = responses

Tick ==
    /\ req.on /\ ~ req.ctxDone /\ ~ req.done
    /\ req.clock < Timeout
    /\ req' = [req EXCEPT !.clock = @ + 1]
    /\ UNCHANGED net

\* (A mutated Due: the context has no deadline.)
DueWithoutDeadline == req.waitFor = 0 /\ req.clock >= req.finisher

\* The deadline of the context, or the finisher of an adaptive request.
Due == \/ req.clock >= Timeout
       \/ req.waitFor = 0 /\ req.clock >= req.finisher

Expire ==
    /\ req.on /\ ~ req.ctxDone /\ ~ req.done
    /\ Due
    /\ req' = [req EXCEPT !.ctxDone = TRUE]
    /\ UNCHANGED net

raise(e) == IF req.errs = "" THEN e ELSE req.errs       \* a channel of capacity one

\* (A mutated Ignored: a late response is still given to the callback.)
NeverIgnored == FALSE

Ignored == req.done

\* What the subscription makes of a message, apart from the callback.
received(m) ==
    LET r == [req EXCEPT !.left = @ - 1]
        timed == [r EXCEPT !.finisher = req.clock + Quiet]
    IN  CASE Ignored -> r
          [] ~ Ignored /\ m.kind = "snappy" -> [r EXCEPT !.errs = raise("snappy")]
          [] ~ Ignored /\ m.kind = "503" -> [timed EXCEPT !.errs = raise("503")]
          [] OTHER -> [timed EXCEPT !.ctr = @ + 1,
                                    !.ctxDone = @ \/ (req.waitFor > 0 /\ req.ctr + 1 = req.waitFor)]

CallsBack(m) == ~ Ignored /\ m.kind \notin {"snappy", "503"}

Delivers(m) ==
    /\ req.on /\ m \in net
    /\ req.left # 0
    /\ req' = received(m)
    /\ net' = net \ {m}

\* The caller selects the error or the end of the context, either if both are
\* there, and from then on responses are ignored.
Return ==
    /\ req.on /\ ~ req.done
    /\ \/ req.errs # "" /\ req' = [req EXCEPT !.done = TRUE, !.err = req.errs]
       \/ req.ctxDone /\ req' = [req EXCEPT !.done = TRUE]
    /\ UNCHANGED net

\* The caller goes on with what the callback collected.
Taken == req' = Idle /\ net' = {}

=============================================================================
