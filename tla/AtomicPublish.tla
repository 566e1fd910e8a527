--------------------------- MODULE AtomicPublish ---------------------------
(***************************************************************************)
(* What the output side of the backup package promises to the users of a   *)
(* target directory: of all the writers that build a backup for the same   *)
(* directory at most one publishes it, the publication is one indivisible  *)
(* step, it is never undone or replaced, and a writer reports success only *)
(* when the published backup is its own.  BackupTarget implements this.    *)
(***************************************************************************)
CONSTANTS Writers,   \* processes that call Edit or Recorder.Close
          None       \* nothing published yet, not a writer

VARIABLES published,  \* the writer whose backup the directory holds
          outcome     \* what each writer told its caller

vars == <<published, outcome>>

Init == /\ published = None
        /\ outcome = [w \in Writers |-> "running"]

Publish(w) == /\ outcome[w] = "running"
              /\ published = None
              /\ published' = w
              /\ outcome' = [outcome EXCEPT ![w] = "ok"]

\* Any set of writers stops at once: one of them fails, or the machine does.
Abort(S) == /\ \A w \in S : outcome[w] = "running"
            /\ outcome' = [w \in Writers |-> IF w \in S THEN "error" ELSE outcome[w]]
            /\ UNCHANGED published

Next == \/ \E w \in Writers : Publish(w)
        \/ \E S \in SUBSET Writers : Abort(S)

Spec == Init /\ [][Next]_vars
=============================================================================
