--------------------------- MODULE ServiceBackend ---------------------------
(***************************************************************************)
(* The client of the context service (natscontext/svcbackend/client.go)    *)
(* and a server that follows its protocol.  Payloads are sealed to the     *)
(* server's long-term key, which the client caches and the server may      *)
(* replace at any time; the goroutines that share a client fetch,          *)
(* invalidate and use the cached key concurrently.  Keys are numbered in   *)
(* the order the server creates them, so a key is stale when it is less    *)
(* than serverKey; 0 is the empty string.  Contexts are independent, so    *)
(* one name is modelled, and its payload is only there or not.             *)
(***************************************************************************)
EXTENDS Naturals, FiniteSets

CONSTANTS
    Callers,        \* goroutines that share one Client
    NoCaller,       \* nobody holds Client.mu
    MaxKey,         \* bound on the keys the server creates
    MaxLate         \* bound on the requests that outlive their call at one time

ASSUME CallersAssumption ==
    /\ NoCaller \notin Callers
    /\ MaxKey \in Nat \ {0, 1}
    /\ MaxLate \in Nat

VARIABLES
    serverPub, closed, mu,      \* the fields of Client
    pc, op,                     \* what each caller is doing, in which method
    key,                        \* key[c]: the key the current attempt uses
    first,                      \* first[c]: the key found stale, 0 on the first attempt
    reply, result,
    serverKey, stored,          \* the server: its current key, whether the context is there
    late,                       \* requests still on their way after their caller gave up
    applied,                    \* applied[c]: this call's save was stored (history)
    cached                      \* the key cached last (history)

client  == <<serverPub, closed, mu, cached>>
locals  == <<pc, op, key, first, reply, result, applied>>
server  == <<serverKey, stored>>
vars    == <<client, locals, server, late>>

Keys    == Nat
Sealing == {"Load", "Save"}
Ops     == Sealing \cup {"Delete", "List"}
Codes   == {"ok", "sealed", "xkey", "not_found", "stale_key", "internal"}
NoReply == [code |-> "none", key |-> 0]
Answer(code, k) == [code |-> code, key |-> k]
Results == {"none", "ok", "error", "key"}

TypeOK ==
    /\ serverPub \in Keys /\ cached \in Keys
    /\ closed \in BOOLEAN
    /\ mu \in Callers \cup {NoCaller}
    /\ pc \in [Callers -> {"idle", "ensure", "fetch", "request", "wait", "invalidate"}]
    /\ op \in [Callers -> Ops \cup {"none"}]
    /\ key \in [Callers -> Keys]
    /\ first \in [Callers -> Keys]
    /\ reply \in [Callers -> [code : Codes \cup {"none"}, key : Keys]]
    /\ result \in [Callers -> Results]
    /\ serverKey \in Keys
    /\ stored \in BOOLEAN
    /\ late \in SUBSET [op : {"Save", "Delete"}, key : Keys]
    /\ applied \in [Callers -> BOOLEAN]

(* NewClient: nothing is cached unless WithServerKey seeded a key, which    *)
(* may be out of date.                                                     *)
Init ==
    /\ serverPub \in {0, 1, 2} /\ cached = serverPub
    /\ closed = FALSE
    /\ mu = NoCaller
    /\ pc = [c \in Callers |-> "idle"]
    /\ op = [c \in Callers |-> "none"]
    /\ key = [c \in Callers |-> 0]
    /\ first = [c \in Callers |-> 0]
    /\ reply = [c \in Callers |-> NoReply]
    /\ result = [c \in Callers |-> "none"]
    /\ serverKey = 2
    /\ stored \in BOOLEAN
    /\ late = {}
    /\ applied = [c \in Callers |-> FALSE]

-----------------------------------------------------------------------------
Goto(c, step) == pc' = [pc EXCEPT ![c] = step]

\* The method returns and its local variables are gone.
Return(c, r) ==
    /\ pc' = [pc EXCEPT ![c] = "idle"]
    /\ op' = [op EXCEPT ![c] = "none"]
    /\ key' = [key EXCEPT ![c] = 0]
    /\ first' = [first EXCEPT ![c] = 0]
    /\ reply' = [reply EXCEPT ![c] = NoReply]
    /\ result' = [result EXCEPT ![c] = r]
    /\ applied' = [applied EXCEPT ![c] = FALSE]

\* Every code of the wire but success is an error to the caller.
SentinelFromError(code) == IF code = "ok" THEN "ok" ELSE "error"

\* A method is called; a name that is no subject token goes no further.
Call(c) ==
    /\ pc[c] = "idle"
    /\ \/ \E o \in Ops :
             /\ op' = [op EXCEPT ![c] = o]
             /\ Goto(c, IF o \in Sealing THEN "ensure" ELSE "request")
             /\ result' = [result EXCEPT ![c] = "none"]
             /\ UNCHANGED <<key, first, reply, applied>>
       \/ Return(c, "error")
    /\ UNCHANGED <<client, server, late>>

(* What Load and Save do with the key k of ensureServerPub: Save gives up   *)
(* when the key it found stale comes back, Load tries again whatever it is.*)
Use(c, k) ==
    IF op[c] = "Save" /\ k = first[c]
      THEN Return(c, "key")
      ELSE /\ key' = [key EXCEPT ![c] = k]
           /\ Goto(c, "request")
           /\ reply' = [reply EXCEPT ![c] = NoReply]
           /\ UNCHANGED <<op, first, result, applied>>

\* Mutant: the lock is released before sys.xkey is asked.
ensureServerPubUnlocked(c) ==
    /\ pc[c] = "ensure"
    /\ mu = NoCaller
    /\ \/ /\ closed
          /\ Return(c, "error")
       \/ /\ ~closed
          /\ serverPub # 0
          /\ Use(c, serverPub)
       \/ /\ ~closed
          /\ serverPub = 0
          /\ Goto(c, "fetch")
          /\ UNCHANGED <<op, key, first, reply, result, applied>>
    /\ UNCHANGED <<client, server, late>>

\* The cached key, or the lock is kept while sys.xkey is asked for it.
ensureServerPub(c) ==
    /\ pc[c] = "ensure"
    /\ mu = NoCaller
    /\ \/ /\ closed
          /\ Return(c, "error")
          /\ UNCHANGED mu
       \/ /\ ~closed
          /\ serverPub # 0
          /\ Use(c, serverPub)
          /\ UNCHANGED mu
       \/ /\ ~closed
          /\ serverPub = 0
          /\ mu' = c
          /\ Goto(c, "fetch")
          /\ UNCHANGED <<op, key, first, reply, result, applied>>
    /\ UNCHANGED <<serverPub, closed, cached, server, late>>

\* The answer of sys.xkey arrives: the key is cached and the lock released.
fetchServerPub(c) ==
    /\ pc[c] = "fetch"
    /\ reply[c].code = "xkey"
    /\ serverPub' = reply[c].key
    /\ cached' = reply[c].key
    /\ mu' = NoCaller
    /\ Use(c, reply[c].key)
    /\ UNCHANGED <<closed, server, late>>

\* checkOpen, and the request is sent.
roundTrip(c) ==
    /\ pc[c] = "request"
    /\ mu = NoCaller
    /\ \/ /\ closed
          /\ Return(c, "error")
       \/ /\ ~closed
          /\ Goto(c, "wait")
          /\ UNCHANGED <<op, key, first, reply, result, applied>>
    /\ UNCHANGED <<client, server, late>>

\* A second failure of the key is returned, the first one is retried.
KeyFails(c) ==
    IF first[c] = 0
      THEN /\ Goto(c, "invalidate")
           /\ UNCHANGED <<op, key, first, reply, result, applied>>
      ELSE Return(c, "key")

\* The reply of load arrives; it opens with the key that sealed it.
loadOnce(c) ==
    /\ pc[c] = "wait" /\ op[c] = "Load"
    /\ \/ /\ reply[c].code \in {"not_found", "internal"}
          /\ Return(c, "error")
       \/ /\ reply[c].code = "sealed"
          /\ reply[c].key = key[c]
          /\ Return(c, "ok")
       \/ /\ reply[c].code \in {"sealed", "stale_key"}
          /\ reply[c].code = "sealed" => reply[c].key # key[c]
          /\ KeyFails(c)
    /\ UNCHANGED <<client, server, late>>

\* Mutant: the error in the answer to the retry is not looked at.
saveOnceRetryUnchecked(c) ==
    /\ pc[c] = "wait" /\ op[c] = "Save"
    /\ \/ /\ reply[c].code \in {"ok", "internal"}
          /\ Return(c, SentinelFromError(reply[c].code))
       \/ /\ reply[c].code = "stale_key"
          /\ IF first[c] = 0 THEN KeyFails(c) ELSE Return(c, "ok")
    /\ UNCHANGED <<client, server, late>>

\* The reply of save arrives.
saveOnce(c) ==
    /\ pc[c] = "wait" /\ op[c] = "Save"
    /\ \/ /\ reply[c].code \in {"ok", "internal"}
          /\ Return(c, SentinelFromError(reply[c].code))
       \/ /\ reply[c].code = "stale_key"
          /\ KeyFails(c)
    /\ UNCHANGED <<client, server, late>>

\* Delete and List are not sealed and return what the server answers.
plainReply(c) ==
    /\ pc[c] = "wait" /\ op[c] \notin Sealing
    /\ reply[c] # NoReply
    /\ Return(c, SentinelFromError(reply[c].code))
    /\ UNCHANGED <<client, server, late>>

\* Mutant: only the fetch of the key has a deadline.
TimeoutOfFetch(c) ==
    /\ pc[c] = "fetch"
    /\ mu' = NoCaller
    /\ Return(c, "error")
    /\ UNCHANGED <<serverPub, closed, cached, server, late>>

(* No answer in time, or one that does not parse.  The server may still     *)
(* get the request.                                                        *)
Timeout(c) ==
    /\ \/ /\ pc[c] = "fetch"
          /\ mu' = NoCaller
          /\ UNCHANGED late
       \/ /\ pc[c] = "wait"
          /\ \/ UNCHANGED late
             \/ /\ reply[c] = NoReply
                /\ op[c] \in {"Save", "Delete"}
                /\ Cardinality(late) < MaxLate
                /\ late' = late \cup {[op |-> op[c], key |-> key[c]]}
          /\ UNCHANGED mu
    /\ Return(c, "error")
    /\ UNCHANGED <<serverPub, closed, cached, server>>

\* Mutant: whatever key is cached is dropped.
invalidateAny(c) ==
    /\ pc[c] = "invalidate"
    /\ mu = NoCaller
    /\ serverPub' = 0
    /\ first' = [first EXCEPT ![c] = key[c]]
    /\ reply' = [reply EXCEPT ![c] = NoReply]
    /\ Goto(c, "ensure")
    /\ UNCHANGED <<closed, cached, mu, op, key, result, applied, server, late>>

\* Mutant: the retry uses the cached key again.
invalidateNothing(c) ==
    /\ pc[c] = "invalidate"
    /\ first' = [first EXCEPT ![c] = key[c]]
    /\ reply' = [reply EXCEPT ![c] = NoReply]
    /\ Goto(c, "ensure")
    /\ UNCHANGED <<client, op, key, result, applied, server, late>>

\* The key that failed is dropped, unless another caller replaced it already.
invalidateServerPub(c) ==
    /\ pc[c] = "invalidate"
    /\ mu = NoCaller
    /\ serverPub' = IF serverPub = key[c] THEN 0 ELSE serverPub
    /\ first' = [first EXCEPT ![c] = key[c]]
    /\ reply' = [reply EXCEPT ![c] = NoReply]
    /\ Goto(c, "ensure")
    /\ UNCHANGED <<closed, cached, mu, op, key, result, applied, server, late>>

Close ==
    /\ mu = NoCaller
    /\ ~closed
    /\ closed' = TRUE
    /\ serverPub' = 0
    /\ UNCHANGED <<mu, cached, locals, server, late>>

-----------------------------------------------------------------------------
\* The server opens what was sealed to its key, and may accept the one before.
Opens(k, accepted) == k \in {serverKey} \cup accepted

handleSysXKey(c) ==
    /\ pc[c] = "fetch" /\ reply[c] = NoReply
    /\ reply' = [reply EXCEPT ![c] = Answer("xkey", serverKey)]
    /\ UNCHANGED <<client, pc, op, key, first, result, applied, server, late>>

handleLoad(c) ==
    /\ pc[c] = "wait" /\ op[c] = "Load" /\ reply[c] = NoReply
    /\ reply' = [reply EXCEPT ![c] =
                    IF stored THEN Answer("sealed", serverKey) ELSE Answer("not_found", 0)]
    /\ UNCHANGED <<client, pc, op, key, first, result, applied, server, late>>

handleSave(c) ==
    /\ pc[c] = "wait" /\ op[c] = "Save" /\ reply[c] = NoReply
    /\ \E accepted \in {{}, {serverKey - 1}} :
          \/ /\ Opens(key[c], accepted)
             /\ stored' = TRUE
             /\ applied' = [applied EXCEPT ![c] = TRUE]
             /\ reply' = [reply EXCEPT ![c] = Answer("ok", 0)]
          \/ /\ ~Opens(key[c], accepted)
             /\ reply' = [reply EXCEPT ![c] = Answer("stale_key", 0)]
             /\ UNCHANGED <<stored, applied>>
    /\ UNCHANGED <<client, pc, op, key, first, result, serverKey, late>>

handleDelete(c) ==
    /\ pc[c] = "wait" /\ op[c] = "Delete" /\ reply[c] = NoReply
    /\ stored' = FALSE
    /\ reply' = [reply EXCEPT ![c] = Answer("ok", 0)]
    /\ UNCHANGED <<client, pc, op, key, first, result, applied, serverKey, late>>

handleList(c) ==
    /\ pc[c] = "wait" /\ op[c] = "List" /\ reply[c] = NoReply
    /\ reply' = [reply EXCEPT ![c] = Answer("ok", 0)]
    /\ UNCHANGED <<client, pc, op, key, first, result, applied, server, late>>

\* The storage of the server fails, or refuses to be written.
handleFails(c) ==
    /\ pc[c] = "wait" /\ reply[c] = NoReply
    /\ reply' = [reply EXCEPT ![c] = Answer("internal", 0)]
    /\ UNCHANGED <<client, pc, op, key, first, result, applied, server, late>>

(* A request whose caller has gone is handled all the same, and its answer  *)
(* dropped.  Equal requests of two callers are one element of late: what   *)
(* they do to the context is the same.                                     *)
handleLate ==
    \E r \in late :
        /\ late' = late \ {r}
        /\ stored' = (r.op = "Save" /\ (stored \/ Opens(r.key, {})))
        /\ UNCHANGED <<client, locals, serverKey>>

Rotate ==
    /\ serverKey < MaxKey
    /\ serverKey' = serverKey + 1
    /\ UNCHANGED <<client, locals, stored, late>>

-----------------------------------------------------------------------------
Method(c) == \/ ensureServerPub(c) \/ fetchServerPub(c) \/ roundTrip(c)
             \/ loadOnce(c) \/ saveOnce(c) \/ plainReply(c)
             \/ invalidateServerPub(c) \/ Timeout(c)

Handle(c) == \/ handleSysXKey(c) \/ handleLoad(c) \/ handleSave(c)
             \/ handleDelete(c) \/ handleList(c) \/ handleFails(c)

Next == \/ \E c \in Callers : Call(c) \/ Method(c) \/ Handle(c)
        \/ handleLate \/ Rotate \/ Close

Spec == Init /\ [][Next]_vars

(* A goroutine that can go on does, every request has a deadline, and a     *)
(* sync.Mutex is handed to whoever has waited for it for long.             *)
FairSpec == Spec /\ \A c \in Callers : SF_vars(Method(c))

-----------------------------------------------------------------------------
(* Close leaves no key behind (client.go:107): a fetch that was under way   *)
(* cannot put one back.                                                    *)
ClosedKeepsNoKey == closed => serverPub = 0

(* ensureServerPub: callers share one fetch, and invalidateServerPub drops  *)
(* no key another caller has just fetched: a key is only fetched when the  *)
(* one cached before it had been replaced by the server.                   *)
FetchesOnlyNewKeys == [][serverPub = 0 /\ serverPub' # 0 => cached < serverPub']_vars

(* Load and Save hide a rotation (PROTOCOL.md 9.4): they fail for the key   *)
(* only if the key of the retry is newer than the first and the server has *)
(* replaced it again; the refetched key is never the stale one.            *)
KeyErrorNeedsTwoRotations ==
    [][\A c \in Callers :
          pc[c] # "idle" /\ result'[c] = "key" =>
              /\ 0 < first[c] /\ first[c] < key[c]
              /\ key[c] < serverKey]_vars

(* A Save that returns no error was opened and stored by the server during  *)
(* this very call.                                                         *)
SaveSuccessIsStored ==
    [][\A c \in Callers :
          op[c] = "Save" /\ pc[c] # "idle" /\ result'[c] = "ok" => applied[c]]_vars

(* Every call returns, whatever the others do with the lock and however     *)
(* often the server rotates its key or does not answer.                    *)
CallsReturn == \A c \in Callers : pc[c] # "idle" ~> pc[c] = "idle"
=============================================================================
