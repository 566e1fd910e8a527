------------------------ MODULE ServiceBackendProofs ------------------------
(* Proofs about ServiceBackend, for any goroutines and number of rotations. *)
EXTENDS ServiceBackend, TLAPS

\* The lock is held exactly while its holder fetches a key it does not have.
Locked ==
    /\ mu # NoCaller => pc[mu] = "fetch"
    /\ \A c \in Callers : pc[c] = "fetch" => mu = c
    /\ mu # NoCaller => ~closed /\ serverPub = 0

\* The cache holds the last key fetched, which is stale once it was dropped.
CacheOrder ==
    /\ serverPub # 0 => serverPub = cached
    /\ cached <= serverKey
    /\ serverPub = 0 /\ ~closed => cached < serverKey

\* What caller c knows of the keys at each of its steps.
CallerOrder(c) ==
    /\ key[c] <= cached /\ first[c] <= cached
    /\ pc[c] = "idle" => first[c] = 0
    /\ pc[c] # "idle" => result[c] = "none"
    /\ pc[c] \in {"idle", "ensure", "request"} => reply[c] = NoReply
    /\ pc[c] = "ensure" /\ first[c] # 0 /\ serverPub # 0 => first[c] < serverPub
    /\ pc[c] = "fetch" /\ reply[c].code = "xkey" =>
          cached < reply[c].key /\ reply[c].key <= serverKey
    /\ pc[c] = "invalidate" => 0 < key[c] /\ key[c] < serverKey

\* The key of an attempt, and what the answer to it says of the key.
AttemptOrder(c) ==
    /\ pc[c] \in {"request", "wait"} /\ op[c] \in Sealing => first[c] < key[c]
    /\ pc[c] = "wait" /\ reply[c].code = "sealed" =>
          key[c] <= reply[c].key /\ reply[c].key <= serverKey
    /\ pc[c] = "wait" /\ reply[c].code = "stale_key" => key[c] < serverKey
    /\ pc[c] = "wait" /\ op[c] = "Save" /\ reply[c].code = "ok" => applied[c]

IInv == /\ TypeOK /\ Locked /\ CacheOrder
        /\ \A c \in Callers : CallerOrder(c) /\ AttemptOrder(c)

-----------------------------------------------------------------------------
LEMMA NoReplyType == NoReply \in [code : Codes \cup {"none"}, key : Keys]
BY DEF NoReply, Keys

LEMMA InitTypeOK == Init => TypeOK
<1> SUFFICES ASSUME Init PROVE TypeOK
  OBVIOUS
<1>1. serverPub \in Keys /\ cached \in Keys /\ serverKey \in Keys
  BY DEF Init, Keys
<1>2. /\ key \in [Callers -> Keys] /\ first \in [Callers -> Keys]
      /\ op \in [Callers -> Ops \cup {"none"}] /\ result \in [Callers -> Results]
  BY DEF Init, Keys, Results
<1>3. /\ reply \in [Callers -> [code : Codes \cup {"none"}, key : Keys]]
      /\ applied \in [Callers -> BOOLEAN] /\ closed \in BOOLEAN /\ stored \in BOOLEAN
  BY NoReplyType DEF Init
<1> QED BY <1>1, <1>2, <1>3 DEF Init, TypeOK

\* Returning keeps the types of what belongs to the caller.
LEMMA ReturnType ==
    ASSUME TypeOK, NEW c \in Callers, NEW r \in Results, Return(c, r)
    PROVE  /\ pc' \in [Callers -> {"idle", "ensure", "fetch", "request", "wait", "invalidate"}]
           /\ op' \in [Callers -> Ops \cup {"none"}]
           /\ key' \in [Callers -> Keys] /\ first' \in [Callers -> Keys]
           /\ reply' \in [Callers -> [code : Codes \cup {"none"}, key : Keys]]
           /\ result' \in [Callers -> Results] /\ applied' \in [Callers -> BOOLEAN]
BY DEF Return, TypeOK, NoReply, Keys

\* So does going on with a key.
LEMMA UseType ==
    ASSUME TypeOK, NEW c \in Callers, NEW k \in Keys, Use(c, k)
    PROVE  /\ pc' \in [Callers -> {"idle", "ensure", "fetch", "request", "wait", "invalidate"}]
           /\ op' \in [Callers -> Ops \cup {"none"}]
           /\ key' \in [Callers -> Keys] /\ first' \in [Callers -> Keys]
           /\ reply' \in [Callers -> [code : Codes \cup {"none"}, key : Keys]]
           /\ result' \in [Callers -> Results] /\ applied' \in [Callers -> BOOLEAN]
<1>1. CASE Return(c, "key")
  BY <1>1, ReturnType DEF Results
<1>2. CASE ~(op[c] = "Save" /\ k = first[c])
  <2>1. /\ key' = [key EXCEPT ![c] = k] /\ pc' = [pc EXCEPT ![c] = "request"]
        /\ reply' = [reply EXCEPT ![c] = NoReply] /\ UNCHANGED <<op, first, result, applied>>
    BY <1>2, Zenon DEF Use, Goto
  <2> QED BY <2>1, NoReplyType DEF TypeOK
<1> QED BY <1>1, <1>2 DEF Use

\* And so does a key that failed.
LEMMA KeyFailsType ==
    ASSUME TypeOK, NEW c \in Callers, KeyFails(c)
    PROVE  /\ pc' \in [Callers -> {"idle", "ensure", "fetch", "request", "wait", "invalidate"}]
           /\ op' \in [Callers -> Ops \cup {"none"}]
           /\ key' \in [Callers -> Keys] /\ first' \in [Callers -> Keys]
           /\ reply' \in [Callers -> [code : Codes \cup {"none"}, key : Keys]]
           /\ result' \in [Callers -> Results] /\ applied' \in [Callers -> BOOLEAN]
<1>1. CASE Return(c, "key")
  BY <1>1, ReturnType DEF Results
<1>2. CASE first[c] = 0
  BY <1>2 DEF KeyFails, Goto, TypeOK
<1> QED BY <1>1, <1>2 DEF KeyFails

LEMMA NextTypeOK == TypeOK /\ [Next]_vars => TypeOK'
<1> SUFFICES ASSUME TypeOK, [Next]_vars PROVE TypeOK'
  OBVIOUS
<1>0. "error" \in Results /\ "ok" \in Results /\ \A code : SentinelFromError(code) \in Results
  BY DEF Results, SentinelFromError
<1>1. ASSUME NEW c \in Callers, Call(c) PROVE TypeOK'
  <2>1. CASE Return(c, "error")
    BY <1>0, <1>1, <2>1, ReturnType DEF Call, TypeOK, client, server
  <2>2. ASSUME NEW o \in Ops, op' = [op EXCEPT ![c] = o],
               Goto(c, IF o \in Sealing THEN "ensure" ELSE "request"),
               result' = [result EXCEPT ![c] = "none"], UNCHANGED <<key, first, reply, applied>>
        PROVE  TypeOK'
    BY <1>1, <2>2 DEF Call, TypeOK, Goto, Results, client, server
  <2> QED BY <1>1, <2>1, <2>2 DEF Call
<1>2. ASSUME NEW c \in Callers, ensureServerPub(c) PROVE TypeOK'
  <2>1. CASE Return(c, "error") /\ UNCHANGED mu
    BY <1>0, <1>2, <2>1, ReturnType DEF ensureServerPub, TypeOK, server
  <2>2. CASE Use(c, serverPub) /\ UNCHANGED mu
    BY <1>2, <2>2, UseType DEF ensureServerPub, TypeOK, server
  <2>3. CASE mu' = c /\ Goto(c, "fetch") /\ UNCHANGED <<op, key, first, reply, result, applied>>
    BY <1>2, <2>3 DEF ensureServerPub, TypeOK, Goto, server
  <2> QED BY <1>2, <2>1, <2>2, <2>3 DEF ensureServerPub
<1>3. ASSUME NEW c \in Callers, fetchServerPub(c) PROVE TypeOK'
  <2>1. reply[c].key \in Keys
    BY DEF TypeOK
  <2> QED BY <1>3, <2>1, UseType DEF fetchServerPub, TypeOK, server
<1>4. ASSUME NEW c \in Callers, roundTrip(c) PROVE TypeOK'
  <2>1. CASE Return(c, "error")
    BY <1>0, <1>4, <2>1, ReturnType DEF roundTrip, TypeOK, client, server
  <2>2. CASE Goto(c, "wait") /\ UNCHANGED <<op, key, first, reply, result, applied>>
    BY <1>4, <2>2 DEF roundTrip, TypeOK, Goto, client, server
  <2> QED BY <1>4, <2>1, <2>2 DEF roundTrip
<1>5. ASSUME NEW c \in Callers, loadOnce(c) \/ saveOnce(c) \/ plainReply(c) PROVE TypeOK'
  <2>1. ASSUME NEW r \in Results, Return(c, r) PROVE TypeOK'
    BY <1>5, <2>1, ReturnType DEF loadOnce, saveOnce, plainReply, TypeOK, client, server
  <2>2. CASE KeyFails(c)
    BY <1>5, <2>2, KeyFailsType DEF loadOnce, saveOnce, plainReply, TypeOK, client, server
  <2> QED BY <1>0, <1>5, <2>1, <2>2 DEF loadOnce, saveOnce, plainReply
<1>6. ASSUME NEW c \in Callers, Timeout(c) PROVE TypeOK'
  <2>1. mu' \in Callers \cup {NoCaller}
    BY <1>6 DEF Timeout, TypeOK
  <2>2. late' \in SUBSET [op : {"Save", "Delete"}, key : Keys]
    BY <1>6 DEF Timeout, TypeOK
  <2> QED BY <1>0, <1>6, <2>1, <2>2, ReturnType DEF Timeout, TypeOK, server
<1>7. ASSUME NEW c \in Callers, invalidateServerPub(c) PROVE TypeOK'
  BY <1>7 DEF invalidateServerPub, TypeOK, Goto, NoReply, Keys, server
<1>8. ASSUME NEW c \in Callers, handleSave(c) PROVE TypeOK'
  <2>1. Answer("ok", 0) \in [code : Codes \cup {"none"}, key : Keys]
        /\ Answer("stale_key", 0) \in [code : Codes \cup {"none"}, key : Keys]
    BY DEF Answer, Codes, Keys
  <2>2. reply' \in [Callers -> [code : Codes \cup {"none"}, key : Keys]]
    BY <1>8, <2>1 DEF handleSave, TypeOK
  <2>3. stored' \in BOOLEAN /\ applied' \in [Callers -> BOOLEAN]
    BY <1>8 DEF handleSave, TypeOK
  <2> QED BY <1>8, <2>2, <2>3 DEF handleSave, TypeOK, client
<1>9. ASSUME NEW c \in Callers,
             handleSysXKey(c) \/ handleLoad(c) \/ handleDelete(c) \/ handleList(c) \/ handleFails(c)
      PROVE  TypeOK'
  <2>1. CASE handleSysXKey(c) BY <2>1 DEF handleSysXKey, TypeOK, Answer, Codes, client, server
  <2>2. CASE handleLoad(c) BY <2>2 DEF handleLoad, TypeOK, Answer, Codes, Keys, client, server
  <2>3. CASE handleDelete(c) BY <2>3 DEF handleDelete, TypeOK, Answer, Codes, Keys, client
  <2>4. CASE handleList(c) BY <2>4 DEF handleList, TypeOK, Answer, Codes, Keys, client, server
  <2>5. CASE handleFails(c) BY <2>5 DEF handleFails, TypeOK, Answer, Codes, Keys, client, server
  <2> QED BY <1>9, <2>1, <2>2, <2>3, <2>4, <2>5
<1>10. ASSUME handleLate PROVE TypeOK'
  <2>1. PICK r \in late : /\ late' = late \ {r}
                          /\ stored' = (r.op = "Save" /\ (stored \/ Opens(r.key, {})))
    BY <1>10, Zenon DEF handleLate
  <2>2. stored' \in BOOLEAN
    BY <2>1, Zenon
  <2> QED BY <1>10, <2>1, <2>2 DEF handleLate, TypeOK, client, locals
<1>11. ASSUME Rotate \/ Close PROVE TypeOK'
  <2>1. CASE Rotate BY <2>1 DEF Rotate, TypeOK, Keys, client, locals
  <2>2. CASE Close BY <2>2 DEF Close, TypeOK, Keys, locals, server
  <2> QED BY <1>11, <2>1, <2>2
<1>12. ASSUME UNCHANGED vars PROVE TypeOK'
  BY <1>12 DEF vars, client, locals, server, TypeOK
<1> QED
  BY <1>1, <1>2, <1>3, <1>4, <1>5, <1>6, <1>7, <1>8, <1>9, <1>10, <1>11, <1>12
  DEF Next, Method, Handle

\* Every variable keeps its type.
THEOREM TypeCorrect == Spec => []TypeOK
BY InitTypeOK, NextTypeOK, PTL DEF Spec

-----------------------------------------------------------------------------
LEMMA InitIInv == Init => IInv
<1> SUFFICES ASSUME Init PROVE IInv
  OBVIOUS
<1>1. Locked
  BY DEF Init, Locked
<1>2. CacheOrder
  BY DEF Init, CacheOrder
<1>3. ASSUME NEW c \in Callers PROVE CallerOrder(c) /\ AttemptOrder(c)
  BY DEF Init, CallerOrder, AttemptOrder
<1> QED BY <1>1, <1>2, <1>3, InitTypeOK DEF IInv

\* A step of another actor leaves what belongs to d alone.
Kept(d) ==
    /\ pc'[d] = pc[d] /\ op'[d] = op[d] /\ key'[d] = key[d] /\ first'[d] = first[d]
    /\ reply'[d] = reply[d] /\ result'[d] = result[d] /\ applied'[d] = applied[d]

LEMMA OthersKept ==
    ASSUME TypeOK, NEW c \in Callers, NEW d \in Callers, d # c,
           Call(c) \/ Method(c) \/ Handle(c)
    PROVE  Kept(d)
<1>1. ASSUME NEW r, Return(c, r) PROVE Kept(d)
  BY <1>1 DEF Return, TypeOK, Kept
<1>2. ASSUME NEW k, Use(c, k) PROVE Kept(d)
  <2>1. CASE Return(c, "key")
    BY <1>1, <2>1
  <2>2. CASE /\ key' = [key EXCEPT ![c] = k] /\ pc' = [pc EXCEPT ![c] = "request"]
             /\ reply' = [reply EXCEPT ![c] = NoReply] /\ UNCHANGED <<op, first, result, applied>>
    BY <2>2 DEF TypeOK, Kept
  <2> QED BY <1>2, <2>1, <2>2, Zenon DEF Use, Goto
<1>3. ASSUME NEW step, Goto(c, step), UNCHANGED <<op, key, first, reply, result, applied>>
      PROVE  Kept(d)
  BY <1>3 DEF Goto, TypeOK, Kept
<1>4. ASSUME KeyFails(c) PROVE Kept(d)
  BY <1>1, <1>3, <1>4, Zenon DEF KeyFails
<1>5. ASSUME NEW a, reply' = [reply EXCEPT ![c] = a],
             UNCHANGED <<pc, op, key, first, result, applied>>
      PROVE  Kept(d)
  BY <1>5 DEF TypeOK, Kept
<1>6. CASE Call(c)
  <2>1. ASSUME NEW o \in Ops, op' = [op EXCEPT ![c] = o],
               Goto(c, IF o \in Sealing THEN "ensure" ELSE "request"),
               result' = [result EXCEPT ![c] = "none"], UNCHANGED <<key, first, reply, applied>>
        PROVE  Kept(d)
    BY <2>1 DEF Goto, TypeOK, Kept
  <2> QED BY <1>1, <1>6, <2>1, Zenon DEF Call
<1>7. CASE ensureServerPub(c)
  BY <1>1, <1>2, <1>3, <1>7, Zenon DEF ensureServerPub
<1>8. CASE fetchServerPub(c) \/ Timeout(c)
  BY <1>1, <1>2, <1>8, Zenon DEF fetchServerPub, Timeout
<1>9. CASE roundTrip(c)
  BY <1>1, <1>3, <1>9, Zenon DEF roundTrip
<1>10. CASE loadOnce(c) \/ saveOnce(c) \/ plainReply(c)
  BY <1>1, <1>4, <1>10, Zenon DEF loadOnce, saveOnce, plainReply
<1>11. CASE invalidateServerPub(c)
  BY <1>11 DEF invalidateServerPub, Goto, TypeOK, Kept
<1>12. CASE handleSysXKey(c) \/ handleLoad(c) \/ handleDelete(c) \/ handleList(c) \/ handleFails(c)
  BY <1>5, <1>12, Zenon DEF handleSysXKey, handleLoad, handleDelete, handleList, handleFails
<1>13. CASE handleSave(c)
  BY <1>13 DEF handleSave, TypeOK, Kept
<1> QED BY <1>6, <1>7, <1>8, <1>9, <1>10, <1>11, <1>12, <1>13 DEF Method, Handle

\* Keys only move forward, and a new one is newer than any cached before.
Forward(d) ==
    /\ cached <= cached' /\ serverKey <= serverKey'
    /\ cached' # cached => pc[d] # "fetch"
    /\ serverPub' \in {0, serverPub} \/ cached < serverPub'

LEMMA Bystander ==
    ASSUME TypeOK, TypeOK', NEW d \in Callers, CallerOrder(d), AttemptOrder(d),
           Kept(d), Forward(d)
    PROVE  CallerOrder(d)' /\ AttemptOrder(d)'
<1>1. /\ key[d] \in Nat /\ first[d] \in Nat /\ reply[d].key \in Nat
      /\ cached \in Nat /\ cached' \in Nat /\ serverKey \in Nat /\ serverKey' \in Nat
      /\ serverPub \in Nat /\ serverPub' \in Nat
  BY DEF TypeOK, Keys
<1>2. CallerOrder(d)'
  BY <1>1 DEF CallerOrder, Kept, Forward
<1>3. AttemptOrder(d)'
  BY <1>1 DEF AttemptOrder, Kept, Forward
<1> QED BY <1>2, <1>3

LEMMA ReturnOrder ==
    ASSUME TypeOK, TypeOK', NEW c \in Callers, NEW r, Return(c, r)
    PROVE  CallerOrder(c)' /\ AttemptOrder(c)'
<1>1. /\ pc'[c] = "idle" /\ key'[c] = 0 /\ first'[c] = 0 /\ reply'[c] = NoReply
      /\ cached' \in Nat
  BY DEF Return, TypeOK, Keys
<1> QED BY <1>1 DEF CallerOrder, AttemptOrder

\* A caller that goes on with a key newer than the one it found stale.
LEMMA UseOrder ==
    ASSUME TypeOK, TypeOK', NEW c \in Callers, NEW k \in Nat, Use(c, k), pc[c] # "idle",
           CallerOrder(c), first[c] < k, k <= cached', cached <= cached'
    PROVE  /\ CallerOrder(c)' /\ AttemptOrder(c)'
           /\ result'[c] = "none"
<1>1. first[c] \in Nat /\ cached \in Nat /\ cached' \in Nat
  BY DEF TypeOK, Keys
<1>2. /\ key' = [key EXCEPT ![c] = k] /\ pc' = [pc EXCEPT ![c] = "request"]
      /\ reply' = [reply EXCEPT ![c] = NoReply] /\ UNCHANGED <<op, first, result, applied>>
  <2>1. ~(op[c] = "Save" /\ k = first[c])
    BY <1>1
  <2> QED BY <2>1, Zenon DEF Use, Goto
<1>3. pc'[c] = "request" /\ key'[c] = k /\ reply'[c] = NoReply /\ first'[c] = first[c]
      /\ result'[c] = "none"
  BY <1>2 DEF TypeOK, CallerOrder
<1> QED BY <1>1, <1>3 DEF CallerOrder, AttemptOrder

-----------------------------------------------------------------------------
\* Where the methods of a caller go.
LEMMA Moves ==
    ASSUME TypeOK, NEW c \in Callers
    PROVE  /\ \A r : Return(c, r) => pc'[c] = "idle" /\ result'[c] = r
           /\ \A k : Use(c, k) => pc'[c] \in {"idle", "request"}
           /\ \A step : Goto(c, step) => pc'[c] = step
           /\ KeyFails(c) => pc'[c] \in {"idle", "invalidate"}
<1>1. \A r : Return(c, r) => pc'[c] = "idle" /\ result'[c] = r
  BY DEF Return, TypeOK
<1>2. \A step : Goto(c, step) => pc'[c] = step
  BY DEF Goto, TypeOK
<1>3. \A k : Use(c, k) => pc'[c] \in {"idle", "request"}
  BY <1>1, <1>2, Zenon DEF Use
<1>4. KeyFails(c) => pc'[c] \in {"idle", "invalidate"}
  BY <1>1, <1>2, Zenon DEF KeyFails
<1> QED BY <1>1, <1>2, <1>3, <1>4

LEMMA NextLocked == IInv /\ [Next]_vars => Locked'
<1> SUFFICES ASSUME IInv, [Next]_vars PROVE Locked'
  OBVIOUS
<1>0. TypeOK /\ Locked
  BY DEF IInv
<1>1. ASSUME NEW c \in Callers, Call(c) \/ Method(c) \/ Handle(c) PROVE Locked'
  <2>1. \A d \in Callers : d # c => pc'[d] = pc[d]
    BY <1>0, <1>1, OthersKept DEF Kept
  <2>2. CASE /\ UNCHANGED mu /\ pc[c] # "fetch" /\ pc'[c] # "fetch"
             /\ UNCHANGED <<serverPub, closed>> \/ mu = NoCaller
    BY <1>0, <2>1, <2>2, CallersAssumption DEF Locked, TypeOK
  <2>3. CASE UNCHANGED <<pc, mu, serverPub, closed>>
    BY <1>0, <2>3 DEF Locked
  <2>4. CASE pc[c] = "fetch" /\ mu' = NoCaller /\ pc'[c] # "fetch"
    BY <1>0, <2>1, <2>4 DEF Locked
  <2>5. CASE Call(c)
    <3>1. pc'[c] # "fetch" /\ pc[c] = "idle" /\ UNCHANGED <<mu, serverPub, closed>>
      <4>1. CASE Return(c, "error")
        BY <1>0, <2>5, <4>1, Moves DEF Call, client
      <4>2. ASSUME NEW o \in Ops, Goto(c, IF o \in Sealing THEN "ensure" ELSE "request")
            PROVE  pc'[c] # "fetch"
        BY <1>0, <4>2, Moves
      <4> QED BY <2>5, <4>1, <4>2 DEF Call, client
    <3> QED BY <2>2, <3>1
  <2>6. CASE ensureServerPub(c)
    <3>1. CASE Goto(c, "fetch") /\ mu' = c /\ ~closed /\ serverPub = 0
      BY <1>0, <2>1, <2>6, <3>1, Moves, CallersAssumption DEF Locked, ensureServerPub
    <3>2. CASE UNCHANGED mu /\ ((\E r : Return(c, r)) \/ (\E k : Use(c, k)))
      <4>1. pc'[c] # "fetch"
        BY <1>0, <3>2, Moves
      <4> QED BY <2>2, <2>6, <3>2, <4>1 DEF ensureServerPub
    <3> QED BY <2>6, <3>1, <3>2, Zenon DEF ensureServerPub
  <2>7. CASE fetchServerPub(c)
    BY <1>0, <2>4, <2>7, Moves DEF fetchServerPub
  <2>8. CASE roundTrip(c)
    BY <1>0, <2>2, <2>8, Moves DEF roundTrip, client
  <2>9. CASE loadOnce(c) \/ saveOnce(c) \/ plainReply(c)
    BY <1>0, <2>2, <2>9, Moves DEF loadOnce, saveOnce, plainReply, client
  <2>10. CASE Timeout(c)
    BY <1>0, <2>2, <2>4, <2>10, Moves DEF Timeout
  <2>11. CASE invalidateServerPub(c)
    BY <1>0, <2>2, <2>11, Moves DEF invalidateServerPub
  <2>12. CASE Handle(c)
    BY <2>3, <2>12 DEF Handle, handleSysXKey, handleLoad, handleSave, handleDelete, handleList,
                       handleFails, client
  <2> QED BY <1>1, <2>5, <2>6, <2>7, <2>8, <2>9, <2>10, <2>11, <2>12 DEF Method
<1>2. CASE Close
  BY <1>0, <1>2 DEF Close, Locked, locals
<1>3. CASE handleLate \/ Rotate \/ UNCHANGED vars
  BY <1>0, <1>3 DEF handleLate, Rotate, Locked, vars, client, locals
<1> QED BY <1>1, <1>2, <1>3 DEF Next

\* The cache changes by a fetch, by dropping a key that failed and by Close.
LEMMA NextCacheOrder == IInv /\ [Next]_vars => CacheOrder'
<1> SUFFICES ASSUME IInv, [Next]_vars PROVE CacheOrder'
  OBVIOUS
<1>0. TypeOK /\ Locked /\ CacheOrder /\ \A c \in Callers : CallerOrder(c)
  BY DEF IInv
<1>1. /\ cached \in Nat /\ serverPub \in Nat /\ serverKey \in Nat
      /\ \A c \in Callers : key[c] \in Nat /\ reply[c].key \in Nat
  BY <1>0 DEF TypeOK, Keys
<1>2. ASSUME NEW c \in Callers, fetchServerPub(c) PROVE CacheOrder'
  BY <1>0, <1>1, <1>2 DEF fetchServerPub, CacheOrder, CallerOrder, server
<1>3. ASSUME NEW c \in Callers, invalidateServerPub(c) PROVE CacheOrder'
  BY <1>0, <1>1, <1>3 DEF invalidateServerPub, CacheOrder, CallerOrder, server
<1>4. CASE Close
  BY <1>0, <1>1, <1>4 DEF Close, CacheOrder, server
<1>5. CASE Rotate
  BY <1>0, <1>1, <1>5 DEF Rotate, CacheOrder, client
<1>6. CASE UNCHANGED <<serverPub, closed, cached, serverKey>>
  BY <1>0, <1>6 DEF CacheOrder
<1>7. ASSUME NEW c \in Callers, Call(c) \/ Method(c) \/ Handle(c),
             ~fetchServerPub(c), ~invalidateServerPub(c)
      PROVE  UNCHANGED <<serverPub, closed, cached, serverKey>>
  <2>1. CASE Call(c) \/ ensureServerPub(c) \/ roundTrip(c) \/ Timeout(c)
    BY <2>1, Zenon DEF Call, ensureServerPub, roundTrip, Timeout, client, server
  <2>2. CASE loadOnce(c) \/ saveOnce(c) \/ plainReply(c)
    BY <2>2, Zenon DEF loadOnce, saveOnce, plainReply, client, server
  <2>3. CASE Handle(c)
    BY <2>3, Zenon DEF Handle, handleSysXKey, handleLoad, handleSave, handleDelete, handleList,
                       handleFails, client, server
  <2> QED BY <1>7, <2>1, <2>2, <2>3, Zenon DEF Method
<1>8. CASE handleLate \/ UNCHANGED vars
  BY <1>6, <1>8 DEF handleLate, vars, client, server
<1> QED BY <1>2, <1>3, <1>4, <1>5, <1>6, <1>7, <1>8 DEF Next

-----------------------------------------------------------------------------
\* What every step does to the cached keys, seen from a caller d it is not of.
LEMMA NextForward ==
    ASSUME IInv, NEW d \in Callers,
           \/ \E c \in Callers : c # d /\ (Call(c) \/ Method(c) \/ Handle(c))
           \/ handleLate \/ Rotate \/ Close \/ UNCHANGED vars
    PROVE  Forward(d)
<1>0. /\ cached \in Nat /\ serverKey \in Nat /\ serverPub \in Nat
      /\ \A c \in Callers : reply[c].key \in Nat
  BY DEF IInv, TypeOK, Keys
<1>1. ASSUME NEW c \in Callers, c # d, fetchServerPub(c) PROVE Forward(d)
  <2>1. cached < reply[c].key /\ pc[d] # "fetch"
    BY <1>1 DEF IInv, Locked, CallerOrder, fetchServerPub
  <2> QED BY <1>0, <1>1, <2>1 DEF fetchServerPub, Forward, server
<1>2. CASE UNCHANGED <<cached, serverKey>> /\ serverPub' \in {0, serverPub}
  BY <1>0, <1>2 DEF Forward
<1>3. ASSUME NEW c \in Callers, Call(c) \/ Method(c) \/ Handle(c), ~fetchServerPub(c)
      PROVE  UNCHANGED <<cached, serverKey>> /\ serverPub' \in {0, serverPub}
  <2>1. CASE Call(c) \/ ensureServerPub(c) \/ roundTrip(c) \/ Timeout(c)
    BY <2>1 DEF Call, ensureServerPub, roundTrip, Timeout, client, server
  <2>2. CASE loadOnce(c) \/ saveOnce(c) \/ plainReply(c)
    BY <2>2 DEF loadOnce, saveOnce, plainReply, client, server
  <2>3. CASE Handle(c)
    BY <2>3 DEF Handle, handleSysXKey, handleLoad, handleSave, handleDelete, handleList,
                handleFails, client, server
  <2>4. CASE invalidateServerPub(c)
    BY <2>4 DEF invalidateServerPub, server
  <2> QED BY <1>3, <2>1, <2>2, <2>3, <2>4 DEF Method
<1>4. CASE handleLate \/ Close \/ UNCHANGED vars
  BY <1>2, <1>4 DEF handleLate, Close, vars, client, server
<1>5. CASE Rotate
  BY <1>0, <1>5 DEF Rotate, Forward, client
<1> QED BY <1>1, <1>2, <1>3, <1>4, <1>5

\* An answer that refutes the key of the attempt, and what KeyFails does then.
LEMMA KeyFailsOrder ==
    ASSUME TypeOK, TypeOK', NEW c \in Callers, KeyFails(c), UNCHANGED <<client, server>>,
           CallerOrder(c), pc[c] = "wait", first[c] < key[c], key[c] < serverKey
    PROVE  CallerOrder(c)' /\ AttemptOrder(c)'
<1>1. CASE Return(c, "key")
  BY <1>1, ReturnOrder
<1>2. CASE Goto(c, "invalidate") /\ UNCHANGED <<op, key, first, reply, result, applied>>
  <2>1. pc'[c] = "invalidate"
    BY <1>2, Moves
  <2>2. key[c] \in Nat /\ first[c] \in Nat
    BY DEF TypeOK, Keys
  <2> QED BY <1>2, <2>1, <2>2 DEF CallerOrder, AttemptOrder, client, server
<1> QED BY <1>1, <1>2, Zenon DEF KeyFails

\* A caller's own step.
LEMMA ActorOrder ==
    ASSUME IInv, TypeOK', NEW c \in Callers, Call(c) \/ Method(c) \/ Handle(c)
    PROVE  CallerOrder(c)' /\ AttemptOrder(c)'
<1>0. TypeOK /\ Locked /\ CacheOrder /\ CallerOrder(c) /\ AttemptOrder(c)
  BY DEF IInv
<1>1. /\ key[c] \in Nat /\ first[c] \in Nat /\ reply[c].key \in Nat
      /\ cached \in Nat /\ serverKey \in Nat /\ serverPub \in Nat
  BY <1>0 DEF TypeOK, Keys
<1>2. ASSUME NEW r, Return(c, r) PROVE CallerOrder(c)' /\ AttemptOrder(c)'
  BY <1>0, <1>2, ReturnOrder
<1>3. CASE Call(c)
  <2>1. ASSUME NEW o \in Ops, op' = [op EXCEPT ![c] = o],
               Goto(c, IF o \in Sealing THEN "ensure" ELSE "request"),
               result' = [result EXCEPT ![c] = "none"], UNCHANGED <<key, first, reply, applied>>
        PROVE  CallerOrder(c)' /\ AttemptOrder(c)'
    <3>1. /\ pc'[c] = IF o \in Sealing THEN "ensure" ELSE "request"
          /\ op'[c] = o /\ result'[c] = "none" /\ pc[c] = "idle"
      BY <1>0, <1>3, <2>1, Moves DEF TypeOK, Call
    <3> QED BY <1>0, <1>1, <1>3, <2>1, <3>1 DEF Call, CallerOrder, AttemptOrder, client
  <2> QED BY <1>2, <1>3, <2>1, Zenon DEF Call
<1>4. CASE ensureServerPub(c)
  <2>1. CASE serverPub # 0 /\ Use(c, serverPub)
    <3>1. first[c] < serverPub /\ serverPub <= cached
      BY <1>0, <1>1, <1>4, <2>1 DEF ensureServerPub, CallerOrder, CacheOrder
    <3> QED BY <1>0, <1>1, <1>4, <2>1, <3>1, UseOrder DEF ensureServerPub
  <2>2. CASE Goto(c, "fetch") /\ UNCHANGED <<op, key, first, reply, result, applied>>
    <3>1. pc'[c] = "fetch" /\ reply[c] = NoReply
      BY <1>0, <1>4, <2>2, Moves DEF ensureServerPub, CallerOrder
    <3> QED BY <1>0, <1>1, <1>4, <2>2, <3>1
            DEF ensureServerPub, CallerOrder, AttemptOrder, NoReply
  <2> QED BY <1>2, <1>4, <2>1, <2>2, Zenon DEF ensureServerPub
<1>5. CASE fetchServerPub(c)
  <2>1. /\ first[c] < reply[c].key /\ cached < reply[c].key /\ cached' = reply[c].key
        /\ Use(c, reply[c].key) /\ pc[c] # "idle"
    BY <1>0, <1>1, <1>5 DEF fetchServerPub, CallerOrder
  <2> QED BY <1>0, <1>1, <2>1, UseOrder
<1>6. CASE roundTrip(c)
  <2>1. CASE Goto(c, "wait") /\ UNCHANGED <<op, key, first, reply, result, applied>>
    <3>1. pc'[c] = "wait" /\ reply[c] = NoReply
      BY <1>0, <1>6, <2>1, Moves DEF roundTrip, CallerOrder
    <3> QED BY <1>0, <1>1, <1>6, <2>1, <3>1
            DEF roundTrip, CallerOrder, AttemptOrder, NoReply, client, server
  <2> QED BY <1>2, <1>6, <2>1, Zenon DEF roundTrip
<1>7. CASE loadOnce(c)
  <2>1. CASE /\ reply[c].code \in {"sealed", "stale_key"}
             /\ reply[c].code = "sealed" => reply[c].key # key[c]
             /\ KeyFails(c)
    <3>1. pc[c] = "wait" /\ first[c] < key[c] /\ key[c] < serverKey
      BY <1>0, <1>1, <1>7, <2>1 DEF loadOnce, AttemptOrder, Sealing
    <3> QED BY <1>0, <1>7, <2>1, <3>1, KeyFailsOrder DEF loadOnce
  <2> QED BY <1>2, <1>7, <2>1, Zenon DEF loadOnce
<1>8. CASE saveOnce(c)
  <2>1. CASE reply[c].code = "stale_key" /\ KeyFails(c)
    <3>1. pc[c] = "wait" /\ first[c] < key[c] /\ key[c] < serverKey
      BY <1>0, <1>1, <1>8, <2>1 DEF saveOnce, AttemptOrder, Sealing
    <3> QED BY <1>0, <1>8, <2>1, <3>1, KeyFailsOrder DEF saveOnce
  <2> QED BY <1>2, <1>8, <2>1, Zenon DEF saveOnce
<1>9. CASE plainReply(c) \/ Timeout(c)
  BY <1>2, <1>9, Zenon DEF plainReply, Timeout
<1>10. CASE invalidateServerPub(c)
  <2>1. pc'[c] = "ensure" /\ reply'[c] = NoReply /\ first'[c] = key[c]
    BY <1>0, <1>10, Moves DEF invalidateServerPub, TypeOK
  <2>2. serverPub' # 0 => key[c] < serverPub'
    BY <1>0, <1>1, <1>10 DEF invalidateServerPub, CallerOrder, CacheOrder
  <2> QED BY <1>0, <1>1, <1>10, <2>1, <2>2 DEF invalidateServerPub, CallerOrder, AttemptOrder
<1>11. CASE handleSysXKey(c)
  <2>1. reply'[c] = Answer("xkey", serverKey) /\ cached < serverKey
    BY <1>0, <1>1, <1>11, CallersAssumption DEF handleSysXKey, TypeOK, Locked, CacheOrder
  <2> QED BY <1>0, <1>1, <1>11, <2>1
          DEF handleSysXKey, CallerOrder, AttemptOrder, Answer, client, server
<1>12. CASE handleLoad(c)
  <2>1. /\ reply'[c] \in {Answer("sealed", serverKey), Answer("not_found", 0)}
        /\ key[c] <= serverKey
    BY <1>0, <1>1, <1>12 DEF handleLoad, TypeOK, CallerOrder, CacheOrder
  <2> QED BY <1>0, <1>1, <1>12, <2>1
          DEF handleLoad, CallerOrder, AttemptOrder, Answer, client, server
<1>13. CASE handleSave(c)
  <2>1. \/ reply'[c] = Answer("ok", 0) /\ applied'[c] = TRUE
        \/ reply'[c] = Answer("stale_key", 0) /\ key[c] # serverKey /\ applied' = applied
    BY <1>0, <1>13 DEF handleSave, Opens, TypeOK
  <2>2. key[c] <= serverKey
    BY <1>0, <1>1 DEF CallerOrder, CacheOrder
  <2>3. CallerOrder(c)'
    BY <1>0, <1>1, <1>13 DEF handleSave, CallerOrder, client
  <2>4. AttemptOrder(c)'
    BY <1>0, <1>1, <1>13, <2>1, <2>2 DEF handleSave, AttemptOrder, Answer
  <2> QED BY <2>3, <2>4
<1>14. CASE handleDelete(c) \/ handleList(c) \/ handleFails(c)
  <2>1. /\ reply'[c] = Answer("internal", 0) \/ (reply'[c] = Answer("ok", 0) /\ op[c] # "Save")
        /\ UNCHANGED <<client, pc, op, key, first, result, applied, serverKey>> /\ pc[c] = "wait"
    BY <1>0, <1>14 DEF handleDelete, handleList, handleFails, TypeOK, server
  <2> QED BY <1>0, <1>1, <2>1 DEF CallerOrder, AttemptOrder, Answer, client
<1> QED
  BY <1>3, <1>4, <1>5, <1>6, <1>7, <1>8, <1>9, <1>10, <1>11, <1>12, <1>13, <1>14
  DEF Method, Handle

-----------------------------------------------------------------------------
LEMMA NextCallers ==
    ASSUME IInv, TypeOK', [Next]_vars, NEW d \in Callers
    PROVE  CallerOrder(d)' /\ AttemptOrder(d)'
<1>0. TypeOK /\ CallerOrder(d) /\ AttemptOrder(d)
  BY DEF IInv
<1>1. CASE Call(d) \/ Method(d) \/ Handle(d)
  BY <1>1, ActorOrder
<1>2. ASSUME NEW c \in Callers, c # d, Call(c) \/ Method(c) \/ Handle(c)
      PROVE  CallerOrder(d)' /\ AttemptOrder(d)'
  BY <1>0, <1>2, OthersKept, NextForward, Bystander
<1>3. CASE handleLate \/ Rotate \/ Close \/ UNCHANGED vars
  <2>1. Kept(d)
    BY <1>3 DEF handleLate, Rotate, Close, vars, locals, Kept
  <2> QED BY <1>0, <1>3, <2>1, NextForward, Bystander
<1> QED BY <1>1, <1>2, <1>3 DEF Next

LEMMA NextIInv == IInv /\ [Next]_vars => IInv'
<1> SUFFICES ASSUME IInv, [Next]_vars PROVE IInv'
  OBVIOUS
<1>1. TypeOK'
  BY NextTypeOK DEF IInv
<1>2. Locked' /\ CacheOrder'
  BY NextLocked, NextCacheOrder
<1>3. \A d \in Callers : CallerOrder(d)' /\ AttemptOrder(d)'
  BY <1>1, NextCallers
<1> QED BY <1>1, <1>2, <1>3 DEF IInv

LEMMA Invariance == Spec => []IInv
BY InitIInv, NextIInv, PTL DEF Spec

LEMMA NextClosed == IInv /\ ClosedKeepsNoKey /\ [Next]_vars => ClosedKeepsNoKey'
<1> SUFFICES ASSUME IInv, ClosedKeepsNoKey, [Next]_vars PROVE ClosedKeepsNoKey'
  OBVIOUS
<1>1. ASSUME NEW c \in Callers, fetchServerPub(c) PROVE ClosedKeepsNoKey'
  <2>1. ~closed
    BY <1>1, CallersAssumption DEF fetchServerPub, IInv, Locked
  <2> QED BY <1>1, <2>1 DEF fetchServerPub, ClosedKeepsNoKey
<1>2. ASSUME NEW c \in Callers, Call(c) \/ Method(c) \/ Handle(c), ~fetchServerPub(c)
      PROVE  UNCHANGED closed /\ serverPub' \in {0, serverPub}
  <2>1. CASE Call(c) \/ ensureServerPub(c) \/ roundTrip(c) \/ Timeout(c)
    BY <2>1 DEF Call, ensureServerPub, roundTrip, Timeout, client
  <2>2. CASE loadOnce(c) \/ saveOnce(c) \/ plainReply(c)
    BY <2>2 DEF loadOnce, saveOnce, plainReply, client
  <2>3. CASE Handle(c)
    BY <2>3 DEF Handle, handleSysXKey, handleLoad, handleSave, handleDelete, handleList,
                handleFails, client
  <2>4. CASE invalidateServerPub(c)
    BY <2>4 DEF invalidateServerPub
  <2> QED BY <1>2, <2>1, <2>2, <2>3, <2>4 DEF Method
<1>3. CASE Close
  BY <1>3 DEF Close, ClosedKeepsNoKey
<1>4. CASE handleLate \/ Rotate \/ UNCHANGED vars
  BY <1>4 DEF handleLate, Rotate, vars, client, ClosedKeepsNoKey
<1> QED BY <1>1, <1>2, <1>3, <1>4 DEF Next, ClosedKeepsNoKey

\* Close leaves no key behind, however many goroutines are fetching one.
THEOREM NoKeyAfterClose == Spec => []ClosedKeepsNoKey
<1>1. Init => ClosedKeepsNoKey
  BY DEF Init, ClosedKeepsNoKey
<1> QED BY <1>1, NextClosed, Invariance, PTL DEF Spec

\* A key is fetched only after the server has replaced the one cached before.
THEOREM FetchesCoalesce == Spec => FetchesOnlyNewKeys
<1>1. ASSUME IInv, [Next]_vars, serverPub = 0, serverPub' # 0 PROVE cached < serverPub'
  <2>1. PICK c \in Callers : fetchServerPub(c)
    <3>1. ASSUME NEW c \in Callers, Call(c) \/ Method(c) \/ Handle(c), ~fetchServerPub(c)
          PROVE  FALSE
      <4>1. CASE Call(c) \/ ensureServerPub(c) \/ roundTrip(c) \/ Timeout(c)
        BY <1>1, <4>1 DEF Call, ensureServerPub, roundTrip, Timeout, client
      <4>2. CASE loadOnce(c) \/ saveOnce(c) \/ plainReply(c)
        BY <1>1, <4>2 DEF loadOnce, saveOnce, plainReply, client
      <4>3. CASE Handle(c)
        BY <1>1, <4>3 DEF Handle, handleSysXKey, handleLoad, handleSave, handleDelete,
                          handleList, handleFails, client
      <4>4. CASE invalidateServerPub(c)
        BY <1>1, <4>4 DEF invalidateServerPub
      <4> QED BY <3>1, <4>1, <4>2, <4>3, <4>4 DEF Method
    <3>2. ~(handleLate \/ Rotate \/ Close \/ UNCHANGED vars)
      BY <1>1 DEF handleLate, Rotate, Close, vars, client
    <3> QED BY <1>1, <3>1, <3>2 DEF Next
  <2> QED BY <1>1, <2>1 DEF fetchServerPub, IInv, CallerOrder
<1>2. IInv /\ [Next]_vars => [serverPub = 0 /\ serverPub' # 0 => cached < serverPub']_vars
  BY <1>1
<1> QED BY <1>2, Invariance, PTL DEF Spec, FetchesOnlyNewKeys

\* A call that is under way gets its result in a step of its own.
LEMMA OwnResult ==
    ASSUME IInv, [Next]_vars, NEW d \in Callers, pc[d] # "idle", result'[d] # "none"
    PROVE  Method(d)
<1>0. TypeOK /\ result[d] = "none"
  BY DEF IInv, CallerOrder
<1>1. ASSUME NEW c \in Callers, c # d, Call(c) \/ Method(c) \/ Handle(c) PROVE FALSE
  BY <1>0, <1>1, OthersKept DEF Kept
<1>2. ~(handleLate \/ Rotate \/ Close \/ UNCHANGED vars)
  BY <1>0 DEF handleLate, Rotate, Close, vars, locals
<1>3. ~Call(d)
  BY DEF Call
<1>4. ~Handle(d)
  BY <1>0 DEF Handle, handleSysXKey, handleLoad, handleSave, handleDelete, handleList, handleFails
<1> QED BY <1>1, <1>2, <1>3, <1>4 DEF Next

LEMMA KeyErrorStep ==
    ASSUME IInv, [Next]_vars, NEW c \in Callers, pc[c] # "idle", result'[c] = "key"
    PROVE  0 < first[c] /\ first[c] < key[c] /\ key[c] < serverKey
<1>0. TypeOK /\ TypeOK' /\ CacheOrder /\ CallerOrder(c) /\ AttemptOrder(c)
  BY NextTypeOK DEF IInv
<1>1. /\ key[c] \in Nat /\ first[c] \in Nat /\ reply[c].key \in Nat
      /\ cached \in Nat /\ serverKey \in Nat /\ serverPub \in Nat
  BY <1>0 DEF TypeOK, Keys
<1>2. Method(c)
  BY OwnResult
<1>3. ASSUME NEW step, Goto(c, step), UNCHANGED <<op, key, first, reply, result, applied>> PROVE FALSE
  BY <1>0, <1>3 DEF CallerOrder
<1>4. ASSUME NEW r, r # "key", Return(c, r) PROVE FALSE
  BY <1>0, <1>4, Moves
<1>5. ASSUME KeyFails(c) PROVE first[c] # 0
  BY <1>3, <1>5, Zenon DEF KeyFails
<1>6. CASE ensureServerPub(c)
  <2>1. CASE serverPub # 0 /\ Use(c, serverPub)
    <3>1. first[c] < serverPub /\ serverPub <= cached
      BY <1>0, <1>1, <1>6, <2>1 DEF ensureServerPub, CallerOrder, CacheOrder
    <3>2. result'[c] = "none"
      BY <1>0, <1>1, <1>6, <2>1, <3>1, UseOrder DEF ensureServerPub
    <3> QED BY <3>2
  <2> QED BY <1>3, <1>4, <1>6, <2>1, Zenon DEF ensureServerPub
<1>7. CASE fetchServerPub(c)
  <2>1. /\ first[c] < reply[c].key /\ cached < reply[c].key /\ cached' = reply[c].key
        /\ Use(c, reply[c].key) /\ pc[c] # "idle"
    BY <1>0, <1>1, <1>7 DEF fetchServerPub, CallerOrder
  <2>2. result'[c] = "none"
    BY <1>0, <1>1, <2>1, UseOrder
  <2> QED BY <2>2
<1>8. CASE roundTrip(c) \/ Timeout(c)
  BY <1>3, <1>4, <1>8, Zenon DEF roundTrip, Timeout
<1>9. CASE loadOnce(c)
  <2>1. /\ reply[c].code \in {"sealed", "stale_key"}
        /\ reply[c].code = "sealed" => reply[c].key # key[c]
        /\ KeyFails(c)
    BY <1>4, <1>9, Zenon DEF loadOnce
  <2> QED BY <1>0, <1>1, <1>5, <1>9, <2>1 DEF loadOnce, AttemptOrder, Sealing
<1>10. CASE saveOnce(c)
  <2>1. reply[c].code = "stale_key" /\ KeyFails(c)
    BY <1>4, <1>10, Zenon DEF saveOnce, SentinelFromError
  <2> QED BY <1>0, <1>1, <1>5, <1>10, <2>1 DEF saveOnce, AttemptOrder, Sealing
<1>11. CASE plainReply(c)
  BY <1>4, <1>11, Zenon DEF plainReply, SentinelFromError
<1>12. CASE invalidateServerPub(c)
  BY <1>0, <1>12 DEF invalidateServerPub, CallerOrder
<1> QED BY <1>2, <1>6, <1>7, <1>8, <1>9, <1>10, <1>11, <1>12 DEF Method

(* Load and Save fail for their key only if the server replaced the key of  *)
(* the first attempt and then the one the retry fetched.                   *)
THEOREM RotationHidden == Spec => KeyErrorNeedsTwoRotations
<1>1. IInv /\ [Next]_vars =>
        [\A c \in Callers :
            pc[c] # "idle" /\ result'[c] = "key" =>
                /\ 0 < first[c] /\ first[c] < key[c]
                /\ key[c] < serverKey]_vars
  BY KeyErrorStep
<1> QED BY <1>1, Invariance, PTL DEF Spec, KeyErrorNeedsTwoRotations

LEMMA SaveStep ==
    ASSUME IInv, [Next]_vars, NEW c \in Callers, op[c] = "Save", pc[c] # "idle", result'[c] = "ok"
    PROVE  applied[c]
<1>0. TypeOK /\ CallerOrder(c) /\ AttemptOrder(c)
  BY DEF IInv
<1>1. Method(c)
  BY OwnResult
<1>2. ASSUME NEW step, Goto(c, step), UNCHANGED <<op, key, first, reply, result, applied>> PROVE FALSE
  BY <1>0, <1>2 DEF CallerOrder
<1>3. ASSUME NEW r, r # "ok", Return(c, r) PROVE FALSE
  BY <1>0, <1>3, Moves
<1>4. ASSUME NEW k, Use(c, k) PROVE FALSE
  BY <1>0, <1>3, <1>4 DEF Use, CallerOrder
<1>5. ~KeyFails(c)
  BY <1>2, <1>3, Zenon DEF KeyFails
<1>6. CASE ensureServerPub(c) \/ fetchServerPub(c) \/ roundTrip(c) \/ Timeout(c)
  BY <1>2, <1>3, <1>4, <1>6, Zenon DEF ensureServerPub, fetchServerPub, roundTrip, Timeout
<1>7. CASE saveOnce(c)
  <2>1. pc[c] = "wait" /\ Return(c, SentinelFromError(reply[c].code))
    BY <1>5, <1>7, Zenon DEF saveOnce
  <2>2. reply[c].code = "ok"
    BY <1>3, <2>1, Zenon DEF SentinelFromError
  <2> QED BY <1>0, <2>1, <2>2 DEF AttemptOrder
<1>8. ~loadOnce(c) /\ ~plainReply(c)
  BY DEF loadOnce, plainReply, Sealing
<1>9. CASE invalidateServerPub(c)
  BY <1>0, <1>9 DEF invalidateServerPub, CallerOrder
<1> QED BY <1>1, <1>6, <1>7, <1>8, <1>9 DEF Method

\* A Save that returns no error was stored during that call.
THEOREM SaveStored == Spec => SaveSuccessIsStored
<1>1. IInv /\ [Next]_vars =>
        [\A c \in Callers :
            op[c] = "Save" /\ pc[c] # "idle" /\ result'[c] = "ok" => applied[c]]_vars
  BY SaveStep
<1> QED BY <1>1, Invariance, PTL DEF Spec, SaveSuccessIsStored
=============================================================================
