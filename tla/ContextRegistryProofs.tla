----------------------- MODULE ContextRegistryProofs -----------------------
(***************************************************************************)
(* Proofs about the registry of contexts, for any number of callers and    *)
(* contexts: the selector's mutex keeps what a swap has read true until    *)
(* the swap is done, so the two files on disk keep the selector's promise; *)
(* and a deleted context stays selected only where that is explained.  The *)
(* last part is about the settings of one context: what is saved means     *)
(* what was loaded, whatever payload, options and machine.                 *)
(***************************************************************************)
EXTENDS ContextRegistry, ContextSettings, TLAPS

\* Who is between the two writes of SetSelected holds the mutex, and what it
\* has read is still the selection, or there is one that it could not read.
Swapping ==
    \A c \in Caller :
        call[c].step \in {"record", "replace"} =>
            /\ backend # "memory"
            /\ holder = c
            /\ call[c].unread => call[c].step = "replace" /\ call[c].was = NoName /\ selected # NoName
            /\ ~call[c].unread =>
                  /\ call[c].was = selected
                  /\ call[c].step = "record" => selected # NoName
                  /\ call[c].step = "replace" /\ selected # NoName => previous = selected

\* Only a call with a name is saved.
Named == \A c \in Caller : call[c].step = "save" => call[c].name \in Name

SwapInv == TypeOK /\ Named /\ Swapping

LEMMA IdleType == Idle \in CallRecord
BY DEF Idle, CallRecord, Ops, Names, Steps, Results

LEMMA ReturnType ==
    ASSUME NEW r \in Results PROVE [Idle EXCEPT !.result = r] \in CallRecord
BY IdleType DEF CallRecord

LEMMA StartType ==
    ASSUME NEW op \in Ops, NEW n \in Names, NEW s \in Steps
    PROVE  [Idle EXCEPT !.op = op, !.name = n, !.step = s] \in CallRecord
BY IdleType DEF CallRecord

\* A call goes on with another step, name, flag or value read.
LEMMA GotoType ==
    ASSUME NEW r \in CallRecord, NEW s \in Steps, NEW n \in Names
    PROVE  /\ [r EXCEPT !.step = s] \in CallRecord
           /\ [r EXCEPT !.step = s, !.name = n] \in CallRecord
           /\ [r EXCEPT !.step = s, !.active = TRUE] \in CallRecord
           /\ \A u \in BOOLEAN : /\ [r EXCEPT !.step = s, !.unread = u] \in CallRecord
                                 /\ [r EXCEPT !.was = n, !.unread = u, !.step = s] \in CallRecord
           /\ r.was \in Names /\ r.name \in Names
BY DEF CallRecord

\* A read answers with the selection or with nothing.
LEMMA ReadTypes == TypeOK => readSelection \subseteq {selected, NoName} /\ {selected, NoName} \subseteq Names
BY DEF TypeOK, readSelection, Names

\* A caller that has read the selection records it or goes on to replace it.
LEMMA ReadsMove ==
    ASSUME TypeOK, NEW c \in Caller, Reads(c)
    PROVE  \E n \in Names, u \in BOOLEAN, s \in {"record", "replace"} :
               call' = [call EXCEPT ![c] = [call[c] EXCEPT !.was = n, !.unread = u, !.step = s]]
<1>1. PICK n \in Names :
          call' = [call EXCEPT ![c].was = n, ![c].unread = (n # selected),
                               ![c].step = IF n = NoName THEN "replace" ELSE "record"]
  BY ReadTypes DEF Reads
<1>2. PICK u \in BOOLEAN : u = (n # selected)
  OBVIOUS
<1>3. PICK s \in {"record", "replace"} : s = IF n = NoName THEN "replace" ELSE "record"
  OBVIOUS
<1>4. call' = [call EXCEPT ![c] = [call[c] EXCEPT !.was = n, !.unread = u, !.step = s]]
  BY <1>1, <1>2, <1>3 DEF TypeOK
<1> QED BY <1>4

LEMMA InitSwapInv == Init => SwapInv
<1> SUFFICES ASSUME Init PROVE SwapInv
  OBVIOUS
<1>1. call \in [Caller -> CallRecord]
  BY IdleType DEF Init
<1>2. Named /\ Swapping
  BY DEF Init, Named, Swapping, Idle
<1> QED BY <1>1, <1>2, ConstantAssumption DEF Init, SwapInv, TypeOK, Names, Kinds

\* Type correctness is kept by every step.
LEMMA TypeStep ==
    ASSUME SwapInv, [Next]_vars
    PROVE  TypeOK'
<1> USE DEF SwapInv, TypeOK, store, noted
<1>1. CASE UNCHANGED vars
  BY <1>1 DEF vars
<1>2. CASE Crash
  BY <1>2, IdleType DEF Crash
<1>3. ASSUME NEW c \in Caller, NEW op \in Ops, NEW n \in Names, NEW s \in Steps,
             Start(c, op, n, s)
      PROVE  TypeOK'
  BY <1>3, StartType DEF Start
<1>4. ASSUME NEW c \in Caller, Begin(c) PROVE TypeOK'
  <2>1. NoName \in Names /\ Name \subseteq Names
    BY DEF Names
  <2>2. {"none", "load", "save", "delete", "select", "unselect"} \subseteq Ops
    BY DEF Ops
  <2>3. {"selected", "load", "save", "set"} \subseteq Steps /\ "readonly" \in Results
    BY DEF Steps, Results
  <2>4. CASE Return(c, "readonly") /\ UNCHANGED <<store, stored, selected, previous, holder, noted>>
    BY <2>3, <2>4, ReturnType DEF Return
  <2> QED BY <1>3, <1>4, <2>1, <2>2, <2>3, <2>4 DEF Begin, Load, Save, Delete, Select, Unselect
<1>5. ASSUME NEW c \in Caller, Advance(c) PROVE TypeOK'
  <2>1. /\ {"load", "list", "delete", "set", "record", "replace"} \subseteq Steps
        /\ {"ok", "default", "notfound", "active", "invalid", "error"} \subseteq Results
        /\ NoName \in Names /\ Name \subseteq Names
    BY DEF Steps, Results, Names
  <2>2. call[c] \in CallRecord
    OBVIOUS
  <2>3. CASE Selected(c)
    <3>1. call' \in [Caller -> CallRecord]
      <4>1. ASSUME NEW n \in Names, call' = [call EXCEPT ![c].step = "load", ![c].name = n]
            PROVE  call' \in [Caller -> CallRecord]
        <5>1. call' = [call EXCEPT ![c] = [call[c] EXCEPT !.step = "load", !.name = n]]
          BY <4>1
        <5> QED BY <2>1, <2>2, <5>1, GotoType
      <4>2. CASE call' = [call EXCEPT ![c].step = "list", ![c].active = TRUE]
        BY <2>1, <2>2, <4>2, GotoType
      <4>3. CASE Return(c, "default")
        BY <2>1, <2>2, <4>3, ReturnType DEF Return
      <4>4. ASSUME NEW n \in Names,
                   call' = [call EXCEPT ![c].step = "delete", ![c].unread = (n # selected)]
            PROVE  call' \in [Caller -> CallRecord]
        <5>1. PICK u \in BOOLEAN : call' = [call EXCEPT ![c] = [call[c] EXCEPT !.step = "delete", !.unread = u]]
          BY <4>4
        <5> QED BY <2>1, <2>2, <5>1, GotoType
      <4> QED BY <2>3, <4>1, <4>2, <4>3, <4>4, ReadTypes DEF Selected
    <3> QED BY <2>3, <3>1 DEF Selected
  <2>4. CASE BackendLoad(c)
    BY <2>1, <2>2, <2>4, GotoType, ReturnType DEF BackendLoad, Return, Goto
  <2>5. CASE BackendSave(c)
    <3>1. call[c].step = "save" /\ call' \in [Caller -> CallRecord]
      BY <2>1, <2>5, ReturnType DEF BackendSave, Return
    <3>2. stored' \subseteq Name
      BY <2>5, <3>1 DEF BackendSave, FileSave, SingleSave, MemorySave, Named
    <3> QED BY <2>5, <3>1, <3>2 DEF BackendSave
  <2>6. CASE BackendList(c)
    BY <2>1, <2>2, <2>6, GotoType, ReturnType DEF BackendList, Return, Goto
  <2>7. CASE BackendDelete(c)
    BY <2>1, <2>2, <2>7, GotoType, ReturnType
       DEF BackendDelete, FileDelete, SingleDelete, MemoryDelete, Return, Goto
  <2>8. Target(c) \in Names
    BY <2>1, <2>2, GotoType DEF Target
  <2>9. CASE MemorySetSelected(c)
    BY <2>1, <2>8, <2>9, ReturnType DEF MemorySetSelected, Return
  <2>10. CASE Lock(c)
    <3>1. PICK n \in Names, u \in BOOLEAN, s \in {"record", "replace"} :
              call' = [call EXCEPT ![c] = [call[c] EXCEPT !.was = n, !.unread = u, !.step = s]]
      BY <2>10, ReadsMove DEF Lock
    <3> QED BY <2>1, <2>2, <2>10, <3>1, GotoType DEF Lock
  <2>11. CASE Record(c)
    BY <2>1, <2>2, <2>11, GotoType DEF Record, Goto
  <2>12. CASE Replace(c)
    BY <2>1, <2>8, <2>12, ReturnType DEF Replace, Return
  <2>13. CASE SetSelectedFails(c)
    BY <2>1, <2>13, ReturnType DEF SetSelectedFails, Return
  <2> QED BY <1>5, <2>3, <2>4, <2>5, <2>6, <2>7, <2>9, <2>10, <2>11, <2>12, <2>13 DEF Advance
<1> QED BY <1>1, <1>2, <1>4, <1>5 DEF Next

LEMMA NamedStep ==
    ASSUME SwapInv, [Next]_vars
    PROVE  Named'
<1> USE DEF SwapInv, Named
<1>1. CASE UNCHANGED vars
  BY <1>1 DEF vars
<1>2. CASE Crash
  BY <1>2 DEF Crash, Idle
<1>3. ASSUME NEW c \in Caller, Begin(c) PROVE Named'
  <2>1. ASSUME NEW op, NEW n, NEW s, s = "save" => n \in Name, Start(c, op, n, s) PROVE Named'
    BY <2>1 DEF Start, Idle, TypeOK, CallRecord
  <2>2. CASE Return(c, "readonly")
    BY <2>2 DEF Return, Idle, TypeOK
  <2> QED BY <1>3, <2>1, <2>2 DEF Begin, Load, Save, Delete, Select, Unselect
<1>4. ASSUME NEW c \in Caller, Advance(c) PROVE Named'
  <2>1. ASSUME NEW r, Return(c, r) PROVE Named'
    BY <2>1 DEF Return, Idle, TypeOK
  <2>2. ASSUME NEW s, s # "save", Goto(c, s) PROVE Named'
    BY <2>2 DEF Goto, TypeOK, CallRecord
  <2>3. CASE Selected(c)
    <3>1. ASSUME NEW n, call' = [call EXCEPT ![c].step = "load", ![c].name = n] PROVE Named'
      BY <3>1 DEF TypeOK, CallRecord
    <3>2. CASE call' = [call EXCEPT ![c].step = "list", ![c].active = TRUE]
      BY <3>2 DEF TypeOK, CallRecord
    <3>3. ASSUME NEW u, call' = [call EXCEPT ![c].step = "delete", ![c].unread = u] PROVE Named'
      BY <3>3 DEF TypeOK, CallRecord
    <3> QED BY <2>1, <2>3, <3>1, <3>2, <3>3 DEF Selected
  <2>4. CASE Lock(c)
    BY <2>4 DEF Lock, Reads, TypeOK, CallRecord
  <2> QED BY <1>4, <2>1, <2>2, <2>3, <2>4
         DEF Advance, BackendLoad, BackendSave, BackendList, BackendDelete,
             MemorySetSelected, Record, Replace, SetSelectedFails
<1> QED BY <1>1, <1>2, <1>3, <1>4 DEF Next

\* What a step leaves of the calls: only c has moved, and c is outside the mutex.
Outside(c) ==
    /\ call'[c].step \notin {"record", "replace"}
    /\ \A d \in Caller \ {c} : call'[d] = call[d]

LEMMA GotoOutside ==
    ASSUME TypeOK, NEW c \in Caller, NEW s, s \notin {"record", "replace"}, Goto(c, s)
    PROVE  Outside(c)
BY DEF Goto, Outside, TypeOK, CallRecord

LEMMA ReturnOutside ==
    ASSUME TypeOK, NEW c \in Caller, NEW r, Return(c, r)
    PROVE  Outside(c)
BY DEF Return, Outside, TypeOK, Idle

LEMMA SelectedOutside ==
    ASSUME TypeOK, NEW c \in Caller, Selected(c)
    PROVE  Outside(c)
<1>1. ASSUME NEW n, call' = [call EXCEPT ![c].step = "load", ![c].name = n] PROVE Outside(c)
  BY <1>1 DEF Outside, TypeOK, CallRecord
<1>2. CASE call' = [call EXCEPT ![c].step = "list", ![c].active = TRUE]
  BY <1>2 DEF Outside, TypeOK, CallRecord
<1>3. ASSUME NEW u, call' = [call EXCEPT ![c].step = "delete", ![c].unread = u] PROVE Outside(c)
  BY <1>3 DEF Outside, TypeOK, CallRecord
<1> QED BY <1>1, <1>2, <1>3, ReturnOutside DEF Selected

\* A step outside the mutex leaves the swap of another caller alone.
LEMMA OutsideKeepsSwapping ==
    ASSUME SwapInv, NEW c \in Caller, Outside(c), UNCHANGED <<backend, selected, previous, holder>>
    PROVE  Swapping'
BY DEF SwapInv, Outside, Swapping

\* The mutex protects a swap from every other step.
LEMMA SwappingStep ==
    ASSUME SwapInv, [Next]_vars
    PROVE  Swapping'
<1> USE DEF SwapInv, store, noted
<1>1. CASE UNCHANGED vars
  BY <1>1 DEF vars, Swapping
<1>2. CASE Crash
  BY <1>2 DEF Crash, Idle, Swapping
<1>3. ASSUME NEW c \in Caller, NEW op, NEW n, NEW s, s \notin {"record", "replace"},
             Start(c, op, n, s)
      PROVE  Swapping'
  BY <1>3 DEF Start, Idle, TypeOK, Swapping
<1>4. ASSUME NEW c \in Caller, Begin(c) PROVE Swapping'
  <2>1. CASE ~tracked /\ Return(c, "readonly") /\ UNCHANGED <<backend, selected, previous, holder>>
    BY <2>1 DEF Return, Idle, TypeOK, Swapping
  <2> QED BY <1>3, <1>4, <2>1 DEF Begin, Load, Save, Delete, Select, Unselect
<1>5. ASSUME NEW c \in Caller, Advance(c) PROVE Swapping'
  <2>1. CASE Selected(c)
    <3>1. Outside(c)
      BY <2>1, SelectedOutside
    <3> QED BY <2>1, <3>1, OutsideKeepsSwapping DEF Selected
  <2>2. CASE BackendLoad(c)
    BY <2>2, GotoOutside, ReturnOutside, OutsideKeepsSwapping DEF BackendLoad
  <2>3. CASE BackendSave(c)
    BY <2>3, ReturnOutside, OutsideKeepsSwapping DEF BackendSave
  <2>4. CASE BackendList(c)
    BY <2>4, GotoOutside, ReturnOutside, OutsideKeepsSwapping DEF BackendList
  <2>5. CASE BackendDelete(c)
    BY <2>5, GotoOutside, ReturnOutside, OutsideKeepsSwapping DEF BackendDelete
  <2>6. CASE MemorySetSelected(c)
    BY <2>6 DEF MemorySetSelected, Return, Idle, TypeOK, Swapping
  <2>7. CASE Lock(c)
    <3>1. PICK read \in {selected, NoName} :
              call' = [call EXCEPT ![c].was = read, ![c].unread = (read # selected),
                                   ![c].step = IF read = NoName THEN "replace" ELSE "record"]
      BY <2>7, ReadTypes DEF Lock, Reads
    <3>2. \A d \in Caller : call[d].step \notin {"record", "replace"}
      BY <2>7, ConstantAssumption DEF Lock, Swapping
    <3>3. /\ call'[c].was = read /\ call'[c].unread = (read # selected)
          /\ call'[c].step = IF read = NoName THEN "replace" ELSE "record"
      BY <3>1 DEF TypeOK, CallRecord
    <3>4. \A d \in Caller \ {c} : call'[d] = call[d]
      BY <3>1 DEF TypeOK
    <3> QED BY <2>7, <3>2, <3>3, <3>4 DEF Lock, Swapping
  <2>8. CASE Record(c)
    BY <2>8 DEF Record, Goto, TypeOK, Swapping
  <2>9. CASE Replace(c)
    BY <2>9 DEF Replace, Return, Idle, TypeOK, Swapping
  <2>10. CASE SetSelectedFails(c)
    BY <2>10 DEF SetSelectedFails, Return, Idle, TypeOK, Swapping
  <2> QED BY <1>5, <2>1, <2>2, <2>3, <2>4, <2>5, <2>6, <2>7, <2>8, <2>9, <2>10 DEF Advance
<1> QED BY <1>1, <1>2, <1>4, <1>5 DEF Next

-----------------------------------------------------------------------------
\* The registry's state always has its types, and the one swap that is under way
\* has a true picture of the selection, or could not read it.
THEOREM SwapInvariant == Spec => []SwapInv
<1>1. SwapInv /\ [Next]_vars => SwapInv'
  BY TypeStep, NamedStep, SwappingStep DEF SwapInv
<1> QED BY InitSwapInv, <1>1, PTL DEF Spec

\* A swap is under way that could not read the selection.
Unread == \E c \in Caller : call[c].step = "replace" /\ call[c].unread

\* Only the holder of the mutex is between the two writes.
LEMMA OneSwap ==
    ASSUME SwapInv, NEW c \in Caller, call[c].step \in {"record", "replace"}
    PROVE  /\ \A d \in Caller \ {c} : call[d].step \notin {"record", "replace"}
           /\ Unread <=> call[c].unread
BY DEF SwapInv, Swapping, Unread

LEMMA OutsideKeepsUnread ==
    ASSUME NEW c \in Caller, Outside(c), call[c].step # "replace"
    PROVE  Unread' = Unread
BY DEF Outside, Unread

\* Whatever the selector replaces on disk it has recorded, unless it could not
\* read it, with any number of goroutines, failing reads and writes and kills at
\* any step (FileSelector.SetSelected).
THEOREM SelectorKeepsPromise == Spec => ImplementsContextSelection
<1> USE ConstantAssumption
<1>1. Init => Promise!Init
  BY DEF Init, Idle, Promise!Init
<1>2. ASSUME SwapInv, [Next]_vars PROVE [Promise!Next]_(Promise!vars)
  <2> USE DEF SwapInv
  <2>1. ASSUME UNCHANGED <<selected, previous>>, Unread' <=> Unread PROVE [Promise!Next]_(Promise!vars)
    <3>1. Unread' = Unread
      BY <2>1 DEF Unread
    <3> QED BY <2>1, <3>1 DEF Unread, Promise!vars
  <2>2. ASSUME UNCHANGED <<selected, previous>>, ~Unread', Unread PROVE Promise!Next
    BY <2>2 DEF Unread, Promise!Next, Promise!GiveUp
  <2>3. ASSUME NEW c \in Caller, MemorySetSelected(c) PROVE Promise!Next
    <3>1. Target(c) \in Name \cup {NoName}
      BY <1>2 DEF Target, TypeOK, CallRecord, Names
    <3>2. ~Unread
      BY <1>2, <2>3 DEF MemorySetSelected, Swapping, Unread
    <3>3. ~Unread'
      BY <1>2, <2>3, <3>2, ReturnOutside, OutsideKeepsUnread DEF MemorySetSelected
    <3>4. Promise!SetSelected(Target(c))
      BY <2>3, <3>2, <3>3 DEF MemorySetSelected, Promise!SetSelected, Unread
    <3> QED BY <3>1, <3>4 DEF Promise!Next
  <2>4. ASSUME NEW c \in Caller, Lock(c) PROVE [Promise!Next]_(Promise!vars)
    <3>1. ~Unread /\ \A d \in Caller : call[d].step # "replace"
      BY <1>2, <2>4 DEF Lock, Swapping, Unread
    <3>2. PICK read \in {selected, NoName} :
              call' = [call EXCEPT ![c].was = read, ![c].unread = (read # selected),
                                   ![c].step = IF read = NoName THEN "replace" ELSE "record"]
      BY <1>2, <2>4, ReadTypes DEF Lock, Reads
    <3>3. Unread' <=> read # selected
      <4>1. call'[c].unread = (read # selected) /\ call'[c].step = IF read = NoName THEN "replace" ELSE "record"
        BY <1>2, <3>2 DEF TypeOK, CallRecord
      <4>2. \A d \in Caller \ {c} : call'[d] = call[d]
        BY <1>2, <3>2 DEF TypeOK
      <4> QED BY <3>1, <4>1, <4>2 DEF Unread
    <3>4. UNCHANGED <<selected, previous>>
      BY <2>4 DEF Lock
    <3>5. CASE read # selected
      BY <3>1, <3>3, <3>4, <3>5 DEF Unread, Promise!Next, Promise!ReadFails
    <3>6. CASE read = selected
      BY <2>1, <3>1, <3>3, <3>4, <3>6
    <3> QED BY <3>5, <3>6
  <2>5. ASSUME NEW c \in Caller, Record(c) PROVE Promise!Next
    <3>1. call[c].step = "record" /\ ~call[c].unread /\ call[c].was = selected /\ selected # NoName
      BY <1>2, <2>5 DEF Record, Swapping
    <3>2. ~Unread
      BY <1>2, <3>1, OneSwap
    <3>3. ~Unread'
      BY <1>2, <2>5, <3>1, OneSwap DEF Record, Goto, TypeOK, CallRecord, Unread
    <3> QED BY <2>5, <3>1, <3>2, <3>3 DEF Record, Unread, Promise!Next, Promise!RecordOnly
  <2>6. ASSUME NEW c \in Caller, call[c].step \in {"record", "replace"}, NEW res, Return(c, res)
        PROVE  ~Unread'
    BY <1>2, <2>6, OneSwap DEF Return, Idle, TypeOK, Unread
  <2>7. ASSUME NEW c \in Caller, Replace(c) PROVE Promise!Next
    <3>1. PICK n \in Name \cup {NoName} : n = Target(c)
      BY <1>2 DEF Target, TypeOK, CallRecord, Names
    <3>2. ~Unread' /\ (Unread <=> call[c].unread) /\ selected' = n /\ UNCHANGED previous
      BY <1>2, <2>6, <2>7, <3>1, OneSwap DEF Replace
    <3>3. CASE call[c].unread
      <4>1. Promise!SetUnread(n)
        BY <3>2, <3>3 DEF Promise!SetUnread, Unread
      <4> QED BY <4>1 DEF Promise!Next
    <3>4. CASE ~call[c].unread
      <4>1. selected # NoName => previous = selected
        BY <1>2, <2>7, <3>4 DEF Replace, Swapping
      <4>2. Promise!SetSelected(n)
        BY <3>2, <3>4, <4>1 DEF Promise!SetSelected, Unread
      <4> QED BY <4>2 DEF Promise!Next
    <3> QED BY <3>3, <3>4
  <2>8. ASSUME NEW c \in Caller, SetSelectedFails(c) PROVE [Promise!Next]_(Promise!vars)
    <3>1. ~Unread' /\ UNCHANGED <<selected, previous>>
      BY <2>6, <2>8 DEF SetSelectedFails
    <3> QED BY <2>1, <2>2, <3>1
  <2>9. CASE Crash
    <3>1. ~Unread' /\ UNCHANGED <<selected, previous>>
      BY <2>9 DEF Crash, Idle, Unread
    <3> QED BY <2>1, <2>2, <3>1
  <2>10. ASSUME NEW c \in Caller, Outside(c), call[c].step # "replace", UNCHANGED <<selected, previous>>
         PROVE  [Promise!Next]_(Promise!vars)
    BY <2>1, <2>10, OutsideKeepsUnread
  <2>11. ASSUME NEW c \in Caller, Begin(c) PROVE [Promise!Next]_(Promise!vars)
    <3>1. ASSUME NEW op, NEW n, NEW s \in {"selected", "load", "save", "set"}, Start(c, op, n, s)
          PROVE  Outside(c) /\ call[c].step # "replace" /\ UNCHANGED <<selected, previous>>
      BY <1>2, <3>1 DEF Start, Outside, TypeOK, Idle
    <3>2. CASE /\ call[c].step = "idle" /\ Return(c, "readonly")
               /\ UNCHANGED <<store, stored, selected, previous, holder, noted>>
      BY <1>2, <2>10, <3>2, ReturnOutside
    <3> QED BY <2>10, <2>11, <3>1, <3>2 DEF Begin, Load, Save, Delete, Select, Unselect
  <2>12. ASSUME NEW c \in Caller, Selected(c) PROVE [Promise!Next]_(Promise!vars)
    BY <1>2, <2>10, <2>12, SelectedOutside DEF Selected
  <2>13. ASSUME NEW c \in Caller,
                BackendLoad(c) \/ BackendSave(c) \/ BackendList(c) \/ BackendDelete(c)
         PROVE  [Promise!Next]_(Promise!vars)
    <3>1. Outside(c)
      BY <1>2, <2>13, GotoOutside, ReturnOutside DEF BackendLoad, BackendSave, BackendList, BackendDelete
    <3> QED BY <2>10, <2>13, <3>1 DEF BackendLoad, BackendSave, BackendList, BackendDelete
  <2>14. CASE UNCHANGED vars
    BY <2>1, <2>14 DEF vars, Unread
  <2> QED BY <1>2, <2>3, <2>4, <2>5, <2>7, <2>8, <2>9, <2>11, <2>12, <2>13, <2>14 DEF Next, Advance
<1> QED BY <1>1, <1>2, SwapInvariant, PTL DEF Spec, ImplementsContextSelection, Promise!Spec

-----------------------------------------------------------------------------
(* Why a deleted context can be selected.                                  *)

Swaps == {"set", "record", "replace"}

\* What a call knows follows from the path it took: only a Delete that found
\* its context selected is active, and only it lists; Select needs a selector.
CallShape(r) ==
    /\ r.active => r.op = "delete" /\ r.step \in {"list", "delete"} \cup Swaps
    /\ r.step = "list" => r.active
    /\ r.step = "delete" => r.op = "delete"
    /\ r.step # "idle" /\ r.op \in {"select", "delete"} => r.name \in Name
    /\ r.step # "idle" /\ r.op = "select" => tracked

Shape == (~tracked => selected = NoName) /\ \A c \in Caller : CallShape(call[c])

\* Unless it is noted, no Select runs beside a Delete.
Apart == ~overlapped => \A c, d \in Caller : ~(Running(c, "select") /\ Running(d, "delete"))

\* What the checks of a call established still holds when it acts on them: a
\* context that is removed without clearing the selection is not the selected
\* one, or the selection could not be read, and a context that is about to be selected exists.
ChecksHold ==
    ~overlapped =>
        \A c \in Caller :
            /\ call[c].step = "delete" /\ ~call[c].active => selected # call[c].name \/ call[c].unread
            /\ Running(c, "select") /\ call[c].step \in Swaps => call[c].name \in stored

DanglingInv == Shape /\ Apart /\ ChecksHold /\ DanglingIsExplained

\* One call moves and the rest of the state is as it was.
LEMMA MoveKeepsDanglingInv ==
    ASSUME TypeOK, DanglingInv, NEW c \in Caller, NEW r \in CallRecord,
           call' = [call EXCEPT ![c] = r],
           UNCHANGED <<tracked, selected, noted>>, stored \subseteq stored',
           CallShape(r),
           r.step # "idle" => call[c].step # "idle" /\ r.op = call[c].op,
           r.step = "delete" /\ ~r.active /\ ~overlapped => selected # r.name \/ r.unread,
           r.step \in Swaps /\ r.op = "select" /\ ~overlapped => r.name \in stored,
           call[c].active /\ call[c].step \in Swaps => r.active /\ r.step \in Swaps
    PROVE  DanglingInv'
<1> USE DEF noted
<1>1. \A d \in Caller : call'[d] = IF d = c THEN r ELSE call[d]
  BY DEF TypeOK
<1>2. Shape'
  BY <1>1 DEF DanglingInv, Shape, CallShape
<1>3. Apart'
  BY <1>1 DEF DanglingInv, Apart, Running
<1>4. ChecksHold'
  BY <1>1 DEF DanglingInv, ChecksHold, Running
<1>5. DanglingIsExplained'
  BY <1>1 DEF DanglingInv, DanglingIsExplained, DeleteSparesActive, Dangling, Swaps
<1> QED BY <1>2, <1>3, <1>4, <1>5 DEF DanglingInv

LEMMA ReturnKeepsDanglingInv ==
    ASSUME TypeOK, DanglingInv, NEW c \in Caller, NEW r \in Results, Return(c, r),
           UNCHANGED <<tracked, selected, noted>>, stored \subseteq stored',
           ~(call[c].active /\ call[c].step \in Swaps)
    PROVE  DanglingInv'
<1> DEFINE R == [Idle EXCEPT !.result = r]
<1>1. R \in CallRecord /\ R.step = "idle" /\ ~R.active
  BY ReturnType DEF Idle
<1>2. CallShape(R) /\ R.step \notin Swaps
  BY <1>1 DEF CallShape, Swaps
<1> QED BY <1>1, <1>2, MoveKeepsDanglingInv DEF Return

LEMMA InitDanglingInv == Init => DanglingInv
<1> SUFFICES ASSUME Init PROVE DanglingInv
  OBVIOUS
<1>1. \A c \in Caller : call[c] = Idle
  BY DEF Init
<1>2. Shape
  BY <1>1 DEF Init, Shape, CallShape, Idle
<1>3. Apart /\ ChecksHold
  BY <1>1 DEF Apart, ChecksHold, Running, Idle, Swaps
<1>4. selected \in stored \cup {NoName}
  BY DEF Init
<1> QED BY <1>2, <1>3, <1>4 DEF DanglingInv, DanglingIsExplained, DeleteSparesActive, Dangling

\* A call starts.  A Select beside a Delete is noted; the note is only dropped
\* when nothing runs and the selection is sound.
LEMMA StartKeepsDanglingInv ==
    ASSUME TypeOK, DanglingInv, NEW c \in Caller, NEW op \in Ops, NEW n \in Names,
           NEW s \in {"selected", "load", "save", "set"}, Start(c, op, n, s),
           op \in {"select", "delete"} => n \in Name,
           op = "select" => tracked /\ s = "load"
    PROVE  DanglingInv'
<1> DEFINE R == [Idle EXCEPT !.op = op, !.name = n, !.step = s]
<1>1. R.op = op /\ R.name = n /\ R.step = s /\ R.active = FALSE
  BY DEF Idle
<1>2. \A d \in Caller : call'[d] = IF d = c THEN R ELSE call[d]
  BY DEF Start, TypeOK
<1>3. call[c].step = "idle" /\ UNCHANGED <<tracked, selected, stored>>
  BY DEF Start, store
<1> HIDE DEF R
<1>4. Shape'
  BY <1>1, <1>2, <1>3 DEF DanglingInv, Shape, CallShape
<1>5. CASE overlapped'
  BY <1>4, <1>5 DEF DanglingInv, Apart, ChecksHold, DanglingIsExplained, DeleteSparesActive
<1>6. CASE ~overlapped'
  <2>1. ~Overlaps(op) /\ (~overlapped \/ Settled)
    BY <1>6 DEF Start
  <2>2. Apart'
    <3>1. ASSUME NEW d \in Caller, NEW e \in Caller, Running(d, "select")', Running(e, "delete")'
          PROVE  FALSE
      BY <1>1, <1>2, <2>1, <3>1 DEF DanglingInv, Apart, Running, Overlaps, Settled
    <3> QED BY <3>1 DEF Apart
  <2>3. ChecksHold'
    BY <1>1, <1>2, <1>3, <2>1 DEF DanglingInv, ChecksHold, Running, Settled, Swaps
  <2>4. DanglingIsExplained'
    BY <1>1, <1>2, <1>3, <2>1 DEF DanglingInv, DanglingIsExplained, DeleteSparesActive, Dangling, Settled, Start
  <2> QED BY <1>4, <2>2, <2>3, <2>4 DEF DanglingInv
<1> QED BY <1>5, <1>6

LEMMA BeginKeepsDanglingInv ==
    ASSUME TypeOK, DanglingInv, NEW c \in Caller, Begin(c)
    PROVE  DanglingInv'
<1>1. NoName \in Names /\ Name \subseteq Names
  BY DEF Names
<1>2. {"load", "save", "delete", "select", "unselect"} \subseteq Ops /\ "readonly" \in Results
  BY DEF Ops, Results
<1>3. CASE Load(c)
  BY <1>1, <1>2, <1>3, StartKeepsDanglingInv DEF Load
<1>4. CASE Save(c) \/ Delete(c)
  BY <1>1, <1>2, <1>4, StartKeepsDanglingInv DEF Save, Delete
<1>5. CASE Unselect(c)
  BY <1>1, <1>2, <1>5, StartKeepsDanglingInv DEF Unselect
<1>6. CASE Select(c)
  <2>1. CASE \E n \in Name : tracked /\ Start(c, "select", n, "load")
    BY <1>1, <1>2, <2>1, StartKeepsDanglingInv
  <2>2. CASE ~tracked /\ call[c].step = "idle" /\ Return(c, "readonly")
             /\ UNCHANGED <<store, stored, selected, previous, holder, noted>>
    <3>1. UNCHANGED <<tracked, selected, noted, stored>> /\ call[c].step \notin Swaps
      BY <2>2 DEF store, Swaps
    <3> QED BY <1>2, <2>2, <3>1, ReturnKeepsDanglingInv
  <2> QED BY <1>6, <2>1, <2>2 DEF Select
<1> QED BY <1>3, <1>4, <1>5, <1>6 DEF Begin

LEMMA SelectedKeepsDanglingInv ==
    ASSUME TypeOK, DanglingInv, NEW c \in Caller, Selected(c)
    PROVE  DanglingInv'
<1>1. /\ call[c] \in CallRecord /\ CallShape(call[c]) /\ call[c].step = "selected"
      /\ UNCHANGED <<tracked, selected, noted, stored>>
  BY DEF Selected, TypeOK, DanglingInv, Shape, store
<1>2. /\ readSelection \subseteq Names
      /\ call[c].step \notin Swaps /\ ~call[c].active
  BY <1>1, ReadTypes DEF CallShape, Swaps
<1>3. {"load", "list", "delete"} \subseteq Steps /\ "default" \in Results
  BY DEF Steps, Results
<1>4. CASE Return(c, "default")
  BY <1>1, <1>2, <1>3, <1>4, ReturnKeepsDanglingInv
<1>5. ASSUME NEW current \in Names, call[c].op = "load",
             call' = [call EXCEPT ![c].step = "load", ![c].name = current]
      PROVE  DanglingInv'
  <2> DEFINE R == [call[c] EXCEPT !.step = "load", !.name = current]
  <2>1. R \in CallRecord /\ call' = [call EXCEPT ![c] = R]
    BY <1>1, <1>3, <1>5, GotoType
  <2>2. R.step = "load" /\ R.op = "load" /\ ~R.active
    BY <1>1, <1>2, <1>5 DEF CallRecord
  <2>3. CallShape(R) /\ R.step \notin Swaps
    BY <2>2 DEF CallShape, Swaps
  <2> HIDE DEF R
  <2> QED BY <1>1, <1>2, <1>5, <2>1, <2>2, <2>3, MoveKeepsDanglingInv
<1>6. CASE call[c].op = "delete" /\ call' = [call EXCEPT ![c].step = "list", ![c].active = TRUE]
  <2> DEFINE R == [call[c] EXCEPT !.step = "list", !.active = TRUE]
  <2>1. R \in CallRecord /\ call' = [call EXCEPT ![c] = R]
    BY <1>1, <1>3, <1>6, GotoType DEF Names
  <2>2. R.step = "list" /\ R.op = "delete" /\ R.active /\ R.name = call[c].name
    BY <1>1, <1>6 DEF CallRecord
  <2>3. CallShape(R) /\ R.step \notin Swaps
    BY <1>1, <1>6, <2>2 DEF CallShape, Swaps
  <2> HIDE DEF R
  <2> QED BY <1>1, <1>2, <1>6, <2>1, <2>2, <2>3, MoveKeepsDanglingInv
<1>7. ASSUME NEW current \in Names, call[c].op = "delete", current # call[c].name,
             call' = [call EXCEPT ![c].step = "delete", ![c].unread = (current # selected)]
      PROVE  DanglingInv'
  <2> DEFINE R == [call[c] EXCEPT !.step = "delete", !.unread = (current # selected)]
  <2>1. R \in CallRecord /\ call' = [call EXCEPT ![c] = R]
    <3>1. PICK u \in BOOLEAN : u = (current # selected)
      OBVIOUS
    <3>2. [call[c] EXCEPT !.step = "delete", !.unread = u] \in CallRecord
      BY <1>1, <1>3, GotoType DEF Names
    <3> QED BY <1>7, <3>1, <3>2
  <2>2. R.step = "delete" /\ R.op = "delete" /\ ~R.active /\ R.name = call[c].name
    BY <1>1, <1>2, <1>7 DEF CallRecord
  <2>3. CallShape(R) /\ R.step \notin Swaps
    BY <1>1, <1>7, <2>2 DEF CallShape, Swaps
  <2>4. selected # R.name \/ R.unread
    BY <1>1, <1>7, <2>2 DEF CallRecord
  <2> HIDE DEF R
  <2> QED BY <1>1, <1>2, <1>7, <2>1, <2>2, <2>3, <2>4, MoveKeepsDanglingInv
<1> QED BY <1>2, <1>4, <1>5, <1>6, <1>7 DEF Selected

\* A call goes on to its next step with what it knows.
LEMMA GotoKeepsDanglingInv ==
    ASSUME TypeOK, DanglingInv, NEW c \in Caller, NEW s \in {"delete", "set", "record", "replace"},
           NEW w \in Names, NEW u \in BOOLEAN,
           call' = [call EXCEPT ![c] = [call[c] EXCEPT !.was = w, !.unread = u, !.step = s]],
           UNCHANGED <<tracked, selected, noted, stored>>,
           call[c].step \in {"load", "list", "set", "record"},
           s = "delete" <=> call[c].step = "list",
           call[c].step = "load" => call[c].op = "select" /\ call[c].name \in stored
    PROVE  DanglingInv'
<1> DEFINE R == [call[c] EXCEPT !.was = w, !.unread = u, !.step = s]
<1>1. call[c] \in CallRecord /\ CallShape(call[c])
  BY DEF TypeOK, DanglingInv, Shape
<1>2. s \in Steps
  BY DEF Steps
<1>3. R \in CallRecord
  BY <1>1, <1>2, GotoType
<1>4. R.step = s /\ R.op = call[c].op /\ R.active = call[c].active /\ R.name = call[c].name
  BY <1>1 DEF CallRecord
<1> HIDE DEF R
<1>5. CallShape(R)
  BY <1>1, <1>4 DEF CallShape, Swaps
<1>6. R.step = "delete" => R.active
  BY <1>1, <1>4 DEF CallShape
<1>7. R.step \in Swaps /\ R.op = "select" /\ ~overlapped => R.name \in stored
  BY <1>1, <1>4 DEF DanglingInv, ChecksHold, Running, Swaps
<1>8. R.step \in Swaps \/ call[c].step \notin Swaps
  BY <1>4 DEF Swaps
<1> QED BY <1>1, <1>3, <1>4, <1>5, <1>6, <1>7, <1>8, MoveKeepsDanglingInv DEF R

\* The context is removed: by a Delete that knows it was selected, which goes
\* on to clear the selection, or by one that knows or believes it was not.
LEMMA RemoveKeepsDanglingInv ==
    ASSUME TypeOK, DanglingInv, NEW c \in Caller, call[c].step = "delete",
           UNCHANGED <<tracked, selected, overlapped>>, stored \ {call[c].name} \subseteq stored',
           misread' = (misread \/ (call[c].unread /\ call[c].name = selected)),
           IF call[c].active THEN Goto(c, "set") ELSE Return(c, "ok")
    PROVE  DanglingInv'
<1>1. PICK R : /\ call' = [call EXCEPT ![c] = R]
               /\ \/ call[c].active /\ R = [call[c] EXCEPT !.step = "set"]
                  \/ ~call[c].active /\ R = [Idle EXCEPT !.result = "ok"]
  BY DEF Goto, Return
<1>2. \A d \in Caller : call'[d] = IF d = c THEN R ELSE call[d]
  BY <1>1 DEF TypeOK
<1>3. call[c] \in CallRecord /\ CallShape(call[c])
  BY DEF TypeOK, DanglingInv, Shape
<1>4. IF call[c].active THEN R.step = "set" /\ R.op = call[c].op /\ R.active = call[c].active
                             /\ R.name = call[c].name
                        ELSE R.step = "idle" /\ ~R.active
  BY <1>1, <1>3 DEF CallRecord, Idle
<1>5. call[c].op = "delete"
  BY <1>3 DEF CallShape
<1>6. Shape'
  BY <1>2, <1>3, <1>4 DEF DanglingInv, Shape, CallShape, Swaps
<1>7. Apart'
  BY <1>2, <1>4, <1>5 DEF DanglingInv, Apart, Running
<1>8. ChecksHold'
  BY <1>2, <1>4, <1>5 DEF DanglingInv, ChecksHold, Apart, Running
<1>9. DanglingIsExplained'
  <2>1. CASE call[c].active
    BY <1>2, <1>4, <2>1 DEF DanglingIsExplained, DeleteSparesActive
  <2>2. CASE ~call[c].active
    BY <1>2, <1>4, <2>2 DEF DanglingInv, DanglingIsExplained, DeleteSparesActive, Dangling, ChecksHold
  <2> QED BY <2>1, <2>2
<1> QED BY <1>6, <1>7, <1>8, <1>9 DEF DanglingInv

\* The selection is replaced by a context that exists, or cleared.
LEMMA ReplaceKeepsDanglingInv ==
    ASSUME TypeOK, DanglingInv, NEW c \in Caller, call[c].step \in Swaps,
           selected' = Target(c), Return(c, "ok"), UNCHANGED <<tracked, noted, stored>>
    PROVE  DanglingInv'
<1> USE ConstantAssumption DEF noted
<1> DEFINE R == [Idle EXCEPT !.result = "ok"]
<1>1. R.step = "idle" /\ ~R.active
  BY DEF Idle
<1>2. \A d \in Caller : call'[d] = IF d = c THEN R ELSE call[d]
  BY DEF Return, TypeOK
<1>3. CallShape(call[c]) /\ call[c].step # "idle"
  BY DEF DanglingInv, Shape, Swaps
<1> HIDE DEF R
<1>4. Shape'
  BY <1>1, <1>2, <1>3 DEF DanglingInv, Shape, CallShape, Target
<1>5. Apart'
  BY <1>1, <1>2 DEF DanglingInv, Apart, Running
<1>6. ~overlapped => selected' \in stored' \cup {NoName}
  BY <1>3 DEF DanglingInv, ChecksHold, Running, Target
<1>7. ChecksHold'
  <2> SUFFICES ASSUME ~overlapped, NEW d \in Caller \ {c}
               PROVE  /\ call[d].step = "delete" /\ ~call[d].active => Target(c) # call[d].name
                      /\ Running(d, "select") /\ call[d].step \in Swaps => call[d].name \in stored
    BY <1>1, <1>2 DEF ChecksHold, Running, Swaps
  <2>1. ASSUME call[d].step = "delete" PROVE Target(c) # call[d].name
    <3>1. CallShape(call[d])
      BY DEF DanglingInv, Shape
    <3>2. Running(d, "delete") /\ call[d].name \in Name
      BY <2>1, <3>1 DEF CallShape, Running
    <3>3. ~Running(c, "select")
      BY <3>2 DEF DanglingInv, Apart
    <3> QED BY <1>3, <3>2, <3>3 DEF Target, Running
  <2> QED BY <2>1 DEF DanglingInv, ChecksHold
<1> QED BY <1>4, <1>5, <1>6, <1>7 DEF DanglingInv, DanglingIsExplained, DeleteSparesActive, Dangling

\* A swap that fails, or a kill, ends calls; a Delete that is cut short is noted.
LEMMA EndKeepsDanglingInv ==
    ASSUME TypeOK, DanglingInv, NEW S \in SUBSET Caller,
           \A c \in Caller : IF c \in S THEN call'[c].step = "idle" /\ ~call'[c].active
                                        ELSE call'[c] = call[c],
           overlapped' = (overlapped \/ \E c \in S : Running(c, "delete")),
           UNCHANGED <<tracked, selected, stored, misread>>
    PROVE  DanglingInv'
<1>1. Shape'
  BY DEF DanglingInv, Shape, CallShape
<1>2. CASE overlapped'
  BY <1>1, <1>2 DEF DanglingInv, Apart, ChecksHold, DanglingIsExplained, DeleteSparesActive
<1>3. CASE ~overlapped'
  <2>1. ~overlapped /\ \A c \in S : ~Running(c, "delete")
    BY <1>3
  <2>2. Apart' /\ ChecksHold'
    BY <2>1 DEF DanglingInv, Apart, ChecksHold, Running, Swaps
  <2>3. \A c \in S : ~(call[c].active /\ call[c].step \in Swaps)
    BY <2>1 DEF DanglingInv, Shape, CallShape, Running, Swaps
  <2>4. DanglingIsExplained'
    BY <2>1, <2>3 DEF DanglingInv, DanglingIsExplained, DeleteSparesActive, Dangling, Swaps
  <2> QED BY <1>1, <2>2, <2>4 DEF DanglingInv
<1> QED BY <1>2, <1>3

LEMMA AdvanceKeepsDanglingInv ==
    ASSUME TypeOK, DanglingInv, NEW c \in Caller, Advance(c)
    PROVE  DanglingInv'
<1> USE DEF store
<1>1. {"ok", "default", "notfound", "active", "invalid", "error"} \subseteq Results
  BY DEF Results
<1>2. /\ call[c] \in CallRecord /\ CallShape(call[c])
      /\ call[c].was \in Names /\ call[c].unread \in BOOLEAN
  BY DEF TypeOK, DanglingInv, Shape, CallRecord
<1>3. ASSUME NEW s, Goto(c, s) 
      PROVE  call' = [call EXCEPT ![c] = [call[c] EXCEPT !.was = call[c].was, !.unread = call[c].unread, !.step = s]]
  BY <1>2, <1>3 DEF Goto, CallRecord
<1>4. CASE Selected(c)
  BY <1>4, SelectedKeepsDanglingInv
<1>5. CASE BackendLoad(c)
  <2>1. CASE call[c].step = "load" /\ Loads(call[c].name) /\ call[c].op = "select" /\ Goto(c, "set")
    <3>1. call[c].name \in stored
      BY <2>1 DEF Loads, FileLoads, SingleLoads, MemoryLoads
    <3>2. call' = [call EXCEPT ![c] = [call[c] EXCEPT !.was = call[c].was, !.unread = call[c].unread, !.step = "set"]]
      BY <1>3, <2>1
    <3>3. UNCHANGED <<tracked, selected, noted, stored>>
      BY <1>5 DEF BackendLoad
    <3> QED BY <1>2, <2>1, <3>1, <3>2, <3>3, GotoKeepsDanglingInv
  <2>2. ASSUME NEW r \in Results, Return(c, r) PROVE DanglingInv'
    BY <1>5, <2>2, ReturnKeepsDanglingInv DEF BackendLoad, Swaps
  <2> QED BY <1>1, <1>5, <2>1, <2>2 DEF BackendLoad
<1>6. CASE BackendSave(c)
  <2>1. stored \subseteq stored' /\ call[c].step \notin Swaps
    BY <1>6 DEF BackendSave, FileSave, SingleSave, MemorySave, Swaps
  <2> QED BY <1>1, <1>6, <2>1, ReturnKeepsDanglingInv DEF BackendSave
<1>7. CASE BackendList(c)
  <2>1. CASE Goto(c, "delete")
    <3>1. call' = [call EXCEPT ![c] = [call[c] EXCEPT !.was = call[c].was, !.unread = call[c].unread, !.step = "delete"]]
      BY <1>3, <2>1
    <3>2. call[c].step = "list" /\ UNCHANGED <<tracked, selected, noted, stored>>
      BY <1>7 DEF BackendList
    <3> QED BY <1>2, <3>1, <3>2, GotoKeepsDanglingInv
  <2>2. CASE Return(c, "active") \/ Return(c, "error")
    BY <1>1, <1>7, <2>2, ReturnKeepsDanglingInv DEF BackendList, Swaps
  <2> QED BY <1>7, <2>1, <2>2 DEF BackendList
<1>8. CASE BackendDelete(c)
  <2>1. CASE /\ IF call[c].active THEN Goto(c, "set") ELSE Return(c, "ok")
             /\ misread' = (misread \/ (call[c].unread /\ call[c].name = selected))
             /\ FileDelete(call[c].name) \/ SingleDelete(call[c].name) \/ MemoryDelete(call[c].name)
    BY <1>8, <2>1, RemoveKeepsDanglingInv DEF BackendDelete, FileDelete, SingleDelete, MemoryDelete
  <2>2. CASE UNCHANGED <<stored, misread>> /\ Return(c, "error")
    BY <1>1, <1>8, <2>2, ReturnKeepsDanglingInv DEF BackendDelete, Swaps, noted
  <2> QED BY <1>8, <2>1, <2>2 DEF BackendDelete
<1>9. CASE MemorySetSelected(c) \/ Replace(c)
  BY <1>9, ReplaceKeepsDanglingInv DEF MemorySetSelected, Replace, Swaps
<1>10. CASE Lock(c)
  <2>1. PICK s \in {"record", "replace"}, w \in Names, u \in BOOLEAN :
          call' = [call EXCEPT ![c] = [call[c] EXCEPT !.was = w, !.unread = u, !.step = s]]
    BY <1>10, ReadsMove DEF Lock
  <2> QED BY <1>2, <1>10, <2>1, GotoKeepsDanglingInv DEF Lock
<1>11. CASE Record(c)
  BY <1>2, <1>3, <1>11, GotoKeepsDanglingInv DEF Record
<1>12. CASE SetSelectedFails(c)
  <2>1. overlapped' = (overlapped \/ \E d \in {c} : Running(d, "delete"))
    BY <1>12 DEF SetSelectedFails, Running
  <2>2. \A d \in Caller : IF d \in {c} THEN call'[d].step = "idle" /\ ~call'[d].active
                                       ELSE call'[d] = call[d]
    BY <1>12 DEF SetSelectedFails, Return, Idle, TypeOK
  <2> QED BY <1>12, <2>1, <2>2, EndKeepsDanglingInv DEF SetSelectedFails
<1> QED BY <1>4, <1>5, <1>6, <1>7, <1>8, <1>9, <1>10, <1>11, <1>12 DEF Advance

\* However many callers load, save, delete and select contexts at once, and
\* wherever a read or a write fails or the process is killed: a context that does
\* not exist is selected only where a Select and a Delete overlapped, where a Delete
\* of the active context failed, was killed or is under way, or where a Delete could
\* not read the selection (Registry.Delete, Registry.Select).
THEOREM DanglingExplained == Spec => []DanglingIsExplained
<1>1. TypeOK /\ DanglingInv /\ [Next]_vars => DanglingInv'
  <2> SUFFICES ASSUME TypeOK, DanglingInv, [Next]_vars PROVE DanglingInv'
    OBVIOUS
  <2>1. CASE UNCHANGED vars
    BY <2>1 DEF vars, DanglingInv, Shape, CallShape, Apart, ChecksHold, DanglingIsExplained, DeleteSparesActive, Dangling, Running
  <2>2. CASE Crash
    BY <2>2, EndKeepsDanglingInv DEF Crash, Idle, store
  <2> QED BY <2>1, <2>2, BeginKeepsDanglingInv, AdvanceKeepsDanglingInv DEF Next
<1>2. SwapInv => TypeOK
  BY DEF SwapInv
<1>3. DanglingInv => DanglingIsExplained
  BY DEF DanglingInv
<1> QED BY <1>1, <1>2, <1>3, InitDanglingInv, SwapInvariant, PTL DEF Spec

-----------------------------------------------------------------------------
(* The settings of one context, from load to save.                         *)

FileFields == {"creds", "nkey", "jwt", "seed"}
Untouched == Fields \ (FileFields \cup Asking \cup {"url", "nsc"})

IsSettings(s) == DOMAIN s = Fields

\* A context that was loaded.
ContextFields == {"is", "settings", "loaded", "embedded", "asked", "meant", "optsOut"}

\* A field that is as it was or embedded since.
SameOrEmbedded(x, y) == y \in {x, embedIfFile(x)}

\* No step changes the other fields.
Rest(l, s) ==
    /\ \A f \in Untouched : s[f] = l[f]
    /\ \A f \in {"nkey", "jwt", "seed"} : SameOrEmbedded(l[f], s[f])

\* The credentials a saved context has: its own, or those of the lookup.
CredsKept(l, s) ==
    IF l["nsc"] # "" /\ l["creds"] = "" THEN s["creds"] = "nsc" ELSE SameOrEmbedded(l["creds"], s["creds"])

Unmigrated(l, s) ==
    /\ SameOrEmbedded(l["creds"], s["creds"])
    /\ \A f \in Asking \cup {"url", "nsc"} : s[f] = l[f]

LookupGone(s) == s["nsc"] = "" /\ s["nscUrl"] = "" /\ s["nscCreds"] = ""

\* What the context meant when it was loaded.  While nsc is there, it names the
\* server it named then.
MeantServer(l, meant) ==
    /\ l["url"] # "" => meant = l["url"]
    /\ l["url"] = "" /\ l["nsc"] = "" => meant = DefaultURL
    /\ l["url"] = "" /\ l["nsc"] # "" /\ l["nscUrl"] # "" => meant = l["nscUrl"]
    /\ l["url"] = "" /\ l["nsc"] # "" /\ l["nscUrl"] = "" =>
          /\ machine.nsc # "missing" =>
                meant = IF nscService(machine) = "" THEN DefaultURL ELSE nscService(machine)
          /\ Asked(l) => meant = DefaultURL
MeantScheme(l) ==
    IF l["nsc"] = "" THEN Scheme(Payload(l)) ELSE IF l["user"] # "" THEN "user/password" ELSE "creds"

OptsOut(l) == ~ Asked(l) /\ l["nsc"] # "" /\ l["creds"] # "" /\ l["url"] = ""

\* Common to a context that is loaded and one that is saved.
ContextInv ==
    LET l == ctx.loaded IN
    /\ DOMAIN ctx = ContextFields
    /\ ctx.meant = [server |-> ctx.meant.server, scheme |-> ctx.meant.scheme]
    /\ IsSettings(l)
    /\ l["nscCreds"] = "" => l["nscUrl"] = ""
    /\ ctx.asked <=> Asked(l)
    /\ ctx.optsOut <=> OptsOut(l)
    /\ ctx.meant.scheme = MeantScheme(l)

\* Settings s made of l by embedding and migrating, in any order, any number
\* of times.
Migrated(l, s, meant) ==
    /\ LookupGone(s) /\ CredsKept(l, s)
    /\ OptsOut(l) \/ ServerURL(s) = meant
MadeOf(l, s, meant) ==
    /\ IsSettings(s)
    /\ Rest(l, s)
    /\ Unmigrated(l, s) \/ (l["nsc"] # "" /\ Migrated(l, s, meant))

\* A context in memory, before, between and after saves that failed.
LoadedInv ==
    /\ ContextInv
    /\ MeantServer(ctx.loaded, ctx.meant.server)
    /\ MadeOf(ctx.loaded, ctx.settings, ctx.meant.server)

\* What was stored of it.
SavedInv ==
    LET l == ctx.loaded IN
    /\ ContextInv
    /\ Rest(l, payload) /\ Migrated(l, payload, ctx.meant.server)
    /\ numCreds(payload) <= 1
    /\ ctx.embedded => \A f \in FileFields : payload[f] \notin {"bare", "file"}

SettingsInv ==
    /\ machine \in Machines
    /\ IsSettings(payload) /\ \A f \in Asking : payload[f] = ""
    /\ ctx.is \in {"none", "loaded", "saved"}
    /\ ctx.is = "loaded" => LoadedInv
    /\ ctx.is = "saved" => SavedInv

-----------------------------------------------------------------------------
(* The operators on settings.                                              *)

\* The names of fields.
LEMMA FieldNames ==
    /\ {"user", "creds", "nkey", "nsc", "jwt", "url", "nscUrl", "nscCreds", "password", "seed",
        "token", "cert", "key", "ca", "socks", "win"} \subseteq Fields
    /\ {"user", "password", "token", "cert", "key", "ca", "win"} \subseteq Untouched
    /\ Untouched \subseteq Fields /\ FileFields \subseteq Fields
  BY DEF Fields, CredentialFields, Untouched, FileFields, Asking

\* Options leave the fields of nsc's answer alone.
LEMMA Applied ==
    ASSUME NEW s, NEW opts \in OptionSets
    PROVE  /\ IsSettings(applyOpts(s, opts))
           /\ \A f \in Asking : applyOpts(s, opts)[f] = s[f]
  <1>1. DOMAIN opts \subseteq Fields \ Asking
    BY SettingsAssumption
  <1>2. \A f \in Asking : applyOpts(s, opts)[f] = s[f]
    BY <1>1, FieldNames DEF applyOpts, Asking
  <1> QED BY <1>2 DEF IsSettings, applyOpts

\* A context holds nsc's answer, or nothing of it; what it holds is what nsc
\* answers on the machine it is loaded on.
LEMMA Answered ==
    ASSUME NEW s, IsSettings(s), \A f \in Asking : s[f] = "",
           NEW opts \in OptionSets, NEW raw, NEW w, ReadsBack(s, raw, w)
    PROVE  LET l == Loaded(s, opts, raw, w) IN
           /\ IsSettings(l)
           /\ \/ l["nscCreds"] = "" /\ l["nscUrl"] = ""
              \/ l["nscCreds"] = "bare" /\ l["nscUrl"] = nscService(w)
  <1> DEFINE e == expand(s, w)
             t == applyOpts(e, opts)
  <1>1. \/ e["nscCreds"] = "" /\ e["nscUrl"] = ""
        \/ e["nscCreds"] = "bare" /\ e["nscUrl"] = nscService(w)
    BY FieldNames DEF expand, IsSettings, Asking
  <1>2. IsSettings(t) /\ t["nscCreds"] = e["nscCreds"] /\ t["nscUrl"] = e["nscUrl"]
    BY Applied DEF Asking
  <1>3. IsSettings(applyOpts(s, opts)) /\ applyOpts(s, opts)["nscCreds"] = ""
        /\ applyOpts(s, opts)["nscUrl"] = ""
    BY Applied DEF Asking
  <1> HIDE DEF e
  <1>4. CASE raw
    BY <1>3, <1>4 DEF Loaded
  <1>5. CASE ~ raw
    <2>1. Loaded(s, opts, raw, w) = configureNewContext(e, opts)
      BY <1>5 DEF Loaded, e
    <2>2. configureNewContext(e, opts) \in {t, [t EXCEPT !["url"] = DefaultURL]}
      BY DEF configureNewContext
    <2> HIDE DEF t
    <2> QED BY <2>1, <2>2, <1>1, <1>2, FieldNames DEF IsSettings
  <1> QED BY <1>4, <1>5

\* What a load that follows a save finds: the payload, with a url.
LEMMA Again ==
    ASSUME NEW s, IsSettings(s), LookupGone(s), NEW w
    PROVE  LET again == Loaded(s, <<>>, FALSE, w) IN
           /\ IsSettings(again)
           /\ \A f \in Fields \ {"url"} : again[f] = s[f]
           /\ again["url"] = IF s["url"] = "" THEN DefaultURL ELSE s["url"]
  <1> DEFINE t == applyOpts(s, <<>>)
  <1>1. DOMAIN <<>> = {}
    OBVIOUS
  <1>2. IsSettings(t) /\ \A f \in Fields : t[f] = s[f]
    BY <1>1 DEF applyOpts, IsSettings
  <1>3. Loaded(s, <<>>, FALSE, w) = IF t["nsc"] = "" /\ t["url"] = "" /\ t["nscUrl"] = ""
                                    THEN [t EXCEPT !["url"] = DefaultURL] ELSE t
    BY DEF Loaded, configureNewContext, expand, LookupGone
  <1> HIDE DEF t
  <1> QED BY <1>2, <1>3, FieldNames DEF IsSettings, LookupGone

\* Embedding changes only what names a file, and all of it where it succeeds.
LEMMA Embedded ==
    ASSUME NEW s, NEW w
    PROVE  LET e == embedFileCredentials(s, w) IN
           /\ IsSettings(e)
           /\ \A f \in Fields \ FileFields : e[f] = s[f]
           /\ \A f \in FileFields : SameOrEmbedded(s[f], e[f])
           /\ Embeds(s, w) => \A f \in FileFields : e[f] = embedIfFile(s[f])
  <1> DEFINE broken == {i \in DOMAIN EmbeddedFields :
                           ~w.files /\ s[EmbeddedFields[i]] \in {"bare", "file"}}
             done == {EmbeddedFields[i] : i \in {j \in DOMAIN EmbeddedFields : \A b \in broken : j < b}}
             e == [f \in Fields |-> IF f \in done THEN embedIfFile(s[f]) ELSE s[f]]
  <1>1. embedFileCredentials(s, w) = e
    BY DEF embedFileCredentials
  <1>2. DOMAIN EmbeddedFields = 1..4 /\ EmbeddedFields[1] = "creds" /\ EmbeddedFields[2] = "nkey"
        /\ EmbeddedFields[3] = "jwt" /\ EmbeddedFields[4] = "seed"
    BY DEF EmbeddedFields
  <1>3. \A f \in FileFields : \E i \in DOMAIN EmbeddedFields : EmbeddedFields[i] = f
    BY <1>2 DEF FileFields
  <1>4. \A i \in DOMAIN EmbeddedFields : EmbeddedFields[i] \in FileFields
    BY <1>2 DEF FileFields
  <1>5. done \subseteq FileFields
    BY <1>4
  <1>6. Embeds(s, w) => broken = {}
    BY DEF Embeds
  <1>7. broken = {} => FileFields \subseteq done
    BY <1>3
  <1> HIDE DEF done, broken
  <1>8. IsSettings(e)
    BY DEF IsSettings
  <1>9. \A f \in Fields \ FileFields : e[f] = s[f]
    BY <1>5
  <1>10. \A f \in FileFields : SameOrEmbedded(s[f], e[f])
    BY FieldNames DEF SameOrEmbedded
  <1>11. Embeds(s, w) => \A f \in FileFields : e[f] = embedIfFile(s[f])
    BY <1>6, <1>7, FieldNames
  <1> QED BY <1>1, <1>8, <1>9, <1>10, <1>11

\* Embedding twice is embedding once, and an empty reference stays empty.
LEMMA EmbeddedTwice ==
    ASSUME NEW x, NEW y, NEW z, SameOrEmbedded(x, y), SameOrEmbedded(y, z)
    PROVE  SameOrEmbedded(x, z) /\ (x = "" <=> z = "")
  BY DEF SameOrEmbedded, embedIfFile

\* What embedding may make of a reference.
LEMMA StaysSet ==
    ASSUME NEW x, NEW y, SameOrEmbedded(x, y)
    PROVE  /\ x = "" <=> y = ""
           /\ y = x \/ y = "data"
           /\ x = "nsc" => y = "nsc"
  BY DEF SameOrEmbedded, embedIfFile

\* Embedding again, at any time, changes nothing else.
LEMMA EmbedKeeps ==
    ASSUME NEW l, NEW s, NEW meant, MadeOf(l, s, meant), NEW w
    PROVE  MadeOf(l, embedFileCredentials(s, w), meant)
  <1> DEFINE e == embedFileCredentials(s, w)
  <1>1. /\ IsSettings(e)
        /\ \A f \in Fields \ FileFields : e[f] = s[f]
        /\ \A f \in FileFields : SameOrEmbedded(s[f], e[f])
    BY Embedded
  <1> HIDE DEF e
  <1>2. \A f \in Untouched \cup Asking \cup {"url", "nsc"} : e[f] = s[f]
    BY <1>1 DEF Untouched, Asking, FileFields, Fields, CredentialFields
  <1>3. \A f \in FileFields : SameOrEmbedded(l[f], s[f]) => SameOrEmbedded(l[f], e[f])
    BY <1>1, EmbeddedTwice
  <1>4. Rest(l, e)
    BY <1>2, <1>3 DEF MadeOf, Rest, FileFields
  <1>5. Unmigrated(l, s) => Unmigrated(l, e)
    BY <1>2, <1>3 DEF Unmigrated, FileFields
  <1>6. CredsKept(l, s) => CredsKept(l, e)
    <2>1. s["creds"] = "nsc" => e["creds"] = "nsc"
      BY <1>1, StaysSet DEF FileFields
    <2> QED BY <2>1, <1>3 DEF CredsKept, FileFields
  <1>7. LookupGone(s) => LookupGone(e)
    BY <1>2 DEF LookupGone, Asking
  <1>8. ServerURL(e) = ServerURL(s)
    BY <1>2 DEF ServerURL, Asking
  <1>9. Migrated(l, s, meant) => Migrated(l, e, meant)
    BY <1>6, <1>7, <1>8 DEF Migrated
  <1> QED BY <1>1, <1>4, <1>5, <1>9 DEF MadeOf, e

\* After migrateNSCLookup the lookup is gone, and the server is the one the
\* context meant: the user's, the one nsc named at load, or the one it names now.
LEMMA MigrateKeeps ==
    ASSUME NEW l, NEW s, NEW meant, MadeOf(l, s, meant), MeantServer(l, meant),
           Migrates(s, machine)
    PROVE  LET m == migrateNSCLookup(s, machine) IN
           /\ MadeOf(l, m, meant)
           /\ l["nsc"] = "" \/ Migrated(l, m, meant)
  <1> DEFINE m == migrateNSCLookup(s, machine)
  <1>1. CASE s["nsc"] = ""
    BY <1>1 DEF migrateNSCLookup, MadeOf, Unmigrated
  <1>2. CASE s["nsc"] # ""
    <2> DEFINE url == IF s["url"] # "" THEN s["url"]
                      ELSE IF s["nscUrl"] # "" THEN s["nscUrl"]
                      ELSE IF s["creds"] = "" THEN nscService(machine)
                      ELSE ""
    <2>1. m = [s EXCEPT !["url"] = url, !["creds"] = IF @ = "" THEN "nsc" ELSE @,
                        !["nsc"] = "", !["nscCreds"] = "", !["nscUrl"] = ""]
      BY <1>2 DEF migrateNSCLookup
    <2>2. IsSettings(s) /\ Unmigrated(l, s) /\ Rest(l, s)
      BY <1>2 DEF MadeOf, Migrated, LookupGone
    <2> HIDE DEF m, url
    <2>3. /\ IsSettings(m) /\ LookupGone(m)
          /\ m["url"] = url
          /\ m["creds"] = IF s["creds"] = "" THEN "nsc" ELSE s["creds"]
          /\ \A f \in Fields \ ({"url", "creds", "nsc"} \cup Asking) : m[f] = s[f]
      BY <2>1, <2>2, FieldNames DEF IsSettings, LookupGone, Asking
    <2>4. Rest(l, m)
      <3>1. Untouched \cup {"nkey", "jwt", "seed"} \subseteq Fields \ ({"url", "creds", "nsc"} \cup Asking)
        BY DEF Untouched, Asking, FileFields, Fields, CredentialFields
      <3> QED BY <2>2, <2>3, <3>1 DEF Rest
    <2>5. l["nsc"] = s["nsc"] /\ l["url"] = s["url"] /\ l["nscUrl"] = s["nscUrl"]
          /\ (l["creds"] = "" <=> s["creds"] = "")
      BY <2>2, StaysSet DEF Unmigrated, Asking
    <2>6. CredsKept(l, m)
      BY <1>2, <2>2, <2>3, <2>5 DEF CredsKept, Unmigrated
    <2>7. OptsOut(l) \/ ServerURL(m) = meant
      <3>1. ServerURL(m) = IF url # "" THEN url ELSE DefaultURL
        BY <2>3 DEF ServerURL, LookupGone
      <3>2. CASE l["url"] # ""
        BY <3>1, <3>2, <2>5 DEF MeantServer, url
      <3>3. CASE l["url"] = "" /\ l["nscUrl"] # ""
        BY <3>1, <3>3, <2>5, <1>2 DEF MeantServer, url
      <3>4. CASE l["url"] = "" /\ l["nscUrl"] = "" /\ l["creds"] = ""
        BY <3>1, <3>4, <2>5, <1>2 DEF MeantServer, url, Migrates
      <3>5. CASE l["url"] = "" /\ l["nscUrl"] = "" /\ l["creds"] # ""
        BY <3>1, <3>5, <2>5, <1>2 DEF MeantServer, url, OptsOut
      <3> QED BY <3>2, <3>3, <3>4, <3>5
    <2> QED BY <1>2, <2>3, <2>4, <2>5, <2>6, <2>7 DEF MadeOf, Migrated, m
  <1> QED BY <1>1, <1>2

\* A context without a lookup stores its own server and credentials.
LEMMA PayloadKeeps ==
    ASSUME NEW l, NEW s, NEW meant, MadeOf(l, s, meant), MeantServer(l, meant),
           l["nsc"] = "" \/ Migrated(l, s, meant)
    PROVE  /\ IsSettings(Payload(s)) /\ \A f \in Asking : Payload(s)[f] = ""
           /\ \A f \in Fields \ Asking : Payload(s)[f] = s[f]
           /\ Rest(l, Payload(s)) /\ Migrated(l, Payload(s), meant)
  <1> DEFINE p == Payload(s)
  <1>1. IsSettings(p) /\ (\A f \in Asking : p[f] = "") /\ \A f \in Fields \ Asking : p[f] = s[f]
    BY FieldNames DEF Payload, IsSettings, MadeOf, Asking
  <1> HIDE DEF p
  <1>2. Untouched \cup FileFields \cup {"url", "nsc"} \subseteq Fields \ Asking
    BY DEF Untouched, Asking, FileFields, Fields, CredentialFields
  <1>3. Rest(l, p)
    BY <1>1, <1>2 DEF Rest, MadeOf, FileFields
  <1>4. CASE l["nsc"] = ""
    <2>1. Unmigrated(l, s)
      BY <1>4 DEF MadeOf
    <2>2. LookupGone(p) /\ CredsKept(l, p)
      BY <1>1, <1>2, <1>4, <2>1 DEF Unmigrated, LookupGone, CredsKept, FileFields, Asking
    <2>3. ServerURL(p) = meant
      BY <1>1, <1>2, <1>4, <2>1 DEF Unmigrated, ServerURL, MeantServer, Asking
    <2> QED BY <2>2, <2>3, <1>1, <1>3 DEF Migrated, p
  <1>5. CASE Migrated(l, s, meant)
    <2>1. LookupGone(p) /\ CredsKept(l, p)
      BY <1>1, <1>2, <1>5 DEF Migrated, LookupGone, CredsKept, FileFields, Asking
    <2>2. ServerURL(p) = ServerURL(s)
      BY <1>1, <1>2, <1>5 DEF Migrated, LookupGone, ServerURL, Asking
    <2> QED BY <2>1, <2>2, <1>5, <1>1, <1>3 DEF Migrated, p
  <1> QED BY <1>4, <1>5

-----------------------------------------------------------------------------
(* The steps.                                                              *)

\* What a load finds is what the context means until nsc is lost.
LEMMA LoadMeans ==
    ASSUME NEW l, IsSettings(l),
           \/ l["nscCreds"] = "" /\ l["nscUrl"] = ""
           \/ l["nscCreds"] = "bare" /\ l["nscUrl"] = nscService(machine)
    PROVE  LET meant == Meaning(IF Asked(l) THEN l ELSE expand(Payload(l), machine)) IN
           /\ MeantServer(l, meant.server)
           /\ meant.scheme = MeantScheme(l)
           /\ meant = [server |-> meant.server, scheme |-> meant.scheme]
  <1> DEFINE q == Payload(l)
             x == expand(q, machine)
             meant == Meaning(IF Asked(l) THEN l ELSE x)
  <1>1. /\ IsSettings(q) /\ q["nscUrl"] = "" /\ q["nscCreds"] = ""
        /\ \A f \in Fields \ Asking : q[f] = l[f]
    BY FieldNames DEF Payload, IsSettings, Asking
  <1> HIDE DEF q
  <1>2. /\ \A f \in Fields \ Asking : x[f] = l[f]
        /\ x["nscUrl"] = IF l["nsc"] = "" THEN "" ELSE nscService(machine)
        /\ x["nscCreds"] = IF l["nsc"] = "" THEN "" ELSE "bare"
    BY <1>1, FieldNames DEF expand, IsSettings, Asking
  <1>3. {"url", "nsc", "user", "creds", "nkey", "jwt"} \subseteq Fields \ Asking
    BY DEF Asking, Fields, CredentialFields
  <1> HIDE DEF x
  <1> DEFINE Goal(m) == /\ MeantServer(l, m.server)
                        /\ m.scheme = MeantScheme(l)
                        /\ m = [server |-> m.server, scheme |-> m.scheme]
  <1>4. \A a : MeantServer(l, a) => Goal([server |-> a, scheme |-> MeantScheme(l)])
    OBVIOUS
  <1> HIDE DEF Goal
  <1>5. ASSUME Asked(l) PROVE Goal(meant)
    <2>1. meant = [server |-> ServerURL(l), scheme |-> Scheme(l)]
      BY <1>5 DEF Meaning
    <2>2. MeantServer(l, ServerURL(l))
      BY <1>5 DEF MeantServer, ServerURL, Asked
    <2>3. Scheme(l) = MeantScheme(l)
      BY <1>1, <1>3, <1>5 DEF Scheme, MeantScheme, Asked, Creds, q
    <2> QED BY <1>4, <2>1, <2>2, <2>3
  <1>6. ASSUME ~ Asked(l) PROVE Goal(meant)
    <2>1. meant = [server |-> ServerURL(x), scheme |-> Scheme(x)]
      BY <1>6 DEF Meaning
    <2>2. MeantServer(l, ServerURL(x))
      BY <1>2, <1>3, <1>6 DEF MeantServer, ServerURL, Asked
    <2>3. Scheme(x) = MeantScheme(l)
      BY <1>1, <1>2, <1>3, <1>6 DEF Scheme, MeantScheme, Asked, Creds, q
    <2> QED BY <1>4, <2>1, <2>2, <2>3
  <1>7. Goal(meant)
    BY <1>5, <1>6
  <1> HIDE DEF meant
  <1>8. meant = Meaning(IF Asked(l) THEN l ELSE expand(Payload(l), machine))
    BY DEF meant, x, q
  <1> QED BY <1>7, <1>8 DEF Goal

\* A load starts with settings made of themselves.
LEMMA LoadKeepsSettingsInv ==
    ASSUME SettingsInv, NEW opts \in OptionSets, NEW raw \in BOOLEAN, LoadSettings(opts, raw)
    PROVE  SettingsInv'
  <1> DEFINE l == Loaded(payload, opts, raw, machine)
             meant == Meaning(IF Asked(l) THEN l ELSE expand(Payload(l), machine))
  <1>1. /\ IsSettings(l)
        /\ \/ l["nscCreds"] = "" /\ l["nscUrl"] = ""
           \/ l["nscCreds"] = "bare" /\ l["nscUrl"] = nscService(machine)
    BY Answered DEF SettingsInv, LoadSettings
  <1> HIDE DEF l
  <1>2. /\ MeantServer(l, meant.server)
        /\ meant.scheme = MeantScheme(l)
        /\ meant = [server |-> meant.server, scheme |-> meant.scheme]
    BY <1>1, LoadMeans
  <1> HIDE DEF meant
  <1>3. MadeOf(l, l, meant.server)
    BY <1>1 DEF MadeOf, Rest, Unmigrated, SameOrEmbedded
  <1>4. /\ ctx'.is = "loaded" /\ ctx'.loaded = l /\ ctx'.settings = l /\ ctx'.meant = meant
        /\ DOMAIN ctx' = ContextFields
        /\ ctx'.asked = Asked(l)
        /\ ctx'.optsOut = (~ Asked(l) /\ l["nsc"] # "" /\ l["creds"] # "" /\ l["url"] = "")
    BY DEF LoadSettings, context, l, meant, ContextFields
  <1>5. UNCHANGED <<payload, machine>>
    BY DEF LoadSettings
  <1>6. ContextInv'
    BY <1>1, <1>2, <1>4 DEF ContextInv, OptsOut
  <1>7. MeantServer(ctx.loaded, ctx.meant.server)'
    BY <1>2, <1>4, <1>5 DEF MeantServer, Asked, nscService
  <1>8. MadeOf(ctx.loaded, ctx.settings, ctx.meant.server)'
    BY <1>3, <1>4
  <1> QED BY <1>4, <1>5, <1>6, <1>7, <1>8 DEF SettingsInv, LoadedInv

\* A step that changes the settings of a loaded context alone.
LEMMA ChangeKeepsSettingsInv ==
    ASSUME SettingsInv, ctx.is = "loaded", NEW s, ctx' = [ctx EXCEPT !.settings = s],
           UNCHANGED <<payload, machine>>, MadeOf(ctx.loaded, s, ctx.meant.server)
    PROVE  SettingsInv'
  <1>1. LoadedInv /\ DOMAIN ctx = ContextFields
    BY DEF SettingsInv, LoadedInv, ContextInv
  <1>2. /\ ctx'.is = "loaded" /\ ctx'.loaded = ctx.loaded /\ ctx'.settings = s /\ ctx'.meant = ctx.meant
        /\ DOMAIN ctx' = ContextFields /\ ctx'.asked = ctx.asked /\ ctx'.optsOut = ctx.optsOut
    BY <1>1 DEF ContextFields
  <1>3. ContextInv'
    BY <1>1, <1>2 DEF LoadedInv, ContextInv
  <1>4. MeantServer(ctx.loaded, ctx.meant.server)'
    BY <1>1, <1>2 DEF LoadedInv, MeantServer, Asked, nscService
  <1> QED BY <1>2, <1>3, <1>4 DEF SettingsInv, LoadedInv

\* Validation of what is migrated holds for what is stored.
LEMMA FewCredentials ==
    ASSUME NEW m, NEW p, \A f \in CredentialFields : m[f] = "" <=> p[f] = "", numCreds(m) <= 1
    PROVE  numCreds(p) <= 1
  <1>1. {f \in CredentialFields : m[f] # ""} = {f \in CredentialFields : p[f] # ""}
    OBVIOUS
  <1> QED BY <1>1 DEF numCreds

\* A save, failed after validation, after embedding or not at all.
LEMMA SaveKeepsSettingsInv ==
    ASSUME SettingsInv, NEW embedding \in BOOLEAN, SaveSettings(embedding)
    PROVE  SettingsInv'
  <1> DEFINE l == ctx.loaded
             meant == ctx.meant.server
             m == migrateNSCLookup(ctx.settings, machine)
             e == IF embedding THEN embedFileCredentials(m, machine) ELSE m
  <1>1. /\ ctx.is = "loaded" /\ LoadedInv /\ DOMAIN ctx = ContextFields /\ machine' = machine
        /\ Migrates(ctx.settings, machine)
    BY DEF SettingsInv, LoadedInv, ContextInv, SaveSettings, Saves
  <1>2. MadeOf(l, m, meant) /\ (l["nsc"] = "" \/ Migrated(l, m, meant))
    BY <1>1, MigrateKeeps DEF LoadedInv
  <1>3. \/ ctx' = [ctx EXCEPT !.settings = m] /\ UNCHANGED payload
        \/ ctx' = [ctx EXCEPT !.settings = e] /\ UNCHANGED payload
        \/ /\ Validate(m) /\ (embedding => Embeds(m, machine))
           /\ payload' = Payload(e)
           /\ ctx' = [ctx EXCEPT !.is = "saved", !.settings = e, !.embedded = embedding]
    BY DEF SaveSettings, Saves, Saved
  <1> HIDE DEF m
  <1>4. MadeOf(l, e, meant)
    BY <1>2, EmbedKeeps
  <1>5. /\ \A f \in Fields \ FileFields : e[f] = m[f]
        /\ \A f \in FileFields : SameOrEmbedded(m[f], e[f])
        /\ embedding /\ Embeds(m, machine) => \A f \in FileFields : e[f] = embedIfFile(m[f])
    <2>1. \A f \in FileFields : SameOrEmbedded(m[f], m[f])
      BY DEF SameOrEmbedded
    <2>2. CASE embedding
      BY <2>2, Embedded
    <2>3. CASE ~ embedding
      BY <2>1, <2>3
    <2> QED BY <2>2, <2>3
  <1> HIDE DEF e
  <1>6. CASE ctx' = [ctx EXCEPT !.settings = m] /\ UNCHANGED payload
    BY <1>1, <1>2, <1>6, ChangeKeepsSettingsInv
  <1>7. CASE ctx' = [ctx EXCEPT !.settings = e] /\ UNCHANGED payload
    BY <1>1, <1>4, <1>7, ChangeKeepsSettingsInv
  <1>8. CASE /\ Validate(m) /\ (embedding => Embeds(m, machine))
             /\ payload' = Payload(e)
             /\ ctx' = [ctx EXCEPT !.is = "saved", !.settings = e, !.embedded = embedding]
    <2> DEFINE p == Payload(e)
    <2>1. l["nsc"] = "" \/ Migrated(l, e, meant)
      <3>1. e["nsc"] = m["nsc"]
        BY <1>5 DEF FileFields, Fields, CredentialFields
      <3>2. Unmigrated(l, e) => e["nsc"] = l["nsc"]
        BY DEF Unmigrated
      <3> QED BY <1>2, <1>4, <3>1, <3>2 DEF MadeOf, Migrated, LookupGone
    <2>2. /\ IsSettings(p) /\ \A f \in Asking : p[f] = ""
          /\ \A f \in Fields \ Asking : p[f] = e[f]
          /\ Rest(l, p) /\ Migrated(l, p, meant)
      BY <1>1, <1>4, <2>1, PayloadKeeps DEF LoadedInv
    <2> HIDE DEF p
    <2>3. FileFields \cup CredentialFields \subseteq Fields \ Asking
      BY DEF FileFields, Fields, CredentialFields, Asking
    <2>4. \A f \in CredentialFields : m[f] = "" <=> p[f] = ""
      BY <1>5, <2>2, <2>3, StaysSet
    <2>5. numCreds(p) <= 1
      BY <1>8, <2>4, FewCredentials DEF Validate
    <2>6. embedding => \A f \in FileFields : p[f] \notin {"bare", "file"}
      BY <1>5, <1>8, <2>2, <2>3 DEF embedIfFile
    <2>7. /\ ctx'.is = "saved" /\ ctx'.loaded = l /\ ctx'.embedded = embedding /\ ctx'.meant = ctx.meant
          /\ DOMAIN ctx' = ContextFields /\ ctx'.asked = ctx.asked /\ ctx'.optsOut = ctx.optsOut
      BY <1>1, <1>8 DEF ContextFields
    <2>8. ContextInv'
      BY <1>1, <2>7 DEF LoadedInv, ContextInv
    <2>9. payload' = p
      BY <1>8 DEF p
    <2>10. SavedInv'
      BY <2>2, <2>5, <2>6, <2>7, <2>8, <2>9 DEF SavedInv
    <2> QED BY <1>1, <2>2, <2>7, <2>9, <2>10 DEF SettingsInv
  <1> QED BY <1>3, <1>6, <1>7, <1>8

\* A machine that loses nsc makes no promise about the server it would name.
LEMMA MachineKeepsSettingsInv ==
    ASSUME SettingsInv, ChangeMachine
    PROVE  SettingsInv'
  <1>1. /\ machine' \in Machines /\ machine'.nsc \in {machine.nsc, "missing"}
        /\ UNCHANGED <<payload, ctx>>
    BY DEF ChangeMachine
  <1>2. ContextInv => ContextInv'
    BY <1>1 DEF ContextInv
  <1>3. LoadedInv => LoadedInv'
    BY <1>1, <1>2 DEF LoadedInv, MeantServer, nscService
  <1>4. SavedInv => SavedInv'
    BY <1>1, <1>2 DEF SavedInv
  <1> QED BY <1>1, <1>3, <1>4 DEF SettingsInv

-----------------------------------------------------------------------------
(* What a saved context means.                                             *)

\* Where its loaded form could connect, the saved one can: what was embedded
\* needs no file, what nsc gave is asked of nsc.
LEMMA StillConnects ==
    ASSUME NEW l, NEW a, NEW w, IsSettings(l), Asked(l), w.files, Rest(l, a), CredsKept(l, a), LookupGone(a),
           Scheme(a) = MeantScheme(l), NATSOptions(l, w), Creds(a) = "nsc" => w.nsc # "missing"
    PROVE  NATSOptions(a, w)
  <1>1. \A f \in {"user", "password", "token", "cert", "key", "ca", "win"} : a[f] = l[f]
    BY FieldNames DEF Rest
  <1>2. \A f \in {"nkey", "jwt", "seed"} : a[f] = l[f] \/ a[f] = "data"
    BY StaysSet DEF Rest
  <1>3. Scheme(l) = Scheme(a)
    <2>1. l["nsc"] = "" => Scheme(Payload(l)) = Scheme(l)
      <3>1. /\ Creds(Payload(l)) = l["creds"]
            /\ \A f \in {"user", "nkey", "jwt"} : Payload(l)[f] = l[f]
        BY FieldNames DEF Payload, IsSettings, Creds
      <3> QED BY <3>1 DEF Scheme, Creds, Asked
    <2> QED BY <2>1 DEF Scheme, MeantScheme, Creds, Asked
  <1>4. resolveLiteral("data", w) /\ buildNkeyOption("data", w) /\ buildCredsOption("data", w)
    BY DEF resolveLiteral, buildNkeyOption, buildCredsOption, Registered, Resolves, dataResolver
  <1>5. Scheme(a) = "creds" /\ buildCredsOption(Creds(l), w) => buildCredsOption(Creds(a), w)
    <2>1. Creds(a) = a["creds"]
      BY DEF Creds, LookupGone
    <2>2. CASE a["creds"] = "nsc"
      BY <2>1, <2>2 DEF buildCredsOption, Registered, Resolves, nscResolver
    <2>3. CASE a["creds"] # "nsc"
      <3>1. SameOrEmbedded(l["creds"], a["creds"]) /\ ~ (l["nsc"] # "" /\ l["creds"] = "")
        BY <2>3 DEF CredsKept
      <3>2. a["creds"] = l["creds"] \/ a["creds"] = "data"
        BY <3>1, StaysSet
      <3>3. l["creds"] # "" => Creds(l) = l["creds"]
        BY DEF Creds
      <3>4. l["creds"] = "" => Creds(l) = "" /\ Creds(a) = ""
        BY <3>1, <2>1, StaysSet DEF Creds, Asked
      <3> QED BY <2>1, <3>2, <3>3, <3>4, <1>4
    <2> QED BY <2>2, <2>3
  <1>6. Authenticates(l, w) => Authenticates(a, w)
    <2>1. CASE Scheme(a) = "user/password"
      BY <2>1, <1>1, <1>3 DEF Authenticates
    <2>2. CASE Scheme(a) = "creds"
      BY <2>2, <1>3, <1>5 DEF Authenticates
    <2>3. CASE Scheme(a) = "nkey"
      BY <2>3, <1>2, <1>3, <1>4 DEF Authenticates
    <2>4. CASE Scheme(a) = "user_jwt"
      BY <2>4, <1>2, <1>3, <1>4 DEF Authenticates
    <2>5. CASE Scheme(a) = "none"
      BY <2>5 DEF Authenticates
    <2> QED BY <2>1, <2>2, <2>3, <2>4, <2>5 DEF Scheme
  <1> QED BY <1>1, <1>6 DEF NATSOptions, certStoreNatsOptions, ValidStore

\* An embedded context needs no credential file.
LEMMA NeedsNoFile ==
    ASSUME NEW a, NEW w \in SettingsWorlds, LookupGone(a),
           \A f \in FileFields : a[f] \notin {"bare", "file"},
           \A f \in {"password", "token", "creds", "nkey", "jwt", "seed"} : a[f] # "nsc",
           a["password"] # "file", a["token"] # "file",
           NATSOptions(a, [w EXCEPT !.files = TRUE])
    PROVE  NATSOptions(a, [w EXCEPT !.files = FALSE])
  <1> DEFINE v == [w EXCEPT !.files = TRUE]
             u == [w EXCEPT !.files = FALSE]
  <1>1. u.nsc = v.nsc /\ u.env = v.env /\ u.op = v.op
    BY DEF SettingsWorlds
  <1> HIDE DEF u, v
  <1>2. \A ref : ref \notin {"nsc", "file"} /\ Resolves(ref, v) => Resolves(ref, u)
    BY <1>1 DEF Resolves, fileResolver, envResolver, opResolver, nscResolver, dataResolver
  <1>3. \A ref : ref \notin {"nsc", "file"} /\ resolveLiteral(ref, v) => resolveLiteral(ref, u)
    BY <1>2 DEF resolveLiteral
  <1>4. \A ref : ref \notin {"nsc", "file", "bare"} =>
            /\ buildCredsOption(ref, v) => buildCredsOption(ref, u)
            /\ buildNkeyOption(ref, v) => buildNkeyOption(ref, u)
    BY <1>2 DEF buildCredsOption, buildNkeyOption
  <1>5. Creds(a) = a["creds"]
    BY DEF Creds, LookupGone
  <1>6. Authenticates(a, v) => Authenticates(a, u)
    <2>1. CASE Scheme(a) = "user/password"
      BY <2>1, <1>3 DEF Authenticates
    <2>2. CASE Scheme(a) = "creds"
      BY <2>2, <1>4, <1>5 DEF Authenticates, FileFields
    <2>3. CASE Scheme(a) = "nkey"
      BY <2>3, <1>4 DEF Authenticates, FileFields
    <2>4. CASE Scheme(a) = "user_jwt"
      BY <2>4, <1>3 DEF Authenticates, FileFields
    <2>5. CASE Scheme(a) = "none"
      BY <2>5 DEF Authenticates
    <2> QED BY <2>1, <2>2, <2>3, <2>4, <2>5 DEF Scheme
  <1>7. NATSOptions(a, v) => NATSOptions(a, u)
    BY <1>3, <1>6 DEF NATSOptions
  <1> QED BY <1>7 DEF u, v

\* The invariant is enough for what a load after the save finds.
LEMMA SavedKeepsMeaning ==
    ASSUME SettingsInv
    PROVE  SaveKeepsMeaning
  <1> SUFFICES ASSUME ctx.is = "saved" PROVE SaveKeepsMeaning
    BY DEF SaveKeepsMeaning
  <1> DEFINE l == ctx.loaded
             a == Loaded(payload, <<>>, FALSE, machine)
             local == {a[f] : f \in {"password", "token", "creds", "nkey", "jwt", "seed"}}
  <1>1. /\ SavedInv /\ ContextInv /\ IsSettings(payload) /\ machine \in SettingsWorlds
        /\ LookupGone(payload) /\ CredsKept(l, payload) /\ Rest(l, payload)
    BY SettingsAssumption DEF SettingsInv, SavedInv, Migrated
  <1>2. /\ \A f \in Fields \ {"url"} : a[f] = payload[f]
        /\ a["url"] = IF payload["url"] = "" THEN DefaultURL ELSE payload["url"]
    BY <1>1, Again
  <1> HIDE DEF a
  <1>3. Untouched \cup FileFields \cup CredentialFields \cup {"nscUrl", "nscCreds"} \subseteq Fields \ {"url"}
    BY DEF Untouched, FileFields, Fields, CredentialFields, Asking
  <1>4. Rest(l, a) /\ CredsKept(l, a) /\ LookupGone(a)
    <2>1. Rest(l, a)
      BY <1>1, <1>2, <1>3 DEF Rest, FileFields
    <2>2. CredsKept(l, a)
      BY <1>1, <1>2, <1>3 DEF CredsKept, FileFields
    <2>3. LookupGone(a)
      BY <1>1, <1>2, <1>3 DEF LookupGone, CredentialFields
    <2> QED BY <2>1, <2>2, <2>3
  <1>5. numCreds(a) <= 1
    <2>1. \A f \in CredentialFields : payload[f] = "" <=> a[f] = ""
      BY <1>2, <1>3
    <2> QED BY <2>1, <1>1, FewCredentials DEF SavedInv
  <1>6. Scheme(a) = MeantScheme(l)
    <2>1. a["user"] = l["user"] /\ (a["nkey"] = "" <=> l["nkey"] = "") /\ (a["jwt"] = "" <=> l["jwt"] = "")
      BY <1>4, StaysSet, FieldNames DEF Rest
    <2>2. CASE l["nsc"] = ""
      <3>1. a["creds"] = "" <=> l["creds"] = ""
        BY <2>2, <1>4, StaysSet DEF CredsKept
      <3>2. /\ Creds(Payload(l)) = l["creds"]
            /\ \A f \in {"user", "nkey", "jwt"} : Payload(l)[f] = l[f]
        BY <1>1, FieldNames DEF Payload, ContextInv, IsSettings, Creds
      <3>3. Creds(a) = a["creds"]
        BY <1>4 DEF Creds, LookupGone
      <3> QED BY <2>1, <2>2, <3>1, <3>2, <3>3 DEF Scheme, MeantScheme
    <2>3. CASE l["nsc"] # ""
      <3>1. a["creds"] # ""
        BY <2>3, <1>4, StaysSet DEF CredsKept
      <3> QED BY <2>1, <2>3, <3>1 DEF Scheme, MeantScheme, Creds
    <2> QED BY <2>2, <2>3
  <1>7. ctx.optsOut \/ Meaning(a) = ctx.meant
    <2>1. ServerURL(a) = ServerURL(payload)
      BY <1>1, <1>2, <1>4 DEF ServerURL, LookupGone
    <2>2. ctx.optsOut \/ ServerURL(a) = ctx.meant.server
      BY <2>1, <1>1 DEF SavedInv, Migrated, ContextInv
    <2>3. ctx.meant = [server |-> ctx.meant.server, scheme |-> Scheme(a)]
      BY <1>1, <1>6 DEF ContextInv
    <2> QED BY <2>2, <2>3 DEF Meaning
  <1>8. ctx.asked /\ machine.files /\ NATSOptions(l, machine)
          /\ (Creds(a) = "nsc" => machine.nsc # "missing") => NATSOptions(a, machine)
    BY <1>1, <1>4, <1>6, StillConnects DEF ContextInv
  <1>9. ASSUME ctx.embedded, "nsc" \notin local, "file" \notin {a["password"], a["token"]},
               NATSOptions(a, [machine EXCEPT !.files = TRUE])
        PROVE  NATSOptions(a, [machine EXCEPT !.files = FALSE])
    <2>1. \A f \in {"password", "token", "creds", "nkey", "jwt", "seed"} : a[f] # "nsc"
      BY <1>9
    <2>2. \A f \in FileFields : a[f] \notin {"bare", "file"}
      BY <1>1, <1>2, <1>3, <1>9 DEF SavedInv
    <2> HIDE DEF local
    <2> QED BY <2>1, <2>2, <1>1, <1>4, <1>9, NeedsNoFile
  <1>10. a["nsc"] = ""
    BY <1>4 DEF LookupGone
  <1> QED BY <1>5, <1>7, <1>8, <1>9, <1>10 DEF SaveKeepsMeaning, a

\* Whatever the payload, the options and the machine's losses, and however many
\* saves failed before: the saved context connects to the server and with the
\* kind of credentials it was loaded with, the deprecated lookup is gone, and
\* an embedded one needs no credential file (Context.Save, SaveEmbedded,
\* migrateNSCLookup, embedFileCredentials, NATSOptions).
THEOREM SavedMeans == SettingsSpec => []SaveKeepsMeaning
<1>1. SettingsInit => SettingsInv
  <2> SUFFICES ASSUME SettingsInit PROVE SettingsInv
    OBVIOUS
  <2>1. ctx.is = "none"
    BY DEF SettingsInit, NoContext
  <2>2. payload \in [Fields -> STRING] /\ \A f \in Asking : payload[f] = ""
    BY SettingsAssumption DEF SettingsInit
  <2>3. IsSettings(payload)
    BY <2>2 DEF IsSettings
  <2> QED BY <2>1, <2>2, <2>3 DEF SettingsInit, SettingsInv
<1>2. SettingsInv /\ [SettingsNext]_settingsVars => SettingsInv'
  <2> SUFFICES ASSUME SettingsInv, [SettingsNext]_settingsVars PROVE SettingsInv'
    OBVIOUS
  <2>1. CASE \E opts \in OptionSets, raw \in BOOLEAN : LoadSettings(opts, raw)
    BY <2>1, LoadKeepsSettingsInv
  <2>2. CASE \E embedding \in BOOLEAN : SaveSettings(embedding)
    BY <2>2, SaveKeepsSettingsInv
  <2>3. CASE Embed
    <3>1. MadeOf(ctx.loaded, embedFileCredentials(ctx.settings, machine), ctx.meant.server)
      BY <2>3, EmbedKeeps DEF Embed, SettingsInv, LoadedInv
    <3> QED BY <2>3, <3>1, ChangeKeepsSettingsInv DEF Embed
  <2>4. CASE ChangeMachine
    BY <2>4, MachineKeepsSettingsInv
  <2>5. CASE UNCHANGED settingsVars
    <3>1. ContextInv => ContextInv'
      BY <2>5 DEF settingsVars, ContextInv
    <3>2. (LoadedInv => LoadedInv') /\ (SavedInv => SavedInv')
      BY <2>5, <3>1 DEF settingsVars, LoadedInv, SavedInv, MeantServer
    <3> QED BY <2>5, <3>2 DEF settingsVars, SettingsInv
  <2> QED BY <2>1, <2>2, <2>3, <2>4, <2>5 DEF SettingsNext
<1>3. SettingsInv => SaveKeepsMeaning
  BY SavedKeepsMeaning
<1> QED BY <1>1, <1>2, <1>3, PTL DEF SettingsSpec
=============================================================================
