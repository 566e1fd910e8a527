-------------------------- MODULE BackupFileProofs --------------------------
(***************************************************************************)
(* The file of a backup: how it is published and how it is read.           *)
(*                                                                         *)
(* BackupTarget for any set of writers: type correctness, that a published *)
(* backup is complete, that error returns leave no staging directory, that *)
(* the whole implements AtomicPublish, and what the key file beside an     *)
(* obfuscated backup still reveals.                                        *)
(*                                                                         *)
(* BackupDecoder for every set of archives, of any length and with any     *)
(* sequence numbers: it accepts only restorable archives and refuses only  *)
(* those that are not.  Its inductive invariant says, phase by phase, what *)
(* the entries up to ordinal are known to be and what lastSeq and          *)
(* consumersLeft stand for.  The report counts what was decoded.           *)
(***************************************************************************)
EXTENDS BackupTarget, BackupDecoder, TLAPS

\* The steps between the sync of the meta file and the rename.
Finishing == {"keyFile", "rename", "remove", "renameAgain"}

\* What is about to be renamed is complete, and stays so: only a writer that is done is published,
\* and it takes no further step.
PublishedIsDone ==
    /\ \A w \in Writers : pc[w] \in {"meta", "metaSync"} => dir[w].arc = "synced"
    /\ \A w \in Writers : pc[w] \in Finishing => Complete(dir[w])
    /\ final \in Writers => pc[final] = "done" /\ Complete(dir[final])

\* No staging directory exists before newTarget made it.
NotStagedYet ==
    \A w \in Writers : pc[w] \in {"obfuscator", "target", "done", "failed"} => ~staged[w]

IInv == TypeOK /\ PublishedIsDone /\ NotStagedYet

-----------------------------------------------------------------------------
LEMMA InitTypeOK == Init => TypeOK
BY WritersAssumption DEF Init, TypeOK, Dir, ArcStates, MetaStates, NoFiles, Key, Secrets,
     Steps, Stopped

\* Every step of a writer and every loss of power keeps the types.
LEMMA NextTypeOK == TypeOK /\ [Next]_vars => TypeOK'
<1> SUFFICES ASSUME TypeOK, [Next]_vars PROVE TypeOK'
  OBVIOUS
<1> USE WritersAssumption DEF TypeOK, Steps, Stopped, Goto
<1>1. ASSUME NEW w \in Writers, newObfuscator(w) PROVE TypeOK'
  <2>1. keyFile # NoKey => [secret |-> keyFile.secret, map |-> keyFile.map \cup {w}] \in Key
    BY DEF Key, Secrets
  <2>2. key' \in [Writers -> Key]
    <3>1. CASE key' = key BY <3>1
    <3>2. CASE /\ keyFile # NoKey
               /\ key' = [key EXCEPT ![w] = [secret |-> keyFile.secret,
                                             map    |-> keyFile.map \cup {w}]]
      BY <2>1, <3>2
    <3> QED BY <1>1, <3>1, <3>2 DEF newObfuscator
  <2>3. pc' \in [Writers -> Steps \cup Stopped]
    BY <1>1 DEF newObfuscator
  <2> QED BY <1>1, <2>2, <2>3 DEF newObfuscator
<1>2. ASSUME NEW w \in Writers, newTarget(w) PROVE TypeOK'
  BY <1>2 DEF newTarget
<1>3. ASSUME NEW w \in Writers, archive(w) \/ WriteEnd(w) \/ patch(w) \/ Close(w) PROVE TypeOK'
  <2>1. CASE archive(w) BY <2>1 DEF archive, Dir, ArcStates, MetaStates
  <2>2. CASE WriteEnd(w) BY <2>2 DEF WriteEnd, Dir, ArcStates, MetaStates
  <2>3. CASE patch(w) BY <2>3 DEF patch, Dir, ArcStates, MetaStates
  <2>4. CASE Close(w) BY <2>4 DEF Close, Dir, ArcStates, MetaStates
  <2> QED BY <1>3, <2>1, <2>2, <2>3, <2>4
<1>4. ASSUME NEW w \in Writers, writeMeta(w) \/ syncMeta(w) PROVE TypeOK'
  <2>1. CASE writeMeta(w) BY <2>1 DEF writeMeta, Dir, ArcStates, MetaStates
  <2>2. CASE syncMeta(w) BY <2>2 DEF syncMeta, Dir, ArcStates, MetaStates
  <2> QED BY <1>4, <2>1, <2>2
<1>5. ASSUME NEW w \in Writers, writeKeyFile(w) PROVE TypeOK'
  <2>1. keyFile' \in Key \cup {NoKey}
    BY <1>5 DEF writeKeyFile
  <2>2. created' \in [Writers -> BOOLEAN] /\ pc' \in [Writers -> Steps \cup Stopped]
    BY <1>5 DEF writeKeyFile
  <2> QED BY <1>5, <2>1, <2>2 DEF writeKeyFile
<1>6. ASSUME NEW w \in Writers, commit(w) \/ removeTarget(w) \/ renameAgain(w) PROVE TypeOK'
  BY <1>6 DEF commit, removeTarget, renameAgain, Renamed, CommitFailed
<1>7. ASSUME NEW w \in Writers, dropKeyFile(w) \/ StepFails(w) \/ Crash(w) PROVE TypeOK'
  BY <1>7 DEF dropKeyFile, StepFails, Crash
<1>8. ASSUME NEW w \in Writers, discard(w) PROVE TypeOK'
  BY <1>8 DEF discard, Dir, NoFiles, ArcStates, MetaStates
<1>9. ASSUME PowerLoss PROVE TypeOK'
  <2>1. \A w \in Writers : Torn(dir[w]) \in Dir
    BY DEF Torn, Dir, ArcStates, MetaStates
  <2> QED BY <1>9, <2>1 DEF PowerLoss
<1>10. ASSUME UNCHANGED vars PROVE TypeOK'
  BY <1>10 DEF vars
<1> QED
  BY <1>1, <1>2, <1>3, <1>4, <1>5, <1>6, <1>7, <1>8, <1>9, <1>10 DEF Next, Write, Finished

\* Every variable keeps its type, whatever the writers do and wherever they stop.
THEOREM TypeCorrect == Spec => []TypeOK
BY InitTypeOK, NextTypeOK, PTL DEF Spec

-----------------------------------------------------------------------------
LEMMA InitIInv == Init => IInv
<1> SUFFICES ASSUME Init PROVE IInv
  OBVIOUS
<1>1. PublishedIsDone
  BY WritersAssumption DEF Init, PublishedIsDone, Finishing
<1>2. NotStagedYet
  BY DEF Init, NotStagedYet
<1> QED BY <1>1, <1>2, InitTypeOK DEF IInv

\* A complete directory has nothing left that a loss of power could tear.
LEMMA CompleteNotTorn == ASSUME NEW d \in Dir, Complete(d) PROVE Complete(Torn(d))
BY DEF Complete, Torn, Dir, ArcStates, MetaStates

LEMMA NextPublishedIsDone == IInv /\ [Next]_vars => PublishedIsDone'
<1> SUFFICES ASSUME IInv, [Next]_vars PROVE PublishedIsDone'
  OBVIOUS
<1> USE WritersAssumption DEF IInv, TypeOK, PublishedIsDone, Finishing, Goto, Complete, Dir
<1>1. ASSUME NEW w \in Writers, newObfuscator(w) \/ newTarget(w) PROVE PublishedIsDone'
  BY <1>1 DEF newObfuscator, newTarget
<1>2. ASSUME NEW w \in Writers, archive(w) \/ WriteEnd(w) \/ patch(w) PROVE PublishedIsDone'
  <2>1. CASE archive(w) BY <2>1 DEF archive
  <2>2. CASE WriteEnd(w) BY <2>2 DEF WriteEnd
  <2>3. CASE patch(w) BY <2>3 DEF patch
  <2> QED BY <1>2, <2>1, <2>2, <2>3
<1>3. ASSUME NEW w \in Writers, Close(w) PROVE PublishedIsDone'
  BY <1>3 DEF Close
<1>4. ASSUME NEW w \in Writers, writeMeta(w) PROVE PublishedIsDone'
  BY <1>4 DEF writeMeta
<1>5. ASSUME NEW w \in Writers, syncMeta(w) PROVE PublishedIsDone'
  BY <1>5 DEF syncMeta
<1>6. ASSUME NEW w \in Writers, writeKeyFile(w) \/ dropKeyFile(w) PROVE PublishedIsDone'
  BY <1>6 DEF writeKeyFile, dropKeyFile
<1>7. ASSUME NEW w \in Writers, commit(w) \/ renameAgain(w) PROVE PublishedIsDone'
  BY <1>7 DEF commit, renameAgain, Renamed, CommitFailed, CanRename
<1>8. ASSUME NEW w \in Writers, removeTarget(w) PROVE PublishedIsDone'
  BY <1>8 DEF removeTarget, CommitFailed
<1>9. ASSUME NEW w \in Writers, discard(w) \/ StepFails(w) \/ Crash(w) PROVE PublishedIsDone'
  <2>1. CASE discard(w) BY <2>1 DEF discard, Building, Steps
  <2>2. CASE StepFails(w) BY <2>2 DEF StepFails, Building, Steps
  <2>3. CASE Crash(w) BY <2>3 DEF Crash, Building, Steps
  <2> QED BY <1>9, <2>1, <2>2, <2>3
<1>10. ASSUME PowerLoss PROVE PublishedIsDone'
  <2>1. \A w \in Writers : Complete(dir[w]) => Complete(dir'[w])
    BY <1>10, CompleteNotTorn DEF PowerLoss
  <2> QED BY <1>10, <2>1 DEF PowerLoss, Steps
<1>11. ASSUME UNCHANGED vars PROVE PublishedIsDone'
  BY <1>11 DEF vars
<1> QED
  BY <1>1, <1>2, <1>3, <1>4, <1>5, <1>6, <1>7, <1>8, <1>9, <1>10, <1>11 DEF Next, Write, Finished

LEMMA NextNotStagedYet == IInv /\ [Next]_vars => NotStagedYet'
<1> SUFFICES ASSUME IInv, [Next]_vars PROVE NotStagedYet'
  OBVIOUS
<1> USE DEF IInv, TypeOK, NotStagedYet, Goto
<1>1. ASSUME NEW w \in Writers, newObfuscator(w) \/ newTarget(w) PROVE NotStagedYet'
  BY <1>1 DEF newObfuscator, newTarget
<1>2. ASSUME NEW w \in Writers, archive(w) \/ WriteEnd(w) \/ patch(w) \/ Close(w) \/ writeMeta(w)
      PROVE NotStagedYet'
  BY <1>2 DEF archive, WriteEnd, patch, Close, writeMeta
<1>3. ASSUME NEW w \in Writers, syncMeta(w) \/ writeKeyFile(w) \/ dropKeyFile(w) PROVE NotStagedYet'
  BY <1>3 DEF syncMeta, writeKeyFile, dropKeyFile
<1>4. ASSUME NEW w \in Writers, commit(w) \/ removeTarget(w) \/ renameAgain(w) PROVE NotStagedYet'
  BY <1>4 DEF commit, removeTarget, renameAgain, Renamed, CommitFailed
<1>5. ASSUME NEW w \in Writers, discard(w) \/ StepFails(w) \/ Crash(w) PROVE NotStagedYet'
  BY <1>5 DEF discard, StepFails, Crash
<1>6. ASSUME PowerLoss PROVE NotStagedYet'
  BY <1>6 DEF PowerLoss
<1>7. ASSUME UNCHANGED vars PROVE NotStagedYet'
  BY <1>7 DEF vars
<1> QED
  BY <1>1, <1>2, <1>3, <1>4, <1>5, <1>6, <1>7 DEF Next, Write, Finished

\* The inductive invariant holds of every reachable state.
THEOREM Invariance == Spec => []IInv
<1>1. IInv /\ [Next]_vars => IInv'
  BY NextTypeOK, NextPublishedIsDone, NextNotStagedYet DEF IInv
<1> QED BY InitIInv, <1>1, PTL DEF Spec

\* target.go's promise for any number of writers: a target that holds a backup holds all of it on disk.
THEOREM FinalComplete == Spec => []FinalIsComplete
<1>1. IInv => FinalIsComplete
  BY DEF IInv, PublishedIsDone, FinalIsComplete
<1> QED BY Invariance, <1>1, PTL

\* Edit and Recorder.Close leave no staging directory behind when they return, with or without an error.
THEOREM StagingIsRemoved == Spec => []StagingRemoved
<1>1. IInv => StagingRemoved
  BY DEF IInv, NotStagedYet, StagingRemoved
<1> QED BY Invariance, <1>1, PTL

-----------------------------------------------------------------------------
(* The refinement of AtomicPublish.                                        *)

LEMMA InitRefines == Init => AP!Init
BY WritersAssumption DEF Init, AP!Init, Published, Outcome

\* A step that takes w to another step or to an error, and publishes nothing.
NoPublish(w) ==
    /\ \E s \in Steps \cup {"failed", "crashed"} : pc' = [pc EXCEPT ![w] = s]
    /\ final' = final \/ (final \notin Writers /\ final' \notin Writers)

Publishes(w) ==
    /\ pc' = [pc EXCEPT ![w] = "done"]
    /\ final \notin Writers
    /\ final' = w

\* What the abstract specification sees of a writer's step.
LEMMA WriterStep ==
    ASSUME TypeOK, NEW w \in Writers, Write(w) \/ Crash(w)
    PROVE  pc[w] \in Steps /\ (NoPublish(w) \/ Publishes(w))
<1> USE WritersAssumption DEF NoPublish, Publishes, Steps, Goto
<1>1. CASE newObfuscator(w) \/ newTarget(w)
  BY <1>1 DEF newObfuscator, newTarget
<1>2. CASE archive(w) \/ WriteEnd(w) \/ patch(w) \/ Close(w) \/ writeMeta(w) \/ syncMeta(w)
  BY <1>2 DEF archive, WriteEnd, patch, Close, writeMeta, syncMeta
<1>3. CASE writeKeyFile(w) \/ dropKeyFile(w) \/ discard(w)
  BY <1>3 DEF writeKeyFile, dropKeyFile, discard
<1>4. CASE commit(w) \/ renameAgain(w)
  BY <1>4 DEF commit, renameAgain, Renamed, CanRename, CommitFailed
<1>5. CASE removeTarget(w)
  BY <1>5 DEF removeTarget, CommitFailed
<1>6. CASE StepFails(w) \/ Crash(w)
  BY <1>6 DEF StepFails, Crash, Building
<1> QED BY <1>1, <1>2, <1>3, <1>4, <1>5, <1>6 DEF Write

LEMMA StepRefines == IInv /\ IInv' /\ [Next]_vars => [AP!Next]_(AP!vars)
<1> SUFFICES ASSUME IInv, IInv', [Next]_vars PROVE [AP!Next]_(AP!vars)
  OBVIOUS
<1> DEFINE Val == IF final \in Writers THEN final ELSE NoDir
<1>1. Published = Val /\ Published' = Val'
  BY DEF IInv, PublishedIsDone, Published
<1>2. pc \in [Writers -> Steps \cup Stopped] /\ NoDir \notin Writers
  BY WritersAssumption DEF IInv, TypeOK
<1>3. ASSUME NEW w \in Writers, pc[w] \in Steps, NoPublish(w) PROVE [AP!Next]_(AP!vars)
  <2>1. Published' = Published
    BY <1>1, <1>3 DEF NoPublish
  <2>2. PICK s \in Steps \cup {"failed", "crashed"} : pc' = [pc EXCEPT ![w] = s]
    BY <1>3 DEF NoPublish
  <2>3. CASE s \in Steps
    <3>1. Outcome' = Outcome
      BY <1>2, <1>3, <2>2, <2>3 DEF Outcome, Steps
    <3> QED BY <2>1, <3>1 DEF AP!vars
  <2>4. CASE s \in {"failed", "crashed"}
    <3>1. Outcome[w] = "running"
      BY <1>3 DEF Outcome, Steps
    <3>2. Outcome' = [v \in Writers |-> IF v \in {w} THEN "error" ELSE Outcome[v]]
      BY <1>2, <2>2, <2>4 DEF Outcome
    <3>3. AP!Abort({w})
      BY <2>1, <3>1, <3>2 DEF AP!Abort
    <3> QED BY <3>3 DEF AP!Next
  <2> QED BY <2>2, <2>3, <2>4
<1>4. ASSUME NEW w \in Writers, pc[w] \in Steps, Publishes(w) PROVE AP!Next
  <2>1. Published = NoDir /\ Published' = w
    BY <1>1, <1>4 DEF Publishes
  <2>2. Outcome[w] = "running"
    BY <1>4 DEF Outcome, Steps
  <2>3. Outcome' = [Outcome EXCEPT ![w] = "ok"]
    BY <1>2, <1>4 DEF Outcome, Publishes
  <2> QED BY <2>1, <2>2, <2>3 DEF AP!Next, AP!Publish
<1>5. ASSUME PowerLoss PROVE AP!Next
  <2> DEFINE S == {v \in Writers : pc[v] \in Steps}
  <2>1. Published' = Published
    BY <1>1, <1>5 DEF PowerLoss
  <2>2. \A v \in S : Outcome[v] = "running"
    BY DEF Outcome, Steps
  <2>3. Outcome' = [v \in Writers |-> IF v \in S THEN "error" ELSE Outcome[v]]
    BY <1>2, <1>5 DEF Outcome, PowerLoss
  <2> QED BY <2>1, <2>2, <2>3 DEF AP!Next, AP!Abort
<1>6. ASSUME UNCHANGED vars PROVE UNCHANGED AP!vars
  BY <1>6 DEF vars, AP!vars, Published, Outcome
<1> QED
  BY <1>3, <1>4, <1>5, <1>6, WriterStep DEF IInv, Next, Finished

\* Any number of writers racing for one target implement atomic publication: one rename decides, and
\* no error, kill or loss of power can be seen halfway.
THEOREM Refinement == Spec => ImplementsAtomicPublish
BY InitRefines, StepRefines, Invariance, PTL DEF Spec, ImplementsAtomicPublish, AP!Spec

-----------------------------------------------------------------------------
(* The key file beside an obfuscated backup.                               *)

Early == {"obfuscator", "target"} \cup Building
Ended == {"discard", "failed", "crashed"}
Live  == {"rename", "remove", "renameAgain", "dropKey", "done"}

\* Only an edit without a key file of its own links one, on its way to the commit.
Linked ==
    /\ \A w \in Writers : created[w] => w \in Obfuscators \ KeyReusers /\ pc[w] \notin Early
    /\ \A w \in Obfuscators \ KeyReusers : pc[w] \in Live => created[w]
    /\ \A w \in Writers : pc[w] = "dropKey" => created[w]
    /\ \A w \in Writers : pc[w] = "keyFile" => w \in Obfuscators

\* One edit at a time has a linked file that it may still drop, and until then the
\* file is its own or that of an edit which was given it.
OneOwner ==
    /\ \A v, w \in Writers : created[v] /\ created[w] /\ pc[v] \in Live /\ pc[w] \in Live => v = w
    /\ \A w \in Writers :
          created[w] /\ pc[w] \in Live => keyFile = key[w] \/ \E r \in Writers \ {w} : Replaced(r)

\* An edit that was given the file finds its own there unless one of the two happened.
ReuserKey ==
    \A w \in KeyReusers :
        pc[w] \in Live =>
            \/ keyFile = key[w]
            \/ \E r \in Writers \ {w} : Replaced(r)
            \/ \E v \in Writers \ {w} : MayHaveDropped(v)

KeyInv == Linked /\ OneOwner /\ ReuserKey

LEMMA Phases ==
    /\ Early \cap Ended = {} /\ Early \cap Live = {} /\ Live \cap Ended = {}
    /\ Early \cup Ended \cup Live = Steps \cup Stopped
BY DEF Early, Ended, Live, Building, Steps, Stopped

LEMMA InitKeyInv == Init => KeyInv
<1> SUFFICES ASSUME Init PROVE KeyInv
  OBVIOUS
<1>1. \A w \in Writers : ~created[w] /\ pc[w] \notin Live /\ pc[w] # "keyFile"
  BY DEF Init, Live
<1> QED BY <1>1, WritersAssumption DEF KeyInv, Linked, OneOwner, ReuserKey, Live

\* A step that leaves the key file alone and takes every writer forward.
LEMMA ForwardStep ==
    ASSUME TypeOK, KeyInv, UNCHANGED <<keyFile, created>>,
           \A v \in Writers :
              /\ pc'[v] \in Live /\ v \in Obfuscators => pc[v] \in Live
              /\ pc'[v] = "dropKey" => created[v]
              /\ pc'[v] = "keyFile" => v \in Obfuscators
              /\ pc[v] \notin Early => pc'[v] \notin Early /\ key'[v] = key[v]
              /\ pc[v] \in Ended => pc'[v] \in Ended
    PROVE  KeyInv'
<1> USE WritersAssumption
<1>1. \A v \in Writers : Replaced(v) => Replaced(v)'
  BY DEF Replaced, Early
<1>2. \A v \in Writers : MayHaveDropped(v) => MayHaveDropped(v)'
  BY DEF MayHaveDropped, Ended
<1>3. Linked'
  BY DEF KeyInv, Linked
<1>4. OneOwner'
  BY <1>1, Phases DEF KeyInv, OneOwner, Linked
<1>5. ReuserKey'
  BY <1>1, <1>2, Phases DEF KeyInv, ReuserKey
<1> QED BY <1>3, <1>4, <1>5 DEF KeyInv

\* The same for a step of one writer.
LEMMA MoveForward ==
    ASSUME TypeOK, KeyInv, NEW w \in Writers, NEW s, pc' = [pc EXCEPT ![w] = s],
           UNCHANGED <<keyFile, created>>,
           \A v \in Writers : v # w \/ pc[v] \notin Early => key'[v] = key[v],
           s \in Live /\ w \in Obfuscators => pc[w] \in Live,
           s = "dropKey" => created[w],
           s = "keyFile" => w \in Obfuscators,
           pc[w] \notin Early => s \notin Early,
           pc[w] \in Ended => s \in Ended
    PROVE  KeyInv'
<1>1. /\ pc'[w] = s
      /\ \A v \in Writers \ {w} : pc'[v] = pc[v]
  BY DEF TypeOK
<1>2. \A v \in Writers : /\ pc[v] = "dropKey" => created[v]
                         /\ pc[v] = "keyFile" => v \in Obfuscators
  BY DEF KeyInv, Linked
<1>3. \A v \in Writers :
         /\ pc'[v] \in Live /\ v \in Obfuscators => pc[v] \in Live
         /\ pc'[v] = "dropKey" => created[v]
         /\ pc'[v] = "keyFile" => v \in Obfuscators
         /\ pc[v] \notin Early => pc'[v] \notin Early /\ key'[v] = key[v]
         /\ pc[v] \in Ended => pc'[v] \in Ended
  BY <1>1, <1>2
<1> QED BY <1>3, ForwardStep

\* The three outcomes of writeKeyFile.
LEMMA KeyFileStep ==
    ASSUME TypeOK, KeyInv, NEW w \in Writers, writeKeyFile(w)
    PROVE  KeyInv'
<1> USE WritersAssumption DEF TypeOK, Goto
<1>1. pc[w] = "keyFile" /\ pc[w] \in Early /\ UNCHANGED key
  BY DEF writeKeyFile, Early, Building
<1>2. \A v \in Writers \ {w} : pc'[v] = pc[v]
  BY DEF writeKeyFile
<1>3. \A v \in Writers : key[v] # NoKey
  OBVIOUS
<1>4. ~created[w] /\ w \in Obfuscators
  BY <1>1 DEF KeyInv, Linked
<1>5. CASE w \in KeyReusers /\ keyFile' = key[w] /\ pc' = [pc EXCEPT ![w] = "rename"] /\ UNCHANGED created
  <2>1. pc'[w] = "rename" /\ Replaced(w)'
    BY <1>1, <1>5 DEF Replaced, Building
  <2>2. Linked'
    BY <1>2, <1>4, <1>5, <2>1 DEF KeyInv, Linked, Early, Building
  <2>3. OneOwner'
    BY <1>2, <1>4, <1>5, <2>1 DEF KeyInv, OneOwner
  <2>4. ReuserKey'
    BY <1>1, <1>2, <1>5, <2>1 DEF KeyInv, ReuserKey
  <2> QED BY <2>2, <2>3, <2>4 DEF KeyInv
<1>6. CASE /\ w \notin KeyReusers /\ keyFile = NoKey /\ keyFile' = key[w]
           /\ created' = [created EXCEPT ![w] = TRUE] /\ pc' = [pc EXCEPT ![w] = "rename"]
  <2>1. pc'[w] = "rename" /\ created'[w] /\ \A v \in Writers \ {w} : created'[v] = created[v]
    BY <1>6
  <2>2. \A v \in Writers : ~Replaced(v)
    BY <1>3, <1>6 DEF Replaced
  <2>3. \A v \in Writers : ~(created[v] /\ pc[v] \in Live)
    BY <1>3, <1>6, <2>2 DEF KeyInv, OneOwner
  <2>4. \A v \in Writers \ {w} : MayHaveDropped(v) => MayHaveDropped(v)'
    BY <1>2, <2>1 DEF MayHaveDropped
  <2>5. Linked'
    BY <1>2, <1>4, <1>6, <2>1 DEF KeyInv, Linked, Early, Building
  <2>6. OneOwner'
    BY <1>1, <1>2, <1>6, <2>1, <2>3 DEF OneOwner
  <2>7. ReuserKey'
    <3>1. ~MayHaveDropped(w)
      BY <1>4 DEF MayHaveDropped
    <3> QED BY <1>2, <1>3, <1>6, <2>2, <2>4, <3>1 DEF KeyInv, ReuserKey
  <2> QED BY <2>5, <2>6, <2>7 DEF KeyInv
<1>7. CASE pc' = [pc EXCEPT ![w] = "discard"] /\ UNCHANGED <<keyFile, created>>
  BY <1>1, <1>7, MoveForward DEF Ended, Live, Early, Building
<1> QED BY <1>5, <1>6, <1>7 DEF writeKeyFile

\* The edit that owns the file drops it, whoever has replaced it.
LEMMA DropStep ==
    ASSUME TypeOK, KeyInv, NEW w \in Writers, dropKeyFile(w)
    PROVE  KeyInv'
<1> USE WritersAssumption DEF TypeOK, Goto
<1>1. pc[w] = "dropKey" /\ pc'[w] = "discard" /\ UNCHANGED <<key, created>>
  BY DEF dropKeyFile
<1>2. \A v \in Writers \ {w} : pc'[v] = pc[v]
  BY DEF dropKeyFile
<1>3. created[w] /\ w \in Obfuscators \ KeyReusers /\ pc[w] \in Live
  BY <1>1 DEF KeyInv, Linked, Live
<1>4. \A v \in Writers \ {w} : ~(created[v] /\ pc[v] \in Live)
  BY <1>3 DEF KeyInv, OneOwner
<1>5. MayHaveDropped(w)' /\ pc'[w] \notin Live /\ pc'[w] \notin Early
  BY <1>1, <1>3 DEF MayHaveDropped, Live, Early, Building
<1>6. Linked'
  BY <1>1, <1>2, <1>3, <1>5 DEF KeyInv, Linked
<1>7. OneOwner'
  BY <1>1, <1>2, <1>4, <1>5 DEF OneOwner
<1>8. ReuserKey'
  BY <1>3, <1>5 DEF ReuserKey
<1> QED BY <1>6, <1>7, <1>8 DEF KeyInv

LEMMA NextKeyInv ==
    ASSUME TypeOK, KeyInv, [Next]_vars
    PROVE  KeyInv'
<1> USE WritersAssumption DEF TypeOK, Goto
<1>1. ASSUME NEW w \in Writers, newObfuscator(w) PROVE KeyInv'
  <2> DEFINE s == pc'[w]
  <2>1. pc[w] = "obfuscator" /\ UNCHANGED <<keyFile, created>>
    BY <1>1 DEF newObfuscator
  <2>2. s \in {"target", "failed"} /\ pc' = [pc EXCEPT ![w] = s]
    BY <1>1 DEF newObfuscator
  <2>3. \A v \in Writers : v # w \/ pc[v] \notin Early => key'[v] = key[v]
    BY <1>1, <2>1 DEF newObfuscator, Early
  <2> HIDE DEF s
  <2> QED BY <2>1, <2>2, <2>3, MoveForward DEF Early, Ended, Live
<1>2. ASSUME NEW w \in Writers,
             newTarget(w) \/ archive(w) \/ WriteEnd(w) \/ patch(w) \/ Close(w) \/ writeMeta(w)
               \/ syncMeta(w) \/ StepFails(w)
      PROVE  KeyInv'
  <2> DEFINE s == pc'[w]
  <2>1. pc[w] \in Early /\ UNCHANGED <<keyFile, created, key>>
    BY <1>2 DEF newTarget, archive, WriteEnd, patch, Close, writeMeta, syncMeta, StepFails, Early,
         Building
  <2>2. /\ pc' = [pc EXCEPT ![w] = s]
        /\ s \in Early \cup {"failed", "discard", "rename"}
        /\ s = "rename" => w \notin Obfuscators
        /\ s = "keyFile" => w \in Obfuscators
    BY <1>2 DEF newTarget, archive, WriteEnd, patch, Close, writeMeta, syncMeta, StepFails, Early,
         Building
  <2> HIDE DEF s
  <2> QED BY <2>1, <2>2, MoveForward DEF Early, Ended, Live, Building
<1>3. ASSUME NEW w \in Writers, writeKeyFile(w) PROVE KeyInv'
  BY <1>3, KeyFileStep
<1>4. ASSUME NEW w \in Writers, commit(w) \/ removeTarget(w) \/ renameAgain(w) PROVE KeyInv'
  <2> DEFINE s == pc'[w]
  <2>1. pc[w] \in {"rename", "remove", "renameAgain"} /\ UNCHANGED <<keyFile, created, key>>
    BY <1>4 DEF commit, removeTarget, renameAgain
  <2>2. /\ pc' = [pc EXCEPT ![w] = s]
        /\ s \in {"done", "remove", "renameAgain", "discard", "dropKey"}
        /\ s = "dropKey" => created[w]
    BY <1>4 DEF commit, removeTarget, renameAgain, Renamed, CommitFailed
  <2> HIDE DEF s
  <2> QED BY <2>1, <2>2, MoveForward DEF Early, Ended, Live, Building
<1>5. ASSUME NEW w \in Writers, dropKeyFile(w) PROVE KeyInv'
  BY <1>5, DropStep
<1>6. ASSUME NEW w \in Writers, discard(w) PROVE KeyInv'
  BY <1>6, MoveForward DEF discard, Early, Ended, Live, Building
<1>7. ASSUME NEW w \in Writers, Crash(w) PROVE KeyInv'
  BY <1>7, MoveForward DEF Crash, Early, Ended, Live, Building
<1>8. ASSUME PowerLoss PROVE KeyInv'
  <2>1. UNCHANGED <<keyFile, created, key>>
        /\ \A v \in Writers : pc'[v] = "crashed" \/ pc'[v] = pc[v]
    BY <1>8 DEF PowerLoss
  <2>2. \A v \in Writers : /\ pc[v] = "dropKey" => created[v]
                           /\ pc[v] = "keyFile" => v \in Obfuscators
    BY DEF KeyInv, Linked
  <2> QED BY <2>1, <2>2, ForwardStep DEF Early, Ended, Live, Building
<1>9. ASSUME UNCHANGED vars PROVE KeyInv'
  <2>1. UNCHANGED <<keyFile, created, pc, key>>
    BY <1>9 DEF vars
  <2>2. \A v \in Writers : /\ pc[v] = "dropKey" => created[v]
                           /\ pc[v] = "keyFile" => v \in Obfuscators
    BY DEF KeyInv, Linked
  <2> QED BY <2>1, <2>2, ForwardStep
<1> QED
  BY <1>1, <1>2, <1>3, <1>4, <1>5, <1>6, <1>7, <1>8, <1>9 DEF Next, Write, Finished

\* Only a writer that is done is published, so its key file was in place before.
LEMMA KeyInvReveals ==
    ASSUME IInv, KeyInv
    PROVE  KeyRevealsBackup
<1> SUFFICES ASSUME final \in Obfuscators PROVE KeyRevealsBackup
  BY DEF KeyRevealsBackup
<1>1. final \in Writers /\ pc[final] \in Live
  BY WritersAssumption DEF IInv, PublishedIsDone, Live
<1>2. keyFile = key[final] => Reveals(keyFile, final)
  BY <1>1, WritersAssumption DEF IInv, TypeOK, Reveals
<1>3. CASE final \in KeyReusers
  BY <1>1, <1>2, <1>3 DEF KeyInv, ReuserKey, KeyRevealsBackup
<1>4. CASE final \notin KeyReusers
  BY <1>1, <1>2, <1>4 DEF KeyInv, Linked, OneOwner, KeyRevealsBackup
<1> QED BY <1>3, <1>4

\* "concurrent edits cannot delete each other's mappings" (backup/obfuscate.go:486), for any
\* number of edits, kills and losses of power: the key file beside a published obfuscated
\* backup reveals it, except where an edit given the target's own key file is involved in one
\* of the two ways KeyRevealsBackup names.
THEOREM KeyReveals == Spec => []KeyRevealsBackup
<1>1. Spec => [](IInv /\ KeyInv)
  <2>1. IInv /\ KeyInv /\ [Next]_vars => KeyInv'
    BY NextKeyInv DEF IInv
  <2> QED BY InitKeyInv, Invariance, <2>1, PTL DEF Spec
<1> QED BY <1>1, KeyInvReveals, PTL

-----------------------------------------------------------------------------
(* The decoder.                                                            *)

HeadRead == phase # "state" => ordinal >= 1 /\ IsState(input[1])

ConsumersRead ==
    phase = "consumers" =>
        /\ consumersLeft > 0
        /\ ordinal = input[1].consumers + 1 - consumersLeft
        /\ lastSeq = Pred(input[1].first)
        /\ \A i \in 2 .. ordinal : IsConsumer(input[i])

\* Before any message lastSeq is first_seq - 1, wrapped when first_seq is 0.
LastSeq == IF ordinal = input[1].consumers + 1 THEN Pred(input[1].first)
                                                ELSE input[ordinal].seq

MessagesRead ==
    phase = "messages" =>
        /\ input[1].consumers + 1 <= ordinal
        /\ lastSeq = LastSeq
        /\ \A i \in 2 .. input[1].consumers + 1 : IsConsumer(input[i])
        /\ \A i \in input[1].consumers + 2 .. ordinal :
              /\ IsMessage(input[i])
              /\ input[1].first > 0
              /\ input[i].seq >= input[1].first
              /\ input[i].seq <= lastSeq
        /\ \A i, j \in input[1].consumers + 2 .. ordinal :
              i < j => input[i].seq < input[j].seq

StateRead == phase = "state" => ordinal = 0

Decoded == StateRead /\ HeadRead /\ ConsumersRead /\ MessagesRead

DecoderInv == DecoderTypes /\ Decoded /\ AcceptsOnlyRestorable /\ RefusesOnlyBroken

\* What the type of the archive says of the entry at i.
LEMMA EntryType ==
    ASSUME DecoderTypes, NEW i \in 1 .. Len(input)
    PROVE  /\ input[i] \in Entry
           /\ input[i].seq \in Nat
           /\ input[i].seq <= MaxSeq
           /\ input[i].first \in Sequence
           /\ input[i].consumers \in Int
<1>1. input[i] \in Entry
  BY DEF DecoderTypes
<1> QED BY <1>1, MaxSeqAssumption DEF Entry, Sequence

\* first_seq - 1 is a sequence number, wrapped or not.
LEMMA PredType == \A x \in Sequence : Pred(x) \in Sequence
BY MaxSeqAssumption DEF Pred, Sequence

\* The updates of the report keep its type, one field at a time.
LEMMA ReportFields ==
    ASSUME NEW r \in Report, NEW n \in Nat, NEW s \in Sequence
    PROVE  /\ [r EXCEPT !.entries = n] \in Report
           /\ [r EXCEPT !.consumers = n] \in Report
           /\ [r EXCEPT !.messages = n] \in Report
           /\ [r EXCEPT !.first = s] \in Report
           /\ [r EXCEPT !.last = s] \in Report
           /\ [r EXCEPT !.complete = TRUE] \in Report
BY DEF Report

LEMMA ReportUpdates ==
    ASSUME NEW r \in Report, NEW s \in Sequence
    PROVE  /\ [r EXCEPT !.entries = @ + 1, !.consumers = @ + 1] \in Report
           /\ [r EXCEPT !.entries = @ + 1, !.complete = TRUE] \in Report
           /\ [r EXCEPT !.entries = @ + 1, !.messages = @ + 1,
                        !.first = IF @ = 0 THEN s ELSE @, !.last = s] \in Report
<1> DEFINE f  == IF r.first = 0 THEN s ELSE r.first
           r1 == [r EXCEPT !.entries = @ + 1]
           r2 == [r1 EXCEPT !.messages = @ + 1]
           r3 == [r2 EXCEPT !.first = f]
           r4 == [r3 EXCEPT !.last = s]
<1>1. r.entries + 1 \in Nat /\ r.consumers + 1 \in Nat /\ r.messages + 1 \in Nat /\ f \in Sequence
  BY DEF Report
<1>2. r1 \in Report /\ r1.consumers = r.consumers /\ r1.messages = r.messages
  BY <1>1, ReportFields DEF Report
<1>3. [r EXCEPT !.entries = @ + 1, !.consumers = @ + 1] = [r1 EXCEPT !.consumers = r.consumers + 1]
  BY DEF Report
<1>4. [r EXCEPT !.entries = @ + 1, !.complete = TRUE] = [r1 EXCEPT !.complete = TRUE]
  BY DEF Report
<1>5. [r EXCEPT !.entries = @ + 1, !.messages = @ + 1,
                !.first = IF @ = 0 THEN s ELSE @, !.last = s] = r4
  BY DEF Report
<1>6. [r1 EXCEPT !.consumers = r.consumers + 1] \in Report /\ [r1 EXCEPT !.complete = TRUE] \in Report
  BY <1>1, <1>2, ReportFields
<1>7. r2 \in Report
  BY <1>1, <1>2, ReportFields
<1>8. r3 \in Report
  <2> HIDE DEF r2, f
  <2> QED BY <1>1, <1>7, ReportFields
<1>9. r4 \in Report
  <2> HIDE DEF r3
  <2> QED BY <1>8, ReportFields
<1> QED BY <1>3, <1>4, <1>5, <1>6, <1>9

\* A new decoder satisfies the invariant.
LEMMA DecoderInit == NewDecoder => DecoderInv
<1> SUFFICES ASSUME NewDecoder PROVE DecoderInv
  OBVIOUS
<1>1. report \in Report
  BY MaxSeqAssumption DEF NewDecoder, Report, Sequence
<1>2. input \in Seq(Entry) /\ ordinal \in 0 .. Len(input)
  BY ArchivesAssumption DEF NewDecoder
<1>3. consumersLeft \in Nat /\ lastSeq \in Sequence
  BY MaxSeqAssumption DEF NewDecoder, Sequence
<1>4. phase \in {"state", "consumers", "messages", "done"} /\ err \in BOOLEAN
  BY DEF NewDecoder
<1>5. DecoderTypes
  BY <1>1, <1>2, <1>3, <1>4 DEF DecoderTypes
<1> QED BY <1>5 DEF DecoderInv, NewDecoder, Decoded, StateRead, HeadRead, ConsumersRead, MessagesRead,
              AcceptsOnlyRestorable, RefusesOnlyBroken

-----------------------------------------------------------------------------
\* Every step keeps the types.
LEMMA DecoderStepTypes == DecoderInv /\ [DecoderNext]_decoderVars => DecoderTypes'
<1> SUFFICES ASSUME DecoderInv, [DecoderNext]_decoderVars PROVE DecoderTypes'
  OBVIOUS
<1>1. DecoderTypes
  BY DEF DecoderInv
<1>2. ASSUME More PROVE /\ Hdr \in Entry /\ Hdr.seq \in Sequence /\ Hdr.first \in Sequence
                        /\ Hdr.consumers \in Int
                        /\ ordinal + 1 \in 0 .. Len(input)
  <2>1. ordinal + 1 \in 1 .. Len(input)
    BY <1>1, <1>2 DEF DecoderTypes, More
  <2> QED BY <1>1, <2>1, EntryType, MaxSeqAssumption DEF Hdr, Sequence
<1>3. CASE Fail \/ UNCHANGED decoderVars
  BY <1>1, <1>3 DEF Fail, decoderVars, DecoderTypes
<1>4. CASE decodeState
  <2>1. CASE IsState(Hdr) /\ advance /\ consumersLeft' = Hdr.consumers
             /\ lastSeq' = Pred(Hdr.first)
             /\ phase' = (IF Hdr.consumers = 0 THEN "messages" ELSE "consumers")
             /\ report' = [report EXCEPT !.entries = @ + 1]
    <3>1. report' \in Report
      BY <1>1, <2>1 DEF DecoderTypes, Report
    <3> QED BY <1>1, <1>2, <1>4, <2>1, <3>1, PredType DEF decodeState, DecoderTypes, advance, IsState
  <2> QED BY <1>3, <1>4, <2>1 DEF decodeState
<1>5. CASE decodeConsumer
  <2>1. CASE advance /\ consumersLeft' = consumersLeft - 1
             /\ phase' = (IF consumersLeft = 1 THEN "messages" ELSE phase)
             /\ report' = [report EXCEPT !.entries = @ + 1, !.consumers = @ + 1]
             /\ UNCHANGED lastSeq
    <3>1. report' \in Report
      BY <1>1, <2>1, ReportUpdates, MaxSeqAssumption DEF DecoderTypes, Sequence
    <3>2. consumersLeft > 0
      BY <1>5 DEF decodeConsumer, DecoderInv, Decoded, ConsumersRead
    <3> QED BY <1>1, <1>2, <1>5, <2>1, <3>1, <3>2 DEF decodeConsumer, DecoderTypes, advance
  <2> QED BY <1>3, <1>5, <2>1 DEF decodeConsumer
<1>6. CASE decodeMessage
  <2>1. CASE advance /\ lastSeq' = Hdr.seq
             /\ report' = [report EXCEPT !.entries = @ + 1, !.messages = @ + 1,
                                         !.first = IF @ = 0 THEN Hdr.seq ELSE @,
                                         !.last = Hdr.seq]
             /\ UNCHANGED <<phase, consumersLeft>>
    <3>1. report' \in Report
      BY <1>1, <1>2, <1>6, <2>1, ReportUpdates DEF decodeMessage, DecoderTypes
    <3> QED BY <1>1, <1>2, <1>6, <2>1, <3>1 DEF decodeMessage, DecoderTypes, advance
  <2>2. CASE advance /\ phase' = "done"
             /\ report' = [report EXCEPT !.entries = @ + 1, !.complete = TRUE]
             /\ UNCHANGED <<consumersLeft, lastSeq>>
    <3>1. report' \in Report
      BY <1>1, <2>2, ReportUpdates, MaxSeqAssumption DEF DecoderTypes, Sequence
    <3> QED BY <1>1, <1>2, <1>6, <2>2, <3>1 DEF decodeMessage, DecoderTypes, advance
  <2> QED BY <1>3, <1>6, <2>1, <2>2 DEF decodeMessage
<1> QED BY <1>3, <1>4, <1>5, <1>6 DEF DecoderNext, ReadFails, Returned

-----------------------------------------------------------------------------
\* A refusal is justified in every phase: the entry that was refused, or that
\* is missing, belongs to every restorable reading of the archive.
LEMMA FailJustified ==
    ASSUME DecoderInv, ReadFails \/ (Fail /\ (decodeState \/ decodeConsumer \/ decodeMessage))
    PROVE  ~Restorable(input)
<1> SUFFICES ASSUME NEW n \in DOMAIN input, RestorableAt(input, n) PROVE FALSE
  BY DEF Restorable
<1>1. DecoderTypes /\ Len(input) \in Nat /\ n \in 2 .. Len(input) /\ ordinal \in 0 .. Len(input)
  BY DEF DecoderInv, DecoderTypes, RestorableAt
<1>2. input[1].consumers \in Int /\ input[1].first \in Sequence /\ IsEnd(input[n])
  BY <1>1, EntryType DEF RestorableAt
<1>3. \A i \in 1 .. Len(input) : input[i].seq \in Nat
  BY <1>1, EntryType
<1>4. CASE phase = "state"
  <2>1. ordinal = 0
    BY <1>4 DEF DecoderInv, Decoded, StateRead
  <2>2. ~ReadFails
    BY <1>1, <2>1 DEF ReadFails
  <2> QED BY <1>1, <1>4, <2>1, <2>2 DEF Fail, decodeState, decodeConsumer, decodeMessage, advance,
                More, Hdr, RestorableAt
<1>5. CASE phase = "consumers"
  <2>1. ordinal + 1 \in 2 .. input[1].consumers + 1
    BY <1>1, <1>2, <1>5 DEF DecoderInv, Decoded, HeadRead, ConsumersRead, DecoderTypes
  <2>2. ~ReadFails
    BY <1>1, <1>2, <2>1 DEF ReadFails, RestorableAt
  <2>3. ~IsConsumer(Hdr)
    BY <1>1, <1>5, <2>2 DEF Fail, decodeState, decodeConsumer, decodeMessage, advance, More
  <2> QED BY <2>1, <2>3 DEF Hdr, RestorableAt
<1>6. CASE phase = "messages"
  <2>1. input[1].consumers + 1 <= ordinal /\ input[1].consumers >= 0
    BY <1>6 DEF DecoderInv, Decoded, HeadRead, MessagesRead, IsState
  <2>2. n > ordinal
    <3> SUFFICES ASSUME n <= ordinal PROVE FALSE
      BY <1>1
    <3>1. n \in input[1].consumers + 2 .. ordinal
      BY <1>1, <1>2 DEF RestorableAt
    <3> QED BY <1>2, <1>6, <3>1 DEF DecoderInv, Decoded, MessagesRead, IsMessage, IsEnd
  <2>3. ~ReadFails
    BY <1>1, <2>2 DEF ReadFails
  <2>4. ~IsEnd(Hdr) /\ (Hdr.seq <= lastSeq \/ ~IsMessage(Hdr))
    BY <1>1, <1>6, <2>3 DEF Fail, decodeState, decodeConsumer, decodeMessage, advance, More,
       DecoderTypes
  <2>5. n # ordinal + 1
    BY <1>2, <2>4 DEF Hdr
  <2>6. ordinal + 1 \in MessageRange(input, n)
    BY <1>1, <1>2, <2>1, <2>2, <2>5 DEF MessageRange
  <2>7. Hdr.seq <= lastSeq /\ Hdr.seq >= input[1].first /\ input[1].first > 0
    BY <2>4, <2>6 DEF RestorableAt, Hdr
  <2>8. ordinal # input[1].consumers + 1
    <3> SUFFICES ASSUME ordinal = input[1].consumers + 1 PROVE FALSE
      OBVIOUS
    <3>1. lastSeq = input[1].first - 1
      BY <1>2, <1>6, <2>7 DEF DecoderInv, Decoded, MessagesRead, LastSeq, Pred, Sequence
    <3>2. Hdr.seq \in Nat
      BY <1>1, <1>3, <2>2 DEF Hdr
    <3> QED BY <1>2, <2>7, <3>1, <3>2 DEF Sequence
  <2>9. ordinal \in MessageRange(input, n)
    BY <1>1, <1>2, <2>1, <2>2, <2>8 DEF MessageRange
  <2>10. input[ordinal].seq < Hdr.seq
    BY <1>1, <2>6, <2>9 DEF RestorableAt, Hdr
  <2>11. lastSeq = input[ordinal].seq
    BY <1>6, <2>8 DEF DecoderInv, Decoded, MessagesRead, LastSeq
  <2>12. Hdr.seq \in Nat /\ lastSeq \in Nat
    BY <1>1, <1>3, <2>1, <1>2, <2>2, <2>11 DEF Hdr
  <2> QED BY <2>7, <2>10, <2>11, <2>12
<1>7. phase # "done"
  BY DEF ReadFails, decodeState, decodeConsumer, decodeMessage
<1> QED BY <1>1, <1>4, <1>5, <1>6, <1>7 DEF DecoderTypes
-----------------------------------------------------------------------------
\* Entries that were read stay as they are: every step that decodes one has this form.
LEMMA Advanced ==
    ASSUME DecoderInv, More, advance
    PROVE  /\ input' = input
           /\ ordinal' = ordinal + 1
           /\ ordinal \in Nat /\ ordinal + 1 \in 1 .. Len(input)
           /\ Hdr = input[ordinal + 1]
           /\ Hdr.seq \in Nat
           /\ input[1].consumers \in Int /\ input[1].first \in Sequence
<1>1. DecoderTypes /\ ordinal \in Nat /\ ordinal + 1 \in 1 .. Len(input) /\ 1 \in 1 .. Len(input)
  BY DEF DecoderInv, DecoderTypes, More
<1> QED BY <1>1, EntryType DEF advance, Hdr

\* Every step keeps what is known of the entries decoded.
LEMMA NextDecoded == DecoderInv /\ [DecoderNext]_decoderVars => Decoded'
<1> SUFFICES ASSUME DecoderInv, [DecoderNext]_decoderVars PROVE Decoded'
  OBVIOUS
<1>1. CASE Fail \/ UNCHANGED decoderVars
  BY <1>1 DEF DecoderInv, Decoded, StateRead, HeadRead, ConsumersRead, MessagesRead, LastSeq, Fail,
     decoderVars
<1>2. CASE decodeState /\ ~Fail
  <2>1. More /\ advance /\ phase = "state" /\ ordinal = 0 /\ IsState(Hdr) /\ lastSeq' = Pred(Hdr.first)
        /\ consumersLeft' = Hdr.consumers
        /\ phase' = (IF Hdr.consumers = 0 THEN "messages" ELSE "consumers")
    BY <1>2 DEF decodeState, DecoderInv, Decoded, StateRead
  <2>2. input' = input /\ ordinal' = 1 /\ Hdr = input[1] /\ input[1].consumers \in Int
    BY <2>1, Advanced
  <2> QED BY <2>1, <2>2 DEF Decoded, StateRead, HeadRead, ConsumersRead, MessagesRead, LastSeq, IsState
<1>3. CASE decodeConsumer /\ ~Fail
  <2>1. More /\ advance /\ phase = "consumers" /\ IsConsumer(Hdr) /\ lastSeq' = lastSeq
        /\ consumersLeft' = consumersLeft - 1
        /\ phase' = (IF consumersLeft = 1 THEN "messages" ELSE phase)
    BY <1>3 DEF decodeConsumer
  <2>2. input' = input /\ ordinal' = ordinal + 1 /\ Hdr = input[ordinal + 1]
        /\ input[1].consumers \in Int /\ ordinal \in Nat /\ consumersLeft \in Nat
    BY <2>1, Advanced DEF DecoderInv, DecoderTypes
  <2>3. \A i \in 2 .. ordinal' : IsConsumer(input[i])
    BY <2>1, <2>2 DEF DecoderInv, Decoded, ConsumersRead
  <2> QED BY <2>1, <2>2, <2>3 DEF DecoderInv, Decoded, StateRead, HeadRead, ConsumersRead,
             MessagesRead, LastSeq
<1>4. CASE decodeMessage /\ ~Fail
  <2>1. More /\ advance /\ phase = "messages"
    BY <1>4 DEF decodeMessage
  <2>2. input' = input /\ ordinal' = ordinal + 1 /\ Hdr = input[ordinal + 1]
        /\ ordinal \in Nat /\ Hdr.seq \in Nat /\ input[1].consumers \in Int
        /\ input[1].first \in Sequence /\ ordinal + 1 \in 1 .. Len(input)
    BY <2>1, Advanced
  <2>3. CASE phase' = "done"
    BY <2>1, <2>2, <2>3 DEF DecoderInv, Decoded, StateRead, HeadRead, ConsumersRead, MessagesRead
  <2>4. CASE /\ IsMessage(Hdr) /\ Hdr.seq > lastSeq /\ lastSeq' = Hdr.seq
             /\ UNCHANGED <<phase, consumersLeft>>
    <3> DEFINE m == input[1].consumers + 2
    <3>1. input[1].consumers + 1 <= ordinal /\ lastSeq = LastSeq /\ lastSeq \in Nat
      BY <2>1 DEF DecoderInv, DecoderTypes, Decoded, MessagesRead, Sequence
    <3>2. input[1].first > 0 /\ Hdr.seq >= input[1].first
      <4>1. CASE ordinal = input[1].consumers + 1
        <5>1. lastSeq = Pred(input[1].first)
          BY <3>1, <4>1 DEF LastSeq
        <5>2. Hdr.seq <= MaxSeq
          BY <2>2, EntryType DEF DecoderInv
        <5> QED BY <2>2, <2>4, <5>1, <5>2, MaxSeqAssumption DEF Pred, Sequence
      <4>2. CASE ordinal # input[1].consumers + 1
        <5>1. ordinal \in m .. ordinal
          BY <2>2, <3>1, <4>2
        <5>2. input[1].first > 0 /\ input[ordinal].seq >= input[1].first
          BY <2>1, <5>1 DEF DecoderInv, Decoded, MessagesRead
        <5>3. lastSeq = input[ordinal].seq
          BY <3>1, <4>2 DEF LastSeq
        <5> QED BY <2>2, <2>4, <3>1, <5>2, <5>3 DEF Sequence
      <4> QED BY <4>1, <4>2
    <3>3. \A i \in m .. ordinal : /\ i \in 1 .. Len(input) /\ input[i].seq \in Nat
                                 /\ IsMessage(input[i]) /\ input[i].seq >= input[1].first
                                 /\ input[i].seq <= lastSeq
      <4>1. input[1].consumers >= 0
        BY <2>1 DEF DecoderInv, Decoded, HeadRead, IsState
      <4>2. MessagesRead /\ phase = "messages" /\ DecoderTypes
        BY <2>1 DEF DecoderInv, Decoded
      <4> SUFFICES ASSUME NEW i \in m .. ordinal
                   PROVE  /\ i \in 1 .. Len(input) /\ input[i].seq \in Nat
                          /\ IsMessage(input[i]) /\ input[i].seq >= input[1].first
                          /\ input[i].seq <= lastSeq
        OBVIOUS
      <4>3. i \in 1 .. Len(input)
        BY <2>2, <4>1
      <4>4. /\ IsMessage(input[i]) /\ input[i].seq >= input[1].first
            /\ input[i].seq <= lastSeq
        BY <4>2 DEF MessagesRead
      <4> QED BY <4>2, <4>3, <4>4, EntryType
    <3>4. \A i \in m .. ordinal + 1 : /\ IsMessage(input[i]) /\ input[i].seq >= input[1].first
                                     /\ input[i].seq <= Hdr.seq
      <4> SUFFICES ASSUME NEW i \in m .. ordinal + 1
                   PROVE  /\ IsMessage(input[i]) /\ input[i].seq >= input[1].first
                          /\ input[i].seq <= Hdr.seq
        OBVIOUS
      <4>1. CASE i = ordinal + 1
        BY <2>2, <2>4, <3>2, <4>1
      <4>2. CASE i \in m .. ordinal
        <5>1. /\ input[i].seq \in Nat /\ IsMessage(input[i])
              /\ input[i].seq >= input[1].first /\ input[i].seq <= lastSeq
          BY <3>3, <4>2
        <5>2. input[i].seq <= Hdr.seq
          BY <2>2, <2>4, <3>1, <5>1
        <5> QED BY <5>1, <5>2
      <4> QED BY <2>2, <4>1, <4>2
    <3>5. \A i, j \in m .. ordinal + 1 : i < j => input[i].seq < input[j].seq
      <4> SUFFICES ASSUME NEW i \in m .. ordinal + 1, NEW j \in m .. ordinal + 1, i < j
                   PROVE  input[i].seq < input[j].seq
        OBVIOUS
      <4>1. i \in m .. ordinal
        BY <2>2
      <4>2. CASE j = ordinal + 1
        <5>1. input[i].seq \in Nat /\ input[i].seq <= lastSeq
          BY <3>3, <4>1
        <5>2. input[j].seq = Hdr.seq
          BY <2>2, <4>2
        <5> QED BY <2>2, <2>4, <3>1, <5>1, <5>2
      <4>3. CASE j \in m .. ordinal
        BY <2>1, <4>1, <4>3 DEF DecoderInv, Decoded, MessagesRead
      <4> QED BY <2>2, <4>2, <4>3
    <3>6. lastSeq' = LastSeq'
      BY <2>2, <2>4, <3>1 DEF LastSeq
    <3>7. MessagesRead'
      <4>1. input' = input /\ ordinal' = ordinal + 1 /\ lastSeq' = Hdr.seq
        BY <2>2, <2>4
      <4>2. \A i \in 2 .. input[1].consumers + 1 : IsConsumer(input[i])
        BY <2>1 DEF DecoderInv, Decoded, MessagesRead
      <4>3. input[1].consumers + 1 <= ordinal + 1
        BY <2>2, <3>1
      <4> QED BY <3>2, <3>4, <3>5, <3>6, <4>1, <4>2, <4>3 DEF MessagesRead
    <3> QED BY <2>1, <2>2, <2>4, <3>7 DEF DecoderInv, Decoded, StateRead, HeadRead, ConsumersRead
  <2> QED BY <1>4, <2>3, <2>4 DEF decodeMessage
<1> QED BY <1>1, <1>2, <1>3, <1>4 DEF DecoderNext, ReadFails, Returned

\* The sentinel after what MessagesRead describes makes the archive restorable.
LEMMA NextAccepts == DecoderInv /\ [DecoderNext]_decoderVars => AcceptsOnlyRestorable'
<1> SUFFICES ASSUME DecoderInv, [DecoderNext]_decoderVars,
   phase' = "done" PROVE RestorableAt(input, ordinal)'
  BY DEF AcceptsOnlyRestorable
<1>1. CASE phase = "done"
  <2>1. UNCHANGED decoderVars
    BY <1>1 DEF DecoderNext, decodeState, decodeConsumer, decodeMessage, ReadFails, Returned
  <2> QED BY <1>1, <2>1 DEF DecoderInv, AcceptsOnlyRestorable, decoderVars
<1>2. CASE phase # "done"
  <2>1. More /\ advance /\ phase = "messages" /\ IsEnd(Hdr)
    BY <1>2 DEF DecoderNext, decodeState, decodeConsumer, decodeMessage, ReadFails, Returned, Fail,
       decoderVars
  <2>2. input' = input /\ ordinal' = ordinal + 1 /\ Hdr = input[ordinal + 1]
        /\ ordinal \in Nat /\ ordinal + 1 \in 1 .. Len(input)
    BY <2>1, Advanced
  <2>3. ordinal >= 1 /\ IsState(input[1]) /\ input[1].consumers \in Int
    BY <2>1, Advanced DEF DecoderInv, Decoded, HeadRead
  <2>4. MessageRange(input, ordinal + 1) = input[1].consumers + 2 .. ordinal
    BY <2>2 DEF MessageRange
  <2>5. RestorableAt(input, ordinal + 1)
    <3>1. MessagesRead /\ phase = "messages"
      BY <2>1 DEF DecoderInv, Decoded
    <3>2. ordinal + 1 \in 2 .. Len(input) /\ input[1].consumers + 2 <= ordinal + 1
      BY <2>2, <2>3, <3>1 DEF MessagesRead
    <3>3. \A i \in 2 .. input[1].consumers + 1 : IsConsumer(input[i])
      BY <3>1, Zenon DEF MessagesRead
    <3>4. \A i \in MessageRange(input, ordinal + 1) :
             /\ IsMessage(input[i])
             /\ input[1].first > 0
             /\ input[i].seq >= input[1].first
      BY <2>4, <3>1, Zenon DEF MessagesRead
    <3>5. \A i, j \in MessageRange(input, ordinal + 1) : i < j => input[i].seq < input[j].seq
      BY <2>4, <3>1, Zenon DEF MessagesRead
    <3> QED BY <2>1, <2>2, <2>3, <3>2, <3>3, <3>4, <3>5, Zenon DEF RestorableAt
  <2> QED BY <2>2, <2>5
<1> QED BY <1>1, <1>2

\* An error is set only by a refusal that FailJustified covers, and is kept with the archive.
LEMMA NextRefuses == DecoderInv /\ [DecoderNext]_decoderVars => RefusesOnlyBroken'
<1> SUFFICES ASSUME DecoderInv, [DecoderNext]_decoderVars, err' PROVE ~Restorable(input)'
  BY DEF RefusesOnlyBroken
<1>1. input' = input
  BY DEF DecoderNext, decodeState, decodeConsumer, decodeMessage, ReadFails, Returned, Fail,
     advance, decoderVars
<1>2. CASE err
  BY <1>1, <1>2 DEF DecoderInv, RefusesOnlyBroken
<1>3. CASE ~err
  <2>1. ReadFails \/ (Fail /\ (decodeState \/ decodeConsumer \/ decodeMessage))
    BY <1>3 DEF DecoderNext, decodeState, decodeConsumer, decodeMessage, Returned, advance, decoderVars
  <2> QED BY <1>1, <2>1, FailJustified
<1> QED BY <1>2, <1>3

-----------------------------------------------------------------------------
\* What Verify knows after each entry, and what follows for its verdict.
THEOREM DecoderInvariance == DecoderSpec => []DecoderInv
BY DecoderInit, DecoderStepTypes, NextDecoded, NextAccepts, NextRefuses, PTL DEF DecoderSpec, DecoderInv

\* The variables of the scan keep their types; consumersLeft never goes below zero.
THEOREM DecoderTypeCorrect == DecoderSpec => []DecoderTypes
<1>1. DecoderInv => DecoderTypes
  BY DEF DecoderInv
<1> QED BY <1>1, DecoderInvariance, PTL

\* Verify accepts no archive a restore could not rely on, for archives of every length.
THEOREM Soundness == DecoderSpec => []AcceptsOnlyRestorable
<1>1. DecoderInv => AcceptsOnlyRestorable
  BY DEF DecoderInv
<1> QED BY <1>1, DecoderInvariance, PTL

\* Verify refuses no archive a restore could rely on.
THEOREM Completeness == DecoderSpec => []RefusesOnlyBroken
<1>1. DecoderInv => RefusesOnlyBroken
  BY DEF DecoderInv
<1> QED BY <1>1, DecoderInvariance, PTL

\* Verify accepts an archive, of any length and with any sequence numbers, exactly if a
\* restore could rely on it.
THEOREM VerdictCorrect == DecoderSpec => []VerdictIsRight
BY Soundness, Completeness, PTL DEF VerdictIsRight

-----------------------------------------------------------------------------
(* The report.  What it counts is said phase by phase, in terms of the      *)
(* index of the last entry before the sentinel.                             *)

Top == IF phase = "done" THEN ordinal - 1 ELSE ordinal

\* The bounds are those of the first and the last message entry read.
BoundsRead ==
    IF Top = input[1].consumers + 1
    THEN report.first = 0 /\ report.last = 0
    ELSE report.first = input[input[1].consumers + 2].seq /\ report.last = input[Top].seq

Counted ==
    /\ report.entries = ordinal
    /\ report.complete <=> phase = "done"
    /\ phase \in {"state", "consumers"} => report.messages = 0 /\ report.first = 0 /\ report.last = 0
    /\ phase = "state" => report.consumers = 0
    /\ phase = "consumers" => report.consumers = ordinal - 1
    /\ phase \in {"messages", "done"} =>
          /\ input[1].consumers + 1 <= Top
          /\ report.consumers = input[1].consumers
          /\ report.messages = Top - 1 - input[1].consumers
          /\ BoundsRead

\* What the updates of the report change.
LEMMA UpdatedFields ==
    ASSUME NEW r \in Report, NEW f, NEW s
    PROVE  /\ LET q == [r EXCEPT !.entries = @ + 1] IN
                q.entries = r.entries + 1 /\ q.consumers = r.consumers /\ q.messages = r.messages
                /\ q.first = r.first /\ q.last = r.last /\ q.complete = r.complete
           /\ LET q == [r EXCEPT !.entries = @ + 1, !.consumers = @ + 1] IN
                q.entries = r.entries + 1 /\ q.consumers = r.consumers + 1 /\ q.messages = r.messages
                /\ q.first = r.first /\ q.last = r.last /\ q.complete = r.complete
           /\ LET q == [r EXCEPT !.entries = @ + 1, !.complete = TRUE] IN
                q.entries = r.entries + 1 /\ q.consumers = r.consumers /\ q.messages = r.messages
                /\ q.first = r.first /\ q.last = r.last /\ q.complete
           /\ LET q == [r EXCEPT !.entries = @ + 1, !.messages = @ + 1,
                                 !.first = IF @ = 0 THEN s ELSE @, !.last = s] IN
                q.entries = r.entries + 1 /\ q.consumers = r.consumers
                /\ q.messages = r.messages + 1
                /\ q.first = (IF r.first = 0 THEN s ELSE r.first) /\ q.last = s
                /\ q.complete = r.complete
BY DEF Report

LEMMA InitCounted == NewDecoder => Counted
BY DEF NewDecoder, Counted

\* Every entry decoded is counted once, where its phase says.
LEMMA NextCounted == DecoderInv /\ Counted /\ [DecoderNext]_decoderVars => Counted'
<1> SUFFICES ASSUME DecoderInv, Counted, [DecoderNext]_decoderVars PROVE Counted'
  OBVIOUS
<1>1. CASE Fail \/ UNCHANGED decoderVars
  BY <1>1 DEF Counted, BoundsRead, Top, Fail, decoderVars
<1>2. CASE decodeState /\ ~Fail
  <2>1. More /\ advance /\ phase = "state" /\ ordinal = 0 /\ report \in Report
        /\ phase' = (IF Hdr.consumers = 0 THEN "messages" ELSE "consumers")
        /\ report' = [report EXCEPT !.entries = @ + 1]
    BY <1>2 DEF decodeState, DecoderInv, DecoderTypes, Decoded, StateRead
  <2>2. input' = input /\ ordinal' = 1 /\ Hdr = input[1] /\ input[1].consumers \in Int
    BY <2>1, Advanced
  <2>3. /\ report'.entries = report.entries + 1 /\ report'.consumers = report.consumers
        /\ report'.messages = report.messages /\ report'.first = report.first
        /\ report'.last = report.last /\ report'.complete = report.complete
    BY <2>1, UpdatedFields
  <2> QED BY <2>1, <2>2, <2>3 DEF Counted, BoundsRead, Top
<1>3. CASE decodeConsumer /\ ~Fail
  <2>1. More /\ advance /\ phase = "consumers" /\ report \in Report /\ consumersLeft \in Nat
        /\ phase' = (IF consumersLeft = 1 THEN "messages" ELSE phase)
        /\ report' = [report EXCEPT !.entries = @ + 1, !.consumers = @ + 1]
    BY <1>3 DEF decodeConsumer, DecoderInv, DecoderTypes
  <2>2. input' = input /\ ordinal' = ordinal + 1 /\ ordinal \in Nat
        /\ input[1].consumers \in Int
    BY <2>1, Advanced
  <2>3. /\ report'.entries = report.entries + 1 /\ report'.consumers = report.consumers + 1
        /\ report'.messages = report.messages /\ report'.first = report.first
        /\ report'.last = report.last /\ report'.complete = report.complete
    BY <2>1, UpdatedFields
  <2>4. ordinal = input[1].consumers + 1 - consumersLeft
    BY <2>1 DEF DecoderInv, Decoded, ConsumersRead
  <2> QED BY <2>1, <2>2, <2>3, <2>4 DEF Counted, BoundsRead, Top
<1>4. CASE decodeMessage /\ ~Fail
  <2>1. More /\ advance /\ phase = "messages" /\ report \in Report
    BY <1>4 DEF decodeMessage, DecoderInv, DecoderTypes
  <2>2. input' = input /\ ordinal' = ordinal + 1 /\ Hdr = input[ordinal + 1]
        /\ ordinal \in Nat /\ input[1].consumers \in Int
    BY <2>1, Advanced
  <2>3. CASE phase' = "done" /\ report' = [report EXCEPT !.entries = @ + 1, !.complete = TRUE]
    <3>1. /\ report'.entries = report.entries + 1 /\ report'.consumers = report.consumers
          /\ report'.messages = report.messages /\ report'.first = report.first
          /\ report'.last = report.last /\ report'.complete
      BY <2>1, <2>3, UpdatedFields
    <3> QED BY <2>1, <2>2, <2>3, <3>1 DEF Counted, BoundsRead, Top
  <2>4. CASE /\ phase' = phase
             /\ report' = [report EXCEPT !.entries = @ + 1, !.messages = @ + 1,
                                         !.first = IF @ = 0 THEN Hdr.seq ELSE @,
                                         !.last = Hdr.seq]
    <3>1. /\ report'.entries = report.entries + 1 /\ report'.consumers = report.consumers
          /\ report'.messages = report.messages + 1
          /\ report'.first = (IF report.first = 0 THEN Hdr.seq ELSE report.first)
          /\ report'.last = Hdr.seq /\ report'.complete = report.complete
      BY <2>1, <2>4, UpdatedFields
    <3>2. input[1].consumers + 1 <= ordinal /\ Top = ordinal /\ Top' = ordinal + 1
      BY <2>1, <2>2, <2>4 DEF Counted, Top
    <3>3. CASE ordinal = input[1].consumers + 1
      <4>1. report.first = 0 /\ input[1].consumers + 2 = ordinal + 1
        BY <2>1, <2>2, <3>2, <3>3 DEF Counted, BoundsRead
      <4>2. report'.first = Hdr.seq /\ report'.last = Hdr.seq
        BY <3>1, <4>1
      <4>3. BoundsRead'
        BY <2>2, <3>2, <3>3, <4>1, <4>2 DEF BoundsRead
      <4> QED BY <2>1, <2>2, <2>4, <3>1, <3>2, <4>3 DEF Counted
    <3>4. CASE ordinal # input[1].consumers + 1
      <4>1. input[1].consumers + 2 \in input[1].consumers + 2 .. ordinal
        BY <2>2, <3>2, <3>4
      <4>2. input[input[1].consumers + 2].seq # 0
        BY <2>1, <4>1 DEF DecoderInv, Decoded, MessagesRead, IsMessage
      <4> QED BY <2>1, <2>2, <2>4, <3>1, <3>2, <3>4, <4>2 DEF Counted, BoundsRead
    <3> QED BY <3>3, <3>4
  <2> QED BY <1>4, <2>3, <2>4 DEF decodeMessage
<1> QED BY <1>1, <1>2, <1>3, <1>4 DEF DecoderNext, ReadFails, Returned

\* The message entries read are those before Top, in ascending order.
LEMMA CountedIsExact ==
    ASSUME DecoderInv, Counted
    PROVE  ReportExact
<1> DEFINE c == input[1].consumers
           body == {i \in 2 .. ordinal : i > c + 1 /\ IsMessage(input[i])}
<1>1. report.entries = ordinal /\ (report.complete <=> phase = "done") /\ ordinal \in Nat
      /\ ordinal <= Len(input) /\ Len(input) \in Nat
  BY DEF Counted, DecoderInv, DecoderTypes
<1> SUFFICES ASSUME ordinal > 0
             PROVE  /\ ordinal = 1 + report.consumers + report.messages
                                   + (IF report.complete THEN 1 ELSE 0)
                    /\ body = {} => report.first = 0 /\ report.last = 0
                    /\ \A i \in body : input[i].seq \in report.first .. report.last
                    /\ body # {} => /\ \E i \in body : input[i].seq = report.first
                                    /\ \E i \in body : input[i].seq = report.last
  BY <1>1 DEF ReportExact
<1>2. DecoderTypes /\ c \in Int /\ \A i \in 1 .. Len(input) : input[i].seq \in Nat
  BY <1>1, EntryType DEF DecoderInv
<1>3. CASE phase = "consumers"
  <2>1. ordinal <= c + 1
    BY <1>2, <1>3 DEF DecoderInv, Decoded, ConsumersRead, DecoderTypes
  <2>2. body = {}
    BY <1>1, <1>2, <2>1
  <2> QED BY <1>1, <1>3, <2>2 DEF Counted
<1>4. CASE phase \in {"messages", "done"}
  <2> DEFINE t == Top
  <2>1. /\ t \in Nat /\ c >= 0 /\ c + 1 <= t /\ t <= Len(input)
        /\ report.consumers = c /\ report.messages = t - 1 - c
        /\ ordinal = t + (IF report.complete THEN 1 ELSE 0)
    BY <1>1, <1>2, <1>4 DEF Counted, Top, DecoderInv, Decoded, HeadRead, IsState
  <2>2. /\ \A i \in c + 2 .. t : IsMessage(input[i])
        /\ \A i, j \in c + 2 .. t : i < j => input[i].seq < input[j].seq
        /\ phase = "done" => ~IsMessage(input[ordinal])
    <3>1. CASE phase = "messages"
      BY <3>1 DEF DecoderInv, Decoded, MessagesRead, Top
    <3>2. CASE phase = "done"
      BY <3>2 DEF DecoderInv, AcceptsOnlyRestorable, RestorableAt, MessageRange, Top, IsEnd, IsMessage
    <3> QED BY <1>4, <3>1, <3>2
  <2>3. body = c + 2 .. t
    BY <1>1, <1>2, <1>4, <2>1, <2>2 DEF Top
  <2>4. CASE t = c + 1
    <3>1. report.first = 0 /\ report.last = 0
      BY <1>4, <2>4 DEF Counted, BoundsRead
    <3>2. body = {}
      BY <1>2, <2>1, <2>3, <2>4
    <3> HIDE DEF body
    <3> QED BY <1>2, <2>1, <3>1, <3>2
  <2>5. CASE t # c + 1
    <3>1. report.first = input[c + 2].seq /\ report.last = input[t].seq
      BY <1>4, <2>5 DEF Counted, BoundsRead
    <3>2. c + 2 \in body /\ t \in body
      <4> HIDE DEF c, t, body
      <4> QED BY <1>2, <2>1, <2>3, <2>5
    <3>3. ASSUME NEW i \in body PROVE input[i].seq \in report.first .. report.last
      <4>1. i \in c + 2 .. t /\ i \in 1 .. Len(input) /\ c + 2 \in 1 .. Len(input)
            /\ t \in 1 .. Len(input)
        BY <1>1, <1>2, <2>1, <2>3, <3>2
      <4>2. input[i].seq \in Nat /\ input[c + 2].seq \in Nat /\ input[t].seq \in Nat
        BY <1>2, <4>1
      <4> HIDE DEF c, t, body
      <4>3. i = c + 2 \/ input[c + 2].seq < input[i].seq
        <5>1. c + 2 \in c + 2 .. t /\ (i = c + 2 \/ c + 2 < i)
          BY <1>2, <2>1, <4>1
        <5> QED BY <2>2, <4>1, <5>1
      <4>4. i = t \/ input[i].seq < input[t].seq
        <5>1. t \in c + 2 .. t /\ (i = t \/ i < t)
          BY <1>2, <2>1, <3>2, <2>3, <4>1
        <5> QED BY <2>2, <4>1, <5>1
      <4> QED BY <3>1, <4>2, <4>3, <4>4
    <3>4. ordinal = 1 + report.consumers + report.messages + (IF report.complete THEN 1 ELSE 0)
      BY <1>2, <2>1
    <3> HIDE DEF c, t, body
    <3> QED BY <3>1, <3>2, <3>3, <3>4
  <2> QED BY <2>4, <2>5
<1>5. phase # "state" /\ phase \in {"state", "consumers", "messages", "done"}
  BY DEF DecoderInv, DecoderTypes, Decoded, StateRead
<1> HIDE DEF c, body
<1> QED BY <1>3, <1>4, <1>5

\* The report of Verify and Info counts exactly the entries that were decoded, and its
\* bounds are those of the messages among them, whether the archive was accepted, refused
\* or is still being read (scan, backup/verify.go).
THEOREM ReportCorrect == DecoderSpec => []ReportExact
<1>1. DecoderSpec => [](DecoderInv /\ Counted)
  BY InitCounted, NextCounted, DecoderInvariance, PTL DEF DecoderSpec
<1> QED BY <1>1, CountedIsExact, PTL
=============================================================================
