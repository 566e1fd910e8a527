--------------------------- MODULE SnapshotProofs ---------------------------
(***************************************************************************)
(* Proofs about stream snapshots and restores, for any number of chunks    *)
(* and calls: what the goroutines of one snapshot have in their hands at   *)
(* any moment, what a kill can therefore leave in the directory, and why   *)
(* neither a later snapshot nor a restore is deceived by it.               *)
(***************************************************************************)
EXTENDS Snapshot, TLAPS

\* The first k chunks in order.
Prefix(k) == [i \in 1 .. k |-> i]

File == Seq(1 .. Chunks)

\* The types of the state the argument is about.
Types ==
    /\ meta \in {"none", "empty", "torn", "full"}
    /\ data \in [Names -> File \cup {NoFile}]
    /\ calls \in Nat
    /\ pc \in Starting \cup Running \cup Returned \cup {"dataPath", "readMeta", "send", "final"}
    /\ name \in Names
    /\ server \in {"quiet", "sending", "ended", "refused", "gone"}
    /\ sent \in 0 .. Chunks
    /\ callback \in {"idle", "file", "pipe", "cancel", "status", "sendErr"}
    /\ handled \in 0 .. Chunks + 1
    /\ callback \in {"file", "pipe"} => handled \in 1 .. sent
    /\ tracker \in {"reading", "decoding", "sendErr", "exited"}
    /\ reading \in 0 .. Chunks
    /\ bad \in 0 .. Chunks

\* What the directory holds at each step of the caller.
Directory ==
    /\ pc = "rmMeta" => meta \in {"none", "empty"}
    /\ pc \in {"rmArc", "rmTar", "createMeta", "cleanData", "failed"} => meta = "none"
    /\ pc \in {"createData", "request", "select", "meta"} => meta = "empty"
    /\ pc = "metaTorn" => meta = "torn"
    /\ pc \in {"unwindOk", "ok", "send"} => meta = "full"
    /\ pc \in {"unwindErr", "cleanMeta"} => meta \in {"empty", "torn"}
    /\ pc = "rmTar" => data["arc"] = NoFile
    /\ pc \in {"createMeta", "createData", "failed"} => \A n \in Names : data[n] = NoFile
    /\ pc \in {"request"} \cup Running => \A n \in Names \ {name} : data[n] = NoFile
    /\ pc = "request" => data[name] = << >>
    /\ MetaMeansComplete

\* The data file, the pipe and the subscription are open.
Streaming == {"select", "meta", "metaTorn", "unwindOk", "unwindErr"}

\* No error has reached the caller, or only one of the meta file.
Sound == pc \in Streaming /\ (pc = "unwindErr" => meta = "torn")

\* The callback has handled the last message, and every chunk before it.
Finished == server = "ended" /\ handled > sent /\ data[name] = All

\* As long as no error has reached the caller the data file holds exactly what the
\* callback has handled, and the derived context is cancelled only after all of it.
Flow ==
    /\ open <=> pc \in Streaming
    /\ open => data[name] \in File
    /\ pc \in {"meta", "metaTorn", "unwindOk"} => sctxDone
    /\ pc = "unwindErr" /\ meta = "torn" => sctxDone
    /\ Sound /\ sctxDone => callback = "idle" /\ Finished
    /\ Sound /\ ~sctxDone =>
         /\ callback \in {"idle", "pipe"} => handled <= sent /\ data[name] = Prefix(handled)
         /\ callback = "file" => data[name] = Prefix(handled - 1)
         /\ callback = "cancel" => Finished
    /\ server = "ended" => sent = Chunks
    /\ pc = "ok" => server = "ended" /\ data[name] = All

SnapshotInv == Types /\ Directory /\ Flow

-----------------------------------------------------------------------------
LEMMA PrefixIsFile == ASSUME NEW k \in 0 .. Chunks PROVE Prefix(k) \in File /\ Len(Prefix(k)) = k
BY SnapshotAssumption DEF Prefix, File

LEMMA PrefixAppend == ASSUME NEW k \in Nat PROVE Append(Prefix(k), k + 1) = Prefix(k + 1)
BY DEF Prefix

LEMMA PrefixEnds == Prefix(0) = << >> /\ Prefix(Chunks) = All
BY DEF Prefix, All

LEMMA AllIsFile == All \in File /\ Len(All) = Chunks /\ All # NoFile
BY SnapshotAssumption, PrefixIsFile, PrefixEnds DEF File

LEMMA EmptyFile == << >> \in File
BY DEF File

LEMMA AppendFile == ASSUME NEW f \in File, NEW i \in 1 .. Chunks PROVE Append(f, i) \in File
BY DEF File

LEMMA QuietFlow ==
    ASSUME SetFlow(Quiet)
    PROVE  /\ ~open' /\ server' = "quiet" /\ sent' = 0 /\ callback' = "idle" /\ handled' = 0
           /\ tracker' = "exited" /\ reading' = 0 /\ bad' = 0 /\ ~sctxDone'
BY DEF SetFlow, Quiet

LEMMA OpenFlow ==
    ASSUME NEW b, SetFlow([Quiet EXCEPT !.open = TRUE, !.server = "sending",
                                        !.tracker = "reading", !.bad = b])
    PROVE  /\ open' /\ server' = "sending" /\ sent' = 0 /\ callback' = "idle" /\ handled' = 0
           /\ tracker' = "reading" /\ reading' = 0 /\ bad' = b /\ ~sctxDone'
BY DEF SetFlow, Quiet

LEMMA InitSnapshotInv == Init => SnapshotInv
<1> SUFFICES ASSUME Init PROVE SnapshotInv
  OBVIOUS
<1> USE SnapshotAssumption DEF Returned, Running, Streaming, Sound
<1>1. Types
  BY DEF Init, Types, Names
<1>2. Directory
  BY DEF Init, Directory, MetaMeansComplete
<1>3. Flow
  BY DEF Init, Flow
<1> QED BY <1>1, <1>2, <1>3 DEF SnapshotInv

\* SnapshotToDirectory until it has its two files.
LEMMA PrepareStep ==
    ASSUME SnapshotInv,
           SnapshotToDirectory \/ checkMeta \/ removeOld \/ createMeta \/ createData
    PROVE  SnapshotInv'
<1> USE SnapshotAssumption
    DEF SnapshotInv, files, flow, Goto, Starting, Running, Returned, Streaming, Sound
<1>1. CASE SnapshotToDirectory
  <2>1. Types'
    BY <1>1, QuietFlow DEF SnapshotToDirectory, Types
  <2>2. Directory'
    BY <1>1 DEF SnapshotToDirectory, Directory, MetaMeansComplete
  <2>3. Flow'
    BY <1>1, QuietFlow DEF SnapshotToDirectory, Flow
  <2> QED BY <2>1, <2>2, <2>3
<1>2. CASE checkMeta
  <2>1. Types'
    BY <1>2 DEF checkMeta, Types
  <2>2. Directory'
    BY <1>2 DEF checkMeta, Types, Directory, MetaMeansComplete
  <2>3. Flow'
    BY <1>2 DEF checkMeta, Flow
  <2> QED BY <2>1, <2>2, <2>3
<1>3. CASE removeOld
  <2>1. Types'
    BY <1>3 DEF removeOld, Types, Names
  <2>2. Directory'
    BY <1>3 DEF removeOld, Types, Directory, MetaMeansComplete, Names
  <2>3. Flow'
    BY <1>3 DEF removeOld, Types, Flow
  <2> QED BY <2>1, <2>2, <2>3
<1>4. CASE createMeta
  <2>1. Types'
    BY <1>4 DEF createMeta, Types
  <2>2. Directory'
    BY <1>4 DEF createMeta, Types, Directory, MetaMeansComplete
  <2>3. Flow'
    BY <1>4 DEF createMeta, Flow
  <2> QED BY <2>1, <2>2, <2>3
<1>5. CASE createData
  <2>1. Types'
    <3>1. data' \in [Names -> File \cup {NoFile}]
      BY <1>5, EmptyFile DEF createData, Types
    <3> QED BY <1>5, <3>1 DEF createData, Types
  <2>2. Directory'
    BY <1>5 DEF createData, Types, Directory, MetaMeansComplete
  <2>3. Flow'
    BY <1>5 DEF createData, Flow
  <2> QED BY <2>1, <2>2, <2>3
<1> QED BY <1>1, <1>2, <1>3, <1>4, <1>5

\* The request, and the end of the call: the meta file and what is cleaned up.
LEMMA CallerStep ==
    ASSUME SnapshotInv,
           requestSnapshot \/ receiveErr \/ receiveDone \/ writeMeta \/ unwind \/ cleanUp
    PROVE  SnapshotInv'
<1> USE SnapshotAssumption
    DEF SnapshotInv, files, flow, Goto, Starting, Running, Returned, Streaming, Sound
<1>1. CASE requestSnapshot
  <2>1. UNCHANGED <<meta, data, calls, name>> /\ pc = "request" /\ pc' \in {"select", "cleanMeta"}
    BY <1>1 DEF requestSnapshot
  <2>2. CASE pc' = "cleanMeta" /\ UNCHANGED flow
    <3>1. Types' /\ Flow'
      BY <2>1, <2>2 DEF Types, Flow
    <3> QED BY <2>1, <2>2, <3>1 DEF Directory, MetaMeansComplete
  <2>3. CASE /\ pc' = "select"
             /\ \E b \in 0 .. Chunks :
                   SetFlow([Quiet EXCEPT !.open = TRUE, !.server = "sending",
                                         !.tracker = "reading", !.bad = b])
    <3>1. /\ open' /\ server' = "sending" /\ sent' = 0 /\ callback' = "idle" /\ handled' = 0
          /\ tracker' = "reading" /\ reading' = 0 /\ bad' \in 0 .. Chunks /\ ~sctxDone'
      BY <2>3, OpenFlow
    <3>2. data[name] = Prefix(0) /\ data[name] \in File
      BY <2>1, PrefixEnds, EmptyFile DEF Directory
    <3>3. Types'
      BY <2>1, <2>3, <3>1 DEF Types
    <3>4. Flow'
      BY <2>1, <2>3, <3>1, <3>2 DEF Flow
    <3> QED BY <2>1, <2>3, <3>3, <3>4 DEF Directory, MetaMeansComplete
  <2> QED BY <1>1, <2>2, <2>3 DEF requestSnapshot
<1>2. CASE receiveErr
  <2>1. Types'
    BY <1>2 DEF receiveErr, Types
  <2>2. Directory'
    BY <1>2 DEF receiveErr, Directory, MetaMeansComplete
  <2>3. Flow'
    BY <1>2 DEF receiveErr, Types, Directory, Flow
  <2> QED BY <2>1, <2>2, <2>3
<1>3. CASE receiveDone
  <2>1. Types'
    BY <1>3 DEF receiveDone, Types
  <2>2. Directory'
    BY <1>3 DEF receiveDone, Directory, MetaMeansComplete
  <2>3. Flow'
    BY <1>3 DEF receiveDone, Done, Types, Directory, Flow, Finished
  <2> QED BY <2>1, <2>2, <2>3
<1>4. CASE writeMeta
  <2>1. Types'
    BY <1>4 DEF writeMeta, Types
  <2>2. Directory'
    <3>1. data[name] = All /\ \A m \in Names \ {name} : data[m] = NoFile
      BY <1>4 DEF writeMeta, Directory, Flow, Finished
    <3> QED BY <1>4, <3>1 DEF writeMeta, Types, Directory, MetaMeansComplete
  <2>3. Flow'
    BY <1>4 DEF writeMeta, Types, Directory, Flow, Finished
  <2> QED BY <2>1, <2>2, <2>3
<1>5. CASE unwind
  <2>1. Types'
    BY <1>5 DEF unwind, Types
  <2>2. Directory'
    BY <1>5 DEF unwind, Types, Directory, MetaMeansComplete
  <2>3. Flow'
    BY <1>5 DEF unwind, Types, Flow, Finished
  <2> QED BY <2>1, <2>2, <2>3
<1>6. CASE cleanUp
  <2>1. Types'
    BY <1>6 DEF cleanUp, Types
  <2>2. Directory'
    BY <1>6 DEF cleanUp, Types, Directory, MetaMeansComplete
  <2>3. Flow'
    BY <1>6 DEF cleanUp, Types, Flow
  <2> QED BY <2>1, <2>2, <2>3
<1> QED BY <1>1, <1>2, <1>3, <1>4, <1>5, <1>6

\* The subscription's goroutine.
LEMMA CallbackStep ==
    ASSUME SnapshotInv, Callback
    PROVE  SnapshotInv'
<1> USE SnapshotAssumption DEF SnapshotInv, files, Streaming, Sound
<1>1. CASE takeMessage
  <2>1. Types'
    BY <1>1 DEF takeMessage, Types
  <2>2. Directory'
    BY <1>1 DEF takeMessage, Directory, MetaMeansComplete
  <2>3. Sound => ~sctxDone
    BY <1>1 DEF takeMessage, Types, Flow, Finished
  <2>4. server = "ended" /\ handled = sent /\ data[name] = Prefix(handled) => data[name] = All
    BY PrefixEnds DEF Flow
  <2>5. Flow'
    BY <1>1, <2>3, <2>4 DEF takeMessage, Types, Flow, Finished
  <2> QED BY <2>1, <2>2, <2>5
<1>2. CASE writeFile
  <2>1. CASE open /\ data' = [data EXCEPT ![name] = Append(@, handled)] /\ callback' = "pipe"
    <3>1. data[name] \in File /\ handled \in 1 .. Chunks /\ name \in Names
      BY <1>2, <2>1 DEF writeFile, Types, Flow
    <3>2. data'[name] = Append(data[name], handled) /\ data'[name] \in File
      BY <2>1, <3>1, AppendFile DEF Types
    <3>3. Types'
      BY <1>2, <2>1, <3>2 DEF writeFile, Types
    <3>4. pc \in Streaming /\ meta = "empty"
      BY <1>2, <2>1 DEF writeFile, Types, Directory, Flow
    <3>5. Directory'
      BY <1>2, <2>1, <3>4 DEF writeFile, Types, Directory, MetaMeansComplete, Running
    <3>6. ASSUME Sound PROVE ~sctxDone /\ data'[name] = Prefix(handled) /\ handled <= sent
      <4>1. ~sctxDone /\ data[name] = Prefix(handled - 1) /\ handled \in 1 .. sent
        BY <1>2, <3>6 DEF writeFile, Types, Flow
      <4>2. handled - 1 \in Nat /\ (handled - 1) + 1 = handled
        BY <3>1
      <4>3. Append(Prefix(handled - 1), (handled - 1) + 1) = Prefix((handled - 1) + 1)
        BY <4>2, PrefixAppend
      <4> QED BY <3>1, <3>2, <4>1, <4>2, <4>3 DEF Types
    <3>7. Flow'
      BY <1>2, <2>1, <3>2, <3>4, <3>6 DEF writeFile, Types, Flow
    <3> QED BY <3>3, <3>5, <3>7
  <2>2. CASE callback' = "sendErr" /\ UNCHANGED data
    <3>1. Types' /\ Directory'
      BY <1>2, <2>2 DEF writeFile, Types, Directory, MetaMeansComplete
    <3>2. Flow'
      BY <1>2, <2>2 DEF writeFile, Types, Flow, Finished
    <3> QED BY <3>1, <3>2
  <2> QED BY <1>2, <2>1, <2>2 DEF writeFile
<1>3. CASE writePipe
  <2>1. Types'
    BY <1>3 DEF writePipe, Types
  <2>2. Directory'
    BY <1>3 DEF writePipe, Directory, MetaMeansComplete
  <2>3. Flow'
    BY <1>3 DEF writePipe, Types, Flow, Finished
  <2> QED BY <2>1, <2>2, <2>3
<1>4. CASE lastMessage
  <2>1. Types'
    BY <1>4 DEF lastMessage, Types
  <2>2. Directory'
    BY <1>4 DEF lastMessage, Directory, MetaMeansComplete
  <2>3. Flow'
    BY <1>4 DEF lastMessage, Types, Flow, Finished
  <2> QED BY <2>1, <2>2, <2>3
<1> QED BY <1>1, <1>2, <1>3, <1>4 DEF Callback

\* The server, the tracker and the caller's context touch none of the files.
LEMMA OutsideStep ==
    ASSUME SnapshotInv, Server \/ serverGone \/ Tracker \/ CancelContext
    PROVE  SnapshotInv'
<1> USE SnapshotAssumption DEF SnapshotInv, files, Streaming, Sound
<1>1. CASE Server \/ serverGone
  <2>1. Types'
    BY <1>1 DEF Server, sendChunk, sendEnd, serverGone, Types
  <2>2. Directory'
    BY <1>1 DEF Server, sendChunk, sendEnd, serverGone, Directory, MetaMeansComplete
  <2>3. Flow'
    BY <1>1 DEF Server, sendChunk, sendEnd, serverGone, Types, Flow, Finished
  <2> QED BY <2>1, <2>2, <2>3
<1>2. CASE Tracker
  <2>1. tracker' \in {"reading", "decoding", "sendErr", "exited"}
    BY <1>2 DEF Tracker, decode, trackerExits
  <2>2. Types' /\ Directory'
    BY <1>2, <2>1 DEF Tracker, decode, trackerExits, Types, Directory, MetaMeansComplete
  <2>3. Flow'
    BY <1>2 DEF Tracker, decode, trackerExits, Flow, Finished
  <2> QED BY <2>2, <2>3
<1>3. CASE CancelContext
  <2>1. Types' /\ Directory'
    BY <1>3 DEF CancelContext, flow, Types, Directory, MetaMeansComplete
  <2>2. Flow'
    BY <1>3 DEF CancelContext, flow, Flow, Finished
  <2> QED BY <2>1, <2>2
<1> QED BY <1>1, <1>2, <1>3

\* A restore changes nothing in the directory.
LEMMA RestoreStep ==
    ASSUME SnapshotInv,
           RestoreSnapshotFromDirectory \/ SnapshotDataPath \/ readMeta \/ sendData \/ sendFinal
    PROVE  SnapshotInv'
<1> USE SnapshotAssumption
    DEF SnapshotInv, files, flow, Goto, Starting, Running, Returned, Streaming, Sound
<1>1. CASE RestoreSnapshotFromDirectory
  <2>1. Types' /\ Directory'
    BY <1>1, QuietFlow DEF RestoreSnapshotFromDirectory, Types, Directory, MetaMeansComplete
  <2>2. Flow'
    BY <1>1, QuietFlow DEF RestoreSnapshotFromDirectory, Flow
  <2> QED BY <2>1, <2>2
<1>2. CASE SnapshotDataPath
  <2>1. /\ pc = "dataPath" /\ pc' \in {"readMeta", "restoreFailed"} /\ name' \in Names
        /\ UNCHANGED <<meta, data, calls, flow>>
    BY <1>2 DEF SnapshotDataPath, Types
  <2>2. Types' /\ Directory'
    BY <2>1 DEF Types, Directory, MetaMeansComplete
  <2>3. Flow'
    BY <2>1 DEF Flow
  <2> QED BY <2>2, <2>3
<1>3. CASE readMeta \/ sendData \/ sendFinal
  <2>1. /\ pc \in {"readMeta", "send", "final"}
        /\ \/ pc' = "send" /\ meta = "full"
           \/ pc' \in {"final", "restored", "restoreFailed"}
        /\ UNCHANGED <<meta, data, calls, name, flow>>
    BY <1>3 DEF readMeta, sendData, sendFinal, Directory
  <2>2. Types' /\ Directory'
    BY <2>1 DEF Types, Directory, MetaMeansComplete
  <2>3. Flow'
    BY <2>1 DEF Flow
  <2> QED BY <2>2, <2>3
<1> QED BY <1>1, <1>2, <1>3

\* A kill leaves the files as they are.
LEMMA CrashStep ==
    ASSUME SnapshotInv, Crash
    PROVE  SnapshotInv'
<1> USE SnapshotAssumption
    DEF SnapshotInv, files, flow, Goto, Starting, Running, Returned, Streaming, Sound
<1>1. Types' /\ Directory'
  BY QuietFlow DEF Crash, Types, Directory, MetaMeansComplete
<1>2. Flow'
  BY QuietFlow DEF Crash, Flow
<1> QED BY <1>1, <1>2

LEMMA SnapshotStep ==
    ASSUME SnapshotInv, [Next]_vars
    PROVE  SnapshotInv'
<1>1. CASE UNCHANGED vars
  BY <1>1 DEF vars, flow, SnapshotInv, Types, Directory, MetaMeansComplete, Flow, Sound, Finished
<1> QED BY <1>1, PrepareStep, CallerStep, CallbackStep, OutsideStep, RestoreStep, CrashStep
       DEF Next, Main

-----------------------------------------------------------------------------
(* Restores.                                                               *)

\* A restore that has read a whole meta file has the one whole archive in
\* its hands, and the server has a prefix of it.
Uploading ==
    /\ pc \in {"dataPath", "readMeta"} => received = << >>
    /\ pc = "readMeta" => data[name] # NoFile
    /\ pc = "send" => \E k \in 0 .. Chunks : data[name] = All /\ received = Prefix(k)
    /\ UploadIsComplete

LEMMA UploadStep ==
    ASSUME "withData" \notin EofKinds, SnapshotInv, Uploading, [Next]_vars
    PROVE  Uploading'
<1> USE SnapshotAssumption
    DEF SnapshotInv, files, flow, Goto, Running, Returned, Streaming
<1>1. CASE RestoreSnapshotFromDirectory
  BY <1>1 DEF RestoreSnapshotFromDirectory, Uploading, UploadIsComplete
<1>2. CASE SnapshotDataPath
  BY <1>2 DEF SnapshotDataPath, Uploading, UploadIsComplete
<1>3. CASE readMeta
  <2>1. CASE meta = "full" /\ pc' = "send"
    <3>1. PICK n \in Names : data[n] = All /\ \A m \in Names \ {n} : data[m] = NoFile
      BY <2>1 DEF Directory, MetaMeansComplete
    <3>2. data[name] # NoFile /\ name \in Names /\ UNCHANGED <<data, name, received>>
      BY <1>3 DEF readMeta, Uploading, Types
    <3>3. name = n
      BY <3>1, <3>2
    <3>4. received = Prefix(0)
      BY <1>3, PrefixEnds DEF readMeta, Uploading
    <3> QED BY <2>1, <3>1, <3>2, <3>3, <3>4 DEF Uploading, UploadIsComplete
  <2>2. CASE pc' = "restoreFailed"
    BY <2>2 DEF Uploading, UploadIsComplete
  <2> QED BY <1>3, <2>1, <2>2 DEF readMeta
<1>4. CASE sendData
  <2>1. PICK k \in 0 .. Chunks : data[name] = All /\ received = Prefix(k)
    BY <1>4 DEF sendData, Uploading
  <2>2. Len(received) = k /\ Len(data[name]) = Chunks
    BY <2>1, PrefixIsFile, AllIsFile
  <2>3. CASE k < Chunks /\ pc' = "send" /\ received' = Append(received, data[name][Len(received) + 1])
    <3>1. k \in Nat /\ k + 1 \in 0 .. Chunks /\ data[name][k + 1] = k + 1
      BY <2>1, <2>3 DEF All
    <3>2. received' = Prefix(k + 1)
      BY <2>1, <2>2, <2>3, <3>1, PrefixAppend
    <3>3. UNCHANGED <<data, name>>
      BY <1>4 DEF sendData
    <3> QED BY <2>1, <2>3, <3>1, <3>2, <3>3 DEF Uploading, UploadIsComplete
  <2>4. CASE k = Chunks /\ pc' = "final" /\ UNCHANGED received
    BY <2>1, <2>4, PrefixEnds DEF Uploading, UploadIsComplete
  <2>5. CASE pc' = "restoreFailed"
    BY <2>5 DEF Uploading, UploadIsComplete
  <2> QED BY <1>4, <2>2, <2>3, <2>4, <2>5 DEF sendData
<1>5. CASE sendFinal
  BY <1>5 DEF sendFinal, Uploading, UploadIsComplete
<1>6. CASE Callback \/ Tracker \/ Server \/ serverGone \/ CancelContext \/ UNCHANGED vars
  <2>1. UNCHANGED <<pc, name, received>> /\ (pc \notin Streaming => UNCHANGED data)
    BY <1>6 DEF Callback, takeMessage, writeFile, writePipe, lastMessage, Tracker, decode, trackerExits,
                Server, sendChunk, sendEnd, serverGone, CancelContext, vars, Flow
  <2> QED BY <2>1 DEF Uploading, UploadIsComplete
<1>7. CASE Crash \/ SnapshotToDirectory \/ checkMeta \/ removeOld \/ createMeta \/ createData
           \/ requestSnapshot \/ receiveErr \/ receiveDone \/ writeMeta \/ unwind \/ cleanUp
  <2>1. pc' \notin {"dataPath", "readMeta", "send", "final", "restored"}
    BY <1>7 DEF Crash, SnapshotToDirectory, checkMeta, removeOld, createMeta, createData,
                requestSnapshot, receiveErr, receiveDone, writeMeta, unwind, cleanUp
  <2> QED BY <2>1 DEF Uploading, UploadIsComplete
<1> QED BY <1>1, <1>2, <1>3, <1>4, <1>5, <1>6, <1>7 DEF Next, Main

-----------------------------------------------------------------------------
\* At every step of every goroutine, and after every kill, the directory and what
\* the goroutines hold agree: the inductive invariant of the snapshot.
THEOREM SnapshotInvariant == Spec => []SnapshotInv
<1>1. SnapshotInv /\ [Next]_vars => SnapshotInv'
  BY SnapshotStep
<1> QED BY InitSnapshotInv, <1>1, PTL DEF Spec

\* Whatever number of snapshots was tried, failed or killed before, against servers
\* that name the archive differently: a meta file with anything in it stands beside
\* one archive with every chunk in order (SnapshotToDirectory).
THEOREM MetaComplete == Spec => []MetaMeansComplete
<1>1. SnapshotInv => MetaMeansComplete
  BY DEF SnapshotInv, Directory
<1> QED BY <1>1, SnapshotInvariant, PTL

\* A snapshot succeeds only when the server ended it without an error and every chunk
\* is in the file, and one that fails leaves an empty directory (createSnapshot).
THEOREM ResultTrue == Spec => []ResultIsTrue
<1>1. SnapshotInv => ResultIsTrue
  BY DEF SnapshotInv, Directory, Flow, ResultIsTrue
<1> QED BY <1>1, SnapshotInvariant, PTL

\* A restore that reads the data file through a reader that reports its end alone, as
\* os.File does, ends the upload only when the server has every chunk of one whole
\* snapshot in order, whatever was left in the directory (RestoreSnapshotFromDirectory).
THEOREM UploadComplete ==
    ASSUME "withData" \notin EofKinds
    PROVE  Spec => []UploadIsComplete
<1>1. Init => Uploading
  BY DEF Init, Uploading, UploadIsComplete
<1>2. SnapshotInv /\ Uploading /\ [Next]_vars => Uploading'
  BY UploadStep
<1>3. Uploading => UploadIsComplete
  BY DEF Uploading
<1> QED BY <1>1, <1>2, <1>3, SnapshotInvariant, PTL DEF Spec
=============================================================================
