------------------------------- MODULE Snapshot -----------------------------
(***************************************************************************)
(* Stream backup and restore over a NATS connection (snapshots.go).        *)
(*                                                                         *)
(* SnapshotToDirectory asks the server for a snapshot and four goroutines  *)
(* then work on it: the server sends chunks, the subscription's callback   *)
(* writes each to the data file and to a synchronous pipe, a tracker reads *)
(* the pipe to decompress the chunks, and the caller's own goroutine waits *)
(* on an unbuffered error channel or on a context the callback cancels     *)
(* when the last chunk has been handled.  The process may be killed        *)
(* anywhere and started again, against an older or a newer server.         *)
(* RestoreSnapshotFromDirectory reads what is in the directory then.       *)
(***************************************************************************)
EXTENDS Naturals, Sequences, FiniteSets

CONSTANTS
    Chunks,      \* number of chunks of the snapshot
    MaxCalls,    \* bound on the calls of the two operations
    EofKinds,    \* how the restore's reader reports its end: "alone" after
                 \* the last data, or "withData", together with it
    NoFile

ASSUME SnapshotAssumption ==
    /\ Chunks \in Nat \ {0}
    /\ MaxCalls \in Nat
    /\ EofKinds \subseteq {"alone", "withData"}
    /\ NoFile \notin Seq(1 .. Chunks)

Names == {"arc", "tar"}          \* SnapshotDataFile and SnapshotLegacyDataFile
All   == [i \in 1 .. Chunks |-> i]

VARIABLES
    meta,      \* the meta file: "none", "empty", "torn" or "full"
    data,      \* data[n]: the chunks in the file of that name, or NoFile
    calls,     \* calls made so far
    pc,        \* the caller's goroutine
    name,      \* the data file of this snapshot
    ctxDone,   \* the caller's context is cancelled
    sctxDone,  \* the derived context is cancelled
    open,      \* the data file, the pipe and the subscription are open
    server,    \* "quiet", "sending", "ended", "refused" or "gone"
    sent,      \* chunks the server sent
    callback,  \* the subscription's goroutine
    handled,   \* messages the callback took from the subscription
    tracker,   \* trackBlockProgress
    reading,   \* the chunk the tracker read last
    bad,       \* the chunk that does not decompress, 0 for none
    received   \* what the server received from a restore

files == <<meta, data>>
flow  == <<open, server, sent, callback, handled, tracker, reading, bad, sctxDone>>
vars  == <<meta, data, calls, pc, name, ctxDone, flow, received>>

Starting  == {"check", "rmMeta", "rmArc", "rmTar", "createMeta", "createData", "request"}
Running   == {"select", "meta", "metaTorn", "unwindOk", "unwindErr", "cleanMeta", "cleanData"}
Returned  == {"idle", "ok", "failed", "refused", "restored", "restoreFailed"}

\* No snapshot is under way.
Quiet == [open |-> FALSE, server |-> "quiet", sent |-> 0, callback |-> "idle", handled |-> 0,
          tracker |-> "exited", reading |-> 0, bad |-> 0, sctxDone |-> FALSE]

SetFlow(f) ==
    /\ open' = f.open /\ server' = f.server /\ sent' = f.sent /\ callback' = f.callback
    /\ handled' = f.handled /\ tracker' = f.tracker /\ reading' = f.reading /\ bad' = f.bad
    /\ sctxDone' = f.sctxDone

Init ==
    /\ meta = "none"
    /\ data = [n \in Names |-> NoFile]
    /\ calls = 0
    /\ pc = "idle"
    /\ name = "arc"
    /\ ctxDone = FALSE
    /\ open = FALSE /\ server = "quiet" /\ sent = 0 /\ callback = "idle" /\ handled = 0
    /\ tracker = "exited" /\ reading = 0 /\ bad = 0 /\ sctxDone = FALSE
    /\ received = << >>

Goto(step) == pc' = step
Done       == sctxDone \/ ctxDone   \* sctx.Done() is closed

-----------------------------------------------------------------------------
(* SnapshotToDirectory, up to the request.                                  *)

\* Goroutines an earlier call left behind hold only closed files and are not followed.
SnapshotToDirectory ==
    /\ pc \in Returned
    /\ calls < MaxCalls
    /\ calls' = calls + 1
    /\ ctxDone' = FALSE
    /\ SetFlow(Quiet)
    /\ Goto("check")
    /\ UNCHANGED <<files, name, received>>

\* A finished backup is refused and left alone.
checkMeta ==
    /\ pc = "check"
    /\ Goto(IF meta \in {"torn", "full"} THEN "refused" ELSE "rmMeta")
    /\ UNCHANGED <<files, calls, name, ctxDone, flow, received>>

\* Mutant: only the archive under this server's name is removed.
removeOldSameName ==
    /\ pc = "rmMeta"
    /\ meta' = "none"
    /\ \E n \in Names : data' = [data EXCEPT ![n] = NoFile]
    /\ Goto("createMeta")
    /\ UNCHANGED <<calls, name, ctxDone, flow, received>>

\* What an unfinished backup left, under either name.
removeOld ==
    /\ \/ pc = "rmMeta" /\ meta' = "none" /\ Goto("rmArc") /\ UNCHANGED data
       \/ pc = "rmArc" /\ data' = [data EXCEPT !["arc"] = NoFile] /\ Goto("rmTar") /\ UNCHANGED meta
       \/ pc = "rmTar" /\ data' = [data EXCEPT !["tar"] = NoFile] /\ Goto("createMeta") /\ UNCHANGED meta
       \/ pc \in {"rmMeta", "rmArc", "rmTar"} /\ Goto("refused") /\ UNCHANGED files
    /\ UNCHANGED <<calls, name, ctxDone, flow, received>>

createMeta ==
    /\ pc = "createMeta"
    /\ \/ meta' = "empty" /\ Goto("createData")
       \/ Goto("refused") /\ UNCHANGED meta
    /\ UNCHANGED <<data, calls, name, ctxDone, flow, received>>

\* Named after the server's version.  When it cannot be created the meta file goes.
createData ==
    /\ pc = "createData"
    /\ \/ \E n \in Names : /\ name' = n
                           /\ data' = [data EXCEPT ![n] = << >>]
                           /\ Goto("request")
                           /\ UNCHANGED meta
       \/ /\ meta' = "none"
          /\ Goto("failed")
          /\ UNCHANGED <<data, name>>
    /\ UNCHANGED <<calls, ctxDone, flow, received>>

\* The server answers and sends once it sees the subscription, or the request fails.
requestSnapshot ==
    /\ pc = "request"
    /\ \/ /\ Goto("select")
          /\ \E b \in 0 .. Chunks :
                SetFlow([Quiet EXCEPT !.open = TRUE, !.server = "sending",
                                      !.tracker = "reading", !.bad = b])
       \/ /\ Goto("cleanMeta")
          /\ UNCHANGED flow
    /\ UNCHANGED <<files, calls, name, ctxDone, received>>

-----------------------------------------------------------------------------
(* The server and the connection.                                           *)

sendChunk ==
    /\ server = "sending"
    /\ sent < Chunks
    /\ sent' = sent + 1
    /\ UNCHANGED <<files, calls, pc, name, ctxDone, open, server, callback, handled, tracker, reading, bad,
                   sctxDone, received>>

\* The last, empty message: with status 204 or none, or with an error at any time.
sendEnd ==
    /\ server = "sending"
    /\ \/ sent = Chunks /\ server' = "ended"
       \/ server' = "refused"
    /\ UNCHANGED <<files, calls, pc, name, ctxDone, open, sent, callback, handled, tracker, reading, bad,
                   sctxDone, received>>

\* The connection is lost and the server gives up.
serverGone ==
    /\ server = "sending"
    /\ server' = "gone"
    /\ UNCHANGED <<files, calls, pc, name, ctxDone, open, sent, callback, handled, tracker, reading, bad,
                   sctxDone, received>>

-----------------------------------------------------------------------------
(* The subscription's callback.                                             *)

\* Messages are handled one at a time while the subscription is open.
takeMessage ==
    /\ callback = "idle"
    /\ open
    /\ \/ /\ handled < sent
          /\ callback' = "file"
       \/ /\ handled = sent
          /\ server = "ended"
          /\ callback' = "cancel"
       \/ /\ handled = sent
          /\ server = "refused"
          /\ callback' = "status"
    /\ handled' = handled + 1
    /\ UNCHANGED <<files, calls, pc, name, ctxDone, open, server, sent, tracker, reading, bad, sctxDone, received>>

\* Mutant: a failed write is reported only if the caller is ready for it, and forgotten.
writeFileDropsError ==
    /\ callback = "file"
    /\ \/ /\ open
          /\ data' = [data EXCEPT ![name] = Append(@, handled)]
          /\ callback' = "pipe"
       \/ /\ callback' = "idle"
          /\ UNCHANGED data
    /\ UNCHANGED <<meta, calls, pc, name, ctxDone, open, server, sent, handled, tracker, reading, bad,
                   sctxDone, received>>

\* The multi writer's first writer.
writeFile ==
    /\ callback = "file"
    /\ \/ /\ open
          /\ data' = [data EXCEPT ![name] = Append(@, handled)]
          /\ callback' = "pipe"
       \/ /\ callback' = "sendErr"
          /\ UNCHANGED data
    /\ UNCHANGED <<meta, calls, pc, name, ctxDone, open, server, sent, handled, tracker, reading, bad,
                   sctxDone, received>>

\* The second one is a net.Pipe: a write waits for the tracker to read all of
\* it, or fails when the pipe is closed.  A chunk that does not decompress may
\* stop the tracker before it has read all of it.
writePipe ==
    /\ callback = "pipe"
    /\ \/ /\ open
          /\ tracker = "reading"
          /\ tracker' = "decoding"
          /\ reading' = handled
          /\ \/ callback' = "idle"
             \/ bad = handled /\ UNCHANGED callback
       \/ /\ ~open
          /\ callback' = "sendErr"
          /\ UNCHANGED <<tracker, reading>>
    /\ UNCHANGED <<files, calls, pc, name, ctxDone, open, server, sent, handled, bad, sctxDone, received>>

\* Unsubscribe and cancel.
lastMessage ==
    /\ callback = "cancel"
    /\ sctxDone' = TRUE
    /\ callback' = "idle"
    /\ UNCHANGED <<files, calls, pc, name, ctxDone, open, server, sent, handled, tracker, reading, bad, received>>

-----------------------------------------------------------------------------
(* The tracker.                                                             *)

\* Mutant: a chunk that does not decompress ends the tracker without a word.
decodeSilent ==
    /\ tracker = "decoding"
    /\ tracker' = IF reading # bad THEN "reading" ELSE "exited"
    /\ UNCHANGED <<files, calls, pc, name, ctxDone, open, server, sent, callback, handled, reading, bad,
                   sctxDone, received>>

\* The chunk last read decompresses or not; an error after cancellation is not reported.
decode ==
    /\ tracker = "decoding"
    /\ tracker' = CASE reading # bad -> "reading"
                    [] reading = bad /\ ~Done -> "sendErr"
                    [] reading = bad /\ Done -> "exited"
    /\ UNCHANGED <<files, calls, pc, name, ctxDone, open, server, sent, callback, handled, reading, bad,
                   sctxDone, received>>

\* The pipe was closed, or the error is given up for the cancelled context.
trackerExits ==
    /\ \/ tracker = "reading" /\ ~open
       \/ tracker = "sendErr" /\ Done
    /\ tracker' = "exited"
    /\ UNCHANGED <<files, calls, pc, name, ctxDone, open, server, sent, callback, handled, reading, bad,
                   sctxDone, received>>

-----------------------------------------------------------------------------
(* createSnapshot's select and what follows it.                             *)

\* A send on the unbuffered channel meets the receive; the callback's carries
\* a failed write or a status, after which it unsubscribes and cancels.
receiveErr ==
    /\ pc = "select"
    /\ \/ /\ callback = "sendErr"
          /\ callback' = "idle"
          /\ UNCHANGED tracker
       \/ /\ callback = "status"
          /\ callback' = "cancel"
          /\ UNCHANGED tracker
       \/ /\ tracker = "sendErr"
          /\ tracker' = "exited"
          /\ UNCHANGED callback
    /\ Goto("unwindErr")
    /\ UNCHANGED <<files, calls, name, ctxDone, open, server, sent, handled, reading, bad, sctxDone, received>>

receiveDone ==
    /\ pc = "select"
    /\ Done
    /\ Goto(IF ctxDone THEN "unwindErr" ELSE "meta")
    /\ UNCHANGED <<files, calls, name, ctxDone, flow, received>>

\* The meta file is written: a kill may leave a part of it, an error removes it.
writeMeta ==
    /\ \/ /\ pc = "meta"
          /\ meta' = "torn"
          /\ Goto("metaTorn")
       \/ /\ pc = "metaTorn"
          /\ meta' = "full"
          /\ Goto("unwindOk")
       \/ /\ pc = "metaTorn"
          /\ Goto("unwindErr")
          /\ UNCHANGED meta
    /\ UNCHANGED <<data, calls, name, ctxDone, flow, received>>

\* The deferred calls: unsubscribe, close the pipe, cancel, close the files.
unwind ==
    /\ pc \in {"unwindOk", "unwindErr"}
    /\ open' = FALSE
    /\ sctxDone' = TRUE
    /\ Goto(IF pc = "unwindOk" THEN "ok" ELSE "cleanMeta")
    /\ UNCHANGED <<files, calls, name, ctxDone, server, sent, callback, handled, tracker, reading, bad, received>>

\* SnapshotToDirectory removes both files, the meta file first.
cleanUp ==
    /\ \/ /\ pc = "cleanMeta"
          /\ meta' = "none"
          /\ Goto("cleanData")
          /\ UNCHANGED data
       \/ /\ pc = "cleanData"
          /\ data' = [data EXCEPT ![name] = NoFile]
          /\ Goto("failed")
          /\ UNCHANGED meta
    /\ UNCHANGED <<calls, name, ctxDone, flow, received>>

-----------------------------------------------------------------------------
(* RestoreSnapshotFromDirectory.                                            *)

RestoreSnapshotFromDirectory ==
    /\ pc \in Returned
    /\ calls < MaxCalls
    /\ calls' = calls + 1
    /\ ctxDone' = FALSE
    /\ received' = << >>
    /\ SetFlow(Quiet)
    /\ Goto("dataPath")
    /\ UNCHANGED <<files, name>>

\* A directory with both archives is refused, as is one with none.
SnapshotDataPath ==
    /\ pc = "dataPath"
    /\ LET found == {n \in Names : data[n] # NoFile}
       IN  \/ /\ Cardinality(found) = 1
              /\ name' \in found
              /\ Goto("readMeta")
           \/ /\ Cardinality(found) # 1
              /\ Goto("restoreFailed")
              /\ UNCHANGED name
    /\ UNCHANGED <<files, calls, ctxDone, flow, received>>

\* Mutant: an empty meta file is read as an empty configuration.
readMetaAny ==
    /\ pc = "readMeta"
    /\ Goto("send")
    /\ UNCHANGED <<files, calls, name, ctxDone, flow, received>>

\* An empty or cut meta file does not parse; the request may fail too.
readMeta ==
    /\ pc = "readMeta"
    /\ \/ meta = "full" /\ Goto("send")
       \/ Goto("restoreFailed")
    /\ UNCHANGED <<files, calls, name, ctxDone, flow, received>>

\* One read and, unless it reports the end, one acknowledged request.  What a
\* read returns together with the end is not sent.
sendData ==
    /\ pc = "send"
    /\ \/ /\ ~ctxDone
          /\ Len(received) < Len(data[name])
          /\ received' = Append(received, data[name][Len(received) + 1])
          /\ UNCHANGED pc
       \/ /\ ~ctxDone
          /\ Len(received) = Len(data[name])
          /\ Goto("final")
          /\ UNCHANGED received
       \/ /\ ~ctxDone
          /\ "withData" \in EofKinds
          /\ Len(received) + 1 = Len(data[name])
          /\ Goto("final")
          /\ UNCHANGED received
       \/ /\ Goto("restoreFailed")
          /\ UNCHANGED received
    /\ UNCHANGED <<files, calls, name, ctxDone, flow>>

\* The empty request ends the upload; the server answers with the new stream or an error.
sendFinal ==
    /\ pc = "final"
    /\ pc' \in {"restored", "restoreFailed"}
    /\ UNCHANGED <<files, calls, name, ctxDone, flow, received>>

-----------------------------------------------------------------------------
CancelContext ==
    /\ pc \notin Returned
    /\ ctxDone' = TRUE
    /\ UNCHANGED <<files, calls, pc, name, flow, received>>

\* The process is killed and started again.
Crash ==
    /\ pc \notin Returned
    /\ Goto("idle")
    /\ SetFlow(Quiet)
    /\ UNCHANGED <<files, calls, name, ctxDone, received>>

Main == \/ checkMeta \/ removeOld \/ createMeta \/ createData \/ requestSnapshot
        \/ receiveErr \/ receiveDone \/ writeMeta \/ unwind \/ cleanUp
        \/ SnapshotDataPath \/ readMeta \/ sendData \/ sendFinal

Callback == takeMessage \/ writeFile \/ writePipe \/ lastMessage
Tracker  == decode \/ trackerExits
Server   == sendChunk \/ sendEnd

Next == \/ SnapshotToDirectory \/ RestoreSnapshotFromDirectory
        \/ Main \/ Callback \/ Tracker \/ Server
        \/ serverGone \/ CancelContext \/ Crash

\* Goroutines run, and a server that has not gone keeps sending.
Fairness == WF_vars(Main) /\ WF_vars(Callback) /\ WF_vars(Tracker) /\ WF_vars(Server)

Spec == Init /\ [][Next]_vars /\ Fairness

-----------------------------------------------------------------------------
\* "the meta file is only written once every chunk has arrived, an empty one is left by a
\* backup that did not finish" (snapshots.go:571): whatever was killed and tried
\* again before, a meta file with anything in it stands beside one archive that
\* holds every chunk in order.
MetaMeansComplete ==
    meta \in {"torn", "full"} =>
        \E n \in Names : data[n] = All /\ \A m \in Names \ {n} : data[m] = NoFile

\* "If the subsequent write fails, the backup will still error properly" (snapshots.go:445):
\* success is returned only for a snapshot the server ended without an error
\* and of which every chunk was written, and a snapshot that fails leaves the
\* directory as if it was never tried.
ResultIsTrue ==
    /\ pc = "ok" => server = "ended" /\ meta = "full" /\ data[name] = All
    /\ pc = "failed" => meta = "none" /\ \A n \in Names : data[n] = NoFile

\* "restores a stream from a s2 compressed backup" (snapshots.go:816): the upload is ended only
\* when the chunks of one whole snapshot reached the server, each once and in order.
UploadIsComplete == pc \in {"final", "restored"} => received = All

\* Unless the process is killed or the server goes away, both operations return: neither the
\* unbuffered channel nor the pipe can hold up the caller.
OperationsReturn == [](pc \notin Returned => <>(pc \in Returned \/ server = "gone"))
=============================================================================
