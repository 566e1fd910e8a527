--------------------------- MODULE BackupRecorder ---------------------------
(***************************************************************************)
(* Recorder (backup/recorder.go): the messages a subscription delivers     *)
(* become a stream backup.  A stream capture keeps stream sequences, and   *)
(* its subscription may redeliver and reorder; a core capture numbers the  *)
(* messages itself.  How Close publishes the directory is BackupTarget;    *)
(* here it appears, or does not, in one step.                              *)
(***************************************************************************)
EXTENDS BackupArchive

CONSTANTS
    MaxWrites,   \* bound on the calls of Write and WriteDirect
    None         \* no backup was published

ASSUME RecorderAssumption ==
    /\ MaxWrites \in Nat
    /\ MaxWrites < MaxSeq
    /\ None \notin Seq(Entry)

VARIABLES
    preserve,    \* SourceInfo.Stream is set
    delivered,   \* the sequences of the messages Write was called with until
                 \* it failed or Close, 0 where there is none (history)
    messages,    \* the sequences of the entries in the staged archive
    first, last, msgs,
    err, done,
    published    \* the committed archive

recorderVars == <<preserve, delivered, messages, first, last, msgs, err, done, published>>

NewRecorder ==
    /\ preserve \in BOOLEAN
    /\ delivered = << >>
    /\ messages = << >>
    /\ first = 0
    /\ last = 0
    /\ msgs = 0
    /\ err = FALSE
    /\ done = FALSE
    /\ published = None

-----------------------------------------------------------------------------
Appended(seq) ==
    /\ messages' = Append(messages, seq)
    /\ first' = IF msgs = 0 THEN seq ELSE first
    /\ last' = seq
    /\ msgs' = msgs + 1
    /\ UNCHANGED err

Failed ==
    /\ err' = TRUE
    /\ UNCHANGED <<messages, first, last, msgs>>

Skipped == UNCHANGED <<messages, first, last, msgs, err>>

\* Mutant: a message without a stream sequence is left out and nobody is told.
writeSkipsUnnumbered(seq) ==
    /\ \/ /\ ~err /\ ~done
          /\ Len(delivered) < MaxWrites
          /\ delivered' = Append(delivered, seq)
          /\ \/ /\ ~preserve
                /\ Appended(last + 1)
             \/ /\ preserve /\ seq > last
                /\ Appended(seq)
             \/ /\ preserve /\ seq <= last
                /\ Skipped
       \/ /\ err \/ done
          /\ Skipped
          /\ UNCHANGED delivered
    /\ UNCHANGED <<preserve, done, published>>

\* Write and WriteDirect, once they found the sequence seq of the message; the
\* encoder may fail, with some of the entry written.
write(seq) ==
    /\ \/ /\ ~err /\ ~done
          /\ Len(delivered) < MaxWrites
          /\ delivered' = Append(delivered, seq)
          /\ \/ /\ ~preserve
                /\ Appended(last + 1) \/ Failed
             \/ /\ preserve /\ seq = 0
                /\ Failed
             \/ /\ preserve /\ seq > 0 /\ seq <= last
                /\ Skipped
             \/ /\ preserve /\ seq > last
                /\ Appended(seq) \/ Failed
       \/ /\ err \/ done
          /\ Skipped
          /\ UNCHANGED delivered
    /\ UNCHANGED <<preserve, done, published>>

\* The head that replaces the placeholder once the totals are known.
head == StateEntry(IF first > 1 THEN first ELSE 1, 0, msgs)

\* The archive as it is on disk: the patched head, the messages, the sentinel.
writeArchive ==
    <<head>> \o [i \in 1 .. Len(messages) |-> MessageEntry(messages[i])] \o <<Sentinel>>

\* Mutant: the error of an earlier write is not looked at.
CloseIgnoresErr ==
    /\ ~done
    /\ done' = TRUE
    /\ published' \in {writeArchive, None}
    /\ UNCHANGED <<preserve, delivered, messages, first, last, msgs, err>>

\* Close commits unless a write failed before or a step of its own fails; both discard.
Close ==
    /\ ~done
    /\ done' = TRUE
    /\ \/ /\ ~err
          /\ published' = writeArchive
       \/ UNCHANGED published
    /\ UNCHANGED <<preserve, delivered, messages, first, last, msgs, err>>

\* Only the staging directory is removed: after Close nothing is left to remove.
Discard ==
    /\ done' = TRUE
    /\ UNCHANGED <<preserve, delivered, messages, first, last, msgs, err, published>>

RecorderNext == (\E seq \in Sequence : write(seq)) \/ Close \/ Discard

RecorderSpec == NewRecorder /\ [][RecorderNext]_recorderVars

-----------------------------------------------------------------------------
\* Every committed capture can be restored, whatever was delivered and in whatever order,
\* and its head declares exactly the messages in it.  "After an error the recorder is
\* unusable" (backup/recorder.go:105): none is committed once a write failed.
PublishedIsRestorable ==
    published # None =>
        /\ ~err
        /\ RestorableAt(published, Len(published))
        /\ published[1].msgs = Len(published) - 2

\* "skips redeliveries" (backup/recorder.go:32): a stream capture records the running maxima
\* of what was delivered, and a core capture every message.  A message that the
\* subscription first delivers after a later one is skipped too.
Recorded ==
    LET isNew(i) == \A j \in 1 .. i - 1 : delivered[j] < delivered[i]
        kept     == {published[i].seq : i \in 2 .. Len(published) - 1}
    IN  published # None =>
          IF preserve
          THEN kept = {delivered[i] : i \in {k \in DOMAIN delivered : isNew(k)}}
          ELSE kept = 1 .. Len(delivered)
=============================================================================
