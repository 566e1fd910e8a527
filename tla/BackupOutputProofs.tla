------------------------- MODULE BackupOutputProofs -------------------------
(***************************************************************************)
(* Proofs about the two writers of stream backups.  The Recorder, for any  *)
(* range of sequences and any bound on the writes: what is staged follows  *)
(* what was delivered, and what Close commits can be restored.  The edit,  *)
(* for any subjects, sources and options: what survives its passes is what *)
(* it writes and reports, and what it writes can be restored.              *)
(***************************************************************************)
EXTENDS BackupRecorder, BackupEdit, FiniteSetTheorems, WellFoundedInduction, TLAPS

-----------------------------------------------------------------------------
(* The Recorder.                                                            *)

Types ==
    /\ delivered \in Seq(Sequence)
    /\ messages \in Seq(Sequence)
    /\ first \in Sequence /\ last \in Sequence
    /\ Len(delivered) <= MaxWrites

\* The staged archive ascends strictly, and the totals describe it.
Staged ==
    /\ msgs = Len(messages)
    /\ \A i \in DOMAIN messages : messages[i] > 0
    /\ \A i, j \in DOMAIN messages : i < j => messages[i] < messages[j]
    /\ IF messages = << >> THEN last = 0
       ELSE first = messages[1] /\ last = messages[Len(messages)]

\* A core capture numbers what it wrote from 1.
Numbered ==
    ~preserve =>
        /\ \A i \in DOMAIN messages : messages[i] = i
        /\ Len(messages) <= Len(delivered)
        /\ ~err => Len(messages) = Len(delivered)

\* Message i of d is later than all before it.
IsNew(d, i) == \A j \in 1 .. i - 1 : d[j] < d[i]

\* A stream capture has written every new message and nothing else.
Filtered ==
    preserve /\ ~err =>
        /\ \A i \in DOMAIN delivered : delivered[i] > 0 /\ delivered[i] <= last
        /\ delivered # << >> => messages # << >>
        /\ \A m \in DOMAIN messages : \E i \in DOMAIN delivered : IsNew(delivered, i) /\ messages[m] = delivered[i]
        /\ \A i \in DOMAIN delivered : IsNew(delivered, i) => \E m \in DOMAIN messages : messages[m] = delivered[i]

\* What was committed is what is staged, and nothing changes after it.
Committed == published # None => done /\ ~err /\ published = writeArchive

RecorderInv == Types /\ Staged /\ Numbered /\ Filtered /\ Committed

LEMMA InitRecorderInv == NewRecorder => RecorderInv
<1> SUFFICES ASSUME NewRecorder PROVE RecorderInv
  OBVIOUS
<1> USE RecorderAssumption, MaxSeqAssumption DEF NewRecorder
<1>1. Types
  BY DEF Types, Sequence
<1>2. Staged /\ Numbered /\ Filtered /\ Committed
  BY DEF Staged, Numbered, Filtered, Committed
<1> QED BY <1>1, <1>2 DEF RecorderInv

\* What one more element does to a sequence.
LEMMA Appending ==
    ASSUME NEW s \in Seq(Sequence), NEW e \in Sequence, NEW t, t = Append(s, e)
    PROVE  /\ t \in Seq(Sequence) /\ t # << >> /\ Len(t) = Len(s) + 1 /\ t[Len(t)] = e
           /\ \A i \in DOMAIN s : t[i] = s[i] /\ i \in DOMAIN t /\ i <= Len(s)
           /\ \A i \in DOMAIN t : i \in DOMAIN s \/ i = Len(t)
           /\ Len(t) \in DOMAIN t
OBVIOUS

\* A message is staged after the ones before it.
LEMMA StagedStep ==
    ASSUME RecorderInv, NEW seq \in Sequence, seq > last, Appended(seq)
    PROVE  messages' \in Seq(Sequence) /\ first' \in Sequence /\ last' \in Sequence /\ Staged'
<1> USE DEF RecorderInv, Types
<1>1. messages' = Append(messages, seq) /\ seq \in Nat /\ last \in Nat
  BY MaxSeqAssumption DEF Appended, Sequence
<1>2. /\ messages' \in Seq(Sequence) /\ messages' # << >> /\ Len(messages') = Len(messages) + 1
      /\ messages'[Len(messages')] = seq
      /\ \A i \in DOMAIN messages : messages'[i] = messages[i] /\ i <= Len(messages)
      /\ \A i \in DOMAIN messages' : i \in DOMAIN messages \/ i = Len(messages')
  BY <1>1, Appending
<1>3. ASSUME NEW i \in DOMAIN messages
      PROVE  messages[i] <= last /\ messages[i] > 0 /\ messages[i] \in Nat
  <2>1. messages[i] \in Nat /\ messages # << >> /\ Len(messages) \in DOMAIN messages
    BY MaxSeqAssumption DEF Sequence
  <2>2. i = Len(messages) \/ i < Len(messages)
    OBVIOUS
  <2> QED BY <1>1, <2>1, <2>2 DEF Staged
<1>4. \A i \in DOMAIN messages' : messages'[i] > 0
  BY <1>1, <1>2, <1>3
<1>5. \A i, j \in DOMAIN messages' : i < j => messages'[i] < messages'[j]
  BY <1>1, <1>2, <1>3 DEF Staged
<1>6. first' = messages'[1]
  BY <1>1 DEF Appended, Staged
<1> QED BY <1>1, <1>2, <1>4, <1>5, <1>6 DEF Appended, Staged

\* Which delivered messages are new does not change with later ones; the next
\* one is new if it is above all of them.
LEMMA NewStep ==
    ASSUME delivered \in Seq(Sequence), NEW seq \in Sequence, delivered' = Append(delivered, seq)
    PROVE  /\ \A i \in DOMAIN delivered : IsNew(delivered', i) <=> IsNew(delivered, i)
           /\ IsNew(delivered', Len(delivered')) <=> \A j \in DOMAIN delivered : delivered[j] < seq
<1> USE DEF IsNew
<1>1. /\ Len(delivered') = Len(delivered) + 1 /\ delivered'[Len(delivered')] = seq
      /\ \A i \in DOMAIN delivered : delivered'[i] = delivered[i]
      /\ DOMAIN delivered = 1 .. Len(delivered) /\ Len(delivered) \in Nat
  OBVIOUS
<1>2. \A i \in DOMAIN delivered : 1 .. i - 1 \subseteq DOMAIN delivered
  BY <1>1
<1>3. 1 .. Len(delivered') - 1 = DOMAIN delivered
  BY <1>1
<1> QED BY <1>1, <1>2, <1>3

\* The error of a write ends the capture: what was staged is not committed.
LEMMA FailStep ==
    ASSUME RecorderInv, ~err, ~done, NEW seq \in Sequence, Len(delivered) < MaxWrites,
           delivered' = Append(delivered, seq), Failed, UNCHANGED <<preserve, done, published>>
    PROVE  RecorderInv'
<1> USE DEF RecorderInv, Types, Failed
<1>1. delivered' \in Seq(Sequence) /\ Len(delivered') = Len(delivered) + 1
  OBVIOUS
<1>2. Types'
  BY <1>1, RecorderAssumption
<1>3. Staged' /\ Filtered' /\ Committed'
  BY DEF Staged, Filtered, Committed
<1>4. Numbered'
  BY <1>1 DEF Numbered
<1> QED BY <1>2, <1>3, <1>4

\* A core capture writes every message under the next number.
LEMMA CoreStep ==
    ASSUME RecorderInv, ~err, ~done, ~preserve, NEW seq \in Sequence, Len(delivered) < MaxWrites,
           delivered' = Append(delivered, seq), Appended(last + 1),
           UNCHANGED <<preserve, done, published>>
    PROVE  RecorderInv'
<1> USE DEF RecorderInv, Types
<1>1. delivered' \in Seq(Sequence) /\ Len(delivered') = Len(delivered) + 1
  OBVIOUS
<1>2. last = Len(messages) /\ Len(messages) = Len(delivered)
  BY DEF Staged, Numbered
<1>3. last + 1 \in Sequence /\ last + 1 > last
  BY <1>2, RecorderAssumption, MaxSeqAssumption DEF Sequence
<1>4. messages' \in Seq(Sequence) /\ first' \in Sequence /\ last' \in Sequence /\ Staged'
  BY <1>3, StagedStep
<1>5. Types'
  BY <1>1, <1>4, RecorderAssumption
<1>6. Numbered'
  <2>1. messages' = Append(messages, last + 1)
    BY DEF Appended
  <2>2. \A i \in DOMAIN messages' : messages'[i] = i
    BY <1>2, <1>3, <2>1 DEF Numbered
  <2> QED BY <1>1, <1>2, <2>1, <2>2 DEF Numbered
<1>7. Filtered' /\ Committed'
  BY DEF Filtered, Committed
<1> QED BY <1>4, <1>5, <1>6, <1>7

\* A stream capture writes a message above the last one, which is a new one.
LEMMA StreamStep ==
    ASSUME RecorderInv, ~err, ~done, preserve, NEW seq \in Sequence, Len(delivered) < MaxWrites,
           delivered' = Append(delivered, seq), seq > last, Appended(seq),
           UNCHANGED <<preserve, done, published>>
    PROVE  RecorderInv'
<1> USE DEF RecorderInv, Types
<1>1. messages' \in Seq(Sequence) /\ first' \in Sequence /\ last' \in Sequence /\ Staged'
  BY StagedStep
<1>2. /\ delivered' \in Seq(Sequence) /\ delivered' # << >> /\ Len(delivered') = Len(delivered) + 1
      /\ delivered'[Len(delivered')] = seq
      /\ \A i \in DOMAIN delivered : delivered'[i] = delivered[i] /\ i \in DOMAIN delivered'
      /\ \A i \in DOMAIN delivered' : i \in DOMAIN delivered \/ i = Len(delivered')
      /\ Len(delivered') \in DOMAIN delivered'
  BY Appending
<1>3. messages' = Append(messages, seq) /\ last' = seq /\ UNCHANGED err
  BY DEF Appended
<1>4. /\ messages' # << >> /\ messages'[Len(messages')] = seq
      /\ \A m \in DOMAIN messages : messages'[m] = messages[m] /\ m \in DOMAIN messages'
      /\ \A m \in DOMAIN messages' : m \in DOMAIN messages \/ m = Len(messages')
      /\ Len(messages') \in DOMAIN messages'
  BY <1>3, Appending
<1>5. seq \in Nat /\ last \in Nat /\ \A i \in DOMAIN delivered : delivered[i] \in Nat
  BY MaxSeqAssumption DEF Sequence
<1>6. \A i \in DOMAIN delivered : delivered[i] > 0 /\ delivered[i] <= last /\ delivered[i] < seq
  BY <1>5 DEF Filtered
<1>7. /\ \A i \in DOMAIN delivered : IsNew(delivered', i) <=> IsNew(delivered, i)
      /\ IsNew(delivered', Len(delivered'))
  BY <1>6, NewStep
<1>8. \A i \in DOMAIN delivered' : delivered'[i] > 0 /\ delivered'[i] <= last'
  BY <1>2, <1>3, <1>5, <1>6
<1>9. ASSUME NEW m \in DOMAIN messages'
      PROVE  \E i \in DOMAIN delivered' : IsNew(delivered', i) /\ messages'[m] = delivered'[i]
  <2>1. CASE m = Len(messages')
    BY <1>2, <1>4, <1>7, <2>1
  <2>2. CASE m \in DOMAIN messages
    <3>1. PICK i \in DOMAIN delivered : IsNew(delivered, i) /\ messages[m] = delivered[i]
      BY <2>2 DEF Filtered
    <3> QED BY <1>2, <1>4, <1>7, <2>2, <3>1
  <2> QED BY <1>4, <2>1, <2>2
<1>10. ASSUME NEW i \in DOMAIN delivered', IsNew(delivered', i)
       PROVE  \E m \in DOMAIN messages' : messages'[m] = delivered'[i]
  BY <1>2, <1>4, <1>7, <1>10 DEF Filtered
<1>11. Filtered'
  BY <1>4, <1>8, <1>9, <1>10 DEF Filtered
<1>12. Types' /\ Numbered' /\ Committed'
  BY <1>1, <1>2, RecorderAssumption DEF Numbered, Committed
<1> QED BY <1>1, <1>11, <1>12

\* A redelivery, or a message that a later one overtook, is not a new one.
LEMMA SkipStep ==
    ASSUME RecorderInv, ~err, ~done, preserve, NEW seq \in Sequence, Len(delivered) < MaxWrites,
           delivered' = Append(delivered, seq), seq > 0, seq <= last, Skipped,
           UNCHANGED <<preserve, done, published>>
    PROVE  RecorderInv'
<1> USE DEF RecorderInv, Types, Skipped
<1>1. /\ delivered' \in Seq(Sequence) /\ delivered' # << >> /\ Len(delivered') = Len(delivered) + 1
      /\ delivered'[Len(delivered')] = seq
      /\ \A i \in DOMAIN delivered : delivered'[i] = delivered[i] /\ i \in DOMAIN delivered'
      /\ \A i \in DOMAIN delivered' : i \in DOMAIN delivered \/ i = Len(delivered')
  BY Appending
<1>2. seq \in Nat /\ last \in Nat
  BY MaxSeqAssumption DEF Sequence
<1>3. messages # << >> /\ last = messages[Len(messages)] /\ Len(messages) \in DOMAIN messages
  BY <1>2 DEF Staged
<1>4. \E i \in DOMAIN delivered : delivered[i] = last
  BY <1>3 DEF Filtered
<1>5. /\ \A i \in DOMAIN delivered : IsNew(delivered', i) <=> IsNew(delivered, i)
      /\ ~IsNew(delivered', Len(delivered'))
  BY <1>2, <1>4, NewStep
<1>6. \A i \in DOMAIN delivered' : delivered'[i] > 0 /\ delivered'[i] <= last'
  BY <1>1 DEF Filtered
<1>7. ASSUME NEW m \in DOMAIN messages'
      PROVE  \E i \in DOMAIN delivered' : IsNew(delivered', i) /\ messages'[m] = delivered'[i]
  BY <1>1, <1>5 DEF Filtered
<1>8. ASSUME NEW i \in DOMAIN delivered', IsNew(delivered', i)
      PROVE  \E m \in DOMAIN messages' : messages'[m] = delivered'[i]
  BY <1>1, <1>5, <1>8 DEF Filtered
<1>9. Filtered'
  BY <1>3, <1>6, <1>7, <1>8 DEF Filtered
<1>10. Types' /\ Staged' /\ Numbered' /\ Committed'
  BY <1>1, RecorderAssumption DEF Staged, Numbered, Committed
<1> QED BY <1>9, <1>10

LEMMA RecorderStep ==
    ASSUME RecorderInv, [RecorderNext]_recorderVars
    PROVE  RecorderInv'
<1> USE DEF RecorderInv
<1>1. CASE UNCHANGED recorderVars \/ Discard
  <2>1. UNCHANGED <<preserve, delivered, messages, first, last, msgs, err, published>> /\ (done => done')
    BY <1>1 DEF recorderVars, Discard
  <2>2. Types' /\ Staged' /\ Numbered' /\ Filtered'
    BY <2>1 DEF Types, Staged, Numbered, Filtered
  <2>3. Committed'
    BY <2>1 DEF Committed, writeArchive, head
  <2> QED BY <2>2, <2>3
<1>2. ASSUME NEW seq \in Sequence, write(seq) PROVE RecorderInv'
  <2>1. CASE ~err /\ ~done
    <3>1. Len(delivered) < MaxWrites /\ delivered' = Append(delivered, seq)
          /\ UNCHANGED <<preserve, done, published>>
      BY <1>2, <2>1 DEF write
    <3>2. CASE Failed
      BY <2>1, <3>1, <3>2, FailStep
    <3>3. CASE ~preserve /\ Appended(last + 1)
      BY <2>1, <3>1, <3>3, CoreStep
    <3>4. CASE preserve /\ seq > 0 /\ seq <= last /\ Skipped
      BY <2>1, <3>1, <3>4, SkipStep
    <3>5. CASE preserve /\ seq > last /\ Appended(seq)
      BY <2>1, <3>1, <3>5, StreamStep
    <3> QED BY <1>2, <2>1, <3>2, <3>3, <3>4, <3>5 DEF write
  <2>2. CASE err \/ done
    <3>1. UNCHANGED <<preserve, delivered, messages, first, last, msgs, err, done, published>>
      BY <1>2, <2>2 DEF write, Skipped
    <3> QED BY <3>1 DEF Types, Staged, Numbered, Filtered, Committed, writeArchive, head
  <2> QED BY <2>1, <2>2
<1>3. CASE Close
  <2>1. Types' /\ Staged' /\ Numbered' /\ Filtered'
    BY <1>3 DEF Close, Types, Staged, Numbered, Filtered
  <2>2. Committed'
    BY <1>3 DEF Close, Committed, writeArchive, head
  <2> QED BY <2>1, <2>2
<1> QED BY <1>1, <1>2, <1>3 DEF RecorderNext

-----------------------------------------------------------------------------
\* A sequence between two more elements.
LEMMA Framed ==
    ASSUME NEW S, NEW h \in S, NEW b \in Seq(S), NEW t \in S
    PROVE  /\ Len(<<h>> \o b \o <<t>>) = Len(b) + 2
           /\ (<<h>> \o b \o <<t>>)[1] = h
           /\ \A i \in 1 .. Len(b) : (<<h>> \o b \o <<t>>)[i + 1] = b[i]
           /\ (<<h>> \o b \o <<t>>)[Len(b) + 2] = t
<1> DEFINE f == <<h>> \o b
<1>1. /\ f \in Seq(S) /\ Len(f) = Len(b) + 1 /\ f[1] = h
      /\ \A i \in 1 .. Len(b) : f[i + 1] = b[i]
  OBVIOUS
<1> HIDE DEF f
<1>2. /\ Len(f \o <<t>>) = Len(f) + 1
      /\ \A i \in 1 .. Len(f) : (f \o <<t>>)[i] = f[i]
      /\ (f \o <<t>>)[Len(f) + 1] = t
  BY <1>1
<1>3. \A i \in 1 .. Len(b) : i + 1 \in 1 .. Len(f)
  BY <1>1
<1> QED BY <1>1, <1>2, <1>3 DEF f

\* The archive that Close writes, entry by entry.
LEMMA ArchiveEntries ==
    ASSUME messages \in Seq(Sequence)
    PROVE  /\ Len(writeArchive) = Len(messages) + 2
           /\ writeArchive[1] = head
           /\ \A i \in 1 .. Len(messages) : writeArchive[i + 1] = MessageEntry(messages[i])
           /\ writeArchive[Len(messages) + 2] = Sentinel
<1> DEFINE body == [i \in 1 .. Len(messages) |-> MessageEntry(messages[i])]
           S == {MessageEntry(q) : q \in Sequence} \cup {head, Sentinel}
<1>1. Len(messages) \in Nat
  OBVIOUS
<1>2. /\ body \in Seq(S) /\ Len(body) = Len(messages)
      /\ \A i \in 1 .. Len(messages) : body[i] = MessageEntry(messages[i])
  BY <1>1
<1>3. writeArchive = <<head>> \o body \o <<Sentinel>> /\ head \in S /\ Sentinel \in S
  BY DEF writeArchive
<1> HIDE DEF body, S
<1>4. PICK h, b, t : h = head /\ b = body /\ t = Sentinel
  OBVIOUS
<1>5. h \in S /\ b \in Seq(S) /\ t \in S
  BY <1>2, <1>3, <1>4
<1>6. /\ Len(<<h>> \o b \o <<t>>) = Len(b) + 2
      /\ (<<h>> \o b \o <<t>>)[1] = h
      /\ \A i \in 1 .. Len(b) : (<<h>> \o b \o <<t>>)[i + 1] = b[i]
      /\ (<<h>> \o b \o <<t>>)[Len(b) + 2] = t
  BY <1>5, Framed
<1>7. writeArchive = <<h>> \o b \o <<t>> /\ Len(b) = Len(messages)
  BY <1>2, <1>3, <1>4
<1> QED BY <1>2, <1>4, <1>6, <1>7

LEMMA MessageSeq == ASSUME NEW q PROVE MessageEntry(q).seq = q
BY DEF MessageEntry

\* A strictly ascending archive under a head that starts no later can be restored.
LEMMA ArchiveRestorable ==
    ASSUME RecorderInv
    PROVE  /\ RestorableAt(writeArchive, Len(writeArchive))
           /\ writeArchive[1].msgs = Len(writeArchive) - 2
<1> USE MaxSeqAssumption DEF RecorderInv, Types
<1> DEFINE A == writeArchive  N == Len(messages)
<1>1. N \in Nat /\ \A i \in 1 .. N : messages[i] \in Nat
  BY DEF Sequence
<1>2. /\ Len(A) = N + 2 /\ A[1] = head /\ A[N + 2] = Sentinel
      /\ \A i \in 1 .. N : A[i + 1] = MessageEntry(messages[i])
  BY ArchiveEntries
<1>3. /\ head.name = "state" /\ head.ok /\ head.consumers = 0 /\ head.msgs = N
      /\ head.first = IF first > 1 THEN first ELSE 1
  BY DEF head, StateEntry, Staged
<1> HIDE DEF A, N
<1>4. \A i \in 2 .. N + 1 : i - 1 \in 1 .. N /\ A[i].seq = messages[i - 1]
  <2>1. ASSUME NEW i \in 2 .. N + 1 PROVE i - 1 \in 1 .. N /\ A[i].seq = messages[i - 1]
    <3>1. i - 1 \in 1 .. N /\ (i - 1) + 1 = i
      BY <1>1
    <3>2. A[(i - 1) + 1] = MessageEntry(messages[i - 1])
      BY <1>2, <3>1
    <3> QED BY <3>1, <3>2 DEF MessageEntry
  <2> QED BY <2>1
<1>5. MessageRange(A, N + 2) = 2 .. N + 1
  BY <1>1, <1>2, <1>3 DEF MessageRange
<1>6. head.first > 0 /\ \A i \in 1 .. N : messages[i] > 0 /\ messages[i] >= head.first
  <2>1. head.first > 0
    BY <1>3 DEF Sequence
  <2>2. ASSUME NEW i \in 1 .. N PROVE messages[i] > 0 /\ messages[i] >= head.first
    <3>1. messages # << >> /\ first = messages[1] /\ messages[i] > 0 /\ messages[1] > 0
      BY <1>1, <2>2 DEF Staged, N
    <3>2. i = 1 \/ messages[1] < messages[i]
      BY <1>1, <2>2 DEF Staged, N
    <3> QED BY <1>1, <1>3, <3>1, <3>2 DEF Sequence
  <2> QED BY <2>1, <2>2
<1>7. \A i \in 2 .. N + 1 : IsMessage(A[i]) /\ A[1].first > 0 /\ A[i].seq >= A[1].first
  BY <1>1, <1>2, <1>4, <1>6 DEF IsMessage
<1>8. ASSUME NEW i \in 2 .. N + 1, NEW j \in 2 .. N + 1, i < j PROVE A[i].seq < A[j].seq
  <2>1. i - 1 \in DOMAIN messages /\ j - 1 \in DOMAIN messages /\ i - 1 < j - 1
    BY <1>1, <1>4, <1>8 DEF N
  <2>2. messages[i - 1] < messages[j - 1]
    BY <2>1 DEF Staged
  <2> QED BY <1>4, <2>2
<1>9. RestorableAt(A, N + 2)
  <2>1. IsState(A[1]) /\ A[1].consumers + 2 <= N + 2 /\ N + 2 \in 2 .. Len(A)
    BY <1>1, <1>2, <1>3 DEF IsState
  <2>2. \A i \in 2 .. A[1].consumers + 1 : IsConsumer(A[i])
    BY <1>2, <1>3
  <2>3. IsEnd(A[N + 2])
    BY <1>2 DEF IsEnd, Sentinel
  <2> QED BY <1>5, <1>7, <1>8, <2>1, <2>2, <2>3 DEF RestorableAt
<1> QED BY <1>1, <1>2, <1>3, <1>9 DEF A

-----------------------------------------------------------------------------
\* What is staged follows what was delivered, and what was committed is what was staged.
THEOREM RecorderInvariant == RecorderSpec => []RecorderInv
<1>1. RecorderInv /\ [RecorderNext]_recorderVars => RecorderInv'
  BY RecorderStep
<1> QED BY InitRecorderInv, <1>1, PTL DEF RecorderSpec

\* Whatever was delivered, in whatever order, and wherever a write failed: a capture that
\* Close commits can be restored and its head counts its messages (Recorder.Close).
THEOREM PublishedRestorable == RecorderSpec => []PublishedIsRestorable
<1>1. RecorderInv => PublishedIsRestorable
  BY ArchiveRestorable DEF RecorderInv, Committed, PublishedIsRestorable
<1> QED BY <1>1, RecorderInvariant, PTL

\* A committed stream capture holds exactly the running maxima of what was delivered,
\* and a committed core capture every message (Recorder.Write).
THEOREM CaptureExact == RecorderSpec => []Recorded
<1>1. ASSUME RecorderInv PROVE Recorded
  <2> SUFFICES ASSUME published # None
               PROVE  LET kept == {published[i].seq : i \in 2 .. Len(published) - 1}
                      IN  IF preserve
                          THEN kept = {delivered[i] : i \in {k \in DOMAIN delivered : IsNew(delivered, k)}}
                          ELSE kept = 1 .. Len(delivered)
    BY DEF Recorded, IsNew
  <2> USE <1>1 DEF RecorderInv, Types
  <2> DEFINE kept == {published[i].seq : i \in 2 .. Len(published) - 1}
             N == Len(messages)
  <2>1. published = writeArchive /\ ~err /\ N \in Nat
    BY DEF Committed
  <2>2. Len(published) = N + 2 /\ \A i \in 1 .. N : published[i + 1] = MessageEntry(messages[i])
    BY <2>1, ArchiveEntries
  <2>3. kept = {messages[i] : i \in 1 .. N}
    <3> HIDE DEF N
    <3>1. ASSUME NEW i \in 1 .. N
          PROVE  i + 1 \in 2 .. Len(published) - 1 /\ published[i + 1].seq = messages[i]
      <4>1. i + 1 \in 2 .. Len(published) - 1
        BY <2>1, <2>2
      <4> QED BY <2>2, <4>1, MessageSeq
    <3>2. ASSUME NEW i \in 2 .. Len(published) - 1
          PROVE  i - 1 \in 1 .. N /\ published[i].seq = messages[i - 1]
      <4>1. i - 1 \in 1 .. N /\ (i - 1) + 1 = i
        BY <2>1, <2>2
      <4> QED BY <3>1, <4>1
    <3>3. \A x \in kept : x \in {messages[i] : i \in 1 .. N}
      BY <3>2
    <3>4. \A i \in 1 .. N : messages[i] \in kept
      BY <3>1
    <3> HIDE DEF kept
    <3> QED BY <3>3, <3>4
  <2> HIDE DEF kept
  <2>4. CASE preserve
    <3>1. DOMAIN messages = 1 .. N
      OBVIOUS
    <3>2. kept = {delivered[i] : i \in {k \in DOMAIN delivered : IsNew(delivered, k)}}
      BY <2>1, <2>3, <2>4, <3>1 DEF Filtered
    <3> QED BY <2>4, <3>2 DEF kept
  <2>5. CASE ~preserve
    <3>1. kept = 1 .. Len(delivered)
      BY <2>1, <2>3, <2>5 DEF Numbered
    <3> QED BY <2>5, <3>1 DEF kept
  <2> QED BY <2>4, <2>5
<1> QED BY <1>1, RecorderInvariant, PTL

-----------------------------------------------------------------------------
(* The edit: its inductive invariant.                                       *)

Ascending(s) == \A i, j \in DOMAIN s : i < j => s[i].seq < s[j].seq

\* What was read is the source up to here, but for what was modified since.
SourceInv ==
    /\ o \in OptionType
    /\ srcState \in HeadType /\ srcState.first > 0
    /\ src \in Seq(Msg) /\ Ascending(src)
    /\ \A i \in DOMAIN src : src[i].seq > 0 /\ src[i].seq \in srcState.first .. srcState.metaLast
    /\ pos \in 0 .. Len(src)
    /\ observed \in Seq(Msg) /\ Len(observed) <= Len(src)
    /\ \A i \in DOMAIN observed : observed[i].seq = src[i].seq
    /\ pc \in {"head", "pass"} => pos = Len(observed)
    /\ pc = "head" => observed = << >>
    /\ pc \in {"rewind", "copy", "done"} => Len(observed) = Len(src)
    /\ pc \in {"rewind", "copy"} => TwoPass

\* The messages that the filters let pass, and those of them that are newer.
Pass     == {i \in DOMAIN observed : Selected(observed[i])}
Newer(i) == {j \in Pass : j > i /\ observed[j].kind.subject = observed[i].kind.subject}
PassOf(s) == {i \in Pass : observed[i].kind.subject = s}

ReportType == [source : Nat, kept : Nat, dropped : [DropKinds -> Nat], consumers : Nat]

\* The counters of the report.
CountInv ==
    /\ report \in ReportType
    /\ report.source = Len(observed)
    /\ pc \in {"head", "pass"} => /\ Len(observed) = Cardinality(Pass) + allDropped(report.dropped)
                                  /\ report.dropped["perSubject"] = 0
    /\ pc \in {"rewind", "copy", "done"} =>
           Len(observed) = Cardinality(Survivors) + allDropped(report.dropped)

\* How many messages of its subject are newer than the one in slot k of a ring.
Age(es, next, k) == IF k < next THEN next - 1 - k ELSE Len(es) + next - 1 - k

\* A ring of size N over the messages P, where c counts the newer ones and w is
\* what a slot keeps: each slot holds the message its age gives, the cursor of a
\* full ring is at the oldest, and every message with fewer than N newer ones is
\* in a slot.
Ring(es, next, N, P, c, w) ==
    /\ Len(es) <= N
    /\ next \in 1 .. N
    /\ Len(es) < N => next = 1 /\ \A i \in P : c[i] < Len(es)
    /\ \A k \in DOMAIN es : \E i \in P : es[k] = w[i] /\ c[i] = Age(es, next, k)
    /\ \A i \in P : c[i] < N => \E k \in DOMAIN es : es[k] = w[i]

RingEntries == [seq : Sequence, size : Nat, tomb : BOOLEAN]

RingInv(s) ==
    Ring(perSubj[s].entries, perSubj[s].next, o.last, PassOf(s),
         [i \in PassOf(s) |-> Cardinality(Newer(i))], [i \in PassOf(s) |-> ringEntry(observed[i])])

\* The slot of a key holds its newest revision.
SlotInv(s) ==
    LET es == perSubj[s].entries
    IN  \/ es = << >> /\ PassOf(s) = {}
        \/ \E i \in PassOf(s) : Newer(i) = {} /\ es = <<ringEntry(observed[i])>>

SubjectInv ==
    /\ perSubj \in [Subjects -> [entries : Seq(RingEntries), next : Nat]]
    /\ perSubject => \A s \in Subjects : IF o.kvCompact THEN SlotInv(s) ELSE RingInv(s)

\* The messages C, by their place in the source, have been counted and written.
Written(C) ==
    /\ report.kept = Cardinality(C)
    /\ encodes => /\ Len(out) = Cardinality(C)
                  /\ {<<out[i].subject, out[i].from>> : i \in DOMAIN out} =
                        {<<observed[i].kind.subject, observed[i].seq>> : i \in C}
    /\ ~o.renumber /\ C # {} => firstOut = Min({observed[i].seq : i \in C})

WrittenInv ==
    /\ pc \in {"head", "pass"} => Written(IF perSubject THEN {} ELSE Pass)
    /\ pc = "rewind" => Written({})
    /\ pc = "copy" => \E C \in SUBSET {i \in Survivors : i <= pos} : Written(C)
    /\ pc = "done" => Written(Survivors)

\* What the first pass resolved.
ResolvedInv ==
    pc \in {"rewind", "copy"} =>
        /\ res.msgs = Cardinality(Survivors)
        /\ res.bytes = totalSize({ringEntry(observed[i]) : i \in Survivors})

\* The sizes of what is written, as far as the names keep their length.
SizeInv ==
    ~o.obfuscate =>
        /\ pc \in {"head", "pass"} /\ ~perSubject => bytes = totalSize({ringEntry(observed[i]) : i \in Pass})
        /\ pc = "done" => bytes = totalSize({ringEntry(observed[i]) : i \in Survivors})

OutType == [subject : Subjects, seq : Nat, from : Sequence, size : Nat]

\* The output as far as it is written.
OutInv ==
    /\ out \in Seq(OutType)
    /\ pc \notin {"head", "failed"} => report.consumers = IF o.renumber THEN 0 ELSE srcState.consumers
    /\ pc \in {"head", "rewind"} \/ (pc = "pass" /\ perSubject) => out = << >>
    /\ encodes => /\ Len(out) = report.kept
                  /\ out # << >> => firstOut = out[1].seq
    /\ \A i \in DOMAIN out :
          /\ out[i].seq = IF o.renumber THEN i ELSE out[i].from
          /\ out[i].from > 0 /\ out[i].from \in srcState.first .. srcState.metaLast
          /\ \E j \in 1 .. pos : out[i].from = src[j].seq
    /\ \A i, j \in DOMAIN out : i < j => out[i].from < out[j].from

EditInv == SourceInv /\ CountInv /\ SubjectInv /\ WrittenInv /\ ResolvedInv /\ SizeInv /\ OutInv

-----------------------------------------------------------------------------
(* Induction over the naturals as a fact about sets, and with it what the   *)
(* sum of the sizes of a finite set is.                                     *)

LEMMA NatMin == ASSUME NEW T, T \subseteq Nat, T # {} PROVE \E n \in T : \A m \in T : n <= m
<1> DEFINE R == OpToRel(<, Nat)
<1>1. IsWellFoundedOn(R, Nat)
  BY NatLessThanWellFounded
<1>2. \A m, n \in Nat : m < n => <<m, n>> \in R
  BY DEF OpToRel
<1> HIDE DEF R
<1>3. PICK n \in T : \A m \in T : ~(<<m, n>> \in R)
  BY <1>1, WFMin
<1>4. ASSUME NEW m \in T PROVE n <= m
  <2>1. ~(m < n)
    BY <1>2, <1>3
  <2> QED BY <2>1
<1> QED BY <1>4

LEMMA SetInduction == ASSUME NEW T, 0 \in T, \A n \in Nat : n \in T => n + 1 \in T PROVE Nat \subseteq T
<1> SUFFICES ASSUME ~(Nat \subseteq T) PROVE FALSE
  OBVIOUS
<1> DEFINE C == Nat \ T
<1>1. C # {} /\ C \subseteq Nat
  OBVIOUS
<1>2. PICK n \in C : \A m \in C : n <= m
  BY <1>1, NatMin
<1>3. n # 0 /\ n \in Nat
  OBVIOUS
<1>4. n - 1 \in Nat /\ n - 1 \notin C
  BY <1>2, <1>3
<1> QED BY <1>3, <1>4

\* The element that the sum of a set takes first.
Pick(s) == CHOOSE x \in s : TRUE

\* The subsets of S with n elements at most.
Small(S, n) == {s \in SUBSET S : Cardinality(s) <= n}

\* g solves, on D, the recursion by which the sizes are summed.
IsSum(g, D) == g = [s \in D |-> IF s = {} THEN 0 ELSE Pick(s).size + g[s \ {Pick(s)}]]

LEMMA Picked == ASSUME NEW S, IsFiniteSet(S), NEW s \in SUBSET S, s # {}
  PROVE /\ Pick(s) \in s /\ s \ {Pick(s)} \in SUBSET S
        /\ IsFiniteSet(s) /\ Cardinality(s) \in Nat /\ Cardinality(s) > 0 /\ Cardinality(s \ {Pick(s)}) = Cardinality(s) - 1
<1>1. Pick(s) \in s
  BY DEF Pick
<1>2. IsFiniteSet(s) /\ Cardinality(s) \in Nat
  BY FS_Subset, FS_CardinalityType
<1>3. Cardinality(s \ {Pick(s)}) = Cardinality(s) - 1
  BY <1>1, <1>2, FS_RemoveElement
<1>4. Cardinality(s) # 0
  BY <1>2, FS_EmptySet
<1> QED BY <1>1, <1>2, <1>3, <1>4

LEMMA SumExists == ASSUME NEW S, IsFiniteSet(S), \A x \in S : x.size \in Nat
  PROVE  \E g \in [SUBSET S -> Nat] : IsSum(g, SUBSET S)
<1> DEFINE T == {n \in Nat : \E g \in [Small(S, n) -> Nat] : IsSum(g, Small(S, n))}
<1>0. \A s \in SUBSET S : Cardinality(s) \in Nat /\ (Cardinality(s) = 0 <=> s = {})
  BY FS_Subset, FS_CardinalityType, FS_EmptySet
<1>1. 0 \in T
  <2>1. \A s \in Small(S, 0) : s = {}
    BY <1>0 DEF Small
  <2>2. [s \in Small(S, 0) |-> 0] \in [Small(S, 0) -> Nat]
    OBVIOUS
  <2>3. IsSum([s \in Small(S, 0) |-> 0], Small(S, 0))
    BY <2>1 DEF IsSum
  <2> QED BY <2>2, <2>3
<1>2. ASSUME NEW n \in Nat, n \in T PROVE n + 1 \in T
  <2>1. PICK g \in [Small(S, n) -> Nat] : IsSum(g, Small(S, n))
    BY <1>2
  <2> DEFINE val(s) == IF s = {} THEN 0 ELSE Pick(s).size + g[s \ {Pick(s)}]
             h == [s \in Small(S, n + 1) |-> val(s)]
  <2>2. \A s \in Small(S, n) : g[s] = val(s)
    BY <2>1 DEF IsSum
  <2>3. ASSUME NEW s \in Small(S, n + 1), s # {}
        PROVE  Pick(s) \in S /\ s \ {Pick(s)} \in Small(S, n)
    <3>1. s \in SUBSET S /\ Cardinality(s) <= n + 1
      BY DEF Small
    <3>2. Cardinality(s \ {Pick(s)}) = Cardinality(s) - 1 /\ Cardinality(s) \in Nat /\ Pick(s) \in s
      BY <2>3, <3>1, Picked
    <3> QED BY <3>1, <3>2 DEF Small
  <2>4. h \in [Small(S, n + 1) -> Nat]
    <3>1. ASSUME NEW s \in Small(S, n + 1) PROVE val(s) \in Nat
      BY <2>3
    <3> QED BY <3>1
  <2>5. Small(S, n) \subseteq Small(S, n + 1)
    BY <1>0 DEF Small
  <2>6. ASSUME NEW s \in Small(S, n) PROVE h[s] = g[s]
    BY <2>2, <2>5
  <2>7. ASSUME NEW s \in Small(S, n + 1)
        PROVE  h[s] = IF s = {} THEN 0 ELSE Pick(s).size + h[s \ {Pick(s)}]
    <3>1. CASE s = {}
      BY <3>1
    <3>2. CASE s # {}
      <4>1. h[s \ {Pick(s)}] = g[s \ {Pick(s)}]
        BY <2>3, <2>6, <3>2
      <4> QED BY <3>2, <4>1
    <3> QED BY <3>1, <3>2
  <2> HIDE DEF h
  <2>8. IsSum(h, Small(S, n + 1))
    BY <2>4, <2>7 DEF IsSum
  <2> QED BY <2>4, <2>8
<1> HIDE DEF T
<1>3. Cardinality(S) \in T
  <2>1. Nat \subseteq T
    BY <1>1, <1>2, SetInduction
  <2> QED BY <1>0, <2>1
<1>4. Small(S, Cardinality(S)) = SUBSET S
  <2>1. ASSUME NEW s \in SUBSET S PROVE Cardinality(s) <= Cardinality(S)
    BY FS_Subset
  <2> QED BY <2>1 DEF Small
<1> QED BY <1>3, <1>4 DEF T

\* g gives the total size of every subset of S.
Sums(g, S) ==
    /\ IsFiniteSet(S) /\ \A x \in S : x.size \in Nat
    /\ \A s \in SUBSET S : g[s] = IF s = {} THEN 0 ELSE Pick(s).size + g[s \ {Pick(s)}]

LEMMA TotalIsSum == ASSUME NEW S, IsFiniteSet(S), \A x \in S : x.size \in Nat
  PROVE  \E g : Sums(g, S) /\ totalSize(S) = g[S]
<1> DEFINE it == CHOOSE g : g = [s \in SUBSET S |-> IF s = {} THEN 0 ELSE Pick(s).size + g[s \ {Pick(s)}]]
<1>1. PICK f \in [SUBSET S -> Nat] : IsSum(f, SUBSET S)
  BY SumExists
<1>2. f = [s \in SUBSET S |-> IF s = {} THEN 0 ELSE Pick(s).size + f[s \ {Pick(s)}]]
  BY <1>1 DEF IsSum
<1>3. it = [s \in SUBSET S |-> IF s = {} THEN 0 ELSE Pick(s).size + it[s \ {Pick(s)}]]
  BY <1>2, Zenon
<1>4. totalSize(S) = it[S]
  BY Zenon DEF totalSize, MapThenSumSet, MapThenFoldSet, Pick
<1> HIDE DEF it
<1>5. \A s \in SUBSET S : it[s] = IF s = {} THEN 0 ELSE Pick(s).size + it[s \ {Pick(s)}]
  BY <1>3
<1> QED BY <1>4, <1>5 DEF Sums

\* One more element, whichever is picked first.
LEMMA SumStep == ASSUME NEW S, NEW g, Sums(g, S), NEW s, s \subseteq S
  PROVE  /\ IsFiniteSet(s) /\ Cardinality(s) \in Nat /\ (Cardinality(s) = 0 <=> s = {})
         /\ s = {} => g[s] = 0
         /\ s # {} => /\ Pick(s) \in s /\ Pick(s).size \in Nat
                      /\ Cardinality(s \ {Pick(s)}) = Cardinality(s) - 1
                      /\ g[s] = Pick(s).size + g[s \ {Pick(s)}]
<1>1. IsFiniteSet(s) /\ Cardinality(s) \in Nat /\ (Cardinality(s) = 0 <=> s = {})
  BY FS_Subset, FS_CardinalityType, FS_EmptySet DEF Sums
<1>2. s = {} => g[s] = 0
  BY DEF Sums
<1>3. ASSUME s # {}
      PROVE  /\ Pick(s) \in s /\ Pick(s).size \in Nat
             /\ Cardinality(s \ {Pick(s)}) = Cardinality(s) - 1
             /\ g[s] = Pick(s).size + g[s \ {Pick(s)}]
  <2>1. Pick(s) \in s
    BY <1>3 DEF Pick
  <2>2. Pick(s).size \in Nat
    BY <2>1 DEF Sums
  <2>3. Cardinality(s \ {Pick(s)}) = Cardinality(s) - 1
    BY <1>1, <2>1, FS_RemoveElement
  <2>4. g[s] = Pick(s).size + g[s \ {Pick(s)}]
    BY <1>3 DEF Sums
  <2> QED BY <2>1, <2>2, <2>3, <2>4
<1> QED BY <1>1, <1>2, <1>3

LEMMA SumType == ASSUME NEW S, NEW g, Sums(g, S), NEW t, t \subseteq S
  PROVE  g[t] \in Nat
<1> DEFINE T == {n \in Nat : \A s \in SUBSET S : Cardinality(s) = n => g[s] \in Nat}
<1>1. 0 \in T
  <2>1. ASSUME NEW s \in SUBSET S, Cardinality(s) = 0 PROVE g[s] \in Nat
    <3>1. s = {}
      BY <2>1, SumStep
    <3>2. g[s] = 0
      BY <3>1, SumStep
    <3> QED BY <3>2
  <2> QED BY <2>1
<1>2. ASSUME NEW n \in Nat, n \in T PROVE n + 1 \in T
  <2>1. ASSUME NEW s \in SUBSET S, Cardinality(s) = n + 1 PROVE g[s] \in Nat
    <3>0. Cardinality(s) = 0 <=> s = {}
      BY SumStep
    <3>1. s # {}
      BY <2>1, <3>0
    <3>2. Cardinality(s \ {Pick(s)}) = n /\ Pick(s).size \in Nat /\ g[s] = Pick(s).size + g[s \ {Pick(s)}]
      BY <2>1, <3>1, SumStep
    <3>3. g[s \ {Pick(s)}] \in Nat
      BY <1>2, <3>2
    <3> QED BY <3>2, <3>3
  <2> QED BY <2>1
<1> HIDE DEF T
<1>3. Nat \subseteq T
  BY <1>1, <1>2, SetInduction
<1>4. Cardinality(t) \in T
  BY <1>3, SumStep
<1> QED BY <1>4 DEF T

LEMMA SumAgree == ASSUME NEW S, NEW g, Sums(g, S), NEW R, NEW h, Sums(h, R), R \subseteq S
  PROVE  g[R] = h[R]
<1> DEFINE T == {n \in Nat : \A s \in SUBSET R : Cardinality(s) = n => g[s] = h[s]}
<1>1. 0 \in T
  <2>1. ASSUME NEW s \in SUBSET R, Cardinality(s) = 0 PROVE g[s] = h[s]
    <3>1. s = {} /\ g[s] = 0
      BY <2>1, SumStep
    <3>2. h[s] = 0
      BY <3>1, SumStep
    <3> QED BY <3>1, <3>2
  <2> QED BY <2>1
<1>2. ASSUME NEW n \in Nat, n \in T PROVE n + 1 \in T
  <2>1. ASSUME NEW s \in SUBSET R, Cardinality(s) = n + 1 PROVE g[s] = h[s]
    <3>0. Cardinality(s) = 0 <=> s = {}
      BY SumStep
    <3>1. s # {} /\ s \subseteq R /\ s \subseteq S
      BY <2>1, <3>0
    <3>2. Cardinality(s \ {Pick(s)}) = n /\ h[s] = Pick(s).size + h[s \ {Pick(s)}]
      BY <2>1, <3>1, SumStep
    <3>3. g[s] = Pick(s).size + g[s \ {Pick(s)}]
      BY <3>1, SumStep
    <3>4. g[s \ {Pick(s)}] = h[s \ {Pick(s)}]
      BY <1>2, <3>2
    <3> QED BY <3>2, <3>3, <3>4
  <2> QED BY <2>1
<1> HIDE DEF T
<1>3. Nat \subseteq T
  BY <1>1, <1>2, SetInduction
<1>4. Cardinality(R) \in T
  BY <1>3, SumStep
<1> QED BY <1>4 DEF T

LEMMA SumRemove == ASSUME NEW S, NEW g, Sums(g, S), NEW y, y \in S
  PROVE  g[S] = y.size + g[S \ {y}]
<1> DEFINE T == {n \in Nat : \A s \in SUBSET S : Cardinality(s) = n =>
                                 \A x \in s : g[s] = x.size + g[s \ {x}]}
<1>1. 0 \in T
  <2>1. ASSUME NEW s \in SUBSET S, Cardinality(s) = 0 PROVE s = {}
    BY <2>1, SumStep
  <2> QED BY <2>1
<1>2. ASSUME NEW n \in Nat, n \in T PROVE n + 1 \in T
  <2>1. ASSUME NEW s \in SUBSET S, Cardinality(s) = n + 1, NEW x \in s
        PROVE  g[s] = x.size + g[s \ {x}]
    <3> DEFINE z == Pick(s)  b == (s \ {x}) \ {z}
    <3>1. z \in s /\ Cardinality(s \ {z}) = n /\ IsFiniteSet(s) /\ z.size \in Nat /\ g[s] = z.size + g[s \ {z}]
      BY <2>1, SumStep
    <3> HIDE DEF z
    <3>2. CASE x = z
      BY <3>1, <3>2
    <3>3. CASE x # z
      <4>1. x \in s \ {z} /\ z \in s \ {x} /\ s \ {x} \in SUBSET S /\ s \ {z} \in SUBSET S /\ b \subseteq S
            /\ (s \ {z}) \ {x} = b /\ (s \ {x}) \ {z} = b
        BY <3>1, <3>3
      <4>2. Cardinality(s \ {x}) = n
        BY <2>1, <3>1, FS_RemoveElement
      <4>3. g[s \ {z}] = x.size + g[b]
        BY <1>2, <3>1, <4>1
      <4>4. g[s \ {x}] = z.size + g[b]
        BY <1>2, <4>1, <4>2
      <4>5. g[b] \in Nat
        BY <4>1, SumType
      <4>6. x.size \in Nat
        BY <2>1 DEF Sums
      <4> HIDE DEF b
      <4> QED BY <3>1, <4>3, <4>4, <4>5, <4>6
    <3> QED BY <3>2, <3>3
  <2> QED BY <2>1
<1> HIDE DEF T
<1>3. Nat \subseteq T
  BY <1>1, <1>2, SetInduction
<1>4. Cardinality(S) \in T
  BY <1>3, SumStep
<1> QED BY <1>4 DEF T

\* The total of one entry more.
LEMMA TotalSize ==
  ASSUME NEW E, IsFiniteSet(E), \A x \in E : x.size \in Nat
  PROVE  /\ totalSize(E) \in Nat
         /\ totalSize({}) = 0
         /\ \A e : e \notin E /\ e.size \in Nat => totalSize(E \cup {e}) = totalSize(E) + e.size
<1>1. PICK g : Sums(g, E) /\ totalSize(E) = g[E]
  BY TotalIsSum
<1>2. g[E] \in Nat
  BY <1>1, SumType
<1>3. totalSize({}) = 0
  <2>1. IsFiniteSet({}) /\ \A x \in {} : x.size \in Nat
    BY FS_EmptySet
  <2>2. PICK f : Sums(f, {}) /\ totalSize({}) = f[{}]
    BY <2>1, TotalIsSum
  <2> QED BY <2>2, SumStep
<1>4. ASSUME NEW e, e \notin E, e.size \in Nat PROVE totalSize(E \cup {e}) = totalSize(E) + e.size
  <2>1. PICK S : S = E \cup {e}
    OBVIOUS
  <2>2. IsFiniteSet(S)
    BY <2>1, FS_AddElement
  <2>3. \A x \in S : x.size \in Nat
    BY <1>4, <2>1
  <2>4. S \ {e} = E /\ E \subseteq S /\ e \in S
    BY <1>4, <2>1
  <2>5. PICK f : Sums(f, S) /\ totalSize(S) = f[S]
    BY <2>2, <2>3, TotalIsSum
  <2>6. f[S] = e.size + f[S \ {e}]
    BY <2>4, <2>5, SumRemove
  <2>7. f[E] = g[E]
    BY <1>1, <2>4, <2>5, SumAgree
  <2>8. f[S] = e.size + g[E]
    BY <2>4, <2>6, <2>7
  <2> QED BY <1>1, <1>2, <1>4, <2>1, <2>5, <2>8
<1> QED BY <1>1, <1>2, <1>3, <1>4

-----------------------------------------------------------------------------
(* The filters, and what one more message does to the set that passes them. *)

LEMMA Typed ==
    ASSUME NEW m \in Msg
    PROVE  /\ m.seq \in Nat /\ m.seq \in Sequence /\ m.kind \in Kinds /\ m.kind.subject \in Subjects
           /\ m.kind.ts \in Nat /\ m.kind.size \in Nat
           /\ m.kind.hdr \in {"none", "tomb", "plain"} /\ m.kind.payload \in {"x", "y"}
BY EditAssumption, MaxSeqAssumption DEF Msg, KindType, Sequence

\* evaluate keeps what is selected, and names a filter for the rest.
LEMMA EvaluateSelected ==
    ASSUME o \in OptionType, NEW m \in Msg
    PROVE  /\ evaluate(m) = "keep" <=> Selected(m)
           /\ evaluate(m) # "keep" => evaluate(m) \in {"sequence", "time", "subject", "header", "payload"}
<1>1. /\ o.first \in Nat /\ o.lastSeq \in Nat /\ o.after \in Nat /\ o.before \in Nat
  BY DEF OptionType
<1>2. /\ m.seq < o.first \/ m.seq > o.lastSeq <=> m.seq \notin o.first .. o.lastSeq
      /\ m.kind.ts < o.after \/ m.kind.ts >= o.before <=> m.kind.ts \notin o.after .. o.before - 1
  BY <1>1, Typed
<1> QED BY <1>2 DEF evaluate, evalMeta, evalHeaders, evalPayload, Selected

LEMMA PassFinite ==
    ASSUME observed \in Seq(Msg)
    PROVE  /\ Pass \subseteq DOMAIN observed /\ IsFiniteSet(DOMAIN observed)
           /\ IsFiniteSet(Pass) /\ Cardinality(Pass) \in Nat
           /\ \A i : Newer(i) \subseteq Pass /\ IsFiniteSet(Newer(i)) /\ Cardinality(Newer(i)) \in Nat
<1>1. Pass \subseteq DOMAIN observed /\ DOMAIN observed = 1 .. Len(observed) /\ Len(observed) \in Nat
  BY DEF Pass
<1>2. IsFiniteSet(DOMAIN observed)
  BY <1>1, FS_Interval
<1>3. IsFiniteSet(Pass) /\ Cardinality(Pass) \in Nat
  BY <1>1, <1>2, FS_Subset, FS_CardinalityType
<1>4. \A i : Newer(i) \subseteq Pass
  BY DEF Newer
<1>5. ASSUME NEW i PROVE IsFiniteSet(Newer(i)) /\ Cardinality(Newer(i)) \in Nat
  BY <1>3, <1>4, FS_Subset, FS_CardinalityType
<1> QED BY <1>1, <1>2, <1>3, <1>4, <1>5

\* The message read next, n in the order of the source.
LEMMA Reading ==
    ASSUME SourceInv, pc = "pass", filterMessage, NEW n, n = Len(observed) + 1
    PROVE  /\ msg \in Msg /\ observed' \in Seq(Msg) /\ Len(observed') = n /\ n \in Nat
           /\ DOMAIN observed' = DOMAIN observed \cup {n} /\ n \notin DOMAIN observed
           /\ DOMAIN observed = 1 .. Len(observed) /\ Len(observed) \in Nat
           /\ \A i \in DOMAIN observed : observed'[i] = observed[i] /\ i < n
           /\ observed'[n] = msg
           /\ msg = src[n] /\ n \in DOMAIN src /\ pos' = n /\ pos = Len(observed)
<1> USE DEF SourceInv
<1>1. pos = Len(observed) /\ pos < Len(src) /\ observed' = Append(observed, msg) /\ pos' = pos + 1
  BY DEF filterMessage, unread
<1>2. msg = src[n] /\ n \in DOMAIN src /\ msg \in Msg
  BY <1>1 DEF msg
<1>3. DOMAIN observed = 1 .. Len(observed) /\ Len(observed) \in Nat
  OBVIOUS
<1>4. observed' \in Seq(Msg) /\ Len(observed') = n /\ n \in Nat /\ observed'[n] = msg
      /\ \A i \in DOMAIN observed : observed'[i] = observed[i] /\ i < n
  BY <1>1, <1>2, <1>3
<1>5. DOMAIN observed' = 1 .. n
  BY <1>4
<1> QED BY <1>1, <1>2, <1>3, <1>4, <1>5

LEMMA PassStep ==
    ASSUME SourceInv, pc = "pass", filterMessage, NEW n, n = Len(observed) + 1
    PROVE  /\ Pass' = IF Selected(msg) THEN Pass \cup {n} ELSE Pass
           /\ n \notin Pass
           /\ \A i \in Pass : Newer(i)' = IF Selected(msg) /\ observed[i].kind.subject = msg.kind.subject
                                          THEN Newer(i) \cup {n} ELSE Newer(i)
           /\ n \notin UNION {Newer(i) : i \in Pass}
           /\ Newer(n)' = {}
<1>1. /\ DOMAIN observed' = DOMAIN observed \cup {n} /\ n \notin DOMAIN observed /\ n \in Nat
      /\ \A i \in DOMAIN observed : observed'[i] = observed[i] /\ i < n
      /\ observed'[n] = msg
  BY Reading
<1>2. o' = o
  BY DEF filterMessage
<1>3. Pass' = {i \in DOMAIN observed' : Selected(observed'[i])}
  BY <1>2 DEF Pass, Selected
<1>4. Pass' = IF Selected(msg) THEN Pass \cup {n} ELSE Pass
  BY <1>1, <1>3 DEF Pass
<1>5. n \notin Pass
  BY <1>1 DEF Pass
<1>6. ASSUME NEW i \in Pass
      PROVE  Newer(i)' = IF Selected(msg) /\ observed[i].kind.subject = msg.kind.subject
                         THEN Newer(i) \cup {n} ELSE Newer(i)
  <2>1. i \in DOMAIN observed /\ i < n /\ observed'[i] = observed[i]
    BY <1>1 DEF Pass
  <2>2. Newer(i)' = {j \in Pass' : j > i /\ observed'[j].kind.subject = observed'[i].kind.subject}
    BY DEF Newer
  <2>3. \A j \in Pass : observed'[j] = observed[j]
    BY <1>1 DEF Pass
  <2>4. CASE ~Selected(msg)
    BY <1>4, <2>1, <2>2, <2>3, <2>4 DEF Newer
  <2>5. CASE Selected(msg)
    <3>1. Newer(i)' = {j \in Pass \cup {n} : j > i /\ observed'[j].kind.subject = observed[i].kind.subject}
      BY <1>4, <2>1, <2>2, <2>5
    <3>2. n > i /\ observed'[n] = msg
      BY <1>1, <2>1
    <3>3. \A j : j \in Newer(i)' <=> j \in Newer(i) \/ (j = n /\ observed[i].kind.subject = msg.kind.subject)
      BY <1>5, <2>3, <3>1, <3>2 DEF Newer
    <3> QED BY <2>5, <3>3
  <2> QED BY <2>4, <2>5
<1>7. n \notin UNION {Newer(i) : i \in Pass}
  BY <1>5 DEF Newer
<1>8. Newer(n)' = {}
  <2>1. Newer(n)' = {j \in Pass' : j > n /\ observed'[j].kind.subject = observed'[n].kind.subject}
    BY DEF Newer
  <2>2. \A j \in Pass' : j = n \/ j < n
    BY <1>1, <1>3
  <2>3. \A j \in Pass' : j \in Nat
    BY <1>1, <1>3, Reading
  <2> QED BY <1>1, <2>1, <2>2, <2>3
<1> QED BY <1>4, <1>5, <1>6, <1>7, <1>8

\* Nothing about the messages read changes while none is read.
LEMMA SameSurvivors ==
    ASSUME UNCHANGED <<o, observed>>
    PROVE  /\ Pass' = Pass /\ Survivors' = Survivors
           /\ \A i : Newer(i)' = Newer(i)
           /\ \A s : PassOf(s)' = PassOf(s)
<1>1. Pass' = Pass
  BY DEF Pass, Selected
<1>2. \A i : Newer(i)' = Newer(i)
  BY <1>1 DEF Newer
<1>3. \A s : PassOf(s)' = PassOf(s)
  BY <1>1 DEF PassOf
<1>4. Survivors' = Survivors
  BY DEF Survivors, Selected
<1> QED BY <1>1, <1>2, <1>3, <1>4

\* Survivors, by the option that decides.
LEMMA SurvivorsCases ==
    ASSUME o \in OptionType
    PROVE  /\ o.kvCompact => Survivors = {i \in Pass : Newer(i) = {} /\ observed[i].kind.hdr # "tomb"}
           /\ ~o.kvCompact /\ o.last > 0 => Survivors = {i \in Pass : Cardinality(Newer(i)) < o.last}
           /\ ~perSubject => Survivors = Pass
           /\ Survivors \subseteq Pass
<1>1. o.kvCompact => Survivors = {i \in Pass : Newer(i) = {} /\ observed[i].kind.hdr # "tomb"}
  BY DEF Survivors, Pass, Newer
<1>2. ~o.kvCompact /\ o.last > 0 => Survivors = {i \in Pass : Cardinality(Newer(i)) < o.last}
  BY DEF Survivors, Pass, Newer
<1>3. ~o.kvCompact /\ ~(o.last > 0) => Survivors = Pass
  BY DEF Survivors, Pass
<1> QED BY <1>1, <1>2, <1>3 DEF perSubject

-----------------------------------------------------------------------------
(* The invariant, conjunct by conjunct.                                     *)

LEMMA EmptyOf == \A S : << >> \in Seq(S) /\ Len(<< >>) = 0 /\ DOMAIN << >> = {}
OBVIOUS

LEMMA InitEditInv == Init => EditInv
<1> SUFFICES ASSUME Init PROVE EditInv
  OBVIOUS
<1> USE EditAssumption DEF Init
<1>1. SourceInv
  <2>1. o \in OptionType /\ srcState \in HeadType /\ srcState.first > 0 /\ src \in Seq(Msg) /\ Ascending(src)
    BY DEF Ascending
  <2>2. ASSUME NEW i \in DOMAIN src
        PROVE  src[i].seq > 0 /\ src[i].seq \in srcState.first .. srcState.metaLast
    <3>1. srcState.first > 0 /\ src[i].seq \in srcState.first .. srcState.metaLast
      BY <2>2
    <3>2. srcState.first \in Nat /\ srcState.metaLast \in Nat
      BY <2>1 DEF HeadType
    <3> QED BY <3>1, <3>2
  <2>3. pos \in 0 .. Len(src) /\ observed \in Seq(Msg) /\ Len(observed) <= Len(src)
    BY <2>1
  <2> QED BY <2>1, <2>2, <2>3 DEF SourceInv
<1>2. Pass = {} /\ Cardinality(Pass) = 0
  BY FS_EmptySet DEF Pass
<1>3. CountInv
  <2>1. /\ report.source = 0 /\ report.kept = 0 /\ report.dropped = [k \in DropKinds |-> 0]
    OBVIOUS
  <2>2. allDropped(report.dropped) = 0
    BY <2>1 DEF allDropped, DropKinds
  <2>3. report \in ReportType /\ report.dropped["perSubject"] = 0
    BY <2>1 DEF ReportType, DropKinds
  <2> QED BY <1>2, <2>1, <2>2, <2>3 DEF CountInv
<1>4. SubjectInv
  <2>1. perSubj \in [Subjects -> [entries : Seq(RingEntries), next : Nat]]
    BY EmptyOf
  <2>2. ASSUME NEW s \in Subjects PROVE SlotInv(s)
    BY <1>2 DEF SlotInv, PassOf
  <2>3. ASSUME NEW s \in Subjects, perSubject, ~o.kvCompact PROVE RingInv(s)
    <3>1. PassOf(s) = {} /\ perSubj[s].entries = << >> /\ perSubj[s].next = 1
      BY <1>2 DEF PassOf
    <3>2. o.last \in Nat /\ o.last > 0
      BY <1>1, <2>3 DEF SourceInv, OptionType, perSubject
    <3>3. /\ Len(perSubj[s].entries) = 0 /\ DOMAIN perSubj[s].entries = {}
      BY <3>1, EmptyOf
    <3> QED BY <3>1, <3>2, <3>3 DEF RingInv, Ring
  <2> QED BY <2>1, <2>2, <2>3 DEF SubjectInv
<1>5. WrittenInv
  <2>1. Written({})
    BY <1>2, FS_EmptySet DEF Written
  <2> QED BY <1>2, <2>1 DEF WrittenInv
<1>6. SizeInv
  <2>1. {ringEntry(observed[i]) : i \in Pass} = {}
    BY <1>2
  <2>2. totalSize({}) = 0
    BY TotalSize, FS_EmptySet
  <2> QED BY <2>1, <2>2 DEF SizeInv
<1>7. ResolvedInv /\ OutInv
  BY DEF ResolvedInv, OutInv
<1> QED BY <1>1, <1>3, <1>4, <1>5, <1>6, <1>7 DEF EditInv

\* A modification in place leaves the sequences as they are.
LEMMA SourceKeeps ==
    ASSUME SourceInv, ModifySource
    PROVE  /\ src' \in Seq(Msg) /\ Len(src') = Len(src) /\ DOMAIN src' = DOMAIN src
           /\ \A j \in DOMAIN src : src'[j].seq = src[j].seq
<1>0. src \in Seq(Msg)
  BY DEF SourceInv
<1>1. PICK i \in DOMAIN src, k \in Kinds : src' = [src EXCEPT ![i].kind = k]
  BY DEF ModifySource
<1>2. src[i] \in Msg /\ [src[i] EXCEPT !.kind = k] = [seq |-> src[i].seq, kind |-> k]
      /\ [seq |-> src[i].seq, kind |-> k] \in Msg
  <2>1. src[i] \in Msg
    BY <1>0
  <2> QED BY <2>1 DEF Msg
<1>3. src' \in Seq(Msg) /\ Len(src') = Len(src) /\ DOMAIN src' = DOMAIN src
  BY <1>0, <1>1, <1>2
<1>4. ASSUME NEW j \in DOMAIN src PROVE src'[j].seq = src[j].seq
  <2>1. src[j] \in Msg /\ DOMAIN src = 1 .. Len(src)
    BY <1>0
  <2> QED BY <1>0, <1>1, <1>2, <2>1 DEF Msg
<1> QED BY <1>3, <1>4

LEMMA SourceStep ==
    ASSUME SourceInv, [Next]_vars
    PROVE  SourceInv'
<1> USE DEF SourceInv
<1>0. src \in Seq(Msg) /\ Len(src) \in Nat /\ pos \in Nat
  OBVIOUS
<1>t. o' = o => (TwoPass' <=> TwoPass)
  BY DEF TwoPass, perSubject, encodes
<1>1. CASE readHead
  BY <1>t, <1>1 DEF readHead, Ascending
<1>2. CASE filterMessage
  <2> DEFINE n == Len(observed) + 1
  <2>1. pc = "pass" /\ UNCHANGED <<o, src, srcState, pc>>
    BY <1>2 DEF filterMessage
  <2>2. /\ observed' \in Seq(Msg) /\ Len(observed') = n
        /\ DOMAIN observed' = DOMAIN observed \cup {n}
        /\ \A i \in DOMAIN observed : observed'[i] = observed[i]
        /\ observed'[n] = src[n] /\ n \in DOMAIN src /\ pos' = n
    BY <1>2, <2>1, Reading
  <2>3. \A i \in DOMAIN observed' : observed'[i].seq = src'[i].seq
    BY <2>1, <2>2
  <2> HIDE DEF n
  <2> QED BY <1>t, <1>0, <2>1, <2>2, <2>3 DEF Ascending
<1>3. CASE endPass
  BY <1>t, <1>0, <1>3 DEF endPass, unread, Ascending
<1>4. CASE rewind
  BY <1>t, <1>0, <1>4 DEF rewind, Ascending
<1>5. CASE copyMessage
  BY <1>t, <1>0, <1>5 DEF copyMessage, unread, Ascending
<1>6. CASE endCopy
  BY <1>t, <1>0, <1>6 DEF endCopy, Ascending
<1>7. CASE Fails
  BY <1>t, <1>7 DEF Fails, Ascending
<1>8. CASE ModifySource
  <2>3. src' \in Seq(Msg) /\ Len(src') = Len(src) /\ DOMAIN src' = DOMAIN src
    BY <1>8, SourceKeeps
  <2>4. \A j \in DOMAIN src : src'[j].seq = src[j].seq
    BY <1>8, SourceKeeps
  <2>5. Ascending(src') 
    BY <2>3, <2>4 DEF Ascending
  <2>6. UNCHANGED <<o, srcState, pc, pos, observed>>
    BY <1>8 DEF ModifySource
  <2>7. DOMAIN observed \subseteq DOMAIN src
    BY <1>0
  <2> QED BY <1>t, <2>3, <2>4, <2>5, <2>6, <2>7 DEF Ascending
<1>9. CASE Returned \/ UNCHANGED vars
  BY <1>t, <1>9 DEF Returned, vars, Ascending
<1> QED BY <1>1, <1>2, <1>3, <1>4, <1>5, <1>6, <1>7, <1>8, <1>9 DEF Next

-----------------------------------------------------------------------------
(* The per-subject state.                                                   *)

LEMMA AppendFacts ==
    ASSUME NEW E, NEW es \in Seq(E), NEW e \in E, NEW fs, fs = Append(es, e)
    PROVE  /\ fs \in Seq(E) /\ Len(fs) = Len(es) + 1 /\ fs[Len(fs)] = e /\ Len(es) \in Nat
           /\ DOMAIN es = 1 .. Len(es) /\ DOMAIN fs = 1 .. Len(fs)
           /\ DOMAIN fs = DOMAIN es \cup {Len(fs)} /\ Len(fs) \notin DOMAIN es
           /\ \A k \in DOMAIN es : fs[k] = es[k]
OBVIOUS

LEMMA ExceptFacts ==
    ASSUME NEW E, NEW es \in Seq(E), NEW e \in E, NEW x \in DOMAIN es, NEW fs, fs = [es EXCEPT ![x] = e]
    PROVE  /\ fs \in Seq(E) /\ Len(fs) = Len(es) /\ fs[x] = e /\ Len(es) \in Nat
           /\ DOMAIN es = 1 .. Len(es) /\ DOMAIN fs = DOMAIN es
           /\ \A k \in DOMAIN es : k # x => fs[k] = es[k]
OBVIOUS

LEMMA ExceptStays ==
    ASSUME NEW E, NEW es \in Seq(E), NEW e \in E, NEW x
    PROVE  [es EXCEPT ![x] = e] \in Seq(E)
<1>1. es \in [1 .. Len(es) -> E] /\ Len(es) \in Nat
  OBVIOUS
<1>2. [es EXCEPT ![x] = e] \in [1 .. Len(es) -> E]
  BY <1>1
<1> QED BY <1>1, <1>2

LEMMA CursorMoves ==
    ASSUME NEW N \in Nat, NEW x \in 1 .. N
    PROVE  (x % N) + 1 = IF x = N THEN 1 ELSE x + 1
<1>1. CASE x = N
  BY <1>1
<1>2. CASE x < N
  <2>1. x % N = x
    BY <1>2
  <2> QED BY <1>2, <2>1
<1> QED BY <1>1, <1>2

\* Message n with entry e is added to the messages P of a ring: all others have
\* one newer message more.
Adds(E, N, es, next, P, c, w, n, e, d, v) ==
    /\ N \in Nat /\ es \in Seq(E) /\ e \in E /\ n \notin P
    /\ Ring(es, next, N, P, c, w)
    /\ \A i \in P : c[i] \in Nat
    /\ \A i, j \in P : w[i] = w[j] => i = j
    /\ d[n] = 0 /\ v[n] = e
    /\ \A i \in P : d[i] = c[i] + 1 /\ v[i] = w[i]

\* A message goes to the end of a ring that is not full.
LEMMA RingAppends ==
    ASSUME NEW E, NEW N, NEW es, NEW next, NEW P, NEW c, NEW w, NEW n, NEW e, NEW d, NEW v,
           Adds(E, N, es, next, P, c, w, n, e, d, v), Len(es) < N
    PROVE  Ring(Append(es, e), next, N, P \cup {n}, d, v)
<1>0. /\ N \in Nat /\ es \in Seq(E) /\ e \in E /\ n \notin P
      /\ Ring(es, next, N, P, c, w)
      /\ \A i \in P : c[i] \in Nat
      /\ d[n] = 0 /\ v[n] = e
      /\ \A i \in P : d[i] = c[i] + 1 /\ v[i] = w[i]
  BY DEF Adds
<1>1. PICK fs : fs = Append(es, e)
  OBVIOUS
<1>2. /\ Len(fs) = Len(es) + 1 /\ fs[Len(fs)] = e /\ Len(es) \in Nat
      /\ DOMAIN es = 1 .. Len(es) /\ DOMAIN fs = DOMAIN es \cup {Len(fs)}
      /\ \A k \in DOMAIN es : fs[k] = es[k]
  BY <1>0, <1>1, AppendFacts
<1>3. /\ next = 1 /\ \A i \in P : c[i] < Len(es)
      /\ \A k \in DOMAIN es : \E i \in P : es[k] = w[i] /\ c[i] = Age(es, next, k)
      /\ \A i \in P : c[i] < N => \E k \in DOMAIN es : es[k] = w[i]
  BY <1>0 DEF Ring
<1>4. Age(fs, next, Len(fs)) = 0 /\ \A k \in DOMAIN es : Age(fs, next, k) = Age(es, next, k) + 1
  BY <1>0, <1>2, <1>3 DEF Age
<1>5. \A i \in P : c[i] \in Nat
  BY <1>0
<1>6. ASSUME NEW k \in DOMAIN fs PROVE \E i \in P \cup {n} : fs[k] = v[i] /\ d[i] = Age(fs, next, k)
  <2>1. CASE k = Len(fs)
    BY <1>0, <1>2, <1>4, <2>1
  <2>2. CASE k \in DOMAIN es
    <3>1. PICK i \in P : es[k] = w[i] /\ c[i] = Age(es, next, k)
      BY <1>0, <1>3, <2>2
    <3>2. fs[k] = v[i] /\ d[i] = Age(fs, next, k)
      BY <1>0, <1>2, <1>4, <2>2, <3>1
    <3> QED BY <1>0, <3>2
  <2> QED BY <1>0, <1>2, <2>1, <2>2
<1>7. ASSUME NEW i \in P \cup {n}, d[i] < N PROVE \E k \in DOMAIN fs : fs[k] = v[i]
  <2>1. CASE i = n
    BY <1>0, <1>2, <2>1
  <2>2. CASE i \in P
    <3>1. c[i] < N
      BY <1>0, <1>5, <1>7, <2>2
    <3>2. PICK k \in DOMAIN es : es[k] = w[i]
      BY <1>0, <1>3, <2>2, <3>1
    <3> QED BY <1>0, <1>2, <2>2, <3>2
  <2> QED BY <1>0, <2>1, <2>2
<1>8. \A i \in P \cup {n} : d[i] < Len(fs)
  BY <1>0, <1>2, <1>3, <1>5
<1>9. Len(fs) <= N /\ 1 \in 1 .. N
  BY <1>0, <1>2
<1> QED BY <1>0, <1>1, <1>3, <1>6, <1>7, <1>8, <1>9 DEF Ring

\* A message goes over the oldest of a full ring, and the cursor to the next oldest.
LEMMA RingWraps ==
    ASSUME NEW E, NEW N, NEW es, NEW next, NEW P, NEW c, NEW w, NEW n, NEW e, NEW d, NEW v,
           Adds(E, N, es, next, P, c, w, n, e, d, v), ~(Len(es) < N)
    PROVE  Ring([es EXCEPT ![next] = e], (next % N) + 1, N, P \cup {n}, d, v)
<1>a. /\ N \in Nat /\ es \in Seq(E) /\ e \in E /\ n \notin P
      /\ Ring(es, next, N, P, c, w)
      /\ \A i \in P : c[i] \in Nat
      /\ \A i, j \in P : w[i] = w[j] => i = j
      /\ d[n] = 0 /\ v[n] = e
      /\ \A i \in P : d[i] = c[i] + 1 /\ v[i] = w[i]
  BY DEF Adds
<1>0. PICK fs : fs = [es EXCEPT ![next] = e]
  OBVIOUS
<1>1. PICK to : to = (next % N) + 1
  OBVIOUS
<1>2. Len(es) = N /\ next \in 1 .. N /\ DOMAIN es = 1 .. N
  BY <1>a DEF Ring
<1>3. /\ Len(fs) = N /\ fs[next] = e /\ DOMAIN fs = DOMAIN es
      /\ \A k \in DOMAIN es : k # next => fs[k] = es[k]
  BY <1>a, <1>0, <1>2, ExceptFacts
<1>4. to = IF next = N THEN 1 ELSE next + 1
  BY <1>a, <1>1, <1>2, CursorMoves
<1>5. /\ \A k \in DOMAIN es : \E i \in P : es[k] = w[i] /\ c[i] = Age(es, next, k)
      /\ \A i \in P : c[i] < N => \E k \in DOMAIN es : es[k] = w[i]
  BY <1>a DEF Ring
<1>6. /\ to \in 1 .. N
      /\ Age(fs, to, next) = 0
      /\ \A k \in DOMAIN es : k # next => Age(fs, to, k) = Age(es, next, k) + 1
      /\ Age(es, next, next) = N - 1
  BY <1>a, <1>2, <1>3, <1>4 DEF Age
<1>7. \A i \in P : c[i] \in Nat
  BY <1>a
<1>8. ASSUME NEW k \in DOMAIN fs PROVE \E i \in P \cup {n} : fs[k] = v[i] /\ d[i] = Age(fs, to, k)
  <2>1. CASE k = next
    BY <1>a, <1>3, <1>6, <2>1
  <2>2. CASE k # next
    <3>1. PICK i \in P : es[k] = w[i] /\ c[i] = Age(es, next, k)
      BY <1>a, <1>3, <1>5
    <3>2. fs[k] = v[i] /\ d[i] = Age(fs, to, k)
      BY <1>a, <1>3, <1>6, <2>2, <3>1
    <3> QED BY <1>a, <3>2
  <2> QED BY <1>a, <2>1, <2>2
<1>9. ASSUME NEW i \in P \cup {n}, d[i] < N PROVE \E k \in DOMAIN fs : fs[k] = v[i]
  <2>1. CASE i = n
    BY <1>a, <1>2, <1>3, <2>1
  <2>2. CASE i \in P
    <3>1. c[i] < N /\ c[i] # N - 1
      BY <1>a, <1>7, <1>9, <2>2
    <3>2. PICK k \in DOMAIN es : es[k] = w[i]
      BY <1>a, <1>5, <2>2, <3>1
    <3>3. PICK h \in P : es[next] = w[h] /\ c[h] = N - 1
      BY <1>a, <1>2, <1>5, <1>6
    <3>4. k # next
      BY <1>a, <2>2, <3>1, <3>2, <3>3
    <3> QED BY <1>a, <1>3, <2>2, <3>2, <3>4
  <2> QED BY <1>a, <2>1, <2>2
<1> QED BY <1>a, <1>0, <1>1, <1>2, <1>3, <1>6, <1>8, <1>9 DEF Ring

\* The entry of a message tells which message it is.
LEMMA EntryTyped ==
    ASSUME SourceInv
    PROVE  /\ \A i \in DOMAIN observed : ringEntry(observed[i]) \in RingEntries
           /\ \A i, j \in DOMAIN observed : observed[i].seq = observed[j].seq => i = j
           /\ \A i, j \in DOMAIN observed : ringEntry(observed[i]) = ringEntry(observed[j]) => i = j
<1>1. \A i \in DOMAIN observed : observed[i] \in Msg /\ i \in DOMAIN src /\ i \in Nat
  BY DEF SourceInv
<1>2. \A i \in DOMAIN observed : ringEntry(observed[i]) \in RingEntries
  <2>1. ASSUME NEW m \in Msg PROVE ringEntry(m) \in RingEntries
    BY Typed DEF ringEntry, RingEntries
  <2> QED BY <1>1, <2>1
<1>3. ASSUME NEW i \in DOMAIN observed, NEW j \in DOMAIN observed, observed[i].seq = observed[j].seq
      PROVE  i = j
  <2>1. src[i].seq = src[j].seq /\ src[i].seq \in Nat
    BY <1>1, <1>3, Typed DEF SourceInv
  <2>2. i < j => src[i].seq < src[j].seq
    BY <1>1 DEF SourceInv, Ascending
  <2>3. j < i => src[j].seq < src[i].seq
    BY <1>1 DEF SourceInv, Ascending
  <2> QED BY <1>1, <2>1, <2>2, <2>3
<1>4. ASSUME NEW i \in DOMAIN observed, NEW j \in DOMAIN observed,
             ringEntry(observed[i]) = ringEntry(observed[j])
      PROVE  i = j
  <2>1. observed[i].seq = observed[j].seq
    BY <1>4 DEF ringEntry
  <2> QED BY <1>3, <2>1
<1> QED BY <1>2, <1>3, <1>4

\* A subject that no message comes in for keeps its state.
LEMMA SubjectFrame ==
    ASSUME NEW s, PassOf(s)' = PassOf(s), o' = o, perSubj'[s] = perSubj[s],
           \A i \in PassOf(s) : Newer(i)' = Newer(i) /\ observed'[i] = observed[i]
    PROVE  /\ RingInv(s) => RingInv(s)'
           /\ SlotInv(s) => SlotInv(s)'
<1>1. /\ [i \in PassOf(s) |-> Cardinality(Newer(i))]' = [i \in PassOf(s) |-> Cardinality(Newer(i))]
      /\ [i \in PassOf(s) |-> ringEntry(observed[i])]' = [i \in PassOf(s) |-> ringEntry(observed[i])]
  OBVIOUS
<1>2. RingInv(s) => RingInv(s)'
  BY <1>1 DEF RingInv
<1>3. SlotInv(s) => SlotInv(s)'
  BY DEF SlotInv
<1> QED BY <1>2, <1>3

\* What Observe returns, field by field.
LEMMA Observed ==
    ASSUME NEW m \in Msg, o \in OptionType, perSubject, m.kind.subject \in Subjects,
           perSubj \in [Subjects -> [entries : Seq(RingEntries), next : Nat]]
    PROVE  LET r == perSubj[m.kind.subject]
           IN  /\ o.kvCompact => Observe(m).entries = <<ringEntry(m)>> /\ Observe(m).next = r.next
               /\ ~o.kvCompact /\ Len(r.entries) < o.last =>
                      Observe(m).entries = Append(r.entries, ringEntry(m)) /\ Observe(m).next = r.next
               /\ ~o.kvCompact /\ ~(Len(r.entries) < o.last) =>
                      /\ Observe(m).entries = [r.entries EXCEPT ![r.next] = ringEntry(m)]
                      /\ Observe(m).next = (r.next % o.last) + 1
               /\ Observe(m) \in [entries : Seq(RingEntries), next : Nat]
<1> DEFINE r == perSubj[m.kind.subject]  e == ringEntry(m)
<1>1. r \in [entries : Seq(RingEntries), next : Nat] /\ e \in RingEntries
  BY Typed DEF ringEntry, RingEntries
<1>2. r.entries \in Seq(RingEntries) /\ r.next \in Nat
  BY <1>1
<1>3. Observe(m) = CASE o.kvCompact -> [r EXCEPT !.entries = <<e>>]
          [] ~o.kvCompact /\ Len(r.entries) < o.last -> [r EXCEPT !.entries = Append(@, e)]
          [] OTHER -> [entries |-> [r.entries EXCEPT ![r.next] = e], next |-> (r.next % o.last) + 1]
  BY DEF Observe
<1> HIDE DEF r, e
<1>4. CASE o.kvCompact
  <2>1. Observe(m) = [r EXCEPT !.entries = <<e>>]
    BY <1>3, <1>4
  <2>2. <<e>> \in Seq(RingEntries)
    BY <1>1
  <2> QED BY <1>1, <1>2, <1>4, <2>1, <2>2 DEF r, e
<1>5. CASE ~o.kvCompact /\ Len(r.entries) < o.last
  <2>1. Observe(m) = [r EXCEPT !.entries = Append(@, e)]
    BY <1>3, <1>5
  <2>2. Append(r.entries, e) \in Seq(RingEntries)
    BY <1>1, <1>2, AppendFacts
  <2> QED BY <1>1, <1>2, <1>5, <2>1, <2>2 DEF r, e
<1>6. CASE ~o.kvCompact /\ ~(Len(r.entries) < o.last)
  <2>1. Observe(m) = [entries |-> [r.entries EXCEPT ![r.next] = e], next |-> (r.next % o.last) + 1]
    BY <1>3, <1>6
  <2>2. [r.entries EXCEPT ![r.next] = e] \in Seq(RingEntries)
    BY <1>1, <1>2, ExceptStays
  <2>3. (r.next % o.last) + 1 \in Nat
    BY <1>2, <1>6 DEF perSubject, OptionType
  <2> QED BY <1>6, <2>1, <2>2, <2>3 DEF r, e
<1> QED BY <1>4, <1>5, <1>6 DEF r

\* The subject of a message that passes the filters takes it in.
LEMMA RingTakes ==
    ASSUME SourceInv, pc = "pass", filterMessage, Selected(msg), NEW s, s = msg.kind.subject,
           s \in Subjects, perSubject, ~o.kvCompact, RingInv(s),
           perSubj \in [Subjects -> [entries : Seq(RingEntries), next : Nat]],
           perSubj' = [perSubj EXCEPT ![s] = Observe(msg)]
    PROVE  RingInv(s)'
<1>0. observed \in Seq(Msg) /\ o.last \in Nat /\ o.last > 0 /\ o' = o /\ o \in OptionType
  BY DEF SourceInv, OptionType, perSubject, filterMessage
<1>n. PICK n : n = Len(observed) + 1
  OBVIOUS
<1>p. PICK P : P = PassOf(s)
  OBVIOUS
<1>1. /\ msg \in Msg /\ n \notin DOMAIN observed /\ observed'[n] = msg
      /\ \A i \in DOMAIN observed : observed'[i] = observed[i]
      /\ DOMAIN observed' = DOMAIN observed \cup {n}
  BY <1>n, Reading
<1>2. /\ Pass' = Pass \cup {n} /\ n \notin Pass /\ Newer(n)' = {}
      /\ \A i \in Pass : Newer(i)' = IF observed[i].kind.subject = s THEN Newer(i) \cup {n} ELSE Newer(i)
      /\ \A i \in Pass : n \notin Newer(i)
  BY <1>n, PassStep
<1>3. P \subseteq Pass /\ P \subseteq DOMAIN observed /\ n \notin P
  BY <1>1, <1>p DEF PassOf, Pass
<1>4. PassOf(s)' = P \cup {n}
  <2>1. PassOf(s)' = {i \in Pass' : observed'[i].kind.subject = s}
    BY DEF PassOf
  <2>2. \A i \in Pass : observed'[i] = observed[i]
    BY <1>1 DEF Pass
  <2> QED BY <1>1, <1>2, <1>p, <2>1, <2>2 DEF PassOf
<1>5. ASSUME NEW i \in P
      PROVE  /\ Cardinality(Newer(i)) \in Nat /\ Cardinality(Newer(i)') = Cardinality(Newer(i)) + 1
             /\ observed'[i] = observed[i]
  <2>1. i \in Pass /\ observed[i].kind.subject = s
    BY <1>p DEF PassOf
  <2>2. Newer(i)' = Newer(i) \cup {n} /\ n \notin Newer(i)
    BY <1>2, <2>1
  <2>3. IsFiniteSet(Newer(i)) /\ Cardinality(Newer(i)) \in Nat
    BY <1>0, PassFinite
  <2>4. Cardinality(Newer(i) \cup {n}) = Cardinality(Newer(i)) + 1
    BY <2>2, <2>3, FS_AddElement
  <2> QED BY <1>1, <1>3, <2>2, <2>3, <2>4
<1>c. PICK c : c = [i \in P |-> Cardinality(Newer(i))]
  OBVIOUS
<1>w. PICK w : w = [i \in P |-> ringEntry(observed[i])]
  OBVIOUS
<1>d. PICK d : d = [i \in P \cup {n} |-> Cardinality(Newer(i)')]
  OBVIOUS
<1>v. PICK v : v = [i \in P \cup {n} |-> ringEntry(observed'[i])]
  OBVIOUS
<1>e. PICK e : e = ringEntry(msg)
  OBVIOUS
<1>r. PICK es, next, N : es = perSubj[s].entries /\ next = perSubj[s].next /\ N = o.last
  OBVIOUS
<1>6. c \in [P -> Nat]
  BY <1>5, <1>c
<1>7. d[n] = 0 /\ v[n] = e
  <2>1. Cardinality(Newer(n)') = 0
    BY <1>2, FS_EmptySet
  <2> QED BY <1>1, <1>d, <1>e, <1>v, <2>1
<1>8. /\ \A i \in P : d[i] = c[i] + 1
      /\ \A i \in P : v[i] = w[i]
  BY <1>5, <1>c, <1>d, <1>v, <1>w
<1>9. \A i, j \in P : w[i] = w[j] => i = j
  BY <1>3, <1>w, EntryTyped
<1>10. e \in RingEntries
  BY <1>1, <1>e, Typed DEF ringEntry, RingEntries
<1>11. es \in Seq(RingEntries) /\ Ring(es, next, N, P, c, w) /\ N \in Nat
  BY <1>0, <1>c, <1>p, <1>r, <1>w DEF RingInv
<1>12. RingInv(s)' <=> Ring(perSubj'[s].entries, perSubj'[s].next, N, P \cup {n}, d, v)
  BY <1>0, <1>4, <1>d, <1>r, <1>v DEF RingInv
<1>a. Adds(RingEntries, N, es, next, P, c, w, n, e, d, v)
  <2>1. \A i \in P : c[i] \in Nat
    BY <1>6
  <2> QED BY <1>3, <1>7, <1>8, <1>9, <1>10, <1>11, <2>1 DEF Adds
<1>13. perSubj'[s] = Observe(msg)
  OBVIOUS
<1>14. CASE Len(es) < N
  <2>1. perSubj'[s].entries = Append(es, e) /\ perSubj'[s].next = next
    BY <1>0, <1>1, <1>13, <1>14, <1>e, <1>r, Observed
  <2>2. Ring(Append(es, e), next, N, P \cup {n}, d, v)
    BY <1>14, <1>a, RingAppends
  <2> QED BY <1>12, <2>1, <2>2
<1>15. CASE ~(Len(es) < N)
  <2>1. perSubj'[s].entries = [es EXCEPT ![next] = e] /\ perSubj'[s].next = (next % N) + 1
    BY <1>0, <1>1, <1>13, <1>15, <1>e, <1>r, Observed
  <2>2. Ring([es EXCEPT ![next] = e], (next % N) + 1, N, P \cup {n}, d, v)
    BY <1>15, <1>a, RingWraps
  <2> QED BY <1>12, <2>1, <2>2
<1> QED BY <1>14, <1>15

LEMMA SlotTakes ==
    ASSUME SourceInv, pc = "pass", filterMessage, Selected(msg), NEW s, s = msg.kind.subject,
           s \in Subjects, perSubject, o.kvCompact,
           perSubj \in [Subjects -> [entries : Seq(RingEntries), next : Nat]],
           perSubj' = [perSubj EXCEPT ![s] = Observe(msg)]
    PROVE  SlotInv(s)'
<1>1. PICK n : n = Len(observed) + 1
  OBVIOUS
<1>2. observed'[n] = msg /\ msg \in Msg
  BY <1>1, Reading
<1>3. Pass' = Pass \cup {n} /\ Newer(n)' = {}
  BY <1>1, PassStep
<1>4. n \in PassOf(s)'
  BY <1>2, <1>3 DEF PassOf
<1>5. perSubj'[s].entries = <<ringEntry(msg)>>
  BY <1>2, Observed DEF SourceInv
<1>6. ringEntry(observed'[n]) = ringEntry(msg)
  BY <1>2
<1>7. \E i \in PassOf(s)' : Newer(i)' = {} /\ perSubj'[s].entries = <<ringEntry(observed'[i])>>
  BY <1>3, <1>4, <1>5, <1>6
<1> QED BY <1>7 DEF SlotInv

LEMMA SubjectStep ==
    ASSUME SourceInv, SubjectInv, [Next]_vars
    PROVE  SubjectInv'
<1> DEFINE Kept(s) == IF o.kvCompact THEN SlotInv(s) ELSE RingInv(s)
<1>1. CASE UNCHANGED <<o, observed, perSubj>>
  <2>1. ASSUME NEW s \in Subjects, perSubject PROVE Kept(s)'
    <3>1. Kept(s)
      BY <2>1 DEF SubjectInv
    <3>2. /\ PassOf(s)' = PassOf(s)
          /\ \A i \in PassOf(s) : Newer(i)' = Newer(i) /\ observed'[i] = observed[i]
      BY <1>1, SameSurvivors
    <3> QED BY <1>1, <3>1, <3>2, SubjectFrame
  <2> QED BY <1>1, <2>1 DEF SubjectInv, perSubject
<1>2. CASE filterMessage
  <2>0. pc = "pass" /\ o' = o /\ msg \in Msg /\ o \in OptionType
    BY <1>2, Reading DEF filterMessage, SourceInv
  <2>1. CASE ~perSubject
    BY <1>2, <2>0, <2>1 DEF SubjectInv, filterMessage, perSubject
  <2>2. CASE perSubject /\ ~Selected(msg)
    <3>1. evaluate(msg) # "keep"
      BY <2>0, <2>2, EvaluateSelected
    <3>2. perSubj' = perSubj
      BY <1>2, <3>1 DEF filterMessage
    <3>3. Pass' = Pass /\ \A i \in Pass : Newer(i)' = Newer(i)
      BY <1>2, <2>0, <2>2, PassStep
    <3>4. \A i \in Pass : observed'[i] = observed[i]
      BY <1>2, <2>0, Reading DEF Pass
    <3>5. ASSUME NEW s \in Subjects PROVE Kept(s)'
      <4>1. PassOf(s)' = PassOf(s) /\ PassOf(s) \subseteq Pass
        BY <3>3, <3>4 DEF PassOf
      <4>2. Kept(s)
        BY <2>2 DEF SubjectInv
      <4> QED BY <2>0, <3>2, <3>3, <3>4, <4>1, <4>2, SubjectFrame
    <3> QED BY <2>0, <3>2, <3>5 DEF SubjectInv, perSubject
  <2>3. CASE perSubject /\ Selected(msg)
    <3>1. evaluate(msg) = "keep"
      BY <2>0, <2>3, EvaluateSelected
    <3>2. perSubj' = [perSubj EXCEPT ![msg.kind.subject] = Observe(msg)]
      BY <1>2, <2>3, <3>1 DEF filterMessage
    <3>3. /\ msg.kind.subject \in Subjects
          /\ perSubj \in [Subjects -> [entries : Seq(RingEntries), next : Nat]]
          /\ Observe(msg) \in [entries : Seq(RingEntries), next : Nat]
      BY <2>0, <2>3, Typed, Observed DEF SubjectInv
    <3>4. /\ Pass' = Pass \cup {Len(observed) + 1}
          /\ \A i \in Pass : observed[i].kind.subject # msg.kind.subject => Newer(i)' = Newer(i)
      BY <1>2, <2>0, <2>3, PassStep
    <3>5. observed'[Len(observed) + 1] = msg /\ \A i \in Pass : observed'[i] = observed[i]
      BY <1>2, <2>0, Reading DEF Pass
    <3>6. ASSUME NEW s \in Subjects PROVE Kept(s)'
      <4>1. Kept(s)
        BY <2>3 DEF SubjectInv
      <4>2. CASE s = msg.kind.subject
        BY <1>2, <2>0, <2>3, <3>2, <3>3, <4>1, <4>2, RingTakes, SlotTakes
      <4>3. CASE s # msg.kind.subject
        <5>1. PassOf(s)' = {i \in Pass' : observed'[i].kind.subject = s}
          BY DEF PassOf
        <5>2. PassOf(s)' = PassOf(s)
          BY <3>4, <3>5, <4>3, <5>1 DEF PassOf
        <5>3. \A i \in PassOf(s) : Newer(i)' = Newer(i) /\ observed'[i] = observed[i]
          BY <3>4, <3>5, <4>3 DEF PassOf
        <5>4. perSubj'[s] = perSubj[s]
          BY <3>2, <3>3, <4>3
        <5> QED BY <2>0, <4>1, <5>2, <5>3, <5>4, SubjectFrame
      <4> QED BY <4>2, <4>3
    <3>7. perSubj' \in [Subjects -> [entries : Seq(RingEntries), next : Nat]]
      BY <3>2, <3>3
    <3> QED BY <2>0, <3>6, <3>7 DEF SubjectInv, perSubject
  <2> QED BY <2>1, <2>2, <2>3
<1>3. ~filterMessage => UNCHANGED <<o, observed, perSubj>>
  BY DEF Next, vars, readHead, endPass, rewind, copyMessage, endCopy, Fails, ModifySource, Returned
<1> QED BY <1>1, <1>2, <1>3

-----------------------------------------------------------------------------
(* What is resolved from the per-subject state is what survives.            *)

LEMMA ImageCard ==
    ASSUME NEW S, IsFiniteSet(S), NEW T, NEW f \in [S -> T], \A x, y \in S : f[x] = f[y] => x = y,
           \A t \in T : \E x \in S : f[x] = t
    PROVE  IsFiniteSet(T) /\ Cardinality(T) = Cardinality(S)
<1>1. f \in Bijection(S, T)
  BY DEF Bijection, Injection, Surjection, IsInjective
<1>2. ExistsBijection(S, T)
  BY <1>1 DEF ExistsBijection
<1> QED BY <1>2, FS_Bijection

LEMMA MinOf ==
    ASSUME NEW T, T \subseteq Nat, T # {}
    PROVE  /\ Min(T) \in T /\ \A t \in T : Min(T) <= t
           /\ \A x \in T : (\A t \in T : x <= t) => Min(T) = x
<1>1. \E n \in T : \A m \in T : n <= m
  BY NatMin
<1>2. Min(T) \in T /\ \A t \in T : Min(T) <= t
  BY <1>1 DEF Min
<1>3. ASSUME NEW x \in T, \A t \in T : x <= t PROVE Min(T) = x
  <2>1. Min(T) <= x /\ x <= Min(T) /\ x \in Nat /\ Min(T) \in Nat
    BY <1>2, <1>3
  <2> QED BY <2>1
<1> QED BY <1>2, <1>3

LEMMA ObservedFacts ==
    ASSUME SourceInv
    PROVE  /\ \A i \in DOMAIN observed : /\ observed[i] \in Msg /\ observed[i].kind.subject \in Subjects
                                         /\ observed[i].seq \in Nat /\ observed[i].seq > 0
                                         /\ observed[i].kind.size \in Nat /\ i \in Nat
           /\ \A i, j \in DOMAIN observed : i < j => observed[i].seq < observed[j].seq
           /\ \A i, j \in DOMAIN observed : observed[i].seq = observed[j].seq => i = j
           /\ Survivors \subseteq DOMAIN observed /\ IsFiniteSet(Survivors) /\ Cardinality(Survivors) \in Nat
           /\ Survivors \subseteq Pass /\ IsFiniteSet(Pass)
<1>1. observed \in Seq(Msg) /\ DOMAIN observed \subseteq DOMAIN src /\ DOMAIN observed \subseteq Nat
  BY DEF SourceInv
<1>2. ASSUME NEW i \in DOMAIN observed
      PROVE  observed[i] \in Msg /\ observed[i].kind.subject \in Subjects /\ observed[i].seq \in Nat
             /\ observed[i].kind.size \in Nat /\ observed[i].seq > 0 /\ i \in Nat
  <2>1. observed[i] \in Msg
    BY <1>1
  <2>2. observed[i].seq = src[i].seq /\ src[i].seq > 0
    BY <1>1 DEF SourceInv
  <2> QED BY <1>1, <2>1, <2>2, Typed
<1>3. \A i, j \in DOMAIN observed : i < j => observed[i].seq < observed[j].seq
  BY <1>1 DEF SourceInv, Ascending
<1>4. ASSUME NEW i \in DOMAIN observed, NEW j \in DOMAIN observed, observed[i].seq = observed[j].seq
      PROVE  i = j
  <2>1. i \in Nat /\ j \in Nat /\ observed[i].seq \in Nat /\ observed[j].seq \in Nat
    BY <1>2
  <2>2. ~(i < j) /\ ~(j < i)
    BY <1>3, <1>4, <2>1
  <2> QED BY <2>1, <2>2
<1>5. Survivors \subseteq Pass /\ IsFiniteSet(Pass) /\ Pass \subseteq DOMAIN observed
  BY <1>1, SurvivorsCases, PassFinite DEF SourceInv
<1>6. IsFiniteSet(Survivors) /\ Cardinality(Survivors) \in Nat
  BY <1>5, FS_Subset, FS_CardinalityType
<1> QED BY <1>2, <1>3, <1>4, <1>5, <1>6

\* The entries of a subject that count are those of its survivors.
LEMMA SlotKeeps ==
    ASSUME SourceInv, o.kvCompact, NEW s \in Subjects, SlotInv(s), NEW e
    PROVE  e \in Range(perSubj[s].entries) /\ ~e.tomb <=>
              \E i \in Survivors : observed[i].kind.subject = s /\ e = ringEntry(observed[i])
<1>1. Survivors = {i \in Pass : Newer(i) = {} /\ observed[i].kind.hdr # "tomb"}
  BY SurvivorsCases DEF SourceInv
<1>2. CASE perSubj[s].entries = << >> /\ PassOf(s) = {}
  <2>1. Range(perSubj[s].entries) = {}
    BY <1>2, EmptyOf DEF Range
  <2>2. \A i \in Survivors : observed[i].kind.subject # s
    BY <1>1, <1>2 DEF PassOf
  <2> QED BY <2>1, <2>2
<1>3. CASE \E i \in PassOf(s) : Newer(i) = {} /\ perSubj[s].entries = <<ringEntry(observed[i])>>
  <2>1. PICK i \in PassOf(s) : Newer(i) = {} /\ perSubj[s].entries = <<ringEntry(observed[i])>>
    BY <1>3
  <2>2. Range(perSubj[s].entries) = {ringEntry(observed[i])}
    <3>1. DOMAIN <<ringEntry(observed[i])>> = {1} /\ <<ringEntry(observed[i])>>[1] = ringEntry(observed[i])
      OBVIOUS
    <3> QED BY <2>1, <3>1 DEF Range
  <2>3. ringEntry(observed[i]).tomb <=> observed[i].kind.hdr = "tomb"
    BY DEF ringEntry
  <2>4. i \in Pass /\ observed[i].kind.subject = s
    BY DEF PassOf
  <2>5. ASSUME NEW j \in Survivors, observed[j].kind.subject = s PROVE j = i
    <3>1. j \in Pass /\ Newer(j) = {}
      BY <1>1
    <3>2. i \in Nat /\ j \in Nat
      BY <2>4, <3>1, ObservedFacts DEF Pass
    <3>3. ~(i > j) /\ ~(j > i)
      BY <2>1, <2>4, <2>5, <3>1 DEF Newer
    <3> QED BY <3>2, <3>3
  <2> QED BY <1>1, <2>1, <2>2, <2>3, <2>4, <2>5
<1> QED BY <1>2, <1>3 DEF SlotInv

LEMMA RingKeeps ==
    ASSUME SourceInv, perSubject, ~o.kvCompact, NEW s \in Subjects, RingInv(s),
           perSubj[s].entries \in Seq(RingEntries), NEW e
    PROVE  e \in Range(perSubj[s].entries) <=>
              \E i \in Survivors : observed[i].kind.subject = s /\ e = ringEntry(observed[i])
<1>0. o.last \in Nat /\ o.last > 0
  BY DEF SourceInv, OptionType, perSubject
<1>1. Survivors = {i \in Pass : Cardinality(Newer(i)) < o.last}
  BY <1>0, SurvivorsCases DEF SourceInv
<1>p. PICK es, next : es = perSubj[s].entries /\ next = perSubj[s].next
  OBVIOUS
<1>2. /\ Len(es) <= o.last /\ next \in 1 .. o.last
      /\ \A k \in DOMAIN es : \E i \in PassOf(s) : es[k] = ringEntry(observed[i])
                                                   /\ Cardinality(Newer(i)) = Age(es, next, k)
      /\ \A i \in PassOf(s) : Cardinality(Newer(i)) < o.last => \E k \in DOMAIN es : es[k] = ringEntry(observed[i])
  BY <1>p DEF RingInv, Ring
<1>3. Len(es) \in Nat /\ DOMAIN es = 1 .. Len(es)
  BY <1>p
<1>4. ASSUME NEW k \in DOMAIN es PROVE Age(es, next, k) < o.last
  BY <1>0, <1>2, <1>3 DEF Age
<1>5. ASSUME e \in Range(es)
      PROVE  \E i \in Survivors : observed[i].kind.subject = s /\ e = ringEntry(observed[i])
  <2>1. PICK k \in DOMAIN es : e = es[k]
    BY <1>5 DEF Range
  <2>2. PICK i \in PassOf(s) : es[k] = ringEntry(observed[i]) /\ Cardinality(Newer(i)) = Age(es, next, k)
    BY <1>2
  <2>3. i \in Survivors /\ observed[i].kind.subject = s
    BY <1>1, <1>4, <2>2 DEF PassOf
  <2> QED BY <2>1, <2>2, <2>3
<1>6. ASSUME NEW i \in Survivors, observed[i].kind.subject = s, e = ringEntry(observed[i])
      PROVE  e \in Range(es)
  <2>1. i \in PassOf(s) /\ Cardinality(Newer(i)) < o.last
    BY <1>1, <1>6 DEF PassOf
  <2> QED BY <1>2, <1>6, <2>1 DEF Range
<1> QED BY <1>p, <1>5, <1>6

LEMMA SubjectKeeps ==
    ASSUME SourceInv, SubjectInv, perSubject, NEW s \in Subjects, NEW e
    PROVE  e \in Range(perSubj[s].entries) /\ ~(o.kvCompact /\ e.tomb) <=>
              \E i \in Survivors : observed[i].kind.subject = s /\ e = ringEntry(observed[i])
<1>1. CASE o.kvCompact
  <2>1. SlotInv(s)
    BY <1>1 DEF SubjectInv
  <2>2. e \in Range(perSubj[s].entries) /\ ~e.tomb <=>
           \E i \in Survivors : observed[i].kind.subject = s /\ e = ringEntry(observed[i])
    BY <1>1, <2>1, SlotKeeps
  <2> QED BY <1>1, <2>2
<1>2. CASE ~o.kvCompact
  <2>1. RingInv(s) /\ perSubj[s].entries \in Seq(RingEntries)
    BY <1>2 DEF SubjectInv
  <2> QED BY <1>2, <2>1, RingKeeps
<1> QED BY <1>1, <1>2

\* Keeps recognises the survivors by their subject and sequence.
LEMMA KeepsSurvivors ==
    ASSUME SourceInv, SubjectInv, perSubject, NEW s \in Subjects, NEW q
    PROVE  Keeps(s, q) <=> \E i \in Survivors : observed[i].kind.subject = s /\ observed[i].seq = q
<1>1. ASSUME Keeps(s, q) PROVE \E i \in Survivors : observed[i].kind.subject = s /\ observed[i].seq = q
  <2>1. PICK e \in Range(perSubj[s].entries) : e.seq = q /\ ~(o.kvCompact /\ e.tomb)
    BY <1>1 DEF Keeps
  <2>2. PICK i \in Survivors : observed[i].kind.subject = s /\ e = ringEntry(observed[i])
    BY <2>1, SubjectKeeps
  <2>3. e.seq = observed[i].seq
    BY <2>2 DEF ringEntry
  <2> QED BY <2>1, <2>2, <2>3
<1>2. ASSUME NEW i \in Survivors, observed[i].kind.subject = s, observed[i].seq = q PROVE Keeps(s, q)
  <2>1. PICK e : e = ringEntry(observed[i])
    OBVIOUS
  <2>2. e \in Range(perSubj[s].entries) /\ ~(o.kvCompact /\ e.tomb)
    BY <1>2, <2>1, SubjectKeeps
  <2>3. e.seq = q
    BY <1>2, <2>1 DEF ringEntry
  <2> QED BY <2>2, <2>3 DEF Keeps
<1> QED BY <1>1, <1>2

\* The entries of the messages C: as many, of the same sequences.
LEMMA EntriesOf ==
    ASSUME SourceInv, NEW C, C \subseteq DOMAIN observed, NEW E, E = {ringEntry(observed[i]) : i \in C}
    PROVE  /\ IsFiniteSet(C) /\ IsFiniteSet(E) /\ Cardinality(E) = Cardinality(C)
           /\ \A e \in E : e.size \in Nat
           /\ {e.seq : e \in E} = {observed[i].seq : i \in C}
           /\ {observed[i].seq : i \in C} \subseteq Nat
           /\ \A i \in DOMAIN observed : ringEntry(observed[i]) \in E => i \in C
<1>1. IsFiniteSet(C)
  BY PassFinite, FS_Subset DEF SourceInv
<1>2. \A i \in DOMAIN observed : ringEntry(observed[i]).seq = observed[i].seq
                                 /\ ringEntry(observed[i]).size = observed[i].kind.size
  BY DEF ringEntry
<1>3. \A i, j \in DOMAIN observed : ringEntry(observed[i]) = ringEntry(observed[j]) => i = j
  BY <1>2, ObservedFacts
<1>4. PICK f : f = [i \in C |-> ringEntry(observed[i])]
  OBVIOUS
<1>5. /\ f \in [C -> E]
      /\ \A i, j \in C : f[i] = f[j] => i = j
      /\ \A e \in E : \E i \in C : f[i] = e
  BY <1>3, <1>4
<1>6. IsFiniteSet(E) /\ Cardinality(E) = Cardinality(C)
  BY <1>1, <1>5, ImageCard
<1>7. \A e \in E : e.size \in Nat
  BY <1>2, ObservedFacts
<1>8. {e.seq : e \in E} = {observed[i].seq : i \in C}
  BY <1>2
<1>9. {observed[i].seq : i \in C} \subseteq Nat
  BY ObservedFacts
<1> QED BY <1>1, <1>3, <1>6, <1>7, <1>8, <1>9

\* The totals that Resolve computes are those of the survivors.
LEMMA Resolves ==
    ASSUME SourceInv, SubjectInv, perSubject
    PROVE  /\ Resolve.msgs = Cardinality(Survivors)
           /\ Resolve.bytes = totalSize({ringEntry(observed[i]) : i \in Survivors})
           /\ Survivors # {} => Resolve.first = Min({observed[i].seq : i \in Survivors})
<1>1. PICK E : E = {ringEntry(observed[i]) : i \in Survivors}
  OBVIOUS
<1>2. PICK K : K = {e \in UNION {Range(perSubj[s].entries) : s \in Subjects} : ~(o.kvCompact /\ e.tomb)}
  OBVIOUS
<1>3. ASSUME NEW e \in K PROVE e \in E
  <2>1. PICK s \in Subjects : e \in Range(perSubj[s].entries) /\ ~(o.kvCompact /\ e.tomb)
    BY <1>2
  <2>2. \E i \in Survivors : observed[i].kind.subject = s /\ e = ringEntry(observed[i])
    BY <2>1, SubjectKeeps
  <2> QED BY <1>1, <2>2
<1>4. ASSUME NEW e \in E PROVE e \in K
  <2>1. PICK i \in Survivors : e = ringEntry(observed[i])
    BY <1>1
  <2>2. PICK s \in Subjects : observed[i].kind.subject = s
    BY ObservedFacts
  <2>3. e \in Range(perSubj[s].entries) /\ ~(o.kvCompact /\ e.tomb)
    BY <2>1, <2>2, SubjectKeeps
  <2> QED BY <1>2, <2>3
<1>5. K = E
  BY <1>3, <1>4
<1>6. Resolve = [msgs |-> Cardinality(E), bytes |-> totalSize(E),
                 first |-> IF E = {} THEN 0 ELSE Min({e.seq : e \in E})]
  BY <1>2, <1>5 DEF Resolve
<1>7. Cardinality(E) = Cardinality(Survivors) /\ {e.seq : e \in E} = {observed[i].seq : i \in Survivors}
  BY <1>1, EntriesOf, ObservedFacts
<1>8. Survivors # {} => E # {}
  BY <1>1
<1> QED BY <1>1, <1>6, <1>7, <1>8

-----------------------------------------------------------------------------
(* Counting.                                                                *)

LEMMA DropOne ==
    ASSUME NEW d \in [DropKinds -> Nat], NEW k \in DropKinds, NEW x \in Nat, NEW e, e = [d EXCEPT ![k] = x]
    PROVE  /\ e \in [DropKinds -> Nat] /\ d[k] \in Nat /\ allDropped(d) \in Nat
           /\ e[k] = x /\ \A j \in DropKinds : j # k => e[j] = d[j]
           /\ allDropped(e) = allDropped(d) - d[k] + x
<1>1. e \in [DropKinds -> Nat] /\ e[k] = x /\ \A j \in DropKinds : j # k => e[j] = d[j]
  OBVIOUS
<1>2. \A j \in DropKinds : d[j] \in Nat
  OBVIOUS
<1>3. allDropped(e) = allDropped(d) - d[k] + x /\ allDropped(d) \in Nat
  BY <1>1, <1>2 DEF allDropped, DropKinds
<1> QED BY <1>1, <1>2, <1>3

LEMMA CountFrame ==
    ASSUME CountInv, UNCHANGED <<o, observed, report>>, pc' = pc
    PROVE  CountInv'
<1>1. Pass' = Pass /\ Survivors' = Survivors
  BY SameSurvivors
<1> QED BY <1>1 DEF CountInv

LEMMA CountStep ==
    ASSUME SourceInv, CountInv, SubjectInv, [Next]_vars
    PROVE  CountInv'
<1>0. report \in ReportType /\ report.source = Len(observed) /\ report.dropped \in [DropKinds -> Nat]
      /\ report.kept \in Nat /\ Len(observed) \in Nat
  BY DEF CountInv, ReportType, SourceInv
<1>1. CASE readHead
  <2>1. Pass' = Pass /\ pc = "head" /\ pc' = "pass" /\ observed' = observed
    BY <1>1, SameSurvivors DEF readHead
  <2>2. PICK x \in Nat : report' = [report EXCEPT !.consumers = x]
    BY <1>1 DEF readHead, SourceInv, HeadType
  <2>3. report' \in ReportType /\ report'.dropped = report.dropped /\ report'.source = report.source
    BY <1>0, <2>2 DEF ReportType
  <2> QED BY <2>1, <2>3 DEF CountInv
<1>2. CASE filterMessage
  <2>n. PICK n : n = Len(observed) + 1
    OBVIOUS
  <2>1. pc = "pass" /\ pc' = "pass" /\ o' = o
    BY <1>2 DEF filterMessage
  <2>2. Len(observed') = n /\ n \in Nat /\ msg \in Msg
    BY <1>2, <2>n, <2>1, Reading
  <2>3. Pass' = (IF Selected(msg) THEN Pass \cup {n} ELSE Pass) /\ n \notin Pass
    BY <1>2, <2>n, <2>1, PassStep
  <2>4. IsFiniteSet(Pass) /\ Cardinality(Pass) \in Nat
    BY PassFinite DEF SourceInv
  <2>5. Len(observed) = Cardinality(Pass) + allDropped(report.dropped) /\ report.dropped["perSubject"] = 0
    BY <2>1 DEF CountInv
  <2>s. PICK seen : seen = [report EXCEPT !.source = @ + 1]
    OBVIOUS
  <2>6. seen \in ReportType /\ seen.source = n /\ seen.kept = report.kept /\ seen.dropped = report.dropped
    BY <1>0, <2>n, <2>2, <2>s DEF ReportType
  <2>7. CASE evaluate(msg) # "keep"
    <3>1. ~Selected(msg) /\ evaluate(msg) \in DropKinds /\ evaluate(msg) # "perSubject"
      BY <2>2, <2>7, EvaluateSelected DEF SourceInv, DropKinds
    <3>k. PICK k \in DropKinds : k = evaluate(msg)
      BY <3>1
    <3>2. report' = [seen EXCEPT !.dropped[k] = @ + 1]
      BY <1>2, <2>7, <2>s, <3>k DEF filterMessage
    <3>d. PICK d : d = [report.dropped EXCEPT ![k] = report.dropped[k] + 1]
      OBVIOUS
    <3>3. report.dropped[k] \in Nat
      BY <1>0
    <3>4. d \in [DropKinds -> Nat] /\ allDropped(d) = allDropped(report.dropped) + 1 /\ allDropped(report.dropped) \in Nat
          /\ d["perSubject"] = 0
      <4>1. /\ d \in [DropKinds -> Nat] /\ allDropped(report.dropped) \in Nat
            /\ \A j \in DropKinds : j # k => d[j] = report.dropped[j]
            /\ allDropped(d) = allDropped(report.dropped) - report.dropped[k] + (report.dropped[k] + 1)
        BY <1>0, <3>d, <3>3, DropOne
      <4>2. "perSubject" \in DropKinds /\ k # "perSubject"
        BY <3>1, <3>k DEF DropKinds
      <4> QED BY <2>5, <3>3, <4>1, <4>2
    <3>5. report' \in ReportType /\ report'.source = n /\ report'.dropped = d
      BY <2>6, <3>2, <3>d, <3>4 DEF ReportType
    <3> QED BY <2>n, <2>1, <2>2, <2>3, <2>4, <2>5, <3>1, <3>4, <3>5 DEF CountInv
  <2>8. CASE evaluate(msg) = "keep"
    <3>1. Selected(msg)
      BY <2>2, <2>8, EvaluateSelected DEF SourceInv
    <3>2. PICK x \in Nat : report' = [seen EXCEPT !.kept = x]
      <4>1. CASE perSubject
        <5>1. report' = seen
          BY <1>2, <2>8, <2>s, <4>1 DEF filterMessage
        <5>2. seen = [seen EXCEPT !.kept = report.kept]
          BY <2>6 DEF ReportType
        <5> QED BY <1>0, <5>1, <5>2
      <4>2. CASE ~perSubject
        <5>1. writeMessage(msg, seen)
          BY <1>2, <2>8, <2>s, <4>2 DEF filterMessage
        <5>2. report' = [seen EXCEPT !.kept = seen.kept + 1]
          BY <5>1 DEF writeMessage
        <5>3. seen.kept + 1 \in Nat
          BY <1>0, <2>6
        <5> QED BY <5>2, <5>3, Zenon
      <4> QED BY <4>1, <4>2
    <3>3. report' \in ReportType /\ report'.source = n /\ report'.dropped = report.dropped
      BY <2>6, <3>2 DEF ReportType
    <3>4. Cardinality(Pass') = Cardinality(Pass) + 1
      BY <2>3, <2>4, <3>1, FS_AddElement
    <3>5. allDropped(report.dropped) \in Nat
      BY <1>0 DEF allDropped, DropKinds
    <3> QED BY <2>n, <2>1, <2>2, <2>4, <2>5, <3>3, <3>4, <3>5 DEF CountInv
  <2> QED BY <2>7, <2>8
<1>3. CASE endPass
  <2>1. pc = "pass" /\ UNCHANGED <<o, observed>> /\ Pass' = Pass /\ Survivors' = Survivors
    BY <1>3, SameSurvivors DEF endPass
  <2>2. Len(observed) = Cardinality(Pass) + allDropped(report.dropped) /\ report.dropped["perSubject"] = 0
    BY <2>1 DEF CountInv
  <2>3. CASE ~perSubject
    <3>1. Survivors = Pass /\ report' = report /\ pc' = "done"
      BY <1>3, <2>3, SurvivorsCases DEF endPass, SourceInv
    <3> QED BY <1>0, <2>1, <2>2, <3>1 DEF CountInv
  <2>4. CASE perSubject
    <3>1. /\ IsFiniteSet(Pass) /\ Cardinality(Pass) \in Nat /\ Cardinality(Survivors) \in Nat
          /\ Cardinality(Survivors) <= Cardinality(Pass)
      BY ObservedFacts, FS_Subset, FS_CardinalityType
    <3>2. PICK m : m = Resolve.msgs
      OBVIOUS
    <3>3. m = Cardinality(Survivors)
      BY <2>4, <3>2, Resolves
    <3>4. allDropped(report.dropped) \in Nat
      BY <1>0 DEF allDropped, DropKinds
    <3>5. passed - m \in Nat /\ passed = Cardinality(Pass)
      BY <1>0, <2>2, <3>1, <3>3, <3>4 DEF passed
    <3>d. PICK d : d = [report.dropped EXCEPT !["perSubject"] = passed - m]
      OBVIOUS
    <3>6. d \in [DropKinds -> Nat] /\ allDropped(d) = allDropped(report.dropped) - 0 + (passed - m)
      <4>1. "perSubject" \in DropKinds
        BY DEF DropKinds
      <4> QED BY <1>0, <2>2, <3>5, <3>d, <4>1, DropOne
    <3>r. PICK rep : rep = [report EXCEPT !.dropped["perSubject"] = passed - m]
      OBVIOUS
    <3>7. rep \in ReportType /\ rep.source = report.source /\ rep.dropped = d
      BY <1>0, <3>d, <3>6, <3>r DEF ReportType
    <3>8. report' = rep \/ report' = [rep EXCEPT !.kept = m]
      BY <1>3, <2>4, <3>2, <3>r DEF endPass
    <3>9. report' \in ReportType /\ report'.source = report.source /\ report'.dropped = d
      BY <3>1, <3>3, <3>7, <3>8 DEF ReportType
    <3>10. pc' \in {"rewind", "done"}
      BY <1>3, <2>4 DEF endPass
    <3>11. Len(observed) = Cardinality(Survivors) + allDropped(d)
      BY <2>2, <3>1, <3>3, <3>4, <3>5, <3>6
    <3> QED BY <1>0, <2>1, <3>9, <3>10, <3>11 DEF CountInv
  <2> QED BY <2>3, <2>4
<1>4. CASE rewind \/ endCopy \/ Fails
  <2>1. UNCHANGED <<o, observed, report>> /\ (pc' = "failed" \/ (pc \in {"rewind", "copy"} /\ pc' \in {"copy", "done"}))
    BY <1>4 DEF rewind, endCopy, Fails
  <2>2. Pass' = Pass /\ Survivors' = Survivors
    BY <2>1, SameSurvivors
  <2> QED BY <2>1, <2>2 DEF CountInv
<1>5. CASE copyMessage
  <2>1. UNCHANGED <<o, observed>> /\ pc = "copy" /\ pc' = "copy" /\ Survivors' = Survivors
    BY <1>5, SameSurvivors DEF copyMessage
  <2>2. report' = report \/ report' = [report EXCEPT !.kept = report.kept + 1]
    BY <1>5 DEF copyMessage, writeMessage
  <2>3. report' \in ReportType /\ report'.source = report.source /\ report'.dropped = report.dropped
    BY <1>0, <2>2 DEF ReportType
  <2> QED BY <2>1, <2>3 DEF CountInv
<1>6. CASE ModifySource \/ Returned \/ UNCHANGED vars
  <2>1. UNCHANGED <<o, observed, report>> /\ pc' = pc
    BY <1>6 DEF ModifySource, Returned, vars
  <2> QED BY <2>1, CountFrame
<1> QED BY <1>1, <1>2, <1>3, <1>4, <1>5, <1>6 DEF Next

-----------------------------------------------------------------------------
(* What is written.                                                         *)

\* n writes the message m after those of C, and passes for it from then on.
Writes(m, rep, C, n) ==
    /\ writeMessage(m, rep) /\ m \in Msg /\ rep \in ReportType /\ rep.kept = report.kept
    /\ o \in OptionType /\ o' = o /\ out \in Seq(OutType)
    /\ IsFiniteSet(C) /\ n \notin C
    /\ \A i \in C : observed'[i] = observed[i] /\ observed[i].seq \in Nat /\ observed[i].seq < m.seq
    /\ observed'[n].kind.subject = m.kind.subject /\ observed'[n].seq = m.seq

\* writeMessage, with its sequence and its size typed.
LEMMA WriteFacts ==
    ASSUME NEW m \in Msg, NEW rep \in ReportType, writeMessage(m, rep), out \in Seq(OutType), o \in OptionType
    PROVE  /\ report' = [rep EXCEPT !.kept = rep.kept + 1] /\ report' \in ReportType
           /\ report'.kept = rep.kept + 1 /\ report'.consumers = rep.consumers
           /\ rep.kept \in Nat
           /\ firstOut' = IF rep.kept = 0 THEN outSeq(m, 1) ELSE firstOut
           /\ bytes' = bytes + outSize(m)
           /\ ~encodes => out' = out
           /\ encodes => /\ out' \in Seq(OutType) /\ Len(out') = Len(out) + 1 /\ Len(out) \in Nat
                         /\ DOMAIN out' = DOMAIN out \cup {Len(out) + 1} /\ DOMAIN out = 1 .. Len(out)
                         /\ \A i \in DOMAIN out : out'[i] = out[i]
                         /\ out'[Len(out) + 1].subject = m.kind.subject
                         /\ out'[Len(out) + 1].from = m.seq
                         /\ out'[Len(out) + 1].seq = outSeq(m, rep.kept + 1)
<1>1. m.seq \in Nat /\ m.seq \in Sequence /\ m.kind.subject \in Subjects /\ m.kind.size \in Nat
  BY Typed
<1>2. rep.kept \in Nat /\ report' = [rep EXCEPT !.kept = rep.kept + 1]
  BY DEF writeMessage, ReportType
<1>3. report' \in ReportType /\ report'.kept = rep.kept + 1 /\ report'.consumers = rep.consumers
  BY <1>2 DEF ReportType
<1>4. firstOut' = IF rep.kept = 0 THEN outSeq(m, 1) ELSE firstOut
  <2>1. firstOut' = IF rep.kept + 1 = 1 THEN outSeq(m, rep.kept + 1) ELSE firstOut
    BY DEF writeMessage
  <2>2. CASE rep.kept = 0
    BY <2>1, <2>2
  <2>3. CASE rep.kept # 0
    BY <1>2, <2>1, <2>3
  <2> QED BY <2>2, <2>3
<1>5. bytes' = bytes + outSize(m) /\ (~encodes => out' = out)
  BY DEF writeMessage
<1>6. PICK x : x = [subject |-> m.kind.subject, seq |-> outSeq(m, rep.kept + 1), from |-> m.seq, size |-> outSize(m)]
  OBVIOUS
<1>7. outSeq(m, rep.kept + 1) \in Nat /\ outSize(m) \in Nat
  BY <1>1, <1>2 DEF outSeq, outSize
<1>8. x \in OutType /\ x.subject = m.kind.subject /\ x.seq = outSeq(m, rep.kept + 1) /\ x.from = m.seq
  BY <1>1, <1>6, <1>7 DEF OutType
<1>9. encodes => out' = Append(out, x)
  BY <1>6 DEF writeMessage
<1>10. ASSUME encodes
       PROVE  /\ out' \in Seq(OutType) /\ Len(out') = Len(out) + 1 /\ Len(out) \in Nat
              /\ DOMAIN out' = DOMAIN out \cup {Len(out) + 1} /\ DOMAIN out = 1 .. Len(out)
              /\ \A i \in DOMAIN out : out'[i] = out[i]
              /\ out'[Len(out) + 1] = x
  <2>1. out' = Append(out, x)
    BY <1>9, <1>10
  <2> QED BY <1>8, <2>1, AppendFacts
<1> QED BY <1>2, <1>3, <1>4, <1>5, <1>8, <1>10

LEMMA WriteOne ==
    ASSUME NEW m, NEW rep, NEW C, NEW n, Writes(m, rep, C, n), Written(C)
    PROVE  Written(C \cup {n})'
<1> DEFINE D == C \cup {n}
<1>0. /\ writeMessage(m, rep) /\ m \in Msg /\ rep \in ReportType /\ rep.kept = report.kept
      /\ o \in OptionType /\ o' = o /\ out \in Seq(OutType)
      /\ IsFiniteSet(C) /\ n \notin C
      /\ \A i \in C : observed'[i] = observed[i] /\ observed[i].seq \in Nat /\ observed[i].seq < m.seq
      /\ observed'[n].kind.subject = m.kind.subject /\ observed'[n].seq = m.seq
  BY DEF Writes
<1>1. Cardinality(D) = Cardinality(C) + 1 /\ Cardinality(C) \in Nat /\ (Cardinality(C) = 0 <=> C = {})
  BY <1>0, FS_AddElement, FS_CardinalityType, FS_EmptySet
<1>2. report.kept = Cardinality(C) /\ report'.kept = Cardinality(D)
  BY <1>0, <1>1, WriteFacts DEF Written
<1>3. ASSUME encodes
      PROVE  /\ Len(out') = Cardinality(D)
             /\ {<<out'[i].subject, out'[i].from>> : i \in DOMAIN out'} =
                   {<<observed'[i].kind.subject, observed'[i].seq>> : i \in D}
  <2>1. /\ Len(out) = Cardinality(C)
        /\ {<<out[i].subject, out[i].from>> : i \in DOMAIN out} =
              {<<observed[i].kind.subject, observed[i].seq>> : i \in C}
    BY <1>3 DEF Written
  <2>2. PICK k : k = Len(out) + 1
    OBVIOUS
  <2>3. /\ Len(out') = Len(out) + 1 /\ DOMAIN out' = DOMAIN out \cup {k}
        /\ \A i \in DOMAIN out : out'[i] = out[i]
        /\ out'[k].subject = m.kind.subject /\ out'[k].from = m.seq
    BY <1>0, <1>3, <2>2, WriteFacts
  <2>4. {<<out'[i].subject, out'[i].from>> : i \in DOMAIN out'} =
           {<<out[i].subject, out[i].from>> : i \in DOMAIN out} \cup {<<m.kind.subject, m.seq>>}
    BY <2>3
  <2>5. {<<observed'[i].kind.subject, observed'[i].seq>> : i \in D} =
           {<<observed[i].kind.subject, observed[i].seq>> : i \in C} \cup {<<m.kind.subject, m.seq>>}
    BY <1>0
  <2> QED BY <1>1, <2>1, <2>3, <2>4, <2>5
<1>4. ASSUME ~o.renumber PROVE firstOut' = Min({observed'[i].seq : i \in D})
  <2>t. PICK T : T = {observed'[i].seq : i \in D}
    OBVIOUS
  <2>u. PICK U : U = {observed[i].seq : i \in C}
    OBVIOUS
  <2>1. m.seq \in Nat
    BY <1>0, Typed
  <2>2. T = U \cup {m.seq} /\ T \subseteq Nat /\ T # {} /\ U \subseteq Nat /\ \A x \in U : x < m.seq
    BY <1>0, <2>1, <2>t, <2>u
  <2>3. CASE C = {}
    <3>1. firstOut' = m.seq
      BY <1>0, <1>1, <1>2, <1>4, <2>3, WriteFacts DEF outSeq
    <3>2. m.seq \in T /\ \A x \in T : m.seq <= x
      BY <2>1, <2>2, <2>3, <2>u
    <3>3. Min(T) = m.seq
      BY <2>2, <3>2, MinOf
    <3> QED BY <2>t, <3>1, <3>3
  <2>4. CASE C # {}
    <3>1. firstOut' = firstOut /\ firstOut = Min(U)
      BY <1>0, <1>1, <1>2, <1>4, <2>4, <2>u, WriteFacts DEF Written
    <3>2. Min(U) \in U /\ \A x \in U : Min(U) <= x
      <4>1. U # {} /\ U \subseteq Nat
        BY <2>2, <2>4, <2>u
      <4> QED BY <4>1, MinOf
    <3>3. Min(U) \in T /\ \A x \in T : Min(U) <= x
      BY <2>1, <2>2, <3>2
    <3>4. Min(T) = Min(U)
      BY <2>2, <3>3, MinOf
    <3> QED BY <2>t, <3>1, <3>4
  <2> QED BY <2>3, <2>4
<1> HIDE DEF D
<1>5. Written(D)'
  BY <1>0, <1>2, <1>3, <1>4 DEF Written, encodes
<1> QED BY <1>5 DEF D

LEMMA WrittenFrame ==
    ASSUME NEW C, Written(C), UNCHANGED <<o, out, firstOut>>, report'.kept = report.kept,
           \A i \in C : observed'[i] = observed[i]
    PROVE  Written(C)'
<1>1. /\ {<<observed'[i].kind.subject, observed'[i].seq>> : i \in C} =
            {<<observed[i].kind.subject, observed[i].seq>> : i \in C}
      /\ {observed'[i].seq : i \in C} = {observed[i].seq : i \in C}
  OBVIOUS
<1> QED BY <1>1 DEF Written, encodes

LEMMA WrittenStep ==
    ASSUME SourceInv, CountInv, SubjectInv, WrittenInv, ResolvedInv, out \in Seq(OutType), [Next]_vars
    PROVE  WrittenInv'
<1>0. report \in ReportType /\ o \in OptionType /\ IsFiniteSet({}) /\ Cardinality({}) = 0
  BY FS_EmptySet DEF CountInv, SourceInv
<1>1. CASE readHead
  <2>1. PICK C : C = IF perSubject THEN {} ELSE Pass
    OBVIOUS
  <2>2. /\ pc = "head" /\ pc' = "pass" /\ UNCHANGED <<o, out, firstOut, observed>> /\ perSubject' = perSubject
        /\ Pass' = Pass
    BY <1>1, SameSurvivors DEF readHead, perSubject
  <2>3. report'.kept = report.kept
    BY <1>0, <1>1 DEF readHead, ReportType
  <2>4. Written(C)
    BY <2>1, <2>2 DEF WrittenInv
  <2>5. Written(C)'
    BY <2>2, <2>3, <2>4, WrittenFrame
  <2> QED BY <2>1, <2>2, <2>5 DEF WrittenInv
<1>2. CASE filterMessage
  <2>n. PICK n : n = Len(observed) + 1
    OBVIOUS
  <2>p. PICK P : P = Pass
    OBVIOUS
  <2>s. PICK seen : seen = [report EXCEPT !.source = @ + 1]
    OBVIOUS
  <2>1. pc = "pass" /\ pc' = "pass" /\ o' = o /\ perSubject' = perSubject
    BY <1>2 DEF filterMessage, perSubject
  <2>2. /\ Len(observed') = n /\ n \in Nat /\ msg \in Msg /\ observed'[n] = msg /\ msg = src[n]
        /\ \A i \in DOMAIN observed : observed'[i] = observed[i] /\ i < n
        /\ n \in DOMAIN src
    BY <1>2, <2>n, <2>1, Reading
  <2>3. Pass' = (IF Selected(msg) THEN P \cup {n} ELSE P) /\ n \notin P
    BY <1>2, <2>n, <2>p, <2>1, PassStep
  <2>4. IsFiniteSet(P) /\ P \subseteq DOMAIN observed
    BY <2>p, PassFinite DEF SourceInv
  <2>5. seen \in ReportType /\ seen.kept = report.kept
    BY <1>0, <2>s DEF ReportType
  <2>6. Written(IF perSubject THEN {} ELSE P)
    BY <2>p, <2>1 DEF WrittenInv
  <2>7. CASE perSubject
    <3>1. Written({})
      BY <2>6, <2>7
    <3>2. UNCHANGED <<o, out, firstOut>>
      BY <1>2, <2>7 DEF filterMessage
    <3>3. report' = seen \/ report' = [seen EXCEPT !.dropped[evaluate(msg)] = @ + 1]
      BY <1>2, <2>7, <2>s DEF filterMessage
    <3>4. report'.kept = report.kept
      BY <2>5, <3>3 DEF ReportType
    <3>5. Written({})'
      BY <3>1, <3>2, <3>4, WrittenFrame
    <3> QED BY <2>1, <2>7, <3>5 DEF WrittenInv
  <2>8. CASE ~perSubject /\ evaluate(msg) # "keep"
    <3>1. Written(P) /\ ~Selected(msg)
      BY <2>2, <2>6, <2>8, EvaluateSelected DEF SourceInv
    <3>2. UNCHANGED <<o, out, firstOut>> /\ report' = [seen EXCEPT !.dropped[evaluate(msg)] = @ + 1]
      BY <1>2, <2>8, <2>s DEF filterMessage
    <3>3. report'.kept = report.kept
      BY <2>5, <3>2 DEF ReportType
    <3>4. Written(P)'
      BY <2>2, <2>4, <3>1, <3>2, <3>3, WrittenFrame
    <3> QED BY <2>1, <2>3, <2>8, <3>1, <3>4 DEF WrittenInv
  <2>9. CASE ~perSubject /\ evaluate(msg) = "keep"
    <3>1. Written(P) /\ Selected(msg)
      BY <2>2, <2>6, <2>9, EvaluateSelected DEF SourceInv
    <3>2. writeMessage(msg, seen)
      BY <1>2, <2>9, <2>s DEF filterMessage
    <3>3. \A i \in P : observed'[i] = observed[i] /\ observed[i].seq \in Nat /\ observed[i].seq < msg.seq
      <4>1. ASSUME NEW i \in P PROVE observed[i].seq < src[n].seq
        <5>1. i \in DOMAIN observed /\ i < n /\ i \in DOMAIN src /\ observed[i].seq = src[i].seq
          BY <2>2, <2>4 DEF SourceInv
        <5> QED BY <2>2, <5>1 DEF SourceInv, Ascending
      <4> QED BY <2>2, <2>4, <4>1, ObservedFacts
    <3>m. PICK m : m = msg
      OBVIOUS
    <3>4. Writes(m, seen, P, n)
      BY <1>0, <2>1, <2>2, <2>3, <2>4, <2>5, <3>2, <3>3, <3>m DEF Writes
    <3>5. Written(P \cup {n})'
      BY <3>1, <3>4, WriteOne
    <3>6. PICK Q : Q = P \cup {n}
      OBVIOUS
    <3>7. Written(Q)' /\ Pass' = Q
      BY <2>3, <3>1, <3>5, <3>6
    <3> QED BY <2>1, <2>9, <3>7 DEF WrittenInv
  <2> QED BY <2>7, <2>8, <2>9
<1>3. CASE endPass
  <2>1. pc = "pass" /\ UNCHANGED <<o, observed, out>> /\ Survivors' = Survivors /\ encodes' = encodes
    BY <1>3, SameSurvivors DEF endPass, encodes
  <2>2. CASE ~perSubject
    <3>1. UNCHANGED <<report, firstOut>> /\ pc' = "done" /\ Survivors = Pass
      BY <1>3, <2>2, SurvivorsCases DEF endPass, SourceInv
    <3>2. PICK C : C = Survivors
      OBVIOUS
    <3>3. Written(C)
      BY <2>1, <2>2, <3>1, <3>2 DEF WrittenInv
    <3>4. Written(C)'
      BY <2>1, <3>1, <3>3, WrittenFrame
    <3> QED BY <2>1, <3>1, <3>2, <3>4 DEF WrittenInv
  <2>3. CASE perSubject /\ TwoPass
    <3>1. pc' = "rewind" /\ firstOut' = firstOut /\ report' = [report EXCEPT !.dropped["perSubject"] = passed - Resolve.msgs]
      BY <1>3, <2>3 DEF endPass
    <3>2. report'.kept = report.kept
      BY <1>0, <3>1 DEF ReportType
    <3>3. Written({})
      BY <2>1, <2>3 DEF WrittenInv
    <3>4. Written({})'
      BY <2>1, <3>1, <3>2, <3>3, WrittenFrame
    <3> QED BY <3>1, <3>4 DEF WrittenInv
  <2>4. CASE perSubject /\ ~TwoPass
    <3>1. ~encodes
      BY <2>4 DEF TwoPass
    <3>r. PICK rep : rep = [report EXCEPT !.dropped["perSubject"] = passed - Resolve.msgs]
      OBVIOUS
    <3>2. pc' = "done" /\ firstOut' = Resolve.first /\ report' = [rep EXCEPT !.kept = Resolve.msgs]
      BY <1>3, <2>4, <3>r DEF endPass
    <3>3. report'.kept = Resolve.msgs
      BY <1>0, <3>r, <3>2 DEF ReportType
    <3>4. PICK C : C = Survivors
      OBVIOUS
    <3>5. Written(C)'
      <4>1. report'.kept = Cardinality(C) /\ (C # {} => firstOut' = Min({observed[i].seq : i \in C}))
        BY <2>4, <3>2, <3>3, <3>4, Resolves
      <4> QED BY <2>1, <3>1, <4>1 DEF Written
    <3> QED BY <2>1, <3>2, <3>4, <3>5 DEF WrittenInv
  <2> QED BY <2>2, <2>3, <2>4
<1>4. CASE rewind
  <2>1. pc = "rewind" /\ pc' \in {"failed", "copy"} /\ UNCHANGED <<o, out, firstOut, observed, report>>
    BY <1>4 DEF rewind
  <2>2. Written({})
    BY <2>1 DEF WrittenInv
  <2>3. Written({})'
    BY <2>1, <2>2, WrittenFrame
  <2> QED BY <2>1, <2>3 DEF WrittenInv
<1>5. CASE copyMessage
  <2>1. /\ pc = "copy" /\ pc' = "copy" /\ UNCHANGED <<o, observed, src>> /\ Survivors' = Survivors /\ pos' = pos + 1
        /\ pos \in Nat /\ pos + 1 \in DOMAIN src /\ msg = src[pos + 1] /\ msg \in Msg
    BY <1>5, SameSurvivors DEF copyMessage, SourceInv, unread, msg
  <2>2. PICK C \in SUBSET {i \in Survivors : i <= pos} : Written(C)
    BY <2>1 DEF WrittenInv
  <2>3. IsFiniteSet(C) /\ C \subseteq DOMAIN observed
    BY <2>2, ObservedFacts, FS_Subset
  <2>4. CASE ~Keeps(msg.kind.subject, msg.seq)
    <3>1. UNCHANGED <<report, out, firstOut>>
      BY <1>5, <2>4 DEF copyMessage
    <3>2. Written(C)'
      BY <2>1, <2>2, <3>1, WrittenFrame
    <3>3. C \in SUBSET {i \in Survivors : i <= pos + 1}
      <4>1. \A i \in C : i \in Nat /\ i <= pos
        BY <2>2, <2>3, ObservedFacts
      <4> QED BY <2>1, <2>2, <4>1
    <3> QED BY <2>1, <3>2, <3>3 DEF WrittenInv
  <2>5. CASE Keeps(msg.kind.subject, msg.seq)
    <3>m. PICK m : m = msg
      OBVIOUS
    <3>1. writeMessage(m, report) /\ m \in Msg /\ m.kind.subject \in Subjects
      BY <1>5, <2>1, <2>5, <3>m, Typed DEF copyMessage
    <3>2. perSubject
      BY <2>1 DEF SourceInv, TwoPass
    <3>3. PICK n \in Survivors : observed[n].kind.subject = m.kind.subject /\ observed[n].seq = m.seq
      BY <2>5, <3>m, <3>1, <3>2, KeepsSurvivors
    <3>4. n = pos + 1
      <4>1. n \in DOMAIN observed /\ n \in DOMAIN src /\ n \in Nat /\ src[n].seq = src[pos + 1].seq
        BY <2>1, <3>m, <3>3, ObservedFacts DEF SourceInv
      <4>2. ~(n < pos + 1) /\ ~(pos + 1 < n)
        <5>1. src[n].seq \in Nat
          BY <4>1, Typed DEF SourceInv
        <5> QED BY <2>1, <4>1, <5>1 DEF SourceInv, Ascending
      <4> QED BY <2>1, <4>1, <4>2
    <3>5. n \notin C /\ \A i \in C : i \in Nat /\ i < n
      BY <2>1, <2>2, <2>3, <3>4, ObservedFacts
    <3>6. \A i \in C : observed[i].seq \in Nat /\ observed[i].seq < m.seq
      BY <2>3, <3>3, <3>5, ObservedFacts
    <3>7. Writes(m, report, C, n)
      BY <1>0, <2>1, <2>3, <3>1, <3>3, <3>5, <3>6 DEF Writes
    <3>8. Written(C \cup {n})'
      BY <2>2, <3>7, WriteOne
    <3>9. PICK D : D = C \cup {n}
      OBVIOUS
    <3>10. D \in SUBSET {i \in Survivors : i <= pos + 1}
      BY <2>1, <2>2, <3>3, <3>4, <3>5, <3>9
    <3>11. Written(D)'
      BY <3>8, <3>9
    <3> QED BY <2>1, <3>10, <3>11 DEF WrittenInv
  <2> QED BY <2>4, <2>5
<1>6. CASE endCopy
  <2>1. pc = "copy" /\ UNCHANGED <<o, out, firstOut, observed, report>> /\ Survivors' = Survivors
        /\ pc' = IF report.kept # res.msgs \/ (~o.obfuscate /\ bytes # res.bytes) THEN "failed" ELSE "done"
    BY <1>6, SameSurvivors DEF endCopy
  <2>2. PICK C \in SUBSET {i \in Survivors : i <= pos} : Written(C)
    BY <2>1 DEF WrittenInv
  <2>3. Written(C)'
    BY <2>1, <2>2, WrittenFrame
  <2>4. CASE pc' = "failed"
    BY <2>4 DEF WrittenInv
  <2>5. CASE pc' = "done"
    <3>1. report.kept = res.msgs /\ res.msgs = Cardinality(Survivors) /\ report.kept = Cardinality(C)
      BY <2>1, <2>2, <2>5 DEF ResolvedInv, Written
    <3>2. C = Survivors
      <4>1. C \in SUBSET Survivors /\ Cardinality(Survivors) = Cardinality(C)
        BY <2>2, <3>1
      <4> QED BY <4>1, ObservedFacts, FS_Subset
    <3> QED BY <2>1, <2>3, <2>5, <3>2 DEF WrittenInv
  <2> QED BY <2>1, <2>4, <2>5
<1>7. CASE Fails
  BY <1>7 DEF Fails, WrittenInv
<1>8. CASE ModifySource \/ Returned \/ UNCHANGED vars
  <2>1. UNCHANGED <<o, out, firstOut, observed, report, pc, pos>>
    BY <1>8 DEF ModifySource, Returned, vars
  <2>2. Pass' = Pass /\ Survivors' = Survivors /\ perSubject' = perSubject
    BY <2>1, SameSurvivors DEF perSubject
  <2>3. ASSUME NEW C, Written(C) PROVE Written(C)'
    BY <2>1, <2>3, WrittenFrame
  <2>4. CASE pc \in {"head", "pass"}
    <3>1. PICK C : C = IF perSubject THEN {} ELSE Pass
      OBVIOUS
    <3>2. Written(C)'
      BY <2>3, <2>4, <3>1 DEF WrittenInv
    <3> QED BY <2>1, <2>2, <2>4, <3>1, <3>2 DEF WrittenInv
  <2>5. CASE pc = "rewind"
    <3>1. Written({})'
      BY <2>3, <2>5 DEF WrittenInv
    <3> QED BY <2>1, <2>5, <3>1 DEF WrittenInv
  <2>6. CASE pc = "copy"
    <3>1. PICK C \in SUBSET {i \in Survivors : i <= pos} : Written(C)
      BY <2>6 DEF WrittenInv
    <3>2. Written(C)'
      BY <2>3, <3>1
    <3> QED BY <2>1, <2>2, <2>6, <3>1, <3>2 DEF WrittenInv
  <2>7. CASE pc = "done"
    <3>1. PICK C : C = Survivors
      OBVIOUS
    <3>2. Written(C)'
      BY <2>3, <2>7, <3>1 DEF WrittenInv
    <3> QED BY <2>1, <2>2, <2>7, <3>1, <3>2 DEF WrittenInv
  <2>8. CASE pc \notin {"head", "pass", "rewind", "copy", "done"}
    BY <2>1, <2>8 DEF WrittenInv
  <2> QED BY <2>4, <2>5, <2>6, <2>7, <2>8
<1> QED BY <1>1, <1>2, <1>3, <1>4, <1>5, <1>6, <1>7, <1>8 DEF Next

LEMMA ResolvedStep ==
    ASSUME SourceInv, SubjectInv, ResolvedInv, [Next]_vars
    PROVE  ResolvedInv'
<1> DEFINE Entries == {ringEntry(observed[i]) : i \in Survivors}
<1>1. CASE endPass
  <2>1. UNCHANGED <<o, observed>> /\ Survivors' = Survivors
    BY <1>1, SameSurvivors DEF endPass
  <2>2. Entries' = Entries
    BY <2>1
  <2>3. CASE ~perSubject
    BY <1>1, <2>3 DEF endPass, ResolvedInv
  <2>4. CASE perSubject
    <3>1. res' = Resolve
      BY <1>1, <2>4 DEF endPass
    <3>2. Resolve.msgs = Cardinality(Survivors) /\ Resolve.bytes = totalSize(Entries)
      BY <2>4, Resolves
    <3> HIDE DEF Entries
    <3>3. res'.msgs = Cardinality(Survivors') /\ res'.bytes = totalSize(Entries')
      BY <2>1, <2>2, <3>1, <3>2
    <3> QED BY <3>3 DEF ResolvedInv, Entries
  <2> QED BY <2>3, <2>4
<1>2. CASE UNCHANGED <<o, observed, res>> /\ (pc' \in {"rewind", "copy"} => pc \in {"rewind", "copy"})
  <2>1. Survivors' = Survivors /\ Entries' = Entries
    <3>1. Survivors' = Survivors
      BY <1>2, SameSurvivors
    <3> QED BY <1>2, <3>1
  <2> HIDE DEF Entries
  <2>2. pc' \in {"rewind", "copy"} => res'.msgs = Cardinality(Survivors') /\ res'.bytes = totalSize(Entries')
    BY <1>2, <2>1 DEF ResolvedInv, Entries
  <2> QED BY <2>2 DEF ResolvedInv, Entries
<1>3. CASE filterMessage
  BY <1>3 DEF filterMessage, ResolvedInv
<1>4. ~endPass /\ ~filterMessage =>
         UNCHANGED <<o, observed, res>> /\ (pc' \in {"rewind", "copy"} => pc \in {"rewind", "copy"})
  BY DEF Next, readHead, rewind, copyMessage, endCopy, Fails, ModifySource, Returned, vars
<1> QED BY <1>1, <1>2, <1>3, <1>4

LEMMA SizeStep ==
    ASSUME SourceInv, CountInv, SubjectInv, ResolvedInv, SizeInv, out \in Seq(OutType), [Next]_vars
    PROVE  SizeInv'
<1> DEFINE Of(C) == {ringEntry(observed[i]) : i \in C}
<1>1. CASE UNCHANGED <<o, observed, bytes>> /\ (pc' = pc \/ pc' = "failed" \/ (pc = "head" /\ pc' = "pass")
                                                  \/ (pc = "rewind" /\ pc' = "copy"))
  <2>1. Survivors' = Survivors /\ Pass' = Pass /\ perSubject' = perSubject
    BY <1>1, SameSurvivors DEF perSubject
  <2>2. Of(Pass)' = Of(Pass) /\ Of(Survivors)' = Of(Survivors)
    BY <1>1, <2>1
  <2> QED BY <1>1, <2>1, <2>2 DEF SizeInv
<1>2. CASE filterMessage
  <2>n. PICK n : n = Len(observed) + 1
    OBVIOUS
  <2>p. PICK P : P = Pass
    OBVIOUS
  <2>s. PICK seen : seen = [report EXCEPT !.source = @ + 1]
    OBVIOUS
  <2>1. pc = "pass" /\ pc' = "pass" /\ o' = o /\ perSubject' = perSubject /\ o \in OptionType
    BY <1>2 DEF filterMessage, perSubject, SourceInv
  <2>2. /\ n \in Nat /\ msg \in Msg /\ observed'[n] = msg
        /\ \A i \in DOMAIN observed : observed'[i] = observed[i]
        /\ n \notin DOMAIN observed /\ DOMAIN observed' = DOMAIN observed \cup {n}
    BY <1>2, <2>n, <2>1, Reading
  <2>3. Pass' = (IF Selected(msg) THEN P \cup {n} ELSE P) /\ n \notin P /\ P \subseteq DOMAIN observed
    BY <1>2, <2>n, <2>p, <2>1, PassStep, PassFinite DEF SourceInv
  <2>4. SUFFICES ASSUME ~perSubject, ~o.obfuscate
                 PROVE  bytes' = totalSize({ringEntry(observed'[i]) : i \in Pass'})
    BY <2>1 DEF SizeInv
  <2>e. PICK E : E = {ringEntry(observed[i]) : i \in P}
    OBVIOUS
  <2>5. bytes = totalSize(E) /\ E = {ringEntry(observed'[i]) : i \in P}
    BY <2>p, <2>1, <2>2, <2>3, <2>4, <2>e DEF SizeInv
  <2>6. CASE evaluate(msg) # "keep"
    <3>1. ~Selected(msg) /\ bytes' = bytes
      BY <1>2, <2>2, <2>6, <2>1, EvaluateSelected DEF filterMessage
    <3> QED BY <2>3, <2>5, <3>1
  <2>7. CASE evaluate(msg) = "keep"
    <3>1. Selected(msg) /\ writeMessage(msg, seen)
      BY <1>2, <2>2, <2>4, <2>7, <2>s, <2>1, EvaluateSelected DEF filterMessage
    <3>2. bytes' = bytes + msg.kind.size
      BY <2>4, <3>1 DEF writeMessage, outSize
    <3>m. PICK m : m = msg
      OBVIOUS
    <3>x. PICK x : x = ringEntry(m)
      OBVIOUS
    <3>3. x.size = m.kind.size /\ x.size \in Nat /\ x.seq = m.seq
      BY <2>2, <3>m, <3>x, Typed DEF ringEntry
    <3>4. {ringEntry(observed'[i]) : i \in Pass'} = E \cup {x}
      BY <2>2, <2>3, <2>5, <3>1, <3>m, <3>x
    <3>5. x \notin E
      <4>1. ASSUME NEW i \in P PROVE ringEntry(observed[i]).seq # m.seq
        <5>1. observed[i].seq # m.seq
          <6>1. i \in DOMAIN src /\ n \in DOMAIN src /\ i < n /\ observed[i].seq = src[i].seq /\ m = src[n]
            <7>1. n \in DOMAIN src /\ msg = src[n] /\ \A j \in DOMAIN observed : j < n
              BY <1>2, <2>n, <2>1, Reading
            <7>2. i \in DOMAIN observed /\ DOMAIN observed \subseteq DOMAIN src
              BY <2>3 DEF SourceInv
            <7> QED BY <3>m, <7>1, <7>2 DEF SourceInv
          <6>2. src[i].seq < src[n].seq /\ src[i].seq \in Nat /\ src[n].seq \in Nat
            <7>1. src[i] \in Msg /\ src[n] \in Msg
              BY <6>1 DEF SourceInv
            <7> QED BY <6>1, <7>1, Typed DEF SourceInv, Ascending
          <6> QED BY <6>1, <6>2
        <5> QED BY <5>1 DEF ringEntry
      <4> QED BY <2>e, <3>3, <4>1
    <3>6. IsFiniteSet(E) /\ \A e \in E : e.size \in Nat
      BY <2>e, <2>3, EntriesOf
    <3>7. totalSize(E \cup {x}) = totalSize(E) + x.size
      BY <3>3, <3>5, <3>6, TotalSize
    <3> QED BY <2>5, <3>2, <3>m, <3>3, <3>4, <3>7
  <2> QED BY <2>6, <2>7
<1>3. CASE endPass
  <2>1. pc = "pass" /\ UNCHANGED <<o, observed>> /\ Survivors' = Survivors /\ perSubject' = perSubject
    BY <1>3, SameSurvivors DEF endPass, perSubject
  <2>2. Of(Survivors)' = Of(Survivors)
    BY <2>1
  <2>3. CASE ~perSubject
    <3>1. bytes' = bytes /\ pc' = "done" /\ Survivors = Pass
      BY <1>3, <2>3, SurvivorsCases DEF endPass, SourceInv
    <3> QED BY <2>1, <2>2, <2>3, <3>1 DEF SizeInv
  <2>4. CASE perSubject /\ TwoPass
    BY <1>3, <2>4 DEF endPass, SizeInv
  <2>5. CASE perSubject /\ ~TwoPass
    <3>1. bytes' = Resolve.bytes /\ pc' = "done"
      BY <1>3, <2>5 DEF endPass
    <3>2. Resolve.bytes = totalSize(Of(Survivors))
      BY <2>5, Resolves
    <3> QED BY <2>1, <2>2, <3>1, <3>2 DEF SizeInv
  <2> QED BY <2>3, <2>4, <2>5
<1>4. CASE copyMessage
  BY <1>4 DEF copyMessage, SizeInv
<1>5. CASE endCopy
  <2>1. pc = "copy" /\ UNCHANGED <<o, observed, bytes>> /\ Survivors' = Survivors
        /\ pc' = IF report.kept # res.msgs \/ (~o.obfuscate /\ bytes # res.bytes) THEN "failed" ELSE "done"
    BY <1>5, SameSurvivors DEF endCopy
  <2>2. Of(Survivors)' = Of(Survivors)
    BY <2>1
  <2>3. res.bytes = totalSize(Of(Survivors))
    BY <2>1 DEF ResolvedInv
  <2> QED BY <2>1, <2>2, <2>3 DEF SizeInv
<1>6. ~filterMessage /\ ~endPass /\ ~copyMessage /\ ~endCopy =>
         UNCHANGED <<o, observed, bytes>> /\ (pc' = pc \/ pc' = "failed" \/ (pc = "head" /\ pc' = "pass")
                                                  \/ (pc = "rewind" /\ pc' = "copy"))
  BY DEF Next, readHead, rewind, Fails, ModifySource, Returned, vars
<1> QED BY <1>1, <1>2, <1>3, <1>4, <1>5, <1>6

\* The message at n of the source is written, after everything in out.
LEMMA OutWrites ==
    ASSUME SourceInv, OutInv, NEW m \in Msg, NEW rep \in ReportType, rep.kept = report.kept,
           rep.consumers = report.consumers, writeMessage(m, rep), UNCHANGED <<o, src, srcState, pc>>,
           pc \in {"pass", "copy"}, pc = "pass" => ~perSubject,
           NEW n, n = pos + 1, n \in DOMAIN src, m = src[n], pos' = n
    PROVE  OutInv'
<1>0. out \in Seq(OutType) /\ o \in OptionType /\ pos \in Nat /\ n \in Nat /\ encodes' = encodes
      /\ perSubject' = perSubject
  BY DEF OutInv, SourceInv, encodes, perSubject
<1>1. /\ report'.kept = rep.kept + 1 /\ report'.consumers = rep.consumers /\ rep.kept \in Nat
      /\ firstOut' = IF rep.kept = 0 THEN outSeq(m, 1) ELSE firstOut
      /\ ~encodes => out' = out
  BY <1>0, WriteFacts
<1>2. \A j \in 1 .. pos : j \in 1 .. n /\ src'[j] = src[j]
  BY <1>0
<1>3. CASE ~encodes
  <2>1. out' = out
    BY <1>1, <1>3
  <2> QED BY <1>0, <1>1, <1>2, <1>3, <2>1 DEF OutInv
<1>4. CASE encodes
  <2>k. PICK k : k = Len(out) + 1
    OBVIOUS
  <2>1. /\ out' \in Seq(OutType) /\ Len(out') = k /\ Len(out) \in Nat
        /\ DOMAIN out' = DOMAIN out \cup {k} /\ DOMAIN out = 1 .. Len(out)
        /\ \A i \in DOMAIN out : out'[i] = out[i]
        /\ out'[k].from = m.seq /\ out'[k].seq = outSeq(m, rep.kept + 1)
    BY <1>0, <1>4, <2>k, WriteFacts
  <2>2. Len(out) = report.kept /\ k = rep.kept + 1
    BY <1>4, <2>k DEF OutInv
  <2>3. out' # << >> => firstOut' = out'[1].seq
    <3>1. CASE out = << >>
      <4>1. Len(out) = 0
        BY <3>1, EmptyOf
      <4> QED BY <1>1, <2>k, <2>1, <2>2, <4>1
    <3>2. CASE out # << >>
      <4>1. Len(out) # 0 /\ 1 \in DOMAIN out
        BY <1>0, <2>1, <3>2
      <4>2. firstOut' = firstOut /\ firstOut = out[1].seq
        BY <1>1, <1>4, <2>2, <3>2, <4>1 DEF OutInv
      <4> QED BY <2>1, <4>1, <4>2
    <3> QED BY <3>1, <3>2
  <2>4. \A i \in DOMAIN out : \E j \in 1 .. pos : out[i].from = src[j].seq
    BY DEF OutInv
  <2>5. ASSUME NEW i \in DOMAIN out' PROVE /\ out'[i].seq = IF o.renumber THEN i ELSE out'[i].from
                                           /\ out'[i].from > 0
                                           /\ out'[i].from \in srcState.first .. srcState.metaLast
                                           /\ \E j \in 1 .. n : out'[i].from = src[j].seq
    <3>1. CASE i = k
      <4>1. m.seq > 0 /\ m.seq \in srcState.first .. srcState.metaLast
        BY DEF SourceInv
      <4>2. n \in 1 .. n
        BY <1>0
      <4> QED BY <2>1, <2>2, <3>1, <4>1, <4>2 DEF outSeq
    <3>2. CASE i \in DOMAIN out
      BY <1>2, <2>1, <2>4, <3>2 DEF OutInv
    <3> QED BY <2>1, <3>1, <3>2
  <2>6. ASSUME NEW i \in DOMAIN out', NEW j \in DOMAIN out', i < j PROVE out'[i].from < out'[j].from
    <3>1. CASE j \in DOMAIN out
      <4>1. i \in DOMAIN out
        BY <2>k, <2>1, <2>6, <3>1
      <4> QED BY <2>1, <2>6, <3>1, <4>1 DEF OutInv
    <3>2. CASE j = k
      <4>1. i \in DOMAIN out
        BY <2>k, <2>1, <2>6, <3>2
      <4>2. PICK l \in 1 .. pos : out[i].from = src[l].seq
        BY <2>4, <4>1
      <4>3. l < n /\ l \in DOMAIN src
        BY <1>0 DEF SourceInv
      <4>4. src[l].seq < src[n].seq
        BY <4>3 DEF SourceInv, Ascending
      <4> QED BY <2>1, <3>2, <4>1, <4>2, <4>4
    <3> QED BY <2>1, <3>1, <3>2
  <2>7. Len(out') = report'.kept
    BY <1>1, <2>1, <2>2
  <2>8. pc' \notin {"head", "failed"} => report'.consumers = IF o'.renumber THEN 0 ELSE srcState'.consumers
    BY <1>1 DEF OutInv
  <2>9. ~(pc' \in {"head", "rewind"} \/ (pc' = "pass" /\ perSubject'))
    BY <1>0
  <2>10. \A i \in DOMAIN out' : \E j \in 1 .. pos' : out'[i].from = src'[j].seq
    BY <2>5
  <2> QED BY <1>0, <1>4, <2>1, <2>3, <2>5, <2>6, <2>7, <2>8, <2>9, <2>10 DEF OutInv
<1> QED BY <1>3, <1>4

\* The output stays as it is while the source is read on.
LEMMA OutFrame ==
    ASSUME SourceInv, OutInv, UNCHANGED <<o, srcState, out, firstOut>>, encodes => report'.kept = report.kept,
           Len(src') = Len(src), \A i \in DOMAIN src : src'[i].seq = src[i].seq,
           pc' \notin {"head", "failed"} => report'.consumers = IF o.renumber THEN 0 ELSE srcState.consumers,
           pc' \in {"head", "rewind"} \/ (pc' = "pass" /\ perSubject) => out = << >>,
           pos' \in Nat, pos <= pos' \/ out = << >>
    PROVE  OutInv'
<1>1. pos \in 0 .. Len(src) /\ Len(src) \in Nat /\ DOMAIN src = 1 .. Len(src)
  BY DEF SourceInv
<1>2. ASSUME NEW i \in DOMAIN out PROVE \E j \in 1 .. pos' : out[i].from = src'[j].seq
  <2>1. out # << >>
    BY EmptyOf
  <2>2. PICK j \in 1 .. pos : out[i].from = src[j].seq
    BY DEF OutInv
  <2>3. j \in DOMAIN src /\ j \in 1 .. pos'
    BY <1>1, <2>1
  <2> QED BY <2>2, <2>3
<1>3. encodes' = encodes /\ perSubject' = perSubject
  BY DEF encodes, perSubject
<1> QED BY <1>2, <1>3 DEF OutInv

LEMMA OutStep ==
    ASSUME SourceInv, SourceInv', CountInv, OutInv, [Next]_vars
    PROVE  OutInv'
<1>0. report \in ReportType /\ pos \in Nat /\ pos' \in Nat /\ o \in OptionType /\ srcState.consumers \in Nat
  BY DEF CountInv, SourceInv, HeadType
<1>1. CASE readHead
  <2>1. /\ pc = "head" /\ pc' = "pass" /\ UNCHANGED <<o, srcState, src, pos, out, firstOut>>
        /\ report' = [report EXCEPT !.consumers = IF o.renumber THEN 0 ELSE srcState.consumers]
    BY <1>1 DEF readHead
  <2>2. report'.kept = report.kept /\ report'.consumers = IF o.renumber THEN 0 ELSE srcState.consumers
    BY <1>0, <2>1 DEF ReportType
  <2>3. out = << >>
    BY <2>1 DEF OutInv
  <2> QED BY <1>0, <2>1, <2>2, <2>3, OutFrame
<1>2. CASE filterMessage
  <2>n. PICK n : n = Len(observed) + 1
    OBVIOUS
  <2>s. PICK seen : seen = [report EXCEPT !.source = @ + 1]
    OBVIOUS
  <2>1. pc = "pass" /\ UNCHANGED <<o, src, srcState, pc>>
    BY <1>2 DEF filterMessage
  <2>2. msg \in Msg /\ n = pos + 1 /\ msg = src[n] /\ n \in DOMAIN src /\ pos' = n
    BY <1>2, <2>n, <2>1, Reading
  <2>3. seen \in ReportType /\ seen.kept = report.kept /\ seen.consumers = report.consumers
    BY <1>0, <2>s DEF ReportType
  <2>4. CASE evaluate(msg) = "keep" /\ ~perSubject
    <3>1. writeMessage(msg, seen)
      BY <1>2, <2>4, <2>s DEF filterMessage
    <3>m. PICK m : m = msg
      OBVIOUS
    <3>2. m \in Msg /\ writeMessage(m, seen) /\ m = src[n]
      BY <2>2, <3>1, <3>m
    <3> QED BY <2>1, <2>2, <2>3, <2>4, <3>2, OutWrites
  <2>5. CASE ~(evaluate(msg) = "keep" /\ ~perSubject)
    <3>1. UNCHANGED <<out, firstOut>> /\ (report' = seen \/ report' = [seen EXCEPT !.dropped[evaluate(msg)] = @ + 1])
      BY <1>2, <2>5, <2>s DEF filterMessage
    <3>2. report'.kept = report.kept /\ report'.consumers = report.consumers
      BY <2>3, <3>1 DEF ReportType
    <3>3. report.consumers = (IF o.renumber THEN 0 ELSE srcState.consumers) /\ (perSubject => out = << >>)
      BY <2>1 DEF OutInv
    <3>4. pos <= pos'
      BY <1>0, <2>2
    <3> QED BY <1>0, <2>1, <3>1, <3>2, <3>3, <3>4, OutFrame
  <2> QED BY <2>4, <2>5
<1>3. CASE endPass
  <2>1. pc = "pass" /\ UNCHANGED <<o, src, srcState, pos, out>>
    BY <1>3 DEF endPass
  <2>2. report.consumers = (IF o.renumber THEN 0 ELSE srcState.consumers) /\ (perSubject => out = << >>)
    BY <2>1 DEF OutInv
  <2>3. CASE ~perSubject
    <3>1. UNCHANGED <<report, firstOut>> /\ pc' = "done"
      BY <1>3, <2>3 DEF endPass
    <3> QED BY <1>0, <2>1, <2>2, <3>1, OutFrame
  <2>r. PICK rep : rep = [report EXCEPT !.dropped["perSubject"] = passed - Resolve.msgs]
    OBVIOUS
  <2>4. CASE perSubject /\ TwoPass
    <3>1. firstOut' = firstOut /\ pc' = "rewind" /\ report' = rep
      BY <1>3, <2>4, <2>r DEF endPass
    <3>2. report'.kept = report.kept /\ report'.consumers = report.consumers
      BY <1>0, <2>r, <3>1 DEF ReportType
    <3> QED BY <1>0, <2>1, <2>2, <2>4, <3>1, <3>2, OutFrame
  <2>5. CASE perSubject /\ ~TwoPass
    <3>1. pc' = "done" /\ report' = [rep EXCEPT !.kept = Resolve.msgs] /\ ~encodes
      BY <1>3, <2>5, <2>r DEF endPass, TwoPass
    <3>2. report'.consumers = report.consumers
      BY <1>0, <2>r, <3>1 DEF ReportType
    <3>3. encodes' = encodes
      BY <2>1 DEF encodes
    <3> QED BY <2>1, <2>2, <2>5, <3>1, <3>2, <3>3, EmptyOf DEF OutInv
  <2> QED BY <2>3, <2>4, <2>5
<1>4. CASE rewind
  <2>1. pc = "rewind" /\ pc' \in {"failed", "copy"} /\ UNCHANGED <<o, src, srcState, report, firstOut, out>>
    BY <1>4 DEF rewind
  <2>2. out = << >> /\ report.consumers = IF o.renumber THEN 0 ELSE srcState.consumers
    BY <2>1 DEF OutInv
  <2> QED BY <1>0, <2>1, <2>2, OutFrame
<1>5. CASE copyMessage
  <2>1. /\ pc = "copy" /\ UNCHANGED <<o, src, srcState, pc>> /\ pos' = pos + 1
        /\ pos + 1 \in DOMAIN src /\ msg = src[pos + 1] /\ msg \in Msg
    BY <1>5 DEF copyMessage, SourceInv, unread, msg
  <2>2. CASE Keeps(msg.kind.subject, msg.seq)
    <3>m. PICK m, n : m = msg /\ n = pos + 1
      OBVIOUS
    <3>2. m \in Msg /\ writeMessage(m, report) /\ m = src[n] /\ n \in DOMAIN src /\ pos' = n
      BY <1>5, <2>1, <2>2, <3>m DEF copyMessage
    <3> QED BY <1>0, <2>1, <3>m, <3>2, OutWrites
  <2>3. CASE ~Keeps(msg.kind.subject, msg.seq)
    <3>1. UNCHANGED <<report, firstOut, out>>
      BY <1>5, <2>3 DEF copyMessage
    <3>2. report.consumers = IF o.renumber THEN 0 ELSE srcState.consumers
      BY <2>1 DEF OutInv
    <3>3. pos <= pos'
      BY <1>0, <2>1
    <3> QED BY <1>0, <2>1, <3>1, <3>2, <3>3, OutFrame
  <2> QED BY <2>2, <2>3
<1>6. CASE endCopy \/ Fails \/ ModifySource \/ Returned \/ UNCHANGED vars
  <2>1. /\ UNCHANGED <<o, srcState, out, firstOut, report, pos>>
        /\ pc' = pc \/ pc' = "failed" \/ (pc = "copy" /\ pc' = "done")
    BY <1>6 DEF endCopy, Fails, ModifySource, Returned, vars
  <2>2. Len(src') = Len(src) /\ \A i \in DOMAIN src : src'[i].seq = src[i].seq
    <3>1. CASE ModifySource
      BY <3>1, SourceKeeps
    <3>2. CASE ~ModifySource
      BY <1>6, <3>2 DEF endCopy, Fails, Returned, vars
    <3> QED BY <3>1, <3>2
  <2>3. pos <= pos'
    BY <1>0, <2>1
  <2>4. pc' \notin {"head", "failed"} => report'.consumers = IF o.renumber THEN 0 ELSE srcState.consumers
    BY <2>1 DEF OutInv
  <2>5. pc' \in {"head", "rewind"} \/ (pc' = "pass" /\ perSubject) => out = << >>
    BY <2>1 DEF OutInv
  <2> QED BY <1>0, <2>1, <2>2, <2>3, <2>4, <2>5, OutFrame
<1> QED BY <1>1, <1>2, <1>3, <1>4, <1>5, <1>6 DEF Next

-----------------------------------------------------------------------------
(* The archive of the edit, entry by entry.                                 *)

Joins(g, f, b, S) == f \in Seq(S) /\ b \in Seq(S) /\ g = f \o b

LEMMA ConcatFacts ==
    ASSUME NEW S, NEW f, NEW b, NEW g, Joins(g, f, b, S)
    PROVE  /\ g \in Seq(S) /\ Len(g) = Len(f) + Len(b) /\ Len(f) \in Nat /\ Len(b) \in Nat
           /\ \A i \in 1 .. Len(f) : g[i] = f[i]
           /\ \A i \in 1 .. Len(b) : g[Len(f) + i] = b[i]
BY DEF Joins

LEMMA FunctionIsSeq ==
    ASSUME NEW S, NEW n \in Nat, NEW f \in [1 .. n -> S]
    PROVE  f \in Seq(S) /\ Len(f) = n
OBVIOUS

Frames(a, h, c, b, t, S) ==
    /\ h \in S /\ c \in Seq(S) /\ b \in Seq(S) /\ t \in S
    /\ a = <<h>> \o c \o b \o <<t>>

LEMMA FramedWith ==
    ASSUME NEW S, NEW h, NEW c, NEW b, NEW t, NEW a, Frames(a, h, c, b, t, S)
    PROVE  /\ Len(a) = Len(c) + Len(b) + 2 /\ Len(c) \in Nat /\ Len(b) \in Nat
           /\ a[1] = h
           /\ \A i \in 1 .. Len(c) : a[i + 1] = c[i]
           /\ \A i \in 1 .. Len(b) : a[Len(c) + 1 + i] = b[i]
           /\ a[Len(c) + Len(b) + 2] = t
<1>0. h \in S /\ c \in Seq(S) /\ b \in Seq(S) /\ t \in S
  BY DEF Frames
<1>f. PICK f : f = <<h>> \o c
  OBVIOUS
<1>1. /\ f \in Seq(S) /\ Len(f) = Len(c) + 1 /\ f[1] = h /\ Len(c) \in Nat /\ Len(b) \in Nat
      /\ \A i \in 1 .. Len(c) : f[i + 1] = c[i]
  BY <1>0, <1>f
<1>g. PICK g : g = f \o b
  OBVIOUS
<1>2. /\ g \in Seq(S) /\ Len(g) = Len(f) + Len(b)
      /\ \A i \in 1 .. Len(f) : g[i] = f[i]
      /\ \A i \in 1 .. Len(b) : g[Len(f) + i] = b[i]
  <2>1. Joins(g, f, b, S)
    BY <1>0, <1>g, <1>1 DEF Joins
  <2> QED BY <2>1, ConcatFacts
<1>3. a = g \o <<t>>
  BY <1>f, <1>g DEF Frames
<1>4. /\ Len(a) = Len(g) + 1
      /\ \A i \in 1 .. Len(g) : a[i] = g[i]
      /\ a[Len(g) + 1] = t
  <2>1. <<t>> \in Seq(S) /\ Len(<<t>>) = 1 /\ <<t>>[1] = t /\ 1 \in 1 .. Len(<<t>>)
    BY <1>0
  <2>2. /\ Len(a) = Len(g) + Len(<<t>>)
        /\ \A i \in 1 .. Len(g) : a[i] = g[i]
        /\ \A i \in 1 .. Len(<<t>>) : a[Len(g) + i] = <<t>>[i]
    <3>1. Joins(a, g, <<t>>, S)
      BY <1>2, <1>3, <2>1 DEF Joins
    <3> QED BY <3>1, ConcatFacts
  <2>3. a[Len(g) + 1] = <<t>>[1]
    BY <2>1, <2>2
  <2> QED BY <2>1, <2>2, <2>3
<1>5. a[1] = h /\ \A i \in 1 .. Len(c) : a[i + 1] = c[i]
  <2>1. \A i \in 1 .. Len(f) : a[i] = f[i]
    BY <1>1, <1>2, <1>4
  <2>2. 1 \in 1 .. Len(f) /\ \A i \in 1 .. Len(c) : i + 1 \in 1 .. Len(f)
    BY <1>1
  <2> QED BY <1>1, <2>1, <2>2
<1>6. ASSUME NEW i \in 1 .. Len(b) PROVE a[Len(c) + 1 + i] = b[i]
  <2>1. Len(f) + i \in 1 .. Len(g) /\ Len(c) + 1 + i = Len(f) + i
    BY <1>1, <1>2
  <2> QED BY <1>2, <1>4, <2>1
<1>7. Len(g) + 1 = Len(c) + Len(b) + 2
  BY <1>1, <1>2
<1> QED BY <1>1, <1>4, <1>5, <1>6, <1>7

\* The messages of an archive under a head that starts no later, ascending, with
\* as many consumers as the head says: the archive can be restored.
Archive(a, lo, N, q) ==
    a = <<StateEntry(lo, N, Len(q))>> \o [i \in 1 .. N |-> ConsumerEntry]
          \o [i \in 1 .. Len(q) |-> MessageEntry(q[i])] \o <<Sentinel>>

LEMMA ArchiveAccepted ==
    ASSUME NEW lo \in Nat, lo > 0, NEW N \in Nat, NEW q \in Seq(Nat), NEW a,
           \A i \in DOMAIN q : q[i] >= lo,
           \A i, j \in DOMAIN q : i < j => q[i] < q[j], Archive(a, lo, N, q)
    PROVE  RestorableAt(a, Len(a)) /\ a[1].msgs = Len(q)
<1>q. DOMAIN q = 1 .. Len(q) /\ Len(q) \in Nat /\ \A i \in 1 .. Len(q) : q[i] \in Nat
  OBVIOUS
<1>h. PICK h, c, b : h = StateEntry(lo, N, Len(q)) /\ c = [i \in 1 .. N |-> ConsumerEntry]
                     /\ b = [i \in 1 .. Len(q) |-> MessageEntry(q[i])]
  OBVIOUS
<1>s. PICK S : S = {MessageEntry(x) : x \in Nat} \cup {h, ConsumerEntry, Sentinel}
  OBVIOUS
<1>1. h \in S /\ Sentinel \in S /\ c \in Seq(S) /\ b \in Seq(S) /\ Len(c) = N /\ Len(b) = Len(q)
  <2>1. \A i \in 1 .. Len(q) : MessageEntry(q[i]) \in S
    BY <1>q, <1>s
  <2>2. h \in S /\ ConsumerEntry \in S /\ Sentinel \in S
    BY <1>s
  <2>3. c \in [1 .. N -> S] /\ b \in [1 .. Len(q) -> S]
    BY <1>h, <2>1, <2>2
  <2> QED BY <1>q, <2>2, <2>3, FunctionIsSeq
<1>2. a = <<h>> \o c \o b \o <<Sentinel>>
  BY <1>h DEF Archive
<1>3. /\ Len(a) = N + Len(q) + 2 /\ a[1] = h
      /\ \A i \in 1 .. N : a[i + 1] = c[i]
      /\ \A i \in 1 .. Len(q) : a[N + 1 + i] = b[i]
      /\ a[N + Len(q) + 2] = Sentinel
  <2>t. PICK t : t = Sentinel
    OBVIOUS
  <2>1. /\ Len(a) = Len(c) + Len(b) + 2 /\ a[1] = h
        /\ \A i \in 1 .. Len(c) : a[i + 1] = c[i]
        /\ \A i \in 1 .. Len(b) : a[Len(c) + 1 + i] = b[i]
        /\ a[Len(c) + Len(b) + 2] = t
    <3>1. Frames(a, h, c, b, t, S)
      BY <1>1, <1>2, <2>t DEF Frames
    <3> QED BY <3>1, FramedWith
  <2>2. Len(c) = N /\ Len(b) = Len(q)
    BY <1>1
  <2> QED BY <2>t, <2>1, <2>2
<1>4. h.name = "state" /\ h.ok /\ h.consumers = N /\ h.first = lo /\ h.msgs = Len(q)
  BY <1>h DEF StateEntry
<1>5. ASSUME NEW i \in 2 .. N + 1 PROVE IsConsumer(a[i])
  <2>1. i - 1 \in 1 .. N /\ (i - 1) + 1 = i
    OBVIOUS
  <2>2. a[i] = ConsumerEntry
    BY <1>h, <1>3, <2>1
  <2> QED BY <2>2 DEF IsConsumer, ConsumerEntry
<1>6. ASSUME NEW i \in N + 2 .. N + Len(q) + 1 PROVE i - N - 1 \in 1 .. Len(q) /\ a[i].seq = q[i - N - 1]
  <2>1. i - N - 1 \in 1 .. Len(q) /\ N + 1 + (i - N - 1) = i
    BY <1>q
  <2>2. a[i] = MessageEntry(q[i - N - 1])
    BY <1>h, <1>3, <2>1
  <2> QED BY <2>1, <2>2 DEF MessageEntry
<1>7. MessageRange(a, Len(a)) = N + 2 .. N + Len(q) + 1
  BY <1>q, <1>3, <1>4 DEF MessageRange
<1>8. \A i \in MessageRange(a, Len(a)) : IsMessage(a[i]) /\ a[1].first > 0 /\ a[i].seq >= a[1].first
  <2>1. ASSUME NEW i \in N + 2 .. N + Len(q) + 1 PROVE a[i].seq # 0 /\ a[i].seq >= lo
    <3>1. i - N - 1 \in 1 .. Len(q) /\ a[i].seq = q[i - N - 1]
      BY <1>6
    <3>k. PICK k : k = i - N - 1
      OBVIOUS
    <3>2. k \in DOMAIN q /\ a[i].seq = q[k]
      BY <1>q, <3>1, <3>k
    <3>3. q[k] >= lo /\ q[k] \in Nat
      BY <1>q, <3>2
    <3> QED BY <3>2, <3>3
  <2> QED BY <1>3, <1>4, <1>7, <2>1 DEF IsMessage
<1>9. \A i, j \in MessageRange(a, Len(a)) : i < j => a[i].seq < a[j].seq
  <2>1. ASSUME NEW i \in N + 2 .. N + Len(q) + 1, NEW j \in N + 2 .. N + Len(q) + 1, i < j
        PROVE  a[i].seq < a[j].seq
    <3>1. /\ i - N - 1 \in 1 .. Len(q) /\ a[i].seq = q[i - N - 1]
          /\ j - N - 1 \in 1 .. Len(q) /\ a[j].seq = q[j - N - 1]
      BY <1>6
    <3>2. i - N - 1 < j - N - 1
      BY <1>q, <2>1
    <3> QED BY <1>q, <3>1, <3>2
  <2> QED BY <1>7, <2>1
<1>10. IsState(a[1]) /\ IsEnd(a[Len(a)])
  <2>1. IsState(h)
    BY <1>4 DEF IsState
  <2>2. IsEnd(Sentinel)
    BY DEF IsEnd, Sentinel
  <2> QED BY <1>3, <2>1, <2>2
<1>11. Len(a) \in 2 .. Len(a) /\ a[1].consumers + 2 <= Len(a) /\ a[1].consumers = N
  BY <1>q, <1>3, <1>4
<1> QED BY <1>3, <1>4, <1>5, <1>8, <1>9, <1>10, <1>11 DEF RestorableAt

-----------------------------------------------------------------------------
LEMMA EditStep == EditInv /\ [Next]_vars => EditInv'
<1> SUFFICES ASSUME EditInv, [Next]_vars PROVE EditInv'
  OBVIOUS
<1>1. SourceInv /\ CountInv /\ SubjectInv /\ WrittenInv /\ ResolvedInv /\ SizeInv /\ OutInv /\ out \in Seq(OutType)
  BY DEF EditInv, OutInv
<1>2. SourceInv' /\ CountInv' /\ SubjectInv'
  BY <1>1, SourceStep, CountStep, SubjectStep
<1>3. WrittenInv' /\ ResolvedInv' /\ SizeInv'
  BY <1>1, WrittenStep, ResolvedStep, SizeStep
<1>4. OutInv'
  BY <1>1, <1>2, OutStep
<1> QED BY <1>2, <1>3, <1>4 DEF EditInv

\* Whatever the options, the source and what is done to it meanwhile: the counters, the ring or
\* slot of each subject, what Resolve computes and what is written stay those of the messages
\* that the filters let pass (editor.run and the subject state it keeps).
THEOREM EditInvariant == Spec => []EditInv
BY InitEditInv, EditStep, PTL DEF Spec

\* An edit that succeeds wrote the messages that survive its options, in order and each once, and
\* reports their totals, dry or not, in one pass or in two, and even when the source was modified
\* in place between the passes (Edit, "must copy exactly what the first pass resolved").
THEOREM EditWritesSurvivors == Spec => []WritesSurvivors
<1>1. EditInv => WritesSurvivors
  <2> SUFFICES ASSUME EditInv, pc = "done"
               PROVE  WritesSurvivors
    BY DEF WritesSurvivors
  <2>1. SourceInv /\ CountInv /\ Written(Survivors) /\ SizeInv
    BY DEF EditInv, WrittenInv
  <2>2. report.kept = Cardinality(Survivors) /\ Cardinality(Survivors) \in Nat /\ IsFiniteSet(Survivors)
    BY <2>1, ObservedFacts DEF Written
  <2>3. report.source = Len(observed) /\ Len(observed) = Cardinality(Survivors) + allDropped(report.dropped)
    BY <2>1 DEF CountInv
  <2>4. ASSUME Survivors # {}, ~o.renumber PROVE resultRange[1] = Min({observed[i].seq : i \in Survivors})
    <3>1. report.kept > 0
      BY <2>2, <2>4, FS_EmptySet
    <3>2. resultRange = <<firstOut, srcLastSeq>>
      BY <2>4, <3>1 DEF resultRange
    <3> QED BY <2>1, <2>4, <3>2 DEF Written
  <2>5. ~o.obfuscate => bytes = totalSize({ringEntry(observed[i]) : i \in Survivors})
    BY <2>1 DEF SizeInv
  <2> QED BY <2>1, <2>2, <2>3, <2>4, <2>5 DEF WritesSurvivors, Written
<1> QED BY <1>1, EditInvariant, PTL

\* The output of an edit that succeeds is one that a restore accepts, renumbered or not: head,
\* consumers, ascending messages from first_seq on and the sentinel, and the sequences reported
\* enclose those written (Edit).
THEOREM EditRestorable == Spec => []OutputIsRestorable
<1>1. EditInv => OutputIsRestorable
  <2> SUFFICES ASSUME EditInv, pc = "done", encodes
               PROVE  OutputIsRestorable
    BY DEF OutputIsRestorable
  <2>1. SourceInv /\ CountInv /\ OutInv /\ report \in ReportType
    BY DEF EditInv, CountInv
  <2>2. /\ out \in Seq(OutType) /\ Len(out) \in Nat /\ DOMAIN out = 1 .. Len(out) /\ report.kept = Len(out)
        /\ \A i \in DOMAIN out : /\ out[i].seq = IF o.renumber THEN i ELSE out[i].from
                                 /\ out[i].from \in srcState.first .. srcState.metaLast
                                 /\ out[i].seq \in Nat
        /\ \A i, j \in DOMAIN out : i < j => out[i].from < out[j].from
    BY <2>1 DEF OutInv, OutType
  <2>3. srcState.first \in Nat /\ srcState.first > 0 /\ srcState.last \in Nat /\ srcState.metaLast \in Nat
        /\ report.consumers \in Nat
    BY <2>1 DEF SourceInv, HeadType, ReportType
  <2>4. PICK lo, q : lo = (IF o.renumber THEN 1 ELSE srcState.first)
                        /\ q = [i \in 1 .. Len(out) |-> out[i].seq]
    OBVIOUS
  <2>5. lo \in Nat /\ lo > 0 /\ q \in Seq(Nat) /\ Len(q) = Len(out) /\ DOMAIN q = 1 .. Len(out)
    <3>1. q \in [1 .. Len(out) -> Nat]
      BY <2>2, <2>4
    <3> QED BY <2>2, <2>3, <2>4, <3>1
  <2>6. \A i \in DOMAIN q : q[i] >= lo
    BY <2>2, <2>3, <2>4, <2>5
  <2>7. \A i, j \in DOMAIN q : i < j => q[i] < q[j]
    BY <2>2, <2>4, <2>5
  <2>8. OutputArchive = <<StateEntry(lo, report.consumers, Len(q))>> \o [i \in 1 .. report.consumers |-> ConsumerEntry]
                          \o [i \in 1 .. Len(q) |-> MessageEntry(q[i])] \o <<Sentinel>>
    <3>1. [i \in 1 .. Len(out) |-> MessageEntry(out[i].seq)] = [i \in 1 .. Len(q) |-> MessageEntry(q[i])]
      BY <2>4, <2>5
    <3>2. report.kept = Len(q)
      BY <2>2, <2>5
    <3> QED BY <2>4, <3>1, <3>2 DEF OutputArchive
  <2>9. RestorableAt(OutputArchive, Len(OutputArchive)) /\ OutputArchive[1].msgs = Len(q)
    <3>1. PICK a, N : a = OutputArchive /\ N = report.consumers
      OBVIOUS
    <3>2. Archive(a, lo, N, q)
      BY <2>8, <3>1 DEF Archive
    <3>3. N \in Nat /\ lo \in Nat /\ lo > 0 /\ q \in Seq(Nat)
      BY <2>3, <2>5, <3>1
    <3>4. RestorableAt(a, Len(a)) /\ a[1].msgs = Len(q)
      BY <2>6, <2>7, <3>2, <3>3, ArchiveAccepted
    <3> QED BY <3>1, <3>4
  <2>10. ASSUME NEW i \in DOMAIN out PROVE out[i].seq \in resultRange[1] .. resultRange[2]
    <3>1. report.kept > 0 /\ 1 \in DOMAIN out /\ i \in Nat
      BY <2>2
    <3>2. CASE o.renumber
      <4>1. resultRange = <<1, report.kept>>
        BY <3>2 DEF resultRange
      <4> QED BY <2>2, <3>2, <4>1
    <3>3. CASE ~o.renumber
      <4>1. resultRange = <<firstOut, srcLastSeq>>
        BY <3>1, <3>3 DEF resultRange
      <4>2. firstOut = out[1].seq
        <5>1. out # << >>
          BY <3>1, EmptyOf
        <5> QED BY <2>1, <5>1 DEF OutInv
      <4>3. out[1].from <= out[i].from
        <5>1. i = 1 \/ 1 < i
          BY <2>2
        <5> QED BY <2>2, <2>3, <3>1, <5>1
      <4>4. srcState.metaLast <= srcLastSeq /\ srcLastSeq \in Nat
        BY <2>3 DEF srcLastSeq
      <4> QED BY <2>2, <2>3, <3>1, <3>3, <4>1, <4>2, <4>3, <4>4
    <3> QED BY <3>2, <3>3
  <2> QED BY <2>5, <2>9, <2>10 DEF OutputIsRestorable
<1> QED BY <1>1, EditInvariant, PTL
=============================================================================
