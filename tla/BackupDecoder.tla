---------------------------- MODULE BackupDecoder ---------------------------
(***************************************************************************)
(* Decoder (backup/decoder.go) driven by the scan of Verify and Info       *)
(* (backup/verify.go).  The archive is arbitrary: it was truncated,        *)
(* reordered, or written by another program.                               *)
(***************************************************************************)
EXTENDS BackupArchive

CONSTANT Archives   \* the archives scanned

ASSUME ArchivesAssumption == Archives \subseteq Seq(Entry)

VARIABLES
    input,          \* the entries the reader can deliver
    ordinal,        \* entries decoded cleanly, the ordinal of LastGood
    phase,
    consumersLeft,
    lastSeq,
    err,            \* the sticky error is set
    report          \* VerifyReport

decoderVars == <<input, ordinal, phase, consumersLeft, lastSeq, err, report>>

Report == [entries : Nat, consumers : Nat, messages : Nat,
           first : Sequence, last : Sequence, complete : BOOLEAN]

DecoderTypes ==
    /\ input \in Seq(Entry)
    /\ ordinal \in 0 .. Len(input)
    /\ phase \in {"state", "consumers", "messages", "done"}
    /\ consumersLeft \in Nat
    /\ lastSeq \in Sequence
    /\ err \in BOOLEAN
    /\ report \in Report

NewDecoder ==
    /\ input \in Archives
    /\ ordinal = 0
    /\ phase = "state"
    /\ consumersLeft = 0
    /\ lastSeq = 0
    /\ err = FALSE
    /\ report = [entries |-> 0, consumers |-> 0, messages |-> 0,
                 first |-> 0, last |-> 0, complete |-> FALSE]

Hdr  == input[ordinal + 1]
More == ~err /\ ordinal < Len(input)

\* Next keeps the error and returns it from then on.
Fail ==
    /\ err' = TRUE
    /\ UNCHANGED <<input, ordinal, phase, consumersLeft, lastSeq, report>>

advance == ordinal' = ordinal + 1 /\ UNCHANGED <<input, err>>

\* The archive reader has no further entry.
ReadFails ==
    /\ ~err
    /\ phase # "done"
    /\ ordinal = Len(input)
    /\ Fail

\* Mutant: first_seq 0 is taken for 1.
decodeStateNoWrap ==
    /\ More
    /\ phase = "state"
    /\ \/ /\ IsState(Hdr)
          /\ consumersLeft' = Hdr.consumers
          /\ lastSeq' = IF Hdr.first = 0 THEN 0 ELSE Hdr.first - 1
          /\ phase' = IF Hdr.consumers = 0 THEN "messages" ELSE "consumers"
          /\ report' = [report EXCEPT !.entries = @ + 1]
          /\ advance
       \/ ~IsState(Hdr) /\ Fail

decodeState ==
    /\ More
    /\ phase = "state"
    /\ \/ /\ IsState(Hdr)
          /\ consumersLeft' = Hdr.consumers
          /\ lastSeq' = Pred(Hdr.first)
          /\ phase' = IF Hdr.consumers = 0 THEN "messages" ELSE "consumers"
          /\ report' = [report EXCEPT !.entries = @ + 1]
          /\ advance
       \/ ~IsState(Hdr) /\ Fail

decodeConsumer ==
    /\ More
    /\ phase = "consumers"
    /\ \/ /\ IsConsumer(Hdr)
          /\ consumersLeft' = consumersLeft - 1
          /\ phase' = IF consumersLeft = 1 THEN "messages" ELSE phase
          /\ report' = [report EXCEPT !.entries = @ + 1, !.consumers = @ + 1]
          /\ advance
          /\ UNCHANGED lastSeq
       \/ ~IsConsumer(Hdr) /\ Fail

\* Mutant: the count of an entry is taken before the entry was checked.
decodeMessageCountFirst ==
    /\ More
    /\ phase = "messages"
    /\ \/ /\ IsMessage(Hdr)
          /\ lastSeq' = IF Hdr.seq > lastSeq THEN Hdr.seq ELSE lastSeq
          /\ err' = (Hdr.seq <= lastSeq)
          /\ ordinal' = IF Hdr.seq > lastSeq THEN ordinal + 1 ELSE ordinal
          /\ report' = [report EXCEPT !.entries = @ + 1, !.messages = @ + 1,
                                      !.first = IF @ = 0 THEN Hdr.seq ELSE @,
                                      !.last = Hdr.seq]
          /\ UNCHANGED <<input, phase, consumersLeft>>
       \/ /\ IsEnd(Hdr)
          /\ phase' = "done"
          /\ report' = [report EXCEPT !.entries = @ + 1, !.complete = TRUE]
          /\ advance
          /\ UNCHANGED <<consumersLeft, lastSeq>>
       \/ ~IsMessage(Hdr) /\ ~IsEnd(Hdr) /\ Fail

decodeMessage ==
    /\ More
    /\ phase = "messages"
    /\ \/ /\ IsMessage(Hdr)
          /\ Hdr.seq > lastSeq
          /\ lastSeq' = Hdr.seq
          /\ report' = [report EXCEPT !.entries = @ + 1, !.messages = @ + 1,
                                      !.first = IF @ = 0 THEN Hdr.seq ELSE @,
                                      !.last = Hdr.seq]
          /\ advance
          /\ UNCHANGED <<phase, consumersLeft>>
       \/ /\ IsEnd(Hdr)
          /\ phase' = "done"
          /\ report' = [report EXCEPT !.entries = @ + 1, !.complete = TRUE]
          /\ advance
          /\ UNCHANGED <<consumersLeft, lastSeq>>
       \/ /\ ~IsEnd(Hdr)
          /\ Hdr.seq <= lastSeq \/ ~IsMessage(Hdr)
          /\ Fail

\* scan returns at the sentinel and at the first error.
Returned == (err \/ phase = "done") /\ UNCHANGED decoderVars

DecoderNext == decodeState \/ decodeConsumer \/ decodeMessage \/ ReadFails \/ Returned

DecoderSpec == NewDecoder /\ [][DecoderNext]_decoderVars

-----------------------------------------------------------------------------
\* "A nil error means valid" (backup/verify.go:77): Verify accepts no archive that
\* breaks an invariant the server's restore relies on, whatever the order, the
\* counts and the sequences in it, first_seq 0 included.
AcceptsOnlyRestorable == phase = "done" => RestorableAt(input, ordinal)

\* Verify refuses no archive that satisfies those invariants.
RefusesOnlyBroken == err => ~Restorable(input)

\* Verify accepts an archive exactly if a restore could rely on it (backup/verify.go, the
\* sticky error of the decoder).
VerdictIsRight == AcceptsOnlyRestorable /\ RefusesOnlyBroken

\* The report names what was decoded: the counts add up to the ordinal of the last good
\* entry, accepted or not, and the bounds are those of the messages counted.
ReportExact ==
    /\ report.entries = ordinal
    /\ report.complete <=> phase = "done"
    /\ ordinal > 0 =>
          LET body == {i \in 2 .. ordinal : i > input[1].consumers + 1 /\ IsMessage(input[i])}
          IN  /\ ordinal = 1 + report.consumers + report.messages
                              + (IF report.complete THEN 1 ELSE 0)
              /\ body = {} => report.first = 0 /\ report.last = 0
              /\ \A i \in body : input[i].seq \in report.first .. report.last
              /\ body # {} => /\ \E i \in body : input[i].seq = report.first
                              /\ \E i \in body : input[i].seq = report.last
=============================================================================
