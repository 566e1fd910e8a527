----------------------------- MODULE BackupEdit -----------------------------
(***************************************************************************)
(* backup.Edit between the source archive and the staged output            *)
(* (backup/edit.go, filter.go, subjectstate.go).  A plain edit filters and *)
(* copies in one pass.  A per-subject edit observes the filtered messages  *)
(* in a first pass, resolves which of them survive, and copies those in a  *)
(* second pass over the same file, which another process may meanwhile     *)
(* modify in place.  The context may be cancelled before every entry.      *)
(***************************************************************************)
EXTENDS BackupArchive, FiniteSets, FiniteSetsExt, Functions

CONSTANTS
    Subjects,
    Kinds,       \* the messages apart from their sequence, see KindType
    Sources,     \* the sequences of messages edited
    Heads,       \* the state.json of the source, with last_seq of its meta file
    Options,     \* the option sets that pass validate
    Any          \* the value of a filter that was not given

(* A message: its subject, timestamp, header block ("none", "tomb" for a KV *)
(* delete or purge marker, "plain"), payload and stored size.               *)
KindType == [subject : Subjects, ts : Nat, hdr : {"none", "tomb", "plain"},
             payload : {"x", "y"}, size : Nat]
Msg      == [seq : Sequence, kind : Kinds]

(* Filters are given by what they match: the messages in first .. last and  *)
(* in after .. before - 1; exclude and noHeader, noPayload drop what they   *)
(* match; subjects, header and payload, unless Any, keep only that.         *)
OptionType == [first : Nat, lastSeq : Nat, after : Nat, before : Nat, exclude : SUBSET Subjects,
               subjects : {Any} \cup SUBSET Subjects, noHeader : SUBSET {"none", "tomb", "plain"},
               header : {Any} \cup SUBSET {"none", "tomb", "plain"}, noPayload : SUBSET {"x", "y"},
               payload : {Any} \cup SUBSET {"x", "y"}, last : Nat, kvCompact : BOOLEAN,
               renumber : BOOLEAN, obfuscate : BOOLEAN, dryRun : BOOLEAN]
HeadType  == [first : Nat, last : Nat, metaLast : Nat, consumers : Nat]
DropKinds == {"sequence", "time", "subject", "header", "payload", "perSubject"}

ASSUME EditAssumption ==
    /\ Kinds \subseteq KindType
    /\ Options \subseteq OptionType
    /\ Heads \subseteq HeadType
    /\ \A s \in Sources : /\ s \in Seq(Msg)
                          /\ \A i, j \in DOMAIN s : i < j => s[i].seq < s[j].seq
    /\ \A h \in Heads : h.first > 0 /\ \A s \in Sources :
                        \A i \in DOMAIN s : s[i].seq \in h.first .. h.metaLast

VARIABLES
    o,          \* editOptions
    src,        \* the messages of the source file, as they are now
    modified,   \* the file's size or time changed since it was opened
    srcState,   \* the source's state
    pc,         \* "head", "pass", "resolve", "rewind", "copy", "done" or "failed"
    pos,        \* messages read in this pass
    observed,   \* the messages the first pass read (history)
    report,     \* Report
    perSubj,    \* perSubj[s]: the ring or slot of subject s
    res,        \* what Resolve returned
    bytes, firstOut,
    out         \* the messages written: subject, sequence, source sequence, size

vars == <<o, src, modified, srcState, pc, pos, observed, report, perSubj, res, bytes, firstOut, out>>

perSubject == o.last > 0 \/ o.kvCompact
\* The second pass of a dry run only serves the obfuscator's counters.
encodes    == ~o.dryRun
TwoPass    == perSubject /\ (encodes \/ o.obfuscate)

Init ==
    /\ o \in Options
    /\ src \in Sources
    /\ modified = FALSE
    /\ srcState \in Heads
    /\ pc = "head"
    /\ pos = 0
    /\ observed = << >>
    /\ report = [source |-> 0, kept |-> 0, dropped |-> [k \in DropKinds |-> 0],
                 consumers |-> 0]
    /\ perSubj = [s \in Subjects |-> [entries |-> << >>, next |-> 1]]
    /\ res = [msgs |-> 0, bytes |-> 0, first |-> 0]
    /\ bytes = 0
    /\ firstOut = 0
    /\ out = << >>

-----------------------------------------------------------------------------
(* The stateless filters, cheapest first.                                   *)

evalMeta(m) ==
    IF m.seq < o.first \/ m.seq > o.lastSeq THEN "sequence"
    ELSE IF m.kind.ts < o.after \/ m.kind.ts >= o.before THEN "time"
    ELSE IF m.kind.subject \in o.exclude \/ (o.subjects # Any /\ m.kind.subject \notin o.subjects) THEN "subject"
    ELSE "keep"

evalHeaders(h) ==
    IF h \in o.noHeader \/ (o.header # Any /\ h \notin o.header) THEN "header" ELSE "keep"

evalPayload(p) ==
    IF p \in o.noPayload \/ (o.payload # Any /\ p \notin o.payload) THEN "payload" ELSE "keep"

evaluate(m) ==
    IF evalMeta(m) # "keep" THEN evalMeta(m)
    ELSE IF evalHeaders(m.kind.hdr) # "keep" THEN evalHeaders(m.kind.hdr)
    ELSE evalPayload(m.kind.payload)

-----------------------------------------------------------------------------
(* The per-subject state: a slot with the newest revision under KVCompact,  *)
(* a ring of o.last entries otherwise.                                      *)

ringEntry(m) == [seq |-> m.seq, size |-> m.kind.size, tomb |-> m.kind.hdr = "tomb"]

Observe(m) ==
    LET r == perSubj[m.kind.subject]
        e == ringEntry(m)
    IN  CASE o.kvCompact -> [r EXCEPT !.entries = <<e>>]
          [] ~o.kvCompact /\ Len(r.entries) < o.last -> [r EXCEPT !.entries = Append(@, e)]
          [] OTHER -> [entries |-> [r.entries EXCEPT ![r.next] = e], next |-> (r.next % o.last) + 1]

Keeps(s, seq) ==
    \E e \in Range(perSubj[s].entries) : e.seq = seq /\ ~(o.kvCompact /\ e.tomb)

totalSize(entries) == MapThenSumSet(LAMBDA e : e.size, entries)

Resolve ==
    LET kept == {e \in UNION {Range(perSubj[s].entries) : s \in Subjects} : ~(o.kvCompact /\ e.tomb)}
    IN  [msgs  |-> Cardinality(kept),
         bytes |-> totalSize(kept),
         first |-> IF kept = {} THEN 0 ELSE Min({e.seq : e \in kept})]

-----------------------------------------------------------------------------
(* Reading, filtering and writing.                                          *)

unread == pos < Len(src)
msg    == src[pos + 1]

\* state.json and the consumers, which a renumbered backup cannot keep.
readHead ==
    /\ pc = "head"
    /\ report' = [report EXCEPT !.consumers = IF o.renumber THEN 0 ELSE srcState.consumers]
    /\ pc' = "pass"
    /\ UNCHANGED <<o, src, modified, srcState, pos, observed, perSubj, res, bytes, firstOut, out>>

\* Mutant: the kept count is taken before it is incremented.
outSeqFromZero(m, n) == IF o.renumber THEN n - 1 ELSE m.seq

\* The sequence of the n-th message written, m.
outSeq(m, n) == IF o.renumber THEN n ELSE m.seq

\* A hashed subject differs in length from the one it replaces.
outSize(m) == IF o.obfuscate THEN m.kind.size + 1 ELSE m.kind.size

writeMessage(m, rep) ==
    LET n == rep.kept + 1
    IN  /\ report' = [rep EXCEPT !.kept = n]
        /\ firstOut' = IF n = 1 THEN outSeq(m, n) ELSE firstOut
        /\ bytes' = bytes + outSize(m)
        /\ out' = IF encodes
                  THEN Append(out, [subject |-> m.kind.subject, seq |-> outSeq(m, n), from |-> m.seq,
                                    size |-> outSize(m)])
                  ELSE out

\* One message of the only pass, or of the first: it is dropped by a filter, or
\* it passes and is written or observed.
filterMessage ==
    /\ pc = "pass"
    /\ unread
    /\ pos' = pos + 1
    /\ observed' = Append(observed, msg)
    /\ LET kind == evaluate(msg)
           seen == [report EXCEPT !.source = @ + 1]
       IN  \/ /\ kind # "keep"
              /\ report' = [seen EXCEPT !.dropped[kind] = @ + 1]
              /\ UNCHANGED <<perSubj, bytes, firstOut, out>>
           \/ /\ kind = "keep"
              /\ ~perSubject
              /\ writeMessage(msg, seen)
              /\ UNCHANGED perSubj
           \/ /\ kind = "keep"
              /\ perSubject
              /\ report' = seen
              /\ perSubj' = [perSubj EXCEPT ![msg.kind.subject] = Observe(msg)]
              /\ UNCHANGED <<bytes, firstOut, out>>
    /\ UNCHANGED <<o, src, modified, srcState, pc, res>>

allDropped(d) == d["sequence"] + d["time"] + d["subject"] + d["header"] + d["payload"] + d["perSubject"]
passed == report.source - allDropped(report.dropped)

\* The sentinel of the only or first pass.  A plain dry run takes its totals from Resolve.
endPass ==
    /\ pc = "pass"
    /\ ~unread
    /\ \/ /\ ~perSubject
          /\ pc' = "done"
          /\ UNCHANGED <<report, res, bytes, firstOut>>
       \/ /\ perSubject
          /\ res' = Resolve
          /\ LET rep == [report EXCEPT !.dropped["perSubject"] = passed - Resolve.msgs]
             IN  \/ /\ TwoPass
                    /\ report' = rep
                    /\ pc' = "rewind"
                    /\ UNCHANGED <<bytes, firstOut>>
                 \/ /\ ~TwoPass
                    /\ report' = [rep EXCEPT !.kept = Resolve.msgs]
                    /\ bytes' = Resolve.bytes
                    /\ firstOut' = Resolve.first
                    /\ pc' = "done"
    /\ UNCHANGED <<o, src, modified, srcState, pos, observed, perSubj, out>>

\* The file is refused when its size or time is not what it was when it was opened.
rewind ==
    /\ pc = "rewind"
    /\ pc' = IF modified THEN "failed" ELSE "copy"
    /\ pos' = 0
    /\ UNCHANGED <<o, src, modified, srcState, observed, report, perSubj, res, bytes, firstOut, out>>

\* One message of the second pass: no filter runs again.
copyMessage ==
    /\ pc = "copy"
    /\ unread
    /\ pos' = pos + 1
    /\ \/ /\ Keeps(msg.kind.subject, msg.seq)
          /\ writeMessage(msg, report)
       \/ /\ ~Keeps(msg.kind.subject, msg.seq)
          /\ UNCHANGED <<report, bytes, firstOut, out>>
    /\ UNCHANGED <<o, src, modified, srcState, pc, observed, perSubj, res>>

\* Mutant: what was copied is not compared with what was resolved.
endCopyUnchecked ==
    /\ pc = "copy"
    /\ ~unread
    /\ pc' = "done"
    /\ UNCHANGED <<o, src, modified, srcState, pos, observed, report, perSubj, res, bytes, firstOut, out>>

\* The second pass must have copied what the first resolved.
endCopy ==
    /\ pc = "copy"
    /\ ~unread
    /\ pc' = IF report.kept # res.msgs \/ (~o.obfuscate /\ bytes # res.bytes) THEN "failed" ELSE "done"
    /\ UNCHANGED <<o, src, modified, srcState, pos, observed, report, perSubj, res, bytes, firstOut, out>>

\* A cancelled context, an archive that does not decode, a failed write.
Fails ==
    /\ pc \in {"head", "pass", "rewind", "copy"}
    /\ pc' = "failed"
    /\ UNCHANGED <<o, src, modified, srcState, pos, observed, report, perSubj, res, bytes, firstOut, out>>

\* Another process modifies one message in place, once.
ModifySource ==
    /\ pc \notin {"done", "failed"}
    /\ ~modified
    /\ modified' = TRUE
    /\ \E i \in DOMAIN src, k \in Kinds :
          /\ k # src[i].kind
          /\ src' = [src EXCEPT ![i].kind = k]
    /\ UNCHANGED <<o, srcState, pc, pos, observed, report, perSubj, res, bytes, firstOut, out>>

Returned == pc \in {"done", "failed"} /\ UNCHANGED vars

Next == \/ readHead \/ filterMessage \/ endPass \/ rewind \/ copyMessage \/ endCopy
        \/ Fails \/ ModifySource \/ Returned

Spec == Init /\ [][Next]_vars

-----------------------------------------------------------------------------
(* What the edit writes and reports.                                        *)

srcLastSeq == IF srcState.last > srcState.metaLast THEN srcState.last ELSE srcState.metaLast

\* The head run patches in, the consumers, the messages, the sentinel.
OutputArchive ==
    <<StateEntry(IF o.renumber THEN 1 ELSE srcState.first, report.consumers, report.kept)>>
      \o [i \in 1 .. report.consumers |-> ConsumerEntry]
      \o [i \in 1 .. Len(out) |-> MessageEntry(out[i].seq)]
      \o <<Sentinel>>

resultRange ==
    CASE o.renumber -> <<1, report.kept>>
      [] ~o.renumber /\ report.kept > 0 -> <<firstOut, srcLastSeq>>
      [] ~o.renumber /\ report.kept = 0 /\ report.source = 0 -> <<srcState.first, srcState.last>>
      [] OTHER -> <<srcLastSeq + 1, srcLastSeq>>

-----------------------------------------------------------------------------
(* Which messages survive, without passes, rings or slots.                  *)

Selected(m) ==
    /\ m.seq \in o.first .. o.lastSeq
    /\ m.kind.ts \in o.after .. o.before - 1
    /\ m.kind.subject \notin o.exclude
    /\ m.kind.hdr \notin o.noHeader
    /\ m.kind.payload \notin o.noPayload
    /\ o.subjects # Any => m.kind.subject \in o.subjects
    /\ o.header # Any => m.kind.hdr \in o.header
    /\ o.payload # Any => m.kind.payload \in o.payload

Survivors ==
    LET pass     == {i \in DOMAIN observed : Selected(observed[i])}
        newer(i) == {j \in pass : j > i /\ observed[j].kind.subject = observed[i].kind.subject}
    IN  CASE o.kvCompact -> {i \in pass : newer(i) = {} /\ observed[i].kind.hdr # "tomb"}
          [] ~o.kvCompact /\ o.last > 0 -> {i \in pass : Cardinality(newer(i)) < o.last}
          [] OTHER -> pass

\* "it re-runs no filters and must copy exactly what the first pass resolved" (backup/edit.go:366):
\* an edit that succeeds wrote the subjects and sequences of the messages that
\* survive its options, in order and each once, even when the source was
\* modified in place behind the check for that.  "DryRun computes the Result without writing
\* anything" (backup/options.go:158): a dry run and a real one report the same totals, those
\* of the messages that survive.
WritesSurvivors ==
    pc = "done" =>
        /\ encodes =>
               /\ Len(out) = Cardinality(Survivors)
               /\ {<<out[i].subject, out[i].from>> : i \in DOMAIN out} =
                     {<<observed[i].kind.subject, observed[i].seq>> : i \in Survivors}
        /\ report.source = Len(observed)
        /\ report.kept = Cardinality(Survivors)
        /\ report.source = report.kept + allDropped(report.dropped)
        /\ ~o.obfuscate => bytes = totalSize({ringEntry(observed[i]) : i \in Survivors})
        /\ Survivors # {} /\ ~o.renumber => resultRange[1] = Min({observed[i].seq : i \in Survivors})

\* "The output appears atomically" once it is one a restore accepts (backup/edit.go:105): the
\* output of an edit that succeeds is restorable, renumbered or not.
OutputIsRestorable ==
    pc = "done" /\ encodes =>
        /\ RestorableAt(OutputArchive, Len(OutputArchive))
        /\ OutputArchive[1].msgs = Len(out)
        /\ \A i \in DOMAIN out : out[i].seq \in resultRange[1] .. resultRange[2]
=============================================================================
