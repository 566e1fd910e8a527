--------------------------- MODULE MCBackupOutput ---------------------------
(***************************************************************************)
(* What writes a backup.  Captures of up to MaxWrites deliveries, and      *)
(* edits of sources of up to MaxMsgs messages of four kinds over two       *)
(* subjects, with a gap in their sequences: each filter alone and before a *)
(* per-subject option; each per-subject option renumbered, obfuscated and  *)
(* as a dry run.  The parts share no state, so each is explored by itself. *)
(***************************************************************************)
EXTENDS BackupRecorder, BackupEdit

CONSTANTS MaxMsgs, a, b

VARIABLE part      \* "capture" or "edit"

K(s, t, h, p, z) == [subject |-> s, ts |-> t, hdr |-> h, payload |-> p, size |-> z]

MCKinds == {K(a, 1, "none", "x", 1), K(a, 2, "tomb", "y", 1), K(a, 2, "plain", "x", 2),
            K(b, 1, "plain", "y", 1)}

\* Sequences 2, 3, 5, 6, ...
MCSeq(i) == IF i < 3 THEN i + 1 ELSE i + 2

MCSources == UNION {{[i \in 1 .. n |-> [seq |-> MCSeq(i), kind |-> f[i]]] : f \in [1 .. n -> MCKinds]}
                    : n \in 0 .. MaxMsgs}

MCHeads == {[first |-> 2, last |-> 0, metaLast |-> 7, consumers |-> 1]}

Plain == [first |-> 0, lastSeq |-> MaxSeq, after |-> 0, before |-> 3, exclude |-> {}, subjects |-> Any,
          noHeader |-> {}, header |-> Any, noPayload |-> {}, payload |-> Any, last |-> 0,
          kvCompact |-> FALSE, renumber |-> FALSE, obfuscate |-> FALSE, dryRun |-> FALSE]

Filters == {Plain, [Plain EXCEPT !.first = 3, !.lastSeq = 5], [Plain EXCEPT !.after = 2],
            [Plain EXCEPT !.exclude = {a}, !.noPayload = {"y"}],
            [Plain EXCEPT !.subjects = {a}, !.before = 2], [Plain EXCEPT !.header = {"plain", "tomb"}],
            [Plain EXCEPT !.noHeader = {"plain"}, !.payload = {"x"}]}

PerSubject == {Plain, [Plain EXCEPT !.last = 1], [Plain EXCEPT !.last = 2], [Plain EXCEPT !.kvCompact = TRUE]}

Modes == {Plain, [Plain EXCEPT !.renumber = TRUE], [Plain EXCEPT !.dryRun = TRUE],
          [Plain EXCEPT !.obfuscate = TRUE], [Plain EXCEPT !.obfuscate = TRUE, !.dryRun = TRUE]}

MCOptions == {[f EXCEPT !.last = p.last, !.kvCompact = p.kvCompact] : f \in Filters, p \in PerSubject}
             \cup {[m EXCEPT !.last = p.last, !.kvCompact = p.kvCompact] : m \in Modes, p \in PerSubject}

\* Nothing is edited while captures are explored, and nothing captured in an edit.
MCInit ==
    /\ NewRecorder /\ Init
    /\ \/ part = "capture" /\ src = << >> /\ o = Plain
       \/ part = "edit" /\ preserve

MCNext ==
    /\ UNCHANGED part
    /\ \/ part = "capture" /\ RecorderNext /\ UNCHANGED vars
       \/ part = "edit" /\ Next /\ UNCHANGED recorderVars

MCSpec == MCInit /\ [][MCNext]_<<recorderVars, vars, part>>
=============================================================================
