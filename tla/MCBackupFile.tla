---------------------------- MODULE MCBackupFile ----------------------------
(***************************************************************************)
(* The files of a backup, how they are published and how they are read.    *)
(*                                                                         *)
(* Publishing: a capture and two obfuscated edits of one target, the       *)
(* second edit given the key file of the target; or three obfuscated       *)
(* edits, two given it.                                                    *)
(*                                                                         *)
(* Reading: every archive of at most MaxLen entries over a small alphabet: *)
(* heads with first_seq 0, 1 and 2 and with a negative consumer count,     *)
(* good and broken consumers, three sequences, the sentinel and a stray    *)
(* entry.  The parts share no state, so each is explored by itself.        *)
(***************************************************************************)
EXTENDS BackupTarget, BackupDecoder, SequencesExt

CONSTANTS cap, ob1, ob2, ob3, MaxLen

VARIABLE part      \* "publish" or "read"

MCWriters     == {cap, ob1, ob2, ob3}
MCObfuscators == {ob1, ob2, ob3}
MCReusers     == {ob2, ob3}

MCEntries ==
    {StateEntry(1, 0, 0), StateEntry(0, 0, 0), StateEntry(2, 1, 0),
     StateEntry(1, -1, 0), ConsumerEntry, [ConsumerEntry EXCEPT !.ok = FALSE],
     Sentinel, [Sentinel EXCEPT !.zero = FALSE]}
    \cup {MessageEntry(s) : s \in 1 .. MaxSeq}

\* An archive that does not begin with a head is refused at its first entry and
\* the error is sticky, so such an archive has no second one.
MCArchives == {s \in BoundedSeq(MCEntries, MaxLen) : Len(s) > 1 => s[1].name = "state"}

\* Four at once add only states: the capture or the third edit is killed before
\* it did anything.  The edits then find no empty directory at the target, which
\* makes no difference to their key files.
Choosing == pc[cap] # "crashed" /\ pc[ob3] # "crashed"
Publish  == IF Choosing THEN (final = NoDir /\ Crash(cap)) \/ Crash(ob3) ELSE Next

MCInit ==
    /\ Init /\ NewDecoder
    /\ \/ part = "publish" /\ input = << >>
       \/ part = "read" /\ final = NoDir /\ keyFile = NoKey

MCNext ==
    /\ UNCHANGED part
    /\ \/ part = "publish" /\ Publish /\ UNCHANGED decoderVars
       \/ part = "read" /\ DecoderNext /\ UNCHANGED vars

MCSpec == MCInit /\ [][MCNext]_<<vars, decoderVars, part>> /\ \A w \in Writers : WF_vars(Write(w))
=============================================================================
