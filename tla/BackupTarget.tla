---------------------------- MODULE BackupTarget ----------------------------
(***************************************************************************)
(* The output side of package backup: a backup is built in a private       *)
(* staging directory beside its target and renamed into place at the end   *)
(* (backup/target.go).  Edit and Recorder.Close drive it; an obfuscated    *)
(* edit also claims a key file beside the target before it commits         *)
(* (backup/obfuscate.go, writeKeyFile).                                    *)
(*                                                                         *)
(* Every writer is a process of its own working on the SAME target         *)
(* directory, because nothing in the package excludes that, and may stop   *)
(* at any step: an I/O error, a killed process, or a loss of power that    *)
(* also destroys what was written and not synced.  Directory entries are   *)
(* taken to be journalled, so a rename that happened is not undone.        *)
(***************************************************************************)
EXTENDS Naturals, FiniteSets

CONSTANTS
    Writers,        \* calls of Edit or NewRecorder..Close for one target
    Obfuscators,    \* the writers that are Edit(..., Obfuscate())
    KeyReusers,     \* of those, the ones given the target's own key file as
                    \* ObfuscationKeyFile
    NoDir,          \* the target does not exist
    EmptyDir,       \* the target is an empty directory
    NoKey,          \* there is no key file beside the target
    Earlier         \* the secret of a key file an earlier edit left there

VARIABLES
    final,    \* the target directory: NoDir, EmptyDir, or the writer whose
              \* staging directory was renamed onto it
    dir,      \* dir[w]: the files in the directory w created, wherever it is
    staged,   \* staged[w]: w's staging directory exists
    keyFile,  \* the key file beside the target
    key,      \* key[w]: the secret and mappings w holds in memory
    created,  \* created[w]: w linked a new key file
    existed,  \* existed[w]: newTarget found an empty directory
    pc        \* where w is

vars == <<final, dir, staged, keyFile, key, created, existed, pc>>

-----------------------------------------------------------------------------
(* The two files of a backup directory, by how far they got.  A file that  *)
(* was not synced when the power failed is torn.                           *)

ArcStates  == {"none", "open", "ended", "exact", "synced", "torn"}
MetaStates == {"none", "written", "synced", "torn"}
Dir        == [arc : ArcStates, meta : MetaStates]
NoFiles    == [arc |-> "none", meta |-> "none"]

\* A key file holds a secret, named by the writer that drew it (or by the
\* edit that wrote the file before), and the reverse mappings of some of them.
Secrets == Writers \cup {Earlier}
Key     == [secret : Secrets, map : SUBSET Secrets]

ASSUME WritersAssumption ==
    /\ KeyReusers \subseteq Obfuscators
    /\ Obfuscators \subseteq Writers
    /\ NoDir \notin Writers
    /\ EmptyDir \notin Writers
    /\ NoDir # EmptyDir
    /\ NoKey \notin Key

Steps    == {"obfuscator", "target", "archive", "pass", "patch", "close",
             "meta", "metaSync", "keyFile", "rename", "remove", "renameAgain",
             "dropKey", "discard"}
Stopped  == {"done", "failed", "crashed"}
Building == {"archive", "pass", "patch", "close", "meta", "metaSync", "keyFile"}

TypeOK ==
    /\ final \in {NoDir, EmptyDir} \cup Writers
    /\ dir \in [Writers -> Dir]
    /\ staged \in [Writers -> BOOLEAN]
    /\ keyFile \in Key \cup {NoKey}
    /\ key \in [Writers -> Key]
    /\ created \in [Writers -> BOOLEAN]
    /\ existed \in [Writers -> BOOLEAN]
    /\ pc \in [Writers -> Steps \cup Stopped]

Goto(w, step) == pc' = [pc EXCEPT ![w] = step]

Init ==
    /\ final \in {NoDir, EmptyDir}
    /\ dir = [w \in Writers |-> NoFiles]
    /\ staged = [w \in Writers |-> FALSE]
    /\ keyFile \in {NoKey, [secret |-> Earlier, map |-> {Earlier}]}
    /\ key = [w \in Writers |-> [secret |-> w, map |-> {w}]]
    /\ created = [w \in Writers |-> FALSE]
    /\ existed = [w \in Writers |-> FALSE]
    /\ pc = [w \in Writers |-> IF w \in Obfuscators THEN "obfuscator" ELSE "target"]

-----------------------------------------------------------------------------
\* A fresh secret, or the secret and mappings of the key file given.
newObfuscator(w) ==
    /\ pc[w] = "obfuscator"
    /\ \/ /\ w \notin KeyReusers
          /\ Goto(w, "target")
          /\ UNCHANGED key
       \/ /\ w \in KeyReusers
          /\ keyFile # NoKey
          /\ key' = [key EXCEPT ![w] = [secret |-> keyFile.secret,
                                        map    |-> keyFile.map \cup {w}]]
          /\ Goto(w, "target")
       \/ /\ w \in KeyReusers
          /\ keyFile = NoKey
          /\ Goto(w, "failed")
          /\ UNCHANGED key
    /\ UNCHANGED <<final, dir, staged, keyFile, created, existed>>

\* A target that holds anything is refused; an error here leaves nothing.
newTarget(w) ==
    /\ pc[w] = "target"
    /\ \/ /\ final \in {NoDir, EmptyDir}
          /\ existed' = [existed EXCEPT ![w] = (final = EmptyDir)]
          /\ staged' = [staged EXCEPT ![w] = TRUE]
          /\ Goto(w, "archive")
       \/ /\ Goto(w, "failed")
          /\ UNCHANGED <<existed, staged>>
    /\ UNCHANGED <<final, dir, keyFile, key, created>>

archive(w) ==
    /\ pc[w] = "archive"
    /\ dir' = [dir EXCEPT ![w].arc = "open"]
    /\ Goto(w, "pass")
    /\ UNCHANGED <<final, staged, keyFile, key, created, existed>>

\* The passes of an edit, or the writes of a capture, up to the sentinel and
\* the close of the compressed stream.
WriteEnd(w) ==
    /\ pc[w] = "pass"
    /\ dir' = [dir EXCEPT ![w].arc = "ended"]
    /\ Goto(w, "patch")
    /\ UNCHANGED <<final, staged, keyFile, key, created, existed>>

\* The reserved state.json head is overwritten with the totals.
patch(w) ==
    /\ pc[w] = "patch"
    /\ dir' = [dir EXCEPT ![w].arc = "exact"]
    /\ Goto(w, "close")
    /\ UNCHANGED <<final, staged, keyFile, key, created, existed>>

Close(w) ==
    /\ pc[w] = "close"
    /\ dir' = [dir EXCEPT ![w].arc = "synced"]
    /\ Goto(w, "meta")
    /\ UNCHANGED <<final, staged, keyFile, key, created, existed>>

writeMeta(w) ==
    /\ pc[w] = "meta"
    /\ dir' = [dir EXCEPT ![w].meta = "written"]
    /\ Goto(w, "metaSync")
    /\ UNCHANGED <<final, staged, keyFile, key, created, existed>>

\* Mutant: the meta file is closed without being synced.
closeMeta(w) ==
    /\ pc[w] = "metaSync"
    /\ Goto(w, IF w \in Obfuscators THEN "keyFile" ELSE "rename")
    /\ UNCHANGED <<final, dir, staged, keyFile, key, created, existed>>

syncMeta(w) ==
    /\ pc[w] = "metaSync"
    /\ dir' = [dir EXCEPT ![w].meta = "synced"]
    /\ Goto(w, IF w \in Obfuscators THEN "keyFile" ELSE "rename")
    /\ UNCHANGED <<final, staged, keyFile, key, created, existed>>

\* Mutant: the key file is always renamed into place, taken or not.
overwriteKeyFile(w) ==
    /\ pc[w] = "keyFile"
    /\ keyFile' = key[w]
    /\ created' = [created EXCEPT ![w] = w \notin KeyReusers]
    /\ Goto(w, "rename")
    /\ UNCHANGED <<final, dir, staged, key, existed>>

\* The synced temporary file appears under the key file's name in one step:
\* linked, unless the name is taken, or renamed over the input key file.
writeKeyFile(w) ==
    /\ pc[w] = "keyFile"
    /\ \/ /\ w \in KeyReusers
          /\ keyFile' = key[w]
          /\ Goto(w, "rename")
          /\ UNCHANGED created
       \/ /\ w \notin KeyReusers
          /\ keyFile = NoKey
          /\ keyFile' = key[w]
          /\ created' = [created EXCEPT ![w] = TRUE]
          /\ Goto(w, "rename")
       \/ /\ w \notin KeyReusers
          /\ keyFile # NoKey
          /\ Goto(w, "discard")
          /\ UNCHANGED <<keyFile, created>>
    /\ UNCHANGED <<final, dir, staged, key, existed>>

-----------------------------------------------------------------------------
(* commit: one rename; where the platform will not rename over the empty   *)
(* directory newTarget found, remove that directory and rename again.      *)
(* Whether it does is left open: every rename may also fail.               *)

\* A rename never replaces a directory that holds anything.
CanRename == final \in {NoDir, EmptyDir}

CommitFailed(w) == Goto(w, IF created[w] THEN "dropKey" ELSE "discard")

Renamed(w) ==
    /\ CanRename
    /\ final' = w
    /\ staged' = [staged EXCEPT ![w] = FALSE]
    /\ Goto(w, "done")

\* A failed sync of the staging directory ends the commit as well.
commit(w) ==
    /\ pc[w] = "rename"
    /\ \/ Renamed(w)
       \/ /\ existed[w]
          /\ Goto(w, "remove")
          /\ UNCHANGED <<final, staged>>
       \/ /\ CommitFailed(w)
          /\ UNCHANGED <<final, staged>>
    /\ UNCHANGED <<dir, keyFile, key, created, existed>>

\* Mutant: os.RemoveAll instead of os.Remove.
removeAllTarget(w) ==
    /\ pc[w] = "remove"
    /\ \/ /\ final' = NoDir
          /\ Goto(w, "renameAgain")
       \/ /\ CommitFailed(w)
          /\ UNCHANGED final
    /\ UNCHANGED <<dir, staged, keyFile, key, created, existed>>

\* os.Remove refuses a directory that is not empty.
removeTarget(w) ==
    /\ pc[w] = "remove"
    /\ \/ /\ final = EmptyDir
          /\ final' = NoDir
          /\ Goto(w, "renameAgain")
       \/ /\ CommitFailed(w)
          /\ UNCHANGED final
    /\ UNCHANGED <<dir, staged, keyFile, key, created, existed>>

renameAgain(w) ==
    /\ pc[w] = "renameAgain"
    /\ \/ Renamed(w)
       \/ /\ CommitFailed(w)
          /\ UNCHANGED <<final, staged>>
    /\ UNCHANGED <<dir, keyFile, key, created, existed>>

\* Edit removes the key file it created when its commit failed.
dropKeyFile(w) ==
    /\ pc[w] = "dropKey"
    /\ keyFile' = NoKey
    /\ Goto(w, "discard")
    /\ UNCHANGED <<final, dir, staged, key, created, existed>>

discard(w) ==
    /\ pc[w] = "discard"
    /\ staged' = [staged EXCEPT ![w] = FALSE]
    /\ dir' = [dir EXCEPT ![w] = NoFiles]
    /\ Goto(w, "failed")
    /\ UNCHANGED <<final, keyFile, key, created, existed>>

\* Mutant: an error return without the deferred discard.
StepFailsNoDefer(w) ==
    /\ pc[w] \in Building
    /\ Goto(w, "failed")
    /\ UNCHANGED <<final, dir, staged, keyFile, key, created, existed>>

\* Any error on the way to the commit, a cancelled context included.
StepFails(w) ==
    /\ pc[w] \in Building
    /\ Goto(w, "discard")
    /\ UNCHANGED <<final, dir, staged, keyFile, key, created, existed>>

-----------------------------------------------------------------------------
Crash(w) ==
    /\ pc[w] \in Steps
    /\ Goto(w, "crashed")
    /\ UNCHANGED <<final, dir, staged, keyFile, key, created, existed>>

Torn(d) == [arc  |-> IF d.arc \in {"none", "synced"} THEN d.arc ELSE "torn",
            meta |-> IF d.meta \in {"none", "synced"} THEN d.meta ELSE "torn"]

PowerLoss ==
    /\ \E w \in Writers : pc[w] \in Steps
    /\ pc' = [w \in Writers |-> IF pc[w] \in Steps THEN "crashed" ELSE pc[w]]
    /\ dir' = [w \in Writers |-> Torn(dir[w])]
    /\ UNCHANGED <<final, staged, keyFile, key, created, existed>>

Write(w) == \/ newObfuscator(w) \/ newTarget(w) \/ archive(w) \/ WriteEnd(w)
            \/ patch(w) \/ Close(w) \/ writeMeta(w) \/ syncMeta(w)
            \/ writeKeyFile(w) \/ commit(w) \/ removeTarget(w) \/ renameAgain(w)
            \/ dropKeyFile(w) \/ discard(w) \/ StepFails(w)

Finished == /\ \A w \in Writers : pc[w] \in Stopped
            /\ UNCHANGED vars

Next == \/ \E w \in Writers : Write(w) \/ Crash(w)
        \/ PowerLoss
        \/ Finished

Spec == Init /\ [][Next]_vars

\* A running process keeps taking its own steps.
FairSpec == Spec /\ \A w \in Writers : WF_vars(Write(w))

-----------------------------------------------------------------------------
Complete(d) == d.arc = "synced" /\ d.meta = "synced"

\* "an interrupted writer never leaves a directory that verifies"
\* (backup/target.go:27): whatever stops, and whenever the power fails, a target
\* directory that holds a backup holds all of it: every entry, the sentinel,
\* the exact head and the meta file, all on disk.
FinalIsComplete == final \in Writers => Complete(dir[final])

\* Error paths clean up after themselves: a writer that returned to its
\* caller, with a result or an error, has no staging directory left.
StagingRemoved == \A w \in Writers : pc[w] \in {"done", "failed"} => ~staged[w]

Reveals(k, w) ==
    /\ k # NoKey
    /\ k.secret = key[w].secret
    /\ key[w].map \subseteq k.map

\* The edit w linked a key file and may have dropped whatever was there later.
MayHaveDropped(w) ==
    w \in Obfuscators \ KeyReusers /\ created[w] /\ pc[w] \in {"discard", "failed", "crashed"}

\* The key file is the one of the edit w, which was given it as its own input and
\* has renamed what it read at its start, and its mappings, over it.
Replaced(w) ==
    w \in KeyReusers /\ pc[w] \notin {"obfuscator", "target"} \cup Building /\ keyFile = key[w]

\* "concurrent edits cannot delete each other's mappings" (backup/obfuscate.go:486), so an
\* obfuscated backup can be read back: while the target holds one, the key file beside it
\* has the secret it was hashed with, its mappings and those of the key file it was given.
\* The exceptions are due to edits that were given the target's own key file: another such
\* edit has renamed its own over it (backup/obfuscate.go:520); or the published edit was
\* one, and an edit which had linked the file before failed to commit and dropped it
\* (backup/edit.go:193).
KeyRevealsBackup ==
    final \in Obfuscators =>
        \/ Reveals(keyFile, final)
        \/ \E w \in Writers \ {final} : Replaced(w)
        \/ final \in KeyReusers /\ \E w \in Writers \ {final} : MayHaveDropped(w)

\* Every writer that is not killed returns to its caller, with a result or an error, and its
\* staging directory is gone.
WritersReturn ==
    \A w \in Writers : <>(pc[w] \in Stopped /\ (pc[w] = "crashed" \/ ~staged[w]))

(* The abstract specification: publication is one step and is final.       *)

Published == IF final \in Writers /\ Complete(dir[final]) THEN final ELSE NoDir

Outcome == [w \in Writers |-> CASE pc[w] = "done" -> "ok"
                               [] pc[w] \in {"failed", "crashed"} -> "error"
                               [] OTHER -> "running"]

AP == INSTANCE AtomicPublish WITH None <- NoDir, published <- Published, outcome <- Outcome

\* "The output appears atomically" (backup/edit.go:105): two writers never both succeed, a
\* success is reported only by the writer whose backup is in place, and no step
\* removes or replaces that backup.
ImplementsAtomicPublish == AP!Spec
=============================================================================
