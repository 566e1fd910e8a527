# jsm.go in TLA+

A verification project for [jsm.go](../src/README.md), the Go library that manages
JetStream: TLA+ modules translated from the code, TLC configurations that check them
on small instances, and TLAPS proofs of the results that hold for every instance.

## 1. The system

jsm.go is a library, so its "processes" are the calls of its users, the goroutines and
callbacks these calls start, the files they share, and the NATS servers they talk to.

| part | state | operations | interacts with |
|---|---|---|---|
| `backup/target.go` output of a backup | staging directory, archive and meta file, target directory | `newTarget`, `archive`, `patch`, `Close`, `writeMeta`, `commit`, `discard` | file system; called by `Edit` and `Recorder.Close` |
| `backup/obfuscate.go` key file | secret and mappings in memory, key file beside the target | `newObfuscator`, `writeKeyFile`, removal after a failed commit | other edits of the same target |
| `backup/decoder.go`, `verify.go` | phase, consumers left, last sequence, sticky error, report | `Next`, `Verify`, `Info` | any archive, written by anyone |
| `backup/recorder.go`, `encoder.go` | counters, sticky error, staged archive | `Write`, `WriteDirect`, `Close`, `Discard` | a subscription that redelivers and reorders |
| `backup/edit.go`, `filter.go`, `subjectstate.go`, `source.go` | options, per subject rings, report, totals | the first pass, `Resolve`, `rewind`, the second pass | the source file, which others may modify |
| `snapshots.go` | meta and data file, contexts, error channel, pipe | `SnapshotToDirectory`, `RestoreSnapshotFromDirectory`, `RestoreSnapshotFromBuffer` | server, subscription callback, tracker goroutine |
| `balancer` | cluster map, entity lists, offsets | `BalanceStreams`, `BalanceConsumers` | ClusterInfo and step down requests; elections |
| `connbalancer` | connections by server, offsets | `Balance` | CONNZ pages, KICK requests |
| `stream_pager.go` | page counter, channel, consumer or sequence | `NextMsg`, `Close` | pull consumer or direct get |
| `manager.go`, `streams.go`, `consumers.go` | cached configuration and state | requests, paged lists, updates | JetStream API |
| `stream_query.go`, `consumer_query.go`, `match.go` | matchers | `QueryStreams`, `QueryConsumers` | stream and consumer info |
| `natscontext` registry, backends, selector | context files, selected and previous file | `Load`, `Save`, `Delete`, `Select`, `Unselect` | other processes on the same files |
| `natscontext/svcbackend` | cached server key | `Load`, `Save`, `Delete`, `List` | a server that rotates its key |
| `monitor` | result of a check | the `Check...` functions | one or two requests each |
| `audit`, `serverdata` | zip archive, manifest, tag index, analysis | gather, read, run checks | all servers of a system |
| `api`, `registry`, `schemas` | types and generated tables | - | - |

What is hard to get right, and to test, in this code:

* **crash and loss of power** between the steps of a commit, of a snapshot, of a change
  of the selected context;
* **several processes on one path**: targets, key files, snapshot directories, context
  files. Nothing in the code takes a lock across processes, only the atomicity of
  rename, link and remove;
* **goroutines and callbacks** of one snapshot that meet on an unbuffered channel, a
  synchronous pipe and two contexts;
* **what the other side does**: redelivered and reordered messages, truncated archives,
  lost answers, elections while leaders are being moved;
* **two passes over one file** that may change in between;
* **answers that come late, twice, badly or not at all**, to requests that wait for one
  server, for a number of servers or for a silence; and lists that are read page by page
  while they change;
* **what is concluded from incomplete data**: artifacts that are missing, broken or
  empty, thresholds that are unset or in the wrong order;
* **edges of numbers**: `first_seq` 0, no consumers, no messages, rounding of the even
  distribution.

The list of hazards with their lines is in `PROJECT.json`.

## 2. Modules

| module | models | checked by |
|---|---|---|
| `AtomicPublish` | abstract: at most one writer publishes, in one step, for ever | refinement target |
| `BackupTarget` | `target.go`, the key file of `obfuscate.go`, the end of `Edit` and of `Recorder.Close` | `MCBackupFile` |
| `BackupArchive` | the entries of an archive, and what makes one restorable | used by the next three |
| `BackupDecoder` | `decoder.go` and the scan of `verify.go` | `MCBackupFile` |
| `BackupFileProofs` | theorems about `BackupTarget` and `BackupDecoder` | TLAPS |
| `BackupRecorder` | `recorder.go` over the encoder | `MCBackupOutput` |
| `BackupEdit` | `edit.go`, `filter.go`, `subjectstate.go`, `source.go` | `MCBackupOutput` |
| `BackupOutputProofs` | theorems about `BackupRecorder` and `BackupEdit` | TLAPS |
| `Snapshot` | `snapshots.go` | `MCSnapshot.cfg`, `MCSnapshotBuffer.cfg` |
| `SnapshotProofs` | theorems about `Snapshot` | TLAPS |
| `Balancer` | `balancer.go` | `MCBalancer` |
| `BalancerProofs` | theorems about `Balancer` | TLAPS |
| `ServiceBackend` | `natscontext/svcbackend/client.go`, with the server of its tests | `MCServiceBackend` |
| `ServiceBackendProofs` | theorems about `ServiceBackend` | TLAPS |
| `ContextSelection` | abstract: what a `Selector` promises | refinement target |
| `ContextRegistry` | `registry.go`, the backends and `backend_selector.go` | `MCContextRegistry`, `MCDeleteUnread.cfg` |
| `ContextRegistryProofs` | theorems about `ContextRegistry` and `ContextSettings` | TLAPS |
| `ContextSettings` | `context.go`, `credentials.go` and the resolvers | `MCContextRegistry` |
| `JetStreamManager` | `manager.go`, the requests of `streams.go` and `consumers.go` | `MCClient` |
| `StreamReader` | `stream_pager.go`, `DirectGet` and `DetectGaps` of `streams.go` | `MCClient`, `MCPagerDirect.cfg`, `MCGapsCapped.cfg` |
| `ClientProofs` | theorems about `JetStreamManager` and `StreamReader` | TLAPS |
| `MonitorChecks` | the checks of `monitor` as operators | used by the next two |
| `MonitorAlarms` | a monitored system that gets worse | `MCAudit` |
| `AuditChecks` | the checks of `audit` as operators | used by the next |
| `AuditVerdicts` | an archive that gets worse and incomplete | `MCAudit` |
| `AuditCollection` | `audit/checks.go`: registering, configuring, skipping, running | `MCAudit` |
| `AuditArchive` | `audit/archive`: tags, paths, pages, manifest, reader | `MCAudit` |
| `AuditSource` | `serverdata/audit_archive.go` and the collection of `serverdata/live.go` | `MCAudit` |
| `ServerRequest` | `serverdata/request.go` | `MCAudit` |
| `AuditGather` | `audit/gather/gather.go` over the three above | `MCAudit` |
| `AuditProofs` | theorems about `AuditGather` and `AuditCollection` | TLAPS |

Operators whose comment begins "Mutant:" or "(A mutated ..." are not part of a
specification: each is a plausible wrong version of the definition that follows it, and
each property is known to fail when its mutant takes that definition's place.

### BackupTarget

Each element of `Writers` is one call of `Edit`, or one `NewRecorder ... Close`, for the
same target directory. `pc[w]` walks through the code: `newObfuscator`, `newTarget`,
`archive`, `WriteEnd` (all entries and the sentinel), `patch` (the head with the totals),
`Close` (flush and sync), `writeMeta`, `syncMeta`, `writeKeyFile`, `commit` with
`removeTarget` and `renameAgain` where the platform will not rename over an empty
directory, `dropKeyFile` and the deferred `discard`. `StepFails` is an error or a
cancelled context anywhere on the way. `Crash` kills one process, `PowerLoss` all of
them, and turns every file that was written and not synced into a torn one. A file is
abstracted to how far it got. Directory entries are taken to be journalled.

The abstract specification maps `published` to the writer whose complete backup is in
place, and `outcome` to what each caller was told; a killed process and an error are
both "error".

### BackupDecoder, BackupRecorder, BackupEdit

An archive is a sequence of entries (`BackupArchive`). `RestorableAt` says what a restore
relies on, without reference to phases or counters, and all three modules are measured
against it: the decoder accepts exactly that, the recorder and the edit produce only
that. Sequences are bounded by `MaxSeq`, the largest unsigned value, so that
`FirstSeq - 1` wraps as it does in Go.

`BackupEdit` keeps the order of the filters, the ring and the slot of the per subject
state, what `Resolve` counts, the early return of a dry run, the rewind with its check
of size and modification time, and the second pass. `Survivors` states, without passes
or rings, which messages the options select.

### Snapshot

The caller's goroutine, the subscription callback, the tracker and the server take
their steps independently; the error channel is unbuffered and the pipe synchronous, so
"send" and "receive" are one step of two goroutines. A killed process leaves its files,
and the next call may be for an older or a newer server, which changes the name of the
data file. The model bounds the number of calls (`MaxCalls`); it may therefore stop,
and its configurations do not check for deadlock. `OperationsReturn` is the
property that would see a goroutine waiting for ever.

### Balancer

`leader` is the cluster, which changes under the balancer's feet (`Election`) and need
not elect the preferred server (`Granted`). `entities`, `offset` and
`balancedDistribution` are the balancer's tables. The order in which Go visits a map is
any order. A step down may fail after it took effect. Lists stay sequences because the
code deletes by index, twice after a failure.

### ServiceBackend

Each element of `Callers` is a goroutine that calls `Load`, `Save`, `Delete` or `List` of
one shared `Client`, again and again. `serverPub`, `closed` and `mu` are the fields of
`Client`; `key[c]` and `first[c]` are the local variables of a call, the key of its attempt
and the one it found stale. Keys are numbered in the order the server creates them and 0
is Go's empty string, so sealing and opening come down to comparing numbers. The
server's handlers follow the server the repository tests its client with; in addition it
may accept the key before the current one, as PROTOCOL.md 9.4 recommends, its storage may
fail, and a request may reach it after the caller's deadline. `Init` includes a client
that `WithServerKey` seeded with the current or with an outdated key. The lock is taken
and released within one step except around the fetch of the key, where the code holds
it across the request.

### ContextRegistry, ContextSettings

Each element of `Caller` is a goroutine that loads, saves, deletes or selects through one
`Registry`. The registry holds no lock, so every backend call and every selector call is
a step; the file selector's swap is three steps under its mutex (`Lock`, `Record`,
`Replace`), any of which may fail, and `Crash` kills the process between any two.
A read of the selection (`readSelection`) may fail too, and then answers that nothing is
selected; the call remembers that it was so (`unread`), and `misread` notes that a `Delete`
removed the selected context for this reason.
`ContextSelection` is the same promise for every selector: a name is recorded before it is
replaced, unless the call could not read it. Two processes, or two selectors made for one directory, each have their own mutex
and are outside this promise.

`ContextSettings` follows one context through loading with options, migration,
validation, embedding, failed and successful saves, while the machine it runs on gains and
loses nsc, files and environment. A reference is its scheme. `Meaning` is what a user
would call the same context: server and kind of credentials. `context` keeps beside the
settings what the properties compare with: the settings as they were loaded, what they
meant then, and whether nsc had been asked for the lookup they hold (`Asked`). It has not
after a raw load, nor when an option set the lookup after the expansion; such a context
means what it would mean once nsc is asked, and one that also gets credentials and no url
gives up the server nsc knows, because migrateNSCLookup then asks nobody. An option that
removes the lookup (`WithNscUrl("")`) leaves nsc's answer in memory only: the save drops
it, and the stored context is one without a lookup.

### JetStreamManager, StreamReader

Goroutines share one manager and one handle; every exported call is an action that starts
with its validation, and its request is served, refused, mangled, lost or timed out while
other clients change the same assets. Configurations are version numbers. Lists are asked
for page by page by offset, as `iterableRequest` does.

`StreamReader` separates what the server has, what is on the wire, what is in the
subscription's channel and what the pager counted. `DirectGet` ends by the end of its
batch, an error status, its timer or the caller's context, in any order.

### ServerRequest, AuditArchive, AuditSource, AuditGather

`ServerRequest` is one `DoReqAsync`: the callback runs under a mutex until the request
is done, by number, silence, deadline or error. `AuditGather` sends one after the other in
the order of `start`: servers, accounts, then the sections; a server without JetStream is not
asked for its JSZ endpoint (`Skip`). `AuditArchive` keeps the zip
file as a sequence of entries, since a later entry of the same name is the one that is
read, and names as sequences of the words the separator splits them into, so that two
pairs of names can give one directory exactly where they can in the code. `AuditSource`
reads an archive endpoint by endpoint and collects accounts from either source.

### MonitorChecks, MonitorAlarms, AuditChecks, AuditVerdicts, AuditCollection

The checks are pure, so each is an operator from readings and options to the levels it
reports, or from the artifacts of all servers to an outcome. `MonitorAlarms` and
`AuditVerdicts` turn them into state machines in which one reading at a time gets worse,
a step of the check fails, or an artifact is lost, broken or empty, and state what no
such step may do to the result; the properties are about all checks together.
`AuditCollection` interleaves a run with registrations, settings and skips by others.

## 3. Runs

| run | what it shows |
|---|---|
| `backup_file` | A capture and two obfuscating edits, one of them given the key file of the target, or three edits, two of them given it, race for one target with errors, kills and losses of power at each of their steps: only complete backups appear, the first one stays, a published backup that its key file does not reveal is explained by an edit that dropped the file or one that replaced it, and every call returns with its staging directory gone. The detailed specification implements `AtomicPublish`. Beside it, every archive of up to five entries over an alphabet with four heads, a negative count among them, broken entries, three sequences and the sentinel: the verdict is right in both directions and the report names exactly what was decoded. |
| `backup_output` | Every sequence of up to four deliveries, in order, repeated or reordered, for a stream and a core capture, with failing writes and calls after `Close`. Beside it, sources of up to four messages of four kinds over two subjects, every filter alone and before each per subject option, renumbered, obfuscated and dry: what is written is what survives, it can be restored, and the totals are those of the survivors. |
| `snapshot` | Three calls in any order with two chunks each, interrupted at every step: a meta file means a complete snapshot, what a call reports is true, a restore uploads all of it and every call returns. |
| `snapshot_buffer` | *Violation.* With a reader that returns data together with `io.EOF`, as `io.Reader` allows, the last chunk is not uploaded (`snapshots.go:719`). |
| `balancer` | Four leaders on three servers with different peer groups, the code's five runs, one leader change nobody asked for, requests and answers that are lost. |
| `context_service` | Two goroutines on one client, with a seeded, an outdated or no key, one rotation after that, lost and late messages and `Close` at any time: a rotation stays hidden, no key is fetched twice, success means stored, and every call returns. |
| `context_registry` | Two goroutines and two contexts on each kind of backend, with reads and writes that fail and kills: a selection of a deleted context is explained, the selector implements `ContextSelection`, every call returns. Beside it, one context edited and saved twice on changing machines keeps its meaning. |
| `delete_unread` | *Violation.* A delete that cannot read the selection removes the active context, reports success and leaves it selected, with no other call (`backend_selector.go:89`). |
| `client` | Two goroutines on one handle, single calls of every other kind, lists of three names with pages of one, a pager, a direct get and a search for gaps: success means done, deviations of a list are explained by changes, cached information is not older than configuration, a pager read to its end returned everything, every call returns. |
| `pager_direct` | *Violation.* In direct mode the pager returns a message that follows a gap once for every sequence of the gap (`stream_pager.go:179`). |
| `gaps_capped` | *Violation.* With more deleted messages than the server lists, the search for gaps ends at the last one listed (`streams.go:1102`). |
| `audit` | An audit gathered from two servers in five worlds, with slow, bad, doubled and lost answers and failing writes: the archive opens and gives every artifact for its tags, both sources agree, a missing replica is explained, results are final, the gathering ends. Beside it: monitoring and audit checks on a system that gets worse, and the collection of checks under concurrent changes. |

A run with several parts (`backup_file`, `backup_output`, `context_registry`, `client`, `audit`) explores each part by
itself, chosen by `part` in the initial state: the parts share no state, so interleaving
them would multiply states and show nothing. When `backup_file` publishes, the first step
kills the capture or the third edit, which leaves three writers at work (`Choosing`); a
killed writer is one the specification has anyway.

Why the bounds are enough: three writers are the least with which one can fail between
the steps of two others, and three edits the least with which a key file can be written,
replaced by a second and again by a third; five archive entries hold a head, a consumer, two messages and
a sentinel, and every shorter or disordered arrangement after a head (anything else ends
the reading at the first entry, and is tried alone); a recorder sees a repetition
and a reordering within four deliveries; four messages on two subjects fill and
overwrite a ring of two; two chunks distinguish the first, the last and a
missing chunk, and three calls allow an interrupted snapshot, a second attempt and a
restore; four leaders on three servers have a fractional distribution and, with
one leaderless entity, an integral one; an outdated seed and one rotation (`MaxKey` 3) are
the two changes of key a failing call needs, two goroutines the least for which one can
drop what the other fetched, and one late request (`MaxLate`) can undo any store. Two
callers are the least for an overlap of Select and Delete, and two saves for a save after a
failed one (`MaxSaves`). Three names on pages of one have a first, a middle and a last page,
and two changes (`MaxChanges`) a deletion and a creation around them; four sequences hold a
gap of two between messages and two pages (`PageSize`) of the pager. Two servers are the
least that share a name, a directory or an account, one fault (`MaxFaults`) may hit any of
their answers or writes, and with `MaxPage` 2 the last page with four digits is passed.
Readings have four levels (`Worst`), so that there is one between and one beyond two thresholds.

Fairness: in `BackupTarget` a process that was not killed keeps taking its own
steps, which is all a scheduler has to give; no step waits for another writer. In
`Snapshot` each goroutine keeps running and a server that has not gone keeps sending;
nothing is assumed of cancellation. In `Balancer` the calling goroutine keeps running;
its requests have timeouts, so each of them is answered or fails. In `ServiceBackend` each
call is strongly fair: a request ends at its deadline at the latest, and a `sync.Mutex`
does not starve a goroutine that waits for it; nothing is assumed of the server.
`ContextRegistry` is strongly fair for the same reason. In `JetStreamManager` a goroutine
that has its answer goes on, and a request without one is ended by its timeout. In
`AuditGather` the program keeps running and time passes; that a server answers is not
assumed.

Deadlock is not checked where a bound on calls lets the model stop (`snapshot`,
`client` and the three violations of them); there the liveness properties are
what would see a goroutine that waits for ever.

What the properties do not see, of hazards they are about (the notes in `PROJECT.json` give
each one's line):

* a source changed in place after the check of its size and time, or in a way the check cannot see;
* a callback goroutine of a snapshot that stays blocked after its caller returned, and the error
  of a last chunk that does not decompress, which the code drops when the context is gone;
* a balancer that gives up fewer leaders than it should, because it lost one or skipped one: only
  the upper bound and each server's share are stated;
* information of a handle that several goroutines write at once, and what a pager returned after
  its status message was lost: the properties except both;
* the units of the credential check, a critical threshold alone, and the panic of the meta check,
  which are as the code has them;
* data attributed to another server of the same name and cluster.

### Where the code and its comments disagree

Four disagreements are runs that expect a violation:

* `snapshot_buffer`: the upload loop tests the error of `Read` before it uses what was read.
* `pager_direct`: the direct pager adds one to the sequence it asked for, not to the one it got.
* `delete_unread`: "The currently selected context cannot be deleted unless it is the only one"
  (`registry.go:262`). `FileSelector.readSelection` answers the empty name for every error of
  `os.ReadFile`, so a `Delete` that cannot read `context.txt` takes the active context for
  inactive, and `SetSelected` replaces what it could not read without recording it.
  `DeleteSparesActive` is violated; `DanglingIsExplained` and `ContextSelection` allow for
  exactly such a read (`misread`, `unread`).
* `gaps_capped`: `DetectGaps` promises to walk what the capped list of deleted messages leaves out
  (`streams.go:1061`). Its loop returns at the last listed one, so the walk is never reached.
  `GapsAreReported` states the promise and is violated; `ReadsAreHonest` states what does hold.

Others were met while modelling and are part of the models as the code has them:

* `backup/obfuscate.go:486` says that a failed edit removes only its own key file. An edit
  that linked a key file removes it after its commit failed, although a second edit given
  this file may have replaced it with its own mappings and published; `KeyRevealsBackup`
  names that case (`MayHaveDropped`). With a third edit there is another: two edits are
  given the file, one publishes, and the other, which will fail to publish, replaces the
  file with its own mappings first (`obfuscate.go:520`, `Replaced`). Two edits do not show
  it; the attempt to prove the property did.
* `backup/obfuscate.go:485`: a kill between the link of the key file and the rename leaves a
  key file that refuses every retry.
* `balancer/balancer.go:35` promises an error after a second failure of a step down; the
  loop is left with the counter reset, and `return 0, err` is not reached.
* `monitor/credentials.go:70` compares seconds until expiry with thresholds in
  nanoseconds; a lone critical threshold makes several checks warn always. The exceptions
  in `AlarmsFollowReadings` list these.
* `audit/metacluster_checks.go:55` dereferences a response without data, which
  `VerdictsFollowArchive` admits as a panic of the check.

## 4. Proofs

`BackupFileProofs`, about `BackupTarget`, for every set of writers, obfuscators and key reusers
(`WritersAssumption` only says that the markers for "nothing there" are no writers or
keys):

* `TypeCorrect`: the types of all variables.
* `FinalComplete`, `StagingIsRemoved`: `FinalIsComplete` is not inductive by itself,
  since it says nothing of the directories that are about to be renamed. The invariant
  adds that the archive is synced from the meta file on, that both files are from
  the key file on, that a published writer is done (and so takes no further step, and
  no loss of power touches synced files), and that no staging directory exists
  before `newTarget`.
* `Refinement`: `Spec` implements `AtomicPublish`. A step of a writer either changes
  neither the published backup nor any outcome, or is the rename of a writer that was
  running onto a target without a backup, or ends that writer with an error.
* `KeyReveals`: `KeyRevealsBackup`. The invariant follows the key file: only an edit that
  was given no key links one, on its way to the commit (`Linked`); one edit at a time has a
  linked file it may still drop, and until then the file is its own or that of an edit
  that replaced it (`OneOwner`); an edit that was given the file finds its own there unless
  it was replaced or dropped (`ReuserKey`).

The same module, about `BackupDecoder`, for every set of archives and every `MaxSeq`:

* `DecoderTypeCorrect`: among others, the countdown of consumers never passes zero.
* `Soundness`, `Completeness` and, from both, `VerdictCorrect`: Verify accepts only and
  refuses only what it should.
  The invariant says for each phase what the entries up to `ordinal` are; in the message
  phase `lastSeq` is the sequence of the last message, or the wrapped predecessor of
  `first_seq` before the first. `FailJustified` shows that a refused or missing entry
  belongs to every restorable reading of the archive.
* `ReportCorrect`: `ReportExact`. In each phase the counters of the report follow from
  `ordinal` and the count in the head (`Counted`), and the first and last sequence are
  those of the first and last message read (`BoundsRead`).

`BackupOutputProofs`, about `BackupRecorder`, for every bound on deliveries and sequences: `RecorderInvariant`,
`PublishedRestorable` and `CaptureExact` (`PublishedIsRestorable`, `Recorded`). The
invariant adds to the types that the staged sequences ascend and the totals describe them
(`Staged`), that a core capture is numbered from one without gaps (`Numbered`), that a
stream capture has written every delivery later than all before it and nothing else
(`Filtered`), and that a committed archive is the staged one, which no longer changes
(`Committed`).

The same module, about `BackupEdit`, for every set of sources, options and heads whose
messages ascend within the range the head gives (`EditAssumption`): `EditInvariant`,
`EditWritesSurvivors` and `EditRestorable` (`WritesSurvivors`, `OutputIsRestorable`). The
invariant counts what the first pass read and dropped (`CountInv`), relates the ring of a
subject to the messages that passed the filters (`SubjectInv`: the slot of age k holds the
message with k newer ones of its subject, and the ring holds as many as there were, up to
its size), and from these says what the second pass writes (`WrittenInv`, `OutInv`), what
the report counts as kept (`ResolvedInv`) and what the sizes add up to (`SizeInv`). That a
sum over the observed messages moves with each of them is an induction over a set of
naturals, proved from the least element such a set has (`NatMin`, `SetInduction`).
`ArchiveAccepted` shows that what is written then meets `Restorable`.

`SnapshotProofs`, for every number of chunks and calls: `SnapshotInvariant`,
`MetaComplete`, `ResultTrue` and `UploadComplete`. The invariant has two large parts: what
the directory holds at each step of a call, earlier calls' files included
(`Directory`), and that the data file holds what the callback has handled, whose context
is cancelled only after all of it, as long as no error has reached the caller (`Flow`).
`UploadComplete` assumes that no reader returns
data together with `io.EOF` (`"withData" \notin EofKinds`): files do not, and the run
`snapshot_buffer` shows that the property fails for readers that do.

`BalancerProofs`, for every cluster, number of runs, failures and elections:
`BalancerInvariant`, `SurplusOnly` and `ShareIsKept` (`GivesUpSurplusOnly`, `ShareKept`).
The lists hold only entities their server was found to lead and nobody has moved, each
once (`Lists`); what a server has given up and what its offset still allows are together
within its surplus (`Surplus`), though a failure deletes two entries of its list; and
without elections of the cluster's own the same holds for the leaders it lost, known to the
balancer or not, since a lost answer ends the visit (`Losses`).

`ServiceBackendProofs`, for every set of callers and every bound on keys and late
requests: `TypeCorrect`, `NoKeyAfterClose`, `FetchesCoalesce`, `RotationHidden` and
`SaveStored`. The invariant orders the keys: the cached key is at most the server's and,
once dropped, less; a caller's keys are at most the one cached last; a key found stale
is less than whatever is cached when the caller comes back for another; an answer that
refutes a key was given when the server had a newer one; and the lock is held exactly by
the caller that fetches, with nothing cached and the client open. A step of one
caller preserves what the invariant says of another because keys only move forward
(`Bystander`, `NextForward`).

`ContextRegistryProofs`, for every set of callers, names and backends:

* `SwapInvariant` and `SelectorKeepsPromise`. The refinement needs more than the two
  files: a call between `Lock` and `Replace` holds the mutex, what it read is still
  selected or could not be read, and once it recorded, `previous` is that selection
  (`Swapping`). The swap that could not read is `unread` in the abstract specification. Steps
  outside the swap change neither the files nor this picture (`Outside`, `OutsideKeepsSwapping`).
* `DanglingExplained`: `DanglingIsExplained`. Unless a Select and a Delete overlapped
  (`Apart`), what a call checked still holds when it acts on it: a context removed without
  clearing the selection is not selected, unless the selection could not be read, and one
  about to be selected exists (`ChecksHold`).
* `SavedMeans`: `SaveKeepsMeaning`, over `SettingsSpec` alone, for every payload, option and
  machine. The settings in memory are made of those that were loaded by embedding and
  migrating, in any order and any number of times (`MadeOf`); while the lookup is unmigrated
  and nsc is there, nsc names the server it named at load (`MeantServer`). One lemma per
  operator says which fields it touches, and the step lemmas only combine these.

`ClientProofs`, about `JetStreamManager`, for every set of goroutines and names:
`ManagerInvariant`, `SuccessDone` and `InfoKeepsUp` (`SuccessMeansDone`, `InfoNotOlder`).
They are about `ManagerSpec`, in which every goroutine may begin every call at any time; the
parts of `MCClient` take a subset of its steps. The invariant gives for each call the course
of its requests (`Course`), the answers it can have (`Answer`), that the asset has not gone
back behind a version it read, nor the handle past it while nobody else stored (`Version`),
and the mark its effect left at the server from the answer on (`Effect`).

* `ListExplained`: `ListIsExplained`, for lists of any length and pages of any size. Between
  two pages (`ListInv`) no name that was there throughout has been passed over, unless a
  smaller one was deleted, and none comes a second time, unless one not greater was created.
  A page is a piece of the sorted names, so this is an argument about positions: the names
  less than one at position i are i - 1 at most (`Placed`), and a deletion or a creation moves
  a name by one at most. That a finite set of names has a sorting at all (`Sorting`) is
  proved, not assumed.

The same module, about `StreamReader`, for every stream and page size: `PagerInvariant`,
`PagerComplete` and `ReadsHonest` (`PagerReturnsAll`, `ReadsAreHonest`). The invariant
follows the two ways to read apart. With a consumer, unless a message was lost, what is
stored and not yet delivered is ahead of what was asked for (`PullInv`); with direct gets,
unless an answer was lost or late, everything that stays below the next sequence was
returned (`DirectInv`); what is on its way carries nothing from the other
(`Apart`) and nothing that was never stored (`Unpublished`). The gaps are a loop over the
listed deletes whose invariant is that the runs found so far cover exactly those read.

`AuditProofs`, about `AuditGather`, for every set of finite worlds and every configuration:
`GatherInvariant`, `ReplicasExplained` and `ResultsFinal` (`MissingReplicaExplained`,
`ResultsAreFinal`). The invariant follows the program through its sections (`Course`): what
is under way answers the request that is being waited for (`NetSound`); unless a fault
happened or time ran out (`Smooth`), every server the filter lets through was discovered
and the tally counts for each account the servers that answered with it (`DiscoveryInv`);
and a request for the streams of an account is answered by every host of the account before
it ends, page by page, unless the count misleads (`countMisleads`: a server without the
account, or one that was not discovered, answers too). From there each stream of a host is
in hand, then filed, and stays so (`InHand`, `Filed`, `Through`). `WorldAssumption` only says
that a world is finite and that its names and lists of streams are sequences.

The same module, about the archive of a gathering: `ArchiveInvariant` and `ArchiveRead`
(`ArchiveReadsBack`), of every gathering, disturbed or not. That a query finds one artifact and
no other does not follow from the writer alone, since names are joined into paths and two
servers may share a directory. The invariant therefore says where every artifact is:

* `Archived`: the tags of what was captured are those the gathering makes (`Artifacts`); the
  manifest lists exactly their files, each artifact in the directory of its tags at the page
  that counts the earlier ones there (`Place`), and the last entry of its file is its data or
  torn; once closed, the archive is that of such a writer with the manifest added.
* `Asked` and `Origins`: the program is at a section it was configured for, and what answers is
  a response of the server asked. They say which tags may come next.
* `Profiled`: a server's profile is captured once. A file without pages
  is written again only for another server of the same name and cluster.
* `TornInv`: an entry that is torn was the last before the log, and spoils at most a profile
  that some server still has to be asked for. Without it the property would have to let any
  torn write lose any artifact.

The lemmas on tags show that a label has one value in them, that the tags of one artifact never
include those of another kind, and that two artifacts in one file are of one kind without
pages. From there `NonPagedReads` and `PagedReads` read the archive back: one file is found
for the tags without pages, and the pages of a directory are visited in their order.
`ConfigurationAssumption` says, as the tags of `archive/tag.go` do, that endpoints of servers
and of accounts have different types, neither of them those of profiles and streams, and that no
profile is named twice, since `Gather` drops repeated names before it starts.
`PageAssumption` says that the last page is a number.

The same module, about `AuditCollection`, for all checks, batches, values and outcomes:
`ReportAccounted` (`ReportAccounts`), over `CollectionSpec` alone. A collection is coherent:
codes are registered once, every registered check has its configuration items under its own
code, and only valid values are set (`Coherent`). Registering a batch is a loop whose every
turn keeps that and leaves the collection as it was when it refuses (`IsLoop`, `Turn`). The
report then has one result for each check, in the order of codes, with an
outcome that its registration, its skips and its handler explain (`Accounted`).

What stays with TLC:

* Liveness under fairness, which is out of the prover's reach: `WritersReturn`,
  `OperationsReturn`, `BalanceReturns`, `CallsReturn`, `GatherEnds`.
* `SourcesAgree`: it compares two ways to collect the same accounts, each a fold of the
  community modules over pages and servers that merges what it finds. The provers have no
  theory of those folds, and an induction over them is one over data.
* `AlarmsFollowReadings` and `VerdictsFollowArchive`: they compare two values of a tree of
  some forty checks, each a fold over readings, for readings that differ in one place. They
  are statements about operators with finitely many kinds of input, which enumeration
  settles and a proof would only repeat case by case.
* That a definition by recursion over data computes what it should for every input, except
  where the induction could be stated of sets of naturals (the sums of `BackupEdit`, the
  loops over gaps, lists and batches).

## 5. What could come next

1. A proof of `SourcesAgree`, on lemmas about the merging of pages; what is filed and read back
   is proved already.
2. The connection balancer over `ServerRequest`, and the matchers of the queries.
3. Two selectors on one directory, with `ContextSelection` weakened to what two mutexes give.

## 6. Not modelled

* Types and generated tables (`api`, `schemas`, `registry`), the conformance tool and the
  schemas of the service backend, progress display, byte layouts and formatting: they hold
  no state and take no decision the properties depend on.
* The connection balancer, one pass without state of its own, and the queries, pure
  filters.
* In modelled parts: header edits and the hashing of an obfuscating edit;
  the configuration options that only set a field of a request; the options an archive
  refuses; texts and performance data of checks.
* Two processes that snapshot into the same directory at once: the code makes no promise
  about it.
