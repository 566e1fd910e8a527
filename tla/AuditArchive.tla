---------------------------- MODULE AuditArchive ----------------------------
(***************************************************************************)
(* The audit archive: a zip file of artifacts, each filed under a path     *)
(* made from its tags and listed with them in a manifest, and the reader   *)
(* that answers queries by tags from it.                                   *)
(*                                                                         *)
(* Tag values are sequences of words, the words of a name being what the   *)
(* separator "__" splits it into, so that joining two names is \o.  A file *)
(* is a directory and a page, page 0 being an artifact without pages.      *)
(* The content of an entry is <<its data>>, or <<>> if the write was torn. *)
(***************************************************************************)
EXTENDS Naturals, Sequences, SequencesExt, FiniteSetsExt

CONSTANTS
    MaxPage,        \* the last page with four digits in its name, 9999 in the code
    BadNames        \* values no path component may have: empty, "..", with a separator

ASSUME PageAssumption == MaxPage \in Nat

NotAnArchive == [manifest |-> <<>>, files |-> <<>>, readable |-> FALSE, warnings |-> {}]

-----------------------------------------------------------------------------
(* Tags and paths.                                                         *)

Tag(label, value) == [name |-> label, value |-> value]
TagSpecial(value) == {Tag("special", <<value>>)}
noCluster == <<"unclustered">>
TagCluster(cluster) == Tag("cluster", IF cluster = <<>> THEN noCluster ELSE cluster)

values(tags, label) == {t.value : t \in {u \in tags : u.name = label}}
has(tags, label) == values(tags, label) # {}
value(tags, label) == CHOOSE v \in values(tags, label) : TRUE

validatePathComponent(v) == v \notin BadNames
isProfile(tags) == Tag("artifact_type", <<"profile">>) \in tags

NamesAFile(tags) ==
    /\ \A t \in tags : validatePathComponent(t.value)
    /\ IF has(tags, "special") THEN Cardinality(tags) = 1
       ELSE /\ \A t, u \in tags : t.name = u.name => t = u
            /\ {"artifact_type", "cluster", "server"} \subseteq {t.name : t \in tags}
            /\ has(tags, "stream") => has(tags, "account")
            /\ isProfile(tags) /\ ~ has(tags, "account") => has(tags, "profile_name")

\* The path without its extension.
createFilenameFromTags(tags) ==
    LET v(label) == value(tags, label)
        replica == v("cluster") \o v("server")
    IN  IF has(tags, "special") THEN << <<"misc">>, v("special") >>
        ELSE IF has(tags, "stream")
        THEN << <<"accounts">>, v("account"), <<"streams">>, v("stream"), <<"replicas">>,
                replica, v("artifact_type") >>
        ELSE IF has(tags, "account")
        THEN << <<"accounts">>, v("account"), <<"servers">>, replica, v("artifact_type") >>
        ELSE IF isProfile(tags)
        THEN << <<"profiles">>, v("cluster"), v("server") \o v("profile_name") >>
        ELSE << <<"clusters">>, v("cluster"), v("server"), v("artifact_type") >>

dirNameFromTags(tags) == createFilenameFromTags(tags)
isNonPagedArtifact(tags) == has(tags, "special") \/ isProfile(tags)
manifestFile == [dir |-> createFilenameFromTags(TagSpecial("manifest")), page |-> 0]

-----------------------------------------------------------------------------
(* The writer: the entries of the zip file in the order they were written, *)
(* the manifest and the page each directory is at.                         *)

NewWriter == [zip |-> <<>>, manifest |-> <<>>, pagedWriters |-> <<>>]

set(f, x, y) == [z \in DOMAIN f \cup {x} |-> IF z = x THEN y ELSE f[z]]

pageIndex(w, dir) == IF dir \in DOMAIN w.pagedWriters THEN w.pagedWriters[dir] ELSE 1

\* Where the artifact goes.
fileFor(w, tags) ==
    LET dir == dirNameFromTags(tags)
    IN  [dir |-> dir, page |-> IF isNonPagedArtifact(tags) THEN 0 ELSE pageIndex(w, dir)]

entry(w, tags, content) == Append(w.zip, [file |-> fileFor(w, tags), content |-> content])

nextPage(w, dir) == set(w.pagedWriters, dir, pageIndex(w, dir) + 1)

AddRaw(w, tags, data) ==
    [zip |-> entry(w, tags, <<data>>),
     manifest |-> set(w.manifest, fileFor(w, tags), tags),
     pagedWriters |-> IF isNonPagedArtifact(tags) THEN w.pagedWriters
                      ELSE nextPage(w, dirNameFromTags(tags))]

\* A write that fails leaves nothing or a torn entry, which is not in the manifest.
AddRawTorn(w, tags) == [w EXCEPT !.zip = entry(w, tags, <<>>)]

\* The manifest is the last artifact, listing all others.
Close(w) == AddRaw(w, TagSpecial("manifest"), w.manifest)

-----------------------------------------------------------------------------
(* The reader.                                                             *)

entries(zip, file) == {i \in DOMAIN zip : zip[i].file = file}

\* (A mutated filesMap: the first entry of a name is the one that is read.)
filesMapFirst(zip) == [f \in {zip[i].file : i \in DOMAIN zip} |-> zip[Min(entries(zip, f))].content]

\* The last entry of a name is the one that is read.
filesMap(zip) == [f \in {zip[i].file : i \in DOMAIN zip} |-> zip[Max(entries(zip, f))].content]

NewReader(zip) ==
    LET files == filesMap(zip)
    IN  IF manifestFile \notin DOMAIN files \/ files[manifestFile] = <<>> THEN NotAnArchive
        ELSE LET manifest == files[manifestFile][1]
             IN  IF ~ DOMAIN manifest \subseteq DOMAIN files THEN NotAnArchive
                 ELSE [manifest |-> manifest, files |-> files, readable |-> TRUE,
                       warnings |-> DOMAIN files \ (DOMAIN manifest \cup {manifestFile})]

intersectFileSets(r, tags) ==
    IF tags = {} THEN {} ELSE {f \in DOMAIN r.manifest : tags \subseteq r.manifest[f]}

\* <<The artifact>>, or <<>> for the error when there is none or are several.
Load(r, tags) ==
    LET found == intersectFileSets(r, tags)
    IN  IF Cardinality(found) = 1 THEN r.files[CHOOSE f \in found : TRUE] ELSE <<>>

\* Only files named like a page of four digits are visited, in the order of
\* their names: by directory, then by page.
ForEachTaggedArtifact(r, tags) ==
    LET pages == {f \in intersectFileSets(r, tags) : f.page \in 1..MaxPage}
        before(f) == {g \in pages : g.dir = f.dir /\ g.page < f.page}
        of(dir) == [i \in 1..Cardinality({f \in pages : f.dir = dir}) |->
                        CHOOSE f \in pages : f.dir = dir /\ Cardinality(before(f)) = i - 1]
        sorted == FlattenSeq([i \in 1..Cardinality({f.dir : f \in pages}) |->
                                  of(SetToSeq({f.dir : f \in pages})[i])])
    IN  [i \in DOMAIN sorted |-> r.files[sorted[i]][1]]

tagValues(r, label) == UNION {values(r.manifest[f], label) : f \in DOMAIN r.manifest}

AccountNames(r) == tagValues(r, "account")
ClusterNames(r) == tagValues(r, "cluster")

with(r, tags, label) ==
    UNION {values(r.manifest[f], label) : f \in intersectFileSets(r, tags)}
ClusterServerNames(r, cluster) == with(r, {Tag("cluster", cluster)}, "server")
AccountStreamNames(r, account) == with(r, {Tag("account", account)}, "stream")
StreamServerNames(r, account, stream) ==
    with(r, {Tag("account", account), Tag("stream", stream)}, "server")

\* The pairs of a cluster and a server, each with its artifacts of a type;
\* where there are none the callback is given the error.
EachClusterServerArtifact(r, type) ==
    UNION {{[cluster |-> c, server |-> s,
             artifacts |-> ForEachTaggedArtifact(r, {Tag("cluster", c), Tag("server", s), type})] :
                s \in ClusterServerNames(r, c)} : c \in ClusterNames(r)}
=============================================================================
