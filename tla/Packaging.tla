------------------------------ MODULE Packaging ------------------------------
(***************************************************************************)
(* A package from source tree to unpacked release: the manifest and its    *)
(* payload (packages manifest.rs), `paperctl check` (check.rs, binary.rs), *)
(* archive::build, and archive::extract of what it built or of an archive  *)
(* made elsewhere, one entry at a time.  A path is the sequence of its     *)
(* components; a size counts blocks, and every entry has one more block of *)
(* header.  Whether the bytes are the ones that were signed is module      *)
(* Distribution's matter, and what happens to the unpacked tree            *)
(* Installer's.                                                            *)
(***************************************************************************)
EXTENDS Integers, Sequences, FiniteSets, FiniteSetsExt, SequencesExt

CONSTANTS
    Sources,      \* source trees: functions from path to node, with their manifest
    Foreign,      \* the entries an archive made elsewhere may hold
    EntryLimit,   \* ArchiveLimits::entries
    FileLimit,    \* ArchiveLimits::file_bytes
    TotalLimit,   \* ArchiveLimits::uncompressed_bytes
    MAX_ENTRYPOINT_BYTES, MAX_ASSET_BYTES, MAX_PACKAGE_BYTES

VARIABLES
    tree,      \* the source directory and its manifest
    checked,   \* what `paperctl check` said of it: "no", "passed", "failed"
    archive,   \* where the archive came from and the entries still to be read
    out,       \* the destination: path to node, and which files are executable
    taken      \* entries, files and blocks read so far, and how extraction ended

kvars == <<tree, checked, archive, out, taken>>

ManifestName == <<"paper.toml">>
Reserved == ".paperclip-x"
File(size) == [kind |-> "file", size |-> size]
Dir == [kind |-> "dir", size |-> 0]
NoManifest == [entrypoint |-> <<>>, assets |-> {}, runnable |-> FALSE, aarch64 |-> FALSE]
Parents(path) == {SubSeq(path, 1, n) : n \in 1..(Len(path) - 1)}
Through(path) == Parents(path) \cup {path}
Has(nodes, path) == path \in DOMAIN nodes

PackagingInit ==
    /\ tree \in Sources
    /\ checked = "no"
    /\ archive = [from |-> "none", entries |-> <<>>]
    /\ out = [nodes |-> <<>>, executable |-> {}]
    /\ taken = [entries |-> 0, files |-> 0, read |-> 0, names |-> {}, ended |-> "no"]

---------------------------------------------------------------------------
(* The manifest: read_package, validate_payload *)

Declared(manifest) == {manifest.entrypoint} \cup manifest.assets

\* No link on the way to a path, at it included.
NoLinks(nodes, path) == \A p \in Through(path) : Has(nodes, p) => nodes[p].kind # "link"

ValidPayload(nodes, manifest) ==
    /\ \A path \in Declared(manifest) : NoLinks(nodes, path) /\ Has(nodes, path)
    /\ nodes[manifest.entrypoint].kind = "file"

Readable == Has(tree.nodes, ManifestName) /\ tree.nodes[ManifestName].kind = "file"

SizeOf(path) == tree.nodes[path].size
TotalBytes == SizeOf(ManifestName) + SizeOf(tree.manifest.entrypoint)
                + MapThenSumSet(SizeOf, tree.manifest.assets)

\* The entrypoint's header says it is an aarch64 program.
RunsOnDevice == tree.manifest.aarch64

\* PackageCheck::run, binary::require_device_entrypoint last.
CheckPasses ==
    /\ Readable /\ tree.manifest.runnable
    /\ ValidPayload(tree.nodes, tree.manifest)
    /\ SizeOf(tree.manifest.entrypoint) <= MAX_ENTRYPOINT_BYTES
    /\ \A asset \in tree.manifest.assets : SizeOf(asset) <= MAX_ASSET_BYTES
    /\ TotalBytes <= MAX_PACKAGE_BYTES
    /\ RunsOnDevice

Check ==
    /\ checked = "no" /\ archive.from = "none"
    /\ checked' = IF CheckPasses THEN "passed" ELSE "failed"
    /\ UNCHANGED <<tree, archive, out, taken>>

---------------------------------------------------------------------------
(* archive::build: the manifest, then every declared file in order *)

Reserving(path) == \E i \in DOMAIN path : path[i] = Reserved

\* append: a declared path that is not a regular file stops the build.
CanAppend(path) == ~Reserving(path) /\ tree.nodes[path].kind = "file"

EntryFor(path) == [path |-> path, kind |-> "file", size |-> SizeOf(path), holds |-> SizeOf(path),
                   declares |-> IF path = ManifestName THEN tree.manifest ELSE NoManifest]

Built == <<EntryFor(ManifestName)>> \o SetToSeq({EntryFor(p) : p \in Declared(tree.manifest)})

Build ==
    /\ archive.from = "none"
    /\ Readable /\ ValidPayload(tree.nodes, tree.manifest)
    /\ \A path \in Declared(tree.manifest) : CanAppend(path)
    /\ archive' = [from |-> "build", entries |-> Built]
    /\ UNCHANGED <<tree, checked, out, taken>>

\* An archive some other program made, whose entries are found one by one.
Receive ==
    /\ archive.from = "none" /\ checked = "no"
    /\ archive' = [archive EXCEPT !.from = "elsewhere"]
    /\ UNCHANGED <<tree, checked, out, taken>>

---------------------------------------------------------------------------
(* archive::extract_tree *)

End(how) == taken' = [taken EXCEPT !.ended = how]

\* A RelativePath has no "..", no root and no empty component.
Lexical(path) == path # <<>> /\ \A i \in DOMAIN path : path[i] \notin {"..", "/", ""}

SafeName(path) == Lexical(path) /\ ~Reserving(path)

\* LimitedReader: what is left before the stream is cut off.
RoomPerEntry(header) == TotalLimit - header

Room(header) == TotalLimit - (taken.read + header)

\* A parent that is missing is made; one that is a file is left, and opening fails.
CanOpen(path) ==
    /\ \A p \in Parents(path) : Has(out.nodes, p) => out.nodes[p].kind = "dir"
    /\ ~Has(out.nodes, path)

WithParents(path) == [p \in DOMAIN out.nodes \cup Parents(path) |-> IF Has(out.nodes, p) THEN out.nodes[p] ELSE Dir]
Put(nodes, path, node) == [p \in DOMAIN nodes \cup {path} |-> IF p = path THEN node ELSE nodes[p]]

\* write_file: as many blocks as the entry holds and the limit leaves are
\* written before a short or an over-long entry is refused.
WriteFile(entry) ==
    LET written == Min({entry.size, entry.holds, Room(1)})
        whole == written = entry.size
    IN IF ~CanOpen(entry.path)
       THEN End("Io") /\ out' = [out EXCEPT !.nodes = WithParents(entry.path)]
       ELSE /\ out' = [out EXCEPT !.nodes = Put(WithParents(entry.path), entry.path,
                                                [kind |-> "file", size |-> written, declares |-> entry.declares])]
            /\ taken' = [taken EXCEPT !.entries = @ + 1, !.read = @ + 1 + written,
                                      !.files = IF whole THEN @ + 1 ELSE @,
                                      !.names = IF whole THEN @ \cup {entry.path} ELSE @,
                                      !.ended = IF whole THEN @ ELSE "Truncated"]

\* create_directory: a name that exists is left as it is, a missing parent is an error.
MakeDirectory(entry) ==
    IF \A p \in Parents(entry.path) : Has(out.nodes, p) /\ out.nodes[p].kind = "dir"
    THEN /\ taken' = [taken EXCEPT !.entries = @ + 1, !.read = @ + 1]
         /\ out' = IF Has(out.nodes, entry.path) THEN out
                   ELSE [out EXCEPT !.nodes = Put(out.nodes, entry.path, Dir)]
    ELSE End("Io") /\ UNCHANGED out

Unpack(entry) ==
    \/ entry.kind = "dir" /\ MakeDirectory(entry)
    \/ entry.kind = "file" /\ entry.size > FileLimit /\ End("FileTooLarge") /\ UNCHANGED out
    \/ entry.kind = "file" /\ entry.size <= FileLimit /\ WriteFile(entry)
    \/ entry.kind = "link" /\ End("ForbiddenEntry") /\ UNCHANGED out

\* One entry: the header, the entry ceiling, its name, then its kind.
ReadEntry(entry) ==
    IF Room(1) < 0 THEN End("Malformed") /\ UNCHANGED out
    ELSE IF taken.entries >= EntryLimit THEN End("TooManyEntries") /\ UNCHANGED out
    ELSE IF ~SafeName(entry.path) THEN End("UnsafePath") /\ UNCHANGED out
    ELSE Unpack(entry)

Extracting == archive.from # "none" /\ taken.ended = "no"

ReadBuilt ==
    /\ Extracting /\ archive.entries # <<>>
    /\ ReadEntry(Head(archive.entries))
    /\ archive' = [archive EXCEPT !.entries = Tail(@)]
    /\ UNCHANGED <<tree, checked>>

ReadForeign(entry) ==
    /\ Extracting /\ archive.from = "elsewhere"
    /\ ReadEntry(entry)
    /\ UNCHANGED <<tree, checked, archive>>

\* archive::extract: the manifest comes from the files on disk, and only then
\* is the payload checked and the entrypoint made executable.
FinishAllows(manifest) == manifest # NoManifest /\ ValidPayload(out.nodes, manifest)

Finish ==
    /\ Extracting /\ archive.entries = <<>>
    /\ LET manifest == IF ManifestName \in taken.names THEN out.nodes[ManifestName].declares ELSE NoManifest
       IN IF FinishAllows(manifest)
          THEN End("Extracted") /\ out' = [out EXCEPT !.executable = {manifest.entrypoint}]
          ELSE End("Payload") /\ UNCHANGED out
    /\ UNCHANGED <<tree, checked, archive>>

PackagingNext ==
    \/ Check \/ Build \/ Receive \/ ReadBuilt \/ Finish
    \/ \E entry \in Foreign : ReadForeign(entry)

PackagingSpec == PackagingInit /\ [][PackagingNext]_kvars

---------------------------------------------------------------------------
(* Properties *)

FilesOn(nodes) == {p \in DOMAIN nodes : nodes[p].kind = "file"}
BytesOut == MapThenSumSet(LAMBDA p : out.nodes[p].size + 1, FilesOn(out.nodes))

\* Whatever an archive lists, in whatever order, nothing is created outside the
\* destination, under a name the store keeps for itself, or as a link
\* (entry_name, reject_reserved and the kinds accepted, archive.rs 186-215,
\* 332-364).
NothingEscapes ==
    \A p \in DOMAIN out.nodes : Lexical(p) /\ ~Reserving(p) /\ out.nodes[p].kind # "link"

\* At every moment of an extraction, a refused one included, no file is larger
\* than its limit and all of them together fit the limit on the whole archive
\* (LimitedReader and write_file, archive.rs 380-412, 537-568).
DiskIsBounded ==
    /\ BytesOut <= TotalLimit
    /\ \A p \in FilesOn(out.nodes) : out.nodes[p].size <= FileLimit

\* An accepted archive left a package that satisfies the manifest on disk, with
\* one executable file, and counted every file it wrote exactly once
\* (extract, archive.rs 235-262).
AcceptedIsWhole ==
    taken.ended = "Extracted" =>
        /\ ValidPayload(out.nodes, out.nodes[ManifestName].declares)
        /\ out.executable \subseteq FilesOn(out.nodes) /\ out.executable # {}
        /\ taken.files = Cardinality(FilesOn(out.nodes))

\* What build makes from a manifest that does not list itself is accepted when
\* it is within the limits, and holds exactly the manifest and the files it
\* declares: "Only files the manifest declares go in" (archive.rs 262-316).
BuiltIsDeclared ==
    archive.from = "build" /\ ManifestName \notin Declared(tree.manifest) =>
        /\ taken.ended \in {"no", "Extracted", "FileTooLarge", "Truncated", "Malformed", "TooManyEntries"}
        /\ taken.ended = "Extracted" =>
              FilesOn(out.nodes) = {ManifestName} \cup Declared(tree.manifest)
===============================================================================
