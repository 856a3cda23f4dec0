----------------------------- MODULE Distribution -----------------------------
(***************************************************************************)
(* A catalog of one app as static files: the publisher that writes them    *)
(* (packages publish.rs, signing.rs, release.rs) and the device that reads *)
(* them through a cache (catalog.rs).  Each file is replaced atomically,   *)
(* but a document and its detached signature are two files: either side    *)
(* may be stopped between them, and a reader may fetch one before and the  *)
(* other after a publish.  A mirror may serve any index it once served.    *)
(***************************************************************************)
EXTENDS Integers, FiniteSets

CONSTANTS
    Versions,    \* versions, as numbers
    Prereleases, \* the versions newest_stable passes over
    Contents,    \* archives, told apart by their digest
    Keys, Trusted,
    MaxSerial,   \* indexes published
    MaxFaults    \* stops of either side, and fetches from a stale mirror

VARIABLES
    served,  \* the catalog directory
    past,    \* index pairs a mirror may still hold
    pub,     \* the publish command
    cache,   \* the device's copy of the last accepted index
    reader,  \* the reading command on the device
    got,     \* archives handed to the installer
    seen,    \* the indexes shown as fresh
    faults

dvars == <<served, past, pub, cache, reader, got, seen, faults>>

None == [kind |-> "none"]
Idle == [pc |-> "idle"]

ReleaseDoc(version, content) == [kind |-> "release", version |-> version, digest |-> content]
IndexDoc(serial, entries) == [kind |-> "catalog", serial |-> serial, entries |-> entries]

\* SecretKey::sign: the domain is part of what is signed.
Sign(key, doc) == [kind |-> "sig", key |-> key, domain |-> doc.kind, over |-> doc]

\* TrustedKeys::verify: an unknown key, another domain or other bytes.
Verify(keys, domain, doc, sig) ==
    /\ sig.kind = "sig"
    /\ sig.key \in keys
    /\ sig.domain = domain
    /\ sig.over = doc

DistInit ==
    /\ served = [archive |-> [v \in Versions |-> None], release |-> [v \in Versions |-> None],
                 sig |-> [v \in Versions |-> None], index |-> None, indexSig |-> None]
    /\ past = {}
    /\ pub = Idle
    /\ cache = [doc |-> None, sig |-> None]
    /\ reader = Idle
    /\ got = {}
    /\ seen = {}
    /\ faults = 0

PubFrame == UNCHANGED <<past, cache, reader, got, seen, faults>>

---------------------------------------------------------------------------
(* Publisher::publish *)

ReadRelease(keys, v) == Verify(keys, "release", served.release[v], served.sig[v])

\* A version that is already there is read back first; the same bytes only
\* rebuild the index, other bytes are refused.
PublishBegins(v, c, key) ==
    /\ pub = Idle
    /\ \/ /\ served.release[v] = None
          /\ pub' = [pc |-> "archive", version |-> v, content |-> c, key |-> key]
       \/ /\ served.release[v] # None
          /\ ReadRelease({key}, v)
          /\ served.release[v].digest = c
          /\ pub' = [pc |-> "index", version |-> v, content |-> c, key |-> key]
    /\ UNCHANGED served /\ PubFrame

WriteArchive ==
    /\ pub.pc = "archive"
    /\ served' = [served EXCEPT !.archive[pub.version] = [kind |-> "file", content |-> pub.content]]
    /\ pub' = [pub EXCEPT !.pc = "release"]
    /\ PubFrame
WriteRelease ==
    /\ pub.pc = "release"
    /\ served' = [served EXCEPT !.release[pub.version] = ReleaseDoc(pub.version, pub.content)]
    /\ pub' = [pub EXCEPT !.pc = "sig"]
    /\ PubFrame
WriteReleaseSig ==
    /\ pub.pc = "sig"
    /\ served' = [served EXCEPT !.sig[pub.version] =
                    Sign(pub.key, served.release[pub.version])]
    /\ pub' = [pub EXCEPT !.pc = "index"]
    /\ PubFrame

\* rewrite_index.  Nothing readable starts at 1; an index that does not
\* verify stops the publish, as does any descriptor that does not.
Listed == {v \in Versions : served.release[v] # None}
ReadableIndex == served.index # None /\ served.indexSig # None
NextSerial == IF ReadableIndex THEN served.index.serial + 1 ELSE 1
MayRewriteIndex ==
    /\ \A v \in Listed : ReadRelease({pub.key}, v)
    /\ ReadableIndex => Verify({pub.key}, "catalog", served.index, served.indexSig)
RewriteIndex ==
    /\ pub.pc = "index"
    /\ \/ /\ MayRewriteIndex
          /\ NextSerial <= MaxSerial
          /\ served' = [served EXCEPT !.index = IndexDoc(NextSerial, Listed)]
          /\ pub' = [pub EXCEPT !.pc = "indexSig"]
       \/ /\ ~MayRewriteIndex \/ NextSerial > MaxSerial
          /\ pub' = Idle
          /\ UNCHANGED served
    /\ PubFrame
WriteIndexSig ==
    /\ pub.pc = "indexSig"
    /\ LET sig == Sign(pub.key, served.index)
       IN  /\ served' = [served EXCEPT !.indexSig = sig]
           /\ past' = past \union {[doc |-> served.index, sig |-> sig]}
    /\ pub' = Idle
    /\ UNCHANGED <<cache, reader, got, seen, faults>>

Fault == faults < MaxFaults /\ faults' = faults + 1
PublisherStops ==
    /\ pub # Idle
    /\ Fault
    /\ pub' = Idle
    /\ UNCHANGED <<served, past, cache, reader, got, seen>>

PublisherNext ==
    \/ \E v \in Versions, c \in Contents, key \in Keys : PublishBegins(v, c, key)
    \/ WriteArchive \/ WriteRelease \/ WriteReleaseSig
    \/ RewriteIndex \/ WriteIndexSig \/ PublisherStops

---------------------------------------------------------------------------
(* Catalog::view, release and open_archive *)

ReadFrame == UNCHANGED <<served, past, pub, got>>

\* The two fetches of view.
FetchIndex ==
    /\ reader = Idle
    /\ served.index # None
    /\ reader' = [pc |-> "fetchSig", doc |-> served.index, sig |-> None, stale |-> FALSE]
    /\ UNCHANGED <<cache, seen, faults>> /\ ReadFrame
FetchIndexSig ==
    /\ reader.pc = "fetchSig"
    /\ served.indexSig # None
    /\ reader' = [reader EXCEPT !.pc = "accept", !.sig = served.indexSig]
    /\ UNCHANGED <<cache, seen, faults>> /\ ReadFrame
FetchFromMirror ==
    /\ reader = Idle
    /\ Fault
    /\ \E pair \in past :
          reader' = [pc |-> "accept", doc |-> pair.doc, sig |-> pair.sig, stale |-> FALSE]
    /\ UNCHANGED <<cache, seen>> /\ ReadFrame

VerifyIndex(doc, sig) == Verify(Trusted, "catalog", doc, sig)
Cached == cache.doc # None /\ cache.sig # None

AlwaysReplace(doc) == Cached => VerifyIndex(cache.doc, cache.sig)

\* accept: neither an older serial nor the same serial with other contents.
MayReplace(doc) ==
    Cached => /\ VerifyIndex(cache.doc, cache.sig)
              /\ doc.serial >= cache.doc.serial
              /\ (doc.serial = cache.doc.serial => doc = cache.doc)

Accept ==
    /\ reader.pc = "accept"
    /\ reader' = IF VerifyIndex(reader.doc, reader.sig) /\ MayReplace(reader.doc)
                 THEN [reader EXCEPT !.pc = "cacheDoc"] ELSE Idle
    /\ UNCHANGED <<cache, seen, faults>> /\ ReadFrame
CacheDoc ==
    /\ reader.pc = "cacheDoc"
    /\ cache' = [cache EXCEPT !.doc = reader.doc]
    /\ reader' = [reader EXCEPT !.pc = "cacheSig"]
    /\ UNCHANGED <<seen, faults>> /\ ReadFrame
CacheSig ==
    /\ reader.pc = "cacheSig"
    /\ cache' = [cache EXCEPT !.sig = reader.sig]
    /\ reader' = [reader EXCEPT !.pc = "viewed"]
    /\ seen' = seen \union {reader.doc}
    /\ UNCHANGED faults /\ ReadFrame

\* cached_view: the catalog cannot be reached.
CachedView ==
    /\ reader = Idle \/ reader.pc = "fetchSig"
    /\ Fault
    /\ reader' = IF Cached /\ VerifyIndex(cache.doc, cache.sig)
                 THEN [pc |-> "viewed", doc |-> cache.doc, sig |-> cache.sig, stale |-> TRUE]
                 ELSE Idle
    /\ UNCHANGED <<cache, seen>> /\ ReadFrame

\* newest_stable, or exactly the version the command names.
NewestStable(doc) ==
    {v \in doc.entries \ Prereleases : \A w \in doc.entries \ Prereleases : w <= v}
Choose ==
    /\ reader.pc = "viewed"
    /\ \/ \E v \in reader.doc.entries : reader' = [pc |-> "release", version |-> v]
       \/ NewestStable(reader.doc) = {} /\ reader' = Idle
    /\ UNCHANGED <<cache, seen, faults>> /\ ReadFrame

\* release: the descriptor verifies and is the one the index listed.
FetchRelease ==
    /\ reader.pc = "release"
    /\ LET doc == served.release[reader.version]
       IN  reader' = IF /\ doc # None
                        /\ Verify(Trusted, "release", doc, served.sig[reader.version])
                        /\ doc.version = reader.version
                     THEN [pc |-> "archive", version |-> reader.version, digest |-> doc.digest]
                     ELSE Idle
    /\ UNCHANGED <<cache, seen, faults>> /\ ReadFrame
\* open_archive; the installer compares the digest.
FetchArchive ==
    /\ reader.pc = "archive"
    /\ LET file == served.archive[reader.version]
       IN  got' = IF file # None /\ file.content = reader.digest
                  THEN got \union {[version |-> reader.version, content |-> file.content]}
                  ELSE got
    /\ reader' = Idle
    /\ UNCHANGED <<served, past, pub, cache, seen, faults>>

ReaderStops ==
    /\ reader # Idle
    /\ Fault
    /\ reader' = Idle
    /\ UNCHANGED <<cache, seen>> /\ ReadFrame

ReaderNext ==
    \/ FetchIndex \/ FetchIndexSig \/ FetchFromMirror \/ Accept \/ CacheDoc \/ CacheSig
    \/ CachedView \/ Choose \/ FetchRelease \/ FetchArchive \/ ReaderStops

DistNext == PublisherNext \/ ReaderNext

DistSpec == DistInit /\ [][DistNext]_dvars

---------------------------------------------------------------------------
(* Properties *)

\* A version number means one archive: whatever was interrupted and retried,
\* no two readers of a version are handed different bytes.
VersionIsImmutable ==
    \A a, b \in got : a.version = b.version => a.content = b.content

\* An index whose signature verifies lists only versions a reader can have:
\* each descriptor verifies and describes the archive beside it.
ListedIsComplete ==
    (served.indexSig # None /\ served.indexSig.over = served.index) =>
        \A v \in served.index.entries :
            /\ Verify({served.indexSig.key}, "release", served.release[v], served.sig[v])
            /\ served.archive[v].content = served.release[v].digest

\* No index is shown as fresh after a later one was: the cache remembers
\* what was accepted whatever a mirror serves and wherever a reader stopped.
FreshMovesForward ==
    [][\A doc \in seen' \ seen : \A older \in seen : doc.serial > older.serial]_dvars

\* Only archives a trusted key signed for are handed to the installer.
OnlyTrustedContent ==
    \A a \in got : served.sig[a.version].key \in Trusted
===============================================================================
