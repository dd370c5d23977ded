--------------------------- MODULE SourceSnapshot ---------------------------
(***************************************************************************)
(* internal/cli/watch.go: sourceSnapshotReader.Read digests the watched    *)
(* files.  The digest of an asset is cached under its size and time for a  *)
(* while; assets beyond the default bounds count by size and time only.    *)
(* Paths are numbers, in the order of the walk.                            *)
(***************************************************************************)
EXTENDS Integers

CONSTANTS Paths, Assets,
          Contents,                            \* records with a size and data
          MaxFiles, MaxFileBytes, MaxTotalBytes,   \* the default asset bounds
          Revalidation,                        \* assetSnapshotRevalidationInterval
          MaxTime, MaxSnapshotEdits                    \* bounds of the model

ASSUME SnapshotAssumption == Assets \subseteq Paths /\ Paths \subseteq Nat \ {0} /\ Revalidation \in Nat

VARIABLES files,     \* the regular watched files: a content and a modification time
          now,
          cache, snapshot,
          written,   \* when each content was last written
          snapshotEdits      \* counter behind the bound
snapshotVars == <<files, now, cache, snapshot, written, snapshotEdits>>

Present == DOMAIN files
Size(p) == files[p].content.size
Empty == [p \in {} |-> 0]

SnapshotInit ==
    /\ files = Empty /\ now = 0
    /\ cache = Empty /\ snapshot = Empty
    /\ written = [p \in Paths |-> 0] /\ snapshotEdits = 0

Edited == snapshotEdits < MaxSnapshotEdits /\ snapshotEdits' = snapshotEdits + 1

\* An editor may keep the modification time.
Write(p, c, time) ==
    /\ files' = [q \in Present \cup {p} |->
                   IF q = p THEN [content |-> c, modified |-> time] ELSE files[q]]
    /\ written' = [written EXCEPT ![p] = now]
    /\ Edited /\ UNCHANGED <<now, cache, snapshot>>

Touch(p) ==
    /\ files' = [files EXCEPT ![p].modified = now]
    /\ Edited /\ UNCHANGED <<now, cache, snapshot, written>>

Delete(p) ==
    /\ files' = [q \in Present \ {p} |-> files[q]]
    /\ Edited /\ UNCHANGED <<now, cache, snapshot, written>>

SnapshotTick == now < MaxTime /\ now' = now + 1 /\ UNCHANGED <<files, cache, snapshot, written, snapshotEdits>>
-----------------------------------------------------------------------------
(* The walk: which assets are too many or too large. *)

Visit(walk, p) ==
    LET over == Size(p) > MaxTotalBytes - walk.bytes
        meta == walk.count + 1 > MaxFiles \/ Size(p) > MaxFileBytes \/ walk.exceeded \/ over
    IN  [count |-> walk.count + 1,
         bytes |-> IF meta THEN walk.bytes ELSE walk.bytes + Size(p),
         exceeded |-> walk.exceeded \/ over,
         meta |-> IF meta THEN walk.meta \cup {p} ELSE walk.meta]

MetadataOnly ==
    LET Walk[p \in Nat] ==
            IF p = 0 THEN [count |-> 0, bytes |-> 0, exceeded |-> FALSE, meta |-> {}]
            ELSE IF p \in Assets \cap Present THEN Visit(Walk[p - 1], p) ELSE Walk[p - 1]
    IN  Walk[CHOOSE p \in Paths : \A q \in Paths : q <= p].meta

MutantCached(p) ==
    /\ p \in Assets \cap DOMAIN cache
    /\ cache[p].size = Size(p) /\ cache[p].modified = files[p].modified
Cached(p) ==
    /\ p \in Assets \cap DOMAIN cache
    /\ cache[p].size = Size(p) /\ cache[p].modified = files[p].modified
    /\ now - cache[p].checked < Revalidation

Metadata(p) == [meta |-> TRUE, of |-> <<Size(p), files[p].modified>>]
Hash(p) == [meta |-> FALSE, of |-> files[p].content]

Entry(p, meta) ==
    IF p \notin meta /\ Cached(p) THEN cache[p]
    ELSE [size |-> Size(p), modified |-> files[p].modified, checked |-> now,
          digest |-> IF p \in meta THEN Metadata(p) ELSE Hash(p)]

ReadFile ==
    LET meta == MetadataOnly
        entry == [p \in Present |-> Entry(p, meta)]
    IN  /\ snapshot' = [p \in Present |-> entry[p].digest]
        /\ cache' = [p \in Present \cap Assets |-> entry[p]]
        /\ UNCHANGED <<files, now, written, snapshotEdits>>

SnapshotNext ==
    \/ \E p \in Paths, c \in Contents :
         \/ Write(p, c, now)
         \/ p \in Present /\ Write(p, c, files[p].modified)
    \/ \E p \in Present : Touch(p) \/ Delete(p)
    \/ SnapshotTick \/ ReadFile

SnapshotSpec == SnapshotInit /\ [][SnapshotNext]_snapshotVars
-----------------------------------------------------------------------------
\* Content is authoritative (watch.go:38-43): what a snapshot says of a file within the
\* bounds is its content, not its time, with two exceptions that last less than the
\* revalidation interval: a write that keeps size and time goes unnoticed, and an asset
\* that is back within the bounds keeps the size and time that were cached for it.
SnapshotIsContent ==
    [][ReadFile => \A p \in Present :
          \/ IF snapshot'[p].meta THEN p \in MetadataOnly ELSE snapshot'[p].of = files[p].content
          \/ p \in Assets /\ now - written[p] < Revalidation
          \/ snapshot'[p].meta /\ p \in Assets \cap DOMAIN cache /\ now - cache[p].checked < Revalidation
      ]_snapshotVars

=============================================================================
