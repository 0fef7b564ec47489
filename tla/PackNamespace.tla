--------------------------- MODULE PackNamespace ---------------------------
(***************************************************************************)
(* The paths an export pack may hold (exportpack.py, _validate_entries): a  *)
(* path is a sequence of segments, the pack's own documents are reserved,   *)
(* and two entries must be able to coexist as files of one tree.  Folded is *)
(* what a file system that ignores case and normalizes Unicode makes of a   *)
(* segment.                                                                 *)
(***************************************************************************)
EXTENDS Naturals, Sequences

CONSTANTS Segments, BadSegments, Folded, Reserved, MaxDepth, MaxEntries

\* What paths may be made of.
NamespaceAssumption ==
    /\ BadSegments \subseteq Segments
    /\ Folded \in [Segments -> Segments]
    /\ Reserved \subseteq Segments \ BadSegments
    /\ MaxDepth \in Nat /\ MaxEntries \in Nat

VARIABLES entries,  \* the paths of the request, in order
          verdict

namespaceVars == <<entries, verdict>>

Paths == UNION {[1..n -> Segments] : n \in 1..MaxDepth}

NamespaceInit ==
    /\ entries \in UNION {[1..n -> Paths] : n \in 1..MaxEntries}
    /\ verdict = "pending"

Normal(path) == [i \in DOMAIN path |-> Folded[path[i]]]

ReservedPaths == {<<r>> : r \in Reserved}

Stored == {entries[i] : i \in DOMAIN entries}

Namespace == ReservedPaths \cup Stored

\* _validate_path: one path by its own shape.
BadShape == \E path \in Stored : \E i \in DOMAIN path : path[i] \in BadSegments

\* _validate_reserved_root: equal to a document of the pack, or beneath it.
UnderReserved == \E path \in Stored : path[1] \in Reserved

\* _validate_namespace: two paths with one normal form.
Collides ==
    \/ \E i, j \in DOMAIN entries : i # j /\ Normal(entries[i]) = Normal(entries[j])
    \/ \E i \in DOMAIN entries : \E r \in ReservedPaths : Normal(entries[i]) = Normal(r)

\* Mutant of NeedsDirectory: only the first segment is looked at.
NeedsTopDirectory == \E path \in Namespace : Len(path) > 2 /\ <<path[1]>> \in Namespace

\* _validate_no_directory_prefix: a path that must be a file and a directory.
NeedsDirectory ==
    \E path \in Namespace : \E n \in 1..(Len(path) - 1) : SubSeq(path, 1, n) \in Namespace

Judge ==
    /\ verdict = "pending"
    /\ verdict' = IF BadShape THEN "PATH_SEGMENT"
                  ELSE IF UnderReserved THEN "PATH_RESERVED_ROOT"
                  ELSE IF Collides THEN "PATH_COLLISION"
                  ELSE IF NeedsDirectory THEN "PATH_DIRECTORY_PREFIX"
                  ELSE "accepted"
    /\ UNCHANGED entries

NamespaceNext == Judge

NamespaceSpec == NamespaceInit /\ [][NamespaceNext]_namespaceVars

(***************************************************************************)
(* Properties.                                                              *)
(***************************************************************************)

\* Files and documents in one tree: no two are one file, and none lies below another.
Coexist(files, documents) ==
    /\ \A i, j \in DOMAIN files : i # j => files[i] # files[j]
    /\ \A i, j \in DOMAIN files : \A n \in 1..(Len(files[j]) - 1) : SubSeq(files[j], 1, n) # files[i]
    /\ \A i \in DOMAIN files : SubSeq(files[i], 1, 1) \notin documents

\* The members of an accepted pack can be extracted side by side, and beside the
\* pack's own documents, where file names are compared exactly.
AcceptedEntriesCoexist == verdict = "accepted" => Coexist(entries, ReservedPaths)

\* No two files of an accepted pack, the pack's documents included, become one file
\* on a file system that folds names.
AcceptedFilesStayApart ==
    verdict = "accepted" =>
        /\ \A i, j \in DOMAIN entries : i # j => Normal(entries[i]) # Normal(entries[j])
        /\ \A i \in DOMAIN entries : \A r \in ReservedPaths : Normal(entries[i]) # Normal(r)

\* An accepted pack extracts without loss: no member replaces another or stands
\* where another needs a directory, and no two become one where names fold.
PacksExtract == AcceptedEntriesCoexist /\ AcceptedFilesStayApart

=============================================================================
