----------------------------- MODULE VectorStore -----------------------------
(***************************************************************************)
(* The vector store on disk and the processes that load it and re-index a  *)
(* directory into it (memory/local_memory.py, core/ingestor.py).           *)
(*                                                                         *)
(* The store is two files, replaced one after the other: the matrix of     *)
(* vectors and the metadata rows, matched by position.  Every command of   *)
(* the CLI is a process that loads both when it starts; `ingest` then      *)
(* walks the directory.  Nothing locks the files.  A process that only     *)
(* queries is one that takes no step after its load.                       *)
(*                                                                         *)
(* A row stands for one chunk of one version of a file: in the matrix it   *)
(* is that chunk's vector, in the metadata that chunk's text.              *)
(***************************************************************************)
EXTENDS Naturals, Sequences, FiniteSets

CONSTANTS
    Procs,        \* processes that may use the store
    NFiles,       \* files of the indexed directory, numbered in walking order
    MaxVersion,   \* bound: versions a file goes through
    MaxChunks,    \* bound: chunks a file is split into
    MaxStarts     \* bound: process starts

ASSUME BoundsAssumption ==
    /\ NFiles \in Nat /\ MaxVersion \in Nat \ {0} /\ MaxChunks \in Nat \ {0} /\ MaxStarts \in Nat

VARIABLES
    file,       \* each file of the directory, as its owner leaves it
    index,      \* embeddings.npy
    meta,       \* metadata.json
    pc,         \* where each process is
    indexSeen,  \* _load: embeddings.npy was there
    matrix,     \* _vector_matrix of each process
    metadata,   \* _metadata of each process
    next,       \* the file the walk of each process is at
    items,      \* the embedded chunks of that file
    indexed,    \* the files its walk has indexed, with the text it read of each
    starts,
    \* What the properties observe; the program does not hold it.
    paired,     \* at its load, each vector of the process was that of its metadata row
    disturbed   \* another process wrote to the store since this one started

disk == <<index, meta>>
vars == <<file, index, meta, pc, indexSeen, matrix, metadata, next, items, indexed, starts,
          paired, disturbed>>

Files == 1..NFiles
Texts == [version : 1..MaxVersion, chunks : 1..MaxChunks]

\* A file with chunks to index, or one the walk passes over: not there, unreadable, empty or
\* too large.
FileStates == [indexable : BOOLEAN, text : Texts]

Rows == [source : Files, text : Texts, chunk : 1..MaxChunks]
\* Mutant: the chunker emits one chunk past the end.
RowsOfPastTheEnd(f, t) == [i \in 1..(t.chunks + 1) |-> [source |-> f, text |-> t, chunk |-> i]]
RowsOf(f, t) == [i \in 1..t.chunks |-> [source |-> f, text |-> t, chunk |-> i]]

StoreFiles == [present : BOOLEAN, rows : Seq(Rows)]
Absent == [present |-> FALSE, rows |-> <<>>]

Running == {"stat_metadata", "read_index", "read_metadata", "ready", "embed", "save_index",
            "save_metadata"}
Stopped == {"down", "refused", "raised", "done"}
\* The process holds a loaded store.
Loaded == {"ready", "embed", "save_index", "save_metadata", "raised", "done"}

-----------------------------------------------------------------------------
(* replace_source *)

Sources(rows) == {rows[i].source : i \in DOMAIN rows}

KeepMask(rows, f) == [i \in DOMAIN rows |-> rows[i].source # f]

\* The elements of s at the positions where the mask is TRUE, in order: s[np.array(mask)].
Kept(mask) == {i \in DOMAIN mask : mask[i]}
Masked(s, mask) ==
    [n \in 1..Cardinality(Kept(mask)) |->
        s[CHOOSE i \in Kept(mask) : Cardinality({j \in Kept(mask) : j <= i}) = n]]

\* Mutants: the mask is taken from the metadata after it was filtered; the vectors are
\* filtered by what they are instead of by their rows.
NewMatrixLateMask(p, f, new) == matrix[p] \o new
NewMatrixOwnMask(p, f, new) == SelectSeq(matrix[p], LAMBDA r : r.source # f) \o new
NewMatrix(p, f, new) == Masked(matrix[p], KeepMask(metadata[p], f)) \o new

\* Mutant: the old rows of the file survive.
NewMetadataAppended(p, f, new) == metadata[p] \o new
NewMetadata(p, f, new) == Masked(metadata[p], KeepMask(metadata[p], f)) \o new

-----------------------------------------------------------------------------
Init ==
    /\ file \in [Files -> {[indexable |-> TRUE, text |-> [version |-> 1, chunks |-> c]] :
                               c \in 1..MaxChunks}]
    /\ index = Absent
    /\ meta = Absent
    /\ pc = [p \in Procs |-> "down"]
    /\ indexSeen = [p \in Procs |-> FALSE]
    /\ matrix = [p \in Procs |-> <<>>]
    /\ metadata = [p \in Procs |-> <<>>]
    /\ next = [p \in Procs |-> 1]
    /\ items = [p \in Procs |-> <<>>]
    /\ indexed = [p \in Procs |-> {}]
    /\ starts = 0
    /\ paired = [p \in Procs |-> TRUE]
    /\ disturbed = [p \in Procs |-> FALSE]

\* The owner of a file edits, empties, removes or restores it.
Edit(f, indexable, chunks) ==
    /\ file[f].text.version < MaxVersion
    /\ file' = [file EXCEPT ![f] =
                  [indexable |-> indexable,
                   text |-> [version |-> file[f].text.version + 1, chunks |-> chunks]]]
    /\ UNCHANGED <<disk, pc, indexSeen, matrix, metadata, next, items, indexed, starts, paired,
                   disturbed>>

-----------------------------------------------------------------------------
(* _load *)

\* What the memory of a process that has died or not started yet holds: nothing.
Forget(p) ==
    /\ matrix' = [matrix EXCEPT ![p] = <<>>]
    /\ metadata' = [metadata EXCEPT ![p] = <<>>]
    /\ next' = [next EXCEPT ![p] = 1]
    /\ items' = [items EXCEPT ![p] = <<>>]
    /\ indexed' = [indexed EXCEPT ![p] = {}]
    /\ paired' = [paired EXCEPT ![p] = TRUE]
    /\ disturbed' = [disturbed EXCEPT ![p] = FALSE]

\* A process starts, and looks for embeddings.npy.
Start(p) ==
    /\ pc[p] \in Stopped
    /\ starts < MaxStarts
    /\ starts' = starts + 1
    /\ indexSeen' = [indexSeen EXCEPT ![p] = index.present]
    /\ pc' = [pc EXCEPT ![p] = "stat_metadata"]
    /\ Forget(p)
    /\ UNCHANGED <<file, disk>>

\* It looks for metadata.json: neither file is an empty store, one of the two is an error.
StatMetadata(p) ==
    /\ pc[p] = "stat_metadata"
    /\ pc' = [pc EXCEPT ![p] =
                IF indexSeen[p] # meta.present THEN "refused"
                ELSE IF meta.present THEN "read_index" ELSE "ready"]
    /\ UNCHANGED <<file, disk, indexSeen, matrix, metadata, next, items, indexed, starts, paired,
                   disturbed>>

ReadIndex(p) ==
    /\ pc[p] = "read_index"
    /\ matrix' = [matrix EXCEPT ![p] = index.rows]
    /\ pc' = [pc EXCEPT ![p] = "read_metadata"]
    /\ UNCHANGED <<file, disk, indexSeen, metadata, next, items, indexed, starts, paired, disturbed>>

\* Mutant: the row counts are not compared.
InSyncUnchecked(vectors, rows) == TRUE
InSync(vectors, rows) == Len(vectors) = Len(rows)

ReadMetadata(p) ==
    /\ pc[p] = "read_metadata"
    /\ metadata' = [metadata EXCEPT ![p] = meta.rows]
    /\ paired' = [paired EXCEPT ![p] = matrix[p] = meta.rows]
    /\ pc' = [pc EXCEPT ![p] = IF InSync(matrix[p], meta.rows) THEN "ready" ELSE "refused"]
    /\ UNCHANGED <<file, disk, indexSeen, matrix, next, items, indexed, starts, disturbed>>

-----------------------------------------------------------------------------
(* _process_file *)

Store == <<matrix, metadata>>

\* A file without chunks to index is skipped, fails, or is not even listed; it keeps the rows
\* it may have in the store.
FilePassedOver(p) ==
    /\ pc[p] = "ready"
    /\ next[p] \in Files
    /\ ~file[next[p]].indexable
    /\ next' = [next EXCEPT ![p] = @ + 1]
    /\ UNCHANGED <<file, disk, pc, indexSeen, Store, items, indexed, starts, paired, disturbed>>

\* The file is read and chunked, and its chunks go to the embedding service.
FileRead(p) ==
    /\ pc[p] = "ready"
    /\ next[p] \in Files
    /\ file[next[p]].indexable
    /\ items' = [items EXCEPT ![p] = RowsOf(next[p], file[next[p]].text)]
    /\ pc' = [pc EXCEPT ![p] = "embed"]
    /\ UNCHANGED <<file, disk, indexSeen, Store, next, indexed, starts, paired, disturbed>>

EmbeddingFails(p) ==
    /\ pc[p] = "embed"
    /\ next' = [next EXCEPT ![p] = @ + 1]
    /\ items' = [items EXCEPT ![p] = <<>>]
    /\ pc' = [pc EXCEPT ![p] = "ready"]
    /\ UNCHANGED <<file, disk, indexSeen, Store, indexed, starts, paired, disturbed>>

\* The vectors arrive, and replace_source puts them in place of the file's rows.
Embedded(p) ==
    /\ pc[p] = "embed"
    /\ matrix' = [matrix EXCEPT ![p] = NewMatrix(p, next[p], items[p])]
    /\ metadata' = [metadata EXCEPT ![p] = NewMetadata(p, next[p], items[p])]
    /\ pc' = [pc EXCEPT ![p] = "save_index"]
    /\ UNCHANGED <<file, disk, indexSeen, next, items, indexed, starts, paired, disturbed>>

\* Mutant: the walk treats the error like any other failure of the file.
AfterInvalidVectorsGoesOn == "ready"
AfterInvalidVectors == "raised"

\* A vector of the wrong dimension, or all zeros: the file's rows are already deleted when
\* replace_source validates, and nothing catches the ValueError.
VectorsInvalid(p) ==
    /\ pc[p] = "embed"
    /\ matrix' = [matrix EXCEPT ![p] = NewMatrix(p, next[p], <<>>)]
    /\ metadata' = [metadata EXCEPT ![p] = NewMetadata(p, next[p], <<>>)]
    /\ pc' = [pc EXCEPT ![p] = AfterInvalidVectors]
    /\ UNCHANGED <<file, disk, indexSeen, next, items, indexed, starts, paired, disturbed>>

-----------------------------------------------------------------------------
(* _save *)

Writes(p) == disturbed' = [q \in Procs |-> disturbed[q] \/ q # p]

\* Both temporary files are written before either replaces its target.
SaveIndex(p) ==
    /\ pc[p] = "save_index"
    /\ index' = [present |-> TRUE, rows |-> matrix[p]]
    /\ pc' = [pc EXCEPT ![p] = "save_metadata"]
    /\ Writes(p)
    /\ UNCHANGED <<file, meta, indexSeen, Store, next, items, indexed, starts, paired>>

\* Mutant: the rows written are those of this file only.
SavedRowsOfFile(p) == items[p]
SavedRows(p) == metadata[p]

SaveMetadata(p) ==
    /\ pc[p] = "save_metadata"
    /\ meta' = [present |-> TRUE, rows |-> SavedRows(p)]
    /\ indexed' = [indexed EXCEPT ![p] = @ \cup {[source |-> next[p], text |-> items[p][1].text]}]
    /\ next' = [next EXCEPT ![p] = @ + 1]
    /\ items' = [items EXCEPT ![p] = <<>>]
    /\ pc' = [pc EXCEPT ![p] = "ready"]
    /\ Writes(p)
    /\ UNCHANGED <<file, index, indexSeen, Store, starts, paired>>

\* The file system refuses a write, before either file is replaced or between the two.
SaveFails(p) ==
    /\ pc[p] \in {"save_index", "save_metadata"}
    /\ pc' = [pc EXCEPT ![p] = "raised"]
    /\ UNCHANGED <<file, disk, indexSeen, Store, next, items, indexed, starts, paired, disturbed>>

WalkEnds(p) ==
    /\ pc[p] = "ready"
    /\ next[p] \notin Files
    /\ pc' = [pc EXCEPT ![p] = "done"]
    /\ UNCHANGED <<file, disk, indexSeen, Store, next, items, indexed, starts, paired, disturbed>>

\* The process dies: what it held in memory is lost, the disk stays as it is.
Crash(p) ==
    /\ pc[p] \in Running
    /\ pc' = [pc EXCEPT ![p] = "down"]
    /\ indexSeen' = [indexSeen EXCEPT ![p] = FALSE]
    /\ Forget(p)
    /\ UNCHANGED <<file, disk, starts>>

-----------------------------------------------------------------------------
Load(p) == Start(p) \/ StatMetadata(p) \/ ReadIndex(p) \/ ReadMetadata(p)

Ingest(p) ==
    \/ FilePassedOver(p)
    \/ FileRead(p)
    \/ EmbeddingFails(p)
    \/ Embedded(p)
    \/ VectorsInvalid(p)
    \/ SaveIndex(p)
    \/ SaveMetadata(p)
    \/ SaveFails(p)
    \/ WalkEnds(p)

Next ==
    \/ \E f \in Files, indexable \in BOOLEAN, chunks \in 1..MaxChunks :
           Edit(f, indexable, chunks)
    \/ \E p \in Procs : Load(p) \/ Ingest(p) \/ Crash(p)

Spec == Init /\ [][Next]_vars

-----------------------------------------------------------------------------
(* Properties *)

TypeOK ==
    /\ file \in [Files -> FileStates]
    /\ index \in StoreFiles
    /\ meta \in StoreFiles
    /\ pc \in [Procs -> Running \cup Stopped]
    /\ indexSeen \in [Procs -> BOOLEAN]
    /\ matrix \in [Procs -> Seq(Rows)]
    /\ metadata \in [Procs -> Seq(Rows)]
    /\ next \in [Procs -> 1..(NFiles + 1)]
    /\ items \in [Procs -> Seq(Rows)]
    /\ indexed \in [Procs -> SUBSET [source : Files, text : Texts]]
    /\ starts \in 0..MaxStarts
    /\ paired \in [Procs -> BOOLEAN]
    /\ disturbed \in [Procs -> BOOLEAN]

\* A process that got past its load has as many vectors as metadata rows: search never
\* indexes past the rows, and the mask fits the matrix (local_memory.py:55, 141-143).
OneVectorPerRow == \A p \in Procs : pc[p] \in Loaded => Len(matrix[p]) = Len(metadata[p])

\* Vectors and rows only ever come apart at a load that met the files of two different
\* saves: no sequence of replacements on a paired store unpairs it.
OnlyALoadUnpairs ==
    \A p \in Procs : pc[p] \in Loaded /\ paired[p] => matrix[p] = metadata[p]

\* Of file f, rows holds all the chunks of text t, in order, and nothing else.
HoldsVersion(rows, f, t) ==
    LET ofFile == {i \in DOMAIN rows : rows[i].source = f}
    IN  /\ \A i \in ofFile : rows[i].text = t
        /\ {rows[i].chunk : i \in ofFile} = 1..t.chunks
        /\ \A i, j \in ofFile : i < j => rows[i].chunk < rows[j].chunk

\* The rows of a file are all the chunks of one version of it, in order: never a mix of two
\* versions or part of one, on disk or in memory, whatever crashed (replace_source).
WholeVersions ==
    \A rows \in {meta.rows} \cup {metadata[p] : p \in {q \in Procs : pc[q] \in Loaded}} :
        \A f \in Sources(rows) : \E t \in Texts : HoldsVersion(rows, f, t)

\* When a walk has ended undisturbed, the disk holds the very text it read of each file it
\* reports as indexed, vectors included if its load was paired.
IndexedIsStored ==
    \A p \in Procs : pc[p] = "done" /\ ~disturbed[p] =>
        \A x \in indexed[p] :
            /\ HoldsVersion(meta.rows, x.source, x.text)
            /\ paired[p] => HoldsVersion(index.rows, x.source, x.text)

\* A walk that indexed every file the store has rows of leaves it paired, even if it loaded
\* it unpaired: re-ingesting repairs a store that was torn and still loads.
ReingestHeals ==
    \A p \in Procs :
        pc[p] = "done" /\ Sources(metadata[p]) = {x.source : x \in indexed[p]} =>
            matrix[p] = metadata[p]

\* A save of an undisturbed process drops no file from the store, whatever failed before it
\* (ingestor.py:114-115, "a failure above never loses old rows").
SavesKeepFiles ==
    [][\A p \in Procs : pc[p] = "save_metadata" /\ pc'[p] = "ready" /\ ~disturbed[p] =>
           Sources(meta.rows) \subseteq Sources(meta'.rows)]_vars
=============================================================================
