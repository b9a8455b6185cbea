-------------------------- MODULE VectorStoreProofs --------------------------
(***************************************************************************)
(* Proofs about the vector store: however many processes ingest, crash and *)
(* overwrite each other's files, a process that got past its load has one  *)
(* vector per metadata row, and its vectors are those of its rows unless   *)
(* they were not when it loaded them.                                      *)
(***************************************************************************)
EXTENDS VectorStore, FiniteSetTheorems, WellFoundedInduction, TLAPS

\* s is a sequence, whatever its elements are.
IsSequence(s) == s \in Seq({s[i] : i \in DOMAIN s})

\* What the proofs need of the types: no more than that what is loaded, embedded and saved
\* are sequences.
WeakTypes ==
    /\ file \in [Files -> FileStates]
    /\ pc \in [Procs -> Running \cup Stopped]
    /\ matrix = [p \in Procs |-> matrix[p]]
    /\ metadata = [p \in Procs |-> metadata[p]]
    /\ next = [p \in Procs |-> next[p]]
    /\ items = [p \in Procs |-> items[p]]
    /\ paired = [p \in Procs |-> paired[p]]
    /\ IsSequence(meta.rows)
    /\ \A p \in Procs : IsSequence(metadata[p]) /\ IsSequence(items[p])

\* Until it has looked for the files a process holds an empty store.
EmptyBeforeLoad ==
    \A p \in Procs : pc[p] = "stat_metadata" => matrix[p] = <<>> /\ metadata[p] = <<>>

StoreInv == WeakTypes /\ EmptyBeforeLoad /\ OneVectorPerRow /\ OnlyALoadUnpairs

-----------------------------------------------------------------------------
(* Sequences *)

\* A function over 1..k is a sequence of length k, whatever it maps to.
LEMMA FunctionIsSequence ==
    ASSUME NEW k \in Nat, NEW s, s = [i \in 1..k |-> s[i]]
    PROVE  IsSequence(s) /\ Len(s) = k
<1>1. s \in [1..k -> {s[i] : i \in 1..k}]
  OBVIOUS
<1>2. DOMAIN s = 1..k
  OBVIOUS
<1>3. s \in Seq({s[i] : i \in DOMAIN s})
  BY <1>1, <1>2
<1>4. Len(s) = k
  BY <1>2, <1>3
<1> QED BY <1>3, <1>4 DEF IsSequence

LEMMA EmptyIsSequence ==
    ASSUME NEW s, s = <<>>
    PROVE  IsSequence(s)
BY DEF IsSequence

\* Concatenation adds the lengths, whatever the elements are.
LEMMA ConcatIsSequence ==
    ASSUME NEW s, NEW t, IsSequence(s), IsSequence(t)
    PROVE  IsSequence(s \o t) /\ Len(s \o t) = Len(s) + Len(t)
<1> DEFINE S == {s[i] : i \in DOMAIN s} \cup {t[i] : i \in DOMAIN t}
<1>1. s \in Seq(S) /\ t \in Seq(S)
  <2>1. s \in Seq({s[i] : i \in DOMAIN s}) /\ t \in Seq({t[i] : i \in DOMAIN t})
    BY DEF IsSequence
  <2>2. DOMAIN s = 1..Len(s) /\ DOMAIN t = 1..Len(t) /\ Len(s) \in Nat /\ Len(t) \in Nat
    BY <2>1
  <2>3. s \in [1..Len(s) -> S] /\ t \in [1..Len(t) -> S]
    BY <2>1, <2>2
  <2> QED BY <2>2, <2>3
<1> HIDE DEF S
<1>2. s \o t \in Seq(S) /\ Len(s \o t) = Len(s) + Len(t)
  BY <1>1
<1> DEFINE c == s \o t
<1>3. c \in Seq(S)
  BY <1>2
<1> HIDE DEF c
<1>4. c = [i \in 1..Len(c) |-> c[i]] /\ Len(c) \in Nat
  BY <1>3
<1>5. IsSequence(c)
  BY <1>4, FunctionIsSequence
<1> QED BY <1>2, <1>5 DEF c

-----------------------------------------------------------------------------
(* replace_source *)

\* The mask has finitely many positions to keep, as many as the filtered sequence has
\* elements, whichever sequence is filtered.
LEMMA MaskedLength ==
    ASSUME NEW rows, NEW f, NEW s, IsSequence(rows)
    PROVE  /\ Cardinality(Kept(KeepMask(rows, f))) \in Nat
           /\ IsSequence(Masked(s, KeepMask(rows, f)))
           /\ Len(Masked(s, KeepMask(rows, f))) = Cardinality(Kept(KeepMask(rows, f)))
<1> DEFINE kept == Kept(KeepMask(rows, f))
           k == Cardinality(kept)
<1>1. DOMAIN rows = 1..Len(rows) /\ Len(rows) \in Nat
  BY DEF IsSequence
<1>2. IsFiniteSet(1..Len(rows))
  BY <1>1, FS_Interval
<1>3. kept \subseteq 1..Len(rows)
  BY <1>1 DEF Kept, KeepMask
<1>4. IsFiniteSet(kept)
  BY <1>2, <1>3, FS_Subset
<1>5. k \in Nat
  BY <1>4, FS_CardinalityType
<1>6. Masked(s, KeepMask(rows, f)) = [n \in 1..k |-> Masked(s, KeepMask(rows, f))[n]]
  BY DEF Masked
<1>7. /\ IsSequence(Masked(s, KeepMask(rows, f)))
      /\ Len(Masked(s, KeepMask(rows, f))) = k
  <2> DEFINE m == Masked(s, KeepMask(rows, f))
  <2>1. m = [n \in 1..k |-> m[n]]
    BY <1>6
  <2> HIDE DEF m, k
  <2>2. IsSequence(m) /\ Len(m) = k
    BY <1>5, <2>1, FunctionIsSequence
  <2> QED BY <2>2 DEF m
<1> QED BY <1>5, <1>7

\* A replacement keeps one vector per row, and keeps a paired store paired.
LEMMA ReplaceKeepsPairing ==
    ASSUME NEW p \in Procs, NEW f, NEW new, IsSequence(metadata[p]), IsSequence(new)
    PROVE  /\ IsSequence(NewMetadata(p, f, new))
           /\ Len(NewMatrix(p, f, new)) = Len(NewMetadata(p, f, new))
           /\ matrix[p] = metadata[p] => NewMatrix(p, f, new) = NewMetadata(p, f, new)
<1> DEFINE mask == KeepMask(metadata[p], f)
           vectors == Masked(matrix[p], mask)
           rows == Masked(metadata[p], mask)
<1>1. IsSequence(vectors) /\ IsSequence(rows) /\ Len(vectors) = Len(rows)
  BY MaskedLength
<1> HIDE DEF vectors, rows
<1>2. /\ IsSequence(rows \o new)
      /\ Len(vectors \o new) = Len(rows \o new)
  BY <1>1, ConcatIsSequence
<1>3. NewMatrix(p, f, new) = vectors \o new /\ NewMetadata(p, f, new) = rows \o new
  BY DEF NewMatrix, NewMetadata, vectors, rows
<1>4. matrix[p] = metadata[p] => vectors = rows
  BY DEF vectors, rows
<1> QED BY <1>2, <1>3, <1>4

\* The chunks of a file are a sequence.
LEMMA ChunksAreSequence ==
    ASSUME NEW f \in Files, WeakTypes
    PROVE  IsSequence(RowsOf(f, file[f].text))
<1>1. file[f].text \in Texts
  BY DEF WeakTypes, FileStates
<1>2. file[f].text.chunks \in Nat
  BY <1>1, BoundsAssumption DEF Texts
<1> DEFINE r == RowsOf(f, file[f].text)
           k == file[f].text.chunks
<1>3. r = [i \in 1..k |-> r[i]]
  BY DEF RowsOf
<1> HIDE DEF r, k
<1>4. k \in Nat
  BY <1>2 DEF k
<1> QED BY <1>3, <1>4, FunctionIsSequence DEF r
-----------------------------------------------------------------------------
(* The inductive step *)

LEMMA StoreInit == Init => StoreInv
<1> SUFFICES ASSUME Init PROVE StoreInv
  OBVIOUS
<1>1. file \in [Files -> FileStates]
  <2>1. 1 \in 1..MaxVersion
    BY BoundsAssumption
  <2>2. \A c \in 1..MaxChunks :
           [indexable |-> TRUE, text |-> [version |-> 1, chunks |-> c]] \in FileStates
    BY <2>1 DEF FileStates, Texts
  <2> QED BY <2>2 DEF Init
<1>2. IsSequence(meta.rows) /\ \A p \in Procs : IsSequence(metadata[p]) /\ IsSequence(items[p])
  BY EmptyIsSequence DEF Init, Absent
<1>3. WeakTypes
  BY <1>1, <1>2 DEF Init, WeakTypes, Stopped
<1>4. EmptyBeforeLoad
  BY DEF Init, EmptyBeforeLoad
<1>5. OneVectorPerRow /\ OnlyALoadUnpairs
  BY DEF Init, OneVectorPerRow, OnlyALoadUnpairs, Loaded
<1> QED BY <1>3, <1>4, <1>5 DEF StoreInv

\* The owner of a file touches neither the store nor a process.
LEMMA EditStep ==
    ASSUME StoreInv, NEW f \in Files, NEW indexable \in BOOLEAN, NEW chunks \in 1..MaxChunks,
           Edit(f, indexable, chunks)
    PROVE  StoreInv'
<1>1. file' \in [Files -> FileStates]
  <2>1. file[f].text \in Texts
    BY DEF StoreInv, WeakTypes, FileStates
  <2>2. file[f].text.version + 1 \in 1..MaxVersion
    BY <2>1, BoundsAssumption DEF Edit, Texts
  <2>3. [indexable |-> indexable,
         text |-> [version |-> file[f].text.version + 1, chunks |-> chunks]] \in FileStates
    BY <2>2 DEF FileStates, Texts
  <2> QED BY <2>3 DEF Edit, StoreInv, WeakTypes
<1> QED BY <1>1 DEF Edit, disk, StoreInv, WeakTypes, EmptyBeforeLoad, OneVectorPerRow, OnlyALoadUnpairs

LEMMA LoadStep ==
    ASSUME StoreInv, NEW p \in Procs, Load(p)
    PROVE  StoreInv'
<1> USE DEF StoreInv, WeakTypes, EmptyBeforeLoad, OneVectorPerRow, OnlyALoadUnpairs
<1>1. CASE Start(p)
  <2>1. \A q \in Procs : IsSequence(metadata[q])' /\ IsSequence(items[q])'
    BY <1>1, EmptyIsSequence DEF Start, Forget
  <2> QED BY <1>1, <2>1 DEF Start, Forget, disk, Running, Stopped, Loaded
<1>2. CASE StatMetadata(p)
  BY <1>2 DEF StatMetadata, disk, Running, Stopped, Loaded
<1>3. CASE ReadIndex(p)
  BY <1>3 DEF ReadIndex, disk, Running, Stopped, Loaded
<1>4. CASE ReadMetadata(p)
  BY <1>4 DEF ReadMetadata, InSync, disk, Running, Stopped, Loaded
<1> QED BY <1>1, <1>2, <1>3, <1>4 DEF Load

\* The replacement of a file's rows, with or without new ones.
LEMMA ReplaceStep ==
    ASSUME StoreInv, NEW p \in Procs, Embedded(p) \/ VectorsInvalid(p)
    PROVE  StoreInv'
<1> USE DEF StoreInv, WeakTypes, EmptyBeforeLoad, OneVectorPerRow, OnlyALoadUnpairs
<1>1. CASE Embedded(p)
  <2>1. /\ IsSequence(NewMetadata(p, next[p], items[p]))
        /\ Len(NewMatrix(p, next[p], items[p])) = Len(NewMetadata(p, next[p], items[p]))
        /\ matrix[p] = metadata[p] =>
              NewMatrix(p, next[p], items[p]) = NewMetadata(p, next[p], items[p])
    BY ReplaceKeepsPairing
  <2> QED BY <1>1, <2>1 DEF Embedded, disk, Running, Stopped, Loaded
<1>2. CASE VectorsInvalid(p)
  <2>1. /\ IsSequence(NewMetadata(p, next[p], <<>>))
        /\ Len(NewMatrix(p, next[p], <<>>)) = Len(NewMetadata(p, next[p], <<>>))
        /\ matrix[p] = metadata[p] =>
              NewMatrix(p, next[p], <<>>) = NewMetadata(p, next[p], <<>>)
    BY ReplaceKeepsPairing, EmptyIsSequence
  <2> QED BY <1>2, <2>1 DEF VectorsInvalid, AfterInvalidVectors, disk, Running, Stopped, Loaded
<1> QED BY <1>1, <1>2

LEMMA IngestStep ==
    ASSUME StoreInv, NEW p \in Procs, Ingest(p)
    PROVE  StoreInv'
<1> USE DEF StoreInv, WeakTypes, EmptyBeforeLoad, OneVectorPerRow, OnlyALoadUnpairs
<1>1. CASE FilePassedOver(p)
  BY <1>1 DEF FilePassedOver, Store, disk
<1>2. CASE FileRead(p)
  <2>1. IsSequence(RowsOf(next[p], file[next[p]].text))
    BY <1>2, ChunksAreSequence DEF FileRead
  <2> QED BY <1>2, <2>1 DEF FileRead, Store, disk, Running, Stopped, Loaded
<1>3. CASE EmbeddingFails(p)
  <2>1. \A q \in Procs : IsSequence(items[q])'
    BY <1>3, EmptyIsSequence DEF EmbeddingFails
  <2> QED BY <1>3, <2>1 DEF EmbeddingFails, Store, disk, Running, Stopped, Loaded
<1>4. CASE Embedded(p) \/ VectorsInvalid(p)
  BY <1>4, ReplaceStep
<1>5. CASE SaveIndex(p)
  BY <1>5 DEF SaveIndex, Store, Running, Stopped, Loaded
<1>6. CASE SaveMetadata(p)
  <2>1. \A q \in Procs : IsSequence(items[q])'
    BY <1>6, EmptyIsSequence DEF SaveMetadata
  <2> QED BY <1>6, <2>1 DEF SaveMetadata, SavedRows, Store, Running, Stopped, Loaded
<1>7. CASE SaveFails(p)
  BY <1>7 DEF SaveFails, Store, disk, Running, Stopped, Loaded
<1>8. CASE WalkEnds(p)
  BY <1>8 DEF WalkEnds, Store, disk, Running, Stopped, Loaded
<1> QED BY <1>1, <1>2, <1>3, <1>4, <1>5, <1>6, <1>7, <1>8 DEF Ingest

LEMMA CrashStep ==
    ASSUME StoreInv, NEW p \in Procs, Crash(p)
    PROVE  StoreInv'
<1> USE DEF StoreInv, WeakTypes, EmptyBeforeLoad, OneVectorPerRow, OnlyALoadUnpairs
<1>1. \A q \in Procs : IsSequence(metadata[q])' /\ IsSequence(items[q])'
  BY EmptyIsSequence DEF Crash, Forget
<1> QED BY <1>1 DEF Crash, Forget, disk, Running, Stopped, Loaded

LEMMA StoreNext == StoreInv /\ [Next]_vars => StoreInv'
<1> SUFFICES ASSUME StoreInv, [Next]_vars PROVE StoreInv'
  OBVIOUS
<1>1. CASE \E f \in Files, indexable \in BOOLEAN, chunks \in 1..MaxChunks :
              Edit(f, indexable, chunks)
  BY <1>1, EditStep
<1>2. CASE \E p \in Procs : Load(p) \/ Ingest(p) \/ Crash(p)
  BY <1>2, LoadStep, IngestStep, CrashStep
<1>3. CASE UNCHANGED vars
  BY <1>3 DEF vars, disk, StoreInv, WeakTypes, EmptyBeforeLoad, OneVectorPerRow, OnlyALoadUnpairs
<1> QED BY <1>1, <1>2, <1>3 DEF Next

-----------------------------------------------------------------------------
(* Theorems *)

\* A process that got past its load has as many vectors as metadata rows, whatever was
\* replaced, crashed or overwritten before and since: the mask of replace_source always
\* fits the matrix, and search never indexes past the rows (local_memory.py:141-143, 180-190).
THEOREM VectorPerRow == Spec => []OneVectorPerRow
<1>1. Init => StoreInv
  BY StoreInit
<1>2. StoreInv /\ [Next]_vars => StoreInv'
  BY StoreNext
<1>3. StoreInv => OneVectorPerRow
  BY DEF StoreInv
<1> QED BY <1>1, <1>2, <1>3, PTL DEF Spec

\* Replacing a file never unpairs a store that was loaded paired: only a load that met the
\* files of two different saves can give a row the vector of another (local_memory.py:135-161).
THEOREM ReplacingKeepsPairs == Spec => []OnlyALoadUnpairs
<1>1. Init => StoreInv
  BY StoreInit
<1>2. StoreInv /\ [Next]_vars => StoreInv'
  BY StoreNext
<1>3. StoreInv => OnlyALoadUnpairs
  BY DEF StoreInv
<1> QED BY <1>1, <1>2, <1>3, PTL DEF Spec

-----------------------------------------------------------------------------
(* What a mask selects *)

LEMMA LeastOf ==
    ASSUME NEW S, S \subseteq Nat, S # {}
    PROVE  \E m \in S : \A n \in S : m <= n
<1>1. PICK m \in S : \A n \in S : <<n, m>> \notin OpToRel(<, Nat)
  BY NatLessThanWellFounded, WFMin
<1>2. \A n \in S : ~ (n < m)
  BY <1>1 DEF OpToRel
<1>3. m \in Nat /\ \A n \in S : n \in Nat
  OBVIOUS
<1> QED BY <1>2, <1>3

\* A function that starts at 0 and reaches n reaches it at some first point.
LEMMA FirstReaching ==
    ASSUME NEW r \in [Nat -> Nat], r[0] = 0, NEW n \in Nat, n # 0, NEW len \in Nat, r[len] >= n
    PROVE  \E m \in Nat : m # 0 /\ r[m] >= n /\ r[m - 1] < n
<1> DEFINE S == {i \in Nat : r[i] >= n}
<1>1. PICK m \in S : \A i \in S : m <= i
  <2>1. S \subseteq Nat /\ S # {}
    OBVIOUS
  <2> HIDE DEF S
  <2> QED BY <2>1, LeastOf
<1>2. m \in Nat /\ r[m] >= n /\ m # 0
  BY <1>1
<1>3. m - 1 \in Nat /\ ~ (m <= m - 1)
  BY <1>2
<1>4. ~ (r[m - 1] >= n)
  BY <1>1, <1>3
<1>5. r[m - 1] < n
  BY <1>3, <1>4
<1> QED BY <1>2, <1>5

\* In a finite set of positions there is one of each rank.
LEMMA PositionOfRank ==
    ASSUME NEW len \in Nat, NEW K, K \subseteq 1..len, NEW n \in 1..Cardinality(K)
    PROVE  \E i \in K : Cardinality({j \in K : j <= i}) = n
<1> DEFINE upTo(i) == {j \in K : j <= i}
           rank == [i \in Nat |-> Cardinality(upTo(i))]
<1>1. IsFiniteSet(K) /\ Cardinality(K) \in Nat
  <2>1. IsFiniteSet(1..len)
    BY FS_Interval
  <2> QED BY <2>1, FS_Subset, FS_CardinalityType
<1>2. n \in Nat /\ n # 0 /\ n <= Cardinality(K)
  BY <1>1
<1>3. \A i : IsFiniteSet(upTo(i)) /\ Cardinality(upTo(i)) \in Nat
  <2>1. \A i : upTo(i) \subseteq K
    OBVIOUS
  <2> HIDE DEF upTo
  <2> QED BY <1>1, <2>1, FS_Subset, FS_CardinalityType
<1>4. \A j \in K : j \in Nat /\ 1 <= j /\ j <= len
  OBVIOUS
<1>5. upTo(len) = K /\ upTo(0) = {}
  <2>1. \A j \in K : ~ (j <= 0)
    BY <1>4
  <2> QED BY <1>4, <2>1
<1>6. rank \in [Nat -> Nat] /\ rank[0] = 0 /\ rank[len] >= n
  <2> HIDE DEF upTo
  <2>1. rank[len] = Cardinality(K) /\ rank[0] = 0
    BY <1>5, FS_EmptySet
  <2> QED BY <1>1, <1>2, <1>3, <2>1
<1>7. PICK m \in Nat : m # 0 /\ rank[m] >= n /\ rank[m - 1] < n
  <2> HIDE DEF rank
  <2> QED BY <1>2, <1>6, FirstReaching
<1>8. m - 1 \in Nat /\ rank[m] \in Nat /\ rank[m - 1] \in Nat
  <2> HIDE DEF rank
  <2> QED BY <1>6, <1>7
<1>9. m \in K
  <2> SUFFICES ASSUME m \notin K PROVE FALSE
    OBVIOUS
  <2>1. \A j \in K : j <= m <=> j <= m - 1
    BY <1>4, <1>8
  <2>2. upTo(m) = upTo(m - 1)
    BY <2>1
  <2>3. rank[m] = rank[m - 1]
    BY <1>8, <2>2
  <2> HIDE DEF rank
  <2> QED BY <1>2, <1>7, <1>8, <2>3
<1>10. upTo(m) = upTo(m - 1) \cup {m} /\ m \notin upTo(m - 1)
  <2>1. \A j \in K : (j <= m <=> j <= m - 1 \/ j = m) /\ ~ (m <= m - 1)
    BY <1>4, <1>8
  <2> QED BY <1>8, <1>9, <2>1
<1>11. rank[m] = rank[m - 1] + 1
  <2> HIDE DEF upTo
  <2>1. Cardinality(upTo(m)) = Cardinality(upTo(m - 1)) + 1
    BY <1>3, <1>10, FS_AddElement
  <2> QED BY <1>8, <2>1
<1>12. rank[m] = n
  <2> HIDE DEF rank
  <2> QED BY <1>2, <1>7, <1>8, <1>11
<1> QED BY <1>9, <1>12

Position(rows, f, n) ==
    LET kept == Kept(KeepMask(rows, f))
    IN  CHOOSE i \in kept : Cardinality({j \in kept : j <= i}) = n

\* A mask takes from every sequence the elements at the same positions, those whose row is
\* not of the file replaced.
LEMMA MaskedElements ==
    ASSUME NEW rows, NEW f, IsSequence(rows), NEW n \in 1..Cardinality(Kept(KeepMask(rows, f)))
    PROVE  /\ Position(rows, f, n) \in 1..Len(rows)
           /\ rows[Position(rows, f, n)].source # f
           /\ \A s : Masked(s, KeepMask(rows, f))[n] = s[Position(rows, f, n)]
<1> DEFINE kept == Kept(KeepMask(rows, f))
<1>1. DOMAIN rows = 1..Len(rows) /\ Len(rows) \in Nat
  BY DEF IsSequence
<1>2. kept \subseteq 1..Len(rows) /\ \A i \in kept : rows[i].source # f
  BY <1>1 DEF Kept, KeepMask
<1> HIDE DEF kept
<1>3. \E i \in kept : Cardinality({j \in kept : j <= i}) = n
  BY <1>1, <1>2, PositionOfRank DEF kept
<1>4. Position(rows, f, n) \in kept
  BY <1>3 DEF Position, kept
<1>5. \A s : Masked(s, KeepMask(rows, f))[n] = s[Position(rows, f, n)]
  BY DEF Masked, Position
<1> QED BY <1>2, <1>4, <1>5

\* What a replacement gives is made of rows, and the vectors of the file replaced are those
\* of its rows afterwards, as they are wherever they were before.
Agree(vectors, rows, F) == \A i \in DOMAIN rows : rows[i].source \in F => vectors[i] = rows[i]

LEMMA ReplaceAgrees ==
    ASSUME NEW p \in Procs, NEW f, NEW new \in Seq(Rows), matrix[p] \in Seq(Rows),
           metadata[p] \in Seq(Rows), Len(matrix[p]) = Len(metadata[p]),
           NEW F, Agree(matrix[p], metadata[p], F)
    PROVE  /\ NewMatrix(p, f, new) \in Seq(Rows)
           /\ NewMetadata(p, f, new) \in Seq(Rows)
           /\ Agree(NewMatrix(p, f, new), NewMetadata(p, f, new), F \cup {f})
<1> DEFINE mask == KeepMask(metadata[p], f)
           k == Cardinality(Kept(mask))
           vectors == Masked(matrix[p], mask)
           rows == Masked(metadata[p], mask)
           pos(n) == Position(metadata[p], f, n)
<1>1. IsSequence(metadata[p])
  <2> DEFINE m == metadata[p]
  <2>1. m = [i \in 1..Len(m) |-> m[i]] /\ Len(m) \in Nat
    OBVIOUS
  <2> HIDE DEF m
  <2>2. IsSequence(m)
    BY <2>1, FunctionIsSequence
  <2> QED BY <2>2 DEF m
<1>2. k \in Nat
  BY <1>1, MaskedLength
<1>3. \A n \in 1..k : /\ pos(n) \in 1..Len(metadata[p])
                      /\ metadata[p][pos(n)].source # f
                      /\ vectors[n] = matrix[p][pos(n)] /\ rows[n] = metadata[p][pos(n)]
  BY <1>1, MaskedElements
<1>4. vectors = [n \in 1..k |-> vectors[n]] /\ rows = [n \in 1..k |-> rows[n]]
  BY DEF Masked
<1> HIDE DEF k, vectors, rows, mask, pos
<1>5. \A n \in 1..k : vectors[n] \in Rows /\ rows[n] \in Rows
  BY <1>3
<1>6. vectors \in [1..k -> Rows] /\ rows \in [1..k -> Rows]
  BY <1>4, <1>5
<1>7. vectors \in Seq(Rows) /\ rows \in Seq(Rows) /\ Len(vectors) = k /\ Len(rows) = k
  BY <1>2, <1>6
<1>8. \A n \in 1..k : rows[n].source \in F \cup {f} => vectors[n] = rows[n]
  BY <1>3 DEF Agree
<1>9. NewMatrix(p, f, new) = vectors \o new /\ NewMetadata(p, f, new) = rows \o new
  BY DEF NewMatrix, NewMetadata, vectors, rows, mask
<1>10. Agree(vectors \o new, rows \o new, F \cup {f})
  <2> SUFFICES ASSUME NEW i \in DOMAIN (rows \o new), (rows \o new)[i].source \in F \cup {f}
               PROVE  (vectors \o new)[i] = (rows \o new)[i]
    BY DEF Agree
  <2>1. i \in 1..(k + Len(new))
    BY <1>7
  <2>2. CASE i <= k
    <3>1. i \in 1..k /\ (rows \o new)[i] = rows[i] /\ (vectors \o new)[i] = vectors[i]
      BY <1>2, <1>7, <2>1, <2>2
    <3> QED BY <1>8, <3>1
  <2>3. CASE ~ (i <= k)
    BY <1>2, <1>7, <2>1, <2>3
  <2> QED BY <2>2, <2>3
<1> QED BY <1>7, <1>9, <1>10

-----------------------------------------------------------------------------
(* Types, and what a walk has made agree *)

IndexedSources(p) == {x.source : x \in indexed[p]}

\* A walk that is at a file is at one of the directory, and has chunks of it.
Walk(p) == pc[p] \in {"embed", "save_index", "save_metadata"} => next[p] \in Files /\ items[p] # <<>>

\* Vectors and rows agree on what the walk has indexed, and on the file it is saving,
\* whatever the load met.
Heal(p) ==
    /\ pc[p] \notin Loaded => indexed[p] = {}
    /\ pc[p] \in Loaded => Agree(matrix[p], metadata[p], IndexedSources(p))
    /\ pc[p] \in {"save_index", "save_metadata"} => Agree(matrix[p], metadata[p], {next[p]})

WalkInv == \A p \in Procs : Walk(p) /\ Heal(p)

FullInv == StoreInv /\ TypeOK /\ WalkInv

LEMMA FullInit == Init => FullInv
<1> SUFFICES ASSUME Init PROVE FullInv
  OBVIOUS
<1>1. StoreInv
  BY StoreInit
<1>2. file \in [Files -> FileStates] /\ pc \in [Procs -> Running \cup Stopped]
  BY <1>1 DEF StoreInv, WeakTypes
<1>3. <<>> \in Seq(Rows) /\ 1 \in 1..(NFiles + 1) /\ 0 \in 0..MaxStarts
  BY BoundsAssumption
<1>4. TypeOK
  BY <1>2, <1>3 DEF Init, TypeOK, StoreFiles, Absent
<1>5. WalkInv
  BY DEF Init, WalkInv, Walk, Heal, Loaded
<1> QED BY <1>1, <1>4, <1>5 DEF FullInv

\* The chunks of a file are rows, and there is one.
LEMMA ChunksAreRows ==
    ASSUME NEW f \in Files, file \in [Files -> FileStates]
    PROVE  /\ RowsOf(f, file[f].text) \in Seq(Rows)
           /\ RowsOf(f, file[f].text) # <<>>
<1> DEFINE t == file[f].text
           r == RowsOf(f, t)
<1>1. t \in Texts
  BY DEF FileStates
<1> HIDE DEF t
<1>2. t.chunks \in 1..MaxChunks
  BY <1>1 DEF Texts
<1>3. \A i \in 1..t.chunks : [source |-> f, text |-> t, chunk |-> i] \in Rows
  BY <1>1, <1>2, BoundsAssumption DEF Rows
<1>4. r \in [1..t.chunks -> Rows]
  BY <1>3 DEF RowsOf
<1>5. r \in Seq(Rows) /\ Len(r) = t.chunks
  BY <1>2, <1>4, BoundsAssumption
<1>6. r # <<>>
  BY <1>2, <1>5, BoundsAssumption
<1> QED BY <1>5, <1>6 DEF t

\* A step of one process leaves what is said of the others.
LEMMA OneProcess ==
    ASSUME WalkInv, NEW p \in Procs, Walk(p)', Heal(p)',
           \A q \in Procs : q # p => /\ pc'[q] = pc[q] /\ next'[q] = next[q] /\ items'[q] = items[q]
                                     /\ indexed'[q] = indexed[q] /\ matrix'[q] = matrix[q]
                                     /\ metadata'[q] = metadata[q]
    PROVE  WalkInv'
<1> SUFFICES ASSUME NEW q \in Procs, q # p PROVE Walk(q)' /\ Heal(q)'
  BY DEF WalkInv
<1> QED BY DEF WalkInv, Walk, Heal, IndexedSources

LEMMA FullLoad ==
    ASSUME FullInv, NEW p \in Procs, Load(p)
    PROVE  TypeOK' /\ WalkInv'
<1> USE DEF FullInv, TypeOK
<1>0. <<>> \in Seq(Rows) /\ 1 \in 1..(NFiles + 1)
  BY BoundsAssumption
<1>w. Walk(p) /\ Heal(p)
  BY DEF WalkInv
<1>1. CASE Start(p)
  <2>1. starts' \in 0..MaxStarts
    BY <1>1, BoundsAssumption DEF Start
  <2>2. TypeOK'
    BY <1>0, <1>1, <2>1 DEF Start, Forget, disk, StoreFiles, Running, Stopped
  <2>3. Walk(p)' /\ Heal(p)'
    BY <1>1 DEF Start, Forget, Walk, Heal, Loaded
  <2> QED BY <1>1, <2>2, <2>3, OneProcess DEF Start, Forget
<1>2. CASE StatMetadata(p)
  <2>1. pc[p] = "stat_metadata" /\ pc[p] \notin Loaded
    BY <1>2 DEF StatMetadata, Loaded
  <2>2. metadata[p] = <<>>
    BY <2>1 DEF StoreInv, EmptyBeforeLoad
  <2>3. TypeOK'
    BY <1>2 DEF StatMetadata, disk, Running, Stopped
  <2>4. pc'[p] \in {"refused", "read_index", "ready"}
    BY <1>2 DEF StatMetadata
  <2>5. Walk(p)' /\ Heal(p)'
    BY <1>2, <1>w, <2>1, <2>2, <2>4 DEF StatMetadata, Walk, Heal, Agree, Loaded
  <2> QED BY <1>2, <2>3, <2>5, OneProcess DEF StatMetadata
<1>3. CASE ReadIndex(p)
  <2>1. TypeOK'
    BY <1>3 DEF ReadIndex, disk, StoreFiles, Running, Stopped
  <2>2. Walk(p)' /\ Heal(p)'
    BY <1>3, <1>w DEF ReadIndex, Walk, Heal, Loaded
  <2> QED BY <1>3, <2>1, <2>2, OneProcess DEF ReadIndex
<1>4. CASE ReadMetadata(p)
  <2>1. TypeOK'
    BY <1>4 DEF ReadMetadata, disk, StoreFiles, Running, Stopped
  <2>2. indexed'[p] = {} /\ pc'[p] \in {"ready", "refused"}
    BY <1>4, <1>w DEF ReadMetadata, Heal, Loaded
  <2>3. Walk(p)' /\ Heal(p)'
    BY <2>2 DEF Walk, Heal, Agree, IndexedSources, Loaded
  <2> QED BY <1>4, <2>1, <2>3, OneProcess DEF ReadMetadata
<1> QED BY <1>1, <1>2, <1>3, <1>4 DEF Load

LEMMA FullReplace ==
    ASSUME FullInv, NEW p \in Procs, Embedded(p) \/ VectorsInvalid(p)
    PROVE  TypeOK' /\ WalkInv'
<1> USE DEF FullInv, TypeOK
<1>w. Walk(p) /\ Heal(p) /\ pc[p] = "embed"
  BY DEF WalkInv, Embedded, VectorsInvalid
<1>len. Len(matrix[p]) = Len(metadata[p])
  BY <1>w DEF StoreInv, OneVectorPerRow, Loaded
<1>agree. Agree(matrix[p], metadata[p], IndexedSources(p))
  BY <1>w DEF Heal, Loaded
<1>1. CASE Embedded(p)
  <2> DEFINE V == NewMatrix(p, next[p], items[p])
             R == NewMetadata(p, next[p], items[p])
  <2>1. V \in Seq(Rows) /\ R \in Seq(Rows) /\ Agree(V, R, IndexedSources(p) \cup {next[p]})
    BY <1>len, <1>agree, ReplaceAgrees
  <2>2. /\ matrix' = [matrix EXCEPT ![p] = V] /\ metadata' = [metadata EXCEPT ![p] = R]
        /\ pc' = [pc EXCEPT ![p] = "save_index"]
    BY <1>1 DEF Embedded
  <2> HIDE DEF V, R
  <2>3. TypeOK'
    BY <1>1, <2>1, <2>2 DEF Embedded, disk, Running, Stopped
  <2>4. Walk(p)' /\ Heal(p)'
    BY <1>1, <1>w, <2>1, <2>2 DEF Embedded, Walk, Heal, Agree, IndexedSources, Loaded
  <2> QED BY <1>1, <2>2, <2>3, <2>4, OneProcess DEF Embedded
<1>2. CASE VectorsInvalid(p)
  <2>0. <<>> \in Seq(Rows)
    OBVIOUS
  <2> DEFINE V == NewMatrix(p, next[p], <<>>)
             R == NewMetadata(p, next[p], <<>>)
  <2>1. V \in Seq(Rows) /\ R \in Seq(Rows) /\ Agree(V, R, IndexedSources(p) \cup {next[p]})
    BY <2>0, <1>len, <1>agree, ReplaceAgrees
  <2>2. /\ matrix' = [matrix EXCEPT ![p] = V] /\ metadata' = [metadata EXCEPT ![p] = R]
        /\ pc' = [pc EXCEPT ![p] = "raised"]
    BY <1>2 DEF VectorsInvalid, AfterInvalidVectors
  <2> HIDE DEF V, R
  <2>3. TypeOK'
    BY <1>2, <2>1, <2>2 DEF VectorsInvalid, disk, Running, Stopped
  <2>4. Walk(p)' /\ Heal(p)'
    BY <1>2, <1>w, <2>1, <2>2 DEF VectorsInvalid, Walk, Heal, Agree, IndexedSources, Loaded
  <2> QED BY <1>2, <2>2, <2>3, <2>4, OneProcess DEF VectorsInvalid
<1> QED BY <1>1, <1>2

LEMMA FullIngest ==
    ASSUME FullInv, NEW p \in Procs, Ingest(p)
    PROVE  TypeOK' /\ WalkInv'
<1> USE DEF FullInv, TypeOK
<1>0. <<>> \in Seq(Rows) /\ \A i \in Files : i + 1 \in 1..(NFiles + 1)
  BY BoundsAssumption DEF Files
<1>w. Walk(p) /\ Heal(p)
  BY DEF WalkInv
<1>1. CASE FilePassedOver(p)
  <2>1. TypeOK'
    BY <1>0, <1>1 DEF FilePassedOver, Store, disk
  <2>2. Walk(p)' /\ Heal(p)'
    BY <1>1, <1>w DEF FilePassedOver, Store, Walk, Heal, IndexedSources, Loaded
  <2> QED BY <1>1, <2>1, <2>2, OneProcess DEF FilePassedOver, Store
<1>2. CASE FileRead(p)
  <2>1. RowsOf(next[p], file[next[p]].text) \in Seq(Rows) /\ RowsOf(next[p], file[next[p]].text) # <<>>
    BY <1>2, ChunksAreRows DEF FileRead
  <2>2. TypeOK'
    BY <1>2, <2>1 DEF FileRead, Store, disk, Running, Stopped
  <2>3. Walk(p)' /\ Heal(p)'
    BY <1>2, <1>w, <2>1 DEF FileRead, Store, Walk, Heal, IndexedSources, Loaded
  <2> QED BY <1>2, <2>2, <2>3, OneProcess DEF FileRead, Store
<1>3. CASE EmbeddingFails(p)
  <2>1. next[p] \in Files
    BY <1>3, <1>w DEF EmbeddingFails, Walk
  <2>2. TypeOK'
    BY <1>0, <1>3, <2>1 DEF EmbeddingFails, Store, disk, Running, Stopped
  <2>3. Walk(p)' /\ Heal(p)'
    BY <1>3, <1>w DEF EmbeddingFails, Store, Walk, Heal, IndexedSources, Loaded
  <2> QED BY <1>3, <2>2, <2>3, OneProcess DEF EmbeddingFails, Store
<1>4. CASE Embedded(p) \/ VectorsInvalid(p)
  BY <1>4, FullReplace
<1>5. CASE SaveIndex(p)
  <2>1. TypeOK'
    BY <1>5 DEF SaveIndex, Writes, Store, StoreFiles, Running, Stopped
  <2>2. Walk(p)' /\ Heal(p)'
    BY <1>5, <1>w DEF SaveIndex, Store, Walk, Heal, IndexedSources, Loaded
  <2> QED BY <1>5, <2>1, <2>2, OneProcess DEF SaveIndex, Store
\* The file saved joins the files indexed, with the agreement its replacement gave it.
<1>6. CASE SaveMetadata(p)
  <2> DEFINE x == [source |-> next[p], text |-> items[p][1].text]
  <2>1. next[p] \in Files /\ items[p] # <<>>
    BY <1>6, <1>w DEF SaveMetadata, Walk
  <2>2. items[p][1] \in Rows
    BY <2>1
  <2>3. x \in [source : Files, text : Texts]
    BY <2>1, <2>2 DEF Rows
  <2>4. indexed' = [indexed EXCEPT ![p] = @ \cup {x}]
    BY <1>6 DEF SaveMetadata
  <2>5. x.source = next[p]
    OBVIOUS
  <2> HIDE DEF x
  <2>6. TypeOK'
    BY <1>0, <1>6, <2>1, <2>3, <2>4 DEF SaveMetadata, SavedRows, Writes, Store, StoreFiles, Running, Stopped
  <2>7. IndexedSources(p)' = IndexedSources(p) \cup {next[p]}
    BY <2>4, <2>5 DEF IndexedSources
  <2>8. Agree(matrix[p], metadata[p], IndexedSources(p) \cup {next[p]})
    BY <1>6, <1>w DEF SaveMetadata, Heal, Agree, Loaded
  <2>9. pc'[p] = "ready" /\ matrix'[p] = matrix[p] /\ metadata'[p] = metadata[p]
    BY <1>6 DEF SaveMetadata, Store
  <2>10. Walk(p)' /\ Heal(p)'
    BY <2>7, <2>8, <2>9 DEF Walk, Heal, Loaded
  <2> QED BY <1>6, <2>4, <2>6, <2>10, OneProcess DEF SaveMetadata, Store
<1>7. CASE SaveFails(p)
  <2>1. TypeOK'
    BY <1>7 DEF SaveFails, Store, disk, Running, Stopped
  <2>2. Walk(p)' /\ Heal(p)'
    BY <1>7, <1>w DEF SaveFails, Store, Walk, Heal, IndexedSources, Loaded
  <2> QED BY <1>7, <2>1, <2>2, OneProcess DEF SaveFails, Store
<1>8. CASE WalkEnds(p)
  <2>1. TypeOK'
    BY <1>8 DEF WalkEnds, Store, disk, Running, Stopped
  <2>2. Walk(p)' /\ Heal(p)'
    BY <1>8, <1>w DEF WalkEnds, Store, Walk, Heal, IndexedSources, Loaded
  <2> QED BY <1>8, <2>1, <2>2, OneProcess DEF WalkEnds, Store
<1> QED BY <1>1, <1>2, <1>3, <1>4, <1>5, <1>6, <1>7, <1>8 DEF Ingest

LEMMA FullCrash ==
    ASSUME FullInv, NEW p \in Procs, Crash(p)
    PROVE  TypeOK' /\ WalkInv'
<1> USE DEF FullInv, TypeOK
<1>1. <<>> \in Seq(Rows) /\ 1 \in 1..(NFiles + 1)
  BY BoundsAssumption
<1>2. TypeOK'
  BY <1>1 DEF Crash, Forget, disk, Running, Stopped
<1>3. Walk(p)' /\ Heal(p)'
  BY DEF Crash, Forget, Walk, Heal, Loaded
<1> QED BY <1>2, <1>3, OneProcess DEF Crash, Forget

LEMMA FullNext == FullInv /\ [Next]_vars => FullInv'
<1> SUFFICES ASSUME FullInv, [Next]_vars PROVE FullInv'
  OBVIOUS
<1>1. StoreInv'
  BY StoreNext DEF FullInv
<1>2. CASE \E f \in Files, indexable \in BOOLEAN, chunks \in 1..MaxChunks :
              Edit(f, indexable, chunks)
  <2>1. file' \in [Files -> FileStates]
    BY <1>1 DEF StoreInv, WeakTypes
  <2>2. UNCHANGED <<index, meta, pc, indexSeen, matrix, metadata, next, items, indexed, starts, paired,
                    disturbed>>
    BY <1>2 DEF Edit, disk
  <2>3. TypeOK'
    BY <2>1, <2>2 DEF FullInv, TypeOK
  <2>4. WalkInv'
    BY <2>2 DEF FullInv, WalkInv, Walk, Heal, IndexedSources
  <2> QED BY <1>1, <2>3, <2>4 DEF FullInv
<1>3. CASE \E p \in Procs : Load(p) \/ Ingest(p) \/ Crash(p)
  BY <1>1, <1>3, FullLoad, FullIngest, FullCrash DEF FullInv
<1>4. CASE UNCHANGED vars
  BY <1>1, <1>4 DEF vars, disk, FullInv, TypeOK, WalkInv, Walk, Heal, IndexedSources
<1> QED BY <1>2, <1>3, <1>4 DEF Next

\* Every variable keeps to its values, for any processes, files and bounds.
THEOREM StoreTypeCorrect == Spec => []TypeOK
<1>1. FullInv => TypeOK
  BY DEF FullInv
<1> QED BY <1>1, FullInit, FullNext, PTL DEF Spec

\* A walk that indexed every file with rows in its store leaves vectors and rows matched, even
\* if it loaded them from two different saves (local_memory.py:135-161).
THEOREM ReingestIsHealing == Spec => []ReingestHeals
<1>1. FullInv => ReingestHeals
  <2> SUFFICES ASSUME FullInv, NEW p \in Procs, pc[p] = "done",
                      Sources(metadata[p]) = {x.source : x \in indexed[p]}
               PROVE  matrix[p] = metadata[p]
    BY DEF ReingestHeals
  <2>1. matrix[p] \in Seq(Rows) /\ metadata[p] \in Seq(Rows)
    BY DEF FullInv, TypeOK
  <2>2. Len(matrix[p]) = Len(metadata[p])
    BY DEF FullInv, StoreInv, OneVectorPerRow, Loaded
  <2>3. Agree(matrix[p], metadata[p], IndexedSources(p))
    BY DEF FullInv, WalkInv, Heal, Loaded
  <2>4. \A i \in DOMAIN metadata[p] : matrix[p][i] = metadata[p][i]
    BY <2>3 DEF Agree, IndexedSources, Sources
  <2> QED BY <2>1, <2>2, <2>4
<1> QED BY <1>1, FullInit, FullNext, PTL DEF Spec

-----------------------------------------------------------------------------
(* A save drops no file *)

\* No two positions of a finite set have the same rank.
LEMMA RankOfPosition ==
    ASSUME NEW len \in Nat, NEW K, K \subseteq 1..len, NEW i \in K,
           NEW n, n = Cardinality({j \in K : j <= i})
    PROVE  /\ n \in 1..Cardinality(K)
           /\ \A m \in K : Cardinality({j \in K : j <= m}) = n => m = i
<1> DEFINE upTo(m) == {j \in K : j <= m}
<1>1. IsFiniteSet(K) /\ Cardinality(K) \in Nat
  <2>1. IsFiniteSet(1..len)
    BY FS_Interval
  <2> QED BY <2>1, FS_Subset, FS_CardinalityType
<1>2. \A m : upTo(m) \subseteq K
  OBVIOUS
<1>3. \A j \in K : j \in Nat
  OBVIOUS
<1>4. \A m \in K : m \in upTo(m)
  BY <1>3
<1>5. \A a, b \in K : a < b => upTo(a) \subseteq upTo(b) /\ upTo(a) # upTo(b)
  <2> TAKE a, b \in K
  <2> HAVE a < b
  <2>1. \A j \in K : j <= a => j <= b
    BY <1>3
  <2>2. b \in upTo(b) /\ b \notin upTo(a)
    BY <1>3, <1>4
  <2> QED BY <2>1, <2>2
<1> HIDE DEF upTo
<1>6. \A m : IsFiniteSet(upTo(m)) /\ Cardinality(upTo(m)) \in Nat /\ Cardinality(upTo(m)) <= Cardinality(K)
  BY <1>1, <1>2, FS_Subset, FS_CardinalityType
<1>7. \A a, b \in K : a < b => Cardinality(upTo(a)) < Cardinality(upTo(b))
  <2> TAKE a, b \in K
  <2> HAVE a < b
  <2>1. upTo(a) \in SUBSET upTo(b) /\ upTo(a) # upTo(b)
    BY <1>5
  <2>2. Cardinality(upTo(a)) <= Cardinality(upTo(b)) /\ Cardinality(upTo(a)) # Cardinality(upTo(b))
    BY <2>1, <1>6, FS_Subset
  <2> QED BY <2>2, <1>6
<1>8. n = Cardinality(upTo(i))
  BY DEF upTo
<1>9. n # 0
  BY <1>4, <1>6, <1>8, FS_EmptySet
<1>10. \A m \in K : Cardinality(upTo(m)) = n => m = i
  <2> TAKE m \in K
  <2> HAVE Cardinality(upTo(m)) = n
  <2>1. ~(m < i) /\ ~(i < m)
    BY <1>6, <1>7, <1>8
  <2> QED BY <1>3, <2>1
<1>11. n \in 1..Cardinality(K)
  BY <1>1, <1>6, <1>8, <1>9
<1> QED BY <1>10, <1>11 DEF upTo

\* Every row that is not of the file replaced is still there.
LEMMA SourcesKept ==
    ASSUME NEW p \in Procs, NEW f, NEW new \in Seq(Rows), metadata[p] \in Seq(Rows)
    PROVE  (Sources(metadata[p]) \ {f}) \cup Sources(new) \subseteq Sources(NewMetadata(p, f, new))
<1> DEFINE old == metadata[p]
           mask == KeepMask(old, f)
           kept == Kept(mask)
           k == Cardinality(kept)
           rows == Masked(old, mask)
<1>1. IsSequence(old) /\ Len(old) \in Nat /\ DOMAIN old = 1..Len(old)
  <2>1. old = [i \in 1..Len(old) |-> old[i]] /\ Len(old) \in Nat
    OBVIOUS
  <2> HIDE DEF old
  <2>2. IsSequence(old)
    BY <2>1, FunctionIsSequence
  <2> QED BY <2>1, <2>2
<1>2. k \in Nat
  BY <1>1, MaskedLength
<1>3. kept = {i \in 1..Len(old) : old[i].source # f}
  BY <1>1 DEF Kept, KeepMask
<1>4. \A n \in 1..k : rows[n] = old[Position(old, f, n)] /\ rows[n] \in Rows
  BY <1>1, MaskedElements
<1>5. rows = [n \in 1..k |-> rows[n]]
  BY DEF Masked
<1>6. NewMetadata(p, f, new) = rows \o new
  BY DEF NewMetadata
<1>pos. \A n : Position(old, f, n) = CHOOSE i \in kept : Cardinality({j \in kept : j <= i}) = n
  BY DEF Position
<1> HIDE DEF old, mask, kept, k, rows
<1>7. rows \in Seq(Rows) /\ Len(rows) = k
  <2>1. rows \in [1..k -> Rows]
    BY <1>4, <1>5
  <2> QED BY <1>2, <2>1
<1>8. DOMAIN (rows \o new) = 1..(k + Len(new)) /\ Len(new) \in Nat
  BY <1>2, <1>7
<1>9. ASSUME NEW s \in Sources(old), s # f PROVE s \in Sources(rows \o new)
  <2>1. PICK i \in 1..Len(old) : old[i].source = s
    BY <1>1 DEF Sources
  <2>2. i \in kept /\ kept \subseteq 1..Len(old)
    BY <1>3, <1>9, <2>1
  <2> DEFINE n == Cardinality({j \in kept : j <= i})
  <2>3. n \in 1..k /\ \A m \in kept : Cardinality({j \in kept : j <= m}) = n => m = i
    BY <1>1, <2>2, RankOfPosition DEF k
  <2>4. Position(old, f, n) = i
    BY <1>pos, <2>2, <2>3
  <2> HIDE DEF n
  <2>5. (rows \o new)[n] = old[i] /\ n \in DOMAIN (rows \o new)
    BY <1>2, <1>4, <1>7, <1>8, <2>3, <2>4
  <2> QED BY <2>1, <2>5 DEF Sources
<1>10. ASSUME NEW s \in Sources(new) PROVE s \in Sources(rows \o new)
  <2>1. PICK i \in 1..Len(new) : new[i].source = s
    BY DEF Sources
  <2>2. (rows \o new)[k + i] = new[i] /\ k + i \in DOMAIN (rows \o new)
    BY <1>2, <1>7, <1>8
  <2> QED BY <2>1, <2>2 DEF Sources
<1> QED BY <1>6, <1>9, <1>10 DEF old

Holding == {"ready", "embed", "save_index", "save_metadata"}

\* An undisturbed process holds rows of every file that the disk has rows of, and what it is
\* embedding is of the file it is at.
Keep(p) ==
    /\ pc[p] = "embed" => next[p] \in Sources(items[p])
    /\ pc[p] \in Holding /\ ~disturbed[p] => Sources(meta.rows) \subseteq Sources(metadata[p])

KeepInv == FullInv /\ (meta.present \/ meta.rows = <<>>) /\ \A p \in Procs : Keep(p)

\* A step of one process that writes disturbs the others; any other leaves them as they were.
LEMMA KeepOthers ==
    ASSUME \A q \in Procs : Keep(q), NEW p \in Procs, Keep(p)',
           \A q \in Procs : q # p =>
               /\ pc'[q] = pc[q] /\ next'[q] = next[q] /\ items'[q] = items[q] /\ metadata'[q] = metadata[q]
               /\ disturbed'[q] \/ (disturbed'[q] = disturbed[q] /\ UNCHANGED meta)
    PROVE  \A q \in Procs : Keep(q)'
<1> SUFFICES ASSUME NEW q \in Procs, q # p PROVE Keep(q)'
  OBVIOUS
<1> QED BY DEF Keep

LEMMA KeepLoad ==
    ASSUME KeepInv, NEW p \in Procs, Load(p)
    PROVE  (meta'.present \/ meta'.rows = <<>>) /\ \A q \in Procs : Keep(q)'
<1> USE DEF KeepInv, FullInv, TypeOK
<1>1. UNCHANGED meta
  BY DEF Load, Start, StatMetadata, ReadIndex, ReadMetadata, disk
<1>2. CASE Start(p)
  <2>1. Keep(p)'
    BY <1>2 DEF Start, Keep, Holding
  <2> QED BY <1>1, <1>2, <2>1, KeepOthers DEF Start, Forget
\* Without a metadata.json there is nothing to hold.
<1>3. CASE StatMetadata(p)
  <2>1. pc'[p] = "ready" => ~meta.present
    BY <1>3 DEF StatMetadata
  <2>2. Keep(p)'
    BY <1>1, <1>3, <2>1 DEF StatMetadata, Keep, Holding, Sources
  <2> QED BY <1>1, <1>3, <2>2, KeepOthers DEF StatMetadata
<1>4. CASE ReadIndex(p)
  <2>1. Keep(p)'
    BY <1>4 DEF ReadIndex, Keep, Holding
  <2> QED BY <1>1, <1>4, <2>1, KeepOthers DEF ReadIndex
<1>5. CASE ReadMetadata(p)
  <2>1. metadata'[p] = meta.rows /\ pc'[p] # "embed"
    BY <1>5 DEF ReadMetadata
  <2>2. Keep(p)'
    BY <1>1, <2>1 DEF Keep
  <2> QED BY <1>1, <1>5, <2>2, KeepOthers DEF ReadMetadata
<1> QED BY <1>2, <1>3, <1>4, <1>5 DEF Load

LEMMA KeepIngest ==
    ASSUME KeepInv, NEW p \in Procs, Ingest(p)
    PROVE  (meta'.present \/ meta'.rows = <<>>) /\ \A q \in Procs : Keep(q)'
<1> USE DEF KeepInv, FullInv, TypeOK
<1>1. CASE FilePassedOver(p) \/ EmbeddingFails(p) \/ SaveFails(p) \/ WalkEnds(p)
  <2>1. UNCHANGED <<meta, disturbed, metadata>> /\ pc[p] \in Holding /\ pc'[p] # "embed"
    BY <1>1 DEF FilePassedOver, EmbeddingFails, SaveFails, WalkEnds, Store, disk, Holding
  <2>2. Keep(p)'
    BY <2>1 DEF Keep
  <2> QED BY <1>1, <2>1, <2>2, KeepOthers DEF FilePassedOver, EmbeddingFails, SaveFails, WalkEnds, Store
<1>2. CASE FileRead(p)
  <2> DEFINE r == RowsOf(next[p], file[next[p]].text)
  <2>1. r \in Seq(Rows) /\ r # <<>>
    BY <1>2, ChunksAreRows DEF FileRead
  <2>2. \A i \in DOMAIN r : r[i].source = next[p]
    BY DEF RowsOf
  <2> HIDE DEF r
  <2>3. next[p] \in Sources(r)
    <3>1. 1 \in DOMAIN r
      BY <2>1
    <3> QED BY <3>1, <2>2 DEF Sources
  <2>4. /\ items' = [items EXCEPT ![p] = r] /\ pc[p] \in Holding
        /\ UNCHANGED <<meta, disturbed, metadata, next>>
    BY <1>2 DEF FileRead, Store, disk, Holding, r
  <2>5. Keep(p)'
    BY <2>3, <2>4 DEF Keep
  <2> QED BY <1>2, <2>4, <2>5, KeepOthers DEF FileRead
<1>3. CASE Embedded(p)
  <2>1. Sources(metadata[p]) \subseteq Sources(NewMetadata(p, next[p], items[p]))
    <3>1. next[p] \in Sources(items[p])
      BY <1>3 DEF Embedded, Keep
    <3> QED BY <3>1, SourcesKept
  <2>2. /\ metadata' = [metadata EXCEPT ![p] = NewMetadata(p, next[p], items[p])]
        /\ UNCHANGED <<meta, disturbed, next, items>> /\ pc[p] \in Holding
        /\ pc' = [pc EXCEPT ![p] = "save_index"]
    BY <1>3 DEF Embedded, disk, Holding
  <2>3. Keep(p)'
    BY <2>1, <2>2 DEF Keep
  <2> QED BY <2>2, <2>3, KeepOthers
<1>4. CASE VectorsInvalid(p)
  <2>1. pc' = [pc EXCEPT ![p] = "raised"]
    BY <1>4 DEF VectorsInvalid, AfterInvalidVectors
  <2>2. Keep(p)'
    BY <2>1 DEF Keep, Holding
  <2> QED BY <1>4, <2>1, <2>2, KeepOthers DEF VectorsInvalid, disk
<1>5. CASE SaveIndex(p)
  <2>1. /\ disturbed'[p] = disturbed[p] /\ \A q \in Procs : q # p => disturbed'[q]
        /\ UNCHANGED <<meta, metadata, next, items>>
    BY <1>5 DEF SaveIndex, Writes, Store
  <2>2. Keep(p)'
    BY <1>5, <2>1 DEF SaveIndex, Keep, Holding
  <2> QED BY <1>5, <2>1, <2>2, KeepOthers DEF SaveIndex
<1>6. CASE SaveMetadata(p)
  <2>1. /\ \A q \in Procs : q # p => disturbed'[q]
        /\ meta' = [present |-> TRUE, rows |-> metadata[p]] /\ UNCHANGED metadata
        /\ pc' = [pc EXCEPT ![p] = "ready"]
    BY <1>6 DEF SaveMetadata, SavedRows, Writes, Store
  <2>2. meta'.present /\ meta'.rows = metadata[p]
    BY <2>1
  <2>3. Keep(p)'
    BY <2>1, <2>2 DEF Keep
  <2> QED BY <1>6, <2>1, <2>2, <2>3, KeepOthers DEF SaveMetadata
<1> QED BY <1>1, <1>2, <1>3, <1>4, <1>5, <1>6 DEF Ingest

LEMMA KeepNext == KeepInv /\ [Next]_vars => KeepInv'
<1> SUFFICES ASSUME KeepInv, [Next]_vars PROVE KeepInv'
  OBVIOUS
<1>1. FullInv'
  BY FullNext DEF KeepInv
<1>2. CASE \E f \in Files, indexable \in BOOLEAN, chunks \in 1..MaxChunks :
              Edit(f, indexable, chunks)
  BY <1>1, <1>2 DEF Edit, disk, KeepInv, Keep
<1>3. CASE \E p \in Procs : Load(p) \/ Ingest(p)
  BY <1>1, <1>3, KeepLoad, KeepIngest DEF KeepInv
<1>4. CASE \E p \in Procs : Crash(p)
  <2> PICK p \in Procs : Crash(p)
    BY <1>4
  <2>1. /\ pc' = [pc EXCEPT ![p] = "down"] /\ UNCHANGED meta
        /\ pc \in [Procs -> Running \cup Stopped]
    BY DEF Crash, disk, KeepInv, FullInv, TypeOK
  <2>2. Keep(p)'
    BY <2>1 DEF Keep, Holding
  <2>3. \A q \in Procs : Keep(q)'
    BY <2>1, <2>2, KeepOthers DEF KeepInv, FullInv, TypeOK, Crash, Forget
  <2> QED BY <1>1, <2>1, <2>3 DEF KeepInv
<1>5. CASE UNCHANGED vars
  BY <1>1, <1>5 DEF vars, disk, KeepInv, Keep
<1> QED BY <1>2, <1>3, <1>4, <1>5 DEF Next

\* The step from saving to the next file is the replacement of metadata.json.
LEMMA OnlySavesGoOn ==
    ASSUME KeepInv, [Next]_vars, NEW p \in Procs, pc[p] = "save_metadata", pc'[p] = "ready"
    PROVE  meta'.rows = metadata[p]
<1>1. pc \in [Procs -> Running \cup Stopped]
  BY DEF KeepInv, FullInv, TypeOK
<1>2. PICK q \in Procs : Load(q) \/ Ingest(q) \/ Crash(q)
  BY DEF Next, vars, Edit
<1>3. q = p
  BY <1>1, <1>2 DEF Load, Start, StatMetadata, ReadIndex, ReadMetadata, Crash, Ingest, FilePassedOver, FileRead,
     EmbeddingFails, Embedded, VectorsInvalid, SaveIndex, SaveMetadata, SaveFails, WalkEnds
<1>4. SaveMetadata(p)
  BY <1>1, <1>2, <1>3 DEF Load, Start, StatMetadata, ReadIndex, ReadMetadata, Crash, Ingest, FilePassedOver, FileRead,
     EmbeddingFails, Embedded, VectorsInvalid, SaveIndex, SaveFails, WalkEnds, Stopped
<1> QED BY <1>4 DEF SaveMetadata, SavedRows

\* A save of an undisturbed process drops no file from the store, whatever failed before it
\* (ingestor.py:114-115).
THEOREM SavesAreKeeping == Spec => SavesKeepFiles
<1>1. Init => KeepInv
  <2> SUFFICES ASSUME Init PROVE KeepInv
    OBVIOUS
  <2>1. FullInv
    BY FullInit
  <2> QED BY <2>1 DEF Init, KeepInv, Keep, Holding, Absent
<1>2. KeepInv /\ [Next]_vars =>
          [\A p \in Procs : pc[p] = "save_metadata" /\ pc'[p] = "ready" /\ ~disturbed[p] =>
              Sources(meta.rows) \subseteq Sources(meta'.rows)]_vars
  <2> SUFFICES ASSUME KeepInv, [Next]_vars, NEW p \in Procs,
                      pc[p] = "save_metadata", pc'[p] = "ready", ~disturbed[p]
               PROVE  Sources(meta.rows) \subseteq Sources(meta'.rows)
    OBVIOUS
  <2>1. meta'.rows = metadata[p]
    BY OnlySavesGoOn
  <2>2. Sources(meta.rows) \subseteq Sources(metadata[p])
    BY DEF KeepInv, Keep, Holding
  <2> QED BY <2>1, <2>2
<1> QED BY <1>1, <1>2, KeepNext, PTL DEF Spec, SavesKeepFiles

-----------------------------------------------------------------------------
(* What a replacement does to the versions held *)

\* The positions a mask keeps are taken in order, and none is left out.
LEMMA PositionsInOrder ==
    ASSUME NEW rows \in Seq(Rows), NEW f, NEW k, k = Cardinality(Kept(KeepMask(rows, f)))
    PROVE  /\ k \in Nat
           /\ \A n \in 1..k : Position(rows, f, n) \in 1..Len(rows) /\ rows[Position(rows, f, n)].source # f
           /\ \A i \in 1..Len(rows) : rows[i].source # f => \E n \in 1..k : Position(rows, f, n) = i
           /\ \A m, n \in 1..k : m < n => Position(rows, f, m) < Position(rows, f, n)
<1> DEFINE kept == Kept(KeepMask(rows, f))
           upTo(i) == {j \in kept : j <= i}
           pos(n) == Position(rows, f, n)
<1>1. IsSequence(rows) /\ Len(rows) \in Nat /\ DOMAIN rows = 1..Len(rows)
  <2>1. rows = [i \in 1..Len(rows) |-> rows[i]] /\ Len(rows) \in Nat
    OBVIOUS
  <2> QED BY <2>1, FunctionIsSequence
<1>2. kept = {i \in 1..Len(rows) : rows[i].source # f}
  BY <1>1 DEF Kept, KeepMask
<1>3. k \in Nat
  BY <1>1, MaskedLength
<1>4. \A n \in 1..k : pos(n) \in 1..Len(rows) /\ rows[pos(n)].source # f
  BY <1>1, MaskedElements
<1>pos. \A n : pos(n) = CHOOSE i \in kept : Cardinality(upTo(i)) = n
  BY DEF Position
<1> HIDE DEF kept, pos
<1>5. kept \subseteq 1..Len(rows) /\ k = Cardinality(kept)
  BY <1>2 DEF kept
<1>6. ASSUME NEW i \in kept
      PROVE  /\ Cardinality(upTo(i)) \in 1..k
             /\ pos(Cardinality(upTo(i))) = i
  <2> DEFINE n == Cardinality(upTo(i))
  <2>1. n \in 1..k /\ \A m \in kept : Cardinality(upTo(m)) = n => m = i
    BY <1>1, <1>5, RankOfPosition
  <2>2. pos(n) = i
    BY <1>pos, <2>1
  <2> QED BY <2>1, <2>2
<1>7. \A n \in 1..k : pos(n) \in kept /\ Cardinality(upTo(pos(n))) = n
  <2> TAKE n \in 1..k
  <2>1. n \in 1..Cardinality(kept)
    BY <1>5
  <2>2. \E i \in kept : Cardinality({j \in kept : j <= i}) = n
    <3> HIDE DEF upTo
    <3>1. Len(rows) \in Nat /\ kept \subseteq 1..Len(rows)
      BY <1>1, <1>5
    <3> QED BY <2>1, <3>1, PositionOfRank
  <2>3. \E i \in kept : Cardinality(upTo(i)) = n
    BY <2>2
  <2> HIDE DEF upTo
  <2> QED BY <1>pos, <2>3
<1>8. \A m, n \in 1..k : m < n => pos(m) < pos(n)
  <2> TAKE m, n \in 1..k
  <2> HAVE m < n
  <2>1. pos(m) \in Nat /\ pos(n) \in Nat /\ \A j \in kept : j \in Nat
    BY <1>4, <1>5
  <2>2. CASE pos(n) <= pos(m)
    <3>1. upTo(pos(n)) \subseteq upTo(pos(m))
      BY <2>1, <2>2
    <3>2. IsFiniteSet(kept)
      <4>1. IsFiniteSet(1..Len(rows))
        BY <1>1, FS_Interval
      <4> QED BY <1>5, <4>1, FS_Subset
    <3>3. upTo(pos(m)) \subseteq kept
      OBVIOUS
    <3> HIDE DEF upTo
    <3>4. IsFiniteSet(upTo(pos(m)))
      BY <3>2, <3>3, FS_Subset
    <3>5. Cardinality(upTo(pos(n))) <= Cardinality(upTo(pos(m)))
      BY <3>1, <3>4, FS_Subset
    <3>6. n <= m
      BY <1>7, <3>5
    <3> QED BY <1>3, <3>6
  <2> QED BY <2>1, <2>2
<1>9. \A i \in 1..Len(rows) : rows[i].source # f => \E n \in 1..k : pos(n) = i
  BY <1>2, <1>6
<1> QED BY <1>3, <1>4, <1>8, <1>9 DEF pos

\* The elements of a concatenation.
LEMMA ConcatElements ==
    ASSUME NEW S, NEW s \in Seq(S), NEW t \in Seq(S)
    PROVE  /\ DOMAIN (s \o t) = 1..(Len(s) + Len(t)) /\ Len(t) \in Nat
           /\ \A n \in 1..Len(s) : (s \o t)[n] = s[n]
           /\ \A n \in 1..Len(t) : (s \o t)[Len(s) + n] = t[n]
<1>1. Len(s) \in Nat /\ Len(t) \in Nat
  OBVIOUS
<1>2. s \o t \in Seq(S) /\ Len(s \o t) = Len(s) + Len(t)
  OBVIOUS
<1>3. DOMAIN (s \o t) = 1..Len(s \o t)
  BY <1>2
<1>4. \A n \in 1..Len(s) : (s \o t)[n] = s[n]
  BY <1>1
<1>5. \A n \in 1..Len(t) : (s \o t)[Len(s) + n] = t[n]
  BY <1>1
<1> QED BY <1>1, <1>2, <1>3, <1>4, <1>5

\* A replacement leaves the versions of the other files as they are, and of the file replaced
\* it leaves the version it put there.
LEMMA ReplaceHolds ==
    ASSUME NEW p \in Procs, NEW f, metadata[p] \in Seq(Rows),
           NEW new \in Seq(Rows), \A i \in DOMAIN new : new[i].source = f
    PROVE  /\ \A g, t : g # f /\ HoldsVersion(metadata[p], g, t) => HoldsVersion(NewMetadata(p, f, new), g, t)
           /\ \A t \in Texts : new = RowsOf(f, t) => HoldsVersion(NewMetadata(p, f, new), f, t)
           /\ Sources(NewMetadata(p, f, new)) \subseteq (Sources(metadata[p]) \ {f}) \cup Sources(new)
<1> DEFINE old == metadata[p]
           k == Cardinality(Kept(KeepMask(old, f)))
           pos(n) == Position(old, f, n)
           rows == Masked(old, KeepMask(old, f))
           all == rows \o new
<1>1. IsSequence(old) /\ Len(old) \in Nat /\ DOMAIN old = 1..Len(old)
  <2>1. old = [i \in 1..Len(old) |-> old[i]] /\ Len(old) \in Nat
    OBVIOUS
  <2> HIDE DEF old
  <2> QED BY <2>1, FunctionIsSequence
<1>2. /\ k \in Nat
      /\ \A n \in 1..k : pos(n) \in 1..Len(old) /\ old[pos(n)].source # f
      /\ \A i \in 1..Len(old) : old[i].source # f => \E n \in 1..k : pos(n) = i
      /\ \A m, n \in 1..k : m < n => pos(m) < pos(n)
  BY PositionsInOrder
<1>3. \A n \in 1..k : rows[n] = old[pos(n)]
  BY <1>1, MaskedElements
<1>4. rows = [n \in 1..k |-> rows[n]]
  BY DEF Masked
<1>5. NewMetadata(p, f, new) = all
  BY DEF NewMetadata
<1>o. old \in Seq(Rows)
  OBVIOUS
<1> HIDE DEF old, k, pos, rows
<1>6. rows \in Seq(Rows) /\ Len(rows) = k
  <2>1. rows \in [1..k -> Rows]
    BY <1>o, <1>2, <1>3, <1>4
  <2> QED BY <1>2, <2>1
<1>7. /\ DOMAIN all = 1..(k + Len(new)) /\ Len(new) \in Nat
      /\ \A n \in 1..k : all[n] = old[pos(n)]
      /\ \A i \in 1..Len(new) : all[k + i] = new[i]
  <2> HIDE DEF all
  <2>1. all = rows \o new /\ new \in Seq(Rows)
    BY DEF all
  <2>2. /\ DOMAIN all = 1..(k + Len(new)) /\ Len(new) \in Nat
        /\ \A n \in 1..k : all[n] = rows[n]
        /\ \A i \in 1..Len(new) : all[k + i] = new[i]
    BY <1>6, <2>1, ConcatElements
  <2> QED BY <1>3, <2>2
<1>8. \A i \in DOMAIN all : i \notin 1..k => \E j \in 1..Len(new) : i = k + j
  <2> TAKE i \in DOMAIN all
  <2> HAVE i \notin 1..k
  <2>1. i - k \in 1..Len(new) /\ i = k + (i - k)
    BY <1>2, <1>7
  <2> QED BY <2>1
<1>9. \A j \in 1..Len(new) : new[j].source = f
  OBVIOUS
<1> HIDE DEF all
<1>10. ASSUME NEW g, NEW t, g # f, HoldsVersion(old, g, t)
       PROVE  HoldsVersion(all, g, t)
  <2> DEFINE here == {i \in DOMAIN all : all[i].source = g}
             there == {i \in DOMAIN old : old[i].source = g}
  <2>1. \A i \in here : i \in 1..k /\ pos(i) \in there /\ all[i] = old[pos(i)]
    BY <1>1, <1>2, <1>7, <1>8, <1>9, <1>10
  <2>2. \A j \in there : \E i \in here : pos(i) = j
    <3> TAKE j \in there
    <3>1. j \in 1..Len(old) /\ old[j].source # f
      BY <1>1, <1>10
    <3>2. PICK n \in 1..k : pos(n) = j
      BY <1>2, <3>1
    <3>3. n \in DOMAIN all /\ all[n] = old[j]
      BY <1>2, <1>7, <3>2
    <3> QED BY <3>2, <3>3
  <2>3. /\ \A i \in there : old[i].text = t
        /\ {old[i].chunk : i \in there} = 1..t.chunks
        /\ \A i, j \in there : i < j => old[i].chunk < old[j].chunk
    BY <1>10 DEF HoldsVersion
  <2> HIDE DEF here, there
  <2>4. \A i \in here : all[i].text = t
    BY <2>1, <2>3
  <2>5. {all[i].chunk : i \in here} = 1..t.chunks
    BY <2>1, <2>2, <2>3
  <2>6. \A i, j \in here : i < j => all[i].chunk < all[j].chunk
    BY <1>2, <2>1, <2>3
  <2> QED BY <2>4, <2>5, <2>6 DEF HoldsVersion, here
<1>11. ASSUME NEW t \in Texts, new = RowsOf(f, t)
       PROVE  HoldsVersion(all, f, t)
  <2> DEFINE here == {i \in DOMAIN all : all[i].source = f}
  <2>1. t.chunks \in Nat
    BY BoundsAssumption DEF Texts
  <2>2. Len(new) = t.chunks /\ \A j \in 1..t.chunks : new[j].text = t /\ new[j].chunk = j
    BY <1>11, <2>1 DEF RowsOf
  <2>3. \A i \in here : \E j \in 1..t.chunks : i = k + j /\ all[i] = new[j]
    BY <1>2, <1>7, <1>8, <2>2
  <2>4. \A j \in 1..t.chunks : k + j \in here /\ all[k + j] = new[j]
    BY <1>2, <1>7, <1>9, <2>1, <2>2
  <2> HIDE DEF here
  <2>5. \A i \in here : all[i].text = t
    BY <2>2, <2>3
  <2>6. {all[i].chunk : i \in here} = 1..t.chunks
    <3>1. \A i \in here : all[i].chunk \in 1..t.chunks
      BY <2>2, <2>3
    <3>2. \A j \in 1..t.chunks : \E i \in here : all[i].chunk = j
      BY <2>2, <2>4
    <3> QED BY <3>1, <3>2
  <2>7. \A i, j \in here : i < j => all[i].chunk < all[j].chunk
    BY <1>2, <2>1, <2>2, <2>3
  <2> QED BY <2>5, <2>6, <2>7 DEF HoldsVersion, here
<1>12. Sources(all) \subseteq (Sources(old) \ {f}) \cup Sources(new)
  <2> SUFFICES ASSUME NEW i \in DOMAIN all PROVE all[i].source \in (Sources(old) \ {f}) \cup Sources(new)
    BY DEF Sources
  <2>1. CASE i \in 1..k
    BY <1>1, <1>2, <1>7, <2>1 DEF Sources
  <2>2. CASE i \notin 1..k
    BY <1>7, <1>8, <2>2 DEF Sources
  <2> QED BY <2>1, <2>2
<1> QED BY <1>5, <1>10, <1>11, <1>12 DEF old

-----------------------------------------------------------------------------
(* Whole versions, and what a walk reports is stored *)

Whole(rows) == \A f \in Sources(rows) : \E t \in Texts : HoldsVersion(rows, f, t)

Saving == {"save_index", "save_metadata"}

\* What a process that holds a store holds of it: whole versions, among them the one it is
\* saving and, of the files behind it, those it indexed; and between two files, if nobody
\* else wrote, the disk holds what it holds from its first save on.
Hold(p) ==
    /\ pc[p] \in Saving \cup {"embed"} => \E t \in Texts : items[p] = RowsOf(next[p], t)
    /\ pc[p] \in Saving => HoldsVersion(metadata[p], next[p], items[p][1].text)
    /\ pc[p] \in Loaded =>
          /\ Whole(metadata[p])
          /\ \A x \in indexed[p] :
                x.source < next[p] /\ HoldsVersion(metadata[p], x.source, x.text)
    /\ pc[p] \in {"ready", "embed", "done"} /\ ~disturbed[p] /\ indexed[p] # {} =>
          meta.rows = metadata[p] /\ index.rows = matrix[p]
    /\ pc[p] = "save_metadata" /\ ~disturbed[p] => index.rows = matrix[p]

HoldInv == FullInv /\ Whole(meta.rows) /\ \A p \in Procs : Hold(p)

\* A step of one process that writes disturbs the others; any other leaves them as they were.
LEMMA HoldOthers ==
    ASSUME \A q \in Procs : Hold(q), NEW p \in Procs, Hold(p)',
           \A q \in Procs : q # p =>
               /\ pc'[q] = pc[q] /\ next'[q] = next[q] /\ items'[q] = items[q]
               /\ metadata'[q] = metadata[q] /\ matrix'[q] = matrix[q] /\ indexed'[q] = indexed[q]
               /\ disturbed'[q] \/ (disturbed'[q] = disturbed[q] /\ UNCHANGED disk)
    PROVE  \A q \in Procs : Hold(q)'
<1> SUFFICES ASSUME NEW q \in Procs, q # p PROVE Hold(q)'
  OBVIOUS
<1>1. Hold(q)
  OBVIOUS
<1>2. CASE disturbed'[q]
  BY <1>1, <1>2 DEF Hold, Saving, Loaded
<1>3. CASE disturbed'[q] = disturbed[q] /\ UNCHANGED disk
  BY <1>1, <1>3 DEF Hold, disk
<1> QED BY <1>2, <1>3

\* A process without a loaded store holds nothing.
LEMMA HoldNothing ==
    ASSUME NEW p \in Procs, pc[p] \notin Loaded
    PROVE  Hold(p)
BY DEF Hold, Saving, Loaded

LEMMA EmptyIsWhole == Whole(<<>>)
BY DEF Whole, Sources

LEMMA HoldLoad ==
    ASSUME HoldInv, NEW p \in Procs, Load(p)
    PROVE  Whole(meta.rows)' /\ \A q \in Procs : Hold(q)'
<1> USE DEF HoldInv, FullInv, TypeOK
<1>1. UNCHANGED disk
  BY DEF Load, Start, StatMetadata, ReadIndex, ReadMetadata
<1>2. Whole(meta.rows)'
  BY <1>1 DEF disk
<1>3. \A q \in Procs : q # p =>
          /\ pc'[q] = pc[q] /\ next'[q] = next[q] /\ items'[q] = items[q]
          /\ metadata'[q] = metadata[q] /\ matrix'[q] = matrix[q] /\ indexed'[q] = indexed[q]
          /\ disturbed'[q] = disturbed[q]
  BY DEF Load, Start, StatMetadata, ReadIndex, ReadMetadata, Forget
<1>4. Hold(p)'
  <2>1. CASE pc'[p] \notin Loaded
    BY <2>1 DEF Hold, Saving, Loaded
  <2>2. CASE pc'[p] \in Loaded
    <3>1. StatMetadata(p) \/ ReadMetadata(p)
      BY <2>2 DEF Load, Start, ReadIndex, Loaded
    <3>2. pc'[p] = "ready"
      BY <2>2, <3>1 DEF StatMetadata, ReadMetadata, Loaded
    <3>3. indexed'[p] = {}
      BY <3>1 DEF StatMetadata, ReadMetadata, WalkInv, Heal, Loaded
    <3>4. Whole(metadata'[p])
      <4>1. CASE StatMetadata(p)
        BY <4>1, EmptyIsWhole DEF StatMetadata, StoreInv, EmptyBeforeLoad
      <4>2. CASE ReadMetadata(p)
        BY <4>2 DEF ReadMetadata
      <4> QED BY <3>1, <4>1, <4>2
    <3>5. Whole(metadata[p])'
      BY <3>4 DEF Whole
    <3> QED BY <3>2, <3>3, <3>5 DEF Hold, Saving
  <2> QED BY <2>1, <2>2
<1> QED BY <1>1, <1>2, <1>3, <1>4, HoldOthers

\* The rows put in place are those of the file, or none.
LEMMA HoldReplace ==
    ASSUME HoldInv, NEW p \in Procs, Embedded(p) \/ VectorsInvalid(p)
    PROVE  Whole(meta.rows)' /\ \A q \in Procs : Hold(q)'
<1> USE DEF HoldInv, FullInv, TypeOK
<1>1. UNCHANGED disk /\ pc[p] = "embed" /\ pc[p] \in Loaded
  BY DEF Embedded, VectorsInvalid, Loaded
<1>2. Whole(meta.rows)'
  BY <1>1 DEF disk
<1>3. Hold(p)
  OBVIOUS
<1>4. PICK t \in Texts : items[p] = RowsOf(next[p], t)
  BY <1>1, <1>3 DEF Hold
<1>5. \A i \in DOMAIN items[p] : items[p][i].source = next[p]
  BY <1>4 DEF RowsOf
<1>6. items[p][1].text = t
  <2>1. 1 \in 1..t.chunks
    BY BoundsAssumption DEF Texts
  <2> QED BY <1>4, <2>1 DEF RowsOf
<1>7. Whole(metadata[p])
  BY <1>1, <1>3 DEF Hold
<1>8. \A x \in indexed[p] : x.source < next[p] /\ HoldsVersion(metadata[p], x.source, x.text)
  BY <1>1, <1>3 DEF Hold
<1>9. next[p] \in Nat /\ \A x \in indexed[p] : x.source \in Nat
  BY DEF Files
<1>10. CASE Embedded(p)
  <2> DEFINE R == NewMetadata(p, next[p], items[p])
  <2>1. /\ \A g, u : g # next[p] /\ HoldsVersion(metadata[p], g, u) => HoldsVersion(R, g, u)
        /\ \A u \in Texts : items[p] = RowsOf(next[p], u) => HoldsVersion(R, next[p], u)
        /\ Sources(R) \subseteq (Sources(metadata[p]) \ {next[p]}) \cup Sources(items[p])
    BY <1>5, ReplaceHolds
  <2>2. metadata'[p] = R /\ pc'[p] = "save_index" /\ UNCHANGED <<next, items, indexed, disturbed>>
    BY <1>10 DEF Embedded
  <2>3. Sources(items[p]) \subseteq {next[p]}
    BY <1>5 DEF Sources
  <2> HIDE DEF R
  <2>4. HoldsVersion(R, next[p], t)
    BY <1>4, <2>1
  <2>5. Whole(R)
    BY <1>7, <2>1, <2>3, <2>4 DEF Whole
  <2>6. \A x \in indexed[p] : x.source < next[p] /\ HoldsVersion(R, x.source, x.text)
    BY <1>8, <1>9, <2>1
  <2>7. /\ Whole(metadata[p])'
        /\ \A x \in indexed'[p] : x.source < next'[p] /\ HoldsVersion(metadata[p], x.source, x.text)'
        /\ HoldsVersion(metadata[p], next[p], items[p][1].text)'
    <3>1. metadata'[p] = R /\ indexed'[p] = indexed[p] /\ next'[p] = next[p] /\ items'[p][1].text = t
      BY <1>6, <2>2
    <3>2. Whole(metadata'[p]) /\ HoldsVersion(metadata'[p], next'[p], items'[p][1].text)
      BY <2>4, <2>5, <3>1
    <3>3. \A x \in indexed'[p] : x.source < next'[p] /\ HoldsVersion(metadata'[p], x.source, x.text)
      BY <2>6, <3>1
    <3> QED BY <3>2, <3>3
  <2>8. Hold(p)'
    BY <1>4, <2>2, <2>7 DEF Hold, Saving
  <2> QED BY <1>1, <1>2, <1>10, <2>8, HoldOthers DEF Embedded
<1>11. CASE VectorsInvalid(p)
  <2> DEFINE R == NewMetadata(p, next[p], <<>>)
  <2>0. <<>> \in Seq(Rows) /\ Sources(<<>>) = {} /\ DOMAIN <<>> = {}
    BY DEF Sources
  <2>1. /\ \A g, u : g # next[p] /\ HoldsVersion(metadata[p], g, u) => HoldsVersion(R, g, u)
        /\ Sources(R) \subseteq (Sources(metadata[p]) \ {next[p]})
    BY <2>0, ReplaceHolds
  <2>2. metadata'[p] = R /\ pc'[p] = "raised" /\ UNCHANGED <<next, items, indexed, disturbed>>
    BY <1>11 DEF VectorsInvalid, AfterInvalidVectors
  <2> HIDE DEF R
  <2>5. Whole(R)
    BY <1>7, <2>1 DEF Whole
  <2>6. \A x \in indexed[p] : x.source < next[p] /\ HoldsVersion(R, x.source, x.text)
    BY <1>8, <1>9, <2>1
  <2>7. /\ Whole(metadata[p])'
        /\ \A x \in indexed'[p] : x.source < next'[p] /\ HoldsVersion(metadata[p], x.source, x.text)'
    <3>1. metadata'[p] = R /\ indexed'[p] = indexed[p] /\ next'[p] = next[p]
      BY <2>2
    <3>2. Whole(metadata'[p])
      BY <2>5, <3>1
    <3>3. \A x \in indexed'[p] : x.source < next'[p] /\ HoldsVersion(metadata'[p], x.source, x.text)
      BY <2>6, <3>1
    <3> QED BY <3>2, <3>3
  <2>8. Hold(p)'
    BY <2>2, <2>7 DEF Hold, Saving
  <2> QED BY <1>1, <1>2, <1>11, <2>8, HoldOthers DEF VectorsInvalid
<1> QED BY <1>10, <1>11

LEMMA HoldIngest ==
    ASSUME HoldInv, NEW p \in Procs, Ingest(p)
    PROVE  Whole(meta.rows)' /\ \A q \in Procs : Hold(q)'
<1> USE DEF HoldInv, FullInv, TypeOK
<1>h. Hold(p)
  OBVIOUS
<1>n. next[p] \in Nat /\ \A x \in indexed[p] : x.source \in Nat
  BY DEF Files
<1>1. CASE FilePassedOver(p) \/ EmbeddingFails(p) \/ SaveFails(p) \/ WalkEnds(p)
  <2>1. /\ UNCHANGED <<disk, disturbed, metadata, matrix, indexed>> /\ next'[p] \in {next[p], next[p] + 1}
        /\ pc[p] \in Loaded /\ pc'[p] \in {"ready", "done", "raised"}
        /\ pc[p] \in {"ready", "embed"} \/ pc'[p] = "raised"
    BY <1>1 DEF FilePassedOver, EmbeddingFails, SaveFails, WalkEnds, Store, Loaded
  <2>2. Whole(meta.rows)'
    BY <2>1 DEF disk
  <2>3. Whole(metadata[p])'
    BY <1>h, <2>1 DEF Hold
  <2>4. \A x \in indexed'[p] : x.source < next'[p] /\ HoldsVersion(metadata[p], x.source, x.text)'
    BY <1>h, <1>n, <2>1 DEF Hold
  <2>5. Hold(p)'
    BY <1>h, <2>1, <2>3, <2>4 DEF Hold, Saving, disk
  <2> QED BY <1>1, <2>1, <2>2, <2>5, HoldOthers DEF FilePassedOver, EmbeddingFails, SaveFails, WalkEnds
<1>2. CASE FileRead(p)
  <2>1. /\ UNCHANGED <<disk, disturbed, metadata, matrix, indexed, next>>
        /\ pc[p] = "ready" /\ pc'[p] = "embed" /\ items'[p] = RowsOf(next[p], file[next[p]].text)
    BY <1>2 DEF FileRead, Store
  <2>2. file[next[p]].text \in Texts
    BY <1>2 DEF FileRead, FileStates
  <2>3. Whole(meta.rows)'
    BY <2>1 DEF disk
  <2>4. \E t \in Texts : items'[p] = RowsOf(next'[p], t)
    BY <2>1, <2>2
  <2>5. Hold(p)'
    BY <1>h, <2>1, <2>4 DEF Hold, Saving, Loaded, disk
  <2> QED BY <1>2, <2>1, <2>3, <2>5, HoldOthers DEF FileRead
<1>3. CASE Embedded(p) \/ VectorsInvalid(p)
  BY <1>3, HoldReplace
<1>4. CASE SaveIndex(p)
  <2>1. /\ UNCHANGED <<meta, metadata, matrix, indexed, next, items>> /\ index'.rows = matrix[p]
        /\ pc[p] = "save_index" /\ pc'[p] = "save_metadata"
        /\ \A q \in Procs : q # p => disturbed'[q]
    BY <1>4 DEF SaveIndex, Writes, Store
  <2>2. Hold(p)'
    BY <1>h, <2>1 DEF Hold, Saving, Loaded
  <2> QED BY <1>4, <2>1, <2>2, HoldOthers DEF SaveIndex
<1>5. CASE SaveMetadata(p)
  <2>1. /\ UNCHANGED <<index, metadata, matrix>> /\ meta'.rows = metadata[p]
        /\ pc[p] = "save_metadata" /\ pc'[p] = "ready" /\ disturbed'[p] = disturbed[p]
        /\ \A q \in Procs : q # p => disturbed'[q]
        /\ indexed'[p] = indexed[p] \cup {[source |-> next[p], text |-> items[p][1].text]}
        /\ next'[p] = next[p] + 1
    BY <1>5 DEF SaveMetadata, SavedRows, Writes, Store
  <2>2. Whole(metadata[p]) /\ Whole(metadata[p])'
    BY <1>h, <2>1 DEF Hold, Loaded
  <2>3. Whole(meta.rows)'
    BY <2>1, <2>2
  <2>4. HoldsVersion(metadata[p], next[p], items[p][1].text)
    BY <1>h, <2>1 DEF Hold, Saving
  <2>5. \A x \in indexed[p] : x.source < next[p] /\ HoldsVersion(metadata[p], x.source, x.text)
    BY <1>h, <2>1 DEF Hold, Loaded
  <2>6. \A x \in indexed'[p] : x.source < next'[p] /\ HoldsVersion(metadata[p], x.source, x.text)
    BY <1>n, <2>1, <2>4, <2>5
  <2>7. \A x \in indexed'[p] : x.source < next'[p] /\ HoldsVersion(metadata[p], x.source, x.text)'
    BY <2>1, <2>6
  <2>8. ~disturbed'[p] => meta'.rows = metadata'[p] /\ index'.rows = matrix'[p]
    BY <1>h, <2>1 DEF Hold
  <2>9. Hold(p)'
    BY <2>1, <2>2, <2>7, <2>8 DEF Hold, Saving
  <2> QED BY <1>5, <2>1, <2>3, <2>9, HoldOthers DEF SaveMetadata, Store
<1> QED BY <1>1, <1>2, <1>3, <1>4, <1>5 DEF Ingest

LEMMA HoldNext == HoldInv /\ [Next]_vars => HoldInv'
<1> SUFFICES ASSUME HoldInv, [Next]_vars PROVE HoldInv'
  OBVIOUS
<1>1. FullInv'
  BY FullNext DEF HoldInv
<1>2. CASE \E f \in Files, indexable \in BOOLEAN, chunks \in 1..MaxChunks :
              Edit(f, indexable, chunks)
  BY <1>1, <1>2 DEF Edit, disk, HoldInv, Hold
<1>3. CASE \E p \in Procs : Load(p) \/ Ingest(p)
  BY <1>1, <1>3, HoldLoad, HoldIngest DEF HoldInv
<1>4. CASE \E p \in Procs : Crash(p)
  <2> PICK p \in Procs : Crash(p)
    BY <1>4
  <2>1. pc' = [pc EXCEPT ![p] = "down"] /\ UNCHANGED disk /\ pc \in [Procs -> Running \cup Stopped]
    BY DEF Crash, HoldInv, FullInv, TypeOK
  <2>2. Hold(p)'
    BY <2>1 DEF Hold, Saving, Loaded
  <2>3. \A q \in Procs : Hold(q)'
    BY <2>1, <2>2, HoldOthers DEF HoldInv, FullInv, TypeOK, Crash, Forget
  <2> QED BY <1>1, <2>1, <2>3 DEF HoldInv, disk
<1>5. CASE UNCHANGED vars
  BY <1>1, <1>5 DEF vars, disk, HoldInv, Hold
<1> QED BY <1>2, <1>3, <1>4, <1>5 DEF Next

LEMMA HoldInit == Init => HoldInv
<1> SUFFICES ASSUME Init PROVE HoldInv
  OBVIOUS
<1>1. FullInv
  BY FullInit
<1>2. Whole(meta.rows)
  BY EmptyIsWhole DEF Init, Absent
<1>3. \A p \in Procs : Hold(p)
  BY HoldNothing DEF Init, Loaded
<1> QED BY <1>1, <1>2, <1>3 DEF HoldInv

\* Of every file, the store on disk and that of every process hold all the chunks of one of
\* its versions, in order, whatever crashed, failed or was overwritten (local_memory.py:135-161).
THEOREM VersionsAreWhole == Spec => []WholeVersions
<1>1. HoldInv => WholeVersions
  BY DEF HoldInv, Hold, WholeVersions, Whole
<1> QED BY <1>1, HoldInit, HoldNext, PTL DEF Spec

\* A walk that nobody disturbed leaves on disk the very text it read of each file it reports as
\* indexed, and its vectors if it loaded a paired store (ingestor.py:108-125).
THEOREM IndexedAreStored == Spec => []IndexedIsStored
<1>1. HoldInv => IndexedIsStored
  <2> SUFFICES ASSUME HoldInv, NEW p \in Procs, pc[p] = "done", ~disturbed[p], NEW x \in indexed[p]
               PROVE  /\ HoldsVersion(meta.rows, x.source, x.text)
                      /\ paired[p] => HoldsVersion(index.rows, x.source, x.text)
    BY DEF IndexedIsStored
  <2>1. Hold(p) /\ pc[p] \in Loaded
    BY DEF HoldInv, Loaded
  <2>2. meta.rows = metadata[p] /\ index.rows = matrix[p] /\ HoldsVersion(metadata[p], x.source, x.text)
    BY <2>1 DEF Hold
  <2>3. paired[p] => matrix[p] = metadata[p]
    BY <2>1 DEF HoldInv, FullInv, StoreInv, OnlyALoadUnpairs
  <2> QED BY <2>2, <2>3
<1> QED BY <1>1, HoldInit, HoldNext, PTL DEF Spec
=============================================================================
