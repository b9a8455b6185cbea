---------------------------- MODULE MCVectorStore ----------------------------
(***************************************************************************)
(* Model-checking module for VectorStore: the symmetry of its processes,   *)
(* and the claims of the code's comments it does not meet.                 *)
(***************************************************************************)
EXTENDS VectorStore, TLC

\* Processes differ in nothing but what they do.
ProcSymmetry == Permutations(Procs)

\* "Atomically saves current vectors and metadata to disk" (local_memory.py:70): a process
\* whose load accepts the store has the vectors and the rows of one save.
LoadSeesOneSave == \A p \in Procs : pc[p] \in Loaded => paired[p]
=============================================================================
