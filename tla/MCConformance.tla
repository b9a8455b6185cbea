---------------------------- MODULE MCConformance ----------------------------
(***************************************************************************)
(* Model-checking module for Conformance: a schema of one table.           *)
(***************************************************************************)
EXTENDS Conformance

Schema == [t \in {"orders"} |-> {"id"}]
=============================================================================
