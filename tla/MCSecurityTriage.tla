-------------------------- MODULE MCSecurityTriage --------------------------
(***************************************************************************)
(* Model-checking module for SecurityTriage, and a claim of its plan that  *)
(* it does not meet for every allowed setting of the two timeouts.         *)
(***************************************************************************)
EXTENDS SecurityTriage

\* On a timeout the process is killed (docs/plan-security-advisor-antares.md:195).
TimeoutKillsProcess == terminal = "timeout" => proc # "running"
=============================================================================
