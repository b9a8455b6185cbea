----------------------------- MODULE MCPipeline -----------------------------
(***************************************************************************)
(* Model-checking module for Pipeline: the abstract specification it       *)
(* implements, and the claims of the repository it does not meet.          *)
(***************************************************************************)
EXTENDS Pipeline, FiniteSetsExt

\* The draft the last implementation check was about.
Judged == IF CheckEntries = {} THEN 0 ELSE trace[Max(CheckEntries)].implementation

Contract == INSTANCE ReviewedRequest WITH
    Budget <- WorkBudget,
    Rounds <- MaxQA + 1,
    status <- IF pc = "raised" THEN "raised" ELSE receipt.status,
    spent <- Len(trace),
    quick <- decision \in FastPathCategories,
    draft <- implementation,
    judged <- Judged,
    accepted <- qa.approved,
    verdicts <- qa.attempts

\* The pipeline implements the caller's contract: bounded work, one end, and a verdict in a
\* full run's receipt that is about the draft delivered.
ImplementsContract == Contract!Spec

-----------------------------------------------------------------------------
(* Claims of the repository that the code does not meet *)

\* "Every call - including a failed or timed-out one - returns a JSON receipt"
\* (README.md:137): no call of run_complex_task ends in an exception.
EveryCallReturnsAReceipt == pc \in EndPCs => receipt.status # "none"

\* A failed receipt's error.stage is the stage the run died in
\* (docs/plan-receipt-interface-callers.md:33 and :103).
FailureNamesItsStage == receipt.status = "failed" => receipt.errorStage = receipt.inFlight
=============================================================================
