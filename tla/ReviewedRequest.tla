--------------------------- MODULE ReviewedRequest ---------------------------
(***************************************************************************)
(* What a caller of run_complex_task relies on, without the stages: the    *)
(* engine spends a bounded number of model calls on drafts and verdicts,   *)
(* and ends once.  A full run is delivered only with a verdict about the   *)
(* draft it delivers, and only when that verdict is an approval or the     *)
(* rounds are used up.  A quick answer carries no verdict.                 *)
(***************************************************************************)
EXTENDS Naturals

CONSTANTS
    Budget,   \* most model calls a request may spend, a natural number
    Rounds    \* most verdicts about drafts, at least 1

VARIABLES
    status,    \* "none" until the request ends
    spent,     \* model calls answered
    quick,     \* the request was routed past all review
    draft,     \* the current draft, named by the call that wrote it; 0 for none
    judged,    \* the draft the last verdict was about
    accepted,  \* that verdict
    verdicts   \* verdicts given so far

vars == <<status, spent, quick, draft, judged, accepted, verdicts>>

Init ==
    /\ status = "none"
    /\ spent = 0
    /\ quick = FALSE
    /\ draft = 0
    /\ judged = 0
    /\ accepted = FALSE
    /\ verdicts = 0

Spend ==
    /\ status = "none"
    /\ spent < Budget
    /\ spent' = spent + 1

\* A call that writes no draft and judges none; the first one may take the quick way.
Work ==
    /\ Spend
    /\ quick' \in IF spent = 0 THEN BOOLEAN ELSE {quick}
    /\ UNCHANGED <<status, draft, judged, accepted, verdicts>>

\* A new draft, unless the current one was accepted or the rounds are used up.
Draft ==
    /\ Spend
    /\ ~accepted
    /\ verdicts < Rounds
    /\ draft' = spent + 1
    /\ UNCHANGED <<status, quick, judged, accepted, verdicts>>

Judge ==
    /\ Spend
    /\ ~quick
    /\ draft # judged
    /\ verdicts < Rounds
    /\ verdicts' = verdicts + 1
    /\ judged' = draft
    /\ accepted' \in BOOLEAN
    /\ UNCHANGED <<status, quick, draft>>

Deliver ==
    /\ status = "none"
    /\ draft # 0
    /\ quick \/ (judged = draft /\ (accepted \/ verdicts = Rounds))
    /\ status' = "completed"
    /\ UNCHANGED <<spent, quick, draft, judged, accepted, verdicts>>

\* The call ends without a result: a failure, the deadline, an exception.
Break ==
    /\ status = "none"
    /\ status' \in {"failed", "timeout", "raised"}
    /\ UNCHANGED <<spent, quick, draft, judged, accepted, verdicts>>

Next == Work \/ Draft \/ Judge \/ Deliver \/ Break

Spec == Init /\ [][Next]_vars
=============================================================================
