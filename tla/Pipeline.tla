------------------------------ MODULE Pipeline ------------------------------
(***************************************************************************)
(* One call of Orchestrator.run_complex_task: router, context preparation, *)
(* design gate, implementation loop, closing report, schema conformance,   *)
(* security triage, and the receipt the caller gets                        *)
(* (core/pipeline/runner.py and the stages it runs).                       *)
(*                                                                         *)
(* The pipeline is one asyncio task: it runs without interruption between  *)
(* two awaits.  `pc` names the await the task is suspended in, or the      *)
(* synchronous stage it is about to run.  The run deadline                 *)
(* (asyncio.wait_for) can only cut the task at an await.                   *)
(*                                                                         *)
(* A text a model produced is identified by the position in the trace of   *)
(* the call that produced it; 0 means there is no such text yet.           *)
(***************************************************************************)
EXTENDS Naturals, Sequences, FiniteSets

CONSTANTS
    NSections,   \* number of plan sections the design gate reviews (SECTION_NAMES)
    MaxQA        \* pipeline.max_qa_iterations: revisions a review loop may ask for

ASSUME NSectionsAssumption == NSections \in Nat \ {0}
ASSUME MaxQAAssumption == MaxQA \in Nat

VARIABLES
    request,        \* what the caller asked for and the settings that steer the run
    pc,             \* the await or synchronous stage the task is at
    decision,       \* ctx.decision
    outline,        \* ctx.breakdown: none yet, the previous run's, or a fresh one
    context,        \* whether ctx.context was assembled, and with the outline or not
    plan,           \* per section, the text of the plan under review or implemented
    implementation, \* the implementation text
    section,        \* section the design gate reviews; 0 when the plan is reviewed whole
    attempt,        \* ReviewLoop's attempt counter
    gate,           \* ctx.design_gate_outcome, `approved` accumulating as the gate runs
    qa,             \* ctx.qa_approved, qa_feedback, implementation_check_attempts
    deviation,      \* ctx.deviation
    checked,        \* implementation the conformance check looked at
    outcomes,       \* OutcomeRecorder: for each stage, its `ran` flag once recorded
    trace,          \* the request's trace: one entry per answered model call
    receipt         \* what run_complex_task returns

vars == <<request, pc, decision, outline, context, plan, implementation, section,
          attempt, gate, qa, deviation, checked, outcomes, trace, receipt>>

Sections == 1..NSections

-----------------------------------------------------------------------------
(* Values *)

RouterCategories == {"SIMPLE_TASK", "COMPLEX_ARCHITECTURE", "CODING_REQUEST", "ERROR_REACTION"}
FastPathCategories == {"SIMPLE_TASK", "ERROR_REACTION"}

Verdicts == {"APPROVED", "NEEDS_REVISION"}
Deviations == {"NONE", "JUSTIFIED", "UNEXPLAINED", "UNKNOWN"}

\* prior: a macro-loop re-entry (prior_breakdown given); schema: a schema snapshot was
\* given; cwe: CWE checks were requested; the other fields are settings.
Requests == [prior : BOOLEAN, schema : BOOLEAN, cwe : BOOLEAN,
             runCap : BOOLEAN, closingReport : BOOLEAN, identifierCheck : BOOLEAN]

OutcomeStages == {"rag", "schema_grounding", "context_budget", "design_gate",
                  "implementation_check", "closing_report"}
RecordedOutcomes == [OutcomeStages -> {"absent", "skipped", "ran"}]
NothingRecorded == [s \in OutcomeStages |-> "absent"]

Plans == [Sections -> Nat]
NoPlan == [s \in Sections |-> 0]

Stages == {"routing", "fast_path", "task_breakdown", "design_plan", "design_gate",
           "design_revision", "implementation", "implementation_check", "closing_report"}

\* `plan` and `implementation` are the texts in the call's prompt: the code's entries do
\* not hold them, the properties below relate a verdict to what it was given about.
Entries == [stage : Stages, attempt : Nat, section : Sections \cup {0},
            verdict : Verdicts \cup {"none"}, plan : Plans, implementation : Nat]

Entry(stage, att, sec, verdict, p, i) ==
    [stage |-> stage, attempt |-> att, section |-> sec, verdict |-> verdict,
     plan |-> p, implementation |-> i]

PlainEntry(stage, att) == Entry(stage, att, 0, "none", NoPlan, 0)

GateOutcomes == [mode : {"none", "sectioned", "monolithic"}, approved : BOOLEAN,
                 sections : [Sections -> BOOLEAN]]
NoGate == [mode |-> "none", approved |-> TRUE, sections |-> [s \in Sections |-> FALSE]]

QAStates == [approved : BOOLEAN, feedback : BOOLEAN, attempts : Nat]
NotChecked == [approved |-> FALSE, feedback |-> FALSE, attempts |-> 0]

TriageStates == {"none", "not-requested", "snapshot-unavailable", "artifact-missing", "completed",
                 "degraded", "timeout", "internal-error"}

Receipts == [status : {"none", "completed", "failed", "timeout"},
             errorStage : Stages \cup {"none"}, inFlight : Stages \cup {"none", "rag"},
             outcomes : RecordedOutcomes,
             gate : GateOutcomes, qa : QAStates, fastPath : BOOLEAN,
             plan : Plans, implementation : Nat, outline : {"none", "prior", "fresh"},
             deviation : Deviations \cup {"none"}, checked : Nat, triage : TriageStates]

NoReceipt ==
    [status |-> "none", errorStage |-> "none", inFlight |-> "none",
     outcomes |-> NothingRecorded, gate |-> NoGate, qa |-> NotChecked, fastPath |-> FALSE,
     plan |-> NoPlan, implementation |-> 0, outline |-> "none",
     deviation |-> "none", checked |-> 0, triage |-> "none"]

-----------------------------------------------------------------------------
(* Where the task can be *)

\* The stage of the model call the task awaits at each pc.
CallStage == [routing |-> "routing", fast_path |-> "fast_path",
              task_breakdown |-> "task_breakdown", design_plan |-> "design_plan",
              gate_review |-> "design_gate", gate_revise |-> "design_revision",
              implementation |-> "implementation", impl_review |-> "implementation_check",
              impl_revise_plan |-> "design_revision", impl_revise_code |-> "implementation",
              closing_report |-> "closing_report"]

ModelPCs == DOMAIN CallStage
BodyAwaits == ModelPCs \cup {"rag"}
SyncPCs == {"reentry", "schema", "assembly", "reuse_outline", "skip_closing_report",
            "conformance"}
EndPCs == {"returned", "raised"}
PCs == BodyAwaits \cup SyncPCs \cup {"triage"} \cup EndPCs

-----------------------------------------------------------------------------
(* Parsing *)

\* A router reply is where in it each category is first named (0: it starts the reply).
\* The reply's first word decides; otherwise the first full-pipeline category named, then
\* the first fast-path one, then the conservative default.
FirstNamed(at, C) == CHOOSE c \in C : \A d \in C : at[c] <= at[d]

RouterDecision(at) ==
    LET named == DOMAIN at
        full == named \ FastPathCategories
    IN  IF \E c \in named : at[c] = 0 THEN CHOOSE c \in named : at[c] = 0
        ELSE IF full # {} THEN FirstNamed(at, full)
        ELSE IF named # {} THEN FirstNamed(at, named)
        ELSE "COMPLEX_ARCHITECTURE"

RouterReplies ==
    UNION {{at \in [C -> 0..Cardinality(RouterCategories)] :
                \A c, d \in C : at[c] = at[d] => c = d} : C \in SUBSET RouterCategories}

\* A QA reply is the verdict words it carries, in order: the first one counts, and a reply
\* without any is a rejection.
QAReplies == {<<>>} \cup {<<v>> : v \in Verdicts} \cup (Verdicts \X Verdicts)
Approves(reply) == reply # <<>> /\ Head(reply) = "APPROVED"
VerdictOf(approved) == IF approved THEN "APPROVED" ELSE "NEEDS_REVISION"

-----------------------------------------------------------------------------
(* Helpers of the review loops *)

\* Mutant: the loop counts one round too many.
LoopEndsLate(approved) == approved \/ attempt = MaxQA + 1
\* ReviewLoop.run returns after this review, otherwise it asks for a revision.
LoopEnds(approved) == approved \/ attempt = MaxQA

NextCall == Len(trace) + 1

\* Mutant: the new section text is written over the whole plan.
RevisedWrongSection(p, sec) == [s \in Sections |-> NextCall]
\* The plan with `sec` (or all of it, for 0) replaced by the text the answered call gave.
Revised(p, sec) == [s \in Sections |-> IF sec \in {0, s} THEN NextCall ELSE p[s]]

\* Whether the last design_gate entry of section s in trace tr approved it.
SectionApproved(tr, s) ==
    \E i \in DOMAIN tr :
        /\ tr[i].stage = "design_gate" /\ tr[i].section = s /\ tr[i].verdict = "APPROVED"
        /\ \A j \in DOMAIN tr : tr[j].stage = "design_gate" /\ tr[j].section = s => j <= i

\* Mutant: the gate's verdict is that of its last section.
AllApprovedLast(approved) == approved
AllApproved(approved) == gate.approved /\ approved

-----------------------------------------------------------------------------
Init ==
    /\ request \in Requests
    /\ pc = IF request.prior THEN "reentry" ELSE "routing"
    /\ decision = "none"
    /\ outline = "none"
    /\ context = "none"
    /\ plan = NoPlan
    /\ implementation = 0
    /\ section = 0
    /\ attempt = 0
    /\ gate = NoGate
    /\ qa = NotChecked
    /\ deviation = "none"
    /\ checked = 0
    /\ outcomes = NothingRecorded
    /\ trace = <<>>
    /\ receipt = NoReceipt

-----------------------------------------------------------------------------
(* Router and context preparation *)

Prepared == <<plan, implementation, section, attempt, gate, qa, deviation, checked, receipt>>

\* A macro-loop re-entry skips the router and forces the full pipeline.
RouteReentry ==
    /\ pc = "reentry"
    /\ decision' = "COMPLEX_ARCHITECTURE"
    /\ pc' = "schema"
    /\ UNCHANGED <<request, outline, context, outcomes, trace, Prepared>>

RouterAnswers(reply) ==
    /\ pc = "routing"
    /\ decision' = RouterDecision(reply)
    /\ trace' = Append(trace, PlainEntry("routing", 0))
    /\ pc' = IF decision' \in FastPathCategories THEN "fast_path" ELSE "schema"
    /\ UNCHANGED <<request, outline, context, outcomes, Prepared>>

\* Mutant: a stage is left out of the list.
SkippedStagesShort == OutcomeStages \ {"closing_report"}
SkippedStages == OutcomeStages

\* The Manager answers a fast-path query; every stage is recorded as not run.
FastPathAnswers ==
    /\ pc = "fast_path"
    /\ trace' = Append(trace, PlainEntry("fast_path", 0))
    /\ implementation' = NextCall
    /\ outcomes' = [s \in OutcomeStages |-> IF s \in SkippedStages THEN "skipped" ELSE outcomes[s]]
    /\ pc' = "triage"
    /\ UNCHANGED <<request, decision, outline, context, plan, section, attempt, gate, qa,
                   deviation, checked, receipt>>

SchemaContext ==
    /\ pc = "schema"
    /\ outcomes' = [outcomes EXCEPT !.schema_grounding = IF request.schema THEN "ran" ELSE "skipped"]
    /\ pc' = "rag"
    /\ UNCHANGED <<request, decision, outline, context, trace, Prepared>>

\* The query's embedding arrives and the store is searched.  A query too large to embed
\* takes the same path with no chunk: what was retrieved is not told apart here.
RagContext ==
    /\ pc = "rag"
    /\ outcomes' = [outcomes EXCEPT !.rag = "ran"]
    /\ pc' = "assembly"
    /\ UNCHANGED <<request, decision, outline, context, trace, Prepared>>

\* Mutant: a re-entry asks the Manager for an outline like a first run.
AfterFirstAssemblyAlways == "task_breakdown"
AfterFirstAssembly == IF request.prior THEN "reuse_outline" ELSE "task_breakdown"

\* Assembly runs twice: with room reserved for the outline, then with the outline; only
\* the second records its outcome.
AssembleContext ==
    /\ pc = "assembly"
    /\ IF outline = "none"
       THEN /\ context' = "without_outline"
            /\ pc' = AfterFirstAssembly
            /\ UNCHANGED outcomes
       ELSE /\ context' = "with_outline"
            /\ pc' = "design_plan"
            /\ outcomes' = [outcomes EXCEPT !.rag = "ran", !.context_budget = "ran"]
    /\ UNCHANGED <<request, decision, outline, trace, Prepared>>

ReuseOutline ==
    /\ pc = "reuse_outline"
    /\ outline' = "prior"
    /\ pc' = "assembly"
    /\ UNCHANGED <<request, decision, context, outcomes, trace, Prepared>>

TaskBreakdown ==
    /\ pc = "task_breakdown"
    /\ trace' = Append(trace, PlainEntry("task_breakdown", 0))
    /\ outline' = "fresh"
    /\ pc' = "assembly"
    /\ UNCHANGED <<request, decision, context, outcomes, Prepared>>

-----------------------------------------------------------------------------
(* Architect and design gate *)

Context == <<request, decision, outline, context>>
CodeAndReceipt == <<implementation, qa, deviation, checked, receipt>>

\* The Architect's plan parses into its sections, or the gate falls back to whole-plan review.
DesignPlan(sectioned) ==
    /\ pc = "design_plan"
    /\ trace' = Append(trace, PlainEntry("design_plan", 1))
    /\ plan' = Revised(plan, 0)
    /\ gate' = [NoGate EXCEPT !.mode = IF sectioned THEN "sectioned" ELSE "monolithic"]
    /\ section' = IF sectioned THEN 1 ELSE 0
    /\ attempt' = 0
    /\ pc' = "gate_review"
    /\ UNCHANGED <<Context, outcomes, CodeAndReceipt>>

\* One QA verdict of the gate: revise, go on to the next section, or close the gate.  A
\* plan given up on goes on to the Implementer like an approved one.
GateReview(reply) ==
    LET approved == Approves(reply)
        last == section \in {0, NSections}
    IN  /\ pc = "gate_review"
        /\ trace' = Append(trace, Entry("design_gate", attempt + 1, section,
                                        VerdictOf(approved), plan, 0))
        /\ IF LoopEnds(approved)
           THEN /\ gate' = [gate EXCEPT !.approved = AllApproved(approved),
                               !.sections = [s \in Sections |->
                                   last /\ SectionApproved(trace', s)]]
                /\ attempt' = 0
                /\ section' = IF last THEN 0 ELSE section + 1
                /\ pc' = IF last THEN "implementation" ELSE "gate_review"
                /\ outcomes' = IF last THEN [outcomes EXCEPT !.design_gate = "ran"] ELSE outcomes
           ELSE /\ pc' = "gate_revise"
                /\ UNCHANGED <<gate, attempt, section, outcomes>>
        /\ UNCHANGED <<Context, plan, CodeAndReceipt>>

GateRevise ==
    /\ pc = "gate_revise"
    /\ trace' = Append(trace, Entry("design_revision", attempt + 2, section, "none", plan, 0))
    /\ plan' = Revised(plan, section)
    /\ attempt' = attempt + 1
    /\ pc' = "gate_review"
    /\ UNCHANGED <<Context, section, gate, outcomes, CodeAndReceipt>>

-----------------------------------------------------------------------------
(* Implementation loop *)

Design == <<Context, section, gate>>

Implement ==
    /\ pc = "implementation"
    /\ trace' = Append(trace, Entry("implementation", 1, 0, "none", plan, 0))
    /\ implementation' = NextCall
    /\ attempt' = 0
    /\ pc' = "impl_review"
    /\ UNCHANGED <<Design, plan, qa, deviation, checked, outcomes, receipt>>

\* Mutant: the loop's result is recorded without counting the review that ended it.
CountReviewMissed(approved) == IF LoopEnds(approved) THEN qa.attempts ELSE qa.attempts + 1
CountReview(approved) == qa.attempts + 1

ImplReview(reply) ==
    LET approved == Approves(reply)
    IN  /\ pc = "impl_review"
        /\ trace' = Append(trace, Entry("implementation_check", attempt + 1, 0,
                                        VerdictOf(approved), plan, implementation))
        /\ qa' = [approved |-> approved, feedback |-> ~approved, attempts |-> CountReview(approved)]
        /\ IF LoopEnds(approved)
           THEN /\ pc' = IF request.closingReport THEN "closing_report" ELSE "skip_closing_report"
                /\ outcomes' = [outcomes EXCEPT !.implementation_check = "ran"]
           ELSE /\ pc' = "impl_revise_plan"
                /\ UNCHANGED outcomes
        /\ UNCHANGED <<Design, plan, implementation, attempt, deviation, checked, receipt>>

\* A rejected implementation makes the Architect redo the plan, without a gate of its own,
\* and the Implementer redo the code from it.
ImplRevisePlan ==
    /\ pc = "impl_revise_plan"
    /\ trace' = Append(trace, Entry("design_revision", attempt + 2, 0, "none", plan, 0))
    /\ plan' = Revised(plan, 0)
    /\ pc' = "impl_revise_code"
    /\ UNCHANGED <<Design, implementation, attempt, qa, deviation, checked, outcomes, receipt>>

\* Mutant: the revision's result leaves the previous code in place of the new one.
RevisedCodeLost == implementation
RevisedCode == NextCall

\* Mutant: the loop gives up after its last revision without reviewing it.
AfterRevisionGivesUp == IF attempt + 1 = MaxQA THEN "conformance" ELSE "impl_review"
AfterRevision == "impl_review"

ImplReviseCode ==
    /\ pc = "impl_revise_code"
    /\ trace' = Append(trace, Entry("implementation", attempt + 2, 0, "none", plan, 0))
    /\ implementation' = RevisedCode
    /\ attempt' = attempt + 1
    /\ pc' = AfterRevision
    /\ UNCHANGED <<Design, plan, qa, deviation, checked, outcomes, receipt>>

-----------------------------------------------------------------------------
(* Closing report, conformance, triage *)

Built == <<Design, plan, implementation, attempt, qa>>

ClosingReport(d) ==
    /\ pc = "closing_report"
    /\ trace' = Append(trace, Entry("closing_report", 0, 0, "none", plan, implementation))
    /\ deviation' = d
    /\ outcomes' = [outcomes EXCEPT !.closing_report = "ran"]
    /\ pc' = "conformance"
    /\ UNCHANGED <<Built, checked, receipt>>

SkipClosingReport ==
    /\ pc = "skip_closing_report"
    /\ outcomes' = [outcomes EXCEPT !.closing_report = "skipped"]
    /\ pc' = "conformance"
    /\ UNCHANGED <<Built, deviation, checked, trace, receipt>>

Conformance ==
    /\ pc = "conformance"
    /\ checked' = IF request.schema /\ request.identifierCheck THEN implementation ELSE 0
    /\ pc' = "triage"
    /\ UNCHANGED <<Built, deviation, outcomes, trace, receipt>>

\* What the triage can report: it only runs Antares on the code of a full run that asked for it.
TriageResults ==
    IF ~request.cwe THEN {"not-requested"}
    ELSE IF decision \in FastPathCategories THEN {"snapshot-unavailable"}
    ELSE {"artifact-missing", "completed", "degraded", "timeout", "internal-error"}

\* The triage, bounded by its own timeout, reports or is reported for; then the receipt is built.
SecurityTriage(t) ==
    /\ pc = "triage"
    /\ t \in TriageResults
    /\ receipt' = [status |-> "completed", errorStage |-> "none", inFlight |-> "none",
                   outcomes |-> outcomes, gate |-> gate, qa |-> qa,
                   fastPath |-> decision \in FastPathCategories,
                   plan |-> plan, implementation |-> implementation, outline |-> outline,
                   deviation |-> deviation, checked |-> checked, triage |-> t]
    /\ pc' = "returned"
    /\ UNCHANGED <<Built, deviation, checked, outcomes, trace>>

-----------------------------------------------------------------------------
(* Ends without a completed body *)

Frame == <<request, decision, outline, context, plan, implementation, section, attempt, gate,
           qa, deviation, checked, outcomes, trace>>

\* The error names the last entry of the trace: the last call that was answered.  `inFlight`
\* is the stage that was running, which the code does not report.
FailedReceipt(status) ==
    [NoReceipt EXCEPT !.status = status,
        !.errorStage = IF trace = <<>> THEN "none" ELSE trace[Len(trace)].stage,
        !.inFlight = IF pc \in ModelPCs THEN CallStage[pc] ELSE "rag"]

ModelCallFails ==
    /\ pc \in ModelPCs
    /\ receipt' = FailedReceipt("failed")
    /\ pc' = "returned"
    /\ UNCHANGED Frame

\* Mutants: the run goes on after its timeout receipt; the cap spares the implementation
\* loop; the cap covers the triage too.
AfterDeadlineGoesOn == pc
DeadlineSparesLoop == pc \in BodyAwaits \ {"impl_review", "impl_revise_plan"}
DeadlineHitsTriage == pc \in BodyAwaits \cup {"triage"}
AfterDeadline == "returned"
DeadlineHits == pc \in BodyAwaits
Deadline ==
    /\ request.runCap
    /\ DeadlineHits
    /\ receipt' = FailedReceipt("timeout")
    /\ pc' = AfterDeadline
    /\ UNCHANGED Frame

\* The embedding service fails, or the store refuses the query vector: RagContextStage
\* only catches EmbeddingTooLargeError, and the runner ModelCallError.
EmbeddingFails ==
    /\ pc = "rag"
    /\ pc' = "raised"
    /\ UNCHANGED <<Frame, receipt>>

\* A model server's answer is not JSON: a ValueError, which the runner does not catch.
AnswerUnreadable ==
    /\ pc \in ModelPCs
    /\ pc' = "raised"
    /\ UNCHANGED <<Frame, receipt>>

\* ast.parse raises something else than the SyntaxError that the check catches: a ValueError
\* for a null byte (before Python 3.12), a RecursionError for deeply nested code.
ConformanceRaises ==
    /\ pc = "conformance"
    /\ request.schema /\ request.identifierCheck
    /\ pc' = "raised"
    /\ UNCHANGED <<Frame, receipt>>

Ended == pc \in EndPCs /\ UNCHANGED vars

-----------------------------------------------------------------------------
\* Stages that run without an await.
SyncStep ==
    \/ RouteReentry
    \/ SchemaContext
    \/ AssembleContext
    \/ ReuseOutline
    \/ SkipClosingReport
    \/ Conformance

\* Answers the task awaits: nothing makes them come.
Answer ==
    \/ \E reply \in RouterReplies : RouterAnswers(reply)
    \/ FastPathAnswers
    \/ RagContext
    \/ TaskBreakdown
    \/ \E sectioned \in BOOLEAN : DesignPlan(sectioned)
    \/ \E reply \in QAReplies : GateReview(reply)
    \/ GateRevise
    \/ Implement
    \/ \E reply \in QAReplies : ImplReview(reply)
    \/ ImplRevisePlan
    \/ ImplReviseCode
    \/ \E d \in Deviations : ClosingReport(d)

Triage == \E t \in TriageStates : SecurityTriage(t)

Next ==
    \/ SyncStep
    \/ Answer
    \/ Triage
    \/ ModelCallFails
    \/ Deadline
    \/ EmbeddingFails
    \/ AnswerUnreadable
    \/ ConformanceRaises
    \/ Ended

\* The event loop runs what is ready, and its two timers (the run cap, the triage's own
\* timeout) expire.  No answer of a model or of the embedding service is assumed: a stream
\* that trickles never trips the per-read HTTP timeout.
Fairness == WF_vars(SyncStep) /\ WF_vars(Deadline) /\ WF_vars(Triage)

Spec == Init /\ [][Next]_vars /\ Fairness

-----------------------------------------------------------------------------
(* Properties *)

\* Every variable keeps to the values the code can give it.
TypeOK ==
    /\ request \in Requests
    /\ pc \in PCs
    /\ decision \in RouterCategories \cup {"none"}
    /\ outline \in {"none", "prior", "fresh"}
    /\ context \in {"none", "without_outline", "with_outline"}
    /\ plan \in Plans
    /\ implementation \in Nat
    /\ section \in Sections \cup {0}
    /\ attempt \in 0..MaxQA
    /\ gate \in GateOutcomes
    /\ qa \in QAStates
    /\ deviation \in Deviations \cup {"none"}
    /\ checked \in Nat
    /\ outcomes \in RecordedOutcomes
    /\ trace \in Seq(Entries)
    /\ receipt \in Receipts

Completed == receipt.status = "completed"
FullRun == Completed /\ ~receipt.fastPath

\* The verdict of a full run's receipt is QA's about the very plan and implementation the
\* receipt delivers, and only the closing report came after it (ReviewLoop returns the
\* artifact it last reviewed; impl_stages.py:91-108).
VerdictIsOfDelivered ==
    FullRun =>
        \E i \in DOMAIN trace :
            /\ trace[i].stage = "implementation_check"
            /\ trace[i].plan = receipt.plan
            /\ trace[i].implementation = receipt.implementation
            /\ trace[i].verdict = VerdictOf(receipt.qa.approved)
            /\ \A j \in DOMAIN trace : j > i => trace[j].stage = "closing_report"

\* QA always judges code together with the plan that code was written from: revision
\* swaps both or neither (impl_stages.py:57-77).
CodeFollowsPlan ==
    \A i \in DOMAIN trace :
        trace[i].stage \in {"implementation_check", "closing_report"} =>
            /\ trace[i].implementation \in DOMAIN trace
            /\ trace[trace[i].implementation].stage = "implementation"
            /\ trace[trace[i].implementation].plan = trace[i].plan

\* The gate's review of section s of the plan p, among the first k - 1 calls.
GateReviewed(s, p, k, verdicts) ==
    \E i \in DOMAIN trace :
        /\ i < k
        /\ trace[i].stage = "design_gate"
        /\ trace[i].section \in {0, s}
        /\ trace[i].plan[s] = p[s]
        /\ trace[i].verdict \in verdicts

\* No code is written from a text the gate did not review, and when the gate reports
\* approval it approved every one of those texts, not an earlier version (README.md:41).
FirstDraftFollowsReviewedPlan ==
    \A k \in DOMAIN trace :
        trace[k].stage = "implementation" /\ trace[k].attempt = 1 =>
            \A s \in Sections :
                GateReviewed(s, trace[k].plan, k, IF gate.approved THEN {"APPROVED"} ELSE Verdicts)

GateEntries(s) == {i \in DOMAIN trace : trace[i].stage = "design_gate" /\ trace[i].section = s}
CheckEntries == {i \in DOMAIN trace : trace[i].stage = "implementation_check"}

\* The gate's overall verdict, accumulated section by section, agrees with the per-section
\* verdicts derived afterwards from the trace, and a section that is not approved used up
\* its MaxQA revisions (design_gate.py:126, 134-143).
GateOutcomeMatchesTrace ==
    outcomes.design_gate = "ran" =>
        /\ gate.mode = "sectioned" => (gate.approved <=> \A s \in Sections : gate.sections[s])
        /\ gate.mode = "sectioned" =>
            \A s \in Sections : gate.sections[s] \/ Cardinality(GateEntries(s)) = MaxQA + 1
        /\ gate.mode = "monolithic" =>
            gate.approved \/ Cardinality(GateEntries(0)) = MaxQA + 1

\* The attempts a receipt reports are the implementation checks in its trace, and a run is
\* reported unapproved only after MaxQA revisions (impl_stages.py:82, 105-108).
QACountMatchesTrace ==
    /\ qa.attempts = Cardinality(CheckEntries)
    /\ FullRun => receipt.qa.approved \/ receipt.qa.attempts = MaxQA + 1
    /\ FullRun => receipt.qa.feedback = ~receipt.qa.approved

\* A completed receipt says of every stage whether it ran, and says so truthfully: "ran"
\* for a stage with a model call means the trace holds that call (receipt plan, finding 5).
ReceiptDeclaresEveryStage ==
    Completed =>
        \A s \in OutcomeStages :
            /\ receipt.outcomes[s] # "absent"
            /\ s \in Stages =>
                (receipt.outcomes[s] = "ran" <=> \E i \in DOMAIN trace : trace[i].stage = s)

\* A macro-loop re-entry is a full run on the outline it was given: it is never routed to
\* the fast path and never asks for another outline, and no run asks the Architect
\* before its outline is in the context (runner.py:254-268).
ReentryKeepsOutline ==
    /\ request.prior =>
        /\ \A i \in DOMAIN trace :
               trace[i].stage \notin {"routing", "fast_path", "task_breakdown"}
        /\ Completed => receipt.outline = "prior" /\ ~receipt.fastPath
    /\ (\E i \in DOMAIN trace : trace[i].stage = "design_plan") => context = "with_outline"

\* The most model calls a run can make.
WorkBudget == 3 + NSections * (2 * MaxQA + 1) + (3 * MaxQA + 2) + 1

\* A run makes a bounded number of model calls whatever QA answers, and an attempt number in
\* the trace never exceeds MaxQA + 1 (review_loop.py:40-51).
WorkBounded ==
    /\ Len(trace) <= WorkBudget
    /\ \A i \in DOMAIN trace : trace[i].attempt <= MaxQA + 1

\* A receipt shares its trace list with the task: once it is returned neither changes, in
\* particular after a timeout (runner.py:104-109).
ReceiptIsFinal == [][receipt.status # "none" => UNCHANGED <<receipt, trace>>]_vars

\* Under a run cap every call ends, even if no model ever answers (settings.yaml:140-145).
EventuallyEnds == request.runCap => <>(pc \in EndPCs)

\* A run that reached the triage completes: the triage degrades its own outcome only
\* (invariant I1, runner.py:163-193).
TriageNeverFailsTheRun == pc = "triage" ~> Completed
=============================================================================
