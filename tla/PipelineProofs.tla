--------------------------- MODULE PipelineProofs ---------------------------
(***************************************************************************)
(* Theorems about Pipeline, for every number of sections and every bound   *)
(* on the revisions.                                                       *)
(***************************************************************************)
EXTENDS Pipeline, TLAPS, FiniteSetTheorems, WellFoundedInduction

-----------------------------------------------------------------------------
(* Lemmas about the helpers *)

\* A non-empty set of categories at natural positions has a member named first.
LEMMA FirstNamedIn ==
    ASSUME NEW C, C # {}, NEW at \in [C -> Nat], NEW D, D \subseteq C, D # {}
    PROVE  FirstNamed(at, D) \in D
PROOF
  <1> DEFINE P == {at[c] : c \in D}
  <1>1. P \subseteq Nat /\ P # {}
    OBVIOUS
  <1>2. PICK n \in P : \A m \in P : <<m, n>> \notin OpToRel(<, Nat)
    BY <1>1, NatLessThanWellFounded, WFMin
  <1>3. \A m \in P : n <= m
    <2>1. \A m \in P : ~ (m < n)
      BY <1>1, <1>2 DEF OpToRel
    <2>2. n \in Nat /\ \A m \in P : m \in Nat
      BY <1>1
    <2> QED
      BY <2>1, <2>2
  <1>4. \E c \in D : \A d \in D : at[c] <= at[d]
    BY <1>2, <1>3
  <1> QED
    BY <1>4 DEF FirstNamed

\* The router's reply, whatever it says, is turned into one of its categories.
LEMMA RouterDecisionType ==
    ASSUME NEW at \in RouterReplies
    PROVE  RouterDecision(at) \in RouterCategories
PROOF
  <1>1. PICK C \in SUBSET RouterCategories : at \in [C -> 0..Cardinality(RouterCategories)]
    BY DEF RouterReplies
  <1>2. at \in [C -> Nat] /\ DOMAIN at = C
    BY <1>1
  <1>3. \A D : D \subseteq C /\ D # {} => FirstNamed(at, D) \in D
    BY <1>2, FirstNamedIn
  <1>4. "COMPLEX_ARCHITECTURE" \in RouterCategories
    BY DEF RouterCategories
  <1> QED
    BY <1>2, <1>3, <1>4 DEF RouterDecision

\* An entry built from values of the right kind is a trace entry.
LEMMA EntryType ==
    ASSUME NEW stage \in Stages, NEW att \in Nat, NEW sec \in Sections \cup {0},
           NEW verdict \in Verdicts \cup {"none"}, NEW p \in Plans, NEW i \in Nat
    PROVE  Entry(stage, att, sec, verdict, p, i) \in Entries
PROOF
  BY DEF Entry, Entries

LEMMA PlainEntryType ==
    ASSUME NEW stage \in Stages, NEW att \in Nat
    PROVE  PlainEntry(stage, att) \in Entries
PROOF
  <1>1. NoPlan \in Plans
    BY DEF NoPlan, Plans
  <1> QED
    BY <1>1, EntryType DEF PlainEntry

LEMMA VerdictOfType ==
    ASSUME NEW approved \in BOOLEAN
    PROVE  VerdictOf(approved) \in Verdicts
PROOF
  BY DEF VerdictOf, Verdicts

LEMMA RevisedType ==
    ASSUME NEW p \in Plans, NEW sec, trace \in Seq(Entries)
    PROVE  Revised(p, sec) \in Plans /\ NextCall \in Nat
PROOF
  BY DEF Revised, Plans, NextCall

\* What a failed or timed-out call returns is a receipt.
LEMMA FailedReceiptType ==
    ASSUME trace \in Seq(Entries), pc \in BodyAwaits, NEW s \in {"failed", "timeout"}
    PROVE  FailedReceipt(s) \in Receipts
PROOF
  <1>1. NoReceipt \in Receipts
    BY DEF NoReceipt, Receipts, RecordedOutcomes, NothingRecorded, NoGate, GateOutcomes, NotChecked, QAStates,
           NoPlan, Plans, TriageStates
  <1>2. (IF trace = <<>> THEN "none" ELSE trace[Len(trace)].stage) \in Stages \cup {"none"}
    <2>1. trace # <<>> => trace[Len(trace)] \in Entries
      OBVIOUS
    <2> QED
      BY <2>1 DEF Entries
  <1>3. (IF pc \in ModelPCs THEN CallStage[pc] ELSE "rag") \in Stages \cup {"none", "rag"}
    BY DEF ModelPCs, CallStage, Stages
  <1>4. \A r \in Receipts : \A e \in Stages \cup {"none"} : \A f \in Stages \cup {"none", "rag"} :
            [r EXCEPT !.status = s, !.errorStage = e, !.inFlight = f] \in Receipts
    <2>1. \A r \in Receipts : [r EXCEPT !.status = s] \in Receipts
      BY DEF Receipts
    <2>2. \A r \in Receipts : \A e \in Stages \cup {"none"} : [r EXCEPT !.errorStage = e] \in Receipts
      BY DEF Receipts
    <2>3. \A r \in Receipts : \A f \in Stages \cup {"none", "rag"} :
              [r EXCEPT !.inFlight = f] \in Receipts
      BY DEF Receipts
    <2> QED
      BY <2>1, <2>2, <2>3
  <1> QED
    BY <1>1, <1>2, <1>3, <1>4 DEF FailedReceipt

-----------------------------------------------------------------------------
(* Type correctness *)

\* A loop only asks for a revision while it has attempts left.
RevisionsLeft ==
    pc \in {"gate_revise", "impl_revise_plan", "impl_revise_code"} => attempt < MaxQA

TypeInv == TypeOK /\ RevisionsLeft

LEMMA TypeInit == Init => TypeInv
PROOF
  <1> SUFFICES ASSUME Init PROVE TypeInv
    OBVIOUS
  <1>1. NoReceipt \in Receipts
    BY DEF NoReceipt, Receipts, RecordedOutcomes, NothingRecorded, NoGate, GateOutcomes, NotChecked, QAStates,
           NoPlan, Plans, TriageStates
  <1>2. NoGate \in GateOutcomes /\ NotChecked \in QAStates /\ NoPlan \in Plans
    BY DEF NoGate, GateOutcomes, NotChecked, QAStates, NoPlan, Plans
  <1>3. pc \in PCs /\ pc \notin {"gate_revise", "impl_revise_plan", "impl_revise_code"}
    BY DEF Init, PCs, BodyAwaits, ModelPCs, CallStage, SyncPCs
  <1> QED
    BY <1>1, <1>2, <1>3, MaxQAAssumption
    DEF Init, TypeInv, TypeOK, RevisionsLeft, RecordedOutcomes, NothingRecorded

LEMMA TypeStep == TypeInv /\ [Next]_vars => TypeInv'
PROOF
  <1> SUFFICES ASSUME TypeInv, [Next]_vars PROVE TypeInv'
    OBVIOUS
  <1> USE MaxQAAssumption, NSectionsAssumption
  <1>pc. /\ BodyAwaits \subseteq PCs /\ SyncPCs \subseteq PCs /\ EndPCs \subseteq PCs
         /\ "triage" \in PCs
         /\ {"routing", "fast_path", "task_breakdown", "design_plan", "gate_review",
             "gate_revise", "implementation", "impl_review", "impl_revise_plan",
             "impl_revise_code", "closing_report"} \subseteq ModelPCs
    BY DEF PCs, BodyAwaits, ModelPCs, CallStage
  <1>tr. \A e \in Entries : Append(trace, e) \in Seq(Entries)
    BY DEF TypeInv, TypeOK
  <1>next. NextCall \in Nat /\ \A p \in Plans, sec \in Sections \cup {0} : Revised(p, sec) \in Plans
    BY RevisedType DEF TypeInv, TypeOK
  <1>plain. \A st \in Stages, a \in Nat : PlainEntry(st, a) \in Entries
    BY PlainEntryType
  <1>nat. attempt + 1 \in Nat /\ attempt + 2 \in Nat /\ 0 \in Sections \cup {0}
    BY DEF TypeInv, TypeOK
  <1>entry. /\ Entry("design_revision", attempt + 2, section, "none", plan, 0) \in Entries
            /\ Entry("design_revision", attempt + 2, 0, "none", plan, 0) \in Entries
            /\ Entry("implementation", 1, 0, "none", plan, 0) \in Entries
            /\ Entry("implementation", attempt + 2, 0, "none", plan, 0) \in Entries
            /\ Entry("closing_report", 0, 0, "none", plan, implementation) \in Entries
    BY <1>nat, EntryType DEF TypeInv, TypeOK, Stages
  <1>review. \A v \in Verdicts :
                /\ Entry("design_gate", attempt + 1, section, v, plan, 0) \in Entries
                /\ Entry("implementation_check", attempt + 1, 0, v, plan, implementation) \in Entries
    BY <1>nat, EntryType DEF TypeInv, TypeOK, Stages
  <1>out. \A o \in RecordedOutcomes, v \in {"skipped", "ran"} :
            /\ [o EXCEPT !.rag = v] \in RecordedOutcomes
            /\ [o EXCEPT !.schema_grounding = v] \in RecordedOutcomes
            /\ [o EXCEPT !.context_budget = v] \in RecordedOutcomes
            /\ [o EXCEPT !.design_gate = v] \in RecordedOutcomes
            /\ [o EXCEPT !.implementation_check = v] \in RecordedOutcomes
            /\ [o EXCEPT !.closing_report = v] \in RecordedOutcomes
    BY DEF RecordedOutcomes
  <1>1. CASE RouteReentry
    BY <1>1, <1>pc DEF RouteReentry, Prepared, RouterCategories, SyncPCs, TypeInv, TypeOK, RevisionsLeft
  <1>2. CASE \E reply \in RouterReplies : RouterAnswers(reply)
    BY <1>2, <1>pc, <1>tr, <1>plain, RouterDecisionType DEF RouterAnswers, Prepared, Stages, BodyAwaits, SyncPCs, TypeInv, TypeOK, RevisionsLeft
  <1>3. CASE FastPathAnswers
    BY <1>3, <1>pc, <1>tr, <1>plain, <1>next DEF FastPathAnswers, Stages, RecordedOutcomes, TypeInv, TypeOK, RevisionsLeft
  <1>4. CASE SchemaContext
    BY <1>4, <1>pc, <1>out DEF SchemaContext, Prepared, BodyAwaits, TypeInv, TypeOK, RevisionsLeft
  <1>5. CASE RagContext
    BY <1>5, <1>pc, <1>out DEF RagContext, Prepared, SyncPCs, TypeInv, TypeOK, RevisionsLeft
  <1>6. CASE AssembleContext
    <2>1. outcomes' \in RecordedOutcomes
      <3>1. outcomes' \in {outcomes, [[outcomes EXCEPT !.rag = "ran"] EXCEPT !.context_budget = "ran"]}
        BY <1>6 DEF AssembleContext
      <3> QED
        BY <3>1, <1>out DEF TypeInv, TypeOK
    <2>2. pc' \in PCs /\ RevisionsLeft'
      BY <1>6, <1>pc DEF AssembleContext, AfterFirstAssembly, BodyAwaits, SyncPCs, RevisionsLeft
    <2> QED
      BY <1>6, <2>1, <2>2 DEF AssembleContext, Prepared, TypeInv, TypeOK
  <1>7. CASE ReuseOutline
    BY <1>7, <1>pc DEF ReuseOutline, Prepared, SyncPCs, TypeInv, TypeOK, RevisionsLeft
  <1>8. CASE TaskBreakdown
    BY <1>8, <1>pc, <1>tr, <1>plain DEF TaskBreakdown, Prepared, Stages, SyncPCs, TypeInv, TypeOK, RevisionsLeft
  <1>9. CASE \E sectioned \in BOOLEAN : DesignPlan(sectioned)
    <2> PICK sectioned \in BOOLEAN : DesignPlan(sectioned)
      BY <1>9
    <2>1. gate' \in GateOutcomes
      BY DEF DesignPlan, NoGate, GateOutcomes
    <2>2. trace' \in Seq(Entries) /\ plan' \in Plans
      BY <1>tr, <1>plain, <1>next DEF DesignPlan, Stages, TypeInv, TypeOK
    <2>3. section' \in Sections \cup {0} /\ attempt' \in 0..MaxQA
      BY DEF DesignPlan, Sections
    <2>4. pc' \in PCs /\ RevisionsLeft'
      BY <1>pc DEF DesignPlan, BodyAwaits, RevisionsLeft
    <2> QED
      BY <2>1, <2>2, <2>3, <2>4 DEF DesignPlan, Context, CodeAndReceipt, TypeInv, TypeOK
  <1>10. CASE \E reply \in QAReplies : GateReview(reply)
    <2> PICK reply \in QAReplies : GateReview(reply)
      BY <1>10
    <2> DEFINE approved == Approves(reply)
    <2>1. approved \in BOOLEAN /\ VerdictOf(approved) \in Verdicts
      BY VerdictOfType DEF Approves
    <2>2. trace' \in Seq(Entries)
      BY <2>1, <1>tr, <1>review DEF GateReview
    <2>3. gate' \in GateOutcomes
      <3>1. \A a \in BOOLEAN, f \in [Sections -> BOOLEAN] :
                [gate EXCEPT !.approved = a, !.sections = f] \in GateOutcomes
        BY DEF TypeInv, TypeOK, GateOutcomes
      <3>2. AllApproved(approved) \in BOOLEAN
        BY <2>1 DEF AllApproved, TypeInv, TypeOK, GateOutcomes
      <3>3. [s \in Sections |-> section \in {0, NSections} /\ SectionApproved(trace', s)]
                \in [Sections -> BOOLEAN]
        OBVIOUS
      <3> QED
        BY <3>1, <3>2, <3>3 DEF GateReview, TypeInv, TypeOK
    <2>4. section' \in Sections \cup {0} /\ attempt' \in 0..MaxQA
      BY DEF GateReview, TypeInv, TypeOK, Sections
    <2>5. pc' \in PCs /\ RevisionsLeft'
      BY <1>pc DEF GateReview, BodyAwaits, RevisionsLeft, LoopEnds, TypeInv, TypeOK
    <2>6. outcomes' \in RecordedOutcomes
      <3>1. outcomes' \in {outcomes, [outcomes EXCEPT !.design_gate = "ran"]}
        BY DEF GateReview
      <3> QED
        BY <3>1, <1>out DEF TypeInv, TypeOK
    <2> QED
      BY <2>2, <2>3, <2>4, <2>5, <2>6 DEF GateReview, Context, CodeAndReceipt, TypeInv, TypeOK
  <1>11. CASE GateRevise
    BY <1>11, <1>pc, <1>tr, <1>entry, <1>next DEF GateRevise, Context, CodeAndReceipt, Stages, BodyAwaits, TypeInv, TypeOK, RevisionsLeft
  <1>12. CASE Implement
    BY <1>12, <1>pc, <1>tr, <1>entry, <1>next DEF Implement, Design, Context, Stages, BodyAwaits, TypeInv, TypeOK, RevisionsLeft
  <1>13. CASE \E reply \in QAReplies : ImplReview(reply)
    <2> PICK reply \in QAReplies : ImplReview(reply)
      BY <1>13
    <2> DEFINE approved == Approves(reply)
    <2>1. approved \in BOOLEAN /\ VerdictOf(approved) \in Verdicts
      BY VerdictOfType DEF Approves
    <2>2. trace' \in Seq(Entries)
      BY <2>1, <1>tr, <1>review DEF ImplReview
    <2>3. qa' \in QAStates
      BY <2>1 DEF ImplReview, TypeInv, TypeOK, QAStates, CountReview
    <2>4. pc' \in PCs /\ RevisionsLeft'
      BY <1>pc DEF ImplReview, BodyAwaits, SyncPCs, RevisionsLeft, LoopEnds, TypeInv, TypeOK
    <2>5. outcomes' \in RecordedOutcomes
      <3>1. outcomes' \in {outcomes, [outcomes EXCEPT !.implementation_check = "ran"]}
        BY DEF ImplReview
      <3> QED
        BY <3>1, <1>out DEF TypeInv, TypeOK
    <2> QED
      BY <2>2, <2>3, <2>4, <2>5 DEF ImplReview, Design, Context, TypeInv, TypeOK
  <1>14. CASE ImplRevisePlan
    BY <1>14, <1>pc, <1>tr, <1>entry, <1>next DEF ImplRevisePlan, Design, Context, Stages, BodyAwaits, TypeInv, TypeOK, RevisionsLeft
  <1>15. CASE ImplReviseCode
    BY <1>15, <1>pc, <1>tr, <1>entry, <1>next DEF ImplReviseCode, RevisedCode, AfterRevision, Design, Context, Stages, BodyAwaits, TypeInv, TypeOK, RevisionsLeft
  <1>16. CASE \E d \in Deviations : ClosingReport(d)
    BY <1>16, <1>pc, <1>tr, <1>entry, <1>out DEF ClosingReport, Built, Design, Context, Stages, SyncPCs, TypeInv, TypeOK, RevisionsLeft
  <1>17. CASE SkipClosingReport
    BY <1>17, <1>pc, <1>out DEF SkipClosingReport, Built, Design, Context, SyncPCs, TypeInv, TypeOK, RevisionsLeft
  <1>18. CASE Conformance
    BY <1>18, <1>pc DEF Conformance, Built, Design, Context, TypeInv, TypeOK, RevisionsLeft
  <1>19. CASE Triage
    <2> PICK t \in TriageStates : SecurityTriage(t)
      BY <1>19 DEF Triage
    <2>1. receipt' \in Receipts
      BY DEF SecurityTriage, Receipts, TypeInv, TypeOK
    <2>2. pc' \in PCs /\ RevisionsLeft'
      BY <1>pc DEF SecurityTriage, EndPCs, RevisionsLeft
    <2> QED
      BY <2>1, <2>2 DEF SecurityTriage, Built, Design, Context, TypeInv, TypeOK
  <1>20. CASE ModelCallFails
    BY <1>20, <1>pc, FailedReceiptType DEF ModelCallFails, Frame, BodyAwaits, EndPCs, TypeInv, TypeOK, RevisionsLeft
  <1>21. CASE Deadline
    BY <1>21, <1>pc, FailedReceiptType DEF Deadline, DeadlineHits, AfterDeadline, Frame, EndPCs, TypeInv, TypeOK, RevisionsLeft
  <1>22. CASE EmbeddingFails
    BY <1>22, <1>pc DEF EmbeddingFails, Frame, EndPCs, TypeInv, TypeOK, RevisionsLeft
  <1>23. CASE AnswerUnreadable
    BY <1>23, <1>pc DEF AnswerUnreadable, Frame, EndPCs, TypeInv, TypeOK, RevisionsLeft
  <1>24. CASE ConformanceRaises
    BY <1>24, <1>pc DEF ConformanceRaises, Frame, EndPCs, TypeInv, TypeOK, RevisionsLeft
  <1>25. CASE UNCHANGED vars
    BY <1>25, <1>pc DEF vars, TypeInv, TypeOK, RevisionsLeft
  <1> QED
    BY <1>1, <1>2, <1>3, <1>4, <1>5, <1>6, <1>7, <1>8, <1>9, <1>10, <1>11, <1>12, <1>13, <1>14, <1>15, <1>16, <1>17, <1>18, <1>19, <1>20, <1>21, <1>22, <1>23, <1>24, <1>25 DEF Next, SyncStep, Answer, Ended

\* Every variable keeps to its values, whatever the number of sections and of revisions.
THEOREM TypeCorrect == Spec => []TypeOK
PROOF
  <1>1. TypeInv => TypeOK
    BY DEF TypeInv
  <1> QED
    BY <1>1, TypeInit, TypeStep, PTL DEF Spec

-----------------------------------------------------------------------------
(* The verdict a receipt reports is about what the receipt delivers *)

\* Text i is code, and it was written from plan p.
CodeOf(i, p) ==
    /\ i \in DOMAIN trace
    /\ trace[i].stage = "implementation"
    /\ trace[i].plan = p

\* Entry i is the verdict about the current plan and code, and only a closing report followed.
Settled(i) ==
    /\ trace[i].stage = "implementation_check"
    /\ trace[i].plan = plan
    /\ trace[i].implementation = implementation
    /\ trace[i].verdict = VerdictOf(qa.approved)
    /\ \A j \in DOMAIN trace : j > i => trace[j].stage = "closing_report"

\* The loop is over: plan and code no longer change.
LoopOver ==
    \/ pc \in {"closing_report", "skip_closing_report", "conformance"}
    \/ pc = "triage" /\ decision \notin FastPathCategories

\* The implementation under review, and the one whose plan is about to be redone, was
\* written from the current plan; once the loop is over the last verdict is about both; a
\* receipt exists only when the call has returned.
CodeInv ==
    /\ pc \in {"impl_review", "impl_revise_plan"} \/ LoopOver => CodeOf(implementation, plan)
    /\ LoopOver => \E i \in DOMAIN trace : Settled(i)
    /\ pc = "fast_path" => decision \in FastPathCategories
    /\ receipt.status # "none" => pc = "returned"
    /\ CodeFollowsPlan
    /\ VerdictIsOfDelivered

\* Appending an entry keeps CodeFollowsPlan, provided an entry about code names code
\* written from its plan.
LEMMA AppendKeepsCode ==
    ASSUME trace \in Seq(Entries), CodeFollowsPlan, NEW e \in Entries,
           trace' = Append(trace, e),
           e.stage \in {"implementation_check", "closing_report"} => CodeOf(e.implementation, e.plan)
    PROVE  CodeFollowsPlan'
PROOF
  <1>1. DOMAIN trace' = 1..(Len(trace) + 1) /\ DOMAIN trace = 1..Len(trace) /\ Len(trace) \in Nat
    OBVIOUS
  <1>2. \A i \in DOMAIN trace : trace'[i] = trace[i]
    BY <1>1
  <1>3. trace'[Len(trace) + 1] = e
    BY <1>1
  <1> SUFFICES ASSUME NEW i \in DOMAIN trace',
                      trace'[i].stage \in {"implementation_check", "closing_report"}
               PROVE  /\ trace'[i].implementation \in DOMAIN trace'
                      /\ trace'[trace'[i].implementation].stage = "implementation"
                      /\ trace'[trace'[i].implementation].plan = trace'[i].plan
    BY DEF CodeFollowsPlan
  <1>4. CASE i \in DOMAIN trace
    BY <1>1, <1>2, <1>4 DEF CodeFollowsPlan
  <1>5. CASE i = Len(trace) + 1
    BY <1>1, <1>2, <1>3, <1>5 DEF CodeOf
  <1> QED
    BY <1>1, <1>4, <1>5

LEMMA CodeInit == Init => CodeInv
PROOF
  BY DEF Init, CodeInv, LoopOver, CodeFollowsPlan, VerdictIsOfDelivered, FullRun, Completed, NoReceipt

\* Code stays code when the trace grows.
LEMMA AppendKeepsCodeOf ==
    ASSUME trace \in Seq(Entries), NEW e \in Entries, trace' = Append(trace, e),
           NEW i, NEW p, CodeOf(i, p)
    PROVE  /\ i \in DOMAIN trace'
           /\ trace'[i].stage = "implementation"
           /\ trace'[i].plan = p
PROOF
  BY DEF CodeOf

LEMMA CodeStep == TypeInv /\ CodeInv /\ [Next]_vars => CodeInv'
PROOF
  <1> SUFFICES ASSUME TypeInv, CodeInv, [Next]_vars PROVE CodeInv'
    OBVIOUS
  <1> USE DEF LoopOver
  <1>seq. trace \in Seq(Entries) /\ NextCall \in Nat
    BY RevisedType DEF TypeInv, TypeOK
  <1>type. trace' \in Seq(Entries)
    BY TypeStep DEF TypeInv, TypeOK
  <1>dom. /\ DOMAIN trace = 1..Len(trace) /\ Len(trace) \in Nat
          /\ \A e \in Entries : /\ DOMAIN Append(trace, e) = 1..(Len(trace) + 1)
                               /\ Append(trace, e)[NextCall] = e
                               /\ \A i \in DOMAIN trace : Append(trace, e)[i] = trace[i]
    BY <1>seq DEF NextCall
  \* A step that returns nothing leaves the receipt's claim vacuous.
  <1>quiet. pc \notin EndPCs /\ receipt' = receipt =>
              VerdictIsOfDelivered' /\ receipt'.status = "none"
    BY DEF CodeInv, VerdictIsOfDelivered, FullRun, Completed, EndPCs
  <1>same. UNCHANGED trace => CodeFollowsPlan'
    BY DEF CodeInv, CodeFollowsPlan
  <1>plain. \A st \in Stages, a \in Nat : PlainEntry(st, a) \in Entries /\ PlainEntry(st, a).stage = st
    BY PlainEntryType DEF PlainEntry, Entry
  <1>nat. attempt + 1 \in Nat /\ attempt + 2 \in Nat
    BY DEF TypeInv, TypeOK
  <1>1. CASE RouteReentry
    BY <1>1, <1>quiet, <1>same DEF RouteReentry, Prepared, CodeInv, EndPCs
  <1>2. CASE SchemaContext
    BY <1>2, <1>quiet, <1>same DEF SchemaContext, Prepared, CodeInv, EndPCs
  <1>3. CASE RagContext
    BY <1>3, <1>quiet, <1>same DEF RagContext, Prepared, CodeInv, EndPCs
  <1>4. CASE AssembleContext
    BY <1>4, <1>quiet, <1>same DEF AssembleContext, AfterFirstAssembly, Prepared, CodeInv, EndPCs
  <1>5. CASE ReuseOutline
    BY <1>5, <1>quiet, <1>same DEF ReuseOutline, Prepared, CodeInv, EndPCs
  <1>6. CASE \E reply \in RouterReplies : RouterAnswers(reply)
    <2> DEFINE e == PlainEntry("routing", 0)
    <2>1. e \in Entries /\ e.stage \notin {"implementation_check", "closing_report"} /\ trace' = Append(trace, e)
      BY <1>6, <1>plain DEF RouterAnswers, Prepared, Stages
    <2>2. CodeFollowsPlan'
      BY <2>1, <1>seq, AppendKeepsCode DEF CodeInv
    <2> QED
      BY <1>6, <2>2, <1>quiet DEF RouterAnswers, Prepared, CodeInv, EndPCs
  <1>7. CASE FastPathAnswers
    <2> DEFINE e == PlainEntry("fast_path", 0)
    <2>1. e \in Entries /\ e.stage \notin {"implementation_check", "closing_report"} /\ trace' = Append(trace, e)
      BY <1>7, <1>plain DEF FastPathAnswers, Stages
    <2>2. CodeFollowsPlan'
      BY <2>1, <1>seq, AppendKeepsCode DEF CodeInv
    <2> QED
      BY <1>7, <2>2, <1>quiet DEF FastPathAnswers, CodeInv, EndPCs
  <1>8. CASE TaskBreakdown
    <2> DEFINE e == PlainEntry("task_breakdown", 0)
    <2>1. e \in Entries /\ e.stage \notin {"implementation_check", "closing_report"} /\ trace' = Append(trace, e)
      BY <1>8, <1>plain DEF TaskBreakdown, Prepared, Stages
    <2>2. CodeFollowsPlan'
      BY <2>1, <1>seq, AppendKeepsCode DEF CodeInv
    <2> QED
      BY <1>8, <2>2, <1>quiet DEF TaskBreakdown, Prepared, CodeInv, EndPCs
  <1>9. CASE \E sectioned \in BOOLEAN : DesignPlan(sectioned)
    <2> DEFINE e == PlainEntry("design_plan", 1)
    <2>1. e \in Entries /\ e.stage \notin {"implementation_check", "closing_report"} /\ trace' = Append(trace, e)
      BY <1>9, <1>plain DEF DesignPlan, CodeAndReceipt, Context, Stages
    <2>2. CodeFollowsPlan'
      BY <2>1, <1>seq, AppendKeepsCode DEF CodeInv
    <2> QED
      BY <1>9, <2>2, <1>quiet DEF DesignPlan, CodeAndReceipt, Context, CodeInv, EndPCs
  <1>10. CASE \E reply \in QAReplies : GateReview(reply)
    <2> PICK reply \in QAReplies : GateReview(reply)
      BY <1>10
    <2> DEFINE e == Entry("design_gate", attempt + 1, section, VerdictOf(Approves(reply)), plan, 0)
    <2>1. VerdictOf(Approves(reply)) \in Verdicts \cup {"none"}
      BY VerdictOfType DEF Approves
    <2>2. e \in Entries
      BY <2>1, <1>nat, EntryType DEF TypeInv, TypeOK, Stages
    <2>3. e.stage = "design_gate" /\ trace' = Append(trace, e)
      BY DEF GateReview, Entry
    <2>4. CodeFollowsPlan'
      BY <2>2, <2>3, <1>seq, AppendKeepsCode DEF CodeInv
    <2> QED
      BY <2>4, <1>quiet DEF GateReview, CodeAndReceipt, Context, CodeInv, EndPCs
  <1>11. CASE GateRevise
    <2> DEFINE e == Entry("design_revision", attempt + 2, section, "none", plan, 0)
    <2>1. e \in Entries
      BY <1>nat, EntryType DEF TypeInv, TypeOK, Stages
    <2>2. e.stage = "design_revision" /\ trace' = Append(trace, e)
      BY <1>11 DEF GateRevise, Entry
    <2>3. CodeFollowsPlan'
      BY <2>1, <2>2, <1>seq, AppendKeepsCode DEF CodeInv
    <2> QED
      BY <1>11, <2>3, <1>quiet DEF GateRevise, CodeAndReceipt, Context, CodeInv, EndPCs
  <1>12. CASE Implement
    <2> DEFINE e == Entry("implementation", 1, 0, "none", plan, 0)
    <2>1. e \in Entries
      BY <1>nat, EntryType DEF TypeInv, TypeOK, Stages
    <2>2. e.stage = "implementation" /\ e.plan = plan /\ trace' = Append(trace, e)
      BY <1>12 DEF Implement, Entry
    <2>3. CodeFollowsPlan'
      BY <2>1, <2>2, <1>seq, AppendKeepsCode DEF CodeInv
    <2>4. implementation' = NextCall /\ plan' = plan /\ pc' = "impl_review" /\ pc \notin EndPCs
      BY <1>12 DEF Implement, EndPCs
    <2>5. CodeOf(implementation, plan)'
      BY <2>1, <2>2, <2>4, <1>dom DEF CodeOf, NextCall
    <2> QED
      BY <1>12, <2>3, <2>4, <2>5, <1>quiet DEF Implement, CodeInv
  <1>13. CASE ImplReviseCode
    <2> DEFINE e == Entry("implementation", attempt + 2, 0, "none", plan, 0)
    <2>1. e \in Entries
      BY <1>nat, EntryType DEF TypeInv, TypeOK, Stages
    <2>2. e.stage = "implementation" /\ e.plan = plan /\ trace' = Append(trace, e)
      BY <1>13 DEF ImplReviseCode, Entry
    <2>3. CodeFollowsPlan'
      BY <2>1, <2>2, <1>seq, AppendKeepsCode DEF CodeInv
    <2>4. implementation' = NextCall /\ plan' = plan /\ pc' = "impl_review" /\ pc \notin EndPCs
      BY <1>13 DEF ImplReviseCode, RevisedCode, AfterRevision, EndPCs
    <2>5. CodeOf(implementation, plan)'
      BY <2>1, <2>2, <2>4, <1>dom DEF CodeOf, NextCall
    <2> QED
      BY <1>13, <2>3, <2>4, <2>5, <1>quiet DEF ImplReviseCode, CodeInv
  <1>14. CASE \E reply \in QAReplies : ImplReview(reply)
    <2> PICK reply \in QAReplies : ImplReview(reply)
      BY <1>14
    <2> DEFINE v == VerdictOf(Approves(reply))
    <2> DEFINE e == Entry("implementation_check", attempt + 1, 0, v, plan, implementation)
    <2>1. v \in Verdicts \cup {"none"}
      BY VerdictOfType DEF Approves
    <2>2. e \in Entries
      BY <2>1, <1>nat, EntryType DEF TypeInv, TypeOK, Stages
    <2>3. e.stage = "implementation_check" /\ e.plan = plan /\ e.implementation = implementation /\ e.verdict = v
      BY DEF Entry
    <2>4. CodeOf(implementation, plan) /\ trace' = Append(trace, e)
      BY DEF ImplReview, CodeInv
    <2>5. CodeFollowsPlan'
      BY <2>2, <2>3, <2>4, <1>seq, AppendKeepsCode DEF CodeInv
    <2>6. plan' = plan /\ implementation' = implementation /\ v = VerdictOf(qa'.approved)
      BY DEF ImplReview
    <2>7. CodeOf(implementation, plan)'
      BY <2>2, <2>4, <2>6, <1>seq, AppendKeepsCodeOf DEF CodeOf
    <2> PICK n : n = NextCall
      OBVIOUS
    <2>8. n \in DOMAIN trace' /\ trace'[n] = e /\ \A j \in DOMAIN trace' : ~ (j > n)
      BY <2>2, <2>4, <1>dom DEF NextCall
    <2>9. Settled(n)'
      BY <2>3, <2>6, <2>8 DEF Settled
    <2>10. (\E i \in DOMAIN trace : Settled(i))'
      BY <2>8, <2>9
    <2> QED
      BY <2>5, <2>7, <2>10, <1>quiet DEF ImplReview, Design, Context, CodeInv, EndPCs
  <1>15. CASE ImplRevisePlan
    <2> DEFINE e == Entry("design_revision", attempt + 2, 0, "none", plan, 0)
    <2>1. e \in Entries
      BY <1>nat, EntryType DEF TypeInv, TypeOK, Stages
    <2>2. e.stage = "design_revision" /\ trace' = Append(trace, e)
      BY <1>15 DEF ImplRevisePlan, Entry
    <2>3. CodeFollowsPlan'
      BY <2>1, <2>2, <1>seq, AppendKeepsCode DEF CodeInv
    <2> QED
      BY <1>15, <2>3, <1>quiet DEF ImplRevisePlan, CodeInv, EndPCs
  <1>16. CASE \E d \in Deviations : ClosingReport(d)
    <2> DEFINE e == Entry("closing_report", 0, 0, "none", plan, implementation)
    <2>1. e \in Entries
      BY EntryType DEF TypeInv, TypeOK, Stages
    <2>2. e.stage = "closing_report" /\ e.plan = plan /\ e.implementation = implementation
          /\ trace' = Append(trace, e)
      BY <1>16 DEF ClosingReport, Entry
    <2>3. CodeOf(implementation, plan) /\ \E i \in DOMAIN trace : Settled(i)
      BY <1>16 DEF ClosingReport, CodeInv
    <2>4. CodeFollowsPlan'
      BY <2>1, <2>2, <2>3, <1>seq, AppendKeepsCode DEF CodeInv
    <2>5. plan' = plan /\ implementation' = implementation /\ qa' = qa
      BY <1>16 DEF ClosingReport, Built
    <2>6. CodeOf(implementation, plan)'
      BY <2>1, <2>2, <2>3, <2>5, <1>seq, AppendKeepsCodeOf DEF CodeOf
    <2>7. PICK i \in DOMAIN trace : Settled(i)
      BY <2>3
    <2>8. i \in DOMAIN trace' /\ Settled(i)'
      BY <2>1, <2>2, <2>5, <2>7, <1>dom DEF Settled, NextCall
    <2>9. (\E k \in DOMAIN trace : Settled(k))'
      BY <2>8
    <2> QED
      BY <1>16, <2>4, <2>6, <2>9, <1>quiet DEF ClosingReport, CodeInv, EndPCs
  \* The steps between the loop's last verdict and the receipt.
  <1>keep. ASSUME LoopOver, UNCHANGED <<plan, implementation, qa, trace>>
           PROVE  CodeOf(implementation, plan)' /\ (\E i \in DOMAIN trace : Settled(i))'
    BY <1>keep DEF CodeInv, CodeOf, Settled
  <1>17. CASE SkipClosingReport
    BY <1>17, <1>keep, <1>quiet, <1>same DEF SkipClosingReport, Built, CodeInv, EndPCs
  <1>18. CASE Conformance
    BY <1>18, <1>keep, <1>quiet, <1>same DEF Conformance, Built, CodeInv, EndPCs
  <1>19. CASE Triage
    <2> PICK t \in TriageStates : SecurityTriage(t)
      BY <1>19 DEF Triage
    <2>1. UNCHANGED <<plan, implementation, qa, trace, decision>> /\ pc = "triage" /\ pc' = "returned"
      BY DEF SecurityTriage, Built, Design, Context
    <2>2. /\ receipt'.plan = plan /\ receipt'.implementation = implementation
          /\ receipt'.qa = qa /\ receipt'.fastPath = (decision \in FastPathCategories)
      BY DEF SecurityTriage
    <2>3. CASE decision \in FastPathCategories
      BY <2>1, <2>2, <2>3, <1>same DEF CodeInv, VerdictIsOfDelivered, FullRun
    <2>4. CASE decision \notin FastPathCategories
      <3>1. PICK i \in DOMAIN trace : Settled(i)
        BY <2>1, <2>4 DEF CodeInv
      <3>2. VerdictIsOfDelivered'
        BY <2>1, <2>2, <3>1 DEF Settled, VerdictIsOfDelivered
      <3> QED
        BY <2>1, <3>2, <1>same DEF CodeInv
    <2> QED
      BY <2>3, <2>4
  \* The other ends deliver nothing, so their receipt claims nothing.
  <1>ended. ASSUME UNCHANGED trace, pc' \in {"returned", "raised"}, receipt'.status # "completed",
                   pc' = "raised" => receipt'.status = "none"
            PROVE  CodeInv'
    BY <1>ended, <1>same DEF CodeInv, VerdictIsOfDelivered, FullRun, Completed
  <1>failed. \A s \in {"failed", "timeout"} : FailedReceipt(s).status = s
    BY DEF FailedReceipt, NoReceipt
  <1>20. CASE ModelCallFails
    BY <1>20, <1>ended, <1>failed DEF ModelCallFails, Frame
  <1>21. CASE Deadline
    BY <1>21, <1>ended, <1>failed DEF Deadline, AfterDeadline, Frame
  <1>22. CASE EmbeddingFails
    BY <1>22, <1>ended, <1>quiet DEF EmbeddingFails, Frame, EndPCs
  <1>23. CASE AnswerUnreadable
    BY <1>23, <1>ended, <1>quiet DEF AnswerUnreadable, Frame, ModelPCs, CallStage, EndPCs
  <1>24. CASE ConformanceRaises
    BY <1>24, <1>ended, <1>quiet DEF ConformanceRaises, Frame, EndPCs
  <1>25. CASE UNCHANGED vars
    BY <1>25 DEF vars, CodeInv, CodeOf, Settled, CodeFollowsPlan, VerdictIsOfDelivered, FullRun, Completed
  <1> QED
    BY <1>1, <1>2, <1>3, <1>4, <1>5, <1>6, <1>7, <1>8, <1>9, <1>10, <1>11, <1>12, <1>13, <1>14,
       <1>15, <1>16, <1>17, <1>18, <1>19, <1>20, <1>21, <1>22, <1>23, <1>24, <1>25
    DEF Next, SyncStep, Answer, Ended

\* The verdict of a full run's receipt is about the plan and the code it delivers.
THEOREM VerdictOfDelivered == Spec => []VerdictIsOfDelivered
PROOF
  <1>1. CodeInv => VerdictIsOfDelivered
    BY DEF CodeInv
  <1> QED
    BY <1>1, TypeInit, TypeStep, CodeInit, CodeStep, PTL DEF Spec

\* QA judges code together with the plan it was written from.
THEOREM CodeWithItsPlan == Spec => []CodeFollowsPlan
PROOF
  <1>1. CodeInv => CodeFollowsPlan
    BY DEF CodeInv
  <1> QED
    BY <1>1, TypeInit, TypeStep, CodeInit, CodeStep, PTL DEF Spec

-----------------------------------------------------------------------------
(* A returned receipt is final *)

\* Only an ended call has a receipt, and nothing steps out of an ended call.
LEMMA FinalStep == CodeInv /\ [Next]_vars => (receipt.status # "none" => UNCHANGED <<receipt, trace>>)
PROOF
  <1> SUFFICES ASSUME CodeInv, [Next]_vars, receipt.status # "none"
               PROVE  UNCHANGED <<receipt, trace>>
    OBVIOUS
  <1>1. pc = "returned"
    BY DEF CodeInv
  <1>2. "returned" \notin ModelPCs \cup BodyAwaits
    BY DEF ModelPCs, BodyAwaits, CallStage
  <1>3. ~SyncStep
    BY <1>1 DEF SyncStep, RouteReentry, SchemaContext, AssembleContext, ReuseOutline,
                SkipClosingReport, Conformance
  <1>4. ~Answer
    BY <1>1 DEF Answer, RouterAnswers, FastPathAnswers, RagContext, TaskBreakdown, DesignPlan,
                GateReview, GateRevise, Implement, ImplReview, ImplRevisePlan, ImplReviseCode,
                ClosingReport
  <1>5. ~Triage /\ ~ModelCallFails /\ ~Deadline /\ ~EmbeddingFails /\ ~AnswerUnreadable
          /\ ~ConformanceRaises
    BY <1>1, <1>2 DEF Triage, SecurityTriage, ModelCallFails, Deadline, DeadlineHits,
                      EmbeddingFails, AnswerUnreadable, ConformanceRaises
  <1> QED
    BY <1>3, <1>4, <1>5 DEF Next, Ended, vars

\* The receipt a caller holds, and the trace list it shares, never change again.
THEOREM ReceiptStaysFinal == Spec => ReceiptIsFinal
PROOF
  <1>1. TypeInv /\ CodeInv /\ [Next]_vars =>
            [receipt.status # "none" => UNCHANGED <<receipt, trace>>]_vars
    BY FinalStep
  <1> QED
    BY <1>1, TypeInit, TypeStep, CodeInit, CodeStep, PTL DEF Spec, ReceiptIsFinal

-----------------------------------------------------------------------------
(* The first draft is written from a plan the gate reviewed *)

BeforeCode == {"reentry", "routing", "fast_path", "schema", "rag", "assembly", "reuse_outline",
               "task_breakdown", "design_plan", "gate_review", "gate_revise", "implementation"}

NoCode == \A i \in DOMAIN trace : trace[i].stage # "implementation"

GateVerdicts(approved) == IF approved THEN {"APPROVED"} ELSE Verdicts

\* The gate reviewed the current text of section s, favourably if it reports approval.
Passed(s) ==
    \E i \in DOMAIN trace :
        /\ trace[i].stage = "design_gate"
        /\ trace[i].section \in {0, s}
        /\ trace[i].plan[s] = plan[s]
        /\ trace[i].verdict \in GateVerdicts(gate.approved)

\* The gate passes sections in order and never touches one it has passed; no code is
\* written before it has passed them all.
GateInv ==
    /\ pc \in BeforeCode => NoCode
    /\ pc \in {"gate_review", "gate_revise"} => \A s \in Sections : s < section => Passed(s)
    /\ pc = "implementation" => \A s \in Sections : Passed(s)
    /\ FirstDraftFollowsReviewedPlan

LEMMA GateInit == Init => GateInv
PROOF
  BY DEF Init, GateInv, NoCode, FirstDraftFollowsReviewedPlan

\* An entry that is not a first draft adds no obligation.
LEMMA AppendKeepsFirstDraft ==
    ASSUME trace \in Seq(Entries), FirstDraftFollowsReviewedPlan, gate' = gate,
           NEW e \in Entries, trace' = Append(trace, e),
           e.stage # "implementation" \/ e.attempt # 1
    PROVE  FirstDraftFollowsReviewedPlan'
PROOF
  <1>1. DOMAIN trace' = 1..(Len(trace) + 1) /\ DOMAIN trace = 1..Len(trace) /\ Len(trace) \in Nat
    OBVIOUS
  <1>2. (\A i \in DOMAIN trace : trace'[i] = trace[i]) /\ trace'[Len(trace) + 1] = e
    BY <1>1
  <1> SUFFICES ASSUME NEW k \in DOMAIN trace', trace'[k].stage = "implementation",
                      trace'[k].attempt = 1, NEW s \in Sections
               PROVE  GateReviewed(s, trace[k].plan, k, GateVerdicts(gate.approved))'
    BY <1>1, <1>2 DEF FirstDraftFollowsReviewedPlan, GateVerdicts
  <1>3. k \in DOMAIN trace
    BY <1>1, <1>2
  <1>4. GateReviewed(s, trace[k].plan, k, GateVerdicts(gate.approved))
    BY <1>2, <1>3 DEF FirstDraftFollowsReviewedPlan, GateVerdicts
  <1> QED
    BY <1>1, <1>2, <1>3, <1>4 DEF GateReviewed, GateVerdicts

LEMMA GateStep == TypeInv /\ GateInv /\ [Next]_vars => GateInv'
PROOF
  <1> SUFFICES ASSUME TypeInv, GateInv, [Next]_vars PROVE GateInv'
    OBVIOUS
  <1> USE NSectionsAssumption
  <1>seq. trace \in Seq(Entries) /\ NextCall \in Nat
    BY RevisedType DEF TypeInv, TypeOK
  <1>dom. /\ DOMAIN trace = 1..Len(trace) /\ Len(trace) \in Nat
          /\ \A e \in Entries : /\ DOMAIN Append(trace, e) = 1..(Len(trace) + 1)
                               /\ Append(trace, e)[NextCall] = e
                               /\ \A i \in DOMAIN trace : Append(trace, e)[i] = trace[i]
    BY <1>seq DEF NextCall
  <1>plain. \A st \in Stages, a \in Nat : PlainEntry(st, a) \in Entries /\ PlainEntry(st, a).stage = st
    BY PlainEntryType DEF PlainEntry, Entry
  <1>nat. attempt + 1 \in Nat /\ attempt + 2 \in Nat /\ attempt + 2 # 1
    BY DEF TypeInv, TypeOK
  \* Before the gate has closed there is no draft to answer for.
  <1>early. ASSUME NoCode' PROVE FirstDraftFollowsReviewedPlan'
    BY <1>early DEF NoCode, FirstDraftFollowsReviewedPlan
  <1>silent. ASSUME NoCode, UNCHANGED trace PROVE NoCode'
    BY <1>silent DEF NoCode
  <1>other. ASSUME NoCode, NEW e \in Entries, trace' = Append(trace, e), e.stage # "implementation"
            PROVE  NoCode'
    BY <1>other, <1>dom DEF NoCode, NextCall
  \* After it has closed, neither the gate's outcome nor the entries change.
  <1>late. ASSUME UNCHANGED <<trace, gate>>, pc' \notin BeforeCode PROVE GateInv'
    BY <1>late DEF GateInv, FirstDraftFollowsReviewedPlan, GateReviewed, BeforeCode
  <1>grown. ASSUME NEW e \in Entries, trace' = Append(trace, e), gate' = gate, pc' \notin BeforeCode,
                   e.stage # "implementation" \/ e.attempt # 1
            PROVE  GateInv'
    BY <1>grown, <1>seq, AppendKeepsFirstDraft DEF GateInv, BeforeCode
  <1>1. CASE RouteReentry
    BY <1>1, <1>early, <1>silent DEF RouteReentry, Prepared, GateInv, BeforeCode
  <1>2. CASE SchemaContext
    BY <1>2, <1>early, <1>silent DEF SchemaContext, Prepared, GateInv, BeforeCode
  <1>3. CASE RagContext
    BY <1>3, <1>early, <1>silent DEF RagContext, Prepared, GateInv, BeforeCode
  <1>4. CASE AssembleContext
    BY <1>4, <1>early, <1>silent DEF AssembleContext, AfterFirstAssembly, Prepared, GateInv, BeforeCode
  <1>5. CASE ReuseOutline
    BY <1>5, <1>early, <1>silent DEF ReuseOutline, Prepared, GateInv, BeforeCode
  <1>6. CASE \E reply \in RouterReplies : RouterAnswers(reply)
    <2> DEFINE e == PlainEntry("routing", 0)
    <2>1. e \in Entries /\ e.stage # "implementation" /\ trace' = Append(trace, e) /\ pc = "routing"
      BY <1>6, <1>plain DEF RouterAnswers, Stages
    <2>2. NoCode'
      BY <2>1, <1>other DEF GateInv, BeforeCode
    <2> QED
      BY <1>6, <2>2, <1>early DEF RouterAnswers, GateInv, BeforeCode
  <1>7. CASE FastPathAnswers
    <2> DEFINE e == PlainEntry("fast_path", 0)
    <2>1. e \in Entries /\ e.stage # "implementation" /\ trace' = Append(trace, e)
      BY <1>7, <1>plain DEF FastPathAnswers, Stages
    <2> QED
      BY <1>7, <2>1, <1>grown DEF FastPathAnswers, BeforeCode
  <1>8. CASE TaskBreakdown
    <2> DEFINE e == PlainEntry("task_breakdown", 0)
    <2>1. e \in Entries /\ e.stage # "implementation" /\ trace' = Append(trace, e) /\ pc = "task_breakdown"
      BY <1>8, <1>plain DEF TaskBreakdown, Stages
    <2>2. NoCode'
      BY <2>1, <1>other DEF GateInv, BeforeCode
    <2> QED
      BY <1>8, <2>2, <1>early DEF TaskBreakdown, GateInv, BeforeCode
  <1>9. CASE \E sectioned \in BOOLEAN : DesignPlan(sectioned)
    <2> DEFINE e == PlainEntry("design_plan", 1)
    <2>1. e \in Entries /\ e.stage # "implementation" /\ trace' = Append(trace, e) /\ pc = "design_plan"
      BY <1>9, <1>plain DEF DesignPlan, Stages
    <2>2. NoCode'
      BY <2>1, <1>other DEF GateInv, BeforeCode
    <2>3. pc' = "gate_review" /\ section' \in {0, 1}
      BY <1>9 DEF DesignPlan
    <2>4. \A s \in Sections : ~ (s < section')
      BY <2>3 DEF Sections
    <2> QED
      BY <2>2, <2>3, <2>4, <1>early DEF GateInv
  <1>10. CASE \E reply \in QAReplies : GateReview(reply)
    <2> PICK reply \in QAReplies : GateReview(reply)
      BY <1>10
    <2> DEFINE approved == Approves(reply)
               e == Entry("design_gate", attempt + 1, section, VerdictOf(approved), plan, 0)
    <2>1. VerdictOf(approved) \in Verdicts /\ approved \in BOOLEAN
      BY VerdictOfType DEF Approves
    <2>2. e \in Entries
      BY <2>1, <1>nat, EntryType DEF TypeInv, TypeOK, Stages
    <2>3. /\ e.stage = "design_gate" /\ e.section = section /\ e.plan = plan
          /\ e.verdict = VerdictOf(approved) /\ trace' = Append(trace, e)
          /\ pc = "gate_review" /\ plan' = plan
      BY DEF GateReview, Entry
    <2>4. NoCode' /\ FirstDraftFollowsReviewedPlan'
      BY <2>2, <2>3, <1>other, <1>early DEF GateInv, BeforeCode
    \* Passing is kept: the verdicts that count only grow when the gate stops approving.
    <2>5. gate'.approved \in BOOLEAN /\ gate' \in GateOutcomes /\ (gate'.approved => gate.approved)
      <3>1. gate' \in GateOutcomes
        BY TypeStep DEF TypeInv, TypeOK
      <3>2. gate'.approved \in {gate.approved, AllApproved(approved)}
        BY DEF GateReview, TypeInv, TypeOK, GateOutcomes
      <3> QED
        BY <3>1, <3>2 DEF AllApproved, GateOutcomes
    <2>6. \A s \in Sections : Passed(s) => Passed(s)'
      <3> SUFFICES ASSUME NEW s \in Sections, Passed(s) PROVE Passed(s)'
        OBVIOUS
      <3>1. PICK i \in DOMAIN trace : /\ trace[i].stage = "design_gate"
                                      /\ trace[i].section \in {0, s}
                                      /\ trace[i].plan[s] = plan[s]
                                      /\ trace[i].verdict \in GateVerdicts(gate.approved)
        BY DEF Passed
      <3>2. i \in DOMAIN trace' /\ trace'[i] = trace[i]
        BY <2>2, <2>3, <1>dom
      <3>3. trace[i].verdict \in GateVerdicts(gate'.approved)
        BY <3>1, <2>5 DEF GateVerdicts, Verdicts
      <3> QED
        BY <3>1, <3>2, <3>3, <2>3 DEF Passed
    <2>7. CASE LoopEnds(approved)
      <3>1. /\ gate'.approved = AllApproved(approved)
            /\ section' = IF section \in {0, NSections} THEN 0 ELSE section + 1
            /\ pc' = IF section \in {0, NSections} THEN "implementation" ELSE "gate_review"
        BY <2>7 DEF GateReview, TypeInv, TypeOK, GateOutcomes
      \* The section just reviewed passes too: by its new entry.
      <3>2. \A s \in Sections : section \in {0, s} => Passed(s)'
        <4> SUFFICES ASSUME NEW s \in Sections, section \in {0, s} PROVE Passed(s)'
          OBVIOUS
        <4> PICK n : n = NextCall
          OBVIOUS
        <4>1. n \in DOMAIN trace' /\ trace'[n] = e
          BY <2>2, <2>3, <1>dom DEF NextCall
        <4>2. e.verdict \in GateVerdicts(gate'.approved)
          BY <2>1, <2>3, <3>1 DEF GateVerdicts, AllApproved, VerdictOf
        <4> QED
          BY <4>1, <4>2, <2>3 DEF Passed
      <3>3. section \in Nat /\ NSections \in Nat /\ Sections \subseteq Nat
        BY DEF TypeInv, TypeOK, Sections
      <3>4. \A s \in Sections : s < section => Passed(s)'
        BY <2>3, <2>6 DEF GateInv
      <3>5. CASE section \in {0, NSections}
        <4>1. \A s \in Sections : section \in {0, s} \/ s < section
          BY <3>3, <3>5 DEF Sections
        <4> QED
          BY <3>1, <3>2, <3>4, <3>5, <4>1, <2>4 DEF GateInv
      <3>6. CASE section \notin {0, NSections}
        <4>1. \A s \in Sections : s < section + 1 => section \in {0, s} \/ s < section
          BY <3>3 DEF Sections
        <4> QED
          BY <3>1, <3>2, <3>4, <3>6, <4>1, <2>4 DEF GateInv
      <3> QED
        BY <3>5, <3>6
    <2>8. CASE ~LoopEnds(approved)
      <3>1. pc' = "gate_revise" /\ section' = section
        BY <2>8 DEF GateReview
      <3> QED
        BY <3>1, <2>3, <2>4, <2>6 DEF GateInv
    <2> QED
      BY <2>7, <2>8
  <1>11. CASE GateRevise
    <2> DEFINE e == Entry("design_revision", attempt + 2, section, "none", plan, 0)
    <2>1. e \in Entries
      BY <1>nat, EntryType DEF TypeInv, TypeOK, Stages
    <2>2. /\ e.stage = "design_revision" /\ trace' = Append(trace, e) /\ plan' = Revised(plan, section)
          /\ pc = "gate_revise" /\ pc' = "gate_review" /\ UNCHANGED <<section, gate>>
      BY <1>11 DEF GateRevise, Entry
    <2>3. NoCode' /\ FirstDraftFollowsReviewedPlan'
      BY <2>1, <2>2, <1>other, <1>early DEF GateInv, BeforeCode
    <2>4. \A s \in Sections : s < section => Passed(s)'
      <3> SUFFICES ASSUME NEW s \in Sections, s < section PROVE Passed(s)'
        OBVIOUS
      <3>1. plan'[s] = plan[s]
        BY <2>2 DEF Revised, Sections, TypeInv, TypeOK
      <3>2. Passed(s)
        BY <2>2 DEF GateInv
      <3> QED
        BY <2>1, <2>2, <3>1, <3>2, <1>dom DEF Passed
    <2> QED
      BY <2>2, <2>3, <2>4 DEF GateInv
  <1>12. CASE Implement
    <2> DEFINE e == Entry("implementation", 1, 0, "none", plan, 0)
    <2>1. e \in Entries
      BY <1>nat, EntryType DEF TypeInv, TypeOK, Stages
    <2>2. /\ e.stage = "implementation" /\ e.plan = plan /\ trace' = Append(trace, e)
          /\ pc = "implementation" /\ pc' = "impl_review" /\ gate' = gate
      BY <1>12 DEF Implement, Design, Entry
    <2>3. NoCode /\ \A s \in Sections : Passed(s)
      BY <2>2 DEF GateInv, BeforeCode
    <2>4. ASSUME NEW k \in DOMAIN trace', trace'[k].stage = "implementation", NEW s \in Sections
          PROVE  GateReviewed(s, trace[k].plan, k, GateVerdicts(gate.approved))'
      <3>1. k = Len(trace) + 1 /\ trace'[k] = e
        BY <2>1, <2>2, <2>3, <2>4, <1>dom DEF NoCode, NextCall
      <3>2. PICK i \in DOMAIN trace : /\ trace[i].stage = "design_gate"
                                      /\ trace[i].section \in {0, s}
                                      /\ trace[i].plan[s] = plan[s]
                                      /\ trace[i].verdict \in GateVerdicts(gate.approved)
        BY <2>3 DEF Passed
      <3>3. i < k /\ i \in DOMAIN trace' /\ trace'[i] = trace[i]
        BY <2>1, <2>2, <3>1, <1>dom
      <3> QED
        BY <2>2, <3>1, <3>2, <3>3 DEF GateReviewed, GateVerdicts
    <2>5. FirstDraftFollowsReviewedPlan'
      BY <2>4 DEF FirstDraftFollowsReviewedPlan, GateVerdicts
    <2> QED
      BY <2>2, <2>5 DEF GateInv, BeforeCode
  <1>13. CASE \E reply \in QAReplies : ImplReview(reply)
    <2> PICK reply \in QAReplies : ImplReview(reply)
      BY <1>13
    <2> DEFINE e == Entry("implementation_check", attempt + 1, 0, VerdictOf(Approves(reply)), plan,
                          implementation)
    <2>1. VerdictOf(Approves(reply)) \in Verdicts
      BY VerdictOfType DEF Approves
    <2>2. e \in Entries
      BY <2>1, <1>nat, EntryType DEF TypeInv, TypeOK, Stages
    <2>3. e.stage = "implementation_check" /\ trace' = Append(trace, e) /\ gate' = gate
      BY DEF ImplReview, Design, Entry
    <2>4. pc' \notin BeforeCode
      BY DEF ImplReview, BeforeCode
    <2> QED
      BY <2>2, <2>3, <2>4, <1>grown
  <1>14. CASE ImplRevisePlan
    <2> DEFINE e == Entry("design_revision", attempt + 2, 0, "none", plan, 0)
    <2>1. e \in Entries
      BY <1>nat, EntryType DEF TypeInv, TypeOK, Stages
    <2>2. e.stage = "design_revision" /\ trace' = Append(trace, e) /\ gate' = gate /\ pc' \notin BeforeCode
      BY <1>14 DEF ImplRevisePlan, Design, Entry, BeforeCode
    <2> QED
      BY <2>1, <2>2, <1>grown
  <1>15. CASE ImplReviseCode
    <2> DEFINE e == Entry("implementation", attempt + 2, 0, "none", plan, 0)
    <2>1. e \in Entries
      BY <1>nat, EntryType DEF TypeInv, TypeOK, Stages
    <2>2. e.attempt # 1 /\ trace' = Append(trace, e) /\ gate' = gate /\ pc' \notin BeforeCode
      BY <1>15, <1>nat DEF ImplReviseCode, AfterRevision, Design, Entry, BeforeCode
    <2> QED
      BY <2>1, <2>2, <1>grown
  <1>16. CASE \E d \in Deviations : ClosingReport(d)
    <2> DEFINE e == Entry("closing_report", 0, 0, "none", plan, implementation)
    <2>1. e \in Entries
      BY EntryType DEF TypeInv, TypeOK, Stages
    <2>2. e.stage = "closing_report" /\ trace' = Append(trace, e) /\ gate' = gate /\ pc' \notin BeforeCode
      BY <1>16 DEF ClosingReport, Built, Design, Entry, BeforeCode
    <2> QED
      BY <2>1, <2>2, <1>grown
  <1>17. CASE SkipClosingReport
    BY <1>17, <1>late DEF SkipClosingReport, Built, Design, BeforeCode
  <1>18. CASE Conformance
    BY <1>18, <1>late DEF Conformance, Built, Design, BeforeCode
  <1>19. CASE Triage
    BY <1>19, <1>late DEF Triage, SecurityTriage, Built, Design, BeforeCode
  <1>20. CASE ModelCallFails
    BY <1>20, <1>late DEF ModelCallFails, Frame, BeforeCode
  <1>21. CASE Deadline
    BY <1>21, <1>late DEF Deadline, AfterDeadline, Frame, BeforeCode
  <1>22. CASE EmbeddingFails
    BY <1>22, <1>late DEF EmbeddingFails, Frame, BeforeCode
  <1>23. CASE AnswerUnreadable
    BY <1>23, <1>late DEF AnswerUnreadable, Frame, BeforeCode
  <1>24. CASE ConformanceRaises
    BY <1>24, <1>late DEF ConformanceRaises, Frame, BeforeCode
  <1>25. CASE UNCHANGED vars
    BY <1>25 DEF vars, GateInv, NoCode, Passed, FirstDraftFollowsReviewedPlan, GateReviewed
  <1> QED
    BY <1>1, <1>2, <1>3, <1>4, <1>5, <1>6, <1>7, <1>8, <1>9, <1>10, <1>11, <1>12, <1>13, <1>14,
       <1>15, <1>16, <1>17, <1>18, <1>19, <1>20, <1>21, <1>22, <1>23, <1>24, <1>25
    DEF Next, SyncStep, Answer, Ended

\* No first draft is written from a text the gate did not review, whatever the answers.
THEOREM FirstDraftReviewed == Spec => []FirstDraftFollowsReviewedPlan
PROOF
  <1>1. GateInv => FirstDraftFollowsReviewedPlan
    BY DEF GateInv
  <1> QED
    BY <1>1, TypeInit, TypeStep, GateInit, GateStep, PTL DEF Spec

-----------------------------------------------------------------------------
(* A re-entry keeps the outline it was given *)

BeforePlan == {"reentry", "routing", "fast_path", "schema", "rag", "assembly", "reuse_outline",
               "task_breakdown", "design_plan"}

\* Where a run is once its outline is in the context.
WithOutline == {"design_plan", "gate_review", "gate_revise", "implementation", "impl_review",
                "impl_revise_plan", "impl_revise_code", "closing_report", "skip_closing_report",
                "conformance", "triage"}

FirstRunStages == {"routing", "fast_path", "task_breakdown"}

\* A re-entry is never where a first run is routed or outlined, and from the design on it
\* has the prior outline; the Architect is not asked before the outline is in the context.
ReentryInv ==
    /\ request.prior =>
        /\ pc \notin FirstRunStages
        /\ decision \notin FastPathCategories
        /\ outline # "fresh"
        /\ pc \in WithOutline => outline = "prior"
    /\ pc = "design_plan" => context = "with_outline"
    /\ pc \in BeforePlan => \A i \in DOMAIN trace : trace[i].stage # "design_plan"
    /\ ReentryKeepsOutline

LEMMA ReentryInit == Init => ReentryInv
PROOF
  BY DEF Init, ReentryInv, ReentryKeepsOutline, FirstRunStages, FastPathCategories, WithOutline,
         Completed, NoReceipt

LEMMA ReentryStep == TypeInv /\ ReentryInv /\ [Next]_vars => ReentryInv'
PROOF
  <1> SUFFICES ASSUME TypeInv, ReentryInv, [Next]_vars PROVE ReentryInv'
    OBVIOUS
  <1> USE DEF FirstRunStages
  <1>seq. trace \in Seq(Entries) /\ NextCall \in Nat
    BY RevisedType DEF TypeInv, TypeOK
  <1>dom. /\ DOMAIN trace = 1..Len(trace) /\ Len(trace) \in Nat
          /\ \A e \in Entries : /\ DOMAIN Append(trace, e) = 1..(Len(trace) + 1)
                               /\ Append(trace, e)[NextCall] = e
                               /\ \A i \in DOMAIN trace : Append(trace, e)[i] = trace[i]
    BY <1>seq DEF NextCall
  <1>plain. \A st \in Stages, a \in Nat : PlainEntry(st, a) \in Entries /\ PlainEntry(st, a).stage = st
    BY PlainEntryType DEF PlainEntry, Entry
  <1>nat. attempt + 1 \in Nat /\ attempt + 2 \in Nat
    BY DEF TypeInv, TypeOK
  \* A step that is neither an answer nor the receipt keeps what the trace and the receipt say.
  <1>silent. ASSUME UNCHANGED <<request, trace, receipt>>, context' = context \/ pc \in BeforePlan
             PROVE  ReentryKeepsOutline'
    BY <1>silent DEF ReentryInv, ReentryKeepsOutline, Completed
  \* An answer of a stage that a re-entry may run.
  <1>grown. ASSUME NEW e \in Entries, trace' = Append(trace, e), UNCHANGED <<request, receipt, context>>,
                   request.prior => e.stage \notin FirstRunStages,
                   e.stage = "design_plan" => context = "with_outline"
            PROVE  ReentryKeepsOutline'
    <2>1. \A i \in DOMAIN trace' : trace'[i] = e \/ (i \in DOMAIN trace /\ trace'[i] = trace[i])
      BY <1>grown, <1>dom DEF NextCall
    <2> QED
      BY <2>1, <1>grown DEF ReentryInv, ReentryKeepsOutline, Completed
  <1>noplan. ASSUME NEW e \in Entries, trace' = Append(trace, e), e.stage # "design_plan",
                    \A i \in DOMAIN trace : trace[i].stage # "design_plan"
             PROVE  \A i \in DOMAIN trace' : trace'[i].stage # "design_plan"
    BY <1>noplan, <1>dom DEF NextCall
  <1>1. CASE RouteReentry
    BY <1>1, <1>silent DEF RouteReentry, Prepared, ReentryInv, BeforePlan, WithOutline, FastPathCategories
  <1>2. CASE SchemaContext
    BY <1>2, <1>silent DEF SchemaContext, Prepared, ReentryInv, BeforePlan, WithOutline
  <1>3. CASE RagContext
    BY <1>3, <1>silent DEF RagContext, Prepared, ReentryInv, BeforePlan, WithOutline
  <1>4. CASE AssembleContext
    BY <1>4, <1>silent DEF AssembleContext, AfterFirstAssembly, Prepared, ReentryInv, BeforePlan, WithOutline, TypeInv, TypeOK
  <1>5. CASE ReuseOutline
    BY <1>5, <1>silent DEF ReuseOutline, Prepared, ReentryInv, BeforePlan, WithOutline
  <1>6. CASE \E reply \in RouterReplies : RouterAnswers(reply)
    <2> PICK reply \in RouterReplies : RouterAnswers(reply)
      BY <1>6
    <2> DEFINE e == PlainEntry("routing", 0)
    <2>1. /\ e \in Entries /\ e.stage = "routing" /\ trace' = Append(trace, e) /\ pc = "routing"
          /\ UNCHANGED <<request, receipt, context>> /\ pc' \in {"fast_path", "schema"}
      BY <1>plain DEF RouterAnswers, Prepared, Stages
    <2>2. ~request.prior /\ \A i \in DOMAIN trace : trace[i].stage # "design_plan"
      BY <2>1 DEF ReentryInv, BeforePlan
    <2>3. ReentryKeepsOutline' /\ \A i \in DOMAIN trace' : trace'[i].stage # "design_plan"
      BY <2>1, <2>2, <1>grown, <1>noplan
    <2> QED
      BY <2>1, <2>2, <2>3 DEF ReentryInv
  <1>7. CASE FastPathAnswers
    <2> DEFINE e == PlainEntry("fast_path", 0)
    <2>1. /\ e \in Entries /\ e.stage = "fast_path" /\ trace' = Append(trace, e) /\ pc = "fast_path"
          /\ UNCHANGED <<request, receipt, context>> /\ pc' = "triage"
      BY <1>7, <1>plain DEF FastPathAnswers, Stages
    <2>2. ~request.prior
      BY <2>1 DEF ReentryInv
    <2>3. ReentryKeepsOutline'
      BY <2>1, <2>2, <1>grown
    <2> QED
      BY <2>1, <2>2, <2>3 DEF ReentryInv, BeforePlan
  <1>8. CASE TaskBreakdown
    <2> DEFINE e == PlainEntry("task_breakdown", 0)
    <2>1. /\ e \in Entries /\ e.stage = "task_breakdown" /\ trace' = Append(trace, e)
          /\ pc = "task_breakdown" /\ UNCHANGED <<request, receipt, context>> /\ pc' = "assembly"
      BY <1>8, <1>plain DEF TaskBreakdown, Prepared, Stages
    <2>2. ~request.prior /\ \A i \in DOMAIN trace : trace[i].stage # "design_plan"
      BY <2>1 DEF ReentryInv, BeforePlan
    <2>3. ReentryKeepsOutline' /\ \A i \in DOMAIN trace' : trace'[i].stage # "design_plan"
      BY <2>1, <2>2, <1>grown, <1>noplan
    <2> QED
      BY <2>1, <2>2, <2>3 DEF ReentryInv
  <1>9. CASE \E sectioned \in BOOLEAN : DesignPlan(sectioned)
    <2> DEFINE e == PlainEntry("design_plan", 1)
    <2>1. /\ e \in Entries /\ e.stage = "design_plan" /\ trace' = Append(trace, e)
          /\ pc = "design_plan" /\ UNCHANGED <<request, receipt, context, outline, decision>>
          /\ pc' = "gate_review"
      BY <1>9, <1>plain DEF DesignPlan, CodeAndReceipt, Context, Stages
    <2>2. ReentryKeepsOutline'
      BY <2>1, <1>grown DEF ReentryInv
    <2> QED
      BY <2>1, <2>2 DEF ReentryInv, BeforePlan, WithOutline
  \* From the gate on, a run stays where it has its outline.
  <1>onward. ASSUME NEW e \in Entries, trace' = Append(trace, e), UNCHANGED <<Context, receipt>>,
                    e.stage \notin FirstRunStages \cup {"design_plan"},
                    pc \in WithOutline, pc' \in WithOutline \ {"design_plan"}
             PROVE  ReentryInv'
    <2>1. ReentryKeepsOutline'
      BY <1>onward, <1>grown DEF Context
    <2> QED
      BY <1>onward, <2>1 DEF ReentryInv, Context, WithOutline, BeforePlan
  <1>10. CASE \E reply \in QAReplies : GateReview(reply)
    <2> PICK reply \in QAReplies : GateReview(reply)
      BY <1>10
    <2> DEFINE e == Entry("design_gate", attempt + 1, section, VerdictOf(Approves(reply)), plan, 0)
    <2>1. VerdictOf(Approves(reply)) \in Verdicts \cup {"none"}
      BY VerdictOfType DEF Approves
    <2>2. e \in Entries
      BY <2>1, <1>nat, EntryType DEF TypeInv, TypeOK, Stages
    <2>3. /\ e.stage = "design_gate" /\ trace' = Append(trace, e) /\ UNCHANGED <<Context, receipt>>
          /\ pc \in WithOutline /\ pc' \in WithOutline \ {"design_plan"}
      BY DEF GateReview, Entry, CodeAndReceipt, WithOutline
    <2> QED
      BY <2>2, <2>3, <1>onward
  <1>11. CASE GateRevise
    <2> DEFINE e == Entry("design_revision", attempt + 2, section, "none", plan, 0)
    <2>1. e \in Entries
      BY <1>nat, EntryType DEF TypeInv, TypeOK, Stages
    <2>2. /\ e.stage = "design_revision" /\ trace' = Append(trace, e) /\ UNCHANGED <<Context, receipt>>
          /\ pc \in WithOutline /\ pc' \in WithOutline \ {"design_plan"}
      BY <1>11 DEF GateRevise, Entry, CodeAndReceipt, WithOutline
    <2> QED
      BY <2>1, <2>2, <1>onward
  <1>12. CASE Implement
    <2> DEFINE e == Entry("implementation", 1, 0, "none", plan, 0)
    <2>1. e \in Entries
      BY <1>nat, EntryType DEF TypeInv, TypeOK, Stages
    <2>2. /\ e.stage = "implementation" /\ trace' = Append(trace, e) /\ UNCHANGED <<Context, receipt>>
          /\ pc \in WithOutline /\ pc' \in WithOutline \ {"design_plan"}
      BY <1>12 DEF Implement, Entry, Design, WithOutline
    <2> QED
      BY <2>1, <2>2, <1>onward
  <1>13. CASE \E reply \in QAReplies : ImplReview(reply)
    <2> PICK reply \in QAReplies : ImplReview(reply)
      BY <1>13
    <2> DEFINE e == Entry("implementation_check", attempt + 1, 0, VerdictOf(Approves(reply)), plan,
                          implementation)
    <2>1. VerdictOf(Approves(reply)) \in Verdicts \cup {"none"}
      BY VerdictOfType DEF Approves
    <2>2. e \in Entries
      BY <2>1, <1>nat, EntryType DEF TypeInv, TypeOK, Stages
    <2>3. /\ e.stage = "implementation_check" /\ trace' = Append(trace, e)
          /\ UNCHANGED <<Context, receipt>> /\ pc \in WithOutline
          /\ pc' \in WithOutline \ {"design_plan"}
      BY DEF ImplReview, Entry, Design, WithOutline
    <2> QED
      BY <2>2, <2>3, <1>onward
  <1>14. CASE ImplRevisePlan
    <2> DEFINE e == Entry("design_revision", attempt + 2, 0, "none", plan, 0)
    <2>1. e \in Entries
      BY <1>nat, EntryType DEF TypeInv, TypeOK, Stages
    <2>2. /\ e.stage = "design_revision" /\ trace' = Append(trace, e) /\ UNCHANGED <<Context, receipt>>
          /\ pc \in WithOutline /\ pc' \in WithOutline \ {"design_plan"}
      BY <1>14 DEF ImplRevisePlan, Entry, Design, WithOutline
    <2> QED
      BY <2>1, <2>2, <1>onward
  <1>15. CASE ImplReviseCode
    <2> DEFINE e == Entry("implementation", attempt + 2, 0, "none", plan, 0)
    <2>1. e \in Entries
      BY <1>nat, EntryType DEF TypeInv, TypeOK, Stages
    <2>2. /\ e.stage = "implementation" /\ trace' = Append(trace, e) /\ UNCHANGED <<Context, receipt>>
          /\ pc \in WithOutline /\ pc' \in WithOutline \ {"design_plan"}
      BY <1>15 DEF ImplReviseCode, AfterRevision, Entry, Design, WithOutline
    <2> QED
      BY <2>1, <2>2, <1>onward
  <1>16. CASE \E d \in Deviations : ClosingReport(d)
    <2> DEFINE e == Entry("closing_report", 0, 0, "none", plan, implementation)
    <2>1. e \in Entries
      BY EntryType DEF TypeInv, TypeOK, Stages
    <2>2. /\ e.stage = "closing_report" /\ trace' = Append(trace, e) /\ UNCHANGED <<Context, receipt>>
          /\ pc \in WithOutline /\ pc' \in WithOutline \ {"design_plan"}
      BY <1>16 DEF ClosingReport, Entry, Built, Design, WithOutline
    <2> QED
      BY <2>1, <2>2, <1>onward
  <1>17. CASE SkipClosingReport
    BY <1>17, <1>silent DEF SkipClosingReport, Built, Design, Context, ReentryInv, BeforePlan, WithOutline
  <1>18. CASE Conformance
    BY <1>18, <1>silent DEF Conformance, Built, Design, Context, ReentryInv, BeforePlan, WithOutline
  <1>19. CASE Triage
    <2> PICK t \in TriageStates : SecurityTriage(t)
      BY <1>19 DEF Triage
    <2>1. /\ UNCHANGED <<request, decision, outline, context, trace>> /\ pc = "triage" /\ pc' = "returned"
          /\ receipt'.outline = outline /\ receipt'.fastPath = (decision \in FastPathCategories)
      BY DEF SecurityTriage, Built, Design, Context
    <2> QED
      BY <2>1 DEF ReentryInv, ReentryKeepsOutline, BeforePlan, WithOutline
  \* The other ends claim nothing of the outline.
  <1>ended. ASSUME UNCHANGED Frame, pc' \in {"returned", "raised"}, receipt'.status # "completed" \/ receipt' = receipt
            PROVE  ReentryInv'
    BY <1>ended DEF Frame, ReentryInv, ReentryKeepsOutline, Completed, BeforePlan, WithOutline
  <1>failed. \A s \in {"failed", "timeout"} : FailedReceipt(s).status # "completed"
    BY DEF FailedReceipt, NoReceipt
  <1>20. CASE ModelCallFails
    BY <1>20, <1>ended, <1>failed DEF ModelCallFails
  <1>21. CASE Deadline
    BY <1>21, <1>ended, <1>failed DEF Deadline, AfterDeadline
  <1>22. CASE EmbeddingFails
    BY <1>22, <1>ended DEF EmbeddingFails
  <1>23. CASE AnswerUnreadable
    BY <1>23, <1>ended DEF AnswerUnreadable
  <1>24. CASE ConformanceRaises
    BY <1>24, <1>ended DEF ConformanceRaises
  <1>25. CASE UNCHANGED vars
    BY <1>25 DEF vars, ReentryInv, ReentryKeepsOutline, Completed
  <1> QED
    BY <1>1, <1>2, <1>3, <1>4, <1>5, <1>6, <1>7, <1>8, <1>9, <1>10, <1>11, <1>12, <1>13, <1>14,
       <1>15, <1>16, <1>17, <1>18, <1>19, <1>20, <1>21, <1>22, <1>23, <1>24, <1>25
    DEF Next, SyncStep, Answer, Ended

\* A re-entry is a full run on the outline it was given, and no run asks the Architect
\* before its outline is in the context.
THEOREM ReentryOutlineKept == Spec => []ReentryKeepsOutline
PROOF
  <1>1. ReentryInv => ReentryKeepsOutline
    BY DEF ReentryInv
  <1> QED
    BY <1>1, TypeInit, TypeStep, ReentryInit, ReentryStep, PTL DEF Spec

-----------------------------------------------------------------------------
(* What a receipt says of each stage *)

\* A step leaves the trace alone or appends one entry, of the stage whose answer was awaited.
LEMMA TraceStep ==
    ASSUME TypeInv, [Next]_vars
    PROVE  \/ UNCHANGED trace
           \/ /\ pc \in ModelPCs
              /\ \E e \in Entries : /\ trace' = Append(trace, e)
                                    /\ e.stage = CallStage[pc]
                                    /\ e.attempt <= MaxQA + 1
PROOF
  <1> USE MaxQAAssumption DEF ModelPCs, CallStage
  <1>plain. \A st \in Stages, a \in Nat : /\ PlainEntry(st, a) \in Entries
                                          /\ PlainEntry(st, a).stage = st /\ PlainEntry(st, a).attempt = a
    BY PlainEntryType DEF PlainEntry, Entry
  <1>nat. /\ attempt + 1 \in Nat /\ attempt + 2 \in Nat /\ attempt + 1 <= MaxQA + 1
          /\ attempt < MaxQA => attempt + 2 <= MaxQA + 1
    BY DEF TypeInv, TypeOK
  <1>entry. \A st \in Stages, a \in Nat, sec \in {0, section}, v \in Verdicts \cup {"none"}, i \in {0, implementation} :
               /\ Entry(st, a, sec, v, plan, i) \in Entries
               /\ Entry(st, a, sec, v, plan, i).stage = st
               /\ Entry(st, a, sec, v, plan, i).attempt = a
    <2>1. plan \in Plans /\ implementation \in Nat /\ 0 \in Nat /\ section \in Sections \cup {0}
      BY DEF TypeInv, TypeOK
    <2>2. ASSUME NEW st \in Stages, NEW a \in Nat, NEW sec \in {0, section},
                 NEW v \in Verdicts \cup {"none"}, NEW i \in {0, implementation}
          PROVE  /\ Entry(st, a, sec, v, plan, i) \in Entries
                 /\ Entry(st, a, sec, v, plan, i).stage = st
                 /\ Entry(st, a, sec, v, plan, i).attempt = a
      <3>1. sec \in Sections \cup {0} /\ i \in Nat
        BY <2>1
      <3>2. Entry(st, a, sec, v, plan, i) \in Entries
        BY <2>1, <3>1, EntryType
      <3> QED
        BY <3>2 DEF Entry
    <2> QED
      BY <2>2
  <1>verdict. \A reply \in QAReplies : VerdictOf(Approves(reply)) \in Verdicts \cup {"none"}
    BY VerdictOfType DEF Approves
  <1>1. CASE SyncStep
    BY <1>1 DEF SyncStep, RouteReentry, SchemaContext, AssembleContext, ReuseOutline, SkipClosingReport,
                Conformance, Prepared, Built
  <1>2. CASE Answer
    <2>1. CASE \E reply \in RouterReplies : RouterAnswers(reply)
      BY <2>1, <1>plain DEF RouterAnswers, Stages
    <2>2. CASE FastPathAnswers
      <3> DEFINE e == PlainEntry("fast_path", 0)
      <3>1. trace' = Append(trace, e) /\ pc = "fast_path"
        BY <2>2 DEF FastPathAnswers
      <3>2. e \in Entries /\ e.stage = "fast_path" /\ e.attempt = 0
        BY <1>plain DEF Stages
      <3> QED
        BY <3>1, <3>2
    <2>3. CASE RagContext
      BY <2>3 DEF RagContext
    <2>4. CASE TaskBreakdown
      <3> DEFINE e == PlainEntry("task_breakdown", 0)
      <3>1. trace' = Append(trace, e) /\ pc = "task_breakdown"
        BY <2>4 DEF TaskBreakdown
      <3>2. e \in Entries /\ e.stage = "task_breakdown" /\ e.attempt = 0
        BY <1>plain DEF Stages
      <3> QED
        BY <3>1, <3>2
    <2>5. CASE \E sectioned \in BOOLEAN : DesignPlan(sectioned)
      <3> DEFINE e == PlainEntry("design_plan", 1)
      <3>1. trace' = Append(trace, e) /\ pc = "design_plan"
        BY <2>5 DEF DesignPlan
      <3>2. e \in Entries /\ e.stage = "design_plan" /\ e.attempt = 1
        BY <1>plain DEF Stages
      <3> QED
        BY <3>1, <3>2
    <2>6. CASE \E reply \in QAReplies : GateReview(reply)
      <3> PICK reply \in QAReplies : GateReview(reply)
        BY <2>6
      <3> DEFINE e == Entry("design_gate", attempt + 1, section, VerdictOf(Approves(reply)), plan, 0)
      <3>1. trace' = Append(trace, e) /\ pc = "gate_review"
        BY DEF GateReview
      <3>2. e \in Entries /\ e.stage = "design_gate" /\ e.attempt = attempt + 1
        BY <1>entry, <1>verdict, <1>nat DEF Stages
      <3> QED
        BY <3>1, <3>2, <1>nat
    <2>7. CASE GateRevise
      <3> DEFINE e == Entry("design_revision", attempt + 2, section, "none", plan, 0)
      <3>1. trace' = Append(trace, e) /\ pc = "gate_revise"
        BY <2>7 DEF GateRevise
      <3>2. attempt + 2 \in Nat /\ attempt + 2 <= MaxQA + 1
        BY <2>7, <1>nat DEF GateRevise, TypeInv, RevisionsLeft
      <3>3. e \in Entries /\ e.stage = "design_revision" /\ e.attempt = attempt + 2
        BY <3>2, <1>entry DEF Stages
      <3> QED
        BY <3>1, <3>2, <3>3
    <2>8. CASE Implement
      <3> DEFINE e == Entry("implementation", 1, 0, "none", plan, 0)
      <3>1. trace' = Append(trace, e) /\ pc = "implementation"
        BY <2>8 DEF Implement
      <3>2. e \in Entries /\ e.stage = "implementation" /\ e.attempt = 1
        BY <1>entry DEF Stages
      <3> QED
        BY <3>1, <3>2
    <2>9. CASE \E reply \in QAReplies : ImplReview(reply)
      <3> PICK reply \in QAReplies : ImplReview(reply)
        BY <2>9
      <3> DEFINE e == Entry("implementation_check", attempt + 1, 0, VerdictOf(Approves(reply)), plan,
                            implementation)
      <3>1. trace' = Append(trace, e) /\ pc = "impl_review"
        BY DEF ImplReview
      <3>2. e \in Entries /\ e.stage = "implementation_check" /\ e.attempt = attempt + 1
        BY <1>entry, <1>verdict, <1>nat DEF Stages
      <3> QED
        BY <3>1, <3>2, <1>nat
    <2>10. CASE ImplRevisePlan
      <3> DEFINE e == Entry("design_revision", attempt + 2, 0, "none", plan, 0)
      <3>1. trace' = Append(trace, e) /\ pc = "impl_revise_plan"
        BY <2>10 DEF ImplRevisePlan
      <3>2. attempt + 2 \in Nat /\ attempt + 2 <= MaxQA + 1
        BY <2>10, <1>nat DEF ImplRevisePlan, TypeInv, RevisionsLeft
      <3>3. e \in Entries /\ e.stage = "design_revision" /\ e.attempt = attempt + 2
        BY <3>2, <1>entry DEF Stages
      <3> QED
        BY <3>1, <3>2, <3>3
    <2>11. CASE ImplReviseCode
      <3> DEFINE e == Entry("implementation", attempt + 2, 0, "none", plan, 0)
      <3>1. trace' = Append(trace, e) /\ pc = "impl_revise_code"
        BY <2>11 DEF ImplReviseCode
      <3>2. attempt + 2 \in Nat /\ attempt + 2 <= MaxQA + 1
        BY <2>11, <1>nat DEF ImplReviseCode, TypeInv, RevisionsLeft
      <3>3. e \in Entries /\ e.stage = "implementation" /\ e.attempt = attempt + 2
        BY <3>2, <1>entry DEF Stages
      <3> QED
        BY <3>1, <3>2, <3>3
    <2>12. CASE \E d \in Deviations : ClosingReport(d)
      <3> DEFINE e == Entry("closing_report", 0, 0, "none", plan, implementation)
      <3>1. trace' = Append(trace, e) /\ pc = "closing_report"
        BY <2>12 DEF ClosingReport
      <3>2. e \in Entries /\ e.stage = "closing_report" /\ e.attempt = 0
        BY <1>entry DEF Stages
      <3> QED
        BY <3>1, <3>2
    <2> QED
      BY <1>2, <2>1, <2>2, <2>3, <2>4, <2>5, <2>6, <2>7, <2>8, <2>9, <2>10, <2>11, <2>12 DEF Answer
  <1>3. CASE Triage \/ ModelCallFails \/ Deadline \/ EmbeddingFails \/ AnswerUnreadable \/ ConformanceRaises
             \/ Ended \/ UNCHANGED vars
    BY <1>3 DEF Triage, SecurityTriage, ModelCallFails, Deadline, EmbeddingFails, AnswerUnreadable,
                ConformanceRaises, Ended, Frame, vars
  <1> QED
    BY <1>1, <1>2, <1>3 DEF Next

Traced(stage) == \E i \in DOMAIN trace : trace[i].stage = stage

\* What is recorded of a stage with a model call is what the trace shows.
Told(stage) == outcomes[stage] = "ran" <=> Traced(stage)

\* Where a run is once a stage's outcome is recorded.
RecordedAt ==
    LET closed == {"conformance", "triage"}
        judged == closed \cup {"closing_report", "skip_closing_report"}
        gated == judged \cup {"implementation", "impl_review", "impl_revise_plan", "impl_revise_code"}
        retrieved == WithOutline \cup {"assembly", "reuse_outline", "task_breakdown"}
    IN  [closing_report |-> closed, implementation_check |-> judged, design_gate |-> gated,
         context_budget |-> WithOutline, rag |-> retrieved, schema_grounding |-> retrieved \cup {"rag"}]

\* Outside its own loop, a stage is recorded as run exactly when the trace holds its call;
\* every stage is recorded once the run is past it, by both paths to the triage.
OutcomeInv ==
    /\ pc \notin EndPCs \cup {"gate_review", "gate_revise"} => Told("design_gate")
    /\ pc \notin EndPCs \cup {"impl_review", "impl_revise_plan", "impl_revise_code"} =>
           Told("implementation_check")
    /\ pc \notin EndPCs => Told("closing_report")
    /\ pc \in {"routing", "fast_path"} => outcomes = NothingRecorded
    /\ pc \notin EndPCs \cup {"conformance", "triage"} => outcomes.closing_report # "ran"
    /\ \A s \in OutcomeStages : pc \in RecordedAt[s] => outcomes[s] # "absent"
    /\ ReceiptDeclaresEveryStage

LEMMA OutcomeInit == Init => OutcomeInv
PROOF
  <1> SUFFICES ASSUME Init PROVE OutcomeInv
    OBVIOUS
  <1>1. pc \in {"reentry", "routing"} /\ outcomes = NothingRecorded
    BY DEF Init
  <1>2. \A s \in OutcomeStages : outcomes[s] = "absent" /\ pc \notin RecordedAt[s]
    BY <1>1 DEF NothingRecorded, OutcomeStages, RecordedAt, WithOutline
  <1>3. \A s \in OutcomeStages : Told(s)
    BY <1>2 DEF Init, Told, Traced
  <1> QED
    BY <1>1, <1>2, <1>3 DEF Init, OutcomeInv, OutcomeStages, ReceiptDeclaresEveryStage, Completed, NoReceipt

\* Each step records what it ran, and no more.
LEMMA OutcomeStep == TypeInv /\ CodeInv /\ OutcomeInv /\ [Next]_vars => OutcomeInv'
PROOF
  <1> SUFFICES ASSUME TypeInv, CodeInv, OutcomeInv, [Next]_vars PROVE OutcomeInv'
    OBVIOUS
  <1>seq. trace \in Seq(Entries)
    BY DEF TypeInv, TypeOK
  <1>same. UNCHANGED trace => \A st : Traced(st)' <=> Traced(st)
    BY DEF Traced
  <1>append. ASSUME NEW e \in Entries, trace' = Append(trace, e)
             PROVE  \A st : Traced(st)' <=> Traced(st) \/ e.stage = st
    <2>1. /\ DOMAIN trace' = 1..(Len(trace) + 1) /\ DOMAIN trace = 1..Len(trace) /\ Len(trace) \in Nat
          /\ trace'[Len(trace) + 1] = e /\ \A i \in DOMAIN trace : trace'[i] = trace[i]
      BY <1>seq, <1>append
    <2> QED
      BY <2>1 DEF Traced
  <1>call. UNCHANGED trace \/ (pc \in ModelPCs /\ \A st : Traced(st)' <=> Traced(st) \/ CallStage[pc] = st)
    <2>1. CASE UNCHANGED trace
      BY <2>1
    <2>2. CASE pc \in ModelPCs /\ \E e \in Entries : trace' = Append(trace, e) /\ e.stage = CallStage[pc]
      BY <2>2, <1>append
    <2> QED
      BY <2>1, <2>2, TraceStep
  <1>answered. ASSUME NEW e \in Entries, trace' = Append(trace, e)
               PROVE  \A st : Traced(st)' <=> Traced(st) \/ CallStage[pc] = st
    <2>1. trace' # trace
      BY <1>seq, <1>answered
    <2> QED
      BY <2>1, <1>call
  <1>out. /\ outcomes \in [OutcomeStages -> {"absent", "skipped", "ran"}]
          /\ {"design_gate", "implementation_check", "closing_report"} \subseteq OutcomeStages
    BY DEF TypeInv, TypeOK, RecordedOutcomes, OutcomeStages
  \* A step that is no answer to a reviewed stage and keeps the receipt.
  <1>keep. ASSUME receipt' = receipt, pc \notin EndPCs,
                  \A s \in OutcomeStages : pc' \in RecordedAt[s] => outcomes'[s] # "absent",
                  pc' \in EndPCs \cup {"gate_review", "gate_revise"} \/ Told("design_gate")',
                  \/ pc' \in EndPCs \cup {"impl_review", "impl_revise_plan", "impl_revise_code"}
                  \/ Told("implementation_check")',
                  pc' \in EndPCs \/ Told("closing_report")',
                  pc' \in {"routing", "fast_path"} => outcomes' = NothingRecorded,
                  pc' \in EndPCs \cup {"conformance", "triage"} \/ outcomes'.closing_report # "ran"
           PROVE  OutcomeInv'
    <2>1. receipt'.status = "none"
      BY <1>keep DEF CodeInv, EndPCs
    <2>2. ReceiptDeclaresEveryStage'
      BY <2>1 DEF ReceiptDeclaresEveryStage, Completed
    <2> QED
      BY <1>keep, <2>2 DEF OutcomeInv
  \* The stages without a verdict: what is told of the three with one stays as it was.
  <1>other. ASSUME UNCHANGED trace \/ (pc \in ModelPCs /\ CallStage[pc] \notin OutcomeStages),
                   \A s \in {"design_gate", "implementation_check", "closing_report"} :
                       outcomes'[s] = outcomes[s]
            PROVE  \A s \in {"design_gate", "implementation_check", "closing_report"} : Told(s) => Told(s)'
    BY <1>other, <1>call, <1>same, <1>out DEF Told
  <1> USE DEF CallStage, ModelPCs, OutcomeStages, RecordedAt, WithOutline, EndPCs
  <1>1. CASE RouteReentry
    BY <1>1, <1>keep, <1>other DEF RouteReentry, Prepared, OutcomeInv
  <1>2. CASE SchemaContext
    BY <1>2, <1>keep, <1>other, <1>out DEF SchemaContext, Prepared, OutcomeInv
  <1>3. CASE RagContext
    BY <1>3, <1>keep, <1>other, <1>out DEF RagContext, Prepared, OutcomeInv
  <1>4. CASE AssembleContext
    <2>1. CASE outline = "none"
      BY <1>4, <2>1, <1>keep, <1>other, <1>out DEF AssembleContext, AfterFirstAssembly, Prepared, OutcomeInv
    <2>2. CASE outline # "none"
      <3>1. /\ UNCHANGED <<trace, receipt>> /\ pc = "assembly" /\ pc' = "design_plan"
            /\ outcomes'.rag = "ran" /\ outcomes'.context_budget = "ran"
            /\ \A s \in OutcomeStages \ {"rag", "context_budget"} : outcomes'[s] = outcomes[s]
        BY <1>4, <2>2, <1>out DEF AssembleContext, Prepared
      <3> QED
        BY <3>1, <1>keep, <1>other DEF OutcomeInv
    <2> QED
      BY <2>1, <2>2
  <1>5. CASE ReuseOutline
    BY <1>5, <1>keep, <1>other DEF ReuseOutline, Prepared, OutcomeInv
  <1>6. CASE \E reply \in RouterReplies : RouterAnswers(reply)
    BY <1>6, <1>keep, <1>other DEF RouterAnswers, Prepared, OutcomeInv
  <1>8. CASE TaskBreakdown
    BY <1>8, <1>keep, <1>other DEF TaskBreakdown, Prepared, OutcomeInv
  <1>9. CASE \E sectioned \in BOOLEAN : DesignPlan(sectioned)
    BY <1>9, <1>keep, <1>other DEF DesignPlan, Context, CodeAndReceipt, OutcomeInv
  <1>11. CASE GateRevise
    BY <1>11, <1>keep, <1>other DEF GateRevise, Context, CodeAndReceipt, OutcomeInv
  <1>12. CASE Implement
    BY <1>12, <1>keep, <1>other DEF Implement, OutcomeInv
  <1>14. CASE ImplRevisePlan
    BY <1>14, <1>keep, <1>other DEF ImplRevisePlan, OutcomeInv
  <1>15. CASE ImplReviseCode
    BY <1>15, <1>keep, <1>other DEF ImplReviseCode, AfterRevision, OutcomeInv
  <1>18. CASE Conformance
    BY <1>18, <1>keep, <1>other DEF Conformance, OutcomeInv
  \* Nothing was traced when the router sent the request to the fast path.
  <1>7. CASE FastPathAnswers
    <2>1. /\ UNCHANGED receipt /\ pc = "fast_path" /\ pc' = "triage"
          /\ \A s \in OutcomeStages : outcomes[s] = "absent" /\ outcomes'[s] = "skipped"
      BY <1>7 DEF FastPathAnswers, SkippedStages, OutcomeInv, NothingRecorded
    <2>2. \A s \in {"design_gate", "implementation_check", "closing_report"} : ~Traced(s)
      BY <2>1 DEF OutcomeInv, Told
    <2>3. \A s \in {"design_gate", "implementation_check", "closing_report"} : ~Traced(s)'
      BY <2>1, <2>2, <1>call, <1>same
    <2> QED
      BY <2>1, <2>3, <1>keep DEF Told
  <1>10. CASE \E reply \in QAReplies : GateReview(reply)
    <2> PICK reply \in QAReplies : GateReview(reply)
      BY <1>10
    <2> DEFINE e == Entry("design_gate", attempt + 1, section, VerdictOf(Approves(reply)), plan, 0)
    <2>1. trace' = Append(trace, e) /\ pc = "gate_review" /\ UNCHANGED receipt
      BY DEF GateReview, CodeAndReceipt
    <2>2. trace' # trace
      BY <2>1, <1>seq
    <2>3. \A st : Traced(st)' <=> Traced(st) \/ st = "design_gate"
      BY <2>1, <2>2, <1>call
    <2>4. \/ pc' \in {"gate_review", "gate_revise"} /\ outcomes' = outcomes
          \/ pc' = "implementation" /\ outcomes' = [outcomes EXCEPT !.design_gate = "ran"]
      BY DEF GateReview
    <2>5. Told("implementation_check") /\ Told("closing_report") /\ outcomes.closing_report # "ran"
      BY <2>1 DEF OutcomeInv
    <2>6. \A s \in OutcomeStages : pc \in RecordedAt[s] => outcomes[s] # "absent"
      BY DEF OutcomeInv
    <2>7. CASE pc' \in {"gate_review", "gate_revise"} /\ outcomes' = outcomes
      BY <2>1, <2>3, <2>5, <2>6, <2>7, <1>keep DEF Told
    <2>8. CASE pc' = "implementation" /\ outcomes' = [outcomes EXCEPT !.design_gate = "ran"]
      BY <2>1, <2>3, <2>5, <2>6, <2>8, <1>keep, <1>out DEF Told
    <2> QED
      BY <2>4, <2>7, <2>8
  <1>13. CASE \E reply \in QAReplies : ImplReview(reply)
    <2> PICK reply \in QAReplies : ImplReview(reply)
      BY <1>13
    <2> DEFINE e == Entry("implementation_check", attempt + 1, 0, VerdictOf(Approves(reply)), plan,
                          implementation)
    <2>1. trace' = Append(trace, e) /\ pc = "impl_review" /\ UNCHANGED receipt
      BY DEF ImplReview
    <2>2. trace' # trace
      BY <2>1, <1>seq
    <2>3. \A st : Traced(st)' <=> Traced(st) \/ st = "implementation_check"
      BY <2>1, <2>2, <1>call
    <2>4. \/ pc' = "impl_revise_plan" /\ outcomes' = outcomes
          \/ /\ pc' \in {"closing_report", "skip_closing_report"}
             /\ outcomes' = [outcomes EXCEPT !.implementation_check = "ran"]
      BY DEF ImplReview
    <2>5. Told("design_gate") /\ Told("closing_report") /\ outcomes.closing_report # "ran"
      BY <2>1 DEF OutcomeInv
    <2>6. \A s \in OutcomeStages : pc \in RecordedAt[s] => outcomes[s] # "absent"
      BY DEF OutcomeInv
    <2>7. CASE pc' = "impl_revise_plan" /\ outcomes' = outcomes
      BY <2>1, <2>3, <2>5, <2>6, <2>7, <1>keep DEF Told
    <2>8. CASE /\ pc' \in {"closing_report", "skip_closing_report"}
               /\ outcomes' = [outcomes EXCEPT !.implementation_check = "ran"]
      BY <2>1, <2>3, <2>5, <2>6, <2>8, <1>keep, <1>out DEF Told
    <2> QED
      BY <2>4, <2>7, <2>8
  <1>16. CASE \E d \in Deviations : ClosingReport(d)
    <2> DEFINE e == Entry("closing_report", 0, 0, "none", plan, implementation)
    <2>1. /\ trace' = Append(trace, e) /\ pc = "closing_report" /\ pc' = "conformance" /\ UNCHANGED receipt
          /\ outcomes' = [outcomes EXCEPT !.closing_report = "ran"]
      BY <1>16 DEF ClosingReport
    <2>2. trace' # trace
      BY <2>1, <1>seq
    <2>3. \A st : Traced(st)' <=> Traced(st) \/ st = "closing_report"
      BY <2>1, <2>2, <1>call
    <2>4. /\ Told("design_gate") /\ Told("implementation_check")
          /\ \A s \in OutcomeStages : pc \in RecordedAt[s] => outcomes[s] # "absent"
      BY <2>1 DEF OutcomeInv
    <2> QED
      BY <2>1, <2>3, <2>4, <1>keep, <1>out DEF Told
  <1>17. CASE SkipClosingReport
    <2>1. /\ UNCHANGED <<trace, receipt>> /\ pc = "skip_closing_report" /\ pc' = "conformance"
          /\ outcomes' = [outcomes EXCEPT !.closing_report = "skipped"]
      BY <1>17 DEF SkipClosingReport
    <2>2. /\ Told("design_gate") /\ Told("implementation_check") /\ Told("closing_report")
          /\ outcomes.closing_report # "ran"
          /\ \A s \in OutcomeStages : pc \in RecordedAt[s] => outcomes[s] # "absent"
      BY <2>1 DEF OutcomeInv
    <2> QED
      BY <2>1, <2>2, <1>keep, <1>same, <1>out DEF Told
  <1>19. CASE Triage
    <2> PICK t \in TriageStates : SecurityTriage(t)
      BY <1>19 DEF Triage
    <2>1. /\ UNCHANGED <<trace, outcomes>> /\ pc = "triage" /\ pc' = "returned"
          /\ receipt'.outcomes = outcomes
      BY DEF SecurityTriage
    <2>2. /\ Told("design_gate") /\ Told("implementation_check") /\ Told("closing_report")
          /\ \A s \in OutcomeStages : outcomes[s] # "absent"
      BY <2>1 DEF OutcomeInv
    <2>3. ReceiptDeclaresEveryStage'
      BY <2>1, <2>2 DEF ReceiptDeclaresEveryStage, Told, Traced, Stages
    <2> QED
      BY <2>1, <2>3 DEF OutcomeInv
  \* The other ends complete nothing.
  <1>ended. ASSUME pc' \in EndPCs, receipt'.status # "completed"
            PROVE  OutcomeInv'
    BY <1>ended DEF OutcomeInv, ReceiptDeclaresEveryStage, Completed
  <1>failed. \A s \in {"failed", "timeout"} : FailedReceipt(s).status # "completed"
    BY DEF FailedReceipt, NoReceipt
  <1>20. CASE ModelCallFails
    BY <1>20, <1>ended, <1>failed DEF ModelCallFails
  <1>21. CASE Deadline
    BY <1>21, <1>ended, <1>failed DEF Deadline, AfterDeadline
  <1>22. CASE EmbeddingFails
    BY <1>22, <1>ended DEF EmbeddingFails, CodeInv
  <1>23. CASE AnswerUnreadable
    BY <1>23, <1>ended DEF AnswerUnreadable, CodeInv
  <1>24. CASE ConformanceRaises
    BY <1>24, <1>ended DEF ConformanceRaises, CodeInv
  <1>25. CASE UNCHANGED vars
    BY <1>25 DEF vars, OutcomeInv, Told, Traced, ReceiptDeclaresEveryStage, Completed
  <1> QED
    BY <1>1, <1>2, <1>3, <1>4, <1>5, <1>6, <1>7, <1>8, <1>9, <1>10, <1>11, <1>12, <1>13, <1>14,
       <1>15, <1>16, <1>17, <1>18, <1>19, <1>20, <1>21, <1>22, <1>23, <1>24, <1>25
    DEF Next, SyncStep, Answer, Ended

\* A completed receipt says of every stage, truthfully, whether it ran.
THEOREM ReceiptTellsStages == Spec => []ReceiptDeclaresEveryStage
PROOF
  <1>1. OutcomeInv => ReceiptDeclaresEveryStage
    BY DEF OutcomeInv
  <1> QED
    BY <1>1, TypeInit, TypeStep, CodeInit, CodeStep, OutcomeInit, OutcomeStep, PTL DEF Spec

-----------------------------------------------------------------------------
(* The attempts a receipt reports *)

\* The count of checks is the number of their entries; it runs with the loop's own counter,
\* and a loop that is over stopped on approval or after MaxQA revisions.
CountInv ==
    /\ IsFiniteSet(CheckEntries) /\ qa.attempts = Cardinality(CheckEntries)
    /\ pc \in BeforeCode => qa = NotChecked
    /\ pc = "impl_review" => qa.attempts = attempt
    /\ pc \in {"impl_revise_plan", "impl_revise_code"} => qa.attempts = attempt + 1
    /\ LoopOver => /\ qa.approved \/ qa.attempts = MaxQA + 1
                   /\ qa.feedback = ~qa.approved
    /\ QACountMatchesTrace

LEMMA CountInit == Init => CountInv
PROOF
  <1> SUFFICES ASSUME Init PROVE CountInv
    OBVIOUS
  <1>1. CheckEntries = {}
    BY DEF Init, CheckEntries
  <1>2. qa = NotChecked /\ pc \in {"reentry", "routing"} /\ receipt = NoReceipt
    BY DEF Init
  <1> QED
    BY <1>1, <1>2, FS_EmptySet DEF CountInv, LoopOver, NotChecked, NoReceipt, QACountMatchesTrace, FullRun, Completed

LEMMA CountStep == TypeInv /\ CodeInv /\ CountInv /\ [Next]_vars => CountInv'
PROOF
  <1> SUFFICES ASSUME TypeInv, CodeInv, CountInv, [Next]_vars PROVE CountInv'
    OBVIOUS
  <1> USE MaxQAAssumption DEF LoopOver, BeforeCode
  <1>seq. trace \in Seq(Entries) /\ attempt \in Nat
    BY DEF TypeInv, TypeOK
  <1>same. UNCHANGED trace => CheckEntries' = CheckEntries
    BY DEF CheckEntries
  <1>append. ASSUME NEW e \in Entries, trace' = Append(trace, e)
             PROVE  CheckEntries' = IF e.stage = "implementation_check"
                                    THEN CheckEntries \cup {Len(trace) + 1} ELSE CheckEntries
    <2>1. /\ DOMAIN trace' = 1..(Len(trace) + 1) /\ DOMAIN trace = 1..Len(trace) /\ Len(trace) \in Nat
          /\ trace'[Len(trace) + 1] = e /\ \A i \in DOMAIN trace : trace'[i] = trace[i]
      BY <1>seq, <1>append
    <2> QED
      BY <2>1 DEF CheckEntries
  \* Only a check adds to the checks.
  <1>others. pc \in ModelPCs /\ pc # "impl_review" => CheckEntries' = CheckEntries
    <2> SUFFICES ASSUME pc \in ModelPCs, pc # "impl_review" PROVE CheckEntries' = CheckEntries
      OBVIOUS
    <2>1. CASE UNCHANGED trace
      BY <2>1, <1>same
    <2>2. CASE \E e \in Entries : trace' = Append(trace, e) /\ e.stage = CallStage[pc]
      BY <2>2, <1>append DEF ModelPCs, CallStage
    <2> QED
      BY <2>1, <2>2, TraceStep
  \* A step that neither checks nor returns.
  <1>keep. ASSUME CheckEntries' = CheckEntries, UNCHANGED <<qa, receipt>>, pc \notin EndPCs,
                  pc' \in BeforeCode => qa = NotChecked,
                  pc' = "impl_review" => qa.attempts = attempt',
                  pc' \in {"impl_revise_plan", "impl_revise_code"} => qa.attempts = attempt' + 1,
                  LoopOver' => LoopOver
           PROVE  CountInv'
    <2>1. receipt'.status = "none"
      BY <1>keep DEF CodeInv, EndPCs
    <2> QED
      BY <1>keep, <2>1 DEF CountInv, QACountMatchesTrace, FullRun, Completed
  <1> USE DEF CallStage, ModelPCs, EndPCs
  <1>1. CASE RouteReentry
    BY <1>1, <1>keep, <1>same DEF RouteReentry, Prepared, CountInv
  <1>2. CASE SchemaContext
    BY <1>2, <1>keep, <1>same DEF SchemaContext, Prepared, CountInv
  <1>3. CASE RagContext
    BY <1>3, <1>keep, <1>same DEF RagContext, Prepared, CountInv
  <1>4. CASE AssembleContext
    BY <1>4, <1>keep, <1>same DEF AssembleContext, AfterFirstAssembly, Prepared, CountInv
  <1>5. CASE ReuseOutline
    BY <1>5, <1>keep, <1>same DEF ReuseOutline, Prepared, CountInv
  <1>6. CASE \E reply \in RouterReplies : RouterAnswers(reply)
    BY <1>6, <1>keep, <1>others DEF RouterAnswers, Prepared, CountInv
  <1>7. CASE FastPathAnswers
    BY <1>7, <1>keep, <1>others DEF FastPathAnswers, CountInv, CodeInv
  <1>8. CASE TaskBreakdown
    BY <1>8, <1>keep, <1>others DEF TaskBreakdown, Prepared, CountInv
  <1>9. CASE \E sectioned \in BOOLEAN : DesignPlan(sectioned)
    BY <1>9, <1>keep, <1>others DEF DesignPlan, Context, CodeAndReceipt, CountInv
  <1>10. CASE \E reply \in QAReplies : GateReview(reply)
    BY <1>10, <1>keep, <1>others DEF GateReview, Context, CodeAndReceipt, CountInv
  <1>11. CASE GateRevise
    BY <1>11, <1>keep, <1>others DEF GateRevise, Context, CodeAndReceipt, CountInv
  <1>12. CASE Implement
    BY <1>12, <1>keep, <1>others DEF Implement, CountInv, NotChecked
  <1>13. CASE \E reply \in QAReplies : ImplReview(reply)
    <2> PICK reply \in QAReplies : ImplReview(reply)
      BY <1>13
    <2> DEFINE approved == Approves(reply)
               e == Entry("implementation_check", attempt + 1, 0, VerdictOf(approved), plan, implementation)
    <2>1. approved \in BOOLEAN /\ VerdictOf(approved) \in Verdicts \cup {"none"}
      BY VerdictOfType DEF Approves
    <2>2. e \in Entries /\ e.stage = "implementation_check"
      BY <2>1, <1>seq, EntryType DEF TypeInv, TypeOK, Stages, Entry
    <2>3. trace' = Append(trace, e) /\ pc = "impl_review" /\ UNCHANGED <<receipt, attempt>>
      BY DEF ImplReview
    <2>4. CheckEntries' = CheckEntries \cup {Len(trace) + 1} /\ Len(trace) + 1 \notin CheckEntries
      BY <2>2, <2>3, <1>append, <1>seq DEF CheckEntries
    <2>5. IsFiniteSet(CheckEntries') /\ Cardinality(CheckEntries') = Cardinality(CheckEntries) + 1
      BY <2>4, FS_AddElement DEF CountInv
    <2>6. /\ qa'.attempts = qa.attempts + 1 /\ qa'.approved = approved /\ qa'.feedback = ~approved
          /\ pc' \in {"closing_report", "skip_closing_report", "impl_revise_plan"}
          /\ pc' \in {"closing_report", "skip_closing_report"} => approved \/ attempt = MaxQA
      BY DEF ImplReview, CountReview, LoopEnds
    <2>7. receipt'.status = "none"
      BY <2>3 DEF CodeInv
    <2>8. qa.attempts = attempt /\ qa.attempts = Cardinality(CheckEntries)
      BY <2>3 DEF CountInv
    <2> QED
      BY <2>1, <2>3, <2>5, <2>6, <2>7, <2>8 DEF CountInv, QACountMatchesTrace, FullRun, Completed
  <1>14. CASE ImplRevisePlan
    BY <1>14, <1>keep, <1>others DEF ImplRevisePlan, CountInv
  <1>15. CASE ImplReviseCode
    BY <1>15, <1>keep, <1>others, <1>seq DEF ImplReviseCode, AfterRevision, CountInv
  <1>16. CASE \E d \in Deviations : ClosingReport(d)
    BY <1>16, <1>keep, <1>others DEF ClosingReport, Built, CountInv
  <1>17. CASE SkipClosingReport
    BY <1>17, <1>keep, <1>same DEF SkipClosingReport, Built, CountInv
  <1>18. CASE Conformance
    BY <1>18, <1>keep, <1>same DEF Conformance, Built, Design, Context, CountInv
  <1>19. CASE Triage
    <2> PICK t \in TriageStates : SecurityTriage(t)
      BY <1>19 DEF Triage
    <2>1. /\ UNCHANGED <<trace, qa>> /\ pc = "triage" /\ pc' = "returned"
          /\ receipt'.qa = qa /\ receipt'.fastPath = (decision \in FastPathCategories)
      BY DEF SecurityTriage, Built
    <2> QED
      BY <2>1, <1>same DEF CountInv, QACountMatchesTrace, FullRun
  \* The other ends complete nothing.
  <1>ended. ASSUME UNCHANGED Frame, pc' \in EndPCs, receipt'.status # "completed"
            PROVE  CountInv'
    BY <1>ended, <1>same DEF Frame, CountInv, QACountMatchesTrace, FullRun, Completed
  <1>failed. \A s \in {"failed", "timeout"} : FailedReceipt(s).status # "completed"
    BY DEF FailedReceipt, NoReceipt
  <1>20. CASE ModelCallFails
    BY <1>20, <1>ended, <1>failed DEF ModelCallFails
  <1>21. CASE Deadline
    BY <1>21, <1>ended, <1>failed DEF Deadline, AfterDeadline
  <1>22. CASE EmbeddingFails
    BY <1>22, <1>ended DEF EmbeddingFails, CodeInv
  <1>23. CASE AnswerUnreadable
    BY <1>23, <1>ended DEF AnswerUnreadable, CodeInv
  <1>24. CASE ConformanceRaises
    BY <1>24, <1>ended DEF ConformanceRaises, CodeInv
  <1>25. CASE UNCHANGED vars
    BY <1>25, <1>same DEF vars, CountInv, QACountMatchesTrace, FullRun, Completed
  <1> QED
    BY <1>1, <1>2, <1>3, <1>4, <1>5, <1>6, <1>7, <1>8, <1>9, <1>10, <1>11, <1>12, <1>13, <1>14,
       <1>15, <1>16, <1>17, <1>18, <1>19, <1>20, <1>21, <1>22, <1>23, <1>24, <1>25
    DEF Next, SyncStep, Answer, Ended

\* The attempts a receipt reports are the checks in its trace, and "not approved" is said
\* only after MaxQA revisions.
THEOREM QACountIsTrue == Spec => []QACountMatchesTrace
PROOF
  <1>1. CountInv => QACountMatchesTrace
    BY DEF CountInv
  <1> QED
    BY <1>1, TypeInit, TypeStep, CodeInit, CodeStep, CountInit, CountStep, PTL DEF Spec

-----------------------------------------------------------------------------
(* The number of model calls is bounded *)

\* The most calls the gate makes for k sections.
GateCost(k) == k * (2 * MaxQA + 1)

LEMMA GateCostGrows ==
    ASSUME NEW k \in Nat, NEW n \in Nat
    PROVE  /\ GateCost(k) \in Nat
           /\ GateCost(k + 1) = GateCost(k) + 2 * MaxQA + 1
           /\ k <= n => GateCost(k) <= GateCost(n)
PROOF
  <1> DEFINE c == 2 * MaxQA + 1
  <1>1. c \in Nat
    BY MaxQAAssumption
  <1>2. GateCost(k) = k * c /\ GateCost(n) = n * c /\ GateCost(k + 1) = (k + 1) * c
    BY DEF GateCost
  <1> HIDE DEF c
  <1>3. k * c \in Nat /\ (k + 1) * c = k * c + c
    BY <1>1
  <1>4. ASSUME k <= n PROVE k * c <= n * c
    <2> PICK d \in Nat : n = k + d
      <3>1. n - k \in Nat /\ n = k + (n - k)
        BY <1>4
      <3> QED
        BY <3>1
    <2>1. n * c = k * c + d * c /\ d * c \in Nat
      BY <1>1
    <2> QED
      BY <1>3, <2>1
  <1> QED
    BY <1>2, <1>3, <1>4, MaxQAAssumption DEF c

\* Sections the gate has closed.
ClosedSections == IF section = 0 THEN 0 ELSE section - 1

\* The most calls a run can have made where it is.
Allowed ==
    LET designed == 3 + GateCost(NSections)
    IN  [reentry |-> 0, routing |-> 0, fast_path |-> 1, schema |-> 1, rag |-> 1, reuse_outline |-> 1,
         task_breakdown |-> 1, assembly |-> IF outline = "none" THEN 1 ELSE 2, design_plan |-> 2,
         gate_review |-> 3 + GateCost(ClosedSections) + 2 * attempt,
         gate_revise |-> 4 + GateCost(ClosedSections) + 2 * attempt,
         implementation |-> designed, impl_review |-> designed + 1 + 3 * attempt,
         impl_revise_plan |-> designed + 2 + 3 * attempt, impl_revise_code |-> designed + 3 + 3 * attempt,
         closing_report |-> designed + 3 * MaxQA + 2, skip_closing_report |-> designed + 3 * MaxQA + 2,
         conformance |-> WorkBudget, triage |-> WorkBudget,
         returned |-> WorkBudget, raised |-> WorkBudget][pc]

WorkInv ==
    /\ Len(trace) <= Allowed
    /\ \A i \in DOMAIN trace : trace[i].attempt <= MaxQA + 1

\* Wherever the run is, the calls allowed there are within the budget.
LEMMA AllowedWithinBudget == TypeInv => Allowed \in Nat /\ Allowed <= WorkBudget
PROOF
  <1> SUFFICES ASSUME TypeInv PROVE Allowed \in Nat /\ Allowed <= WorkBudget
    OBVIOUS
  <1> USE MaxQAAssumption, NSectionsAssumption
  <1> DEFINE G == GateCost(NSections)
             D == GateCost(ClosedSections)
  <1>1. ClosedSections \in Nat /\ ClosedSections + 1 <= NSections
    BY DEF ClosedSections, TypeInv, TypeOK, Sections
  <1>2. G \in Nat /\ D \in Nat /\ D + 2 * MaxQA + 1 <= G
    BY <1>1, GateCostGrows
  <1>3. WorkBudget = 3 + G + 3 * MaxQA + 3
    BY <1>2 DEF WorkBudget, GateCost
  <1>4. attempt \in 0..MaxQA /\ pc \in PCs
    BY DEF TypeInv, TypeOK
  <1>5. PCs = {"reentry", "routing", "fast_path", "schema", "rag", "reuse_outline", "task_breakdown",
               "assembly", "design_plan", "gate_review", "gate_revise", "implementation", "impl_review",
               "impl_revise_plan", "impl_revise_code", "closing_report", "skip_closing_report",
               "conformance", "triage", "returned", "raised"}
    BY DEF PCs, BodyAwaits, ModelPCs, CallStage, SyncPCs, EndPCs
  <1> HIDE DEF G, D
  <1>6. Allowed \in {0, 1, 2, 3 + D + 2 * attempt, 4 + D + 2 * attempt, 3 + G, 3 + G + 1 + 3 * attempt,
                     3 + G + 2 + 3 * attempt, 3 + G + 3 + 3 * attempt, 3 + G + 3 * MaxQA + 2, WorkBudget}
    BY <1>4, <1>5 DEF Allowed, G, D
  <1> QED
    BY <1>2, <1>3, <1>4, <1>6

LEMMA WorkInit == Init => WorkInv
PROOF
  BY DEF Init, WorkInv, Allowed

LEMMA WorkStep == TypeInv /\ WorkInv /\ [Next]_vars => WorkInv'
PROOF
  <1> SUFFICES ASSUME TypeInv, WorkInv, [Next]_vars PROVE WorkInv'
    OBVIOUS
  <1> USE MaxQAAssumption, NSectionsAssumption
  <1> DEFINE G == GateCost(NSections)
             D == GateCost(ClosedSections)
  <1>seq. trace \in Seq(Entries) /\ attempt \in 0..MaxQA /\ section \in Nat /\ ClosedSections \in Nat
    BY DEF TypeInv, TypeOK, ClosedSections, Sections
  \* The attempt numbers of the trace, and a trace that grows by one entry at most.
  <1>grown. /\ Len(trace') \in {Len(trace), Len(trace) + 1}
            /\ \A i \in DOMAIN trace' : trace'[i].attempt <= MaxQA + 1
    <2>1. CASE UNCHANGED trace
      BY <2>1 DEF WorkInv
    <2>2. CASE \E e \in Entries : trace' = Append(trace, e) /\ e.attempt <= MaxQA + 1
      <3> PICK e \in Entries : trace' = Append(trace, e) /\ e.attempt <= MaxQA + 1
        BY <2>2
      <3>1. /\ DOMAIN trace' = 1..(Len(trace) + 1) /\ DOMAIN trace = 1..Len(trace) /\ Len(trace) \in Nat
            /\ trace'[Len(trace) + 1] = e /\ \A i \in DOMAIN trace : trace'[i] = trace[i]
            /\ Len(trace') = Len(trace) + 1
        BY <1>seq
      <3> QED
        BY <3>1 DEF WorkInv
    <2> QED
      BY <2>1, <2>2, TraceStep
  <1>num. /\ Len(trace) \in Nat /\ G \in Nat /\ D \in Nat /\ D + 2 * MaxQA + 1 <= G
          /\ WorkBudget = 3 + G + 3 * MaxQA + 3
    <2>1. ClosedSections + 1 <= NSections
      BY DEF ClosedSections, TypeInv, TypeOK, Sections
    <2>2. G \in Nat /\ D \in Nat
      BY <1>seq, GateCostGrows
    <2>3. GateCost(ClosedSections + 1) = D + 2 * MaxQA + 1
      BY <1>seq, GateCostGrows
    <2>4. GateCost(ClosedSections + 1) <= G
      BY <2>1, <1>seq, GateCostGrows
    <2>5. WorkBudget = 3 + G + 3 * MaxQA + 3
      BY <2>2 DEF WorkBudget, GateCost
    <2> QED
      BY <1>seq, <2>2, <2>3, <2>4, <2>5
  <1>len. Len(trace) <= Allowed
    BY DEF WorkInv
  \* What is allowed where the calls depend on the attempt.
  <1>at. /\ pc = "gate_review" => Allowed = 3 + D + 2 * attempt
         /\ pc = "gate_revise" => Allowed = 4 + D + 2 * attempt
         /\ pc = "impl_review" => Allowed = 3 + G + 1 + 3 * attempt
         /\ pc = "impl_revise_plan" => Allowed = 3 + G + 2 + 3 * attempt
         /\ pc = "impl_revise_code" => Allowed = 3 + G + 3 + 3 * attempt
    BY DEF Allowed, G
  <1>next. /\ pc' = "gate_review" => Allowed' = 3 + D' + 2 * attempt'
           /\ pc' = "gate_revise" => Allowed' = 4 + D' + 2 * attempt'
           /\ pc' = "impl_review" => Allowed' = 3 + G + 1 + 3 * attempt'
           /\ pc' = "impl_revise_plan" => Allowed' = 3 + G + 2 + 3 * attempt'
           /\ pc' = "impl_revise_code" => Allowed' = 3 + G + 3 + 3 * attempt'
           /\ pc' \in {"closing_report", "skip_closing_report"} => Allowed' = 3 + G + 3 * MaxQA + 2
    BY DEF Allowed, G
  <1> SUFFICES Len(trace') <= Allowed'
    BY <1>grown DEF WorkInv
  <1> HIDE DEF G
  <1>1. CASE RouteReentry
    BY <1>1, <1>len, <1>num DEF Allowed, RouteReentry, Prepared
  <1>2. CASE SchemaContext
    BY <1>2, <1>len, <1>num DEF Allowed, SchemaContext, Prepared
  <1>3. CASE RagContext
    BY <1>3, <1>len, <1>num DEF Allowed, RagContext, Prepared
  <1>4. CASE AssembleContext
    BY <1>4, <1>len, <1>num DEF Allowed, AssembleContext, AfterFirstAssembly, Prepared
  <1>5. CASE ReuseOutline
    BY <1>5, <1>len, <1>num DEF Allowed, ReuseOutline, Prepared
  <1>6. CASE \E reply \in RouterReplies : RouterAnswers(reply)
    BY <1>6, <1>len, <1>num, <1>grown DEF Allowed, RouterAnswers, Prepared
  <1>7. CASE FastPathAnswers
    BY <1>7, <1>len, <1>num, <1>grown DEF Allowed, FastPathAnswers
  <1>8. CASE TaskBreakdown
    BY <1>8, <1>len, <1>num, <1>grown DEF Allowed, TaskBreakdown, Prepared
  <1>9. CASE \E sectioned \in BOOLEAN : DesignPlan(sectioned)
    BY <1>9, <1>len, <1>num, <1>grown, GateCostGrows DEF Allowed, DesignPlan, ClosedSections, GateCost
  <1>10. CASE \E reply \in QAReplies : GateReview(reply)
    <2> PICK reply \in QAReplies : GateReview(reply)
      BY <1>10
    <2>pc. pc = "gate_review"
      BY DEF GateReview
    <2>1. Len(trace') <= 4 + D + 2 * attempt
      BY <2>pc, <1>len, <1>at, <1>num, <1>grown, <1>seq
    <2>2. CASE pc' = "gate_revise" /\ UNCHANGED <<attempt, section>>
      BY <2>1, <2>2, <1>next DEF ClosedSections
    <2>3. CASE pc' = "implementation"
      BY <2>1, <2>3, <1>num, <1>seq DEF Allowed, G
    <2>4. CASE pc' = "gate_review" /\ section' = section + 1 /\ section # 0 /\ attempt' = 0
      <3>1. ClosedSections' = ClosedSections + 1
        BY <2>4, <1>seq DEF ClosedSections
      <3>2. GateCost(ClosedSections') = D + 2 * MaxQA + 1
        BY <3>1, <1>seq, GateCostGrows
      <3> QED
        BY <2>1, <2>4, <3>2, <1>num, <1>seq, <1>next
    <2> QED
      BY <2>2, <2>3, <2>4 DEF GateReview
  <1>11. CASE GateRevise
    <2>1. Len(trace') <= 5 + D + 2 * attempt
      BY <1>11, <1>len, <1>at, <1>num, <1>grown, <1>seq DEF GateRevise
    <2>2. pc' = "gate_review" /\ attempt' = attempt + 1 /\ ClosedSections' = ClosedSections
      BY <1>11 DEF GateRevise, ClosedSections
    <2> QED
      BY <2>1, <2>2, <1>num, <1>seq, <1>next
  <1>12. CASE Implement
    BY <1>12, <1>len, <1>num, <1>grown DEF Allowed, Implement, G
  <1>13. CASE \E reply \in QAReplies : ImplReview(reply)
    <2> PICK reply \in QAReplies : ImplReview(reply)
      BY <1>13
    <2>pc. pc = "impl_review" /\ UNCHANGED attempt
      BY DEF ImplReview
    <2>1. Len(trace') <= 5 + G + 3 * attempt
      BY <2>pc, <1>len, <1>at, <1>num, <1>grown, <1>seq
    <2>2. pc' \in {"impl_revise_plan", "closing_report", "skip_closing_report"}
      BY DEF ImplReview
    <2> QED
      BY <2>1, <2>2, <2>pc, <1>num, <1>seq, <1>next
  <1>14. CASE ImplRevisePlan
    <2>1. Len(trace') <= 6 + G + 3 * attempt /\ attempt' = attempt /\ pc' = "impl_revise_code"
      BY <1>14, <1>len, <1>at, <1>num, <1>grown, <1>seq DEF ImplRevisePlan, Design
    <2> QED
      BY <2>1, <1>next, <1>num, <1>seq
  <1>15. CASE ImplReviseCode
    <2>1. Len(trace') <= 7 + G + 3 * attempt /\ attempt' = attempt + 1 /\ pc' = "impl_review"
      BY <1>15, <1>len, <1>at, <1>num, <1>grown, <1>seq DEF ImplReviseCode, AfterRevision
    <2> QED
      BY <2>1, <1>next, <1>num, <1>seq
  <1>16. CASE \E d \in Deviations : ClosingReport(d)
    BY <1>16, <1>len, <1>num, <1>grown DEF Allowed, ClosingReport, G
  <1>17. CASE SkipClosingReport
    BY <1>17, <1>len, <1>num DEF Allowed, SkipClosingReport, G
  <1>18. CASE Conformance
    BY <1>18, <1>len, <1>num DEF Allowed, Conformance
  \* A run that ends has made no more calls than it could where it was.
  <1>ended. ASSUME UNCHANGED trace, pc' \in {"returned", "raised"} PROVE Len(trace') <= Allowed'
    <2>1. Allowed' = WorkBudget
      BY <1>ended DEF Allowed
    <2> QED
      BY <1>ended, <1>len, <1>num, <2>1, AllowedWithinBudget
  <1>19. CASE Triage
    BY <1>19, <1>ended DEF Triage, SecurityTriage
  <1>20. CASE ModelCallFails
    BY <1>20, <1>ended DEF ModelCallFails, Frame
  <1>21. CASE Deadline
    BY <1>21, <1>ended DEF Deadline, AfterDeadline, Frame
  <1>22. CASE EmbeddingFails
    BY <1>22, <1>ended DEF EmbeddingFails, Frame
  <1>23. CASE AnswerUnreadable
    BY <1>23, <1>ended DEF AnswerUnreadable, Frame
  <1>24. CASE ConformanceRaises
    BY <1>24, <1>ended DEF ConformanceRaises, Frame
  <1>25. CASE UNCHANGED vars
    BY <1>25, <1>len DEF vars, Allowed, ClosedSections
  <1> QED
    BY <1>1, <1>2, <1>3, <1>4, <1>5, <1>6, <1>7, <1>8, <1>9, <1>10, <1>11, <1>12, <1>13, <1>14,
       <1>15, <1>16, <1>17, <1>18, <1>19, <1>20, <1>21, <1>22, <1>23, <1>24, <1>25
    DEF Next, SyncStep, Answer, Ended

\* However QA answers, a run makes a bounded number of model calls.
THEOREM WorkIsBounded == Spec => []WorkBounded
PROOF
  <1>1. TypeInv /\ WorkInv => WorkBounded
    <2> SUFFICES ASSUME TypeInv, WorkInv PROVE WorkBounded
      OBVIOUS
    <2>1. Len(trace) \in Nat /\ WorkBudget \in Int
      BY MaxQAAssumption, NSectionsAssumption DEF TypeInv, TypeOK, WorkBudget
    <2> QED
      BY <2>1, AllowedWithinBudget DEF WorkInv, WorkBounded
  <1> QED
    BY <1>1, TypeInit, TypeStep, WorkInit, WorkStep, PTL DEF Spec

-----------------------------------------------------------------------------
(* The gate's verdict agrees with its trace *)

Approved(s) == SectionApproved(trace, s)

\* A gate that is not open to section s leaves its reviews alone; the one of a review adds
\* an entry, which is the last of its section.
LEMMA AppendReview ==
    ASSUME trace \in Seq(Entries), NEW e \in Entries, trace' = Append(trace, e), NEW s
    PROVE  LET reviewed == e.stage = "design_gate" /\ e.section = s
           IN  /\ GateEntries(s)' = IF reviewed THEN GateEntries(s) \cup {Len(trace) + 1} ELSE GateEntries(s)
               /\ Approved(s)' <=> IF reviewed THEN e.verdict = "APPROVED" ELSE Approved(s)
               /\ Len(trace) + 1 \notin GateEntries(s)
PROOF
  <1>1. /\ DOMAIN trace' = 1..(Len(trace) + 1) /\ DOMAIN trace = 1..Len(trace) /\ Len(trace) \in Nat
        /\ trace'[Len(trace) + 1] = e /\ \A i \in DOMAIN trace : trace'[i] = trace[i]
    OBVIOUS
  <1> DEFINE reviewed == e.stage = "design_gate" /\ e.section = s
  <1>2. GateEntries(s)' = IF reviewed THEN GateEntries(s) \cup {Len(trace) + 1} ELSE GateEntries(s)
    BY <1>1 DEF GateEntries
  <1>3. Len(trace) + 1 \notin GateEntries(s)
    BY <1>1 DEF GateEntries
  \* In terms of the section's reviews: the last of them approves.
  <1>4. Approved(s) <=> \E i \in GateEntries(s) : /\ trace[i].verdict = "APPROVED"
                                                 /\ \A j \in GateEntries(s) : j <= i
    BY DEF Approved, SectionApproved, GateEntries
  <1>5. Approved(s)' <=> \E i \in GateEntries(s)' : /\ trace'[i].verdict = "APPROVED"
                                                   /\ \A j \in GateEntries(s)' : j <= i
    BY DEF Approved, SectionApproved, GateEntries
  <1>6. GateEntries(s) \subseteq 1..Len(trace)
    BY <1>1 DEF GateEntries
  <1>7. CASE reviewed
    <2>1. GateEntries(s)' = GateEntries(s) \cup {Len(trace) + 1}
      BY <1>2, <1>7
    <2>2. \A j \in GateEntries(s)' : j <= Len(trace) + 1
      BY <2>1, <1>1, <1>6
    <2>3. \A i \in GateEntries(s)' : (\A j \in GateEntries(s)' : j <= i) => i = Len(trace) + 1
      BY <2>1, <1>1, <1>6
    <2>4. Approved(s)' <=> e.verdict = "APPROVED"
      BY <2>1, <2>2, <2>3, <1>1, <1>5
    <2> QED
      BY <2>4, <1>2, <1>3, <1>7
  <1>8. CASE ~reviewed
    <2>1. GateEntries(s)' = GateEntries(s) /\ \A i \in GateEntries(s) : trace'[i] = trace[i]
      BY <1>1, <1>2, <1>6, <1>8
    <2>2. Approved(s)' <=> Approved(s)
      BY <2>1, <1>4, <1>5
    <2> QED
      BY <2>1, <2>2, <1>3, <1>8
  <1> QED
    BY <1>7, <1>8

\* A closed section was approved last, or used up its revisions.
Closed(s) == Approved(s) \/ Cardinality(GateEntries(s)) = MaxQA + 1

\* The gate's counter runs with the reviews of its section; the verdict it has accumulated is that
\* of the sections it has closed, and it has not touched those to come.
GateOpen ==
    /\ gate.mode = IF section = 0 THEN "monolithic" ELSE "sectioned"
    /\ Cardinality(GateEntries(section)) = IF pc = "gate_review" THEN attempt ELSE attempt + 1
    /\ section = 0 => gate.approved
    /\ section # 0 =>
        /\ \A s \in Sections : s > section => GateEntries(s) = {}
        /\ \A s \in Sections : s < section => Closed(s)
        /\ gate.approved <=> \A s \in Sections : s < section => Approved(s)

GateTraceInv ==
    /\ \A s \in Sections \cup {0} : IsFiniteSet(GateEntries(s))
    /\ pc \in BeforePlan => \A s \in Sections \cup {0} : GateEntries(s) = {}
    /\ pc \in {"gate_review", "gate_revise"} => GateOpen
    /\ pc \in BeforePlan \cup {"gate_review", "gate_revise"} => outcomes.design_gate # "ran"
    /\ GateOutcomeMatchesTrace

LEMMA GateTraceInit == Init => GateTraceInv
PROOF
  <1> SUFFICES ASSUME Init PROVE GateTraceInv
    OBVIOUS
  <1>1. \A s : GateEntries(s) = {}
    BY DEF Init, GateEntries
  <1>2. outcomes.design_gate = "absent" /\ pc \in {"reentry", "routing"}
    BY DEF Init, NothingRecorded, OutcomeStages
  <1> QED
    BY <1>1, <1>2, FS_EmptySet DEF GateTraceInv, GateOutcomeMatchesTrace

LEMMA GateTraceStep == TypeInv /\ GateTraceInv /\ [Next]_vars => GateTraceInv'
PROOF
  <1> SUFFICES ASSUME TypeInv, GateTraceInv, [Next]_vars PROVE GateTraceInv'
    OBVIOUS
  <1> USE MaxQAAssumption, NSectionsAssumption
  <1>seq. /\ trace \in Seq(Entries) /\ attempt \in Nat /\ section \in Sections \cup {0}
          /\ Sections \subseteq Nat /\ section \in Nat /\ NSections \in Nat
    BY DEF TypeInv, TypeOK, Sections
  <1>out. outcomes \in [OutcomeStages -> {"absent", "skipped", "ran"}] /\ "design_gate" \in OutcomeStages
    BY DEF TypeInv, TypeOK, RecordedOutcomes, OutcomeStages
  <1>same. UNCHANGED trace => \A s : GateEntries(s)' = GateEntries(s) /\ (Approved(s)' <=> Approved(s))
    BY DEF GateEntries, Approved, SectionApproved
  \* Only a review of the gate adds to the gate's reviews.
  <1>others. pc # "gate_review" => \A s : GateEntries(s)' = GateEntries(s) /\ (Approved(s)' <=> Approved(s))
    <2> SUFFICES ASSUME pc # "gate_review"
                 PROVE  \A s : GateEntries(s)' = GateEntries(s) /\ (Approved(s)' <=> Approved(s))
      OBVIOUS
    <2>1. CASE UNCHANGED trace
      BY <2>1, <1>same
    <2>2. CASE pc \in ModelPCs /\ \E e \in Entries : trace' = Append(trace, e) /\ e.stage = CallStage[pc]
      <3>1. PICK e \in Entries : trace' = Append(trace, e) /\ e.stage = CallStage[pc]
        BY <2>2
      <3>2. e.stage # "design_gate"
        BY <2>2, <3>1 DEF ModelPCs, CallStage
      <3> QED
        BY <3>1, <3>2, <1>seq, AppendReview
    <2> QED
      BY <2>1, <2>2, TraceStep
  \* Before the gate: there is still no review to agree with.
  <1>before. ASSUME pc \in BeforePlan, pc' \in BeforePlan, outcomes'.design_gate = outcomes.design_gate
             PROVE  GateTraceInv'
    BY <1>before, <1>others DEF GateTraceInv, GateOutcomeMatchesTrace, BeforePlan
  \* After it, or away from it: its reviews and its outcome no longer change.
  <1>after. ASSUME UNCHANGED gate, pc # "gate_review" \/ UNCHANGED trace,
                   pc' \notin BeforePlan \cup {"gate_review", "gate_revise"},
                   outcomes'.design_gate \in {outcomes.design_gate, "skipped"}
            PROVE  GateTraceInv'
    BY <1>after, <1>others, <1>same DEF GateTraceInv, GateOutcomeMatchesTrace
  <1>1. CASE RouteReentry
    BY <1>1, <1>before DEF RouteReentry, BeforePlan
  <1>2. CASE SchemaContext
    BY <1>2, <1>before, <1>out DEF SchemaContext, BeforePlan, OutcomeStages
  <1>3. CASE RagContext
    BY <1>3, <1>before, <1>out DEF RagContext, BeforePlan, OutcomeStages
  <1>4. CASE AssembleContext
    <2>1. outcomes'.design_gate = outcomes.design_gate
      BY <1>4, <1>out DEF AssembleContext, OutcomeStages
    <2> QED
      BY <2>1, <1>4, <1>before DEF AssembleContext, AfterFirstAssembly, BeforePlan
  <1>5. CASE ReuseOutline
    BY <1>5, <1>before DEF ReuseOutline, BeforePlan
  <1>6. CASE \E reply \in RouterReplies : RouterAnswers(reply)
    BY <1>6, <1>before DEF RouterAnswers, BeforePlan
  <1>7. CASE FastPathAnswers
    BY <1>7, <1>after DEF FastPathAnswers, SkippedStages, OutcomeStages, BeforePlan
  <1>8. CASE TaskBreakdown
    BY <1>8, <1>before DEF TaskBreakdown, BeforePlan
  <1>9. CASE \E sectioned \in BOOLEAN : DesignPlan(sectioned)
    <2> PICK sectioned \in BOOLEAN : DesignPlan(sectioned)
      BY <1>9
    <2>1. /\ pc = "design_plan" /\ pc' = "gate_review" /\ UNCHANGED outcomes /\ attempt' = 0
          /\ gate'.approved /\ gate'.mode = IF sectioned THEN "sectioned" ELSE "monolithic"
          /\ section' = IF sectioned THEN 1 ELSE 0
      BY DEF DesignPlan, NoGate
    <2>2. \A s \in Sections \cup {0} : GateEntries(s)' = {}
      BY <2>1, <1>others DEF GateTraceInv, BeforePlan
    <2>3. 1 \in Sections /\ \A s \in Sections : ~ (s < 1)
      BY DEF Sections
    <2>4. GateOpen'
      BY <2>1, <2>2, <2>3, FS_EmptySet DEF GateOpen
    <2> QED
      BY <2>1, <2>2, <2>4, FS_EmptySet DEF GateTraceInv, GateOutcomeMatchesTrace, BeforePlan
  <1>10. CASE \E reply \in QAReplies : GateReview(reply)
    <2> PICK reply \in QAReplies : GateReview(reply)
      BY <1>10
    \* The section under review, before the step moves on to the next one.
    <2> PICK k : k = section
      OBVIOUS
    <2> DEFINE approved == Approves(reply)
               e == Entry("design_gate", attempt + 1, section, VerdictOf(approved), plan, 0)
    <2>1. approved \in BOOLEAN /\ VerdictOf(approved) \in Verdicts \cup {"none"}
      BY VerdictOfType DEF Approves
    <2>2. /\ e \in Entries /\ e.stage = "design_gate" /\ e.section = section
          /\ e.verdict = "APPROVED" <=> approved
      <3>1. e.verdict = VerdictOf(approved) /\ e.stage = "design_gate" /\ e.section = section
        BY DEF Entry
      <3>2. e \in Entries
        BY <2>1, <1>seq, EntryType DEF TypeInv, TypeOK, Stages
      <3> QED
        BY <3>1, <3>2 DEF VerdictOf
    <2>3. trace' = Append(trace, e) /\ pc = "gate_review" /\ GateOpen
      BY DEF GateReview, GateTraceInv
    <2>4. \A s : s # k => /\ GateEntries(s)' = GateEntries(s)
                          /\ Approved(s)' <=> Approved(s)
                          /\ Closed(s)' <=> Closed(s)
      BY <2>2, <2>3, <1>seq, AppendReview DEF Closed
    <2>5. /\ IsFiniteSet(GateEntries(k)') /\ Cardinality(GateEntries(k)') = attempt + 1
          /\ Approved(k)' <=> approved
      <3>1. /\ GateEntries(k)' = GateEntries(k) \cup {Len(trace) + 1}
            /\ Len(trace) + 1 \notin GateEntries(k) /\ (Approved(k)' <=> approved)
        BY <2>2, <2>3, <1>seq, AppendReview
      <3>2. IsFiniteSet(GateEntries(k)) /\ Cardinality(GateEntries(k)) = attempt
        BY <2>3, <1>seq DEF GateTraceInv, GateOpen
      <3> QED
        BY <3>1, <3>2, FS_AddElement
    <2>6. \A s \in Sections \cup {0} : IsFiniteSet(GateEntries(s)')
      BY <2>4, <2>5 DEF GateTraceInv
    <2>7. CASE ~LoopEnds(approved)
      <3>1. pc' = "gate_revise" /\ UNCHANGED <<gate, attempt, section, outcomes>>
        BY <2>7 DEF GateReview
      <3>2. GateOpen'
        BY <2>3, <2>4, <2>5, <3>1, <1>seq DEF GateOpen
      <3> QED
        BY <2>3, <2>6, <3>1, <3>2 DEF GateTraceInv, GateOutcomeMatchesTrace, BeforePlan
    <2>8. CASE LoopEnds(approved)
      <3> DEFINE last == k \in {0, NSections}
      <3>1. /\ gate'.mode = gate.mode /\ gate'.approved = (gate.approved /\ approved)
            /\ \A s \in Sections : gate'.sections[s] = (last /\ Approved(s)')
            /\ attempt' = 0 /\ section' = IF last THEN 0 ELSE k + 1
            /\ pc' = IF last THEN "implementation" ELSE "gate_review"
            /\ outcomes' = IF last THEN [outcomes EXCEPT !.design_gate = "ran"] ELSE outcomes
        <4>1. /\ gate' = [gate EXCEPT !.approved = AllApproved(approved),
                              !.sections = [s \in Sections |-> last /\ SectionApproved(trace', s)]]
              /\ attempt' = 0 /\ section' = IF last THEN 0 ELSE k + 1
              /\ pc' = IF last THEN "implementation" ELSE "gate_review"
              /\ outcomes' = IF last THEN [outcomes EXCEPT !.design_gate = "ran"] ELSE outcomes
          BY <2>8 DEF GateReview
        <4>2. gate \in GateOutcomes /\ AllApproved(approved) = (gate.approved /\ approved)
          BY DEF AllApproved, TypeInv, TypeOK
        <4> HIDE DEF last
        <4>3. /\ gate'.mode = gate.mode /\ gate'.approved = AllApproved(approved)
              /\ gate'.sections = [s \in Sections |-> last /\ SectionApproved(trace', s)]
          BY <4>1, <4>2 DEF GateOutcomes
        <4>4. \A s : Approved(s)' <=> SectionApproved(trace', s)
          BY DEF Approved
        <4> QED
          BY <4>1, <4>2, <4>3, <4>4
      <3>2. approved \/ Cardinality(GateEntries(k)') = MaxQA + 1
        BY <2>5, <2>8 DEF LoopEnds
      <3>3. gate.approved \in BOOLEAN
        BY DEF TypeInv, TypeOK, GateOutcomes
      <3>4. CASE k = 0
        <4>1. gate'.mode = "monolithic" /\ gate'.approved = approved
          BY <2>1, <2>3, <3>1, <3>3, <3>4 DEF GateOpen
        <4>2. GateOutcomeMatchesTrace'
          BY <3>2, <3>4, <4>1 DEF GateOutcomeMatchesTrace
        <4> QED
          BY <2>6, <3>1, <3>4, <4>2 DEF GateTraceInv, BeforePlan
      <3>5. CASE k = NSections
        <4>1. /\ gate'.mode = "sectioned" /\ k # 0
              /\ \A s \in Sections : s = k \/ s < k
          BY <2>3, <3>1, <3>5, <1>seq DEF GateOpen, Sections
        <4>2. \A s \in Sections : gate'.sections[s] = Approved(s)'
          BY <3>1, <3>5 DEF Approved, SectionApproved
        <4>3. \A s \in Sections : Approved(s)' \/ Cardinality(GateEntries(s)') = MaxQA + 1
          BY <2>3, <2>4, <2>5, <3>2, <4>1 DEF GateOpen, Closed
        <4>4. gate'.approved <=> \A s \in Sections : Approved(s)'
          <5>1. gate.approved <=> \A s \in Sections : s < k => Approved(s)
            BY <2>3, <4>1 DEF GateOpen
          <5>2. \A s \in Sections : s < k => s # k
            BY <1>seq
          <5>3. k \in Sections
            BY <1>seq, <4>1
          <5> QED
            BY <2>4, <2>5, <3>1, <4>1, <5>1, <5>2, <5>3
        <4>5. GateOutcomeMatchesTrace'
          BY <4>1, <4>2, <4>3, <4>4 DEF GateOutcomeMatchesTrace
        <4> QED
          BY <2>6, <3>1, <3>5, <4>5 DEF GateTraceInv, BeforePlan
      <3>6. CASE ~last
        <4>1. /\ k # 0 /\ k + 1 \in Sections /\ section' = k + 1
              /\ pc' = "gate_review" /\ UNCHANGED outcomes
          BY <3>1, <3>6, <1>seq DEF Sections
        <4>2. \A s \in Sections : /\ s > k + 1 => s > k /\ s # k
                                  /\ s < k + 1 <=> s < k \/ s = k
                                  /\ s < k => s # k
          BY <1>seq
        <4>3. GateEntries(k + 1)' = {}
          BY <2>3, <2>4, <4>1, <1>seq DEF GateOpen
        <4>4. \A s \in Sections : s < k + 1 => Closed(s)'
          BY <2>3, <2>4, <2>5, <3>2, <4>1, <4>2 DEF GateOpen, Closed
        <4>5. gate'.approved <=> \A s \in Sections : s < k + 1 => Approved(s)'
          <5>1. gate.approved <=> \A s \in Sections : s < k => Approved(s)
            BY <2>3, <4>1 DEF GateOpen
          <5>2. k \in Sections
            BY <1>seq, <4>1
          <5> QED
            BY <2>4, <2>5, <3>1, <4>2, <5>1, <5>2
        <4>6. \A s \in Sections : s > k + 1 => GateEntries(s)' = {}
          BY <2>3, <2>4, <4>1, <4>2 DEF GateOpen
        <4>7. gate'.mode = "sectioned" /\ k + 1 # 0
          BY <2>3, <3>1, <4>1, <1>seq DEF GateOpen
        <4>8. GateOpen'
          BY <3>1, <4>1, <4>3, <4>4, <4>5, <4>6, <4>7, FS_EmptySet DEF GateOpen
        <4> QED
          BY <2>3, <2>6, <4>1, <4>8 DEF GateTraceInv, GateOutcomeMatchesTrace, BeforePlan
      <3> QED
        BY <3>4, <3>5, <3>6
    <2> QED
      BY <2>7, <2>8
  <1>11. CASE GateRevise
    <2>1. /\ pc = "gate_revise" /\ pc' = "gate_review" /\ UNCHANGED <<outcomes, gate, section>>
          /\ attempt' = attempt + 1
      BY <1>11 DEF GateRevise
    <2>2. \A s : GateEntries(s)' = GateEntries(s) /\ (Approved(s)' <=> Approved(s)) /\ (Closed(s)' <=> Closed(s))
      BY <2>1, <1>others DEF Closed
    <2>3. GateOpen'
      BY <2>1, <2>2 DEF GateTraceInv, GateOpen
    <2> QED
      BY <2>1, <2>2, <2>3 DEF GateTraceInv, GateOutcomeMatchesTrace, BeforePlan
  <1>12. CASE Implement
    BY <1>12, <1>after DEF Implement, Design, BeforePlan
  <1>13. CASE \E reply \in QAReplies : ImplReview(reply)
    <2> PICK reply \in QAReplies : ImplReview(reply)
      BY <1>13
    <2>1. /\ UNCHANGED gate /\ pc = "impl_review" /\ outcomes'.design_gate = outcomes.design_gate
          /\ pc' \in {"closing_report", "skip_closing_report", "impl_revise_plan"}
      BY <1>out DEF ImplReview, Design, OutcomeStages
    <2> QED
      BY <2>1, <1>after DEF BeforePlan
  <1>14. CASE ImplRevisePlan
    BY <1>14, <1>after DEF ImplRevisePlan, Design, BeforePlan
  <1>15. CASE ImplReviseCode
    BY <1>15, <1>after DEF ImplReviseCode, AfterRevision, Design, BeforePlan
  <1>16. CASE \E d \in Deviations : ClosingReport(d)
    BY <1>16, <1>after, <1>out DEF ClosingReport, Built, Design, OutcomeStages, BeforePlan
  <1>17. CASE SkipClosingReport
    BY <1>17, <1>after, <1>out DEF SkipClosingReport, Built, Design, OutcomeStages, BeforePlan
  <1>18. CASE Conformance
    BY <1>18, <1>after DEF Conformance, Built, Design, BeforePlan
  <1>19. CASE Triage
    BY <1>19, <1>after DEF Triage, SecurityTriage, Built, Design, BeforePlan
  <1>20. CASE ModelCallFails
    BY <1>20, <1>after DEF ModelCallFails, Frame, BeforePlan
  <1>21. CASE Deadline
    BY <1>21, <1>after DEF Deadline, AfterDeadline, Frame, BeforePlan
  <1>22. CASE EmbeddingFails
    BY <1>22, <1>after DEF EmbeddingFails, Frame, BeforePlan
  <1>23. CASE AnswerUnreadable
    BY <1>23, <1>after DEF AnswerUnreadable, Frame, BeforePlan
  <1>24. CASE ConformanceRaises
    BY <1>24, <1>after DEF ConformanceRaises, Frame, BeforePlan
  <1>25. CASE UNCHANGED vars
    <2>1. UNCHANGED <<pc, trace, outcomes, gate, section, attempt>>
      BY <1>25 DEF vars
    <2> QED
      BY <2>1, <1>same DEF GateTraceInv, GateOpen, Closed, GateOutcomeMatchesTrace
  <1> QED
    BY <1>1, <1>2, <1>3, <1>4, <1>5, <1>6, <1>7, <1>8, <1>9, <1>10, <1>11, <1>12, <1>13, <1>14,
       <1>15, <1>16, <1>17, <1>18, <1>19, <1>20, <1>21, <1>22, <1>23, <1>24, <1>25
    DEF Next, SyncStep, Answer, Ended

\* The gate's overall verdict is the conjunction of the per-section verdicts its trace shows,
\* and what it did not approve used up its revisions.
THEOREM GateOutcomeIsTrue == Spec => []GateOutcomeMatchesTrace
PROOF
  <1>1. GateTraceInv => GateOutcomeMatchesTrace
    BY DEF GateTraceInv
  <1> QED
    BY <1>1, TypeInit, TypeStep, GateTraceInit, GateTraceStep, PTL DEF Spec
=============================================================================
