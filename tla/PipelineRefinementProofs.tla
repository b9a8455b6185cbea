---------------------- MODULE PipelineRefinementProofs ----------------------
(***************************************************************************)
(* Pipeline implements ReviewedRequest under the mapping of MCPipeline,    *)
(* for every number of sections and every bound on the revisions.          *)
(***************************************************************************)
EXTENDS MCPipeline, PipelineProofs

\* A non-empty set of positions of the trace has a last one.
LEMMA LastOfPositions ==
    ASSUME NEW n \in Nat, NEW S, S \subseteq 1..n, S # {}
    PROVE  Max(S) \in S /\ \A j \in S : Max(S) >= j
PROOF
  <1> DEFINE P == {n - i : i \in S}
  <1>1. P \subseteq Nat /\ P # {}
    OBVIOUS
  <1>2. PICK m \in P : \A k \in P : <<k, m>> \notin OpToRel(<, Nat)
    BY <1>1, NatLessThanWellFounded, WFMin
  <1>3. m \in Nat /\ \A k \in P : k \in Nat /\ ~(k < m)
    BY <1>1, <1>2 DEF OpToRel
  <1>4. PICK i \in S : m = n - i
    OBVIOUS
  <1>5. \A j \in S : i >= j
    <2> TAKE j \in S
    <2>1. n - j \in P /\ i \in 1..n /\ j \in 1..n
      BY <1>4
    <2> HIDE DEF P
    <2>2. ~(n - j < n - i)
      BY <2>1, <1>3, <1>4
    <2> QED
      BY <2>1, <2>2
  <1>6. \E x \in S : \A y \in S : x >= y
    BY <1>5
  <1> QED
    BY <1>6 DEF Max

\* A re-entry is not routed yet; the fast path goes from its answer to its end; code that waits
\* for its review is not the code last reviewed, and code being revised was rejected.
MapInv ==
    /\ pc = "reentry" => decision = "none"
    /\ decision \in FastPathCategories => pc \in {"fast_path", "triage"} \cup EndPCs
    /\ pc = "triage" /\ decision \in FastPathCategories => implementation # 0
    /\ pc = "impl_review" => implementation # Judged
    /\ pc \in {"impl_revise_plan", "impl_revise_code"} => ~qa.approved

MappedInv == TypeInv /\ CodeInv /\ CountInv /\ WorkInv /\ MapInv

\* Where the last check is, and what an answer does to it.
LEMMA LastCheck ==
    ASSUME TypeInv
    PROVE  CheckEntries # {} => Max(CheckEntries) \in CheckEntries
                                /\ \A j \in CheckEntries : Max(CheckEntries) >= j
PROOF
  <1>1. Len(trace) \in Nat /\ CheckEntries \subseteq 1..Len(trace)
    BY DEF TypeInv, TypeOK, CheckEntries
  <1> QED
    BY <1>1, LastOfPositions

LEMMA JudgedKept ==
    ASSUME TypeInv, NEW e \in Entries, trace' = Append(trace, e), e.stage # "implementation_check"
    PROVE  Judged' = Judged /\ CheckEntries' = CheckEntries
PROOF
  <1>1. /\ DOMAIN trace' = 1..(Len(trace) + 1) /\ DOMAIN trace = 1..Len(trace) /\ Len(trace) \in Nat
        /\ trace'[Len(trace) + 1] = e /\ \A i \in DOMAIN trace : trace'[i] = trace[i]
    BY DEF TypeInv, TypeOK
  <1>2. CheckEntries' = CheckEntries
    BY <1>1 DEF CheckEntries
  <1>3. CheckEntries # {} => Max(CheckEntries) \in DOMAIN trace
    BY LastCheck DEF CheckEntries
  <1>4. Max(CheckEntries)' = Max(CheckEntries)
    BY <1>2 DEF Max
  <1> QED
    BY <1>1, <1>2, <1>3, <1>4 DEF Judged

LEMMA JudgedByCheck ==
    ASSUME TypeInv, NEW e \in Entries, trace' = Append(trace, e), e.stage = "implementation_check"
    PROVE  Judged' = e.implementation
PROOF
  <1> DEFINE n == Len(trace) + 1
  <1>1. /\ DOMAIN trace' = 1..n /\ DOMAIN trace = 1..Len(trace) /\ Len(trace) \in Nat
        /\ trace'[n] = e /\ \A i \in DOMAIN trace : trace'[i] = trace[i]
    BY DEF TypeInv, TypeOK
  <1>2. n \in CheckEntries' /\ n \in Nat /\ CheckEntries' \subseteq 1..n
    BY <1>1 DEF CheckEntries
  <1> DEFINE checks == CheckEntries'
  <1> HIDE DEF n, checks
  <1>3. Max(checks) \in checks /\ Max(checks) >= n
    BY <1>2, LastOfPositions DEF checks
  <1>4. Max(checks) = n
    <2>1. Max(checks) \in 1..n
      BY <1>2, <1>3 DEF checks
    <2>2. \A x \in 1..n : x >= n => x = n
      BY <1>2
    <2> QED
      BY <2>1, <2>2, <1>3
  <1>5. Max(CheckEntries)' = n
    BY <1>4 DEF Max, checks
  <1> QED
    BY <1>1, <1>2, <1>5 DEF Judged

\* What was judged is a text of the trace, or nothing.
LEMMA JudgedIsOld ==
    ASSUME TypeInv, CodeInv
    PROVE  Judged \in 0..Len(trace)
PROOF
  <1>1. Len(trace) \in Nat /\ DOMAIN trace = 1..Len(trace)
    BY DEF TypeInv, TypeOK
  <1>2. CASE CheckEntries = {}
    BY <1>1, <1>2 DEF Judged
  <1>3. CASE CheckEntries # {}
    <2>1. Max(CheckEntries) \in CheckEntries
      BY <1>3, LastCheck
    <2> QED
      BY <1>1, <1>3, <2>1 DEF Judged, CheckEntries, CodeInv, CodeFollowsPlan
  <1> QED
    BY <1>2, <1>3

\* Once the loop is over, what was judged is what there is.
LEMMA JudgedIsCurrent ==
    ASSUME TypeInv, CodeInv, LoopOver
    PROVE  Judged = implementation /\ implementation # 0
PROOF
  <1>1. PICK i \in DOMAIN trace : Settled(i)
    BY DEF CodeInv
  <1>2. i \in CheckEntries /\ CheckEntries \subseteq DOMAIN trace
    BY <1>1 DEF Settled, CheckEntries
  <1>3. \A j \in CheckEntries : ~(j > i)
    BY <1>1 DEF Settled, CheckEntries
  <1>4. Max(CheckEntries) \in CheckEntries /\ Max(CheckEntries) >= i
    BY <1>2, LastCheck
  <1>5. Max(CheckEntries) = i
    BY <1>2, <1>3, <1>4 DEF TypeInv, TypeOK
  <1>6. implementation \in DOMAIN trace
    BY DEF CodeInv, CodeOf
  <1> QED
    BY <1>1, <1>2, <1>5, <1>6 DEF Judged, Settled, TypeInv, TypeOK

LEMMA MapInit == Init => MapInv
PROOF
  BY DEF Init, MapInv, FastPathCategories
LEMMA MapStep == MappedInv /\ [Next]_vars => MapInv'
PROOF
  <1> SUFFICES ASSUME MappedInv, [Next]_vars PROVE MapInv'
    OBVIOUS
  <1> USE DEF EndPCs
  <1>inv. TypeInv /\ CodeInv /\ CountInv /\ MapInv
    BY DEF MappedInv
  <1>old. Judged \in 0..Len(trace) /\ Len(trace) \in Nat /\ NextCall = Len(trace) + 1
    BY <1>inv, JudgedIsOld DEF TypeInv, TypeOK, NextCall
  \* A step that leaves the routing and the code alone and is not about to judge it.
  <1>keep. ASSUME UNCHANGED <<decision, implementation>>, pc' \notin {"reentry", "impl_review"},
                  pc' \in {"impl_revise_plan", "impl_revise_code"} => ~qa'.approved,
                  pc \notin EndPCs, pc' # pc \/ pc \notin {"fast_path", "triage"},
                  decision \notin FastPathCategories \/ pc' \in EndPCs
           PROVE  MapInv'
    BY <1>keep DEF MapInv
  <1>1. CASE RouteReentry
    BY <1>1 DEF RouteReentry, MapInv, FastPathCategories
  <1>2. CASE SchemaContext
    BY <1>2, <1>keep, <1>inv DEF SchemaContext, MapInv, Prepared
  <1>3. CASE RagContext
    BY <1>3, <1>keep, <1>inv DEF RagContext, MapInv, Prepared
  <1>4. CASE AssembleContext
    BY <1>4, <1>keep, <1>inv DEF AssembleContext, AfterFirstAssembly, MapInv, Prepared
  <1>5. CASE ReuseOutline
    BY <1>5, <1>keep, <1>inv DEF ReuseOutline, MapInv, Prepared
  <1>6. CASE \E reply \in RouterReplies : RouterAnswers(reply)
    BY <1>6 DEF RouterAnswers, MapInv
  <1>7. CASE FastPathAnswers
    BY <1>7, <1>old DEF FastPathAnswers, MapInv
  <1>8. CASE TaskBreakdown
    BY <1>8, <1>keep, <1>inv DEF TaskBreakdown, MapInv, Prepared
  <1>9. CASE \E sectioned \in BOOLEAN : DesignPlan(sectioned)
    BY <1>9, <1>keep, <1>inv DEF DesignPlan, MapInv, Context, CodeAndReceipt
  <1>10. CASE \E reply \in QAReplies : GateReview(reply)
    BY <1>10, <1>keep, <1>inv DEF GateReview, MapInv, Context, CodeAndReceipt
  <1>11. CASE GateRevise
    BY <1>11, <1>keep, <1>inv DEF GateRevise, MapInv, Context, CodeAndReceipt
  \* Code just written is younger than any that was judged.
  <1>12. CASE Implement \/ ImplReviseCode
    <2>1. PICK e \in Entries : trace' = Append(trace, e) /\ e.stage = "implementation"
      BY <1>12, <1>inv, TraceStep DEF Implement, ImplReviseCode, CallStage
    <2>2. Judged' = Judged
      BY <2>1, <1>inv, JudgedKept
    <2> QED
      BY <1>12, <1>inv, <1>old, <2>2 DEF Implement, ImplReviseCode, AfterRevision, RevisedCode, MapInv, Design, Context
  <1>13. CASE \E reply \in QAReplies : ImplReview(reply)
    BY <1>13, <1>keep, <1>inv DEF ImplReview, LoopEnds, MapInv, Design, Context
  <1>14. CASE ImplRevisePlan
    BY <1>14, <1>keep, <1>inv DEF ImplRevisePlan, MapInv, Design, Context
  <1>15. CASE \E d \in Deviations : ClosingReport(d)
    BY <1>15, <1>keep, <1>inv DEF ClosingReport, MapInv, Built, Design, Context
  <1>16. CASE SkipClosingReport
    BY <1>16, <1>keep, <1>inv DEF SkipClosingReport, MapInv, Built, Design, Context
  <1>17. CASE Conformance
    BY <1>17, <1>keep, <1>inv DEF Conformance, MapInv, Built, Design, Context
  <1>18. CASE Triage
    BY <1>18, <1>keep DEF Triage, SecurityTriage, Built, Design, Context
  <1>19. CASE ModelCallFails \/ Deadline \/ EmbeddingFails \/ AnswerUnreadable \/ ConformanceRaises
    BY <1>19 DEF ModelCallFails, Deadline, AfterDeadline, EmbeddingFails, AnswerUnreadable,
                ConformanceRaises, Frame, MapInv
  <1>20. CASE UNCHANGED vars
    BY <1>20, <1>inv DEF vars, MapInv, Judged, CheckEntries
  <1> QED
    BY <1>1, <1>2, <1>3, <1>4, <1>5, <1>6, <1>7, <1>8, <1>9, <1>10, <1>11, <1>12, <1>13, <1>14,
       <1>15, <1>16, <1>17, <1>18, <1>19, <1>20
    DEF Next, SyncStep, Answer, Ended

LEMMA MappedAlways == Spec => []MappedInv
PROOF
  <1>1. Init => MappedInv
    BY TypeInit, CodeInit, CountInit, WorkInit, MapInit DEF MappedInv
  <1>2. MappedInv /\ [Next]_vars => MappedInv'
    <2>1. MappedInv => TypeInv /\ CodeInv /\ CountInv /\ WorkInv
      BY DEF MappedInv
    <2>2. TypeInv' /\ CodeInv' /\ CountInv' /\ WorkInv' /\ MapInv' => MappedInv'
      BY DEF MappedInv
    <2> QED
      BY <2>1, <2>2, TypeStep, CodeStep, CountStep, WorkStep, MapStep
  <1> QED
    BY <1>1, <1>2, PTL DEF Spec

-----------------------------------------------------------------------------
(* Every step is a step of ReviewedRequest, or a stutter *)

LEMMA ContractInit == Init => Contract!Init
PROOF
  BY DEF Init, Contract!Init, NoReceipt, NotChecked, Judged, CheckEntries, FastPathCategories

\* While the call is under way the contract has not ended.
LEMMA UnderWay == MappedInv /\ pc \notin EndPCs => receipt.status = "none" /\ pc # "raised"
PROOF
  BY DEF MappedInv, CodeInv, EndPCs

Quick == decision \in FastPathCategories

\* The steps of the contract, in terms of the pipeline.
LEMMA WorkRefined ==
    ASSUME pc \notin EndPCs, pc' # "raised", receipt.status = "none", UNCHANGED <<receipt, implementation, qa>>,
           Judged' = Judged, Len(trace') = Len(trace) + 1, Len(trace) < WorkBudget,
           Quick' = Quick \/ Len(trace) = 0
    PROVE  Contract!Next
PROOF
  <1>1. Contract!Spend
    BY DEF Contract!Spend, EndPCs
  <1>2. Quick' \in IF Len(trace) = 0 THEN BOOLEAN ELSE {Quick}
    <2>1. Quick \in BOOLEAN /\ Quick' \in BOOLEAN
      BY DEF Quick
    <2>2. CASE Len(trace) = 0
      BY <2>1, <2>2
    <2>3. CASE Len(trace) # 0
      <3>1. Quick' = Quick
        BY <2>3
      <3> QED
        BY <3>1, <2>3
    <2> QED
      BY <2>2, <2>3
  <1>3. Contract!Work
    BY <1>1, <1>2 DEF Contract!Work, EndPCs, Quick
  <1> QED
    BY <1>3 DEF Contract!Next

LEMMA DraftRefined ==
    ASSUME pc \notin EndPCs, pc' # "raised", receipt.status = "none", UNCHANGED <<receipt, decision, qa>>,
           Judged' = Judged, Len(trace') = Len(trace) + 1, Len(trace) < WorkBudget,
           implementation' = Len(trace) + 1, ~qa.approved, qa.attempts < MaxQA + 1
    PROVE  Contract!Next
PROOF
  <1>1. Contract!Draft
    BY DEF Contract!Draft, Contract!Spend, EndPCs
  <1> QED
    BY <1>1 DEF Contract!Next

LEMMA JudgeRefined ==
    ASSUME pc \notin EndPCs, pc' # "raised", receipt.status = "none",
           UNCHANGED <<receipt, decision, implementation>>,
           Len(trace') = Len(trace) + 1, Len(trace) < WorkBudget, ~Quick,
           implementation # Judged, Judged' = implementation,
           qa.attempts < MaxQA + 1, qa'.attempts = qa.attempts + 1, qa'.approved \in BOOLEAN
    PROVE  Contract!Next
PROOF
  <1>1. Contract!Judge
    BY DEF Contract!Judge, Contract!Spend, EndPCs, Quick
  <1> QED
    BY <1>1 DEF Contract!Next

LEMMA DeliverRefined ==
    ASSUME pc \notin EndPCs, pc' # "raised", receipt.status = "none", receipt'.status = "completed",
           UNCHANGED <<decision, implementation, qa, trace>>, Judged' = Judged,
           implementation # 0,
           Quick \/ (Judged = implementation /\ (qa.approved \/ qa.attempts = MaxQA + 1))
    PROVE  Contract!Next
PROOF
  <1>1. Contract!Deliver
    BY DEF Contract!Deliver, EndPCs, Quick
  <1> QED
    BY <1>1 DEF Contract!Next

LEMMA BreakRefined ==
    ASSUME pc \notin EndPCs, receipt.status = "none",
           pc' = "raised" \/ receipt'.status \in {"failed", "timeout"},
           UNCHANGED <<decision, implementation, qa, trace>>, Judged' = Judged
    PROVE  Contract!Next
PROOF
  <1>1. Contract!Break
    BY DEF Contract!Break, EndPCs
  <1> QED
    BY <1>1 DEF Contract!Next

LEMMA StutterRefined ==
    ASSUME pc \notin EndPCs, pc' # "raised", UNCHANGED <<receipt, trace, implementation, qa>>,
           Judged' = Judged, Quick' = Quick
    PROVE  UNCHANGED Contract!vars
PROOF
  BY DEF Contract!vars, EndPCs, Quick

LEMMA ContractStep == MappedInv /\ WorkBounded' /\ [Next]_vars => [Contract!Next]_(Contract!vars)
PROOF
  <1> SUFFICES ASSUME MappedInv, WorkBounded', [Next]_vars PROVE [Contract!Next]_(Contract!vars)
    OBVIOUS
  <1> USE DEF EndPCs
  <1>inv. TypeInv /\ CodeInv /\ CountInv /\ WorkInv /\ MapInv
    BY DEF MappedInv
  <1>types. trace \in Seq(Entries) /\ Len(trace) \in Nat /\ qa \in QAStates /\ qa.attempts \in Nat
            /\ attempt \in 0..MaxQA /\ MaxQA \in Nat
    BY <1>inv, MaxQAAssumption DEF TypeInv, TypeOK, QAStates
  <1>open. pc \notin EndPCs => receipt.status = "none"
    BY UnderWay
  <1>same. UNCHANGED trace => Judged' = Judged
    BY DEF Judged, CheckEntries
  <1>budget. Len(trace') <= WorkBudget /\ WorkBudget \in Nat
    <2>1. \A a, b \in Nat : a * b \in Nat /\ a + b \in Nat
      OBVIOUS
    <2>2. NSections * (2 * MaxQA + 1) \in Nat
      BY <2>1, NSectionsAssumption, MaxQAAssumption
    <2> QED
      BY <2>2, MaxQAAssumption DEF WorkBounded, WorkBudget
  \* A call that is answered.
  <1>answer. ASSUME NEW e, trace' = Append(trace, e), e \in Entries
             PROVE  Len(trace') = Len(trace) + 1 /\ Len(trace) < WorkBudget
    BY <1>answer, <1>types, <1>budget
  <1>called. ASSUME trace' # trace, pc # "impl_review"
             PROVE  Len(trace') = Len(trace) + 1 /\ Len(trace) < WorkBudget /\ Judged' = Judged
    <2>1. PICK e \in Entries : trace' = Append(trace, e) /\ e.stage = CallStage[pc] /\ pc \in ModelPCs
      BY <1>inv, <1>called, TraceStep
    <2>2. e.stage # "implementation_check"
      BY <2>1, <1>called DEF CallStage, ModelPCs
    <2> QED
      BY <2>1, <2>2, <1>answer, <1>inv, JudgedKept
  <1>grows. \A e : Append(trace, e) # trace
    BY <1>types
  <1>1. CASE RouteReentry
    <2>1. Quick' = Quick
      BY <1>1, <1>inv DEF RouteReentry, MapInv, Quick, FastPathCategories
    <2> QED
      BY <1>1, <2>1, <1>same, StutterRefined DEF RouteReentry, Prepared
  <1>2. CASE SchemaContext \/ RagContext \/ AssembleContext \/ ReuseOutline
    BY <1>2, <1>same, StutterRefined
    DEF SchemaContext, RagContext, AssembleContext, AfterFirstAssembly, ReuseOutline, Prepared, Quick
  <1>3. CASE \E reply \in RouterReplies : RouterAnswers(reply)
    <2>1. Len(trace) = 0
      BY <1>3, <1>inv, <1>types DEF RouterAnswers, WorkInv, Allowed
    <2> QED
      BY <1>3, <2>1, <1>open, <1>called, <1>grows, WorkRefined DEF RouterAnswers, Prepared
  <1>4. CASE FastPathAnswers
    <2>1. qa = NotChecked
      BY <1>4, <1>inv DEF FastPathAnswers, CountInv, BeforeCode
    <2> QED
      BY <1>4, <2>1, <1>types, <1>open, <1>called, <1>grows, DraftRefined DEF FastPathAnswers, NotChecked, NextCall
  <1>5. CASE TaskBreakdown
    BY <1>5, <1>open, <1>called, <1>grows, WorkRefined DEF TaskBreakdown, Prepared, Quick
  <1>6. CASE \E sectioned \in BOOLEAN : DesignPlan(sectioned)
    BY <1>6, <1>open, <1>called, <1>grows, WorkRefined DEF DesignPlan, Context, CodeAndReceipt, Quick
  <1>7. CASE \E reply \in QAReplies : GateReview(reply)
    BY <1>7, <1>open, <1>called, <1>grows, WorkRefined DEF GateReview, Context, CodeAndReceipt, Quick
  <1>8. CASE GateRevise
    BY <1>8, <1>open, <1>called, <1>grows, WorkRefined DEF GateRevise, Context, CodeAndReceipt, Quick
  <1>9. CASE Implement
    <2>1. qa = NotChecked
      BY <1>9, <1>inv DEF Implement, CountInv, BeforeCode
    <2> QED
      BY <1>9, <2>1, <1>types, <1>open, <1>called, <1>grows, DraftRefined
      DEF Implement, NotChecked, NextCall, Design, Context
  <1>10. CASE \E reply \in QAReplies : ImplReview(reply)
    <2> PICK reply \in QAReplies : ImplReview(reply)
      BY <1>10
    <2>1. PICK e \in Entries : trace' = Append(trace, e) /\ e.stage = "implementation_check"
      BY <1>inv, <1>grows, TraceStep DEF ImplReview, CallStage
    <2>2. e.implementation = implementation
      <3> DEFINE f == Entry("implementation_check", attempt + 1, 0, VerdictOf(Approves(reply)), plan, implementation)
      <3>1. trace' = Append(trace, f) /\ f.implementation = implementation
        BY DEF ImplReview, Entry
      <3>2. trace'[Len(trace) + 1] = f /\ trace'[Len(trace) + 1] = e
        BY <3>1, <2>1, <1>types
      <3> QED
        BY <3>1, <3>2
    <2>3. Judged' = implementation
      BY <2>1, <2>2, <1>inv, JudgedByCheck
    <2>4. qa.attempts < MaxQA + 1 /\ implementation # Judged /\ ~Quick
      BY <1>inv, <1>types DEF ImplReview, CountInv, MapInv, Quick
    <2>5. qa'.attempts = qa.attempts + 1 /\ qa'.approved \in BOOLEAN
      BY DEF ImplReview, CountReview, Approves
    <2> QED
      BY <2>1, <2>3, <2>4, <2>5, <1>answer, <1>open, JudgeRefined DEF ImplReview, Design, Context
  <1>11. CASE ImplRevisePlan
    BY <1>11, <1>open, <1>called, <1>grows, WorkRefined DEF ImplRevisePlan, Design, Context, Quick
  <1>12. CASE ImplReviseCode
    <2>1. qa.attempts < MaxQA + 1 /\ ~qa.approved
      BY <1>12, <1>inv, <1>types DEF ImplReviseCode, CountInv, MapInv, TypeInv, RevisionsLeft
    <2> QED
      BY <1>12, <2>1, <1>open, <1>called, <1>grows, DraftRefined
      DEF ImplReviseCode, AfterRevision, RevisedCode, NextCall, Design, Context
  <1>13. CASE \E d \in Deviations : ClosingReport(d)
    BY <1>13, <1>open, <1>called, <1>grows, WorkRefined DEF ClosingReport, Built, Design, Context, Quick
  <1>14. CASE SkipClosingReport \/ Conformance
    BY <1>14, <1>same, StutterRefined DEF SkipClosingReport, Conformance, Built, Design, Context, Quick
  <1>15. CASE Triage
    <2> PICK t \in TriageStates : SecurityTriage(t)
      BY <1>15 DEF Triage
    <2>1. implementation # 0 /\ (Quick \/ Judged = implementation)
      BY <1>inv, JudgedIsCurrent DEF SecurityTriage, MapInv, LoopOver, Quick
    <2>2. Quick \/ qa.approved \/ qa.attempts = MaxQA + 1
      BY <1>inv DEF SecurityTriage, CountInv, LoopOver, Quick
    <2>3. /\ receipt'.status = "completed" /\ pc = "triage" /\ pc' = "returned"
          /\ UNCHANGED <<decision, implementation, qa, trace>>
      BY DEF SecurityTriage, Built, Design, Context
    <2> QED
      BY <2>1, <2>2, <2>3, <1>open, <1>same, DeliverRefined
  <1>16. CASE ModelCallFails \/ Deadline \/ EmbeddingFails \/ AnswerUnreadable \/ ConformanceRaises
    <2>1. \A s \in {"failed", "timeout"} : FailedReceipt(s).status = s
      BY DEF FailedReceipt, NoReceipt
    <2>2. pc \notin EndPCs
      BY <1>16 DEF ModelCallFails, Deadline, DeadlineHits, EmbeddingFails, AnswerUnreadable,
                   ConformanceRaises, BodyAwaits, ModelPCs, CallStage, EndPCs
    <2>3. pc' = "raised" \/ receipt'.status \in {"failed", "timeout"}
      BY <1>16, <2>1 DEF ModelCallFails, Deadline, EmbeddingFails, AnswerUnreadable, ConformanceRaises
    <2>4. UNCHANGED <<decision, implementation, qa, trace>>
      BY <1>16 DEF ModelCallFails, Deadline, EmbeddingFails, AnswerUnreadable, ConformanceRaises, Frame
    <2> QED
      BY <2>2, <2>3, <2>4, <1>open, <1>same, BreakRefined
  <1>17. CASE UNCHANGED vars
    BY <1>17, <1>same DEF vars, Contract!vars
  <1> QED
    BY <1>1, <1>2, <1>3, <1>4, <1>5, <1>6, <1>7, <1>8, <1>9, <1>10, <1>11, <1>12, <1>13, <1>14,
       <1>15, <1>16, <1>17
    DEF Next, SyncStep, Answer, Ended

\* The pipeline implements the caller's contract: bounded work, one end, and a verdict in a
\* full run's receipt that is about the draft delivered, an approval or the last one there is.
THEOREM PipelineImplementsContract == Spec => ImplementsContract
PROOF
  <1>1. Contract!Spec <=> Contract!Init /\ [][Contract!Next]_(Contract!vars)
    BY DEF Contract!Spec
  <1> QED
    BY <1>1, ContractInit, ContractStep, MappedAlways, WorkIsBounded, PTL DEF Spec, ImplementsContract
=============================================================================
