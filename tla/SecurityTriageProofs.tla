------------------------ MODULE SecurityTriageProofs ------------------------
(***************************************************************************)
(* Proofs about the security triage, for every output limit: no end of it  *)
(* leaves a process behind unless the cleanup itself was cut off, a report *)
(* is only read from the whole output of a process that reported, and what *)
(* is captured is bounded.                                                 *)
(***************************************************************************)
EXTENDS SecurityTriage, TLAPS

\* Where the triage is says how far the process and its readers can be.
Phases ==
    /\ pc \in {"begin", "spawn"} => proc = "none" /\ ~pipes
    /\ pc = "begin" => dir = "none"
    /\ pc \in {"spawn"} \cup TalkPCs \cup CleanupPCs => dir = "present"
    /\ pc \in {"begin", "spawn", "write"} => \A s \in Streams : reader[s] = "none"
    /\ pc \in TalkPCs \cup CleanupPCs => proc # "none"
    /\ pc = "wait" => \A s \in Streams : reader[s] = "done"
    /\ pc = "drain" => proc # "running"
    /\ pc \notin EndPCs => terminal = "none"
    /\ pc \in CleanupPCs <=> cause # "none" /\ pc \notin EndPCs
    /\ cause = "interrupted" => pc \in EndPCs
    /\ pc = "aborted" => terminal = "none"

\* A reader that is done has read all there was, and will be.
ReadersAtEnd == \A s \in Streams : reader[s] = "done" => ~pipes /\ got[s] = written[s]

\* What is over the limit was read by a reader that raised, one unit each.
Raised == {s \in Streams : reader[s] = "raised"}
BudgetKept ==
    /\ Raised = {} => Captured <= OutputLimit
    /\ Raised # Streams => Captured <= OutputLimit + 1
    /\ Captured <= OutputLimit + 2

\* What a report was read from.
ReportKept ==
    terminal \in {"completed", "output-malformed"} =>
        /\ proc = "report"
        /\ \A s \in Streams : reader[s] = "done"

TriageInv ==
    TypeOK /\ Phases /\ ReadersAtEnd /\ BudgetKept /\ ReportKept /\ NothingLeftBehind

LEMMA TriageInit == Init => TriageInv
<1> SUFFICES ASSUME Init PROVE TriageInv
  OBVIOUS
<1>1. TypeOK
  <2>1. pipes \in BOOLEAN
    BY DEF Init
  <2>2. /\ written \in [Streams -> 0..MaxWritten]
        /\ got \in [Streams -> 0..MaxWritten]
        /\ reader \in [Streams -> {"none", "reading", "raised", "done"}]
    BY OutputAssumption DEF Init
  <2> QED BY <2>1, <2>2 DEF Init, TypeOK, PCs, Causes, TerminalStates
<1>2. Phases /\ ReadersAtEnd /\ ReportKept /\ NothingLeftBehind
  BY DEF Init, Phases, ReadersAtEnd, ReportKept, NothingLeftBehind, TalkPCs, CleanupPCs, EndPCs, CleanupCutOff
<1>3. Captured = 0
  BY DEF Init, Captured, Streams
<1>4. BudgetKept
  BY <1>3, OutputAssumption DEF BudgetKept
<1> QED BY <1>1, <1>2, <1>4 DEF TriageInv

-----------------------------------------------------------------------------
(* One lemma per kind of step *)

\* A step that leaves the output and the readers alone keeps what is said of them.
LEMMA CaptureKept ==
    ASSUME TriageInv, UNCHANGED <<got, reader>>
    PROVE  BudgetKept'
BY DEF TriageInv, BudgetKept, Raised, Captured

LEMMA BeginStep ==
    ASSUME TriageInv, Skip \/ Materialize \/ (\E t \in Refusals : Refuse(t)) \/ Spawned
    PROVE  TriageInv'
<1> USE DEF TriageInv, TypeOK, Requests, PCs, TalkPCs, CleanupPCs, EndPCs, Exits, Causes, TerminalStates,
            Refusals, Phases, ReadersAtEnd, ReportKept, NothingLeftBehind, CleanupCutOff, Outside, Capture
<1>1. CASE Skip
  BY <1>1, CaptureKept DEF Skip, SkipReason
<1>2. CASE Materialize
  BY <1>2, CaptureKept DEF Materialize
<1>3. CASE \E t \in Refusals : Refuse(t)
  BY <1>3, CaptureKept DEF Refuse
<1>4. CASE Spawned
  BY <1>4, CaptureKept DEF Spawned
<1> QED BY <1>1, <1>2, <1>3, <1>4

LEMMA ProcessStep ==
    ASSUME TriageInv,
           \/ \E s \in Streams : Writes(s)
           \/ \E how \in {"report", "failure"}, held \in BOOLEAN : ProcessEnds(how, held)
           \/ PipesClose
    PROVE  TriageInv'
<1> USE DEF TriageInv, TypeOK, Requests, PCs, TalkPCs, CleanupPCs, EndPCs, Exits, Causes, TerminalStates,
            Refusals, Phases, ReadersAtEnd, ReportKept, NothingLeftBehind, CleanupCutOff, Inside
<1>1. CASE \E s \in Streams : Writes(s)
  BY <1>1, CaptureKept, OutputAssumption DEF Writes
<1>2. CASE \E how \in {"report", "failure"}, held \in BOOLEAN : ProcessEnds(how, held)
  BY <1>2, CaptureKept DEF ProcessEnds
<1>3. CASE PipesClose
  <2>1. ~pipes' /\ pipes' \in BOOLEAN
    BY <1>3 DEF PipesClose
  <2> QED BY <1>3, <2>1, CaptureKept DEF PipesClose
<1> QED BY <1>1, <1>2, <1>3

LEMMA ReadStep ==
    ASSUME TriageInv, RequestWritten \/ ReadersDone \/ \E s \in Streams : Read(s) \/ ReadEnds(s)
    PROVE  TriageInv'
<1> USE DEF TriageInv, TypeOK, Requests, PCs, TalkPCs, CleanupPCs, EndPCs, Exits, Causes, TerminalStates,
            Refusals, Phases, ReadersAtEnd, ReportKept, NothingLeftBehind, CleanupCutOff, Outside, Capture
<1>1. CASE RequestWritten
  <2>1. BudgetKept'
    BY <1>1 DEF RequestWritten, BudgetKept, Raised, Captured, Streams
  <2> QED BY <1>1, <2>1 DEF RequestWritten
<1>2. CASE ReadersDone
  BY <1>2, CaptureKept DEF ReadersDone, BothRead
<1>3. ASSUME NEW s \in Streams, Read(s) PROVE TriageInv'
  <2>1. BudgetKept'
    BY <1>3, OutputAssumption DEF Read, OverBudget, BudgetKept, Raised, Captured, Streams
  <2> QED BY <1>3, <2>1, OutputAssumption DEF Read
<1>4. ASSUME NEW s \in Streams, ReadEnds(s) PROVE TriageInv'
  <2>1. BudgetKept'
    BY <1>4, OutputAssumption DEF ReadEnds, BudgetKept, Raised, Captured, Streams
  <2> QED BY <1>4, <2>1 DEF ReadEnds
<1> QED BY <1>1, <1>2, <1>3, <1>4

\* Breaking the talk off starts a cleanup.
LEMMA CleanUpStep ==
    ASSUME TriageInv, pc \in TalkPCs, NEW c \in Causes \ {"none", "interrupted"}, CleanUp(c)
    PROVE  TriageInv'
BY CaptureKept
DEF TriageInv, TypeOK, Requests, PCs, TalkPCs, CleanupPCs, EndPCs, Exits, Causes, TerminalStates, Refusals,
    Phases, ReadersAtEnd, ReportKept, NothingLeftBehind, CleanupCutOff, Outside, Capture, CleanUp

\* The ends that read no report.
LEMMA LeaveStep ==
    ASSUME TriageInv, NEW end \in EndPCs,
           NEW t \in {"none", "timeout", "output-too-large", "execution-failed"},
           Leave(end, t), UNCHANGED <<request, Outside, Capture>>, cause' \in Causes,
           end = "aborted" => t = "none",
           pc \notin {"begin"} \cup EndPCs,
           proc = "running" => cause' = "interrupted" \/ (end = "reported" /\ ~request.ample)
    PROVE  TriageInv'
<1>1. /\ pc' \in EndPCs /\ dir' \in {"removed", "left"}
      /\ terminal' \in {t, "internal-error", "none"}
      /\ pc' = "aborted" => terminal' = "none"
      /\ end = "reported" => pc' = "reported"
  BY DEF Leave, EndPCs
<1> QED BY <1>1, CaptureKept
        DEF TriageInv, TypeOK, Requests, PCs, TalkPCs, CleanupPCs, EndPCs, Exits, Causes, TerminalStates, Refusals,
            Phases, ReadersAtEnd, ReportKept, NothingLeftBehind, CleanupCutOff, Outside, Capture

LEMMA ExitedStep ==
    ASSUME TriageInv, NEW wellFormed \in BOOLEAN, Exited(wellFormed)
    PROVE  TriageInv'
<1>1. ~pipes /\ proc # "running" /\ proc \in Exits /\ \A s \in Streams : reader[s] = "done"
  BY DEF Exited, TriageInv, Phases, ReadersAtEnd, Streams, Exits
<1>2. /\ pc' = "reported" /\ dir' = "removed"
      /\ terminal' \in {"execution-failed", "completed", "output-malformed"}
      /\ proc # "report" => terminal' = "execution-failed"
  BY <1>1 DEF Exited, Leave
<1> QED BY <1>1, <1>2, CaptureKept
        DEF Exited, TriageInv, TypeOK, Requests, PCs, TalkPCs, CleanupPCs, EndPCs, Exits, Causes, TerminalStates,
            Phases, ReadersAtEnd, ReportKept, NothingLeftBehind, CleanupCutOff, Outside, Capture

LEMMA GraceStep ==
    ASSUME TriageInv, NEW held \in BOOLEAN, GraceTimer(held)
    PROVE  TriageInv'
<1>1. pipes' \in BOOLEAN /\ (~pipes => ~pipes')
  BY DEF GraceTimer, TriageInv, TypeOK
<1>2. proc' \in Exits /\ proc' # "running"
  BY DEF GraceTimer, TriageInv, TypeOK, Phases, CleanupPCs, Exits
<1> QED BY <1>1, <1>2, CaptureKept
        DEF GraceTimer, TriageInv, TypeOK, PCs, TalkPCs, CleanupPCs, EndPCs, Exits, Phases, ReadersAtEnd,
            ReportKept, NothingLeftBehind, CleanupCutOff, Capture

\* The steps that break the talk off, or leave the tree without a report.
LEMMA BreakStep ==
    ASSUME TriageInv,
           SpawnFails \/ BudgetExceeded \/ TalkBreaks \/ InnerTimer \/ Drained \/ OuterTimer \/ Interrupt
    PROVE  TriageInv'
<1>1. CASE SpawnFails
  BY <1>1, LeaveStep DEF SpawnFails, TriageInv, TypeOK, Phases, EndPCs
<1>2. CASE BudgetExceeded
  BY <1>2, CleanUpStep DEF BudgetExceeded, TalkPCs, Causes
<1>3. CASE TalkBreaks
  BY <1>3, CleanUpStep DEF TalkBreaks, TalkPCs, Causes
<1>4. CASE InnerTimer
  BY <1>4, CleanUpStep DEF InnerTimer, InnerTimed, Causes
<1>5. CASE Drained
  <2>1. cause \in Causes \ {"none", "interrupted"} /\ pc \notin {"begin"} \cup EndPCs
    BY <1>5 DEF Drained, TriageInv, TypeOK, Phases, CleanupPCs, EndPCs
  <2>2. CASE cause = "cancelled"
    BY <1>5, <2>1, <2>2, LeaveStep DEF Drained, EndPCs
  <2>3. CASE cause = "overrun"
    BY <1>5, <2>1, <2>3, LeaveStep DEF Drained, EndPCs
  <2>4. CASE cause \notin {"cancelled", "overrun"}
    <3>1. cause \in {"timeout", "output-too-large", "execution-failed"}
      BY <2>1, <2>4 DEF Causes
    <3> QED BY <1>5, <2>1, <2>4, <3>1, LeaveStep DEF Drained, EndPCs
  <2> QED BY <2>2, <2>3, <2>4
<1>6. CASE OuterTimer
  <2>1. CASE pc \in Shielded
    BY <1>6, <2>1, CleanUpStep DEF OuterTimer, Shielded, Causes
  <2>2. CASE pc \notin Shielded
    <3>1. pc \in {"spawn", "drain", "grace"} /\ (proc = "running" => ~request.ample)
      BY <1>6, <2>2 DEF OuterTimer, Shielded, TriageInv, Phases
    <3> QED BY <1>6, <2>2, <3>1, LeaveStep DEF OuterTimer, EndPCs, TriageInv, TypeOK
  <2> QED BY <2>1, <2>2
<1>7. CASE Interrupt
  <2>1. CASE pc \in Shielded
    BY <1>7, <2>1, CleanUpStep DEF Interrupt, Shielded, Causes
  <2>2. CASE pc \notin Shielded
    <3>1. /\ pc \in {"spawn"} \cup CleanupPCs
          /\ cause' \in Causes
          /\ proc = "running" => cause' = "interrupted"
      BY <1>7, <2>2 DEF Interrupt, Shielded, TriageInv, TypeOK, Phases, Causes
    <3> QED BY <1>7, <2>2, <3>1, LeaveStep DEF Interrupt, CleanupPCs, EndPCs
  <2> QED BY <2>1, <2>2
<1> QED BY <1>1, <1>2, <1>3, <1>4, <1>5, <1>6, <1>7

LEMMA TriageNext == TriageInv /\ [Next]_vars => TriageInv'
<1> SUFFICES ASSUME TriageInv, [Next]_vars PROVE TriageInv'
  OBVIOUS
<1>1. CASE TaskStep
  BY <1>1, BeginStep, ReadStep, ExitedStep, BreakStep DEF TaskStep
<1>2. CASE InnerTimer
  BY <1>2, BreakStep
<1>3. CASE KillTimer
  BY <1>3, GraceStep DEF KillTimer
<1>4. CASE OuterTimer
  BY <1>4, BreakStep
<1>5. CASE Environment
  BY <1>5, BeginStep, ProcessStep, ReadStep, BreakStep DEF Environment
<1>6. CASE Ended \/ UNCHANGED vars
  BY <1>6, CaptureKept
  DEF Ended, vars, TriageInv, TypeOK, Phases, ReadersAtEnd, ReportKept, NothingLeftBehind, CleanupCutOff
<1> QED BY <1>1, <1>2, <1>3, <1>4, <1>5, <1>6 DEF Next

LEMMA TriageAlways == Spec => []TriageInv
BY TriageInit, TriageNext, PTL DEF Spec

-----------------------------------------------------------------------------
(* Theorems *)

\* Every variable keeps to the values the code can give it, for every output limit.
THEOREM TriageTypeCorrect == Spec => []TypeOK
<1>1. TriageInv => TypeOK
  BY DEF TriageInv
<1> QED BY <1>1, TriageAlways, PTL

\* No end of the triage leaves its process behind unless the cleanup itself was cut off
\* (invoke.py:28-40, 164-185), for every output limit.
THEOREM TriageLeavesNothing == Spec => []NothingLeftBehind
<1>1. TriageInv => NothingLeftBehind
  BY DEF TriageInv
<1> QED BY <1>1, TriageAlways, PTL

\* A report is only read from the whole output, within the limit, of a process that ended
\* with an exit code for one (invoke.py:147-162, 187), for every output limit.
THEOREM ReportIsWhole == Spec => []CompletedOnWholeOutput
<1>1. ASSUME TriageInv, terminal \in {"completed", "output-malformed"}
      PROVE  proc = "report" /\ (\A s \in Streams : got[s] = written[s]) /\ Captured <= OutputLimit
  <2>1. \A s \in Streams : reader[s] = "done"
    BY <1>1 DEF TriageInv, ReportKept
  <2>2. Captured <= OutputLimit
    BY <1>1, <2>1 DEF TriageInv, BudgetKept, Raised
  <2> QED BY <1>1, <2>1, <2>2 DEF TriageInv, ReportKept, ReadersAtEnd
<1>2. TriageInv => CompletedOnWholeOutput
  BY <1>1 DEF CompletedOnWholeOutput
<1> QED BY <1>2, TriageAlways, PTL

\* The two readers together capture no more than the limit and two units (invoke.py:48-61),
\* for every output limit.
THEOREM CaptureIsBounded == Spec => []CaptureBounded
<1>1. TriageInv => CaptureBounded
  BY DEF TriageInv, BudgetKept, CaptureBounded
<1> QED BY <1>1, TriageAlways, PTL
=============================================================================
