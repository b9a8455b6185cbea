--------------------------- MODULE SecurityTriage ---------------------------
(***************************************************************************)
(* The security triage of one full run: the implementation is written into *)
(* a temporary tree and the Antares CLI runs on it as a subprocess         *)
(* (orchestrator._run_security_triage, context/antares/materialize.py and  *)
(* invoke.py, and the timeout around them in runner.py).                   *)
(*                                                                         *)
(* Two timers are nested: timeout_seconds around the talk with the         *)
(* process, orchestration_timeout_seconds around everything.  Whatever     *)
(* breaks the talk off is followed by a cleanup: SIGTERM, up to five       *)
(* seconds for the process to end and its pipes to close, SIGKILL, and     *)
(* then as long as it takes.  The cleanup itself can be cut off, unless    *)
(* it is the one after a cancellation, which is shielded.                  *)
(*                                                                         *)
(* A unit of output is what one read of 65536 bytes returns.               *)
(***************************************************************************)
EXTENDS Naturals

CONSTANTS
    OutputLimit,   \* _MAX_OUTPUT_BYTES, in units
    MaxWritten     \* bound: units the process writes to each stream

ASSUME OutputAssumption == OutputLimit \in Nat /\ MaxWritten \in Nat

VARIABLES
    request,   \* what the triage was asked for and finds, and how its timers are set
    pc,        \* the await the triage is at
    dir,       \* the temporary tree
    proc,      \* the process, and how it ended
    pipes,     \* someone holds the write ends of its stdout and stderr
    written,   \* units written to each stream
    got,       \* units captured from it
    reader,    \* _read_capped of each stream
    cause,     \* what the cleanup follows, if there was one
    terminal   \* the terminal_state the receipt gets

vars == <<request, pc, dir, proc, pipes, written, got, reader, cause, terminal>>

Streams == {"stdout", "stderr"}

\* ample: orchestration_timeout_seconds exceeds timeout_seconds by more than what the process
\* takes to start and the five seconds of the cleanup; otherwise it only exceeds it.
Requests == [cwe : BOOLEAN, fastPath : BOOLEAN, implementation : BOOLEAN, ample : BOOLEAN]

TalkPCs == {"write", "read", "wait"}
CleanupPCs == {"grace", "drain"}
EndPCs == {"reported", "aborted"}
PCs == {"begin", "spawn"} \cup TalkPCs \cup CleanupPCs \cup EndPCs

\* The process ended by itself with an exit code that counts as a report (0 or 2), with
\* another one or by a signal, or was killed.
Exits == {"report", "failure", "killed"}

\* overrun: the outer timeout fired during the talk; interrupted: the user cut the cleanup off.
Causes == {"none", "timeout", "output-too-large", "execution-failed", "overrun", "cancelled",
           "interrupted"}

\* Terminal states of a triage that does not get as far as a process.
Refusals == {"unparseable-output-contract", "path-traversal-rejected", "binary-unavailable",
             "internal-error"}
TerminalStates ==
    {"none", "not-requested", "snapshot-unavailable", "artifact-missing", "completed", "timeout",
     "output-too-large", "execution-failed", "output-malformed"} \cup Refusals

Captured == got["stdout"] + got["stderr"]
\* Mutant: each reader has a budget of its own.
OverBudgetAlone(s) == got[s] = OutputLimit
\* The two readers draw on one budget: one more unit exceeds it.
OverBudget(s) == Captured >= OutputLimit

-----------------------------------------------------------------------------
Init ==
    /\ request \in Requests
    /\ pc = "begin"
    /\ dir = "none"
    /\ proc = "none"
    /\ pipes = FALSE
    /\ written = [s \in Streams |-> 0]
    /\ got = [s \in Streams |-> 0]
    /\ reader = [s \in Streams |-> "none"]
    /\ cause = "none"
    /\ terminal = "none"

Outside == <<proc, pipes, written>>
Capture == <<got, reader>>

-----------------------------------------------------------------------------
(* Before the process *)

\* Mutant: the reason is reported in place of the terminal state.
SkipReasonReported ==
    IF ~request.cwe THEN "not-requested"
    ELSE IF request.fastPath THEN "fast-path"
    ELSE IF ~request.implementation THEN "artifact-missing"
    ELSE "none"
\* Nothing to scan, or nothing was asked.
SkipReason ==
    IF ~request.cwe THEN "not-requested"
    ELSE IF request.fastPath THEN "snapshot-unavailable"
    ELSE IF ~request.implementation THEN "artifact-missing"
    ELSE "none"

Skip ==
    /\ pc = "begin"
    /\ SkipReason # "none"
    /\ terminal' = SkipReason
    /\ pc' = "reported"
    /\ UNCHANGED <<request, dir, Outside, Capture, cause>>

\* The implementation is written out and the CLI found.
Materialize ==
    /\ pc = "begin"
    /\ SkipReason = "none"
    /\ dir' = "present"
    /\ pc' = "spawn"
    /\ UNCHANGED <<request, Outside, Capture, cause, terminal>>

\* The implementation has no file blocks, names a path outside the tree, or cannot be
\* written, or there is no CLI.
Refuse(t) ==
    /\ pc = "begin"
    /\ SkipReason = "none"
    /\ dir' = "removed"
    /\ terminal' = t
    /\ pc' = "reported"
    /\ UNCHANGED <<request, Outside, Capture, cause>>

Spawned ==
    /\ pc = "spawn"
    /\ proc' = "running"
    /\ pipes' = TRUE
    /\ pc' = "write"
    /\ UNCHANGED <<request, dir, written, Capture, cause, terminal>>

-----------------------------------------------------------------------------
(* Leaving the temporary tree *)

\* The tree is removed on every way out; while someone still writes into it the removal may
\* fail, which _run_security_triage turns into an internal error.  When it does so under a
\* cancellation by the user, it depends on the version of asyncio which of the two wins.
Leave(end, t) ==
    \/ dir' = "removed" /\ pc' = end /\ terminal' = t
    \/ /\ pipes \/ proc = "running"
       /\ dir' = "left"
       /\ \/ pc' = "reported" /\ terminal' = "internal-error"
          \/ end = "aborted" /\ pc' = end /\ terminal' = "none"

SpawnFails ==
    /\ pc = "spawn"
    /\ Leave("reported", "execution-failed")
    /\ UNCHANGED <<request, Outside, Capture, cause>>

-----------------------------------------------------------------------------
(* The process *)

Inside == <<request, pc, dir, got, reader, cause, terminal>>

Writes(s) ==
    /\ pipes
    /\ written[s] < MaxWritten
    /\ written' = [written EXCEPT ![s] = @ + 1]
    /\ UNCHANGED <<Inside, proc, pipes>>

\* It ends, by itself or by SIGTERM; processes it started may go on holding the pipes.
ProcessEnds(how, held) ==
    /\ proc = "running"
    /\ proc' = how
    /\ pipes' = (pipes /\ held)
    /\ UNCHANGED <<Inside, written>>

\* It closes its streams before it ends, or the last of its children ends.
PipesClose ==
    /\ pipes
    /\ pipes' = FALSE
    /\ UNCHANGED <<Inside, proc, written>>

-----------------------------------------------------------------------------
(* The talk with the process *)

\* The request is in the pipe, and the two readers start.
RequestWritten ==
    /\ pc = "write"
    /\ reader' = [s \in Streams |-> "reading"]
    /\ pc' = "read"
    /\ UNCHANGED <<request, dir, Outside, got, cause, terminal>>

Read(s) ==
    /\ pc = "read"
    /\ reader[s] = "reading"
    /\ got[s] < written[s]
    /\ got' = [got EXCEPT ![s] = @ + 1]
    /\ reader' = [reader EXCEPT ![s] = IF OverBudget(s) THEN "raised" ELSE "reading"]
    /\ UNCHANGED <<request, pc, dir, Outside, cause, terminal>>

ReadEnds(s) ==
    /\ pc = "read"
    /\ reader[s] = "reading"
    /\ ~pipes
    /\ got[s] = written[s]
    /\ reader' = [reader EXCEPT ![s] = "done"]
    /\ UNCHANGED <<request, pc, dir, Outside, got, cause, terminal>>

\* Mutant: the talk goes on when one of the streams has ended.
BothReadOne == \E s \in Streams : reader[s] = "done"
BothRead == \A s \in Streams : reader[s] = "done"

ReadersDone ==
    /\ pc = "read"
    /\ BothRead
    /\ pc' = "wait"
    /\ UNCHANGED <<request, dir, Outside, Capture, cause, terminal>>

\* The exit code says whether there is a report, and the report is JSON of the right shape
\* or not.
Exited(wellFormed) ==
    /\ pc = "wait"
    /\ proc \in Exits
    /\ Leave("reported", IF proc # "report" THEN "execution-failed"
                         ELSE IF wellFormed THEN "completed" ELSE "output-malformed")
    /\ UNCHANGED <<request, Outside, Capture, cause>>

-----------------------------------------------------------------------------
(* Cleanup *)

\* The talk is broken off for c: terminate, or drain at once if the process has ended.
CleanUp(c) ==
    /\ cause' = c
    /\ pc' = IF proc = "running" THEN "grace" ELSE "drain"
    /\ UNCHANGED <<request, dir, Outside, Capture, terminal>>

BudgetExceeded ==
    /\ pc = "read"
    /\ \E s \in Streams : reader[s] = "raised"
    /\ CleanUp("output-too-large")

TalkBreaks == pc \in {"write", "read"} /\ CleanUp("execution-failed")

\* Mutant: the timeout covers the reading only.
InnerTimedReading == {"read"}
InnerTimed == TalkPCs
InnerTimer == pc \in InnerTimed /\ CleanUp("timeout")

\* What the cleanup followed is raised on.
Drained ==
    /\ pc \in CleanupPCs
    /\ proc # "running"
    /\ ~pipes
    /\ CASE cause = "cancelled" -> Leave("aborted", "none")
         [] cause = "overrun" -> Leave("reported", "timeout")
         [] OTHER -> Leave("reported", cause)
    /\ UNCHANGED <<request, Outside, Capture, cause>>

\* Five seconds are over: SIGKILL, which nothing survives but processes it started.
GraceTimer(held) ==
    /\ pc = "grace"
    /\ proc' = IF proc = "running" THEN "killed" ELSE proc
    /\ pipes' = (pipes /\ held)
    /\ pc' = "drain"
    /\ UNCHANGED <<request, dir, written, Capture, cause, terminal>>

\* Mutant: the cleanup after a cancellation is not shielded.
ShieldedNot == {}
Shielded == TalkPCs

\* The outer timeout cancels the triage.  It finds a process that does not start, a drain that
\* does not end or, if it is not ample, the talk or a cleanup that has not killed yet.
OuterTimer ==
    /\ cause \notin {"cancelled", "overrun"}
    /\ pc \in {"spawn", "drain"} \/ (pc \in TalkPCs \cup {"grace"} /\ ~request.ample)
    /\ IF pc \in Shielded
       THEN CleanUp("overrun")
       ELSE Leave("reported", "timeout") /\ UNCHANGED <<request, Outside, Capture, cause>>

\* Ctrl-C cancels it, once.
Interrupt ==
    /\ pc \in {"spawn"} \cup TalkPCs \cup CleanupPCs
    /\ cause # "cancelled"
    /\ IF pc \in Shielded
       THEN CleanUp("cancelled")
       ELSE /\ Leave("aborted", "none")
            /\ cause' = IF pc \in CleanupPCs THEN "interrupted" ELSE cause
            /\ UNCHANGED <<request, Outside, Capture>>

Ended == pc \in EndPCs /\ UNCHANGED vars

-----------------------------------------------------------------------------
\* What the event loop runs as soon as it can.
TaskStep ==
    \/ Skip
    \/ Materialize
    \/ \E t \in Refusals : Refuse(t)
    \/ \E s \in Streams : Read(s) \/ ReadEnds(s)
    \/ ReadersDone
    \/ \E wellFormed \in BOOLEAN : Exited(wellFormed)
    \/ BudgetExceeded
    \/ Drained

KillTimer == \E held \in BOOLEAN : GraceTimer(held)

Environment ==
    \/ Spawned
    \/ SpawnFails
    \/ \E s \in Streams : Writes(s)
    \/ \E how \in {"report", "failure"}, held \in BOOLEAN : ProcessEnds(how, held)
    \/ PipesClose
    \/ RequestWritten
    \/ TalkBreaks
    \/ Interrupt

Next == TaskStep \/ InnerTimer \/ KillTimer \/ OuterTimer \/ Environment \/ Ended

\* The event loop runs what is ready and its timers expire; nothing is assumed of the
\* process, or of processes it leaves behind.
Fairness == WF_vars(TaskStep) /\ WF_vars(InnerTimer) /\ WF_vars(KillTimer) /\ WF_vars(OuterTimer)

Spec == Init /\ [][Next]_vars /\ Fairness

-----------------------------------------------------------------------------
(* Properties *)

TypeOK ==
    /\ request \in Requests
    /\ pc \in PCs
    /\ dir \in {"none", "present", "removed", "left"}
    /\ proc \in {"none", "running"} \cup Exits
    /\ pipes \in BOOLEAN
    /\ written \in [Streams -> 0..MaxWritten]
    /\ got \in [Streams -> 0..MaxWritten]
    /\ reader \in [Streams -> {"none", "reading", "raised", "done"}]
    /\ cause \in Causes
    /\ terminal \in TerminalStates

\* The one way a process survives: the cleanup was cut off before it killed, by an outer
\* timeout set too close or by the user.
CleanupCutOff == (pc = "reported" /\ ~request.ample) \/ cause = "interrupted"

\* As long as the process lives the triage has not ended and its tree is there: with ample
\* timers no end of the triage leaves a process behind (docs/plan-security-advisor-antares.md:195).
NothingLeftBehind ==
    proc = "running" /\ ~CleanupCutOff => pc \notin EndPCs /\ dir = "present"

\* A report is only read from the whole output of a process that ended with an exit code
\* for a report, and within the limit (invoke.py:147-162, 187).
CompletedOnWholeOutput ==
    terminal \in {"completed", "output-malformed"} =>
        /\ proc = "report"
        /\ \A s \in Streams : got[s] = written[s]
        /\ Captured <= OutputLimit

\* However the two readers interleave, no more is captured than the limit and the unit with
\* which each of them exceeds it (invoke.py:48-61).
CaptureBounded == Captured <= OutputLimit + 2

\* The triage ends whatever the process and its children do, unless it is cancelled during
\* the talk, by the user or by an outer timeout that is not ample: then the cleanup is shielded,
\* and a child that holds the pipes keeps it draining (invoke.py:17-40, 164-185).
TriageEnds == <>(pc \in EndPCs \/ cause = "cancelled" \/ (cause = "overrun" /\ ~request.ample))
=============================================================================
