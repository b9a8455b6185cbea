----------------------------- MODULE CommandLine -----------------------------
(***************************************************************************)
(* main.py: one invocation of the program, from its arguments to its exit  *)
(* code.  `ask` parses its flags, makes one run and delivers the receipt;  *)
(* `chat` is the session that makes a run for every query and may re-run   *)
(* it once on the user's word; `ingest` walks a directory.                 *)
(*                                                                         *)
(* A run of the pipeline is one step here: Pipeline.tla models it, and     *)
(* Receipts lists the forms of receipt it returns.  What is printed is     *)
(* kept as far as a calling program could tell it apart.                   *)
(***************************************************************************)
EXTENDS Integers, Sequences

CONSTANTS
    MaxArgs,      \* bound: arguments of `ask`
    MaxQueries,   \* bound: queries typed in one session
    MaxMacro      \* bound: the values of pipeline.max_macro_iterations

ASSUME BoundsAssumption == MaxArgs \in Nat /\ MaxQueries \in Nat /\ MaxMacro \in Nat

VARIABLES
    command,     \* sys.argv[1]
    config,      \* the settings read here
    pc,
    argv,        \* the arguments not parsed yet
    opts,        \* what they say so far
    schema,      \* what the last --schema-file turned out to be
    stdout,      \* what was printed there
    outFile,     \* the file named by --out
    exit,        \* the exit code
    runs,        \* every run made, with its arguments and its receipt
    typed,       \* queries typed in the session
    cancelled    \* Ctrl-C has cancelled the main task, which has not noticed yet

invocation == <<command, config>>
parsing == <<argv, opts, schema>>
delivery == <<stdout, outFile>>
session == <<runs, typed, cancelled>>
vars == <<invocation, pc, parsing, delivery, exit, session>>

EXIT_OK == 0
EXIT_ENGINE_FAIL == 2
EXIT_USAGE == 3
Traceback == 1        \* an exception that main() does not catch
Interrupted == 130    \* Ctrl-C
Running == -1

Commands == {"none", "ingest", "ask", "chat", "unknown"}
PCs == {"start", "parse", "query", "ingest", "run", "deliver", "prompt", "offer", "rerun", "exited"}

Switches == {"--json", "--quiet"}
ValueFlags == {"--out", "--input-file", "--output-contract", "--schema-file", "--cwe-check"}
Flags == Switches \cup ValueFlags \cup {"--unknown"}
Tokens == Flags \cup {"", "text"}

Args == UNION {[1..n -> Tokens] : n \in 0..MaxArgs}

\* An option with a path: not given, given as the empty string, which the code takes for not
\* given, or as a name.
Options == [json : BOOLEAN, quiet : BOOLEAN, out : {"none", "empty", "path"},
            inputFile : {"none", "empty", "path"}, positional : Seq({"", "text"})]
NoOptions == [json |-> FALSE, quiet |-> FALSE, out |-> "none", inputFile |-> "none",
              positional |-> <<>>]

None == "none"
NoReport == 0
Raised == [status |-> "raised", fast |-> FALSE, qa |-> None, deviation |-> None,
           breakdown |-> 0, report |-> NoReport]

Deviations == {"NONE", "JUSTIFIED", "UNEXPLAINED", "UNKNOWN"}

\* A breakdown and a closing report are known by the number of the run that wrote them.
Run(query, iteration, breakdown, report, receipt) ==
    [query |-> query, iteration |-> iteration, breakdown |-> breakdown, report |-> report,
     receipt |-> receipt]

-----------------------------------------------------------------------------
(* The receipts of run_complex_task, as far as the command line reads them. *)

Receipt(status, fast, qa, deviation, breakdown, report) ==
    [status |-> status, fast |-> fast, qa |-> qa, deviation |-> deviation,
     breakdown |-> breakdown, report |-> report]

Partial == {Receipt(s, FALSE, None, None, 0, NoReport) : s \in {"failed", "timeout"}}
FastPath == {Receipt("completed", TRUE, None, None, 0, NoReport)}

\* The closing report: its deviation, and its text for the next run.
Told == IF config.closingReport THEN Deviations ELSE {None}
Written == IF config.closingReport THEN Len(runs) + 1 ELSE NoReport

Full(breakdown) ==
    {Receipt("completed", FALSE, v.qa, v.deviation, breakdown, Written) :
        v \in [qa : {"approved", "rejected"}, deviation : Told]}

\* A first run and a re-run, which skips the router and keeps the breakdown it is given.
FirstReceipts == Partial \cup FastPath \cup Full(Len(runs) + 1)
RerunReceipts(breakdown) == Partial \cup Full(breakdown)

-----------------------------------------------------------------------------
(* main: dispatch *)

Init ==
    /\ command \in Commands
    /\ config \in [maxMacro : 0..MaxMacro, closingReport : BOOLEAN]
    /\ pc = "start"
    /\ argv \in IF command = "ask" THEN Args
                ELSE IF command = "ingest" THEN {<<>>, <<"text">>} ELSE {<<>>}
    /\ opts = NoOptions /\ schema = None
    /\ stdout = {} /\ outFile = "untouched"
    /\ exit = Running
    /\ runs = <<>> /\ typed = 0
    /\ cancelled = FALSE

Exit(code) == pc' = "exited" /\ exit' = code

Usage ==
    /\ Exit(EXIT_USAGE)
    /\ UNCHANGED <<invocation, parsing, delivery, session>>

NoCommand == pc = "start" /\ command = "none" /\ Usage

\* The configuration or the store cannot be loaded: before any argument is looked at.
StartFails ==
    /\ pc = "start"
    /\ command # "none"
    /\ Exit(Traceback)
    /\ UNCHANGED <<invocation, parsing, delivery, session>>

BadCommand ==
    /\ pc = "start"
    /\ \/ command = "unknown"
       \/ command = "ingest" /\ argv = <<>>
    /\ Usage

Dispatch ==
    /\ pc = "start"
    /\ \/ command \in {"ask", "chat"}
       \/ command = "ingest" /\ argv # <<>>
    /\ pc' = CASE command = "ask" -> "parse" [] command = "chat" -> "prompt"
               [] command = "ingest" -> "ingest"
    /\ UNCHANGED <<invocation, parsing, delivery, exit, session>>

\* Files that fail are listed in the summary and do not change the exit code; a store that
\* cannot be saved does.
Ingested ==
    /\ pc = "ingest"
    /\ \E code \in {EXIT_OK, Traceback} : Exit(code)
    /\ UNCHANGED <<invocation, parsing, delivery, session>>

-----------------------------------------------------------------------------
(* _parse_ask_args *)

Arg(flags) == pc = "parse" /\ argv # <<>> /\ Head(argv) \in flags

TakeSwitch ==
    /\ Arg(Switches)
    /\ opts' = IF Head(argv) = "--json" THEN [opts EXCEPT !.json = TRUE]
               ELSE [opts EXCEPT !.quiet = TRUE]
    /\ argv' = Tail(argv)
    /\ UNCHANGED <<invocation, pc, schema, delivery, exit, session>>

\* A flag that needs a value takes the next argument, whatever it looks like.
Value == argv[2]
\* Mutant: the path is kept as it was given.
PathValueAsGiven == Value
PathValue == IF Value = "" THEN "empty" ELSE "path"

MissingValue == Arg(ValueFlags) /\ Len(argv) = 1 /\ Usage

TakePath ==
    /\ Arg({"--out", "--input-file"})
    /\ Len(argv) > 1
    /\ opts' = IF Head(argv) = "--out" THEN [opts EXCEPT !.out = PathValue]
               ELSE [opts EXCEPT !.inputFile = PathValue]
    /\ argv' = Tail(Tail(argv))
    /\ UNCHANGED <<invocation, pc, schema, delivery, exit, session>>

\* A known contract, and a CWE with its rationale.
TakeText ==
    /\ Arg({"--output-contract", "--cwe-check"})
    /\ Len(argv) > 1
    /\ Value = "text"
    /\ argv' = Tail(Tail(argv))
    /\ UNCHANGED <<invocation, pc, opts, schema, delivery, exit, session>>

\* No contract or CWE looks like a flag; other texts may be wrong as well.
BadText == Arg({"--output-contract", "--cwe-check"}) /\ Len(argv) > 1 /\ Usage

TakeSchema ==
    /\ Arg({"--schema-file"})
    /\ Len(argv) > 1
    /\ Value # ""
    /\ schema' = "valid"
    /\ argv' = Tail(Tail(argv))
    /\ UNCHANGED <<invocation, pc, opts, delivery, exit, session>>

\* The file is missing, too large, neither JSON nor YAML, or not a snapshot.
BadSchema ==
    /\ Arg({"--schema-file"})
    /\ Len(argv) > 1
    /\ schema' = "malformed"
    /\ Exit(EXIT_USAGE)
    /\ UNCHANGED <<invocation, argv, opts, delivery, session>>

\* Its bytes are not UTF-8: the error of read() is a ValueError, and load() expects an OSError.
UndecodableSchema ==
    /\ Arg({"--schema-file"})
    /\ Len(argv) > 1
    /\ Value # ""
    /\ schema' = "malformed"
    /\ Exit(Traceback)
    /\ UNCHANGED <<invocation, argv, opts, delivery, session>>

UnknownFlag == Arg({"--unknown"}) /\ Usage

TakePositional ==
    /\ Arg({"", "text"})
    /\ opts' = [opts EXCEPT !.positional = Append(@, Head(argv))]
    /\ argv' = Tail(argv)
    /\ UNCHANGED <<invocation, pc, schema, delivery, exit, session>>

HasFile == opts.inputFile = "path"
TwoQueries == Len(opts.positional) > (IF HasFile THEN 0 ELSE 1)

Ambiguous ==
    /\ pc = "parse"
    /\ argv = <<>>
    /\ TwoQueries
    /\ Usage

Parsed ==
    /\ pc = "parse"
    /\ argv = <<>>
    /\ ~TwoQueries
    /\ pc' = "query"
    /\ UNCHANGED <<invocation, parsing, delivery, exit, session>>

\* The text of --input-file, else the positional argument, else standard input unless that is
\* a terminal: good, blank or not there; a text that is not UTF-8 raises.
Queries == IF ~HasFile /\ opts.positional # <<>>
           THEN {IF opts.positional = <<"text">> THEN "good" ELSE "none"}
           ELSE {"good", "none", "undecodable"}

NoQuery == pc = "query" /\ "none" \in Queries /\ Usage

UndecodableQuery ==
    /\ pc = "query"
    /\ "undecodable" \in Queries
    /\ Exit(Traceback)
    /\ UNCHANGED <<invocation, parsing, delivery, session>>

HasQuery ==
    /\ pc = "query"
    /\ "good" \in Queries
    /\ pc' = "run"
    /\ UNCHANGED <<invocation, parsing, delivery, exit, session>>

-----------------------------------------------------------------------------
(* ask_once *)

Last(s) == s[Len(s)]
Record(run) == runs' = Append(runs, run)

\* The stream is for people: it goes to stderr when stdout is to be JSON.
Streamed == IF opts.quiet \/ opts.json THEN {} ELSE {"stream"}

AskRuns ==
    /\ pc = "run" /\ command = "ask"
    /\ \E receipt \in FirstReceipts : Record(Run(1, 1, 0, NoReport, receipt))
    /\ stdout' = stdout \cup Streamed
    /\ pc' = "deliver"
    /\ UNCHANGED <<invocation, parsing, outFile, exit, typed, cancelled>>

\* The run raises, which it does for anything but a ModelCallError.  (ask_once also expects a
\* ModelCallError, which no run lets through.)
AskRaises ==
    /\ pc = "run" /\ command = "ask"
    /\ Record(Run(1, 1, 0, NoReport, Raised))
    /\ stdout' \in {stdout, stdout \cup Streamed}
    /\ Exit(Traceback)
    /\ UNCHANGED <<invocation, parsing, outFile, typed, cancelled>>

\* Mutant: a partial receipt is reported like a whole one.
AskExitOfReceipt == EXIT_OK
AskExit == IF Last(runs).receipt.status = "completed" THEN EXIT_OK ELSE EXIT_ENGINE_FAIL

\* Printed: the receipt to be parsed, or the banners to be read.
PrintResult ==
    /\ pc = "deliver"
    /\ opts.out # "path"
    /\ stdout' = stdout \cup {IF opts.json THEN "receipt" ELSE "banners"}
    /\ Exit(AskExit)
    /\ UNCHANGED <<invocation, parsing, outFile, session>>

WriteOut ==
    /\ pc = "deliver"
    /\ opts.out = "path"
    /\ outFile' = "receipt"
    /\ stdout' = IF opts.quiet THEN stdout ELSE stdout \cup {"note"}
    /\ Exit(AskExit)
    /\ UNCHANGED <<invocation, parsing, session>>

\* The file cannot be opened, or not be written to its end; nobody catches the OSError.
WriteOutFails ==
    /\ pc = "deliver"
    /\ opts.out = "path"
    /\ outFile' \in {"untouched", "torn"}
    /\ Exit(Traceback)
    /\ UNCHANGED <<invocation, parsing, stdout, session>>

-----------------------------------------------------------------------------
(* interactive_shell, _maybe_offer_macro_rerun *)

\* The session is left in order; aclose() may still meet a cancellation.
Ending == {EXIT_OK} \cup (IF cancelled THEN {Interrupted} ELSE {})

\* A blank line; help, status or clear; the error of input() at the end of standard input,
\* which is caught: the session prompts again.
OtherLine ==
    /\ pc = "prompt"
    /\ UNCHANGED vars

Leave ==
    /\ pc = "prompt"
    /\ \E code \in Ending : Exit(code)
    /\ UNCHANGED <<invocation, parsing, delivery, session>>

TypeQuery ==
    /\ pc = "prompt"
    /\ typed < MaxQueries
    /\ typed' = typed + 1
    /\ pc' = "run"
    /\ UNCHANGED <<invocation, parsing, delivery, exit, runs, cancelled>>

\* _macro_rerun_available
Available(receipt) ==
    /\ ~receipt.fast
    /\ receipt.deviation \in {"UNEXPLAINED", "UNKNOWN"} \/ receipt.qa = "rejected"

\* Mutant: the cap is not looked at.
OfferedUncapped(run) == Available(run.receipt)
Offered(run) == Available(run.receipt) /\ run.iteration <= config.maxMacro

\* The result is printed, and a re-run offered when that is worth while and within the cap.
ChatRuns ==
    /\ pc = "run" /\ command = "chat" /\ ~cancelled
    /\ \E receipt \in FirstReceipts :
           LET run == Run(typed, 1, 0, NoReport, receipt)
           IN  /\ Record(run)
               /\ pc' = IF Offered(run) THEN "offer" ELSE "prompt"
    /\ UNCHANGED <<invocation, parsing, delivery, exit, typed, cancelled>>

\* A run that raises is reported in one line, and the session goes on.
ChatRaises ==
    /\ pc = "run" /\ command = "chat" /\ ~cancelled
    /\ Record(Run(typed, 1, 0, NoReport, Raised))
    /\ pc' = "prompt"
    /\ UNCHANGED <<invocation, parsing, delivery, exit, typed, cancelled>>

\* Anything but an "s", and an error of input().
Decline ==
    /\ pc = "offer"
    /\ pc' = "prompt"
    /\ UNCHANGED <<invocation, parsing, delivery, exit, session>>

Confirm ==
    /\ pc = "offer"
    /\ pc' = "rerun"
    /\ UNCHANGED <<invocation, parsing, delivery, exit, session>>

\* Same query, next iteration, and what the run before left: its breakdown and its report.
RerunOf(prior, receipt) ==
    Run(typed, prior.iteration + 1, prior.receipt.breakdown, prior.receipt.report, receipt)

\* The result of a re-run is printed; no other re-run is offered for it.
Rerun ==
    /\ pc = "rerun" /\ ~cancelled
    /\ \E receipt \in RerunReceipts(Last(runs).receipt.breakdown) \cup {Raised} :
           Record(RerunOf(Last(runs), receipt))
    /\ pc' = "prompt"
    /\ UNCHANGED <<invocation, parsing, delivery, exit, typed, cancelled>>

-----------------------------------------------------------------------------
(* Ctrl-C *)

\* From Python 3.11 on, a first Ctrl-C only cancels the main task, which a task that sits in
\* input() does not notice.
CtrlC ==
    /\ pc \in {"prompt", "offer"}
    /\ ~cancelled
    /\ cancelled' = TRUE
    /\ UNCHANGED <<invocation, pc, parsing, delivery, exit, runs, typed>>

\* Mutant: the session catches the cancellation like any error of a run.
CancelledCaught ==
    /\ pc \in {"run", "rerun"}
    /\ cancelled
    /\ pc' = "prompt"
    /\ cancelled' = FALSE
    /\ UNCHANGED <<invocation, parsing, delivery, exit, runs, typed>>

\* The cancelled task comes to its first await: CancelledError is no Exception.
Cancelled ==
    /\ pc \in {"run", "rerun"}
    /\ cancelled
    /\ Exit(Interrupted)
    /\ UNCHANGED <<invocation, parsing, delivery, session>>

\* Before 3.11, or for the second time, Ctrl-C raises in input(), and the session ends.
InputInterrupted ==
    /\ pc \in {"prompt", "offer"}
    /\ \E code \in {EXIT_OK, Interrupted} : Exit(code)
    /\ UNCHANGED <<invocation, parsing, delivery, session>>

\* A run is cancelled; before 3.11 Ctrl-C may also raise in the session's own code.
RunInterrupted ==
    /\ pc \in {"run", "rerun", "ingest"}
    /\ \E code \in {Interrupted} \cup (IF command = "chat" THEN {EXIT_OK} ELSE {}) : Exit(code)
    /\ UNCHANGED <<invocation, parsing, delivery, session>>

Ended == pc = "exited" /\ UNCHANGED vars

Parse ==
    \/ TakeSwitch \/ MissingValue \/ TakePath \/ TakeText \/ BadText
    \/ TakeSchema \/ BadSchema \/ UndecodableSchema \/ UnknownFlag \/ TakePositional
    \/ Ambiguous \/ Parsed \/ NoQuery \/ UndecodableQuery \/ HasQuery
Ask == AskRuns \/ AskRaises \/ PrintResult \/ WriteOut \/ WriteOutFails
User == OtherLine \/ Leave \/ TypeQuery \/ Decline \/ Confirm
Interrupt == CtrlC \/ InputInterrupted \/ RunInterrupted
Runs == ChatRuns \/ ChatRaises \/ Rerun \/ Cancelled

Next ==
    \/ NoCommand \/ StartFails \/ BadCommand \/ Dispatch \/ Ingested
    \/ Parse \/ Ask \/ User \/ Runs \/ Interrupt \/ Ended

\* A run ends (Pipeline!EventuallyEnds); what the user does and when is theirs.
Fairness == WF_vars(Runs)

Spec == Init /\ [][Next]_vars /\ Fairness

-----------------------------------------------------------------------------
(* Properties *)

TypeOK ==
    /\ command \in Commands
    /\ config \in [maxMacro : 0..MaxMacro, closingReport : BOOLEAN]
    /\ pc \in PCs
    /\ argv \in Seq(Tokens)
    /\ opts \in Options
    /\ schema \in {None, "valid", "malformed"}
    /\ stdout \subseteq {"stream", "receipt", "banners", "note"}
    /\ outFile \in {"untouched", "torn", "receipt"}
    /\ exit \in {Running, EXIT_OK, Traceback, EXIT_ENGINE_FAIL, EXIT_USAGE, Interrupted}
    /\ typed \in Nat
    /\ cancelled \in BOOLEAN
    /\ runs \in Seq([query : Nat, iteration : Nat, breakdown : Nat, report : Nat,
                     receipt : [status : {"raised", "completed", "failed", "timeout"},
                                fast : BOOLEAN, qa : {None, "approved", "rejected"},
                                deviation : Deviations \cup {None},
                                breakdown : Nat, report : Nat]])

Delivered ==
    IF opts.out = "path" THEN outFile = "receipt"
    ELSE opts.json => stdout = {"receipt"}

\* What the exit code of `ask` tells its caller (main.py:28-30, README.md:137): 0 for a
\* completed run and 2 for a partial one, in both cases with the receipt where the options
\* asked for it, alone on stdout if that is JSON; 3 when no run was made.
ExitTellsReceipt ==
    command = "ask" /\ pc = "exited" =>
        /\ exit \in {EXIT_OK, EXIT_ENGINE_FAIL} =>
               /\ Delivered
               /\ Last(runs).receipt.status # "raised"
               /\ exit = EXIT_OK <=> Last(runs).receipt.status = "completed"
        /\ exit = EXIT_USAGE => runs = <<>> /\ stdout = {} /\ outFile = "untouched"

\* A re-run is of the query just answered, on the breakdown and report of an answer that was
\* worth one, and there are at most maxMacro of them per query (main.py:232-263): three brakes
\* before another pass is paid for (docs/plan-macro-loop-manager-hitl.md:162).
RerunsEarned ==
    \A i \in DOMAIN runs : runs[i].breakdown # 0 \/ runs[i].iteration > 1 =>
        /\ i > 1
        /\ LET prior == runs[i - 1]
           IN  /\ runs[i].query = prior.query
               /\ runs[i].iteration = prior.iteration + 1
               /\ runs[i].iteration <= config.maxMacro + 1
               /\ prior.receipt.status = "completed" /\ ~prior.receipt.fast
               /\ runs[i].breakdown = prior.receipt.breakdown
               /\ runs[i].breakdown = i - 1
               /\ prior.receipt.qa = "approved" =>
                      /\ prior.receipt.deviation \in {"UNEXPLAINED", "UNKNOWN"}
                      /\ runs[i].report = i - 1

\* A query typed at the prompt gets its answer or its error, or the session ends; no failure
\* leaves it hanging (main.py:294-305).
QueryAnswered ==
    \A q \in 1..MaxQueries :
        (pc = "run" /\ typed = q) ~>
            (pc = "exited" \/ \E i \in DOMAIN runs : runs[i].query = q)
=============================================================================
