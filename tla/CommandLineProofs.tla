-------------------------- MODULE CommandLineProofs --------------------------
(***************************************************************************)
(* Proofs about the command line: whatever is typed and answered, and for  *)
(* every cap, the exit code of `ask` tells what became of its receipt, and *)
(* a chat session only re-runs an answer that was worth it.                *)
(***************************************************************************)
EXTENDS CommandLine, SequenceTheorems, TLAPS

ReceiptRecords ==
    [status : {"raised", "completed", "failed", "timeout"}, fast : BOOLEAN,
     qa : {None, "approved", "rejected"}, deviation : Deviations \cup {None},
     breakdown : Nat, report : Nat]

RunRecords ==
    [query : Nat, iteration : Nat, breakdown : Nat, report : Nat, receipt : ReceiptRecords]

\* Facts about sequences.
LEMMA LastIsElement ==
    ASSUME NEW S, NEW s \in Seq(S), s # <<>>
    PROVE  Last(s) \in S /\ Len(s) \in Nat /\ Len(s) > 0 /\ Last(s) = s[Len(s)]
BY DEF Last

LEMMA AppendedRun ==
    ASSUME NEW S, NEW s \in Seq(S), NEW e \in S
    PROVE  /\ Append(s, e) \in Seq(S)
           /\ Append(s, e) # <<>>
           /\ Len(Append(s, e)) = Len(s) + 1
           /\ Last(Append(s, e)) = e
           /\ \A i \in DOMAIN s : Append(s, e)[i] = s[i]
           /\ \A i \in DOMAIN Append(s, e) : i \in DOMAIN s \/ i = Len(s) + 1
BY DEF Last

\* What the rest of an argument list is made of.
LEMMA ArgsLeft ==
    ASSUME NEW S, NEW s \in Seq(S), s # <<>>
    PROVE  /\ Head(s) \in S /\ Tail(s) \in Seq(S)
           /\ Len(s) > 1 => s[2] \in S /\ Tail(Tail(s)) \in Seq(S)
<1>1. Head(s) \in S /\ Tail(s) \in Seq(S)
  OBVIOUS
<1>2. ASSUME Len(s) > 1 PROVE s[2] \in S /\ Tail(Tail(s)) \in Seq(S)
  <2>1. s[2] \in S /\ Len(Tail(s)) = Len(s) - 1
    BY <1>1, <1>2
  <2>2. Len(Tail(s)) > 0
    BY <1>2, <2>1
  <2>3. Tail(s) # <<>>
    BY <1>1, <2>2, EmptySeq
  <2> QED BY <1>1, <2>1, <2>3
<1> QED BY <1>1, <1>2

-----------------------------------------------------------------------------
(* Types *)

LEMMA FullReceipt ==
    ASSUME TypeOK, NEW breakdown \in Nat, NEW receipt \in Full(breakdown)
    PROVE  /\ receipt \in ReceiptRecords
           /\ receipt.status = "completed" /\ ~receipt.fast
           /\ receipt.qa \in {"approved", "rejected"}
           /\ receipt.breakdown = breakdown
           /\ receipt.deviation # None => receipt.report = Len(runs) + 1
<1>1. PICK v \in [qa : {"approved", "rejected"}, deviation : Told] :
          receipt = Receipt("completed", FALSE, v.qa, v.deviation, breakdown, Written)
  BY DEF Full
<1>2. Len(runs) + 1 \in Nat
  BY DEF TypeOK
<1> QED BY <1>1, <1>2 DEF Receipt, ReceiptRecords, Told, Written, NoReport, Deviations, None

LEMMA OtherReceipt ==
    ASSUME NEW receipt \in Partial \cup FastPath \cup {Raised}
    PROVE  /\ receipt \in ReceiptRecords
           /\ ~Available(receipt)
           /\ receipt = Raised \/ receipt.status # "raised"
<1>1. CASE receipt \in Partial \cup FastPath
  <2>1. PICK s \in {"completed", "failed", "timeout"}, fast \in BOOLEAN :
            receipt = Receipt(s, fast, None, None, 0, NoReport)
    BY <1>1, Zenon DEF Partial, FastPath
  <2> QED BY <2>1 DEF Receipt, ReceiptRecords, NoReport, None, Available
<1>2. CASE receipt = Raised
  BY <1>2 DEF Raised, ReceiptRecords, NoReport, None, Available
<1> QED BY <1>1, <1>2

LEMMA ReceiptType ==
    ASSUME TypeOK
    PROVE  /\ FirstReceipts \subseteq ReceiptRecords
           /\ \A r \in FirstReceipts : r.status # "raised"
           /\ \A b \in Nat : RerunReceipts(b) \subseteq ReceiptRecords
<1>1. Len(runs) + 1 \in Nat
  BY DEF TypeOK
<1>2. ASSUME NEW r \in FirstReceipts PROVE r \in ReceiptRecords /\ r.status # "raised"
  <2>1. CASE r \in Full(Len(runs) + 1)
    <3>1. r \in ReceiptRecords /\ r.status = "completed"
      BY <1>1, <2>1, FullReceipt
    <3> QED BY <3>1
  <2>2. CASE r \in Partial
    BY <2>2, OtherReceipt DEF Partial, Receipt
  <2>3. CASE r \in FastPath
    BY <2>3, OtherReceipt DEF FastPath, Receipt
  <2> QED BY <2>1, <2>2, <2>3 DEF FirstReceipts
<1>3. ASSUME NEW b \in Nat, NEW r \in RerunReceipts(b) PROVE r \in ReceiptRecords
  <2>1. CASE r \in Full(b)
    BY <2>1, FullReceipt
  <2>2. CASE r \in Partial
    BY <2>2, OtherReceipt
  <2> QED BY <2>1, <2>2 DEF RerunReceipts
<1> QED BY <1>2, <1>3

LEMMA TypeInit == Init => TypeOK
<1> SUFFICES ASSUME Init PROVE TypeOK
  OBVIOUS
<1>1. argv \in Seq(Tokens)
  <2>1. CASE argv \in Args
    <3>1. PICK n \in 0..MaxArgs : argv \in [1..n -> Tokens]
      BY <2>1 DEF Args
    <3>2. n \in Nat
      BY BoundsAssumption
    <3> QED BY <3>1, <3>2
  <2>2. CASE argv \in {<<>>, <<"text">>}
    <3>1. "text" \in Tokens
      BY DEF Tokens
    <3>2. <<>> \in Seq(Tokens) /\ Append(<<>>, "text") \in Seq(Tokens) /\ <<"text">> = Append(<<>>, "text")
      BY <3>1
    <3> QED BY <2>2, <3>2
  <2> QED BY <2>1, <2>2 DEF Init
<1>2. opts \in Options
  BY DEF Init, NoOptions, Options
<1>3. runs \in Seq(RunRecords)
  BY DEF Init
<1> QED BY <1>1, <1>2, <1>3 DEF Init, TypeOK, PCs, None, RunRecords, ReceiptRecords

\* A re-run has a run to repeat.
TypeInv == TypeOK /\ (pc \in {"offer", "rerun"} => runs # <<>>)

\* The runs after a recorded one.
LEMMA RecordType ==
    ASSUME TypeOK, NEW q \in Nat, NEW i \in Nat, NEW b \in Nat, NEW r \in Nat,
           NEW receipt \in ReceiptRecords, Record(Run(q, i, b, r, receipt))
    PROVE  runs' \in Seq(RunRecords) /\ runs' # <<>>
<1>1. Run(q, i, b, r, receipt) \in RunRecords
  BY DEF Run, RunRecords
<1>2. runs \in Seq(RunRecords)
  BY DEF TypeOK, RunRecords, ReceiptRecords
<1> QED BY <1>1, <1>2, AppendedRun DEF Record

Parts == {"stream", "receipt", "banners", "note"}

\* Type correctness, action by action.
LEMMA TypeNext ==
    ASSUME TypeInv, [Next]_vars
    PROVE  TypeInv'
<1> SUFFICES TypeOK' /\ (pc' \in {"offer", "rerun"} => runs' # <<>>)
  BY DEF TypeInv
<1> USE TypeInv DEF TypeInv
<1> USE DEF PCs, invocation, parsing, delivery, session, Exit
<1>0. runs \in Seq(RunRecords)
  BY DEF TypeOK, RunRecords, ReceiptRecords
<1>1. CASE Parse
  <2>1. UNCHANGED <<invocation, delivery, session>>
    <3>1. CASE TakeSwitch \/ TakePath \/ TakeText \/ TakeSchema \/ TakePositional \/ Parsed \/ HasQuery
      BY <3>1 DEF TakeSwitch, TakePath, TakeText, TakeSchema, TakePositional, Parsed, HasQuery
    <3>2. CASE MissingValue \/ BadText \/ UnknownFlag \/ Ambiguous \/ NoQuery
      BY <3>2 DEF MissingValue, BadText, UnknownFlag, Ambiguous, NoQuery, Usage
    <3>3. CASE BadSchema \/ UndecodableSchema \/ UndecodableQuery
      BY <3>3 DEF BadSchema, UndecodableSchema, UndecodableQuery
    <3> QED BY <1>1, <3>1, <3>2, <3>3 DEF Parse
  <2>2. /\ argv' \in Seq(Tokens) /\ opts' \in Options /\ schema' \in {None, "valid", "malformed"}
        /\ pc' \in {"parse", "query", "run", "exited"}
        /\ exit' \in {Running, EXIT_OK, Traceback, EXIT_ENGINE_FAIL, EXIT_USAGE, Interrupted}
    <3>1. CASE TakeSwitch
      <4>1. argv' \in Seq(Tokens) /\ UNCHANGED <<schema, exit>> /\ pc' = "parse"
        BY <3>1, ArgsLeft DEF TakeSwitch, Arg, TypeOK
      <4>2. opts' \in Options
        BY <3>1 DEF TakeSwitch, TypeOK, Options
      <4> QED BY <4>1, <4>2 DEF TypeOK
    <3>2. CASE TakePath
      <4>1. argv' \in Seq(Tokens) /\ UNCHANGED <<schema, exit>> /\ pc' = "parse"
        BY <3>2, ArgsLeft DEF TakePath, Arg, TypeOK
      <4>2. PathValue \in {"none", "empty", "path"}
        BY DEF PathValue
      <4>3. opts' \in Options
        BY <3>2, <4>2 DEF TakePath, TypeOK, Options
      <4> QED BY <4>1, <4>3 DEF TypeOK
    <3>3. CASE TakeText
      <4>1. argv' \in Seq(Tokens) /\ UNCHANGED <<opts, schema, exit>> /\ pc' = "parse"
        BY <3>3, ArgsLeft DEF TakeText, Arg, TypeOK
      <4> QED BY <4>1 DEF TypeOK
    <3>4. CASE TakeSchema
      <4>1. argv' \in Seq(Tokens) /\ schema' = "valid" /\ UNCHANGED <<opts, exit>> /\ pc' = "parse"
        BY <3>4, ArgsLeft DEF TakeSchema, Arg, TypeOK
      <4> QED BY <4>1 DEF TypeOK
    <3>5. CASE TakePositional
      <4>1. argv' \in Seq(Tokens) /\ UNCHANGED <<schema, exit>> /\ pc' = "parse"
        BY <3>5, ArgsLeft DEF TakePositional, Arg, TypeOK
      <4>2. Append(opts.positional, Head(argv)) \in Seq({"", "text"})
        <5>1. Head(argv) \in {"", "text"} /\ opts.positional \in Seq({"", "text"})
          BY <3>5 DEF TakePositional, Arg, TypeOK, Options
        <5> QED BY <5>1, AppendedRun
      <4>3. opts' \in Options
        BY <3>5, <4>2 DEF TakePositional, TypeOK, Options
      <4> QED BY <4>1, <4>3 DEF TypeOK
    <3>6. CASE MissingValue \/ BadText \/ UnknownFlag \/ Ambiguous \/ NoQuery
      BY <3>6 DEF MissingValue, BadText, UnknownFlag, Ambiguous, NoQuery, Usage, TypeOK
    <3>7. CASE BadSchema \/ UndecodableSchema \/ UndecodableQuery
      BY <3>7 DEF BadSchema, UndecodableSchema, UndecodableQuery, TypeOK
    <3>8. CASE Parsed \/ HasQuery
      BY <3>8 DEF Parsed, HasQuery, TypeOK
    <3> QED BY <1>1, <3>1, <3>2, <3>3, <3>4, <3>5, <3>6, <3>7, <3>8 DEF Parse
  <2> QED BY <2>1, <2>2 DEF TypeOK
<1>2. CASE AskRuns \/ AskRaises
  <2>1. PICK receipt \in ReceiptRecords : Record(Run(1, 1, 0, NoReport, receipt))
    BY <1>2, ReceiptType, OtherReceipt DEF AskRuns, AskRaises
  <2>2. runs' \in Seq(RunRecords) /\ runs' # <<>>
    BY <2>1, RecordType DEF NoReport
  <2>3. stdout' \subseteq Parts
    BY <1>2 DEF AskRuns, AskRaises, Streamed, TypeOK, Parts
  <2>4. UNCHANGED <<invocation, parsing, outFile, typed, cancelled>>
    BY <1>2 DEF AskRuns, AskRaises
  <2>5. pc' \in PCs /\ exit' \in {exit, Traceback}
    BY <1>2 DEF AskRuns, AskRaises, TypeOK
  <2> QED BY <2>2, <2>3, <2>4, <2>5 DEF TypeOK, RunRecords, ReceiptRecords, Parts
<1>3. CASE PrintResult \/ WriteOut \/ WriteOutFails
  BY <1>3 DEF PrintResult, WriteOut, WriteOutFails, AskExit, TypeOK
<1>4. CASE ChatRuns \/ ChatRaises
  <2>1. PICK receipt \in ReceiptRecords : Record(Run(typed, 1, 0, NoReport, receipt))
    BY <1>4, ReceiptType, OtherReceipt DEF ChatRuns, ChatRaises
  <2>2. runs' \in Seq(RunRecords) /\ runs' # <<>>
    BY <2>1, RecordType DEF NoReport, TypeOK
  <2>3. UNCHANGED <<invocation, parsing, delivery, exit, typed, cancelled>> /\ pc' \in PCs
    BY <1>4 DEF ChatRuns, ChatRaises
  <2> QED BY <2>2, <2>3 DEF TypeOK, RunRecords, ReceiptRecords
<1>5. CASE Rerun
  <2>1. Last(runs) \in RunRecords /\ Last(runs).receipt \in ReceiptRecords
    <3>1. runs # <<>>
      BY <1>5 DEF Rerun
    <3>2. Last(runs) \in RunRecords
      BY <1>0, <3>1, LastIsElement
    <3> QED BY <3>2 DEF RunRecords
  <2>2. PICK receipt \in ReceiptRecords : Record(RerunOf(Last(runs), receipt))
    BY <1>5, <2>1, ReceiptType, OtherReceipt DEF Rerun, ReceiptRecords
  <2>3. runs' \in Seq(RunRecords)
    <3>1. /\ typed \in Nat /\ Last(runs).iteration + 1 \in Nat
          /\ Last(runs).receipt.breakdown \in Nat /\ Last(runs).receipt.report \in Nat
      <4>1. typed \in Nat
        BY DEF TypeOK
      <4> QED BY <2>1, <4>1 DEF RunRecords, ReceiptRecords
    <3> QED BY <2>2, <3>1, RecordType DEF RerunOf
  <2>4. UNCHANGED <<invocation, parsing, delivery, exit, typed, cancelled>> /\ pc' = "prompt"
    BY <1>5 DEF Rerun
  <2> QED BY <2>3, <2>4 DEF TypeOK, RunRecords, ReceiptRecords
<1>6. CASE Leave \/ InputInterrupted
  <2>1. exit' \in {EXIT_OK, Interrupted} /\ pc' = "exited"
    <3>1. CASE Leave
      BY <3>1 DEF Leave, Ending
    <3>2. CASE InputInterrupted
      BY <3>2 DEF InputInterrupted
    <3> QED BY <1>6, <3>1, <3>2
  <2>2. UNCHANGED <<invocation, parsing, delivery, session>>
    BY <1>6 DEF Leave, InputInterrupted
  <2> QED BY <2>1, <2>2 DEF TypeOK
<1>7. CASE RunInterrupted \/ Cancelled
  BY <1>7 DEF RunInterrupted, Cancelled, TypeOK
<1>8. CASE Decline \/ Confirm \/ TypeQuery \/ CtrlC
  <2>1. CASE TypeQuery
    BY <2>1 DEF TypeQuery, TypeOK
  <2>2. CASE CtrlC
    BY <2>2 DEF CtrlC, TypeOK
  <2>3. CASE Decline \/ Confirm
    BY <2>3 DEF Decline, Confirm, TypeOK
  <2> QED BY <1>8, <2>1, <2>2, <2>3
<1>9. CASE NoCommand \/ StartFails \/ BadCommand
  BY <1>9 DEF NoCommand, StartFails, BadCommand, Usage, TypeOK
<1>10. CASE Dispatch \/ Ingested
  <2>1. CASE Dispatch
    <3>1. pc' \in {"parse", "prompt", "ingest"}
      BY <2>1 DEF Dispatch
    <3> QED BY <2>1, <3>1 DEF Dispatch, TypeOK
  <2>2. CASE Ingested
    BY <2>2 DEF Ingested, TypeOK
  <2> QED BY <1>10, <2>1, <2>2
<1>11. CASE OtherLine \/ Ended \/ UNCHANGED vars
  <2>1. UNCHANGED vars
    BY <1>11 DEF OtherLine, Ended
  <2> QED BY <2>1 DEF vars, TypeOK
<1> HIDE DEF PCs, invocation, parsing, delivery, session, Exit
<1> QED BY <1>1, <1>2, <1>3, <1>4, <1>5, <1>6, <1>7, <1>8, <1>9, <1>10, <1>11
        DEF Next, Ask, User, Interrupt, Runs

LEMMA TypeAlways == Spec => []TypeInv
<1>1. Init => TypeInv
  BY TypeInit DEF Init, TypeInv
<1> QED BY <1>1, TypeNext, PTL DEF Spec

\* Every setting, option, state of a delivery and record of a run is one the program can be in,
\* for any list of arguments and any answers (main.py).
THEOREM CommandLineTypeCorrect == Spec => []TypeOK
<1>1. TypeInv => TypeOK
  BY DEF TypeInv
<1> QED BY <1>1, TypeAlways, PTL

-----------------------------------------------------------------------------
(* Re-runs *)

\* A run of the query just typed, of the kind a re-run is offered for.
WorthRerun(run, n) ==
    /\ run.query = typed /\ run.iteration = 1
    /\ config.maxMacro >= 1
    /\ run.receipt.status = "completed" /\ ~run.receipt.fast
    /\ run.receipt.breakdown = n
    /\ run.receipt.qa = "approved" =>
           run.receipt.deviation \in {"UNEXPLAINED", "UNKNOWN"} /\ run.receipt.report = n

\* A re-run is only confirmed or made while the run before is worth it.
RerunInv ==
    /\ TypeInv
    /\ RerunsEarned
    /\ pc \in {"offer", "rerun"} => WorthRerun(Last(runs), Len(runs))

\* What is offered is worth it.
LEMMA OfferedIsWorth ==
    ASSUME TypeOK, NEW receipt \in FirstReceipts, Offered(Run(typed, 1, 0, NoReport, receipt))
    PROVE  WorthRerun(Run(typed, 1, 0, NoReport, receipt), Len(runs) + 1)
<1>1. Available(receipt) /\ 1 <= config.maxMacro
  BY DEF Offered, Run
<1>2. receipt \in Full(Len(runs) + 1)
  BY <1>1, OtherReceipt DEF FirstReceipts
<1>3. Len(runs) + 1 \in Nat /\ config.maxMacro \in Nat
  BY BoundsAssumption DEF TypeOK
<1>4. /\ receipt.status = "completed" /\ ~receipt.fast
      /\ receipt.qa \in {"approved", "rejected"}
      /\ receipt.breakdown = Len(runs) + 1
      /\ receipt.deviation # None => receipt.report = Len(runs) + 1
  BY <1>2, <1>3, FullReceipt
<1>5. receipt.qa = "approved" =>
          receipt.deviation \in {"UNEXPLAINED", "UNKNOWN"} /\ receipt.report = Len(runs) + 1
  BY <1>1, <1>4 DEF Available, None
<1> QED BY <1>1, <1>3, <1>4, <1>5 DEF WorthRerun, Run

\* The runs already made stay as they were judged.
LEMMA EarnedAppended ==
    ASSUME TypeOK, RerunsEarned, UNCHANGED config, NEW run \in RunRecords, Record(run),
           run.breakdown # 0 \/ run.iteration > 1 =>
               runs # <<>> /\ WorthRerun(Last(runs), Len(runs)) /\ run.query = typed
               /\ run.iteration = 2 /\ run.breakdown = Last(runs).receipt.breakdown
               /\ run.report = Last(runs).receipt.report
    PROVE  RerunsEarned'
<1>1. runs \in Seq(RunRecords) /\ Len(runs) \in Nat
  BY DEF TypeOK, RunRecords, ReceiptRecords
<1>2. /\ Len(runs') = Len(runs) + 1 /\ runs'[Len(runs) + 1] = run /\ DOMAIN runs' = 1..(Len(runs) + 1)
      /\ DOMAIN runs = 1..Len(runs) /\ \A i \in DOMAIN runs : runs'[i] = runs[i]
  BY <1>1 DEF Record
<1> SUFFICES ASSUME NEW i \in DOMAIN runs', runs'[i].breakdown # 0 \/ runs'[i].iteration > 1
             PROVE  /\ i > 1
                    /\ LET prior == runs'[i - 1]
                       IN  /\ runs'[i].query = prior.query
                           /\ runs'[i].iteration = prior.iteration + 1
                           /\ runs'[i].iteration <= config.maxMacro + 1
                           /\ prior.receipt.status = "completed" /\ ~prior.receipt.fast
                           /\ runs'[i].breakdown = prior.receipt.breakdown
                           /\ runs'[i].breakdown = i - 1
                           /\ prior.receipt.qa = "approved" =>
                                  /\ prior.receipt.deviation \in {"UNEXPLAINED", "UNKNOWN"}
                                  /\ runs'[i].report = i - 1
  BY DEF RerunsEarned
<1>3. CASE i \in DOMAIN runs
  <2>1. i > 1 /\ i - 1 \in DOMAIN runs
    BY <1>1, <1>2, <1>3 DEF RerunsEarned
  <2>2. runs'[i] = runs[i] /\ runs'[i - 1] = runs[i - 1]
    BY <1>2, <1>3, <2>1
  <2> QED BY <1>3, <2>1, <2>2 DEF RerunsEarned
<1>4. CASE i = Len(runs) + 1
  <2>1. runs # <<>> /\ WorthRerun(Last(runs), Len(runs))
    BY <1>2, <1>4
  <2>2. i > 1 /\ i - 1 = Len(runs) /\ runs'[i - 1] = Last(runs) /\ runs'[i] = run
    <3>1. Len(runs) > 0 /\ Last(runs) = runs[Len(runs)]
      BY <1>1, <2>1, LastIsElement
    <3> QED BY <1>1, <1>2, <1>4, <3>1
  <2>3. config.maxMacro \in Nat
    BY BoundsAssumption DEF TypeOK
  <2> QED BY <1>2, <1>4, <2>1, <2>2, <2>3 DEF WorthRerun
<1> QED BY <1>2, <1>3, <1>4

LEMMA RerunNext ==
    ASSUME RerunInv, [Next]_vars
    PROVE  RerunInv'
<1>1. TypeInv' /\ TypeOK /\ TypeOK' /\ UNCHANGED config
  <2>1. TypeInv'
    BY TypeNext DEF RerunInv
  <2>2. UNCHANGED config
    BY DEF Next, Parse, Ask, User, Interrupt, Runs, vars, invocation, Usage, NoCommand, StartFails,
           BadCommand, Dispatch, Ingested, TakeSwitch, MissingValue, TakePath, TakeText, BadText,
           TakeSchema, BadSchema, UndecodableSchema, UnknownFlag, TakePositional, Ambiguous,
           Parsed, NoQuery, UndecodableQuery, HasQuery, AskRuns, AskRaises, PrintResult, WriteOut,
           WriteOutFails, OtherLine, Leave, TypeQuery, Decline, Confirm, ChatRuns, ChatRaises,
           Rerun, Cancelled, CtrlC, InputInterrupted, RunInterrupted, Ended
  <2> QED BY <2>1, <2>2 DEF RerunInv, TypeInv
<1>2. ASSUME UNCHANGED runs, pc' \in {"offer", "rerun"} => pc \in {"offer", "rerun"} /\ UNCHANGED typed
      PROVE  RerunInv'
  <2>1. RerunsEarned'
    BY <1>1, <1>2 DEF RerunInv, RerunsEarned
  <2>2. ASSUME pc' \in {"offer", "rerun"} PROVE WorthRerun(Last(runs), Len(runs))'
    BY <1>1, <1>2, <2>2 DEF RerunInv, WorthRerun, Last
  <2> QED BY <1>1, <2>1, <2>2 DEF RerunInv
<1>3. CASE Parse
  <2>1. UNCHANGED runs /\ pc' \in {"parse", "query", "run", "exited"}
    BY <1>3 DEF Parse, Usage, Exit, Arg, session, TakeSwitch, MissingValue, TakePath, TakeText,
                BadText, TakeSchema, BadSchema, UndecodableSchema, UnknownFlag, TakePositional,
                Ambiguous, Parsed, NoQuery, UndecodableQuery, HasQuery
  <2> QED BY <1>2, <2>1
<1>4. CASE AskRuns \/ AskRaises \/ ChatRaises
  <2>1. PICK q \in Nat, receipt \in ReceiptRecords : Record(Run(q, 1, 0, NoReport, receipt))
    <3>1. CASE AskRuns \/ AskRaises
      BY <1>1, <3>1, ReceiptType, OtherReceipt DEF AskRuns, AskRaises
    <3>2. CASE ChatRaises
      BY <1>1, <3>2, OtherReceipt DEF ChatRaises, TypeOK
    <3> QED BY <1>4, <3>1, <3>2
  <2>2. Run(q, 1, 0, NoReport, receipt) \in RunRecords
    BY DEF Run, RunRecords, NoReport
  <2>3. RerunsEarned'
    BY <1>1, <2>1, <2>2, EarnedAppended DEF RerunInv, Run
  <2>4. pc' \in {"deliver", "prompt", "exited"}
    BY <1>4 DEF AskRuns, AskRaises, ChatRaises, Exit
  <2> QED BY <1>1, <2>3, <2>4 DEF RerunInv
<1>5. CASE ChatRuns
  <2>1. PICK receipt \in FirstReceipts :
            LET run == Run(typed, 1, 0, NoReport, receipt)
            IN  Record(run) /\ pc' = IF Offered(run) THEN "offer" ELSE "prompt"
    BY <1>5 DEF ChatRuns
  <2> DEFINE run == Run(typed, 1, 0, NoReport, receipt)
  <2>2. run \in RunRecords
    BY <1>1, ReceiptType DEF Run, RunRecords, NoReport, TypeOK
  <2>3. RerunsEarned'
    BY <1>1, <2>1, <2>2, EarnedAppended DEF RerunInv, Run
  <2>4. ASSUME pc' \in {"offer", "rerun"} PROVE WorthRerun(Last(runs), Len(runs))'
    <3>1. Offered(run)
      BY <2>1, <2>4
    <3>2. WorthRerun(run, Len(runs) + 1)
      BY <1>1, <3>1, OfferedIsWorth
    <3>3. Last(runs') = run /\ Len(runs') = Len(runs) + 1
      <4>1. runs \in Seq(RunRecords)
        BY <1>1 DEF TypeOK, RunRecords, ReceiptRecords
      <4> QED BY <2>1, <2>2, <4>1, AppendedRun DEF Record
    <3>4. UNCHANGED typed
      BY <1>5 DEF ChatRuns
    <3> QED BY <1>1, <3>2, <3>3, <3>4 DEF WorthRerun, Last
  <2> QED BY <1>1, <2>3, <2>4 DEF RerunInv
<1>6. CASE Rerun
  <2>1. /\ runs # <<>> /\ WorthRerun(Last(runs), Len(runs)) /\ typed \in Nat
        /\ Last(runs) \in RunRecords
    <3>1. runs # <<>> /\ WorthRerun(Last(runs), Len(runs)) /\ typed \in Nat
      BY <1>6 DEF Rerun, RerunInv, TypeInv, TypeOK
    <3>2. runs \in Seq(RunRecords)
      BY <1>1 DEF TypeOK, RunRecords, ReceiptRecords
    <3> QED BY <3>1, <3>2, LastIsElement
  <2>2. PICK receipt \in ReceiptRecords : Record(RerunOf(Last(runs), receipt))
    <3>1. Last(runs).receipt.breakdown \in Nat
      BY <2>1 DEF RunRecords, ReceiptRecords
    <3> QED BY <1>1, <1>6, <3>1, ReceiptType, OtherReceipt DEF Rerun
  <2> DEFINE run == RerunOf(Last(runs), receipt)
  <2>3. run \in RunRecords
    BY <2>1 DEF RerunOf, Run, RunRecords, ReceiptRecords
  <2>4. /\ run.query = typed /\ run.iteration = 2 /\ run.breakdown = Last(runs).receipt.breakdown
        /\ run.report = Last(runs).receipt.report
    BY <2>1 DEF RerunOf, Run, WorthRerun
  <2>5. RerunsEarned'
    BY <1>1, <2>1, <2>2, <2>3, <2>4, EarnedAppended DEF RerunInv
  <2>6. pc' = "prompt"
    BY <1>6 DEF Rerun
  <2> QED BY <1>1, <2>5, <2>6 DEF RerunInv
<1>7. CASE NoCommand \/ StartFails \/ BadCommand \/ Dispatch \/ Ingested
  <2>1. UNCHANGED runs /\ pc' \in {"parse", "prompt", "ingest", "exited"}
    BY <1>7 DEF NoCommand, StartFails, BadCommand, Dispatch, Ingested, Usage, Exit, session
  <2> QED BY <1>2, <2>1
<1>8. CASE PrintResult \/ WriteOut \/ WriteOutFails \/ Leave \/ Decline
  <2>1. UNCHANGED runs /\ pc' \in {"prompt", "exited"}
    BY <1>8 DEF PrintResult, WriteOut, WriteOutFails, Leave, Decline, Exit, session
  <2> QED BY <1>2, <2>1
<1>9. CASE Cancelled \/ InputInterrupted \/ RunInterrupted
  <2>1. UNCHANGED runs /\ pc' = "exited"
    BY <1>9 DEF Cancelled, InputInterrupted, RunInterrupted, Exit, session
  <2> QED BY <1>2, <2>1
<1>10. CASE TypeQuery
  <2>1. UNCHANGED runs /\ pc' = "run"
    BY <1>10 DEF TypeQuery
  <2> QED BY <1>2, <2>1
<1>11. CASE Confirm \/ CtrlC
  <2>1. UNCHANGED <<runs, typed>> /\ (pc' = pc \/ pc = "offer")
    BY <1>11 DEF Confirm, CtrlC, session
  <2> QED BY <1>2, <2>1
<1>12. CASE OtherLine \/ Ended \/ UNCHANGED vars
  <2>1. UNCHANGED <<runs, typed, pc>>
    BY <1>12 DEF OtherLine, Ended, vars, session
  <2> QED BY <1>2, <2>1
<1> QED BY <1>3, <1>4, <1>5, <1>6, <1>7, <1>8, <1>9, <1>10, <1>11, <1>12
        DEF Next, Ask, User, Interrupt, Runs

\* A re-run repeats the query just answered, on the breakdown and the report of an answer that
\* was worth one, and never goes over the cap, whatever the settings and the answers
\* (main.py:232-263).
THEOREM RerunsAreEarned == Spec => []RerunsEarned
<1>1. Init => RerunInv
  <2> SUFFICES ASSUME Init PROVE RerunInv
    OBVIOUS
  <2>1. runs = <<>> /\ pc = "start"
    BY DEF Init
  <2> QED BY <2>1, TypeInit DEF RerunInv, RerunsEarned, TypeInv
<1>2. RerunInv => RerunsEarned
  BY DEF RerunInv
<1> QED BY <1>1, <1>2, RerunNext, PTL DEF Spec

-----------------------------------------------------------------------------
(* Exit codes *)

\* How far `ask` is: nothing is printed, written or run before the query is there, and one run
\* with its stream has been made when its receipt is delivered.
AskInv ==
    /\ TypeInv
    /\ command = "ask" =>
           /\ pc \in {"start", "parse", "query", "run", "deliver", "exited"}
           /\ pc \in {"start", "parse", "query", "run"} =>
                  runs = <<>> /\ stdout = {} /\ outFile = "untouched"
           /\ pc = "deliver" => stdout = Streamed /\ Last(runs).receipt.status # "raised"
    /\ ExitTellsReceipt

\* An end without a verdict: by an exception, by Ctrl-C, or before there was a run.
LEMMA EndsWithoutResult ==
    ASSUME AskInv, TypeInv', UNCHANGED command, pc' = "exited",
           command = "ask" =>
               \/ exit' \in {Traceback, Interrupted}
               \/ exit' = EXIT_USAGE /\ pc \in {"start", "parse", "query", "run"}
                     /\ UNCHANGED <<runs, delivery>>
    PROVE  AskInv'
<1>1. ExitTellsReceipt'
  BY DEF AskInv, ExitTellsReceipt, EXIT_OK, EXIT_ENGINE_FAIL, EXIT_USAGE, Traceback, Interrupted,
         delivery
<1> QED BY <1>1 DEF AskInv

\* `ask` goes on towards its run.
LEMMA ComesToRun ==
    ASSUME AskInv, TypeInv', UNCHANGED <<command, runs, delivery>>,
           command = "ask" => pc \in {"start", "parse", "query"} /\ pc' \in {"parse", "query", "run"},
           pc' # "exited"
    PROVE  AskInv'
BY DEF AskInv, ExitTellsReceipt, delivery

LEMMA AskNext ==
    ASSUME AskInv, [Next]_vars
    PROVE  AskInv'
<1>1. TypeInv' /\ TypeOK
  BY TypeNext DEF AskInv, TypeInv
<1>2. CASE TakeSwitch \/ TakePath \/ TakeText \/ TakeSchema \/ TakePositional \/ Parsed \/ HasQuery
  <2>1. /\ pc \in {"parse", "query"} /\ pc' \in {"parse", "query", "run"}
        /\ UNCHANGED <<command, runs, delivery>>
    BY <1>2 DEF TakeSwitch, TakePath, TakeText, TakeSchema, TakePositional, Parsed, HasQuery, Arg,
                invocation, session
  <2> QED BY <1>1, <2>1, ComesToRun
<1>3. CASE MissingValue \/ BadText \/ UnknownFlag \/ Ambiguous \/ NoQuery \/ NoCommand \/ BadCommand
  <2>1. /\ pc \in {"start", "parse", "query"} /\ pc' = "exited" /\ exit' = EXIT_USAGE
        /\ UNCHANGED <<command, runs, delivery>>
    BY <1>3 DEF MissingValue, BadText, UnknownFlag, Ambiguous, NoQuery, NoCommand, BadCommand,
                Usage, Exit, Arg, invocation, session
  <2> QED BY <1>1, <2>1, EndsWithoutResult
<1>4. CASE BadSchema
  <2>1. /\ pc = "parse" /\ pc' = "exited" /\ exit' = EXIT_USAGE
        /\ UNCHANGED <<command, runs, delivery>>
    BY <1>4 DEF BadSchema, Exit, Arg, invocation, session
  <2> QED BY <1>1, <2>1, EndsWithoutResult
<1>5. CASE UndecodableSchema \/ UndecodableQuery \/ StartFails \/ AskRaises \/ WriteOutFails
  <2>1. pc' = "exited" /\ exit' = Traceback /\ UNCHANGED command
    BY <1>5 DEF UndecodableSchema, UndecodableQuery, StartFails, AskRaises, WriteOutFails, Exit,
                invocation
  <2> QED BY <1>1, <2>1, EndsWithoutResult
<1>6. CASE Dispatch
  <2>1. /\ UNCHANGED <<command, runs, delivery>> /\ pc = "start"
        /\ pc' \in {"parse", "prompt", "ingest"} /\ (command = "ask" => pc' = "parse")
    BY <1>6 DEF Dispatch, invocation, session
  <2> QED BY <1>1, <2>1, ComesToRun
<1>7. CASE AskRuns
  <2>1. PICK receipt \in FirstReceipts : Record(Run(1, 1, 0, NoReport, receipt))
    BY <1>7 DEF AskRuns
  <2>2. Last(runs').receipt.status # "raised"
    <3>1. receipt \in ReceiptRecords /\ receipt.status # "raised"
      BY <1>1, <2>1, ReceiptType
    <3>2. Run(1, 1, 0, NoReport, receipt) \in RunRecords
      BY <3>1 DEF Run, RunRecords, NoReport
    <3>3. runs \in Seq(RunRecords)
      BY <1>1 DEF TypeOK, RunRecords, ReceiptRecords
    <3>4. Last(runs') = Run(1, 1, 0, NoReport, receipt)
      BY <2>1, <3>2, <3>3, AppendedRun DEF Record
    <3> QED BY <3>1, <3>4 DEF Run
  <2>3. stdout' = Streamed' /\ pc' = "deliver" /\ UNCHANGED command
    BY <1>7 DEF AskRuns, AskInv, Streamed, invocation, parsing
  <2> QED BY <1>1, <2>2, <2>3 DEF AskInv, ExitTellsReceipt, Last
<1>8. CASE PrintResult \/ WriteOut
  <2>1. pc = "deliver" /\ pc' = "exited" /\ exit' = AskExit /\ UNCHANGED <<command, opts, runs>>
    BY <1>8 DEF PrintResult, WriteOut, Exit, invocation, parsing, session
  <2>2. ASSUME command = "ask" PROVE Delivered'
    <3>1. CASE PrintResult
      BY <2>1, <2>2, <3>1 DEF PrintResult, Delivered, AskInv, Streamed
    <3>2. CASE WriteOut
      BY <2>1, <3>2 DEF WriteOut, Delivered
    <3> QED BY <1>8, <3>1, <3>2
  <2>3. ASSUME command = "ask" PROVE Last(runs).receipt.status # "raised"
    BY <2>1, <2>3 DEF AskInv
  <2>4. /\ exit' = EXIT_OK <=> Last(runs).receipt.status = "completed"
        /\ exit' \in {EXIT_OK, EXIT_ENGINE_FAIL}
    BY <2>1 DEF AskExit, EXIT_OK, EXIT_ENGINE_FAIL
  <2>5. ExitTellsReceipt'
    BY <2>1, <2>2, <2>3, <2>4 DEF ExitTellsReceipt, Last, EXIT_OK, EXIT_ENGINE_FAIL, EXIT_USAGE
  <2> QED BY <1>1, <2>1, <2>5 DEF AskInv
<1>9. CASE RunInterrupted \/ Cancelled
  <2>1. /\ pc' = "exited" /\ UNCHANGED command
        /\ exit' = Interrupted \/ (command = "chat" /\ exit' = EXIT_OK)
    BY <1>9 DEF RunInterrupted, Cancelled, Exit, invocation
  <2> QED BY <1>1, <2>1, EndsWithoutResult
<1>10. CASE Ingested \/ Leave \/ InputInterrupted
  <2>1. pc \in {"ingest", "prompt", "offer"} /\ pc' = "exited" /\ UNCHANGED command
    BY <1>10 DEF Ingested, Leave, InputInterrupted, Exit, invocation
  <2>2. command # "ask"
    BY <2>1 DEF AskInv
  <2> QED BY <1>1, <2>1, <2>2, EndsWithoutResult
<1>11. CASE ChatRuns \/ ChatRaises \/ Rerun \/ TypeQuery \/ Decline \/ Confirm \/ CtrlC
  <2>1. /\ pc \in {"prompt", "offer", "rerun"} \/ command = "chat"
        /\ UNCHANGED command
    BY <1>11 DEF ChatRuns, ChatRaises, Rerun, TypeQuery, Decline, Confirm, CtrlC, invocation
  <2>2. command # "ask"
    BY <2>1 DEF AskInv
  <2> QED BY <1>1, <2>1, <2>2 DEF AskInv, ExitTellsReceipt
<1>12. CASE OtherLine \/ Ended \/ UNCHANGED vars
  <2>1. UNCHANGED vars
    BY <1>12 DEF OtherLine, Ended
  <2> QED BY <1>1, <2>1 DEF AskInv, ExitTellsReceipt, Delivered, Streamed, Last, vars, invocation,
             parsing, delivery, session
<1> QED BY <1>2, <1>3, <1>4, <1>5, <1>6, <1>7, <1>8, <1>9, <1>10, <1>11, <1>12
        DEF Next, Parse, Ask, User, Interrupt, Runs

\* The exit code of `ask` tells its caller, for every list of arguments and every answer, whether
\* a run completed, ended early or was never made, and that its receipt is where it was asked
\* for, alone on stdout if that is JSON (main.py:28-30, 194-211).
THEOREM ExitCodeIsTrue == Spec => []ExitTellsReceipt
<1>1. Init => AskInv
  <2> SUFFICES ASSUME Init PROVE AskInv
    OBVIOUS
  <2>1. runs = <<>> /\ pc = "start" /\ stdout = {} /\ outFile = "untouched"
    BY DEF Init
  <2> QED BY <2>1, TypeInit DEF AskInv, ExitTellsReceipt, TypeInv
<1>2. AskInv => ExitTellsReceipt
  BY DEF AskInv
<1> QED BY <1>1, <1>2, AskNext, PTL DEF Spec
=============================================================================
