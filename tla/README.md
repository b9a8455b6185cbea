# LocalDevEngine: TLA+ models and proofs

LocalDevEngine is a local multi-agent engine: a request is routed, given context from a
vector store, designed by an Architect model, reviewed section by section by a QA model,
implemented, reviewed again, summarised by a Manager and returned as a JSON receipt.  This
directory holds TLA+ models of its program logic, the TLC runs that check them on small
instances, and TLAPS proofs of what matters most.  Paths below are relative to the root of the
repository, `src/` in `PROJECT.json`.

## 1. Inventory of the system

| Component | State | Operations | Hard behaviours | What makes it correct |
|---|---|---|---|---|
| Pipeline run (`core/orchestrator.py`, `core/pipeline/{runner,context,review_loop,design_gate,impl_stages}.py`) | one `PipelineContext` per call: decision, outline, plan, implementation, gate and QA outcome, recorded outcomes; the trace; no state between calls | `run_complex_task`: router, fast path, breakdown, plan, gate, implementation loop, closing report, conformance, triage, receipt | deadline cutting the task at any await; two nested review loops; failures that are or are not caught; macro-loop re-entry | the receipt's verdict is about what it delivers; code is judged with its plan; work is bounded; the receipt is final, complete and truthful; every call ends |
| Context preparation (`core/pipeline/context_stages.py`) | fields of the context | router stage, schema block, retrieval, assembly (run twice) | one character budget for the schema block, the previous report, the outline and the chunks; first fit, twice, under two budgets | the reserve buys what it is for: the outline does not cost the Architect the chunks that served the Manager; the outcome recorded is the second assembly's |
| Model calls (`models/*.py`) | none (one HTTP client per call) | `generate`, `stream_generate`, factory | trickling or truncated streams, unreadable lines | every failure is a `ModelCallError` |
| Receipt (`core/receipt.py`) | none | `build_receipt`, configuration snapshot | - | the same shape on every end |
| Vector store (`memory/local_memory.py`) | `_vector_matrix`, `_metadata`; `embeddings.npy`, `metadata.json` | `_load`, `replace_source`, `_save`, `search` (`add_batch`: no caller) | two files, no lock, several processes, crashes | each vector is that of its row; a file's rows are those of one version |
| Ingestion (`core/ingestor.py`) | the summary of a walk | walk, read, chunk, embed in batches that are halved, replace | files that change or vanish meanwhile; any pattern of refused and failed calls | a failure never loses what was stored; what is reported as indexed is stored, whole and in order; refusals cost a bounded number of calls |
| Chunking (`core/chunking.py`) | none | `chunk_file`: units, windows of lines, windows of characters | three nested splits with one limit | chunks are the file, within the limit; a unit that fits is not cut; no two neighbours would have fitted in one |
| Embedding service (`memory/embeddings.py`) | HTTP client | `get_embedding(s)` | too large, failing, wrong shape | one vector per text, or an error |
| Command line and chat (`main.py`) | options; the session's store, last result and offer | `ask`, `chat`, `ingest`, the offered re-run | flags that take the next argument whatever it is; runs that raise in a session; Ctrl-C while it sits in `input()` | the exit code tells what became of the receipt; a re-run repeats an answer that was worth it, within the cap; a query is answered or the session ends |
| Security triage (`context/antares/*.py`, `orchestrator._run_security_triage`) | temporary directories, a subprocess | materialise, run, read capped output, clean up | two nested timeouts, cancellation, pipes | never fails the run; no process or directory left behind |
| Schema grounding (`context/schema/{base,snapshot,selection,render}.py`) | none | load a snapshot, select tables for a query, follow foreign keys, cut, render | names resolved through one dictionary; two cuts, by number and by size | every table is shown, named as left out or counted; the expansion is the closure it claims to be |
| Schema conformance (`context/schema/{conformance,extraction,segmentation,identifiers}.py`) | tables, columns and classes defined so far | segment the text, extract each block, resolve its uses | definitions and uses in any order over several blocks | CONFORME exactly when every use that the extraction recognises resolves against the schema or what the text defined by then |
| Prompts (`prompts/*.py`) | none | templates | - | wording only |

**Interactions.** `main.py` builds one `Orchestrator` per process, which loads the vector
store once.  `ingest` drives the ingestor, which calls the embedding service and
`replace_source`.  `ask` and `chat` await `run_complex_task`, whose stages share one context
object and one trace list; the receipt of a timed-out run shares that list too.  Stages await
model calls, the query's embedding and the triage's subprocess, and nothing else: between two
awaits the task runs alone.  Processes share nothing but the two files of the store.  `chat`
feeds the outline and the closing report of one run into the next (the macro loop).

The hazards this leaves, each at its line and with the properties that cover it, are the list
`hazards` of `PROJECT.json`.

## 2. Modules

| Module | Models |
|---|---|
| `Pipeline` | one call of `run_complex_task` |
| `ReviewedRequest` | abstract: what a caller relies on |
| `MCPipeline` | the refinement mapping, and the repository's claims about a run that fail |
| `PipelineProofs` | theorems about `Pipeline` |
| `PipelineRefinementProofs` | the proof that `Pipeline` implements `ReviewedRequest` |
| `ContextPreparation` | the schema block and the chunks that a run's models are given |
| `MCContextPreparation` | two databases, and a claim about the second that fails |
| `ContextPreparationProofs` | theorems about `ContextPreparation` |
| `Conformance`, `MCConformance` | the check of the implementation against the schema |
| `ConformanceProofs` | the theorem about `Conformance` |
| `FileIngest` | one file: chunks, batches, halving |
| `FileIngestProofs` | theorems about `FileIngest` |
| `VectorStore` | the two files of the store, and the processes that load and re-index them |
| `MCVectorStore` | symmetry, and the code's comments on the store that fail |
| `VectorStoreProofs` | theorems about `VectorStore` |
| `SecurityTriage` | one security triage: its subprocess, readers, timeouts, cleanup |
| `MCSecurityTriage` | a claim about its timeout that fails |
| `SecurityTriageProofs` | theorems about `SecurityTriage` |
| `CommandLine` | one invocation of the program, from its arguments to its exit code |
| `CommandLineProofs` | theorems about `CommandLine` |

The modules fit together at their steps.  `Pipeline` is in the middle: its `SecurityTriage`
action is one step for all that the module of that name does inside, its schema, retrieval and
assembly stages are one step each for `ContextPreparation`, and its check of the identifiers is one
for `Conformance`.  Around it, a run is one step of `CommandLine`, whose `FirstReceipts` and
`RerunReceipts` are the forms of receipt that `Pipeline` returns.  `VectorStore` takes one
step (`Embedded`) for what `FileIngest` does with one file.  The steps are not composed by
INSTANCE: each module is checked and proved by itself, and what one assumes of the other is
named here.  `ReviewedRequest` is what `Pipeline` is shown to implement.

### Pipeline

The run is one asyncio task.  `pc` is the await it is suspended in (a member of `ModelPCs`,
`"rag"`, `"triage"`) or the synchronous stage it is about to run (`SyncPCs`); an action is all
the code from one await to the next.  So an action that answers a model call also contains
the bookkeeping that follows it: `GateReview` is the parse of the verdict, the entry of the
trace, the decision of `ReviewLoop`, the move to the next section or out of the gate, and
there the per-section summary and the recorded outcome.

| Code | Model |
|---|---|
| `ctx.decision`, `breakdown`, `context` | `decision`, `outline` (none, prior, fresh), `context` |
| `ctx.plan`, the dict of sections | `plan`: for each section, the position in the trace of the call that wrote it |
| `ctx.implementation` | `implementation`: likewise |
| the loop variables of the gate and of `ReviewLoop` | `section`, `attempt` |
| `design_gate_outcome`, `qa_*`, `deviation` | `gate`, `qa`, `deviation` |
| `OutcomeRecorder` | `outcomes`: absent, skipped or ran |
| `trace` | `trace`; its entries also carry the plan and code of the prompt, so that properties can say what a verdict was about |
| what is returned | `receipt`, which also carries `inFlight`, the stage that was running when the call broke off; the code does not report it |

A model's text is its identity.  Its parse is not abstracted away: a router reply is where in
it each category is first named (first word, then full-pipeline categories, then fast-path
ones, then the default), a QA reply is the verdict words it carries (the first counts, none is
a rejection), a plan parses into its sections or not, a closing report has any deviation.
A run ends by `SecurityTriage` (completed), `ModelCallFails` (failed), `Deadline` (timeout),
or by an exception that no one catches: `EmbeddingFails`, `AnswerUnreadable`, `ConformanceRaises`.

Settings are nondeterministic fields of `request`: a run cap or none (`max_run_seconds`), the
closing report and the identifier check enabled or not; the caller's arguments too: a prior
outline, a schema, CWE checks.

### VectorStore

A process is one CLI command.  It loads in four steps (look for each file, read each file)
because other processes write between them, and then walks the directory file by file: read
and chunk, await the embeddings, `replace_source` in memory, then the two `os.replace` of
`_save`.  The temporary files are not modelled: they are written before either replacement,
and nobody reads them.  An action may be cut off by `Crash` wherever the process is, which
loses its memory and leaves the disk, and a new process may start (`MaxStarts`).  A write that
fails raises out of the command (`SaveFails`), as does a vector that `replace_source` refuses
(`VectorsInvalid`); a failing embedding does not (`EmbeddingFails`).  `Edit` is the environment:
a file gets a new version, becomes unreadable, empty or too large, or is removed or restored.

A row is one chunk of one version of a file, as its vector in the matrix and as its text in
the metadata.  So "the vector of the row" is equality, and filtering one list with a mask
taken from the other (`KeepMask`, `Masked`) is modelled as the code does it.

`paired` and `disturbed` are observations, not program state: whether the files a process
loaded were of one save, and whether another process has written since it started.

### SecurityTriage

`pc` is the await the triage is at: the spawn, the three of the talk with the process (write
the request, read both streams, wait for the exit), the two of the cleanup (the five seconds
after SIGTERM, the drain after SIGKILL).  The process is the environment: it writes to its two
streams, ends when and how it likes, and may leave children that hold its pipes open.  The two
`_read_capped` tasks interleave with it and with each other on one budget.

| Code | Model |
|---|---|
| the arguments of `_run_security_triage`, the two timeouts | `request` |
| the `TemporaryDirectory` | `dir`, which is `left` when its removal fails |
| `proc.returncode`, the pipes | `proc`, `pipes` |
| bytes in the pipes, `chunks`, `budget.remaining` | `written`, `got`, `Captured` |
| the exception whose handler runs `_cleanup` | `cause` |
| `terminal_state` | `terminal` |

Time is not counted.  `InnerTimer` may fire at any await of the talk, `GraceTimer` in the five
seconds.  `OuterTimer` may fire at the spawn and in a drain; during the talk and the five
seconds it may only when `request.ample` is false: the settings (330 and 300 seconds) leave 25
seconds for the start of the process, but the comment on them only asks for more than the
inner timeout.  A cancellation is delivered to the await the task is at: in the talk it runs
the shielded cleanup, anywhere else it leaves at once.  Ctrl-C comes once.

### ContextPreparation

One run's preparation, in the order of the code; `pc` is the stage.  Texts are their sizes, and
words stand for the folded tokens that the lexical selection compares.

| Code | Model |
|---|---|
| `SchemaSnapshot`, its dictionary of names | `snapshot`, `Keys`, `Get`: of two tables with one name, the last |
| `select_tables`: scores, ranking, expansion, cut | `Match`, `ShowAll`, `ShowNone`, one `Expand` per round, `Cut` |
| `render_schema_block` dropping tables from the end | one `Drop` per table |
| `not_shown`, the first 12 of which the block names, and "(+N more)" | `NotShown`, `named`, `more`, written by `Rendered`; `MaxNamed` is the 12 |
| the chunks retrieved, the cap per file | `found`, `Eligible` |
| `ContextAssemblyStage`, run for the Manager and again for the Architect | one step per chunk: `FillForManager`, `FillForArchitect`; `manager[i]` is what has been taken after chunk `i` |
| `rag_stats` | `ragStats` |

`omitted` is in the order of the snapshot (`NamesInOrder`), and the tables dropped come after it, as this decides
which are named.  Ties of score are alphabetical in the code, and in some fixed order in the model.  Which chunks
the store finds, and how well they rank, is given: `found` is any list.  A snapshot is any
prefix of a catalogue with any foreign keys; the parsing of its file is a step of `CommandLine`.

### Conformance

The text is read line by line, as fences and statements.  A statement is one that the extraction
knows (a class with a table and columns, a query bound to a variable, an attribute), an access to data that it
does not know and finds nothing in (`Raw`), or one that breaks the parse; `ClosePython` is all that `check` does with one block: definitions
first, then the uses of tables and columns against `Known` and what has been defined so far.  Blocks
in another language, without one, or that do not parse, are violations of their own
(`CloseUnread`).  `VerdictExact` is stated over the closed blocks alone, without the tables that the
check builds up.

### FileIngest

A text is an interval of the file: the characters after `from` up to `to`.  Of the characters the
model keeps which ones end a line, and after which of these a unit starts.  `AddPiece` is one
piece (a unit, a window of lines, or a window of characters, the three splits of
`chunking.py:72-109`) and its packing into the current chunk.  `pending` is the stack of the
recursion of `_embed_batch`: `HalveBatch` replaces a batch by two, `HalveText` a lone text by its two
halves.  Each call may succeed, be refused as too large, or fail: the code takes every status 400
for too large.

### CommandLine

`pc` is where `main()` is: parsing, the query, the run, delivery, the prompt of the session, the offer
of a re-run.  Arguments are parsed one by one, each flag with an action for its good and its
bad values.  A run is one step that returns a receipt or raises, and `runs` keeps every run with the
arguments it was given.  A breakdown or a closing report is known by the number of the run
that wrote it, so that a property can say which one a re-run was given.

`CtrlC` has both meanings that Python gives it: before 3.11, or the second time, it raises where the
program is; from 3.11 on the first one cancels the main task, which notices at its next
await (`cancelled`, `Cancelled`).

## 3. What the runs check

**`pipeline`** (`MCPipeline.cfg`: 2 sections, 2 revisions; about 184 000 states)

- `TypeOK`.
- `VerdictIsOfDelivered`: the verdict in a full run's receipt is QA's about the very plan and
  code delivered, with only the closing report after it.
- `CodeFollowsPlan`: QA and the closing report always get code with the plan it came from.
- `FirstDraftFollowsReviewedPlan`: no code is written from a text the gate did not review,
  and under an approving gate it approved each of those texts, not an earlier version.
- `GateOutcomeMatchesTrace`: the accumulated verdict agrees with the per-section verdicts
  derived from the trace, and an unapproved section used up its revisions.
- `QACountMatchesTrace`: reported attempts are the checks in the trace, and "not approved" is
  said only after the last revision was reviewed.
- `ReceiptDeclaresEveryStage`: a completed receipt says of each stage, truthfully, if it ran.
- `ReentryKeepsOutline`: a re-entry is never routed to the fast path nor given a new outline,
  and the Architect is only asked with the outline in the context.
- `WorkBounded`: at most `3 + NSections (2 MaxQA + 1) + (3 MaxQA + 2) + 1` model calls.
- `ReceiptIsFinal` (action property): after the return neither receipt nor trace changes.
- `EventuallyEnds`, `TriageNeverFailsTheRun` (liveness).
- `ImplementsContract`: `Pipeline` implements `ReviewedRequest`, in which a request spends a
  bounded number of calls on drafts and verdicts, and is delivered only when it is quick, or
  when the last verdict is about the current draft and either accepts it or was the last one.

Two sections are enough for a section that passes beside one that is given up on, and for
revisions of one that leave the other alone; two revisions (the configured value,
`config/settings.yaml:138`) let a section be rejected, revised and rejected again, so that a
middle attempt differs from the first and the last.  No other bound is needed: a run is finite.

**`vector_store`** (`MCVectorStore.cfg`; about 4 600 000 states)

- `TypeOK`.
- `OneVectorPerRow`: past its load a process has as many vectors as rows.
- `OnlyALoadUnpairs`: vectors and rows only come apart at a load.
- `WholeVersions`: the rows of a file, in memory or on disk, are all the chunks of one version,
  in order.
- `IndexedIsStored`: after an undisturbed walk the disk holds the text it read of each file it
  reports as indexed, and their vectors if its load was paired.
- `ReingestHeals`: a walk that indexed every file with rows in the store leaves the store paired, even if
  it loaded it torn.
- `SavesKeepFiles` (action property): a save of an undisturbed process drops no file.

Two processes are enough for every interleaving of one load or save with another save, two
files for rows of another file that must be left in place, two versions and two chunk counts
for rows that grow, shrink or only change; three starts let a process crash or end and another
load what it left while the second one works.  Processes are symmetric.  The system may stop: all
processes done and no start left, hence no deadlock check.

**`context_preparation`** (`MCContextPreparation.cfg`; about 2 300 000 states)

- `TablesAccounted`: every table is shown once, or named as left out, or one of those that are only
  counted, which happens only when the list of names is full; and none that the query names gives way
  to one brought in by a foreign key.
- `ClosureExact`: what the rounds of expansion bring in is what walks of at most `Depth` keys, in
  either direction, reach.
- `ArchitectSeesNoWorse`: while the outline keeps to its reserve, the first chunk that only one of
  Manager and Architect is given is the Architect's.

Three tables with any foreign keys make chains, cycles and self-references; a limit of two tables
cuts one, and a block may lose more.  The list of names has room for one (for 12 in the code), so that of two
tables not shown one is only counted.  Two chunks, from one file or two, of two sizes, in a
budget of four, with a reserve of two, make first fit pass over a chunk for a smaller one.  `Depth` is 2,
where 1 is configured (`config/settings.yaml:99`): with a second round there is a frontier to get
wrong, and a run that ends after one for want of more is among the behaviours.

**`conformance`** (`MCConformance.cfg`; about 4 600 000 states)

- `VerdictExact`: the verdict, found block by block, is the one defined over the whole text.  That is
  a verdict about the uses the extraction recognises: a text of nothing but `Raw` access is CONFORME.

Two blocks of two statements, over one known and one new table, two classes, two columns and
a variable, put definition, redefinition and use in every order within and across blocks, with or
without unrecognised access among them.

**`file_ingest`** (`MCFileIngest.cfg`; about 237 000 states)

- `TypeOK`.
- `StoredWhole`: what reaches the store is the whole file in order, whatever was halved, each
  text within the limit.
- `ChunksPacked`: chunks are the file, within the limit, and no two neighbours would have
  fitted in one.
- `UnitsKeptWhole`: only a unit that does not fit is cut.
- `GivesUpOnlyWhenHopeless`: the file is given up for its size only when a chunk halved
  `MAX_SPLIT_DEPTH` times, or a single character, was refused.
- `CallsBounded`: at most `2^(MAX_SPLIT_DEPTH + 1)` calls per chunk.
- `FileEnds` (liveness).

Eight characters with a limit of three make up to eight chunks, cut in all three ways; batches of
three are full, short and single, and are halved unevenly; one level of splitting a text gives
texts that are split, given up on and too short to split.

**`command_line`** (`MCCommandLine.cfg`; about 115 000 states)

- `TypeOK`.
- `ExitTellsReceipt`: exit code 0 is a completed run and 2 a partial one, both with the receipt where
  it was asked for, alone on stdout if that is JSON; 3 is no run and no output.
- `RerunsEarned`: a re-run is of the query just answered, with the breakdown and the report of an
  answer that was worth one, at most `max_macro_iterations` times per query.
- `QueryAnswered` (liveness): a query typed gets an answer or an error, or the session ends.

Three arguments are a flag, its value and a query, or any two of them out of place; two queries let
one follow a re-run of the other; a cap of 0, 1 or 2 is no re-run, one, and one although the cap would
allow another.

**`security_triage`** (`MCSecurityTriage.cfg`: a limit of 2 units, 3 per stream; about 35 000 states)

- `TypeOK`.
- `NothingLeftBehind`: while the process lives the triage has not ended and the tree is there,
  unless the cleanup itself was cut off, by Ctrl-C or an outer timeout that is not ample.
- `CompletedOnWholeOutput`: a report is read from the whole output, within the limit, of a
  process that ended with an exit code for one.
- `CaptureBounded`: two readers, one budget: at most one unit each too much.
- `TriageEnds` (liveness): with a process and children that do whatever they like, the triage
  ends, unless it was cancelled during the talk: the shielded cleanup drains without a limit.

A limit of two units and three per stream let each stream alone, or only both together, exceed
it, and be exceeded by the second reader after the first has raised.  The unit is a read, 65536
bytes or less.

**Runs that end in a violation**: claims the repository makes about itself that the code does not
meet.

| Run | Claim | Shown |
|---|---|---|
| `pipeline_receipt` | every call returns a receipt (`README.md:137`) | an answer that is not JSON, here that of the routing call, ends the call in an exception; in the model a failing embedding service and an exception of the conformance check do so too |
| `pipeline_error_stage` | a failed receipt names the stage (`docs/plan-receipt-interface-callers.md:33`, `:103`) | it names the last stage that was answered, or none |
| `vector_store_torn` | `_save` is atomic (`memory/local_memory.py:70`) | a crash between two replacements, then a load that accepts vectors and rows of two saves |
| `context_preparation_shadowed` | tables beyond the limit are listed by name, not left out in silence (`config/settings.yaml:96-97`, `context/schema/selection.py:8-9`) | a table without a schema and a later one of the same name in a schema: the block shows the second twice and does not name the first, though its list of names has room (`MaxNamed` is 2) |
| `security_triage_orphan` | on a timeout the process is killed (`docs/plan-security-advisor-antares.md:195`) | an outer timeout set close to the inner one cuts the cleanup off before SIGKILL |

Two more are findings about properties that hold, because the property says what the code does:

- `TablesAccounted`: of the tables not shown, a block names the first 12 and counts the others
  (`context/schema/render.py:101-104`), where `config/settings.yaml:96-97` has "el resto se lista por
  nombre".  Those the selection left out come first, so the tables dropped for the block's size, which the query
  may have named, are the first to go unnamed (`:100`).
- `VerdictExact`: a block of Python that parses, and whose access to data is none the extraction recognises (raw
  psycopg2, the Django ORM), has no findings and is accepted (`context/schema/conformance.py:123-176`).
  `docs/plan-schema-conformance.md:139-143` has it "reportado como no verificado, nunca aceptado en silencio", and
  `context/schema/extraction.py:18-25` leaves it to the caller to flag it, which the caller does not do.

Other places where the code does not do what its texts say, which no run of its own shows:

- The prompt of a section's revision calls the other sections approved
  (`prompts/specialized_prompts.py:137-139`); later ones were not reviewed yet and earlier ones may have
  been given up on.
- `replace_source` promises no state in which a file is deleted and not replaced
  (`memory/local_memory.py:137`), and validates after the deletion (`:150`); only the end of the command
  keeps the loss off the disk.
- A `--schema-file` or `--input-file` that is not UTF-8 ends in a traceback with exit code 1, where a
  malformed one is a usage error (`main.py:355`, `:393`).
- `--json --out` prints a note on stdout (`main.py:206`); an `--out` that cannot be written loses the receipt
  (`main.py:204`).
- With the closing report disabled, a re-run that is offered "with this report" has none
  (`main.py:247-248`).
- `max_macro_iterations` above 1 has no effect: no re-run is offered for the answer of a re-run
  (`main.py:263`, `:299`).
- A schema's block that no table name matched says that "the whole snapshot is shown"
  (`context/schema/render.py:96`), even when the limits cut it; the tables left out are named or counted below.
- An answer whose last fence is never closed is CONFORME (`context/schema/segmentation.py`), and a variable stays
  bound to the table of its last query (`context/schema/extraction.py:171`).
- `ingest` exits with 0 when files failed, or when the directory does not exist.

**Fairness** (`Pipeline`).  Weak fairness of the synchronous stages (the event loop runs what is
ready), of `Deadline` (the timer of `asyncio.wait_for`, when a cap is set) and of `Triage` (its own
timer: `TriageEnds` of `SecurityTriage` shows that it ends, under timeouts as ample as the
configured ones and without Ctrl-C).  No answer of a model or of the embedding service is
assumed: a stream that trickles resets the per-read HTTP timeout at each line.
`EventuallyEnds` is therefore stated under a run cap, which the settings have.
`VectorStore`, `ContextPreparation` and `Conformance` claim no liveness and assume no fairness.
`FileIngest` has weak fairness of its steps: the code between two calls runs on, and the embedding
client has a timeout, so that a call is answered or fails.  `CommandLine` has weak fairness of
`Runs` alone: a run ends (`EventuallyEnds` of `Pipeline`); what the user types, and when, is theirs.
`SecurityTriage` has weak fairness of what the event loop can run (`TaskStep`) and of each of its
three timers; none of the process, which may never write, never end or never let go of its pipes.

## 4. What is proved

For every value of the constants, under the assumptions of the modules: `NSections \in Nat \ {0}`,
`MaxQA \in Nat` (`Pipeline`), `BoundsAssumption` (`VectorStore`, `CommandLine`), `OutputAssumption`
(`SecurityTriage`), `TablesAssumption`, `BudgetAssumption` (`ContextPreparation`),
`LengthAssumption`, `SizesAssumption`, `SplitAssumption` (`FileIngest`).  They say only that sizes and bounds
are natural numbers, some of them not 0.  `CatalogAssumption` and `WordsAssumption`
(`ContextPreparation`) add that a catalogue is a list of tables and that a query has finitely many words;
`ConformanceAssumption` (`Conformance`) that the snapshot has a table and no class is a variable.

Two theorems have a hypothesis besides, `Unambiguous`: no table of the database has the qualified
name of another, or the bare name of one that is in a schema.  It holds of the `Shop` of the run
`context_preparation`.  Without it both are false, and this is what `context_preparation_shadowed` shows: of two
tables with one name the lookup finds the last.

| Module | Theorem | Statement |
|---|---|---|
| `PipelineProofs` | `TypeCorrect` | `Spec => []TypeOK` |
| | `VerdictOfDelivered` | `Spec => []VerdictIsOfDelivered` |
| | `CodeWithItsPlan` | `Spec => []CodeFollowsPlan` |
| | `FirstDraftReviewed` | `Spec => []FirstDraftFollowsReviewedPlan` |
| | `GateOutcomeIsTrue` | `Spec => []GateOutcomeMatchesTrace` |
| | `QACountIsTrue` | `Spec => []QACountMatchesTrace` |
| | `ReceiptTellsStages` | `Spec => []ReceiptDeclaresEveryStage` |
| | `ReentryOutlineKept` | `Spec => []ReentryKeepsOutline` |
| | `WorkIsBounded` | `Spec => []WorkBounded` |
| | `ReceiptStaysFinal` | `Spec => ReceiptIsFinal` |
| `PipelineRefinementProofs` | `PipelineImplementsContract` | `Spec => ImplementsContract` |
| `VectorStoreProofs` | `StoreTypeCorrect` | `Spec => []TypeOK` |
| | `VectorPerRow` | `Spec => []OneVectorPerRow` |
| | `ReplacingKeepsPairs` | `Spec => []OnlyALoadUnpairs` |
| | `VersionsAreWhole` | `Spec => []WholeVersions` |
| | `IndexedAreStored` | `Spec => []IndexedIsStored` |
| | `ReingestIsHealing` | `Spec => []ReingestHeals` |
| | `SavesAreKeeping` | `Spec => SavesKeepFiles` |
| `SecurityTriageProofs` | `TriageTypeCorrect` | `Spec => []TypeOK` |
| | `TriageLeavesNothing` | `Spec => []NothingLeftBehind` |
| | `ReportIsWhole` | `Spec => []CompletedOnWholeOutput` |
| | `CaptureIsBounded` | `Spec => []CaptureBounded` |
| `FileIngestProofs` | `IngestTypeCorrect` | `Spec => []TypeOK` |
| | `ChunksArePacked` | `Spec => []ChunksPacked` |
| | `FittingUnitsKept` | `Spec => []UnitsKeptWhole` |
| | `StoredIsWhole` | `Spec => []StoredWhole` |
| | `GivenUpIsHopeless` | `Spec => []GivesUpOnlyWhenHopeless` |
| | `CallsAreBounded` | `Spec => []CallsBounded` |
| `CommandLineProofs` | `CommandLineTypeCorrect` | `Spec => []TypeOK` |
| | `ExitCodeIsTrue` | `Spec => []ExitTellsReceipt` |
| | `RerunsAreEarned` | `Spec => []RerunsEarned` |
| `ContextPreparationProofs` | `ReserveServesArchitect` | `Spec => []ArchitectSeesNoWorse` |
| | `EveryTableAccounted` | `Unambiguous => (Spec => []TablesAccounted)` |
| | `ClosureIsExact` | `Unambiguous => (Spec => []ClosureExact)` |
| `ConformanceProofs` | `VerdictIsExact` | `Spec => []VerdictExact` |

**Pipeline.**  `TypeInv` adds `RevisionsLeft` to `TypeOK`: at a revision `attempt < MaxQA`, without
which `attempt + 1` would leave its range.  `CodeInv` says what must be true of the variables
so that the next entry of the trace is right: after an implementation call the current code's entry
was written from the current plan, and while the run closes, the last check of the trace is
about the current artifacts with the verdict that `qa` holds.  `GateInv` says the same of the gate: each
section passed so far has a review of its current text, an approving one as long as
the accumulated verdict is approval, and the current text of the section under review is what a
revision replaced.  Each invariant has one lemma per group of actions; appending to the trace keeps
what is said of older entries (`AppendKeepsCode`, `AppendKeepsFirstDraft`).
`ReceiptStaysFinal` needs only that a receipt exists exactly at the end, where no action but
stuttering is enabled (`FinalStep`).

Four more invariants carry the rest.  `OutcomeInv` ties what is recorded of a stage to whether the
trace holds its call; `CountInv` the loop's counter to the checks in the trace; `ReentryInv` says
where a re-entry can be; `GateTraceInv` relates the verdict that the gate has accumulated to the last
review of each closed section, which needs that an entry appended elsewhere leaves a section's
last review alone (`AppendReview`).  `WorkInv` bounds the calls made at each place of the code
(`Allowed`), so that every call still to be made is paid for.

**The refinement.**  `PipelineImplementsContract` maps each step of `Pipeline` to one of
`ReviewedRequest` or to none, action by action (`ContractStep`).  The abstract draft is the current
code's entry, and what was judged is what the last check in the trace was about; `JudgedKept` and
`JudgedByCheck` say what appending an entry does to these, and `JudgedIsCurrent` that at delivery
they agree.  It rests on `TypeInv`, `CodeInv`, `CountInv` and `WorkInv`, and on `MapInv`, which says
that code waiting for its review is not the code last reviewed.

**VectorStore.**  `StoreInv` adds to the first two properties that what is loaded, embedded and saved
are sequences, and that a process that has not looked for the files holds an empty store.  The
heart is `ReplaceKeepsPairing`: filtered with one mask, two sequences get the same length,
the number of positions kept (`MaskedLength`), whatever they hold.

The other properties need to know which elements those are.  `PositionsInOrder` says that the
`n`-th element kept comes from a position of its own, later for later `n`, and that no position is left
out; it follows from the cardinalities of the sets of positions (`PositionOfRank`, `RankOfPosition`) by the
well-ordering of the naturals.  From it, `ReplaceHolds`: a replacement leaves the other files'
versions as they are and puts the new one in place; `ReplaceAgrees`: it makes vectors and rows agree
on the file; `SourcesKept`: it loses no other file.  The invariants `HoldInv`, `WalkInv` and `KeepInv`
carry these along the walk; in each, a process is affected by another only through `disturbed`
(`HoldOthers`, `OneProcess`, `KeepOthers`).

**FileIngest.**  `CutInv` says that the chunks and the piece at hand are the file so far, `EmbedInv` that
the texts embedded, the pending batches and the chunks of later batches, in this order, are the
file: a call succeeds by moving a batch from the second to the first, a refusal replaces one batch by
two that make it up (`LinkedHalves`).  `PieceFits` is the case analysis of the three splits.

What a file may cost needs powers of two, `Power2`, which is a recursive function.  That there is one, and
that it doubles at each step, is `PowerStep`: functions that double up to `n` exist for every `n` and agree
where both are defined, each by the least counterexample, and so there is one for all of them.  `HalvingInv` then
says two things.  A text halved `d` times is less than one character longer than its chunk's share,
`size / 2^d` (`OfChunk`, kept by `HalfOfChunk`), and what is in a batch was halved as often as the batch's
depth says; so what is given up on was halved as often as allowed, or is a single character.  And there is a
budget: to each pending batch the calls that it may still cost, `Cost`, and to the chunks not yet
batched theirs; a call and the costs of the halves that it leaves are at most the cost of the whole, so that the sum,
which is written as a sequence of partial sums (`Budget`), and the calls made stay within the bound.

**CommandLine.**  `AskInv` says what is printed and run at each place of `ask`; `RerunInv` that an
offer only stands while the last run is worth it (`WorthRerun`).

**ContextPreparation.**  `AssemblyInv` says that each of the two fills is first fit of a prefix of the
chunks within its budget (`FirstFit`).  At the first chunk where they differ both have taken the same so
far, and the Architect's budget is at least the Manager's.

`SelectionInv` is about the tables.  In a database that is `Unambiguous` a name finds its table (`GetFinds`), and
names count as tables do.  That a ranking exists at all is `SortExists`, by the least size of a set without
one; the order it gives is all that is used of it.  During the expansion (`Expanding`) what is seen is what at
most as many keys as there were rounds lead to (`Near`), and no key leads out of it but from the tables of the
last round.  So a round adds what is one key further (`NearStep`), and one that finds nothing new has all that any
walk reaches, however many rounds are left (`NearClosed`).  After the cut (`Shown`), what the block shows is a prefix
of what was selected, the tables that the query names first, and the rest of the snapshot is left out, each name
once (`OrderedNames`); a table dropped from the end of the block moves from the one to the other.  `Named` is what
the rendering makes of it: the first `MaxNamed` of the names left out, and the number of the others
(`NamesCounted`).

**Conformance.**  The check reads the text once and keeps symbols; `VerdictExact` speaks of positions in the
whole text.  `ConformanceInv` ties the two: the symbols are those of the closed blocks, a class has the
table of its last model (`SymbolsInv`), and there is no violation as long as each closed block is clean
(`Clean`).  What is said of a block depends on the blocks up to it alone (`BlocksStay`), so that a block that is
closed changes nothing for the others.  For the block itself, `SymbolsJoin` is its definitions, `NamesResolve` says that
a name stands for one table, and `GroundedUses`, statement by statement, that the uses found by the check
are those that the property looks at: the last query bound to a variable is the one that no later query
of the block replaces.

**SecurityTriage.**  `TriageInv` says for each await how far the process and its readers are
(`Phases`: in a drain the process is dead, at the wait both readers are done), that a reader at the end of its
stream has read all that was or will be written (`ReadersAtEnd`), that what exceeds the limit was read
by readers that raised, one unit each (`BudgetKept`), and what a report was read from
(`ReportKept`).  The steps that break the talk off or leave the tree are instances of two lemmas,
`CleanUpStep` and `LeaveStep`.

**Model-checked only.**  Liveness (`EventuallyEnds`, `TriageNeverFailsTheRun`, `TriageEnds`, `FileEnds`,
`QueryAnswered`) is out of the prover's reach: it has no rule for fairness.  All other properties of the runs that
pass are proved.  Where one rests on an induction over data (powers of two, rankings of a set, walks, sums over a
queue) it is proved by a least counterexample, as the induction theorems of the library
cannot be applied.

## 5. Not modelled

- Prompts, logging, formatting, timestamps, token counts, the configuration snapshot, the layout of a
  rendered table and the line numbers of a chunk say nothing the properties are about.
- `add_text` and `add_batch` of the store, and `context/schema/identifiers.py`, have no caller in the
  engine.
- The ranking of `search` is floating-point arithmetic; a retrieved list is any list.
- The loop that reads a model's stream (`models/ollama_model.py`) and the HTTP exchange of the
  embedding client are one step each: an answer, a refusal, or an error.  A stream that ends without
  its `done` line and is taken for a whole answer is therefore no behaviour of its own.
- Of a schema's file, only whether it is accepted and what tables it then has.
- Table names qualified with a schema in `Conformance`: the check splits names at their first dot.
- A negative `max_qa_iterations` ends in an `AssertionError` (`core/pipeline/review_loop.py:53`); the models
  assume it is a natural number.

## 6. Plan

What is left, in this order:

1. `ModelStream` (`models/ollama_model.py`): the stream loop, its end without a `done` line, errors in the
   middle of it and the timeout per read; the abstract call that `Pipeline` uses as its specification.
2. `SecurityTriage` as a refinement of the one step that `Pipeline` takes for it, and `FileIngest` of
   the one that `VectorStore` takes.
3. Qualified table names in `Conformance`.
