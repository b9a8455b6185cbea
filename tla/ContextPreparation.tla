------------------------- MODULE ContextPreparation -------------------------
(***************************************************************************)
(* What a run of the pipeline is told before it plans                      *)
(* (core/pipeline/context_stages.py): the tables of the caller's schema    *)
(* that matter to the query (context/schema/selection.py), rendered within *)
(* a budget (render.py), and the chunks of the vector store that fit in    *)
(* what is left, once for the Manager and, when the outline is written,    *)
(* once more for the Architect.                                            *)
(*                                                                         *)
(* A table is named by <<name>>, or <<schema, name>> if it has a schema;   *)
(* words stand for the folded tokens of a text.  Texts are their sizes.    *)
(***************************************************************************)
EXTENDS Integers, Sequences, FiniteSets

CONSTANTS
    Catalog,          \* the tables of the database, in the order they are exported
    References,       \* bound: names that a foreign key may refer to
    Words,            \* bound: words of a query
    MaxTables,        \* schema_grounding.max_tables
    Depth,            \* schema_grounding.fk_expansion_depth
    MaxNamed,         \* how many of the tables not shown the block names: 12 in the code
    Sources,          \* bound: files that chunks come from
    TopK,             \* retrieval.top_k
    MaxSize,          \* bound: size of a chunk, of the fixed blocks and of the outline
    MaxPerSource,     \* retrieval.max_chunks_per_source
    MaxContext,       \* retrieval.max_context_chars
    Reserve,          \* retrieval.breakdown_reserve_chars
    Label             \* the title that the outline's block has

ASSUME CatalogAssumption ==
    Catalog \in Seq([schema : STRING, name : STRING, columns : SUBSET STRING])
ASSUME WordsAssumption == IsFiniteSet(Words)
ASSUME TablesAssumption == MaxTables \in Nat \ {0} /\ Depth \in Nat /\ MaxNamed \in Nat
ASSUME BudgetAssumption ==
    /\ TopK \in Nat /\ MaxPerSource \in Nat /\ MaxContext \in Nat /\ Reserve \in Nat
    /\ Label \in Nat /\ MaxSize \in Nat

VARIABLES
    snapshot,   \* the tables of --schema-file, <<>> if there is none
    query,
    pc,
    strategy,   \* how the selection came about
    matched,    \* names hit by the query, the best first
    related,    \* names added by foreign keys
    frontier,   \* those of the last round
    rounds,     \* rounds of expansion left
    shown,      \* positions in the snapshot of the tables of the block
    omitted,    \* names the selection left out, in the order of the snapshot
    dropped,    \* names the block's budget cost
    named,      \* names that the block says it does not show
    more,       \* and how many others it says there are
    found,      \* the chunks retrieved, the most relevant first
    fixed,      \* size of the schema block and of the previous attempt's report
    outline,    \* size of the Manager's outline
    manager,    \* characters of chunks taken after each chunk, for the Manager
    architect,  \* and for the Architect
    ragStats    \* what the receipt says of the chunks

input == <<snapshot, query>>
selection == <<strategy, matched, related, frontier, rounds>>
block == <<shown, omitted, dropped, named, more>>
context == <<found, fixed, outline, manager, architect, ragStats>>
vars == <<input, pc, selection, block, context>>

PCs == {"schema", "expand", "render", "rag", "manager", "architect", "done"}

-----------------------------------------------------------------------------
(* SchemaSnapshot *)

Qualified(t) == IF t.schema = "" THEN <<t.name>> ELSE <<t.schema, t.name>>
Names == {Qualified(snapshot[i]) : i \in DOMAIN snapshot}

\* A table is found by its bare and by its qualified name; of two with one name, the last.
Keys(t) == {<<t.name>>, Qualified(t)}
Resolves(name) == \E i \in DOMAIN snapshot : name \in Keys(snapshot[i])
Get(name) ==
    CHOOSE i \in DOMAIN snapshot :
        /\ name \in Keys(snapshot[i])
        /\ \A j \in DOMAIN snapshot : name \in Keys(snapshot[j]) => j <= i

\* The snapshot of the first n tables of the catalogue, each with at most one foreign key.
Snapshots ==
    UNION {{[i \in 1..n |-> [schema |-> Catalog[i].schema, name |-> Catalog[i].name,
                             columns |-> Catalog[i].columns, refs |-> refs[i]]] :
                refs \in [1..n -> {{}} \cup {{r} : r \in References}]} : n \in 0..Len(Catalog)}

-----------------------------------------------------------------------------
(* select_tables *)

Init ==
    /\ snapshot \in Snapshots
    /\ query \in SUBSET Words
    /\ pc = "schema"
    /\ strategy = "none"
    /\ matched = <<>> /\ related = <<>> /\ frontier = {} /\ rounds = Depth
    /\ shown = <<>> /\ omitted = <<>> /\ dropped = <<>> /\ named = <<>> /\ more = 0
    /\ found = <<>> /\ fixed = 0 /\ outline = 0
    /\ manager = <<>> /\ architect = <<>>
    /\ ragStats = [used |-> 0, chars |-> 0]

AtMost(n, m) == IF n <= m THEN n ELSE m

\* A word of the name counts three times as much as a column, of which three count.
Score(t) ==
    3 * Cardinality(query \cap ({t.schema, t.name} \ {""}))
        + AtMost(Cardinality(query \cap t.columns), 3)

ScoreOf(name) == Score(snapshot[Get(name)])

\* A sequence of S with the higher scores first.  (Ties are alphabetical in the code.)
ByScore(S) ==
    CHOOSE s \in [1..Cardinality(S) -> S] :
        /\ \A i, j \in DOMAIN s : s[i] = s[j] => i = j
        /\ \A i, j \in DOMAIN s : i < j => ScoreOf(s[i]) >= ScoreOf(s[j])
AnyOrder(S) == CHOOSE s \in [1..Cardinality(S) -> S] : \A i, j \in DOMAIN s : s[i] = s[j] => i = j

\* The positions of R in ascending order, and the names of the tables there.
Ascending(R) ==
    CHOOSE s \in [1..Cardinality(R) -> R] : \A i, j \in DOMAIN s : i < j => s[i] < s[j]
NamesInOrder(R) == [i \in 1..Cardinality(R) |-> Qualified(snapshot[Ascending(R)[i]])]

Elements(s) == {s[i] : i \in DOMAIN s}
Prefix(s, n) == SubSeq(s, 1, AtMost(n, Len(s)))

Hits == {Qualified(snapshot[i]) : i \in {j \in DOMAIN snapshot : Score(snapshot[j]) > 0}}

NoSchema ==
    /\ pc = "schema"
    /\ snapshot = <<>>
    /\ pc' = "rag"
    /\ UNCHANGED <<input, selection, block, context>>

Match ==
    /\ pc = "schema"
    /\ Hits # {}
    /\ strategy' = "lexical"
    /\ matched' = ByScore(Hits)
    /\ frontier' = Hits
    /\ pc' = "expand"
    /\ UNCHANGED <<input, related, rounds, block, context>>

\* No word matches: the first tables of the snapshot, or none at all, as configured.
ShowAll ==
    /\ pc = "schema"
    /\ snapshot # <<>> /\ Hits = {}
    /\ strategy' = "all"
    /\ shown' = [i \in 1..AtMost(MaxTables, Len(snapshot)) |-> i]
    /\ omitted' = NamesInOrder(DOMAIN snapshot \ DOMAIN shown')
    /\ pc' = "render"
    /\ UNCHANGED <<input, matched, related, frontier, rounds, dropped, named, more, context>>

ShowNone ==
    /\ pc = "schema"
    /\ snapshot # <<>> /\ Hits = {}
    /\ pc' = "render"
    /\ UNCHANGED <<input, selection, block, context>>

Seen == Elements(matched) \cup Elements(related)

RefersTo(a, b) == \E r \in snapshot[a].refs : Resolves(r) /\ Get(r) = b

\* Mutant: only the tables that the last round refers to.
NextFrontierForward ==
    {Qualified(snapshot[j]) : j \in {k \in DOMAIN snapshot :
        \E name \in frontier : RefersTo(Get(name), k)}} \ Seen
\* The tables not seen yet that one of the last round refers to, or that refer to it.
NextFrontier ==
    {Qualified(snapshot[j]) : j \in {k \in DOMAIN snapshot :
        \E name \in frontier : RefersTo(Get(name), k) \/ RefersTo(k, Get(name))}} \ Seen

Expand ==
    /\ pc = "expand"
    /\ rounds > 0 /\ NextFrontier # {}
    /\ related' = related \o AnyOrder(NextFrontier)
    /\ frontier' = NextFrontier
    /\ rounds' = rounds - 1
    /\ UNCHANGED <<input, pc, strategy, matched, block, context>>

Kept == Prefix(matched \o related, MaxTables)

\* Mutant: only tables that were selected and cut off count as left out.
OmittedSelected ==
    {i \in DOMAIN snapshot : Qualified(snapshot[i]) \in Elements(matched \o related) \ Elements(Kept)}
Omitted == {i \in DOMAIN snapshot : Qualified(snapshot[i]) \notin Elements(Kept)}

Cut ==
    /\ pc = "expand"
    /\ rounds = 0 \/ NextFrontier = {}
    /\ shown' = [i \in DOMAIN Kept |-> Get(Kept[i])]
    /\ omitted' = NamesInOrder(Omitted)
    /\ pc' = "render"
    /\ UNCHANGED <<input, selection, dropped, named, more, context>>

-----------------------------------------------------------------------------
(* render_schema_block *)

\* The block is too long, whatever its tables' lengths: its last table goes, but never the only
\* one.
Drop ==
    /\ pc = "render"
    /\ Len(shown) > 1
    /\ dropped' = <<Qualified(snapshot[shown[Len(shown)]])>> \o dropped
    /\ shown' = SubSeq(shown, 1, Len(shown) - 1)
    /\ UNCHANGED <<input, pc, selection, omitted, named, more, context>>

NotShown == omitted \o dropped

\* The block names the first of the tables that it does not show, and counts the others.  (It is
\* written anew after each Drop: what is kept is its last form.)
Rendered ==
    /\ pc = "render"
    /\ named' = Prefix(NotShown, MaxNamed)
    /\ more' = Len(NotShown) - Len(named')
    /\ pc' = "rag"
    /\ UNCHANGED <<input, selection, shown, omitted, dropped, context>>

-----------------------------------------------------------------------------
(* RagContextStage, ContextAssemblyStage *)

Chunks == [source : Sources, size : 1..MaxSize]

\* A query too large to embed retrieves nothing.  (Any other failure ends the run: Pipeline.)
Retrieve ==
    /\ pc = "rag"
    /\ \E n \in 0..TopK : found' \in [1..n -> Chunks]
    /\ fixed' \in 0..MaxSize
    /\ pc' = "manager"
    /\ UNCHANGED <<input, selection, block, outline, manager, architect, ragStats>>

\* At most MaxPerSource chunks of one file, its most relevant ones.
Eligible(i) ==
    Cardinality({j \in 1..(i - 1) : found[j].source = found[i].source}) < MaxPerSource

\* An empty outline has no block.
OutlineBlock == IF outline = 0 THEN 0 ELSE Label + outline

\* Mutant: nothing is kept back for the outline.
ManagerBudgetUnreserved == MaxContext - fixed
ManagerBudget == MaxContext - fixed - Reserve
ArchitectBudget == MaxContext - fixed - OutlineBlock

LastOf(s) == IF s = <<>> THEN 0 ELSE s[Len(s)]

\* What is taken with the next chunk: first fit, a chunk that does not fit is passed over.
Fill(taken, budget) ==
    LET i == Len(taken) + 1
        with == LastOf(taken) + found[i].size
    IN  IF Eligible(i) /\ with <= budget THEN with ELSE LastOf(taken)

FillForManager ==
    /\ pc = "manager"
    /\ Len(manager) < Len(found)
    /\ manager' = Append(manager, Fill(manager, ManagerBudget))
    /\ UNCHANGED <<input, pc, selection, block, found, fixed, outline, architect, ragStats>>

\* The Manager writes its outline, or a re-run brings it.
Outline ==
    /\ pc = "manager"
    /\ Len(manager) = Len(found)
    /\ outline' \in 0..MaxSize
    /\ pc' = "architect"
    /\ UNCHANGED <<input, selection, block, found, fixed, manager, architect, ragStats>>

FillForArchitect ==
    /\ pc = "architect"
    /\ Len(architect) < Len(found)
    /\ architect' = Append(architect, Fill(architect, ArchitectBudget))
    /\ UNCHANGED <<input, pc, selection, block, found, fixed, outline, manager, ragStats>>

Before(s, i) == IF i = 1 THEN 0 ELSE s[i - 1]
Taken(s) == {i \in DOMAIN s : s[i] > Before(s, i)}

\* The receipt is told of the second assembly.
Assembled ==
    /\ pc = "architect"
    /\ Len(architect) = Len(found)
    /\ ragStats' = [used |-> Cardinality(Taken(architect)), chars |-> LastOf(architect)]
    /\ pc' = "done"
    /\ UNCHANGED <<input, selection, block, found, fixed, outline, manager, architect>>

Ended == pc = "done" /\ UNCHANGED vars

Schema == NoSchema \/ Match \/ ShowAll \/ ShowNone \/ Expand \/ Cut \/ Drop \/ Rendered
Assembly == Retrieve \/ FillForManager \/ Outline \/ FillForArchitect \/ Assembled
Next == Schema \/ Assembly \/ Ended

Spec == Init /\ [][Next]_vars

-----------------------------------------------------------------------------
(* Properties *)

AfterSelection == pc \notin {"schema", "expand"}
AfterRendering == AfterSelection /\ pc # "render"

\* The block accounts for every table of the snapshot: each is shown, once, or named among those
\* that "exist in the database, details unavailable here" (render.py:106), or one of those the
\* block only counts ("+N more"), which are so only when MaxNamed others are named.  None is
\* both shown and named: a table that is silently missing is one the model invents
\* (selection.py:7-9).  And none that the query names gives way to one that only a foreign key
\* brought in.
TablesAccounted ==
    AfterRendering /\ strategy # "none" =>
        LET listed == {Qualified(snapshot[i]) : i \in Elements(shown)}
        IN  /\ Elements(named) \subseteq Names \ listed
            /\ Cardinality(listed) = Len(shown)
            /\ Cardinality(listed) + Cardinality(Elements(named)) + more = Len(snapshot)
            /\ more # 0 => Cardinality(Elements(named)) = MaxNamed
            /\ Elements(matched) \subseteq listed \/ listed \cap Elements(related) = {}

\* A walk along foreign keys, in either direction, from table a to table b in n steps.
Walk(a, b, n) ==
    \E path \in [0..n -> DOMAIN snapshot] :
        /\ path[0] = a /\ path[n] = b
        /\ \A i \in 1..n : RefersTo(path[i - 1], path[i]) \/ RefersTo(path[i], path[i - 1])

\* The tables brought in by foreign keys are those at most Depth keys away from one that the
\* query names, no others, and each once (selection.py:149-172).
ClosureExact ==
    AfterSelection /\ matched # <<>> =>
        /\ Elements(related) =
               {Qualified(snapshot[b]) : b \in {k \in DOMAIN snapshot :
                   /\ Score(snapshot[k]) = 0
                   /\ \E a \in DOMAIN snapshot : \E n \in 1..Depth :
                          Score(snapshot[a]) > 0 /\ Walk(a, k, n)}}
        /\ Cardinality(Elements(related)) = Len(related)

\* As long as the outline keeps to its reserve, the Architect's chunks are at least as good as
\* the Manager's: the first one that only one of them sees is the Architect's
\* (context_stages.py:168-199, settings.yaml:86-88).
ArchitectSeesNoWorse ==
    pc = "done" /\ OutlineBlock <= Reserve =>
        \A i \in DOMAIN found :
            (\A j \in 1..(i - 1) : architect[j] = manager[j]) => architect[i] >= manager[i]
=============================================================================
