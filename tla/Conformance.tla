----------------------------- MODULE Conformance -----------------------------
(***************************************************************************)
(* The check of the final implementation against the caller's schema       *)
(* (context/schema/conformance.py): the text is split at its fences        *)
(* (segmentation.py), what a block of Python defines and uses is extracted *)
(* (extraction.py), and every use is resolved against the snapshot and     *)
(* what the text has defined so far.                                       *)
(*                                                                         *)
(* The text is read line by line.  A line of code is a statement that the  *)
(* extraction knows:                                                       *)
(*    model: a class with a __tablename__ and columns                      *)
(*    query: a variable that query(arg) or select(arg) is assigned to      *)
(*    attr:  an attribute of a class or of a variable                      *)
(* one that it does not, which finds nothing:                              *)
(*    raw:   an access to data of another kind: a query in a string, an    *)
(*           ORM other than SQLAlchemy                                     *)
(* or one that breaks the parse.  Prose is left out, and so is code that   *)
(* has nothing to do with data, and table names qualified with a schema,   *)
(* whose first dot the check takes for that of the column.                 *)
(***************************************************************************)
EXTENDS Integers, Sequences

CONSTANTS
    Known,        \* the snapshot: its tables, and for each its columns
    Classes,      \* bound: names of classes
    NewTables,    \* bound: tables that a class may define besides those of the snapshot
    Columns,      \* bound: names of columns
    Vars,         \* bound: names of variables
    MaxRegions,   \* bound: blocks of the text
    MaxCode       \* bound: statements of a block

\* The check is not made against a snapshot without tables.
ASSUME ConformanceAssumption ==
    /\ DOMAIN Known # {} /\ Classes \cap Vars = {}
    /\ MaxRegions \in Nat /\ MaxCode \in Nat

VARIABLES
    pc,
    allowNew,         \* schema_grounding.allow_new_objects
    lang,             \* the language of the block that is open, "prose" outside of one
    body,             \* the statements of it so far
    broken,           \* whether it does not parse
    models,           \* the classes defined so far, with their tables
    definedTables,    \* the tables defined so far
    definedColumns,   \* the columns defined so far, with their tables
    violations,
    regions           \* every block that was closed, as it was

reading == <<lang, body, broken>>
symbols == <<models, definedTables, definedColumns>>
vars == <<pc, allowNew, reading, symbols, violations, regions>>

Langs == {"python", "sql", "untyped"}
Tables == DOMAIN Known \cup NewTables

Model(class, table, columns) ==
    [op |-> "model", name |-> class, table |-> table, columns |-> columns]
Query(var, arg) == [op |-> "query", var |-> var, arg |-> arg]
Attr(base, attr) == [op |-> "attr", base |-> base, attr |-> attr]
Raw == [op |-> "raw"]

Statements ==
    {Model(c, t, cols) : c \in Classes, t \in Tables, cols \in SUBSET Columns}
        \cup {Query(v, a) : v \in Vars, a \in Classes \cup Tables}
        \cup {Attr(b, a) : b \in Classes \cup Vars, a \in Columns}
        \cup {Raw}

Violation(type, detail) == [type |-> type, detail |-> detail]

Init ==
    /\ pc = "read"
    /\ allowNew \in BOOLEAN
    /\ lang = "prose" /\ body = <<>> /\ broken = FALSE
    /\ models = [c \in {} |-> ""]
    /\ definedTables = {} /\ definedColumns = {}
    /\ violations = {}
    /\ regions = <<>>

-----------------------------------------------------------------------------
(* segment *)

Open ==
    /\ pc = "read" /\ lang = "prose"
    /\ Len(regions) < MaxRegions
    /\ lang' \in Langs
    /\ UNCHANGED <<pc, allowNew, body, broken, symbols, violations, regions>>

ReadStatement ==
    /\ pc = "read" /\ lang = "python"
    /\ Len(body) < MaxCode /\ ~broken
    /\ \E s \in Statements : body' = Append(body, s)
    /\ UNCHANGED <<pc, allowNew, lang, broken, symbols, violations, regions>>

\* An ellipsis, a fragment, prose inside of the fence: ast.parse takes a whole block or nothing,
\* so what else the block has is left out.
ReadNonsense ==
    /\ pc = "read" /\ lang = "python"
    /\ ~broken /\ body = <<>>
    /\ broken' = TRUE
    /\ UNCHANGED <<pc, allowNew, lang, body, symbols, violations, regions>>

-----------------------------------------------------------------------------
(* extract_python: what the whole block defines comes before what it uses. *)

ModelsOf(code) == {i \in DOMAIN code : code[i].op = "model"}

LastModel(code, class) ==
    CHOOSE i \in ModelsOf(code) :
        code[i].name = class /\ \A j \in ModelsOf(code) : code[j].name = class => j <= i

\* Mutant: a block does not know the classes of the blocks before it.
ModelsWithLocal(code) ==
    [c \in {code[i].name : i \in ModelsOf(code)} |-> code[LastModel(code, c)].table]
ModelsWith(code) ==
    LET here == {code[i].name : i \in ModelsOf(code)}
    IN  [c \in DOMAIN models \cup here |->
            IF c \in here THEN code[LastModel(code, c)].table ELSE models[c]]

\* The table that a name in a query stands for: that of its class, or the name itself.
TableOf(name, classes) == IF name \in DOMAIN classes THEN classes[name] ELSE name

\* The queries assigned to name before statement i; the last of them binds it.
Bindings(code, name, i) == {j \in 1..(i - 1) : code[j].op = "query" /\ code[j].var = name}
Binding(code, name, i) == CHOOSE j \in Bindings(code, name, i) :
                              \A k \in Bindings(code, name, i) : k <= j

\* The columns used: an attribute of a class, or of a variable bound in this block.
ColumnUses(code, classes) ==
    UNION {LET base == code[i].base
           IN  IF base \in DOMAIN classes THEN {<<classes[base], code[i].attr>>}
               ELSE IF Bindings(code, base, i) # {}
                    THEN {<<TableOf(code[Binding(code, base, i)].arg, classes), code[i].attr>>}
                    ELSE {} :
           i \in {j \in DOMAIN code : code[j].op = "attr"}}
TableUses(code, classes) ==
    {TableOf(code[i].arg, classes) : i \in {j \in DOMAIN code : code[j].op = "query"}}

DefinesTables(code) == {code[i].table : i \in ModelsOf(code)}
DefinesColumns(code) == UNION {{<<code[i].table, c>> : c \in code[i].columns} : i \in ModelsOf(code)}

-----------------------------------------------------------------------------
(* check *)

KnownColumn(t, c) == t \in DOMAIN Known /\ c \in Known[t]

\* A use of a column of an unknown table is reported as the table's.
Misuses(tableUses, columnUses, tables, columns) ==
    {Violation("UNKNOWN_TABLE_REF", <<t>>) :
        t \in {u \in tableUses \cup {x[1] : x \in columnUses} : u \notin DOMAIN Known \cup tables}}
    \cup {Violation("UNKNOWN_COLUMN_REF", x) :
        x \in {y \in columnUses : /\ y[1] \in DOMAIN Known \cup tables
                                  /\ ~KnownColumn(y[1], y[2]) /\ y \notin columns}}

NewObjects(tables, columns) ==
    IF allowNew THEN {}
    ELSE {Violation("NEW_OBJECT_DEFINED", <<t>>) : t \in tables \ DOMAIN Known}
             \cup {Violation("NEW_OBJECT_DEFINED", x) : x \in {y \in columns : ~KnownColumn(y[1], y[2])}}

CloseFence ==
    /\ pc = "read" /\ lang # "prose"
    /\ regions' = Append(regions, [lang |-> lang, code |-> body, broken |-> broken])
    /\ lang' = "prose" /\ body' = <<>> /\ broken' = FALSE
    /\ UNCHANGED <<pc, allowNew>>

\* A block of SQL is not parsed, one of another or no language not looked at, and one of Python
\* that does not parse has no findings; each is reported.  A block that parses and has no
\* findings is not: ClosePython adds no violation for what the extraction does not know.
CloseUnread ==
    /\ (lang \in {"sql", "untyped"} \/ broken)
    /\ CloseFence
    /\ violations' = violations \cup
           {Violation(IF lang = "untyped" THEN "UNTYPED_REGION" ELSE "UNPARSEABLE_REGION", <<lang>>)}
    /\ UNCHANGED symbols

ClosePython ==
    /\ lang = "python" /\ ~broken
    /\ CloseFence
    /\ LET classes == ModelsWith(body)
       IN  /\ models' = classes
           /\ definedTables' = definedTables \cup DefinesTables(body)
           /\ definedColumns' = definedColumns \cup DefinesColumns(body)
           /\ violations' = violations
                  \cup NewObjects(DefinesTables(body), DefinesColumns(body))
                  \cup Misuses(TableUses(body, classes), ColumnUses(body, classes),
                               definedTables', definedColumns')

\* The end of the text.  A fence that is still open was none: what follows it is prose.
Finish ==
    /\ pc = "read"
    /\ pc' = "done"
    /\ UNCHANGED <<allowNew, reading, symbols, violations, regions>>

Ended == pc = "done" /\ UNCHANGED vars

Next ==
    \/ Open \/ ReadStatement \/ ReadNonsense \/ CloseUnread \/ ClosePython
    \/ Finish \/ Ended

Spec == Init /\ [][Next]_vars

\* Every type of violation is one that the verdict counts.
Verdict == IF violations = {} THEN "CONFORME" ELSE "NO_CONFORME"

-----------------------------------------------------------------------------
(* Properties, in terms of the closed blocks alone *)

PythonAt(r) == regions[r].lang = "python" /\ ~regions[r].broken

Statement(at) == regions[at[1]].code[at[2]]

\* The models of the class up to block r, as positions <<block, statement>>.
ModelsUpTo(class, r) ==
    {at \in (1..r) \X (1..MaxCode) :
        /\ PythonAt(at[1]) /\ at[2] \in DOMAIN regions[at[1]].code
        /\ Statement(at).op = "model" /\ Statement(at).name = class}

Later(a, b) ==
    \/ a[1] > b[1]
    \/ a[1] = b[1] /\ a[2] > b[2]

\* name stands for table t in block r.
StandsFor(name, t, r) ==
    \/ \E at \in ModelsUpTo(name, r) :
           /\ Statement(at).table = t
           /\ \A other \in ModelsUpTo(name, r) : ~Later(other, at)
    \/ ModelsUpTo(name, r) = {} /\ t = name

HasTable(t, r) ==
    \/ t \in DOMAIN Known
    \/ \E c \in Classes : \E at \in ModelsUpTo(c, r) : Statement(at).table = t
HasColumn(t, c, r) ==
    \/ KnownColumn(t, c)
    \/ \E k \in Classes : \E at \in ModelsUpTo(k, r) :
           Statement(at).table = t /\ c \in Statement(at).columns

\* Statement i of block r, as far as the extraction recognises it, uses only what is in the
\* schema or what the text defines, in a block up to its own.
Grounded(r, i) ==
    LET s == regions[r].code[i]
    IN  /\ s.op = "query" => \A t \in Tables \cup Classes : StandsFor(s.arg, t, r) => HasTable(t, r)
        /\ s.op = "attr" =>
               \A j \in 1..(i - 1) \cup {0} : \A t \in Tables \cup Classes :
                   LET bound == j > 0 /\ regions[r].code[j].op = "query" /\ regions[r].code[j].var = s.base
                       source == IF j = 0 THEN s.base ELSE regions[r].code[j].arg
                       last == \A k \in (j + 1)..(i - 1) :
                                   regions[r].code[k].op = "query" => regions[r].code[k].var # s.base
                   IN  (IF j = 0 THEN s.base \in Classes /\ ModelsUpTo(s.base, r) # {}
                        ELSE s.base \in Vars /\ bound /\ last) /\ StandsFor(source, t, r)
                           => HasTable(t, r) /\ HasColumn(t, s.attr, r)

\* CONFORME is given to a text whose closed blocks are all Python that parses, where every use
\* that the extraction recognises is of the schema or of what the text itself has defined by
\* then, and to no other (conformance.py:11-14: "add a new table and use it" is no violation;
\* segmentation.py:8-11: a block that could not be parsed is not taken for clean).
\* Recognised is the word: the access of a `Raw` statement is grounded whatever it touches, and a
\* text of nothing but raw access is CONFORME, where plan-schema-conformance.md:139-143 has it
\* "reportado como no verificado, nunca aceptado en silencio".
VerdictExact ==
    pc = "done" =>
        (Verdict = "CONFORME" <=>
            /\ \A r \in DOMAIN regions :
                   PythonAt(r) /\ \A i \in DOMAIN regions[r].code : Grounded(r, i)
            /\ ~allowNew => \A r \in DOMAIN regions : \A i \in DOMAIN regions[r].code :
                   regions[r].code[i].op = "model" =>
                       /\ regions[r].code[i].table \in DOMAIN Known
                       /\ regions[r].code[i].columns \subseteq Known[regions[r].code[i].table])
=============================================================================
