--------------------------- MODULE ConformanceProofs ---------------------------
(***************************************************************************)
(* Proofs about the conformance check: for every snapshot, and for texts   *)
(* of any length, the verdict is CONFORME exactly when each closed block   *)
(* parses and no use that the extraction recognises in it is of anything   *)
(* but the schema and what the text has defined by then.                   *)
(*                                                                         *)
(* The check reads the text once and keeps symbols; the property speaks of *)
(* positions in the whole text.  The invariant ties the two: the symbols   *)
(* are those of the closed blocks, a class has the table of its last       *)
(* model, and there is no violation as long as each closed block is clean. *)
(***************************************************************************)
EXTENDS Conformance, SequenceTheorems, FiniteSetTheorems, TLAPS

-----------------------------------------------------------------------------
(* The invariant *)

Regions == [lang : Langs, code : Seq(Statements), broken : BOOLEAN]

TypeOK ==
    /\ allowNew \in BOOLEAN
    /\ lang \in Langs \cup {"prose"} /\ broken \in BOOLEAN
    /\ body \in Seq(Statements) /\ Len(body) <= MaxCode
    /\ regions \in Seq(Regions)
    /\ \A r \in DOMAIN regions : Len(regions[r].code) <= MaxCode

\* The last of the models of a class.
LastOf(class, at) ==
    at \in ModelsUpTo(class, Len(regions))
        /\ \A other \in ModelsUpTo(class, Len(regions)) : ~Later(other, at)

Defines(t) ==
    \E c \in Classes : \E at \in ModelsUpTo(c, Len(regions)) : Statement(at).table = t
DefinesColumn(t, col) ==
    \E c \in Classes : \E at \in ModelsUpTo(c, Len(regions)) :
        Statement(at).table = t /\ col \in Statement(at).columns

\* The symbols are those of the closed blocks, and a class has the table of its last model.
SymbolsInv ==
    /\ \A c : c \in DOMAIN models <=> ModelsUpTo(c, Len(regions)) # {}
    /\ \A c \in DOMAIN models :
           \E at \in ModelsUpTo(c, Len(regions)) :
               LastOf(c, at) /\ Statement(at).table = models[c]
    /\ \A t : t \in definedTables <=> Defines(t)
    /\ \A x : x \in definedColumns <=>
                 \E t \in Tables, col \in Columns : x = <<t, col>> /\ DefinesColumn(t, col)

\* Block r uses only what there is, and defines nothing new unless that is allowed.
Clean(r) ==
    /\ PythonAt(r) /\ \A i \in DOMAIN regions[r].code : Grounded(r, i)
    /\ ~allowNew => \A i \in DOMAIN regions[r].code :
           regions[r].code[i].op = "model" =>
               /\ regions[r].code[i].table \in DOMAIN Known
               /\ regions[r].code[i].columns \subseteq Known[regions[r].code[i].table]

ConformanceInv ==
    /\ TypeOK
    /\ SymbolsInv
    /\ violations = {} <=> \A r \in DOMAIN regions : Clean(r)

-----------------------------------------------------------------------------
(* Statements, and the last of several *)

LEMMA StatementKinds ==
    ASSUME NEW s \in Statements
    PROVE  /\ s.op = "model" => /\ s.name \in Classes /\ s.table \in Tables
                                /\ s.columns \in SUBSET Columns
           /\ s.op = "query" => s.var \in Vars /\ s.arg \in Classes \cup Tables
           /\ s.op = "attr" => s.base \in Classes \cup Vars /\ s.attr \in Columns
<1>1. CASE \E c \in Classes, t \in Tables, cols \in SUBSET Columns : s = Model(c, t, cols)
  BY <1>1 DEF Model
<1>2. CASE \E v \in Vars, a \in Classes \cup Tables : s = Query(v, a)
  BY <1>2 DEF Query
<1>3. CASE \E b \in Classes \cup Vars, a \in Columns : s = Attr(b, a)
  BY <1>3 DEF Attr
<1>4. CASE s = Raw
  BY <1>4 DEF Raw
<1> QED BY <1>1, <1>2, <1>3, <1>4 DEF Statements

LEMMA GreatestOf ==
    ASSUME NEW n \in Nat, NEW S \in SUBSET (1..n), S # {}
    PROVE  \E m \in S : \A k \in S : k <= m
<1> DEFINE D == {n - k : k \in S}
<1>1. D \subseteq Nat /\ D # {}
  <2>1. \A k \in S : k \in Nat /\ n - k \in Nat
    OBVIOUS
  <2>2. PICK k \in S : TRUE
    OBVIOUS
  <2>3. n - k \in D
    OBVIOUS
  <2>4. \A d \in D : d \in Nat
    BY <2>1
  <2> QED BY <2>3, <2>4
<1>2. PICK d \in D : \A e \in D : <<e, d>> \notin OpToRel(<, Nat)
  BY <1>1, NatLessThanWellFounded, WFMin
<1>3. \A e \in D : ~ (e < d)
  BY <1>1, <1>2 DEF OpToRel
<1>4. PICK m \in S : d = n - m
  OBVIOUS
<1>5. ASSUME NEW k \in S PROVE k <= m
  <2>1. n - k \in D /\ k \in Nat /\ m \in Nat
    OBVIOUS
  <2> HIDE DEF D
  <2> QED BY <1>3, <1>4, <2>1
<1> QED BY <1>5

\* The last of the models of a class, and the last assignment to a variable.
LEMMA LastModelIs ==
    ASSUME NEW code \in Seq(Statements), NEW c, NEW i \in ModelsOf(code), code[i].name = c
    PROVE  /\ LastModel(code, c) \in ModelsOf(code) /\ code[LastModel(code, c)].name = c
           /\ \A j \in ModelsOf(code) : code[j].name = c => j <= LastModel(code, c)
<1> DEFINE S == {j \in ModelsOf(code) : code[j].name = c}
<1>1. Len(code) \in Nat /\ S \in SUBSET (1..Len(code)) /\ S # {}
  BY DEF ModelsOf
<1>2. PICK m \in S : \A k \in S : k <= m
  <2> HIDE DEF S
  <2> QED BY <1>1, GreatestOf
<1>3. /\ m \in ModelsOf(code) /\ code[m].name = c
      /\ \A j \in ModelsOf(code) : code[j].name = c => j <= m
  BY <1>2
<1> HIDE DEF S
<1> QED BY <1>3 DEF LastModel

LEMMA BindingIs ==
    ASSUME NEW code \in Seq(Statements), NEW name, NEW i \in DOMAIN code,
           Bindings(code, name, i) # {}
    PROVE  /\ Binding(code, name, i) \in Bindings(code, name, i)
           /\ \A k \in Bindings(code, name, i) : k <= Binding(code, name, i)
           /\ Bindings(code, name, i) \subseteq DOMAIN code
<1> DEFINE S == Bindings(code, name, i)
<1>1. Len(code) \in Nat /\ i \in 1..Len(code) /\ DOMAIN code = 1..Len(code)
  OBVIOUS
<1>2. S \in SUBSET (1..Len(code))
  BY <1>1 DEF Bindings
<1>3. PICK m \in S : \A k \in S : k <= m
  <2> HIDE DEF S
  <2> QED BY <1>1, <1>2, GreatestOf DEF S
<1> QED BY <1>1, <1>2, <1>3 DEF Binding

-----------------------------------------------------------------------------
(* What the symbols say of the last block *)

\* Of the models of a class one is the last.
LEMMA LastIsOne ==
    ASSUME NEW n, NEW S \in SUBSET ((1..n) \X (1..MaxCode)), NEW a \in S, NEW b \in S,
           ~Later(a, b), ~Later(b, a)
    PROVE  a = b
<1>1. PICK i \in 1..n, j \in 1..MaxCode : a = <<i, j>>
  OBVIOUS
<1>2. PICK k \in 1..n, l \in 1..MaxCode : b = <<k, l>>
  OBVIOUS
<1>3. i = k
  BY <1>1, <1>2 DEF Later
<1>4. j = l
  BY <1>1, <1>2, <1>3 DEF Later
<1> QED BY <1>1, <1>2, <1>3, <1>4

\* A name stands for one table: that of its class, or its own.
LEMMA NamesResolve ==
    TypeOK /\ SymbolsInv =>
        \A name, t : StandsFor(name, t, Len(regions)) <=> t = TableOf(name, models)
<1> SUFFICES ASSUME TypeOK, SymbolsInv, NEW name, NEW t
             PROVE  StandsFor(name, t, Len(regions)) <=> t = TableOf(name, models)
  OBVIOUS
<1> DEFINE R == Len(regions)
           M == ModelsUpTo(name, R)
<1>1. M \in SUBSET ((1..R) \X (1..MaxCode))
  BY DEF ModelsUpTo
<1>2. name \in DOMAIN models <=> M # {}
  BY DEF SymbolsInv
<1>3. StandsFor(name, t, R) <=>
          \/ \E at \in M : Statement(at).table = t /\ \A other \in M : ~Later(other, at)
          \/ M = {} /\ t = name
  BY DEF StandsFor
<1>4. CASE M # {}
  <2>1. PICK at \in M : (\A other \in M : ~Later(other, at)) /\ Statement(at).table = models[name]
    BY <1>2, <1>4 DEF SymbolsInv, LastOf
  <2>2. TableOf(name, models) = Statement(at).table
    BY <1>2, <1>4, <2>1 DEF TableOf
  <2>3. ASSUME NEW a \in M, \A other \in M : ~Later(other, a) PROVE a = at
    <3>1. ~Later(a, at) /\ ~Later(at, a)
      BY <2>1, <2>3
    <3> HIDE DEF M, R
    <3> QED BY <1>1, <3>1, LastIsOne
  <2> HIDE DEF M, R
  <2> QED BY <1>3, <1>4, <2>1, <2>2, <2>3 DEF R
<1>5. CASE M = {}
  <2> HIDE DEF M, R
  <2> QED BY <1>2, <1>3, <1>5 DEF TableOf, R
<1> QED BY <1>4, <1>5

LEMMA SymbolsKnow ==
    SymbolsInv =>
        /\ \A t : HasTable(t, Len(regions)) <=> t \in DOMAIN Known \cup definedTables
        /\ \A t \in Tables, col \in Columns :
               HasColumn(t, col, Len(regions)) <=>
                   KnownColumn(t, col) \/ <<t, col>> \in definedColumns
<1> SUFFICES ASSUME SymbolsInv
             PROVE  /\ \A t : HasTable(t, Len(regions)) <=> t \in DOMAIN Known \cup definedTables
                    /\ \A t \in Tables, col \in Columns :
                           HasColumn(t, col, Len(regions)) <=>
                               KnownColumn(t, col) \/ <<t, col>> \in definedColumns
  OBVIOUS
<1>1. \A t : HasTable(t, Len(regions)) <=> t \in DOMAIN Known \/ Defines(t)
  BY DEF HasTable, Defines
<1>2. \A t, col : HasColumn(t, col, Len(regions)) <=> KnownColumn(t, col) \/ DefinesColumn(t, col)
  BY DEF HasColumn, DefinesColumn
<1>3. \A t : t \in definedTables <=> Defines(t)
  BY DEF SymbolsInv
<1>4. \A t \in Tables, col \in Columns : <<t, col>> \in definedColumns <=> DefinesColumn(t, col)
  BY DEF SymbolsInv
<1>5. \A t : HasTable(t, Len(regions)) <=> t \in DOMAIN Known \cup definedTables
  BY <1>1, <1>3
<1> QED BY <1>2, <1>4, <1>5

\* What a statement uses: the table of a query, the column of an attribute.
QueryOf(code, i) == TableOf(code[i].arg, models)
UsedBy(code, i) ==
    LET base == code[i].base
    IN  IF base \in DOMAIN models THEN {<<models[base], code[i].attr>>}
        ELSE IF Bindings(code, base, i) # {}
             THEN {<<TableOf(code[Binding(code, base, i)].arg, models), code[i].attr>>}
             ELSE {}

LEMMA SymbolsTyped ==
    ASSUME TypeOK, SymbolsInv
    PROVE  /\ DOMAIN models \subseteq Classes /\ \A c \in DOMAIN models : models[c] \in Tables
           /\ \A name \in Classes \cup Tables : TableOf(name, models) \in Tables \cup Classes
           /\ definedTables \subseteq Tables
<1> DEFINE R == Len(regions)
<1>1. ASSUME NEW c, NEW at \in ModelsUpTo(c, R) PROVE c \in Classes /\ Statement(at).table \in Tables
  <2>1. /\ at \in (1..R) \X (1..MaxCode) /\ at[2] \in DOMAIN regions[at[1]].code
        /\ Statement(at).op = "model" /\ Statement(at).name = c
    BY DEF ModelsUpTo
  <2>2. at[1] \in DOMAIN regions
    BY <2>1 DEF TypeOK
  <2>3. regions[at[1]] \in Regions
    BY <2>2 DEF TypeOK
  <2>4. regions[at[1]].code \in Seq(Statements)
    BY <2>3 DEF Regions
  <2>5. Statement(at) \in Statements
    BY <2>1, <2>4, ElementOfSeq DEF Statement
  <2> QED BY <2>1, <2>5, StatementKinds
<1>2. ASSUME NEW c \in DOMAIN models PROVE c \in Classes /\ models[c] \in Tables
  <2>1. PICK at \in ModelsUpTo(c, R) : Statement(at).table = models[c]
    BY DEF SymbolsInv
  <2> QED BY <1>1, <2>1
<1>3. ASSUME NEW name \in Classes \cup Tables PROVE TableOf(name, models) \in Tables \cup Classes
  BY <1>2 DEF TableOf
<1>4. ASSUME NEW t \in definedTables PROVE t \in Tables
  BY <1>1 DEF SymbolsInv, Defines
<1> QED BY <1>2, <1>3, <1>4

\* A statement of the last block is grounded if and only if the symbols have what it uses.
LEMMA GroundedUses ==
    ASSUME TypeOK, SymbolsInv, Len(regions) > 0,
           NEW i \in DOMAIN regions[Len(regions)].code
    PROVE  LET code == regions[Len(regions)].code
           IN  Grounded(Len(regions), i) <=>
                   /\ code[i].op = "query" =>
                          QueryOf(code, i) \in DOMAIN Known \cup definedTables
                   /\ code[i].op = "attr" =>
                          \A x \in UsedBy(code, i) :
                              /\ x[1] \in DOMAIN Known \cup definedTables
                              /\ KnownColumn(x[1], x[2]) \/ x \in definedColumns
<1> DEFINE R == Len(regions)
           code == regions[R].code
           s == code[i]
           Has(t) == t \in DOMAIN Known \cup definedTables
           HasCol(t, col) == KnownColumn(t, col) \/ <<t, col>> \in definedColumns
<1>1. R \in Nat /\ R \in DOMAIN regions
  BY DEF TypeOK
<1>2. regions[R] \in Regions
  BY <1>1, ElementOfSeq DEF TypeOK
<1>3. code \in Seq(Statements)
  BY <1>2 DEF Regions
<1>4. s \in Statements
  BY <1>3, ElementOfSeq
<1>5. \A name, t : StandsFor(name, t, R) <=> t = TableOf(name, models)
  BY NamesResolve
<1>6. /\ \A t : HasTable(t, R) <=> Has(t)
      /\ \A t \in Tables, col \in Columns : HasColumn(t, col, R) <=> HasCol(t, col)
  BY SymbolsKnow
<1>7. /\ DOMAIN models \subseteq Classes /\ \A c \in DOMAIN models : models[c] \in Tables
      /\ \A name \in Classes \cup Tables : TableOf(name, models) \in Tables \cup Classes
      /\ definedTables \subseteq Tables
  BY SymbolsTyped
<1> DEFINE QueryGrounded == \A t \in Tables \cup Classes : StandsFor(s.arg, t, R) => HasTable(t, R)
           Source(j) == IF j = 0 THEN s.base ELSE code[j].arg
           Names(j) ==
               IF j = 0 THEN s.base \in Classes /\ ModelsUpTo(s.base, R) # {}
               ELSE /\ s.base \in Vars /\ j > 0 /\ code[j].op = "query" /\ code[j].var = s.base
                    /\ \A k \in (j + 1)..(i - 1) : code[k].op = "query" => code[k].var # s.base
           AttrGrounded ==
               \A j \in 1..(i - 1) \cup {0} : \A t \in Tables \cup Classes :
                   Names(j) /\ StandsFor(Source(j), t, R) => HasTable(t, R) /\ HasColumn(t, s.attr, R)
<1>8. Grounded(R, i) <=> (s.op = "query" => QueryGrounded) /\ (s.op = "attr" => AttrGrounded)
  BY Zenon DEF Grounded
<1>9. ASSUME s.op = "query" PROVE QueryGrounded <=> Has(QueryOf(code, i))
  <2>1. s.arg \in Classes \cup Tables
    BY <1>4, <1>9, StatementKinds
  <2>2. TableOf(s.arg, models) \in Tables \cup Classes
    BY <1>7, <2>1
  <2> HIDE DEF Has, s, code, R
  <2>3. QueryGrounded <=> Has(TableOf(s.arg, models))
    BY <1>5, <1>6, <2>2
  <2> QED BY <2>3 DEF QueryOf, s
<1>10. ASSUME s.op = "attr"
       PROVE  AttrGrounded <=> \A x \in UsedBy(code, i) :
                                   Has(x[1]) /\ (KnownColumn(x[1], x[2]) \/ x \in definedColumns)
  <2> DEFINE attr == s.attr
             base == s.base
             Good(t) == Has(t) /\ HasCol(t, attr)
             B == Bindings(code, base, i)
  <2>1. base \in Classes \cup Vars /\ attr \in Columns
    BY <1>4, <1>10, StatementKinds
  <2>2. \A t : HasTable(t, R) /\ HasColumn(t, attr, R) <=> Good(t)
    <3>1. \A t : Has(t) => t \in Tables
      BY <1>7 DEF Tables
    <3> HIDE DEF Has, HasCol, attr, R
    <3> QED BY <1>6, <2>1, <3>1
  <2>3. ASSUME NEW j \in 1..(i - 1) \cup {0}, Names(j)
        PROVE  TableOf(Source(j), models) \in Tables \cup Classes
    <3>1. CASE j = 0
      BY <1>7, <2>3, <3>1
    <3>2. CASE j # 0
      <4>1. code[j].op = "query" /\ j \in DOMAIN code
        BY <1>3, <2>3, <3>2
      <4>2. code[j] \in Statements
        BY <1>3, <4>1, ElementOfSeq
      <4>3. code[j].arg \in Classes \cup Tables
        BY <4>1, <4>2, StatementKinds
      <4> QED BY <1>7, <3>2, <4>3
    <3> QED BY <3>1, <3>2
  <2>4. AttrGrounded <=> \A j \in 1..(i - 1) \cup {0} : Names(j) => Good(TableOf(Source(j), models))
    <3> HIDE DEF Names, Source, Good, R, s
    <3> QED BY <1>5, <2>2, <2>3 DEF s
  <2>5. UsedBy(code, i) =
            IF base \in DOMAIN models THEN {<<models[base], attr>>}
            ELSE IF B # {} THEN {<<TableOf(code[Binding(code, base, i)].arg, models), attr>>} ELSE {}
    BY DEF UsedBy
  <2>6. base \in DOMAIN models <=> ModelsUpTo(base, R) # {}
    BY DEF SymbolsInv
  <2>7. i \in Nat /\ i \in DOMAIN code
    BY <1>3
  <2>8. B = {j \in 1..(i - 1) : code[j].op = "query" /\ code[j].var = base}
    BY DEF Bindings
  <2> HIDE DEF B
  <2>9. CASE base \in DOMAIN models
    <3>1. base \in Classes /\ base \notin Vars
      BY <1>7, <2>9, ConformanceAssumption
    <3>2. Names(0) /\ \A j \in 1..(i - 1) : ~Names(j)
      BY <2>6, <2>7, <2>9, <3>1
    <3>3. Source(0) = base /\ TableOf(base, models) = models[base]
      BY <2>9 DEF TableOf
    <3> HIDE DEF Names, Source, Good, code, s
    <3>4. AttrGrounded <=> Good(models[base])
      BY <2>4, <3>2, <3>3
    <3>5. UsedBy(code, i) = {<<models[base], attr>>}
      BY <2>5, <2>9
    <3> HIDE DEF base, attr, AttrGrounded
    <3> QED BY <3>4, <3>5 DEF Good
  <2>10. CASE base \notin DOMAIN models /\ B = {}
    <3>1. \A j \in 1..(i - 1) \cup {0} : ~Names(j)
      BY <2>6, <2>7, <2>8, <2>10
    <3>2. UsedBy(code, i) = {}
      BY <2>5, <2>10
    <3> HIDE DEF Names, Source, Good, AttrGrounded
    <3> QED BY <2>4, <3>1, <3>2
  <2>11. CASE base \notin DOMAIN models /\ B # {}
    <3> DEFINE b == Binding(code, base, i)
    <3>1. b \in B /\ \A k \in B : k <= b
      BY <1>3, <2>7, <2>11, BindingIs DEF B
    <3> HIDE DEF b
    <3>2. b \in 1..(i - 1) /\ b > 0 /\ code[b].op = "query" /\ code[b].var = base
      BY <2>7, <2>8, <3>1
    <3>3. base \in Vars
      <4>1. b \in DOMAIN code
        BY <1>3, <2>7, <3>2
      <4>2. code[b] \in Statements
        BY <1>3, <4>1, ElementOfSeq
      <4> QED BY <3>2, <4>2, StatementKinds
    <3>4. Names(b)
      <4>1. ASSUME NEW k \in (b + 1)..(i - 1), code[k].op = "query" PROVE code[k].var # base
        <5>1. k \in 1..(i - 1) /\ ~ (k <= b)
          BY <2>7, <3>2
        <5> QED BY <2>8, <3>1, <4>1, <5>1
      <4> QED BY <3>2, <3>3, <4>1
    <3>5. ASSUME NEW j \in 1..(i - 1) \cup {0}, Names(j) PROVE j = b
      <4>1. j # 0
        BY <2>6, <2>11, <3>5
      <4>2. j \in 1..(i - 1) /\ j \in B
        BY <2>8, <3>5, <4>1
      <4>3. j <= b /\ ~ (b \in (j + 1)..(i - 1))
        BY <3>1, <3>2, <3>5, <4>1, <4>2
      <4> QED BY <2>7, <3>2, <4>2, <4>3
    <3>6. Source(b) = code[b].arg /\ b \in 1..(i - 1) \cup {0}
      BY <3>2
    <3> DEFINE t == TableOf(code[b].arg, models)
    <3>7. UsedBy(code, i) = {<<t, attr>>}
      BY <2>5, <2>11 DEF b
    <3> HIDE DEF Names, Source, Good
    <3>8. AttrGrounded <=> Good(t)
      BY <2>4, <3>4, <3>5, <3>6
    <3> HIDE DEF t, attr, AttrGrounded
    <3> QED BY <3>7, <3>8 DEF Good
  <2> QED BY <2>9, <2>10, <2>11
<1> HIDE DEF QueryGrounded, AttrGrounded, s, code
<1> QED BY <1>8, <1>9, <1>10 DEF s, code

\* The last block misuses nothing if and only if each of its statements is grounded.
LEMMA MisusesNothing ==
    TypeOK /\ SymbolsInv /\ Len(regions) > 0 =>
        (Misuses(TableUses(regions[Len(regions)].code, models),
                 ColumnUses(regions[Len(regions)].code, models), definedTables, definedColumns) = {}
            <=> \A i \in DOMAIN regions[Len(regions)].code : Grounded(Len(regions), i))
<1> SUFFICES ASSUME TypeOK, SymbolsInv, Len(regions) > 0
             PROVE  Misuses(TableUses(regions[Len(regions)].code, models),
                            ColumnUses(regions[Len(regions)].code, models),
                            definedTables, definedColumns) = {}
                        <=> \A i \in DOMAIN regions[Len(regions)].code : Grounded(Len(regions), i)
  OBVIOUS
<1> DEFINE R == Len(regions)
           code == regions[R].code
           tables == TableUses(code, models)
           columns == ColumnUses(code, models)
           queries == {i \in DOMAIN code : code[i].op = "query"}
           attrs == {i \in DOMAIN code : code[i].op = "attr"}
           Has(t) == t \in DOMAIN Known \cup definedTables
           Fine(x) == Has(x[1]) /\ (KnownColumn(x[1], x[2]) \/ x \in definedColumns)
<1>1. \A i \in DOMAIN code :
          Grounded(R, i) <=> /\ i \in queries => Has(QueryOf(code, i))
                             /\ i \in attrs => \A x \in UsedBy(code, i) : Fine(x)
  BY GroundedUses
<1>2. tables = {QueryOf(code, i) : i \in queries}
  BY DEF TableUses, QueryOf
<1>3. columns = UNION {UsedBy(code, i) : i \in attrs}
  BY DEF ColumnUses, UsedBy
<1> HIDE DEF code, tables, columns
<1>4. Misuses(tables, columns, definedTables, definedColumns) = {} <=>
          (\A t \in tables : Has(t)) /\ (\A x \in columns : Fine(x))
  <2> DEFINE unknown == {u \in tables \cup {x[1] : x \in columns} :
                             u \notin DOMAIN Known \cup definedTables}
             missing == {y \in columns : /\ y[1] \in DOMAIN Known \cup definedTables
                                         /\ ~KnownColumn(y[1], y[2]) /\ y \notin definedColumns}
  <2>1. Misuses(tables, columns, definedTables, definedColumns) = {} <=> unknown = {} /\ missing = {}
    BY DEF Misuses
  <2>2. unknown = {} <=> (\A t \in tables : Has(t)) /\ (\A x \in columns : Has(x[1]))
    OBVIOUS
  <2>3. missing = {} <=> \A x \in columns : Has(x[1]) => KnownColumn(x[1], x[2]) \/ x \in definedColumns
    OBVIOUS
  <2> HIDE DEF unknown, missing, Has
  <2> QED BY <2>1, <2>2, <2>3
<1>5. (\A t \in tables : Has(t)) <=> \A i \in queries : Has(QueryOf(code, i))
  BY <1>2
<1>6. (\A x \in columns : Fine(x)) <=> \A i \in attrs : \A x \in UsedBy(code, i) : Fine(x)
  <2> HIDE DEF Fine, attrs
  <2> QED BY <1>3
<1> HIDE DEF Has, Fine
<1>7. Misuses(tables, columns, definedTables, definedColumns) = {}
          <=> \A i \in DOMAIN code : Grounded(R, i)
  BY <1>1, <1>4, <1>5, <1>6
<1> QED BY <1>7 DEF code, tables, columns

-----------------------------------------------------------------------------
(* The steps *)

\* What is said of a block depends on the blocks up to it alone.
LEMMA BlocksStay ==
    ASSUME NEW n \in Nat, \A r \in 1..n : regions'[r] = regions[r], UNCHANGED allowNew
    PROVE  /\ \A at : at[1] \in 1..n => Statement(at)' = Statement(at)
           /\ \A c : ModelsUpTo(c, n)' = ModelsUpTo(c, n)
           /\ \A r \in 1..n : Clean(r)' <=> Clean(r)
<1>1. \A at : at[1] \in 1..n => Statement(at)' = Statement(at)
  BY DEF Statement
<1>2. \A r \in 1..n : PythonAt(r)' <=> PythonAt(r)
  BY DEF PythonAt
<1>3. ASSUME NEW c, NEW r \in 0..n PROVE ModelsUpTo(c, r)' = ModelsUpTo(c, r)
  <2> DEFINE P(at) == /\ PythonAt(at[1]) /\ at[2] \in DOMAIN regions[at[1]].code
                      /\ Statement(at).op = "model" /\ Statement(at).name = c
  <2>1. ASSUME NEW at \in (1..r) \X (1..MaxCode) PROVE P(at)' <=> P(at)
    <3>1. at[1] \in 1..n
      OBVIOUS
    <3> QED BY <1>1, <1>2, <3>1
  <2>2. /\ ModelsUpTo(c, r) = {at \in (1..r) \X (1..MaxCode) : P(at)}
        /\ ModelsUpTo(c, r)' = {at \in (1..r) \X (1..MaxCode) : P(at)'}
    BY DEF ModelsUpTo
  <2> HIDE DEF P
  <2> QED BY <2>1, <2>2
<1>4. ASSUME NEW r \in 1..n, NEW c, NEW at \in ModelsUpTo(c, r) PROVE Statement(at)' = Statement(at)
  <2>1. at[1] \in 1..n
    BY DEF ModelsUpTo
  <2> QED BY <1>1, <2>1
<1>5. ASSUME NEW r \in 1..n PROVE Clean(r)' <=> Clean(r)
  <2>1. \A c : ModelsUpTo(c, r)' = ModelsUpTo(c, r)
    BY <1>3
  <2>2. \A name, t : StandsFor(name, t, r)' <=> StandsFor(name, t, r)
    BY <1>4, <2>1 DEF StandsFor
  <2>3. \A t : HasTable(t, r)' <=> HasTable(t, r)
    BY <1>4, <2>1 DEF HasTable
  <2>4. \A t, col : HasColumn(t, col, r)' <=> HasColumn(t, col, r)
    BY <1>4, <2>1 DEF HasColumn
  <2>5. regions'[r] = regions[r]
    OBVIOUS
  <2>6. \A i : Grounded(r, i)' <=> Grounded(r, i)
    BY <2>1, <2>2, <2>3, <2>4, <2>5 DEF Grounded
  <2> QED BY <1>2, <2>5, <2>6 DEF Clean
<1> QED BY <1>1, <1>3, <1>5

\* The symbols are right as long as they and the models of the text stay.
LEMMA SymbolsStay ==
    ASSUME SymbolsInv, UNCHANGED symbols,
           \A c : ModelsUpTo(c, Len(regions))' = ModelsUpTo(c, Len(regions)),
           \A c : \A at \in ModelsUpTo(c, Len(regions)) : Statement(at)' = Statement(at)
    PROVE  SymbolsInv'
<1>1. models' = models /\ definedTables' = definedTables /\ definedColumns' = definedColumns
  BY DEF symbols
<1>2. \A c, at : LastOf(c, at)' <=> LastOf(c, at)
  BY DEF LastOf, Later
<1>3. \A t : Defines(t)' <=> Defines(t)
  BY DEF Defines
<1>4. \A t, col : DefinesColumn(t, col)' <=> DefinesColumn(t, col)
  BY DEF DefinesColumn
<1>5. (\A c : c \in DOMAIN models <=> ModelsUpTo(c, Len(regions)) # {})'
  BY <1>1 DEF SymbolsInv
<1>6. (\A c \in DOMAIN models :
           \E at \in ModelsUpTo(c, Len(regions)) :
               LastOf(c, at) /\ Statement(at).table = models[c])'
  BY <1>1, <1>2 DEF SymbolsInv
<1>7. (\A t : t \in definedTables <=> Defines(t))'
  BY <1>1, <1>3 DEF SymbolsInv
<1>8. (\A x : x \in definedColumns <=>
           \E t \in Tables, col \in Columns : x = <<t, col>> /\ DefinesColumn(t, col))'
  BY <1>1, <1>4 DEF SymbolsInv
<1> QED BY <1>5, <1>6, <1>7, <1>8 DEF SymbolsInv

\* A step within a block, or outside of any.
LEMMA ReadStep ==
    ASSUME ConformanceInv, TypeOK', UNCHANGED <<allowNew, symbols, violations, regions>>
    PROVE  ConformanceInv'
<1> DEFINE n == Len(regions)
<1>1. n \in Nat /\ DOMAIN regions = 1..n /\ regions' = regions
  BY DEF ConformanceInv, TypeOK
<1>2. /\ \A at : at[1] \in 1..n => Statement(at)' = Statement(at)
      /\ \A r \in 1..n : Clean(r)' <=> Clean(r)
      /\ \A c : ModelsUpTo(c, Len(regions))' = ModelsUpTo(c, n)
  <2>1. \A at : Statement(at)' = Statement(at)
    BY <1>1 DEF Statement
  <2>2. \A c, r : ModelsUpTo(c, r)' = ModelsUpTo(c, r)
    BY <1>1, <2>1 DEF ModelsUpTo, PythonAt
  <2> HIDE DEF n
  <2>3. \A r \in 1..n : Clean(r)' <=> Clean(r)
    BY <1>1, BlocksStay
  <2> QED BY <1>1, <2>1, <2>2, <2>3 DEF n
<1>3. \A c : \A at \in ModelsUpTo(c, n) : Statement(at)' = Statement(at)
  BY <1>2 DEF ModelsUpTo
<1>4. SymbolsInv'
  BY <1>2, <1>3, SymbolsStay DEF ConformanceInv, symbols
<1> QED BY <1>1, <1>2, <1>4 DEF ConformanceInv

\* A block that is closed joins the others.
LEMMA BlockCloses ==
    ASSUME TypeOK, CloseFence
    PROVE  /\ TypeOK'
           /\ Len(regions') = Len(regions) + 1
           /\ DOMAIN regions = 1..Len(regions) /\ DOMAIN regions' = 1..(Len(regions) + 1)
           /\ \A r \in 1..Len(regions) : regions'[r] = regions[r]
           /\ regions'[Len(regions) + 1] = [lang |-> lang, code |-> body, broken |-> broken]
<1> DEFINE n == Len(regions)
           x == [lang |-> lang, code |-> body, broken |-> broken]
<1>1. /\ lang # "prose" /\ regions' = Append(regions, x) /\ lang' = "prose" /\ body' = <<>>
      /\ broken' = FALSE /\ allowNew' = allowNew
  BY DEF CloseFence
<1>2. regions \in Seq(Regions) /\ n \in Nat /\ DOMAIN regions = 1..n
  BY DEF TypeOK
<1>3. x \in Regions
  BY <1>1 DEF TypeOK, Regions
<1> HIDE DEF x, n
<1>4. /\ regions' \in Seq(Regions) /\ Len(regions') = n + 1
      /\ regions'[n + 1] = x /\ \A r \in 1..n : regions'[r] = regions[r]
  BY <1>1, <1>2, <1>3, AppendProperties DEF n
<1>5. DOMAIN regions' = 1..(n + 1)
  BY <1>4, LenProperties
<1>6. \A r \in DOMAIN regions' : Len(regions'[r].code) <= MaxCode
  <2>1. Len(regions'[n + 1].code) <= MaxCode
    BY <1>4 DEF x, TypeOK
  <2>2. \A r \in 1..n : Len(regions'[r].code) <= MaxCode
    BY <1>2, <1>4 DEF TypeOK
  <2>3. \A r \in 1..(n + 1) : r = n + 1 \/ r \in 1..n
    BY <1>2
  <2> QED BY <1>5, <2>1, <2>2, <2>3
<1>7. body' \in Seq(Statements) /\ Len(body') <= MaxCode /\ broken' \in BOOLEAN
  <2>1. <<>> \in Seq(Statements) /\ Len(<<>>) = 0 /\ 0 <= MaxCode
    BY ConformanceAssumption
  <2> QED BY <1>1, <2>1
<1>8. TypeOK'
  BY <1>1, <1>4, <1>6, <1>7 DEF TypeOK
<1> QED BY <1>2, <1>4, <1>5, <1>8 DEF n, x

\* The models of the text are then those of before and the block's own, if it is read.
Own(c) == {i \in ModelsOf(body) : body[i].name = c}

LEMMA ModelsJoin ==
    ASSUME TypeOK, CloseFence
    PROVE  /\ \A c : ModelsUpTo(c, Len(regions))' =
                         ModelsUpTo(c, Len(regions))
                             \cup {<<Len(regions) + 1, i>> :
                                       i \in IF lang = "python" /\ ~broken THEN Own(c) ELSE {}}
           /\ \A c : \A at \in ModelsUpTo(c, Len(regions)) : Statement(at)' = Statement(at)
           /\ \A i : Statement(<<Len(regions), i>>)' = body[i]
           /\ \A r \in 1..Len(regions) : Clean(r)' <=> Clean(r)
           /\ PythonAt(Len(regions))' <=> lang = "python" /\ ~broken
<1> DEFINE read == lang = "python" /\ ~broken
<1>0. PICK n : n = Len(regions)
  OBVIOUS
<1>1. /\ n \in Nat /\ Len(regions') = n + 1 /\ \A r \in 1..n : regions'[r] = regions[r]
      /\ regions'[n + 1] = [lang |-> lang, code |-> body, broken |-> broken]
      /\ allowNew' = allowNew
  BY <1>0, BlockCloses DEF TypeOK, CloseFence
<1>2. body \in Seq(Statements) /\ Len(body) <= MaxCode
  BY DEF TypeOK
<1>3. /\ \A at : at[1] \in 1..n => Statement(at)' = Statement(at)
      /\ \A c : ModelsUpTo(c, n)' = ModelsUpTo(c, n)
      /\ \A r \in 1..n : Clean(r)' <=> Clean(r)
  BY <1>1, BlocksStay
<1>4. \A i : Statement(<<n + 1, i>>)' = body[i]
  BY <1>1 DEF Statement
<1>5. PythonAt(n + 1)' <=> read
  BY <1>1 DEF PythonAt
<1>6. DOMAIN body \subseteq 1..MaxCode
  BY <1>2, ConformanceAssumption
<1>7. ASSUME NEW c
      PROVE  ModelsUpTo(c, n + 1)' =
                 ModelsUpTo(c, n) \cup {<<n + 1, i>> : i \in IF read THEN Own(c) ELSE {}}
  <2> DEFINE P(at) == /\ PythonAt(at[1])' /\ at[2] \in DOMAIN regions'[at[1]].code
                      /\ Statement(at)'.op = "model" /\ Statement(at)'.name = c
  <2>1. /\ ModelsUpTo(c, n + 1)' = {at \in (1..(n + 1)) \X (1..MaxCode) : P(at)}
        /\ ModelsUpTo(c, n)' = {at \in (1..n) \X (1..MaxCode) : P(at)}
    BY DEF ModelsUpTo
  <2>2. ASSUME NEW i \in 1..MaxCode
        PROVE  P(<<n + 1, i>>) <=> read /\ i \in Own(c)
    BY <1>1, <1>4, <1>5 DEF Own, ModelsOf
  <2>3. Own(c) \subseteq 1..MaxCode
    BY <1>6 DEF Own, ModelsOf
  <2>4. ASSUME NEW at
        PROVE  at \in (1..(n + 1)) \X (1..MaxCode) <=>
                   at \in (1..n) \X (1..MaxCode) \/ \E i \in 1..MaxCode : at = <<n + 1, i>>
    <3>1. \A k : k \in 1..(n + 1) <=> k \in 1..n \/ k = n + 1
      BY <1>1
    <3> QED BY <3>1
  <2> HIDE DEF P, read
  <2>5. ModelsUpTo(c, n + 1)' =
            ModelsUpTo(c, n)' \cup {<<n + 1, i>> : i \in IF read THEN Own(c) ELSE {}}
    BY <2>1, <2>2, <2>3, <2>4
  <2> QED BY <1>3, <2>5
<1>8. \A c : \A at \in ModelsUpTo(c, n) : Statement(at)' = Statement(at)
  BY <1>3 DEF ModelsUpTo
<1>9. \A c : ModelsUpTo(c, Len(regions))' = ModelsUpTo(c, n + 1)'
  BY <1>1
<1>10. \A i : Statement(<<Len(regions), i>>)' = Statement(<<n + 1, i>>)'
  BY <1>1
<1>11. PythonAt(Len(regions))' <=> PythonAt(n + 1)'
  BY <1>1
<1>12. \A c : ModelsUpTo(c, Len(regions))' =
                  ModelsUpTo(c, n) \cup {<<n + 1, i>> : i \in IF read THEN Own(c) ELSE {}}
  BY <1>7, <1>9
<1>13. \A i : Statement(<<Len(regions), i>>)' = body[i]
  BY <1>4, <1>10
<1>14. PythonAt(Len(regions))' <=> read
  BY <1>5, <1>11
<1> HIDE DEF read
<1> QED BY <1>0, <1>3, <1>8, <1>12, <1>13, <1>14 DEF read

\* A block that is not read defines nothing, and the verdict is NO_CONFORME.
LEMMA UnreadStep ==
    ASSUME ConformanceInv, CloseUnread
    PROVE  ConformanceInv'
<1>1. /\ CloseFence /\ UNCHANGED symbols /\ ~(lang = "python" /\ ~broken) /\ violations' # {}
  BY DEF CloseUnread
<1>2. TypeOK /\ SymbolsInv
  BY DEF ConformanceInv
<1>3. /\ TypeOK' /\ DOMAIN regions' = 1..(Len(regions) + 1) /\ Len(regions') = Len(regions) + 1
      /\ Len(regions) \in Nat
  BY <1>1, <1>2, BlockCloses DEF TypeOK
<1>4. /\ \A c : ModelsUpTo(c, Len(regions))' = ModelsUpTo(c, Len(regions))
      /\ \A c : \A at \in ModelsUpTo(c, Len(regions)) : Statement(at)' = Statement(at)
      /\ ~PythonAt(Len(regions))'
  BY <1>1, <1>2, ModelsJoin
<1>5. SymbolsInv'
  BY <1>1, <1>2, <1>4, SymbolsStay
<1>6. ~(\A r \in DOMAIN regions : Clean(r))'
  <2>1. Len(regions') \in DOMAIN regions'
    BY <1>3
  <2>2. ~Clean(Len(regions))'
    BY <1>4 DEF Clean
  <2> QED BY <2>1, <2>2
<1> QED BY <1>1, <1>3, <1>5, <1>6 DEF ConformanceInv

\* One that is read adds its models, each class having the table of its last one.
LEMMA SymbolsJoin ==
    ASSUME ConformanceInv, ClosePython
    PROVE  SymbolsInv'
<1>1. /\ CloseFence /\ lang = "python" /\ ~broken /\ models' = ModelsWith(body)
      /\ definedTables' = definedTables \cup DefinesTables(body)
      /\ definedColumns' = definedColumns \cup DefinesColumns(body)
  BY DEF ClosePython
<1>2. TypeOK /\ SymbolsInv
  BY DEF ConformanceInv
<1>3. PICK n \in Nat : n = Len(regions)
  BY <1>2 DEF TypeOK
<1>4. Len(regions') = n + 1
  BY <1>1, <1>2, <1>3, BlockCloses
<1>5. /\ \A c : ModelsUpTo(c, Len(regions))' = ModelsUpTo(c, n) \cup {<<n + 1, i>> : i \in Own(c)}
      /\ \A c : \A at \in ModelsUpTo(c, n) : Statement(at)' = Statement(at)
      /\ \A i : Statement(<<Len(regions), i>>)' = body[i]
  <2>1. \A c : ModelsUpTo(c, Len(regions))' =
            ModelsUpTo(c, n)
                \cup {<<n + 1, i>> : i \in IF lang = "python" /\ ~broken THEN Own(c) ELSE {}}
    BY <1>1, <1>2, <1>3, ModelsJoin
  <2>2. \A c : {<<n + 1, i>> : i \in IF lang = "python" /\ ~broken THEN Own(c) ELSE {}}
                   = {<<n + 1, i>> : i \in Own(c)}
    BY <1>1
  <2>3. /\ \A c : \A at \in ModelsUpTo(c, n) : Statement(at)' = Statement(at)
        /\ \A i : Statement(<<Len(regions), i>>)' = body[i]
    BY <1>1, <1>2, <1>3, ModelsJoin
  <2> QED BY <2>1, <2>2, <2>3
<1>6. \A i : Statement(<<n + 1, i>>)' = body[i]
  <2>1. \A i : Statement(<<n + 1, i>>)' = Statement(<<Len(regions), i>>)'
    BY <1>4
  <2> QED BY <1>5, <2>1
<1>7. body \in Seq(Statements)
  BY <1>2 DEF TypeOK
<1> DEFINE Owns(c) == Own(c) # {}
<1>8. \A c : c \in {body[i].name : i \in ModelsOf(body)} <=> Owns(c)
  BY DEF Own
<1>9. /\ \A c : c \in DOMAIN models' <=> c \in DOMAIN models \/ Owns(c)
      /\ \A c : Owns(c) => models'[c] = body[LastModel(body, c)].table
      /\ \A c \in DOMAIN models : ~Owns(c) => models'[c] = models[c]
  <2> HIDE DEF Owns
  <2> QED BY <1>1, <1>8 DEF ModelsWith
<1>10. (\A c : c \in DOMAIN models <=> ModelsUpTo(c, Len(regions)) # {})'
  <2>1. \A c : c \in DOMAIN models <=> ModelsUpTo(c, n) # {}
    BY <1>2, <1>3 DEF SymbolsInv
  <2>2. \A c : {<<n + 1, i>> : i \in Own(c)} # {} <=> Owns(c)
    OBVIOUS
  <2> HIDE DEF Owns
  <2>3. \A c : ModelsUpTo(c, Len(regions))' # {} <=> ModelsUpTo(c, n) # {} \/ Owns(c)
    BY <1>5, <2>2
  <2>4. ASSUME NEW c PROVE c \in DOMAIN models' <=> ModelsUpTo(c, Len(regions))' # {}
    BY <1>9, <2>1, <2>3
  <2> QED BY <2>4
<1>11. ASSUME NEW c \in DOMAIN models'
       PROVE  \E at \in ModelsUpTo(c, Len(regions))' :
                  LastOf(c, at)' /\ Statement(at)'.table = models'[c]
  <2> DEFINE M == ModelsUpTo(c, n)
  <2>1. \A at \in M : at[1] \in Nat /\ at[1] <= n
    BY DEF ModelsUpTo
  <2>2. CASE Owns(c)
    <3> DEFINE m == LastModel(body, c)
    <3>1. m \in Own(c) /\ \A j \in Own(c) : j <= m /\ j \in Nat
      <4>1. PICK i \in ModelsOf(body) : body[i].name = c
        BY <2>2 DEF Own
      <4>2. /\ m \in ModelsOf(body) /\ body[m].name = c
            /\ \A j \in ModelsOf(body) : body[j].name = c => j <= m
        BY <1>7, <4>1, LastModelIs
      <4>3. ModelsOf(body) \subseteq Nat
        BY <1>7 DEF ModelsOf
      <4> HIDE DEF m
      <4> QED BY <4>2, <4>3 DEF Own
    <3>2. PICK at : at = <<n + 1, m>>
      OBVIOUS
    <3> HIDE DEF m
    <3>3. at \in ModelsUpTo(c, Len(regions))'
      BY <1>5, <3>1, <3>2
    <3>4. ASSUME NEW other \in ModelsUpTo(c, Len(regions))' PROVE ~Later(other, at)
      <4>1. CASE other \in M
        BY <2>1, <3>2, <4>1 DEF Later
      <4>2. CASE \E j \in Own(c) : other = <<n + 1, j>>
        BY <3>1, <3>2, <4>2 DEF Later
      <4> QED BY <1>5, <4>1, <4>2
    <3>5. Statement(at)'.table = models'[c]
      BY <1>6, <1>9, <2>2, <3>2 DEF m
    <3> QED BY <3>3, <3>4, <3>5 DEF LastOf, Later
  <2>3. CASE ~Owns(c)
    <3>1. c \in DOMAIN models /\ models'[c] = models[c] /\ ModelsUpTo(c, Len(regions))' = M
      <4>1. {<<n + 1, i>> : i \in Own(c)} = {}
        BY <2>3
      <4> HIDE DEF Owns
      <4>2. c \in DOMAIN models
        BY <1>9, <2>3
      <4>3. models'[c] = models[c]
        BY <1>9, <2>3, <4>2
      <4>4. ModelsUpTo(c, Len(regions))' = M
        BY <1>5, <4>1
      <4> QED BY <4>2, <4>3, <4>4
    <3>2. PICK at \in M : LastOf(c, at) /\ Statement(at).table = models[c]
      BY <1>2, <1>3, <3>1 DEF SymbolsInv
    <3>3. Statement(at)'.table = models'[c]
      BY <1>5, <3>1, <3>2
    <3>4. \A other \in M : ~Later(other, at)
      BY <1>3, <3>2 DEF LastOf
    <3>5. /\ at \in ModelsUpTo(c, Len(regions))'
          /\ \A other \in ModelsUpTo(c, Len(regions))' : ~Later(other, at)
      BY <3>1, <3>2, <3>4
    <3>6. LastOf(c, at)'
      BY <3>5 DEF LastOf, Later
    <3> QED BY <3>3, <3>5, <3>6
  <2> QED BY <2>2, <2>3
<1>12. ASSUME NEW i \in ModelsOf(body)
       PROVE  /\ body[i].name \in Classes /\ i \in Own(body[i].name)
              /\ body[i].table \in Tables /\ body[i].columns \in SUBSET Columns
  <2>1. i \in DOMAIN body /\ body[i].op = "model"
    BY DEF ModelsOf
  <2>2. body[i] \in Statements
    BY <1>7, <2>1, ElementOfSeq
  <2> QED BY <2>1, <2>2, StatementKinds DEF Own
<1>13. ASSUME NEW c \in Classes, NEW at
       PROVE  at \in ModelsUpTo(c, Len(regions))' <=>
                  at \in ModelsUpTo(c, n) \/ \E i \in Own(c) : at = <<n + 1, i>>
  BY <1>5
<1>14. ASSUME NEW t PROVE t \in definedTables' <=> Defines(t)'
  <2>1. t \in definedTables <=> Defines(t)
    BY <1>2 DEF SymbolsInv
  <2>2. t \in DefinesTables(body) <=> \E c \in Classes : \E i \in Own(c) : body[i].table = t
    BY <1>12 DEF DefinesTables, Own
  <2>3. Defines(t) <=> \E c \in Classes : \E at \in ModelsUpTo(c, n) : Statement(at)'.table = t
    BY <1>3, <1>5 DEF Defines
  <2>4. Defines(t)' <=>
            \E c \in Classes : \E at \in ModelsUpTo(c, Len(regions))' : Statement(at)'.table = t
    BY DEF Defines
  <2>5. Defines(t)' <=> Defines(t) \/ \E c \in Classes : \E i \in Own(c) : body[i].table = t
    <3>1. ASSUME NEW c \in Classes
          PROVE  (\E at \in ModelsUpTo(c, Len(regions))' : Statement(at)'.table = t) <=>
                     \/ \E at \in ModelsUpTo(c, n) : Statement(at)'.table = t
                     \/ \E i \in Own(c) : body[i].table = t
      <4>1. \A i : Statement(<<n + 1, i>>)'.table = body[i].table
        BY <1>6
      <4>2. \A at \in ModelsUpTo(c, Len(regions))' :
                at \in ModelsUpTo(c, n) \/ \E i \in Own(c) : at = <<n + 1, i>>
        BY <1>13
      <4>3. /\ \A i \in Own(c) : <<n + 1, i>> \in ModelsUpTo(c, Len(regions))'
            /\ \A at \in ModelsUpTo(c, n) : at \in ModelsUpTo(c, Len(regions))'
        BY <1>13
      <4> QED BY <4>1, <4>2, <4>3
    <3> QED BY <2>3, <2>4, <3>1
  <2> QED BY <1>1, <2>1, <2>2, <2>5
<1>15. ASSUME NEW t \in Tables, NEW col \in Columns
       PROVE  <<t, col>> \in definedColumns' <=> DefinesColumn(t, col)'
  <2>1. <<t, col>> \in definedColumns <=> DefinesColumn(t, col)
    BY <1>2 DEF SymbolsInv
  <2>2. <<t, col>> \in DefinesColumns(body)
            <=> \E c \in Classes : \E i \in Own(c) : body[i].table = t /\ col \in body[i].columns
    <3>1. <<t, col>> \in DefinesColumns(body)
              <=> \E i \in ModelsOf(body) : body[i].table = t /\ col \in body[i].columns
      BY DEF DefinesColumns
    <3> QED BY <1>12, <3>1 DEF Own
  <2>3. DefinesColumn(t, col) <=>
            \E c \in Classes : \E at \in ModelsUpTo(c, n) :
                Statement(at)'.table = t /\ col \in Statement(at)'.columns
    BY <1>3, <1>5 DEF DefinesColumn
  <2>4. DefinesColumn(t, col)' <=>
            \E c \in Classes : \E at \in ModelsUpTo(c, Len(regions))' :
                Statement(at)'.table = t /\ col \in Statement(at)'.columns
    BY DEF DefinesColumn
  <2>5. DefinesColumn(t, col)' <=>
            \/ DefinesColumn(t, col)
            \/ \E c \in Classes : \E i \in Own(c) : body[i].table = t /\ col \in body[i].columns
    <3>1. ASSUME NEW c \in Classes
          PROVE  (\E at \in ModelsUpTo(c, Len(regions))' :
                      Statement(at)'.table = t /\ col \in Statement(at)'.columns) <=>
                     \/ \E at \in ModelsUpTo(c, n) :
                            Statement(at)'.table = t /\ col \in Statement(at)'.columns
                     \/ \E i \in Own(c) : body[i].table = t /\ col \in body[i].columns
      <4>1. \A i : /\ Statement(<<n + 1, i>>)'.table = body[i].table
                    /\ Statement(<<n + 1, i>>)'.columns = body[i].columns
        BY <1>6
      <4>2. \A at \in ModelsUpTo(c, Len(regions))' :
                at \in ModelsUpTo(c, n) \/ \E i \in Own(c) : at = <<n + 1, i>>
        BY <1>13
      <4>3. /\ \A i \in Own(c) : <<n + 1, i>> \in ModelsUpTo(c, Len(regions))'
            /\ \A at \in ModelsUpTo(c, n) : at \in ModelsUpTo(c, Len(regions))'
        BY <1>13
      <4> QED BY <4>1, <4>2, <4>3
    <3> QED BY <2>3, <2>4, <3>1
  <2> QED BY <1>1, <2>1, <2>2, <2>5
<1>16. ASSUME NEW x \in definedColumns' PROVE \E t \in Tables, col \in Columns : x = <<t, col>>
  <2>1. CASE x \in definedColumns
    BY <1>2, <2>1 DEF SymbolsInv
  <2>2. CASE x \in DefinesColumns(body)
    <3>1. PICK i \in ModelsOf(body) : \E col \in body[i].columns : x = <<body[i].table, col>>
      BY <2>2 DEF DefinesColumns
    <3> QED BY <1>12, <3>1
  <2> QED BY <1>1, <2>1, <2>2
<1>17. (\A x : x \in definedColumns <=>
            \E t \in Tables, col \in Columns : x = <<t, col>> /\ DefinesColumn(t, col))'
  BY <1>15, <1>16
<1>18. (\A c \in DOMAIN models :
            \E at \in ModelsUpTo(c, Len(regions)) :
                LastOf(c, at) /\ Statement(at).table = models[c])'
  BY <1>11
<1> QED BY <1>10, <1>14, <1>17, <1>18 DEF SymbolsInv

LEMMA PythonStep ==
    ASSUME ConformanceInv, ClosePython
    PROVE  ConformanceInv'
<1>1. /\ CloseFence /\ lang = "python" /\ ~broken
      /\ models' = ModelsWith(body) /\ allowNew' = allowNew
      /\ violations' = violations
             \cup NewObjects(DefinesTables(body), DefinesColumns(body))
             \cup Misuses(TableUses(body, models'), ColumnUses(body, models'),
                          definedTables', definedColumns')
  BY DEF ClosePython, CloseFence
<1>2. TypeOK /\ (violations = {} <=> \A r \in DOMAIN regions : Clean(r))
  BY DEF ConformanceInv
<1>3. PICK n \in Nat : n = Len(regions)
  BY <1>2 DEF TypeOK
<1>4. /\ TypeOK' /\ Len(regions') = n + 1 /\ DOMAIN regions = 1..n /\ DOMAIN regions' = 1..(n + 1)
      /\ regions'[n + 1].code = body
  BY <1>1, <1>2, <1>3, BlockCloses
<1>5. SymbolsInv'
  BY <1>1, SymbolsJoin
<1>6. /\ \A r \in 1..n : Clean(r)' <=> Clean(r)
      /\ PythonAt(n + 1)'
  <2>1. PythonAt(Len(regions))' <=> PythonAt(n + 1)'
    BY <1>4
  <2> QED BY <1>1, <1>2, <1>3, <2>1, ModelsJoin
<1>7. Misuses(TableUses(body, models'), ColumnUses(body, models'),
              definedTables', definedColumns') = {}
          <=> \A i \in DOMAIN body : Grounded(n + 1, i)'
  <2>1. (TypeOK /\ SymbolsInv /\ Len(regions) > 0)' =>
            (Misuses(TableUses(regions[Len(regions)].code, models),
                     ColumnUses(regions[Len(regions)].code, models), definedTables, definedColumns) = {}
                <=> \A i \in DOMAIN regions[Len(regions)].code : Grounded(Len(regions), i))'
    BY MisusesNothing, PTL
  <2>2. (Len(regions) > 0)'
    BY <1>3, <1>4
  <2>3. \A i : Grounded(Len(regions), i)' <=> Grounded(n + 1, i)'
    BY <1>4
  <2> QED BY <1>4, <1>5, <2>1, <2>2, <2>3
<1>8. NewObjects(DefinesTables(body), DefinesColumns(body)) = {} <=>
          (~allowNew => \A i \in DOMAIN body :
               body[i].op = "model" =>
                   body[i].table \in DOMAIN Known /\ body[i].columns \subseteq Known[body[i].table])
  <2>1. ModelsOf(body) = {i \in DOMAIN body : body[i].op = "model"}
    BY DEF ModelsOf
  <2>2. NewObjects(DefinesTables(body), DefinesColumns(body)) = {} <=>
            (~allowNew => /\ \A t \in DefinesTables(body) : t \in DOMAIN Known
                          /\ \A x \in DefinesColumns(body) : KnownColumn(x[1], x[2]))
    BY DEF NewObjects
  <2>3. (\A t \in DefinesTables(body) : t \in DOMAIN Known) <=>
            \A i \in ModelsOf(body) : body[i].table \in DOMAIN Known
    BY DEF DefinesTables
  <2>4. (\A x \in DefinesColumns(body) : KnownColumn(x[1], x[2])) <=>
            \A i \in ModelsOf(body) : \A col \in body[i].columns : KnownColumn(body[i].table, col)
    <3>1. \A i \in ModelsOf(body) : \A col \in body[i].columns :
              <<body[i].table, col>> \in DefinesColumns(body)
      BY DEF DefinesColumns
    <3>2. \A x \in DefinesColumns(body) :
              \E i \in ModelsOf(body) : \E col \in body[i].columns : x = <<body[i].table, col>>
      BY DEF DefinesColumns
    <3>3. \A t, col : <<t, col>>[1] = t /\ <<t, col>>[2] = col
      OBVIOUS
    <3>4. ASSUME \A x \in DefinesColumns(body) : KnownColumn(x[1], x[2]),
                 NEW i \in ModelsOf(body), NEW col \in body[i].columns
          PROVE  KnownColumn(body[i].table, col)
      BY <3>1, <3>3, <3>4
    <3>5. ASSUME \A i \in ModelsOf(body) : \A col \in body[i].columns : KnownColumn(body[i].table, col),
                 NEW x \in DefinesColumns(body)
          PROVE  KnownColumn(x[1], x[2])
      BY <3>2, <3>3, <3>5
    <3> QED BY <3>4, <3>5
  <2>5. ((\A i \in ModelsOf(body) : body[i].table \in DOMAIN Known)
           /\ \A i \in ModelsOf(body) : \A col \in body[i].columns : KnownColumn(body[i].table, col))
        <=> \A i \in ModelsOf(body) :
                body[i].table \in DOMAIN Known /\ body[i].columns \subseteq Known[body[i].table]
    BY DEF KnownColumn
  <2> QED BY <2>1, <2>2, <2>3, <2>4, <2>5
<1>9. Clean(n + 1)' <=>
          /\ NewObjects(DefinesTables(body), DefinesColumns(body)) = {}
          /\ Misuses(TableUses(body, models'), ColumnUses(body, models'),
                     definedTables', definedColumns') = {}
  BY <1>1, <1>4, <1>6, <1>7, <1>8 DEF Clean
<1>10. violations' = {} <=> violations = {} /\ Clean(n + 1)'
  BY <1>1, <1>9
<1>11. (\A r \in DOMAIN regions : Clean(r))'
           <=> (\A r \in DOMAIN regions : Clean(r)) /\ Clean(n + 1)'
  <2>1. \A r : r \in 1..(n + 1) <=> r \in 1..n \/ r = n + 1
    BY <1>3
  <2>2. (\A r \in DOMAIN regions : Clean(r))' <=> \A r \in 1..(n + 1) : Clean(r)'
    BY <1>4
  <2> QED BY <1>4, <1>6, <2>1, <2>2
<1> QED BY <1>2, <1>4, <1>5, <1>10, <1>11 DEF ConformanceInv

-----------------------------------------------------------------------------
(* The theorem *)

LEMMA ConformanceInit == Init => ConformanceInv
<1> SUFFICES ASSUME Init PROVE ConformanceInv
  OBVIOUS
<1>1. /\ allowNew \in BOOLEAN /\ lang = "prose" /\ body = <<>> /\ broken = FALSE
      /\ DOMAIN models = {} /\ definedTables = {} /\ definedColumns = {}
      /\ violations = {} /\ regions = <<>>
  BY DEF Init
<1>2. regions \in Seq(Regions) /\ Len(regions) = 0 /\ DOMAIN regions = {}
  BY <1>1
<1>3. TypeOK
  <2>1. body \in Seq(Statements) /\ Len(body) = 0 /\ 0 <= MaxCode
    BY <1>1, ConformanceAssumption
  <2>2. Len(body) <= MaxCode /\ \A r \in DOMAIN regions : Len(regions[r].code) <= MaxCode
    BY <1>2, <2>1
  <2> QED BY <1>1, <1>2, <2>1, <2>2 DEF TypeOK
<1>4. \A c : ModelsUpTo(c, Len(regions)) = {}
  <2>1. 1..0 = {}
    OBVIOUS
  <2> QED BY <1>2, <2>1 DEF ModelsUpTo
<1>5. SymbolsInv
  BY <1>1, <1>4 DEF SymbolsInv, Defines, DefinesColumn
<1> QED BY <1>1, <1>2, <1>3, <1>5 DEF ConformanceInv

LEMMA ConformanceNext ==
    ASSUME ConformanceInv, [Next]_vars
    PROVE  ConformanceInv'
<1>1. TypeOK
  BY DEF ConformanceInv
<1>2. CASE Open
  <2>1. UNCHANGED <<allowNew, symbols, violations, regions, body, broken>> /\ lang' \in Langs
    BY <1>2 DEF Open
  <2>2. TypeOK'
    BY <1>1, <2>1 DEF TypeOK
  <2> QED BY <2>1, <2>2, ReadStep
<1>3. CASE ReadStatement
  <2>1. /\ UNCHANGED <<allowNew, symbols, violations, regions, lang, broken>> /\ Len(body) < MaxCode
        /\ \E s \in Statements : body' = Append(body, s)
    BY <1>3 DEF ReadStatement
  <2>2. body' \in Seq(Statements) /\ Len(body') <= MaxCode
    <3>1. PICK s \in Statements : body' = Append(body, s)
      BY <2>1
    <3>2. body \in Seq(Statements)
      BY <1>1 DEF TypeOK
    <3>3. body' \in Seq(Statements) /\ Len(body') = Len(body) + 1 /\ Len(body) \in Nat
      BY <3>1, <3>2
    <3> QED BY <2>1, <3>3, ConformanceAssumption
  <2>3. TypeOK'
    BY <1>1, <2>1, <2>2 DEF TypeOK
  <2> QED BY <2>1, <2>3, ReadStep
<1>4. CASE ReadNonsense
  <2>1. UNCHANGED <<allowNew, symbols, violations, regions, lang, body>> /\ broken' = TRUE
    BY <1>4 DEF ReadNonsense
  <2>2. TypeOK'
    BY <1>1, <2>1 DEF TypeOK
  <2> QED BY <2>1, <2>2, ReadStep
<1>5. CASE Finish \/ Ended \/ UNCHANGED vars
  <2>1. UNCHANGED <<allowNew, symbols, violations, regions, lang, body, broken>>
    BY <1>5 DEF Finish, Ended, vars, reading
  <2>2. TypeOK'
    BY <1>1, <2>1 DEF TypeOK
  <2> QED BY <2>1, <2>2, ReadStep
<1>6. CASE CloseUnread
  BY <1>6, UnreadStep
<1>7. CASE ClosePython
  BY <1>7, PythonStep
<1> QED BY <1>2, <1>3, <1>4, <1>5, <1>6, <1>7 DEF Next

LEMMA ConformanceAlways == Spec => []ConformanceInv
<1>1. ConformanceInv /\ [Next]_vars => ConformanceInv'
  BY ConformanceNext
<1> QED BY <1>1, ConformanceInit, PTL DEF Spec

\* For every snapshot and every text, in whatever order it defines and uses: the verdict is
\* CONFORME exactly when each closed block is Python that parses, no use that the extraction
\* recognises in it is of anything but the schema and what the text has defined by then, and,
\* unless new objects are allowed, it defines nothing that the schema lacks (conformance.py:11-14,
\* segmentation.py:8-11).  What is not recognised is accepted, whatever it accesses.
THEOREM VerdictIsExact == Spec => []VerdictExact
<1>1. ConformanceInv => VerdictExact
  <2> SUFFICES ASSUME ConformanceInv PROVE VerdictExact
    OBVIOUS
  <2>1. Verdict = "CONFORME" <=> violations = {}
    BY DEF Verdict
  <2>2. violations = {} <=> \A r \in DOMAIN regions : Clean(r)
    BY DEF ConformanceInv
  <2> QED BY <2>1, <2>2 DEF VerdictExact, Clean
<1> QED BY <1>1, ConformanceAlways, PTL
================================================================================
