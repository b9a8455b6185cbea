----------------------- MODULE ContextPreparationProofs -----------------------
(***************************************************************************)
(* Proofs about the preparation of the context.                            *)
(*                                                                         *)
(* The assembly: whatever is retrieved, and for all budgets, an outline    *)
(* that keeps to its reserve costs the Architect none of the chunks that   *)
(* made the Manager's context better.  What the eligible chunks are plays  *)
(* no part: Eligible is not expanded.                                      *)
(*                                                                         *)
(* The selection: for every database whose names are each the name of one  *)
(* table, each round adds the tables one foreign key further away, and     *)
(* what is shown stays a prefix of what was selected, the rest of the      *)
(* snapshot being on the list of what is not shown, of which the block     *)
(* names the first and counts the others.                                  *)
(***************************************************************************)
EXTENDS ContextPreparation, SequenceTheorems, FiniteSetTheorems, TLAPS

-----------------------------------------------------------------------------
(* The assembly *)

\* taken is what first fit takes of a prefix of found within the budget: Fill, read at i.
FirstFit(taken, budget) ==
    /\ taken \in Seq(Int)
    /\ Len(taken) <= Len(found)
    /\ \A i \in DOMAIN taken :
           taken[i] = IF Eligible(i) /\ Before(taken, i) + found[i].size <= budget
                      THEN Before(taken, i) + found[i].size ELSE Before(taken, i)

BeforeRetrieval == {"schema", "expand", "render", "rag"}

AssemblyInv ==
    /\ pc \in PCs
    /\ found \in Seq([source : Sources, size : Nat])
    /\ fixed \in Nat /\ outline \in Nat
    /\ pc \in BeforeRetrieval => found = <<>> /\ manager = <<>>
    /\ pc \in BeforeRetrieval \cup {"manager"} => architect = <<>>
    /\ pc \in {"architect", "done"} => Len(manager) = Len(found)
    /\ pc = "done" => Len(architect) = Len(found)
    /\ FirstFit(manager, ManagerBudget)
    /\ FirstFit(architect, ArchitectBudget)

\* Taking one more chunk is what first fit does.
LEMMA FillIsFirstFit ==
    ASSUME NEW budget \in Int, NEW taken, FirstFit(taken, budget),
           found \in Seq([source : Sources, size : Nat]), Len(taken) < Len(found)
    PROVE  FirstFit(Append(taken, Fill(taken, budget)), budget)
<1> DEFINE n == Len(taken)
           x == Fill(taken, budget)
           longer == Append(taken, x)
<1>1. taken \in Seq(Int) /\ n \in Nat /\ n + 1 \in 1..Len(found) /\ Len(found) \in Nat
  BY DEF FirstFit
<1>2. found[n + 1].size \in Nat
  <2>1. found[n + 1] \in [source : Sources, size : Nat]
    BY <1>1, ElementOfSeq
  <2> QED BY <2>1
<1>3. LastOf(taken) \in Int
  <2>1. taken = <<>> \/ n \in DOMAIN taken
    BY <1>1
  <2> QED BY <1>1, <2>1 DEF LastOf
<1>4. x = IF Eligible(n + 1) /\ LastOf(taken) + found[n + 1].size <= budget
          THEN LastOf(taken) + found[n + 1].size ELSE LastOf(taken)
  BY DEF Fill
<1>5. x \in Int
  BY <1>2, <1>3, <1>4
<1> HIDE DEF x
<1>6. /\ longer \in Seq(Int) /\ Len(longer) = n + 1 /\ longer[n + 1] = x
      /\ \A i \in 1..n : longer[i] = taken[i]
  BY <1>1, <1>5
<1>7. Before(longer, n + 1) = LastOf(taken)
  <2>1. CASE n = 0
    BY <1>1, <2>1 DEF Before, LastOf
  <2>2. CASE n # 0
    BY <1>1, <1>6, <2>2 DEF Before, LastOf
  <2> QED BY <2>1, <2>2
<1>8. \A i \in 1..n : Before(longer, i) = Before(taken, i)
  BY <1>1, <1>6 DEF Before
<1>9. ASSUME NEW i \in DOMAIN longer
      PROVE  longer[i] = IF Eligible(i) /\ Before(longer, i) + found[i].size <= budget
                       THEN Before(longer, i) + found[i].size ELSE Before(longer, i)
  <2>1. CASE i = n + 1
    BY <1>4, <1>6, <1>7, <2>1
  <2>2. CASE i # n + 1
    <3>1. i \in 1..n /\ i \in DOMAIN taken
      BY <1>1, <1>6, <2>2
    <3> QED BY <1>6, <1>8, <3>1 DEF FirstFit
  <2> QED BY <2>1, <2>2
<1> QED BY <1>1, <1>6, <1>9 DEF FirstFit, x

\* What was taken stays first fit as long as the chunks do.
LEMMA FirstFitKept ==
    ASSUME UNCHANGED found, NEW taken, NEW budget, FirstFit(taken, budget)
    PROVE  FirstFit(taken, budget)'
<1>1. ASSUME NEW i PROVE Eligible(i)' <=> Eligible(i)
  BY DEF Eligible
<1> QED BY <1>1 DEF FirstFit, Before

LEMMA AssemblyInit == Init => AssemblyInv
<1> SUFFICES ASSUME Init PROVE AssemblyInv
  OBVIOUS
<1>1. found = <<>> /\ manager = <<>> /\ architect = <<>> /\ pc = "schema" /\ fixed = 0 /\ outline = 0
  BY DEF Init
<1> QED BY <1>1 DEF AssemblyInv, FirstFit, PCs, BeforeRetrieval

LEMMA AssemblyNext ==
    ASSUME AssemblyInv, [Next]_vars
    PROVE  AssemblyInv'
<1>1. ManagerBudget \in Int /\ ArchitectBudget \in Int
  BY BudgetAssumption DEF AssemblyInv, ManagerBudget, ArchitectBudget, OutlineBlock
<1>2. CASE Schema \/ Ended \/ UNCHANGED vars
  <2>1. UNCHANGED context
    BY <1>2 DEF Schema, NoSchema, Match, ShowAll, ShowNone, Expand, Cut, Drop, Rendered, Ended, vars
  <2>2. UNCHANGED <<found, fixed, outline, manager, architect>>
    BY <2>1 DEF context
  <2>3. pc' = pc \/ (pc \in BeforeRetrieval /\ pc' \in BeforeRetrieval)
    <3>1. CASE NoSchema \/ ShowNone \/ Rendered
      BY <3>1 DEF NoSchema, ShowNone, Rendered, BeforeRetrieval
    <3>2. CASE Match \/ ShowAll \/ Cut
      BY <3>2 DEF Match, ShowAll, Cut, BeforeRetrieval
    <3>3. ASSUME Expand PROVE UNCHANGED pc
      BY <3>3 DEF Expand, input
    <3>4. ASSUME Drop PROVE UNCHANGED pc
      BY <3>4 DEF Drop, input
    <3>5. ASSUME Ended \/ UNCHANGED vars PROVE UNCHANGED pc
      BY <3>5 DEF Ended, vars, input
    <3> QED BY <1>2, <3>1, <3>2, <3>3, <3>4, <3>5 DEF Schema
  <2>4. UNCHANGED <<ManagerBudget, ArchitectBudget>>
    BY <2>2 DEF ManagerBudget, ArchitectBudget, OutlineBlock
  <2>5. FirstFit(manager, ManagerBudget)' /\ FirstFit(architect, ArchitectBudget)'
    BY <2>2, <2>4, FirstFitKept DEF AssemblyInv
  <2> QED BY <2>2, <2>3, <2>5 DEF AssemblyInv, BeforeRetrieval, PCs
<1>3. CASE Retrieve
  <2>1. found' \in Seq(Chunks) /\ fixed' \in 0..MaxSize /\ UNCHANGED <<outline, manager, architect>>
    BY <1>3 DEF Retrieve
  <2>2. found' \in Seq([source : Sources, size : Nat]) /\ fixed' \in Nat
    <3>1. Chunks \subseteq [source : Sources, size : Nat]
      BY BudgetAssumption DEF Chunks
    <3>2. found' \in Seq([source : Sources, size : Nat])
      BY <2>1, <3>1, SeqMonotonic
    <3> QED BY <2>1, <3>2, BudgetAssumption
  <2>3. manager' = <<>> /\ architect' = <<>>
    BY <1>3, <2>1 DEF AssemblyInv, Retrieve, BeforeRetrieval
  <2>4. FirstFit(manager, ManagerBudget)' /\ FirstFit(architect, ArchitectBudget)'
    BY <2>2, <2>3 DEF FirstFit
  <2> QED BY <1>3, <2>1, <2>2, <2>3, <2>4 DEF AssemblyInv, Retrieve, BeforeRetrieval, PCs
<1>4. CASE FillForManager
  <2>1. UNCHANGED <<found, fixed, outline, architect, pc>> /\ pc = "manager" /\ Len(manager) < Len(found)
        /\ manager' = Append(manager, Fill(manager, ManagerBudget))
    BY <1>4 DEF FillForManager
  <2>2. FirstFit(manager', ManagerBudget)
    BY <1>1, <2>1, FillIsFirstFit DEF AssemblyInv
  <2>3. UNCHANGED <<ManagerBudget, ArchitectBudget>>
    BY <2>1 DEF ManagerBudget, ArchitectBudget, OutlineBlock
  <2>4. FirstFit(manager, ManagerBudget)' /\ FirstFit(architect, ArchitectBudget)'
    BY <2>1, <2>2, <2>3, FirstFitKept DEF AssemblyInv
  <2> QED BY <2>1, <2>4 DEF AssemblyInv, BeforeRetrieval, PCs
<1>5. CASE Outline
  <2>1. UNCHANGED <<found, fixed, manager, architect>> /\ outline' \in Nat /\ architect = <<>>
    BY <1>5, BudgetAssumption DEF Outline, AssemblyInv
  <2>2. UNCHANGED ManagerBudget
    BY <2>1 DEF ManagerBudget
  <2>3. FirstFit(manager, ManagerBudget)'
    BY <2>1, <2>2, FirstFitKept DEF AssemblyInv
  <2>4. FirstFit(architect, ArchitectBudget)'
    BY <2>1 DEF FirstFit, AssemblyInv
  <2> QED BY <1>5, <2>1, <2>3, <2>4 DEF Outline, AssemblyInv, BeforeRetrieval, PCs
<1>6. CASE FillForArchitect
  <2>1. UNCHANGED <<found, fixed, outline, manager, pc>> /\ pc = "architect" /\ Len(architect) < Len(found)
        /\ architect' = Append(architect, Fill(architect, ArchitectBudget))
    BY <1>6 DEF FillForArchitect
  <2>2. FirstFit(architect', ArchitectBudget)
    BY <1>1, <2>1, FillIsFirstFit DEF AssemblyInv
  <2>3. UNCHANGED <<ManagerBudget, ArchitectBudget>>
    BY <2>1 DEF ManagerBudget, ArchitectBudget, OutlineBlock
  <2>4. FirstFit(manager, ManagerBudget)' /\ FirstFit(architect, ArchitectBudget)'
    BY <2>1, <2>2, <2>3, FirstFitKept DEF AssemblyInv
  <2> QED BY <2>1, <2>4 DEF AssemblyInv, BeforeRetrieval, PCs
<1>7. CASE Assembled
  <2>1. UNCHANGED <<found, fixed, outline, manager, architect>>
    BY <1>7 DEF Assembled
  <2>2. UNCHANGED <<ManagerBudget, ArchitectBudget>>
    BY <2>1 DEF ManagerBudget, ArchitectBudget, OutlineBlock
  <2>3. FirstFit(manager, ManagerBudget)' /\ FirstFit(architect, ArchitectBudget)'
    BY <2>1, <2>2, FirstFitKept DEF AssemblyInv
  <2> QED BY <1>7, <2>1, <2>3 DEF Assembled, AssemblyInv, BeforeRetrieval, PCs
<1> QED BY <1>2, <1>3, <1>4, <1>5, <1>6, <1>7 DEF Next, Assembly

LEMMA AssemblyAlways == Spec => []AssemblyInv
BY AssemblyInit, AssemblyNext, PTL DEF Spec

\* Under any budgets, and for any chunks: as long as the outline keeps to its reserve, the first
\* chunk that only one of the Manager and the Architect sees is the Architect's
\* (context_stages.py:168-199).
THEOREM ReserveServesArchitect == Spec => []ArchitectSeesNoWorse
<1>1. ASSUME AssemblyInv, pc = "done", OutlineBlock <= Reserve, NEW i \in DOMAIN found,
             \A j \in 1..(i - 1) : architect[j] = manager[j]
      PROVE  architect[i] >= manager[i]
  <2>1. /\ i \in DOMAIN manager /\ i \in DOMAIN architect
        /\ manager \in Seq(Int) /\ architect \in Seq(Int) /\ i \in Nat \ {0}
    BY <1>1 DEF AssemblyInv, FirstFit
  <2>2. Before(manager, i) = Before(architect, i) /\ Before(manager, i) \in Int
    BY <1>1, <2>1 DEF Before
  <2>3. found[i].size \in Nat
    <3>1. found \in Seq([source : Sources, size : Nat]) /\ i \in 1..Len(found)
      BY <1>1 DEF AssemblyInv
    <3>2. found[i] \in [source : Sources, size : Nat]
      BY <3>1, ElementOfSeq
    <3> QED BY <3>2
  <2>4. /\ ManagerBudget \in Int /\ ArchitectBudget \in Int
        /\ ManagerBudget <= ArchitectBudget
    BY <1>1, BudgetAssumption DEF AssemblyInv, ManagerBudget, ArchitectBudget, OutlineBlock
  <2>5. manager[i] = IF Eligible(i) /\ Before(manager, i) + found[i].size <= ManagerBudget
                     THEN Before(manager, i) + found[i].size ELSE Before(manager, i)
    BY <1>1, <2>1 DEF AssemblyInv, FirstFit
  <2>6. architect[i] = IF Eligible(i) /\ Before(architect, i) + found[i].size <= ArchitectBudget
                       THEN Before(architect, i) + found[i].size ELSE Before(architect, i)
    BY <1>1, <2>1 DEF AssemblyInv, FirstFit
  <2> QED BY <2>2, <2>3, <2>4, <2>5, <2>6
<1>2. AssemblyInv => ArchitectSeesNoWorse
  BY <1>1 DEF ArchitectSeesNoWorse
<1> QED BY <1>2, AssemblyAlways, PTL

-----------------------------------------------------------------------------
(* The tables and their names *)

\* No table has the qualified name of another, or the bare name of one that is in a schema:
\* with such names a lookup finds the other table.
Unambiguous ==
    \A i, j \in DOMAIN Catalog : Qualified(Catalog[i]) \in Keys(Catalog[j]) => i = j

NameOf(i) == Qualified(snapshot[i])
NamesOf(R) == {NameOf(i) : i \in R}

Tables == [schema : STRING, name : STRING, columns : SUBSET STRING, refs : SUBSET References]

InputOK ==
    /\ snapshot \in Seq(Tables) /\ query \in SUBSET Words
    /\ \A i, j \in DOMAIN snapshot : NameOf(i) \in Keys(snapshot[j]) => i = j

HitRows == {i \in DOMAIN snapshot : Score(snapshot[i]) > 0}
Adjacent(a, b) == RefersTo(a, b) \/ RefersTo(b, a)

\* The tables at most r foreign keys away from a hit.
Near(r) == {b \in DOMAIN snapshot : \E a \in HitRows : \E n \in 0..r : Walk(a, b, n)}

-----------------------------------------------------------------------------
(* The invariant of the selection *)

\* The names hit, then those added: each once.
Selected ==
    /\ matched \in Seq(Names) /\ IsInjective(matched) /\ Elements(matched) = Hits
    /\ related \in Seq(Names) /\ IsInjective(related)
    /\ Elements(matched) \cap Elements(related) = {}

\* After each round: the tables as many keys away as there were rounds, and no key leads out of
\* those but from a table of the last round.
Expanding ==
    /\ strategy = "lexical" /\ rounds \in 0..Depth
    /\ Selected
    /\ matched # <<>>
    /\ Seen = NamesOf(Near(Depth - rounds))
    /\ frontier \subseteq Seen
    /\ \A a, b \in DOMAIN snapshot :
           Adjacent(a, b) /\ NameOf(a) \in Seen \ frontier => NameOf(b) \in Seen

\* What the block shows and what it does not are the snapshot, and it shows a prefix of the
\* selection.
Shown ==
    LET listed == NamesOf(Elements(shown))
        unlisted == Elements(omitted) \cup Elements(dropped)
        all == matched \o related
    IN  /\ shown \in Seq(DOMAIN snapshot) /\ IsInjective(shown)
        /\ omitted \in Seq(Names) /\ IsInjective(omitted)
        /\ dropped \in Seq(Names) /\ IsInjective(dropped)
        /\ Elements(omitted) \cap Elements(dropped) = {}
        /\ listed \cup unlisted = Names /\ listed \cap unlisted = {}
        /\ matched # <<>> =>
               Len(shown) <= Len(all) /\ \A i \in DOMAIN shown : NameOf(shown[i]) = all[i]

\* What the block names and what it counts.
Named == named = Prefix(NotShown, MaxNamed) /\ more = Len(NotShown) - Len(named)

SelectionInv ==
    /\ InputOK
    /\ pc = "schema" => strategy = "none" /\ matched = <<>> /\ related = <<>> /\ rounds = Depth
    /\ ~AfterSelection => shown = <<>> /\ dropped = <<>>
    /\ pc = "expand" => Expanding
    /\ AfterSelection /\ matched # <<>> => Selected /\ Seen = NamesOf(Near(Depth))
    /\ AfterSelection /\ strategy # "none" => Shown
    /\ AfterRendering /\ strategy # "none" => Named
    /\ strategy = "none" => shown = <<>>

-----------------------------------------------------------------------------
(* Finite sets in a sequence *)

LEMMA LeastOf ==
    ASSUME NEW S, S \subseteq Nat, S # {}
    PROVE  \E m \in S : \A n \in S : m <= n
<1>1. PICK m \in S : \A n \in S : <<n, m>> \notin OpToRel(<, Nat)
  BY NatLessThanWellFounded, WFMin
<1>2. \A n \in S : ~ (n < m)
  BY <1>1 DEF OpToRel
<1> QED BY <1>2

\* s holds each member of T once, those with the higher scores first.
Sorts(s, T, score) ==
    /\ s \in [1..Cardinality(T) -> T] /\ IsInjective(s)
    /\ \A i, j \in DOMAIN s : i < j => score[s[i]] >= score[s[j]]

\* A set that is sorted but for its member with the lowest score.
LEMMA SortedWithLast ==
    ASSUME NEW T, IsFiniteSet(T), NEW x \in T, NEW score \in [T -> Nat],
           \A y \in T : score[x] <= score[y], NEW s, Sorts(s, T \ {x}, score)
    PROVE  \E r : Sorts(r, T, score)
<1> DEFINE k == Cardinality(T)
           r == [i \in 1..k |-> IF i = k THEN x ELSE s[i]]
<1>1. k \in Nat \ {0} /\ Cardinality(T \ {x}) = k - 1
  BY FS_CardinalityType, FS_RemoveElement, FS_EmptySet
<1> HIDE DEF k
<1>2. /\ s \in [1..(k - 1) -> T \ {x}] /\ DOMAIN s = 1..(k - 1)
      /\ \A i, j \in 1..(k - 1) : s[i] = s[j] => i = j
      /\ \A i, j \in 1..(k - 1) : i < j => score[s[i]] >= score[s[j]]
  BY <1>1 DEF Sorts, IsInjective
<1>3. /\ r \in [1..k -> T] /\ r[k] = x
      /\ \A i \in 1..k : i # k => i \in 1..(k - 1) /\ r[i] = s[i] /\ s[i] \in T \ {x}
  BY <1>1, <1>2
<1> HIDE DEF r
<1>4. ASSUME NEW i \in 1..k, NEW j \in 1..k, r[i] = r[j] PROVE i = j
  BY <1>2, <1>3, <1>4
<1>5. ASSUME NEW i \in 1..k, NEW j \in 1..k, i < j PROVE score[r[i]] >= score[r[j]]
  <2>1. i # k
    BY <1>1, <1>5
  <2>2. CASE j = k
    <3>1. r[i] \in T /\ r[j] = x
      BY <1>3, <2>2
    <3>2. score[x] <= score[r[i]] /\ score[x] \in Nat /\ score[r[i]] \in Nat
      BY <3>1
    <3> QED BY <3>1, <3>2
  <2>3. CASE j # k
    BY <1>2, <1>3, <1>5, <2>1, <2>3
  <2> QED BY <2>2, <2>3
<1>6. DOMAIN r = 1..k
  BY <1>3
<1>7. Sorts(r, T, score)
  BY <1>3, <1>4, <1>5, <1>6 DEF Sorts, IsInjective, k
<1> QED BY <1>7

LEMMA SortExists ==
    ASSUME NEW S, IsFiniteSet(S), NEW score \in [S -> Nat]
    PROVE  \E s : Sorts(s, S, score)
<1> DEFINE Sortable(T) == \E s : Sorts(s, T, score)
           Missed == {k \in Nat : \E T \in SUBSET S : Cardinality(T) = k /\ ~Sortable(T)}
<1>1. SUFFICES ASSUME Missed # {} PROVE FALSE
  <2>1. Cardinality(S) \in Nat /\ S \in SUBSET S
    BY FS_CardinalityType
  <2> QED BY <2>1
<1>2. PICK k \in Missed : \A n \in Missed : k <= n
  <2>1. Missed \subseteq Nat
    OBVIOUS
  <2> HIDE DEF Missed
  <2> QED BY <1>1, <2>1, LeastOf
<1>3. PICK T \in SUBSET S : Cardinality(T) = k /\ ~Sortable(T)
  BY <1>2
<1>4. k \in Nat /\ IsFiniteSet(T)
  BY <1>2, FS_Subset
<1>5. CASE T = {}
  <2> DEFINE s == [i \in 1..0 |-> i]
  <2>1. Cardinality(T) = 0
    BY <1>5, FS_EmptySet
  <2>2. s \in [1..0 -> T] /\ DOMAIN s = {}
    OBVIOUS
  <2> HIDE DEF s
  <2>3. Sorts(s, T, score)
    BY <2>1, <2>2 DEF Sorts, IsInjective
  <2> QED BY <1>3, <2>3
<1>6. CASE T # {}
  <2>1. PICK x \in T : \A y \in T : score[x] <= score[y]
    <3> DEFINE Values == {score[y] : y \in T}
    <3>1. Values \subseteq Nat /\ Values # {}
      BY <1>6
    <3>2. PICK m \in Values : \A n \in Values : m <= n
      <4> HIDE DEF Values
      <4> QED BY <3>1, LeastOf
    <3> QED BY <3>2
  <2>2. /\ Cardinality(T \ {x}) = k - 1 /\ k - 1 \in Nat /\ T \ {x} \in SUBSET S
    <3>1. k # 0
      BY <1>3, <1>4, <1>6, FS_EmptySet
    <3>2. Cardinality(T \ {x}) = k - 1
      BY <1>3, <1>4, FS_RemoveElement
    <3> QED BY <1>4, <3>1, <3>2
  <2>3. k - 1 \notin Missed
    <3> HIDE DEF Missed
    <3> QED BY <1>2, <1>4
  <2>4. Sortable(T \ {x})
    BY <2>2, <2>3
  <2>5. PICK s : Sorts(s, T \ {x}, score)
    BY <2>4
  <2> DEFINE f == [y \in T |-> score[y]]
  <2>6. /\ f \in [T -> Nat] /\ \A y \in T : f[x] <= f[y]
        /\ \A y \in T : f[y] = score[y]
    BY <2>1
  <2> HIDE DEF f
  <2>7. Sorts(s, T \ {x}, f)
    <3>1. /\ s \in [1..Cardinality(T \ {x}) -> T \ {x}] /\ IsInjective(s)
          /\ \A i, j \in DOMAIN s : i < j => score[s[i]] >= score[s[j]]
      BY <2>5 DEF Sorts
    <3>2. \A i \in DOMAIN s : f[s[i]] = score[s[i]]
      BY <2>6, <3>1
    <3> QED BY <3>1, <3>2 DEF Sorts
  <2>8. PICK r : Sorts(r, T, f)
    BY <1>4, <2>6, <2>7, SortedWithLast
  <2>9. Sorts(r, T, score)
    <3>1. /\ r \in [1..Cardinality(T) -> T] /\ IsInjective(r)
          /\ \A i, j \in DOMAIN r : i < j => f[r[i]] >= f[r[j]]
      BY <2>8 DEF Sorts
    <3>2. \A i \in DOMAIN r : f[r[i]] = score[r[i]]
      BY <2>6, <3>1
    <3> QED BY <3>1, <3>2 DEF Sorts
  <2> QED BY <1>3, <2>9
<1> QED BY <1>5, <1>6

\* An enumeration without repetition that is as long as the set has members has all of them.
LEMMA EnumerationIsFull ==
    ASSUME NEW S, IsFiniteSet(S), NEW s \in [1..Cardinality(S) -> S], IsInjective(s)
    PROVE  /\ s \in Seq(S) /\ Len(s) = Cardinality(S) /\ Elements(s) = S
<1> DEFINE n == Cardinality(S)
<1>1. n \in Nat
  BY FS_CardinalityType
<1>2. Cardinality(1..n) = n
  BY <1>1, FS_Interval
<1>3. s \in Injection(1..n, S)
  BY DEF Injection
<1>4. s \in Surjection(1..n, S)
  <2> HIDE DEF n
  <2>1. Cardinality(1..n) = Cardinality(S)
    BY <1>2 DEF n
  <2> QED BY <1>3, <2>1, FS_Injection
<1>5. Elements(s) = S
  <2>1. DOMAIN s = 1..n /\ \A t \in S : \E i \in 1..n : s[i] = t
    BY <1>4 DEF Surjection
  <2> QED BY <2>1 DEF Elements
<1>6. s \in Seq(S) /\ Len(s) = n
  <2> HIDE DEF n
  <2>1. s \in [1..n -> S]
    BY DEF n
  <2> QED BY <1>1, <2>1
<1> QED BY <1>5, <1>6

\* A sequence without repetition has as many elements as it is long.
LEMMA DistinctElements ==
    ASSUME NEW S, NEW s \in Seq(S), IsInjective(s)
    PROVE  Cardinality(Elements(s)) = Len(s)
<1> DEFINE n == Len(s)
           T == Elements(s)
<1>1. n \in Nat /\ DOMAIN s = 1..n
  OBVIOUS
<1>2. s \in [1..n -> T] /\ \A t \in T : \E i \in 1..n : s[i] = t
  <2>1. s \in [1..n -> S]
    OBVIOUS
  <2> QED BY <1>1, <2>1 DEF Elements
<1> HIDE DEF n, T
<1>3. s \in Bijection(1..n, T)
  BY <1>2 DEF Bijection, Injection, Surjection
<1>4. ExistsBijection(1..n, T)
  BY <1>3 DEF ExistsBijection
<1> QED BY <1>1, <1>4, FS_CountingElements DEF n, T

-----------------------------------------------------------------------------
(* Lookup and walks *)

\* A table is found by its qualified name.
LEMMA GetFinds ==
    ASSUME InputOK, NEW i \in DOMAIN snapshot
    PROVE  Get(NameOf(i)) = i /\ NameOf(i) \in Names
<1>1. NameOf(i) \in Keys(snapshot[i])
  BY DEF NameOf, Keys
<1>2. \A j \in DOMAIN snapshot : NameOf(i) \in Keys(snapshot[j]) => j = i
  BY DEF InputOK
<1>3. DOMAIN snapshot \subseteq Nat
  BY DEF InputOK
<1> DEFINE name == NameOf(i)
<1> HIDE DEF name
<1>4. /\ i \in DOMAIN snapshot /\ name \in Keys(snapshot[i])
      /\ \A j \in DOMAIN snapshot : name \in Keys(snapshot[j]) => j <= i
  BY <1>1, <1>2, <1>3 DEF name
<1>5. \A k \in DOMAIN snapshot : name \in Keys(snapshot[k]) => k = i
  BY <1>2 DEF name
<1>6. Get(name) = i
  BY <1>4, <1>5 DEF Get
<1>7. NameOf(i) \in Names
  BY DEF Names, NameOf
<1> QED BY <1>6, <1>7 DEF name

\* Names are names of one table.
LEMMA NameGiven ==
    ASSUME InputOK, NEW name \in Names
    PROVE  Get(name) \in DOMAIN snapshot /\ NameOf(Get(name)) = name
<1>1. PICK i \in DOMAIN snapshot : name = NameOf(i)
  BY DEF Names, NameOf
<1> QED BY <1>1, GetFinds

LEMMA NamesDiffer ==
    ASSUME InputOK, NEW i \in DOMAIN snapshot, NEW j \in DOMAIN snapshot, NameOf(i) = NameOf(j)
    PROVE  i = j
BY DEF InputOK, Keys, NameOf

LEMMA ScoreIsNat ==
    ASSUME InputOK, NEW i \in DOMAIN snapshot
    PROVE  Score(snapshot[i]) \in Nat
<1> DEFINE t == snapshot[i]
           a == query \cap ({t.schema, t.name} \ {""})
           b == query \cap t.columns
<1>1. IsFiniteSet(query)
  BY WordsAssumption, FS_Subset DEF InputOK
<1>2. a \in SUBSET query /\ b \in SUBSET query
  OBVIOUS
<1> HIDE DEF a, b
<1>3. Cardinality(a) \in Nat /\ Cardinality(b) \in Nat
  BY <1>1, <1>2, FS_Subset, FS_CardinalityType
<1>4. Score(t) = 3 * Cardinality(a) + AtMost(Cardinality(b), 3)
  BY DEF Score, a, b
<1> HIDE DEF t
<1>5. Score(t) \in Nat
  BY <1>3, <1>4 DEF AtMost
<1> QED BY <1>5 DEF t

LEMMA NamesCounted ==
    ASSUME InputOK
    PROVE  Cardinality(Names) = Len(snapshot)
<1> DEFINE names == [i \in 1..Len(snapshot) |-> NameOf(i)]
<1>1. Len(snapshot) \in Nat /\ DOMAIN snapshot = 1..Len(snapshot)
  BY DEF InputOK
<1>2. names \in [1..Len(snapshot) -> Names] /\ Elements(names) = Names
  BY <1>1 DEF Names, NameOf, Elements
<1>3. IsInjective(names)
  BY <1>1, NamesDiffer DEF IsInjective
<1> HIDE DEF names
<1>4. names \in Seq(Names) /\ Len(names) = Len(snapshot)
  BY <1>1, <1>2
<1> QED BY <1>2, <1>3, <1>4, DistinctElements

LEMMA NamesFinite ==
    ASSUME InputOK
    PROVE  IsFiniteSet(Names)
<1> DEFINE f == [i \in DOMAIN snapshot |-> NameOf(i)]
<1>1. f \in Surjection(DOMAIN snapshot, Names)
  BY DEF Surjection, Names, NameOf
<1>2. IsFiniteSet(DOMAIN snapshot)
  <2>1. Len(snapshot) \in Nat /\ DOMAIN snapshot = 1..Len(snapshot)
    BY DEF InputOK
  <2> QED BY <2>1, FS_Interval
<1> HIDE DEF f
<1> QED BY <1>1, <1>2, FS_Surjection

\* The tables at any positions can be listed in order, each once.
LEMMA OrderedNames ==
    ASSUME InputOK, NEW R \in SUBSET DOMAIN snapshot
    PROVE  /\ NamesInOrder(R) \in Seq(Names) /\ IsInjective(NamesInOrder(R))
           /\ Elements(NamesInOrder(R)) = NamesOf(R)
<1> DEFINE k == Cardinality(R)
           r == Ascending(R)
           names == NamesInOrder(R)
<1>1. PICK n \in Nat : DOMAIN snapshot = 1..n
  BY DEF InputOK
<1>2. IsFiniteSet(R) /\ k \in Nat /\ R \subseteq 1..n
  <2>1. IsFiniteSet(1..n)
    BY FS_Interval
  <2>2. R \in SUBSET (1..n)
    BY <1>1
  <2>3. IsFiniteSet(R)
    BY <2>1, <2>2, FS_Subset
  <2> QED BY <2>2, <2>3, FS_CardinalityType
<1>3. r \in [1..k -> R] /\ \A i, j \in 1..k : i < j => r[i] < r[j]
  <2> DEFINE score == [i \in R |-> n - i]
  <2>1. score \in [R -> Nat]
    BY <1>2
  <2> HIDE DEF score
  <2>2. PICK s : Sorts(s, R, score)
    BY <1>2, <2>1, SortExists
  <2>3. /\ s \in [1..k -> R] /\ DOMAIN s = 1..k
        /\ \A i, j \in 1..k : s[i] = s[j] => i = j
        /\ \A i, j \in 1..k : i < j => score[s[i]] >= score[s[j]]
    BY <2>2 DEF Sorts, IsInjective
  <2>4. ASSUME NEW i \in 1..k, NEW j \in 1..k, i < j PROVE s[i] < s[j]
    <3>1. s[i] \in R /\ s[j] \in R /\ s[i] # s[j] /\ score[s[i]] >= score[s[j]]
      BY <1>2, <2>3, <2>4
    <3>2. \A x \in R : score[x] = n - x /\ x \in Nat
      BY <1>2 DEF score
    <3>3. n - s[i] >= n - s[j] /\ s[i] \in Nat /\ s[j] \in Nat
      BY <3>1, <3>2
    <3> QED BY <1>1, <3>1, <3>3
  <2>5. \E x \in [1..k -> R] : \A i, j \in DOMAIN x : i < j => x[i] < x[j]
    BY <2>3, <2>4
  <2>6. r \in [1..k -> R] /\ \A i, j \in DOMAIN r : i < j => r[i] < r[j]
    BY <2>5 DEF Ascending
  <2> QED BY <2>6
<1>4. names = [i \in 1..k |-> NameOf(r[i])]
  BY DEF NamesInOrder, NameOf
<1> HIDE DEF r, names
<1>5. \A i, j \in 1..k : r[i] = r[j] => i = j
  <2> SUFFICES ASSUME NEW i \in 1..k, NEW j \in 1..k, r[i] = r[j] PROVE i = j
    OBVIOUS
  <2>1. ~ (i < j) /\ ~ (j < i)
    <3>1. r[i] \in Nat /\ r[j] \in Nat
      BY <1>2, <1>3
    <3> QED BY <1>3, <3>1
  <2> QED BY <1>2, <2>1
<1>6. Elements(r) = R
  <2>1. IsInjective(r)
    BY <1>3, <1>5 DEF IsInjective
  <2> QED BY <1>2, <1>3, <2>1, EnumerationIsFull
<1>7. names \in [1..k -> Names] /\ DOMAIN names = 1..k /\ \A i \in 1..k : names[i] = NameOf(r[i]) /\ r[i] \in R
  <2>1. \A i \in 1..k : r[i] \in R /\ NameOf(r[i]) \in Names
    BY <1>3, GetFinds
  <2> QED BY <1>4, <2>1
<1>8. IsInjective(names)
  <2> SUFFICES ASSUME NEW i \in 1..k, NEW j \in 1..k, names[i] = names[j] PROVE i = j
    BY <1>7 DEF IsInjective
  <2>1. r[i] = r[j]
    BY <1>7, NamesDiffer
  <2> QED BY <1>5, <2>1
<1>9. Elements(names) = NamesOf(R)
  <2>1. Elements(names) = {NameOf(r[i]) : i \in 1..k} /\ R = {r[i] : i \in 1..k}
    BY <1>3, <1>6, <1>7 DEF Elements
  <2> QED BY <2>1 DEF NamesOf
<1>10. names \in Seq(Names)
  BY <1>2, <1>7
<1> QED BY <1>8, <1>9, <1>10 DEF names

\* The hits are sorted, and the tables of a round are all taken.
LEMMA HitsSorted ==
    ASSUME InputOK
    PROVE  ByScore(Hits) \in Seq(Names) /\ IsInjective(ByScore(Hits)) /\ Elements(ByScore(Hits)) = Hits
<1> DEFINE score == [name \in Hits |-> ScoreOf(name)]
<1>1. Hits \in SUBSET Names /\ IsFiniteSet(Hits)
  <2>1. Hits \in SUBSET Names
    BY DEF Hits, Names
  <2> QED BY <2>1, NamesFinite, FS_Subset
<1>2. score \in [Hits -> Nat] /\ \A name \in Hits : score[name] = ScoreOf(name)
  <2>1. ASSUME NEW name \in Hits PROVE ScoreOf(name) \in Nat
    BY <1>1, NameGiven, ScoreIsNat DEF ScoreOf
  <2> QED BY <2>1
<1> HIDE DEF score
<1>3. PICK s : Sorts(s, Hits, score)
  BY <1>1, <1>2, SortExists
<1>4. /\ s \in [1..Cardinality(Hits) -> Hits]
      /\ \A i, j \in DOMAIN s : s[i] = s[j] => i = j
      /\ \A i, j \in DOMAIN s : i < j => ScoreOf(s[i]) >= ScoreOf(s[j])
  <2>1. /\ s \in [1..Cardinality(Hits) -> Hits] /\ IsInjective(s)
        /\ \A i, j \in DOMAIN s : i < j => score[s[i]] >= score[s[j]]
    BY <1>3 DEF Sorts
  <2>2. \A i \in DOMAIN s : score[s[i]] = ScoreOf(s[i])
    BY <1>2, <2>1
  <2> QED BY <2>1, <2>2 DEF IsInjective
<1> DEFINE r == ByScore(Hits)
<1>5. /\ r \in [1..Cardinality(Hits) -> Hits]
      /\ \A i, j \in DOMAIN r : r[i] = r[j] => i = j
  BY <1>4 DEF ByScore
<1> HIDE DEF r
<1>6. r \in Seq(Hits) /\ Elements(r) = Hits /\ IsInjective(r)
  <2>1. IsInjective(r)
    BY <1>5 DEF IsInjective
  <2> QED BY <1>1, <1>5, <2>1, EnumerationIsFull
<1>7. r \in Seq(Names)
  BY <1>1, <1>6, SeqMonotonic
<1> QED BY <1>6, <1>7 DEF r

LEMMA AllTaken ==
    ASSUME NEW S, IsFiniteSet(S)
    PROVE  AnyOrder(S) \in Seq(S) /\ IsInjective(AnyOrder(S)) /\ Elements(AnyOrder(S)) = S
<1>1. PICK s \in Bijection(1..Cardinality(S), S) : TRUE
  BY FS_CardinalityType DEF ExistsBijection
<1>2. s \in [1..Cardinality(S) -> S] /\ \A i, j \in DOMAIN s : s[i] = s[j] => i = j
  BY <1>1 DEF Bijection, Injection, IsInjective
<1> DEFINE r == AnyOrder(S)
<1>3. r \in [1..Cardinality(S) -> S] /\ \A i, j \in DOMAIN r : r[i] = r[j] => i = j
  BY <1>2 DEF AnyOrder
<1> HIDE DEF r
<1>4. IsInjective(r)
  BY <1>3 DEF IsInjective
<1>5. r \in Seq(S) /\ Elements(r) = S
  BY <1>3, <1>4, EnumerationIsFull
<1> QED BY <1>4, <1>5 DEF r

LEMMA JoinedLists ==
    ASSUME NEW S, NEW s \in Seq(S), NEW t \in Seq(S), IsInjective(s), IsInjective(t),
           Elements(s) \cap Elements(t) = {}
    PROVE  /\ s \o t \in Seq(S) /\ IsInjective(s \o t)
           /\ Elements(s \o t) = Elements(s) \cup Elements(t)
           /\ Len(s \o t) = Len(s) + Len(t) /\ \A i \in DOMAIN s : (s \o t)[i] = s[i]
           /\ \A i \in 1..Len(s \o t) : i > Len(s) => (s \o t)[i] \in Elements(t)
<1> DEFINE r == s \o t
           m == Len(s)
           n == Len(t)
<1>1. m \in Nat /\ n \in Nat /\ DOMAIN s = 1..m /\ DOMAIN t = 1..n
  OBVIOUS
<1>2. /\ r \in Seq(S) /\ Len(r) = m + n
      /\ \A i \in 1..(m + n) : r[i] = IF i <= m THEN s[i] ELSE t[i - m]
  BY ConcatProperties
<1> HIDE DEF r, m, n
<1>3. DOMAIN r = 1..(m + n)
  <2>1. DOMAIN r = 1..Len(r)
    BY <1>2, LenProperties
  <2> QED BY <1>2, <2>1
<1>4. \A i \in 1..m : i \in 1..(m + n) /\ r[i] = s[i] /\ s[i] \in Elements(s)
  <2> SUFFICES ASSUME NEW i \in 1..m
               PROVE  i \in 1..(m + n) /\ r[i] = s[i] /\ s[i] \in Elements(s)
    OBVIOUS
  <2>1. i \in 1..(m + n) /\ i <= m
    BY <1>1
  <2>2. r[i] = s[i]
    BY <1>2, <2>1
  <2> QED BY <1>1, <2>1, <2>2 DEF Elements
<1>5. \A i \in 1..(m + n) : i > m => i - m \in 1..n /\ r[i] = t[i - m] /\ t[i - m] \in Elements(t)
  <2> SUFFICES ASSUME NEW i \in 1..(m + n), i > m
               PROVE  i - m \in 1..n /\ r[i] = t[i - m] /\ t[i - m] \in Elements(t)
    OBVIOUS
  <2>1. i - m \in 1..n /\ r[i] = t[i - m]
    BY <1>1, <1>2
  <2> QED BY <1>1, <2>1 DEF Elements
<1>6. IsInjective(r)
  <2> SUFFICES ASSUME NEW i \in 1..(m + n), NEW j \in 1..(m + n), r[i] = r[j] PROVE i = j
    BY <1>3 DEF IsInjective
  <2>1. CASE i <= m /\ j <= m
    <3>1. i \in 1..m /\ j \in 1..m
      BY <2>1
    <3> QED BY <1>1, <1>4, <3>1 DEF IsInjective
  <2>2. CASE i > m /\ j > m
    <3>1. i - m \in 1..n /\ j - m \in 1..n /\ t[i - m] = t[j - m]
      BY <1>5, <2>2
    <3>2. i - m = j - m
      BY <1>1, <3>1 DEF IsInjective
    <3> QED BY <1>1, <3>2
  <2>3. CASE i <= m /\ j > m
    <3>1. i \in 1..m
      BY <2>3
    <3> QED BY <1>4, <1>5, <2>3, <3>1
  <2>4. CASE i > m /\ j <= m
    <3>1. j \in 1..m
      BY <2>4
    <3> QED BY <1>4, <1>5, <2>4, <3>1
  <2> QED BY <1>1, <2>1, <2>2, <2>3, <2>4
<1>7. Elements(r) = Elements(s) \cup Elements(t)
  <2>1. ASSUME NEW x \in Elements(r) PROVE x \in Elements(s) \cup Elements(t)
    <3>1. PICK i \in 1..(m + n) : x = r[i]
      BY <1>3 DEF Elements
    <3>2. CASE i <= m
      <4>1. i \in 1..m
        BY <3>2
      <4> QED BY <1>4, <3>1, <4>1
    <3>3. CASE i > m
      BY <1>5, <3>1, <3>3
    <3> QED BY <1>1, <3>2, <3>3
  <2>2. ASSUME NEW x \in Elements(s) PROVE x \in Elements(r)
    <3>1. PICK i \in 1..m : x = s[i]
      BY <1>1 DEF Elements
    <3> QED BY <1>3, <1>4, <3>1 DEF Elements
  <2>3. ASSUME NEW x \in Elements(t) PROVE x \in Elements(r)
    <3>1. PICK i \in 1..n : x = t[i]
      BY <1>1 DEF Elements
    <3>2. i + m \in 1..(m + n) /\ i + m > m /\ (i + m) - m = i
      BY <1>1
    <3>3. r[i + m] = t[i]
      BY <1>5, <3>2
    <3> QED BY <1>3, <3>1, <3>2, <3>3 DEF Elements
  <2> QED BY <2>1, <2>2, <2>3
<1>8. \A i \in 1..Len(r) : i > m => r[i] \in Elements(t)
  BY <1>2, <1>5
<1> QED BY <1>1, <1>2, <1>4, <1>6, <1>7, <1>8 DEF r, m, n

\* No key away: the hits themselves.
LEMMA NearZero ==
    ASSUME InputOK
    PROVE  Near(0) = HitRows
<1>1. ASSUME NEW b \in HitRows PROVE b \in Near(0)
  <2> DEFINE path == [i \in 0..0 |-> b]
  <2>1. b \in DOMAIN snapshot
    BY DEF HitRows
  <2>2. path \in [0..0 -> DOMAIN snapshot] /\ path[0] = b
    BY <2>1
  <2> HIDE DEF path
  <2>3. \A i \in 1..0 : RefersTo(path[i - 1], path[i]) \/ RefersTo(path[i], path[i - 1])
    OBVIOUS
  <2>4. Walk(b, b, 0)
    BY <2>2, <2>3 DEF Walk
  <2>5. 0 \in 0..0
    OBVIOUS
  <2> QED BY <2>1, <2>4, <2>5 DEF Near
<1>2. ASSUME NEW b \in Near(0) PROVE b \in HitRows
  <2>1. PICK a \in HitRows : \E n \in 0..0 : Walk(a, b, n)
    BY DEF Near
  <2>2. Walk(a, b, 0)
    BY <2>1
  <2> QED BY <2>2 DEF Walk
<1> QED BY <1>1, <1>2

\* One key further.
LEMMA NearStep ==
    ASSUME InputOK, NEW r \in Nat
    PROVE  \A b \in DOMAIN snapshot :
               b \in Near(r + 1) <=> b \in Near(r) \/ \E a \in Near(r) : Adjacent(a, b)
<1> TAKE b \in DOMAIN snapshot
<1>1. ASSUME b \in Near(r) PROVE b \in Near(r + 1)
  <2>1. 0..r \subseteq 0..(r + 1)
    OBVIOUS
  <2> QED BY <1>1, <2>1 DEF Near
<1>2. ASSUME NEW c \in Near(r), Adjacent(c, b) PROVE b \in Near(r + 1)
  <2>1. PICK a \in HitRows, n \in 0..r : Walk(a, c, n)
    BY DEF Near
  <2>2. PICK path \in [0..n -> DOMAIN snapshot] :
            /\ path[0] = a /\ path[n] = c
            /\ \A i \in 1..n : RefersTo(path[i - 1], path[i]) \/ RefersTo(path[i], path[i - 1])
    BY <2>1 DEF Walk
  <2> DEFINE longer == [i \in 0..(n + 1) |-> IF i = n + 1 THEN b ELSE path[i]]
  <2>3. n \in Nat /\ n + 1 \in 0..(r + 1) /\ 0 # n + 1 /\ n # n + 1
    OBVIOUS
  <2>4. /\ longer \in [0..(n + 1) -> DOMAIN snapshot] /\ longer[n + 1] = b
        /\ \A i \in 0..n : longer[i] = path[i]
    BY <2>2, <2>3
  <2> HIDE DEF longer
  <2>5. ASSUME NEW i \in 1..(n + 1)
        PROVE  RefersTo(longer[i - 1], longer[i]) \/ RefersTo(longer[i], longer[i - 1])
    <3>1. CASE i = n + 1
      <4>1. n \in 0..n /\ i - 1 = n
        BY <2>3, <3>1
      <4>2. longer[i - 1] = c /\ longer[i] = b
        BY <2>2, <2>4, <3>1, <4>1
      <4> QED BY <1>2, <4>2 DEF Adjacent
    <3>2. CASE i # n + 1
      <4>1. i \in 1..n /\ i \in 0..n /\ i - 1 \in 0..n
        BY <2>3, <3>2
      <4> QED BY <2>2, <2>4, <4>1
    <3> QED BY <3>1, <3>2
  <2>6. 0 \in 0..n
    BY <2>3
  <2>7. Walk(a, b, n + 1)
    BY <2>2, <2>4, <2>5, <2>6 DEF Walk
  <2> QED BY <2>1, <2>3, <2>7 DEF Near
<1>3. ASSUME b \in Near(r + 1), b \notin Near(r) PROVE \E a \in Near(r) : Adjacent(a, b)
  <2>1. PICK a \in HitRows, n \in 0..(r + 1) : Walk(a, b, n)
    BY <1>3 DEF Near
  <2>2. PICK path \in [0..n -> DOMAIN snapshot] :
            /\ path[0] = a /\ path[n] = b
            /\ \A i \in 1..n : RefersTo(path[i - 1], path[i]) \/ RefersTo(path[i], path[i - 1])
    BY <2>1 DEF Walk
  <2>3. n = r + 1
    <3> SUFFICES ASSUME n # r + 1 PROVE FALSE
      OBVIOUS
    <3>1. n \in 0..r
      OBVIOUS
    <3> QED BY <1>3, <2>1, <3>1 DEF Near
  <2> DEFINE less == [i \in 0..r |-> path[i]]
  <2>4. /\ less \in [0..r -> DOMAIN snapshot] /\ \A i \in 0..r : less[i] = path[i]
        /\ 0 \in 0..r /\ r \in 0..r /\ r \in 0..n
    BY <2>2, <2>3
  <2> HIDE DEF less
  <2>5. ASSUME NEW i \in 1..r PROVE RefersTo(less[i - 1], less[i]) \/ RefersTo(less[i], less[i - 1])
    <3>1. i \in 0..r /\ i - 1 \in 0..r /\ i \in 1..n
      BY <2>3
    <3> QED BY <2>2, <2>4, <3>1
  <2>6. Walk(a, less[r], r)
    BY <2>2, <2>4, <2>5 DEF Walk
  <2>7. less[r] \in DOMAIN snapshot /\ less[r] = path[r]
    BY <2>4
  <2>8. path[r] \in Near(r)
    BY <2>4, <2>6, <2>7 DEF Near
  <2>9. n \in 1..n /\ n - 1 = r
    BY <2>3
  <2>10. Adjacent(path[r], b)
    BY <2>2, <2>9 DEF Adjacent
  <2> QED BY <2>8, <2>10
<1> QED BY <1>1, <1>2, <1>3

\* Once no key leads out, further rounds add nothing.
LEMMA NearClosed ==
    ASSUME InputOK, NEW r \in Nat, NEW k \in Nat, r <= k,
           \A a \in Near(r), b \in DOMAIN snapshot : Adjacent(a, b) => b \in Near(r)
    PROVE  Near(k) = Near(r)
<1> DEFINE Missed == {m \in Nat : r <= m /\ Near(m) # Near(r)}
<1>1. SUFFICES ASSUME Missed # {} PROVE FALSE
  OBVIOUS
<1>2. PICK m \in Missed : \A n \in Missed : m <= n
  <2>1. Missed \subseteq Nat
    OBVIOUS
  <2> HIDE DEF Missed
  <2> QED BY <1>1, <2>1, LeastOf
<1>3. m \in Nat /\ r <= m /\ Near(m) # Near(r) /\ m # r
  OBVIOUS
<1>4. m - 1 \in Nat /\ r <= m - 1 /\ (m - 1) + 1 = m
  BY <1>3
<1>5. m - 1 \notin Missed
  <2> HIDE DEF Missed
  <2> QED BY <1>2, <1>3, <1>4
<1>6. Near(m - 1) = Near(r)
  BY <1>4, <1>5
<1>7. \A b \in DOMAIN snapshot : b \in Near(m) <=> b \in Near(r) \/ \E a \in Near(r) : Adjacent(a, b)
  <2>1. \A b \in DOMAIN snapshot :
            b \in Near((m - 1) + 1) <=> b \in Near(m - 1) \/ \E a \in Near(m - 1) : Adjacent(a, b)
    BY <1>4, NearStep
  <2> QED BY <1>4, <1>6, <2>1
<1>8. Near(m) \subseteq DOMAIN snapshot /\ Near(r) \subseteq DOMAIN snapshot
  BY DEF Near
<1>9. Near(m) = Near(r)
  BY <1>7, <1>8
<1> QED BY <1>3, <1>9

-----------------------------------------------------------------------------
(* The steps *)

\* No step changes the snapshot or the query.
LEMMA InputStays ==
    ASSUME UNCHANGED input
    PROVE  /\ UNCHANGED <<snapshot, query, Names, Hits, HitRows>>
           /\ InputOK' <=> InputOK
           /\ \A i : NameOf(i)' = NameOf(i)
           /\ \A R : NamesOf(R)' = NamesOf(R)
           /\ \A a, b : Adjacent(a, b)' <=> Adjacent(a, b)
           /\ \A r : Near(r)' = Near(r)
<1>1. snapshot' = snapshot /\ query' = query
  BY DEF input
<1>2. \A t : Score(t)' = Score(t)
  BY <1>1 DEF Score
<1>3. \A i : NameOf(i)' = NameOf(i)
  BY <1>1 DEF NameOf
<1>4. \A R : NamesOf(R)' = NamesOf(R)
  BY <1>3 DEF NamesOf
<1>5. \A name : Get(name)' = Get(name)
  BY <1>1 DEF Get
<1>6. \A a, b : RefersTo(a, b)' <=> RefersTo(a, b)
  BY <1>1, <1>5 DEF RefersTo, Resolves
<1>7. \A a, b : Adjacent(a, b)' <=> Adjacent(a, b)
  BY <1>6 DEF Adjacent
<1>8. \A a, b, n : Walk(a, b, n)' <=> Walk(a, b, n)
  BY <1>1, <1>6 DEF Walk
<1>9. HitRows' = HitRows
  BY <1>1, <1>2 DEF HitRows
<1>10. \A r : Near(r)' = Near(r)
  BY <1>1, <1>8, <1>9 DEF Near
<1>11. Hits' = Hits
  BY <1>1, <1>2 DEF Hits
<1>12. InputOK' <=> InputOK
  BY <1>1, <1>3 DEF InputOK
<1>13. Names' = Names
  BY <1>1 DEF Names
<1> QED BY <1>1, <1>3, <1>4, <1>7, <1>9, <1>10, <1>11, <1>12, <1>13

LEMMA SelectionInit == Unambiguous /\ Init => SelectionInv
<1> SUFFICES ASSUME Unambiguous, Init PROVE SelectionInv
  OBVIOUS
<1>1. PICK n \in 0..Len(Catalog) :
          \E refs \in [1..n -> {{}} \cup {{r} : r \in References}] :
              snapshot = [i \in 1..n |-> [schema |-> Catalog[i].schema, name |-> Catalog[i].name,
                                          columns |-> Catalog[i].columns, refs |-> refs[i]]]
  BY DEF Init, Snapshots
<1>2. PICK refs \in [1..n -> {{}} \cup {{r} : r \in References}] :
          snapshot = [i \in 1..n |-> [schema |-> Catalog[i].schema, name |-> Catalog[i].name,
                                      columns |-> Catalog[i].columns, refs |-> refs[i]]]
  BY <1>1
<1>3. n \in Nat /\ DOMAIN snapshot = 1..n /\ \A i \in 1..n : i \in DOMAIN Catalog
  BY <1>2, CatalogAssumption
<1>4. \A i \in 1..n : Catalog[i] \in [schema : STRING, name : STRING, columns : SUBSET STRING]
  BY <1>3, CatalogAssumption, ElementOfSeq, LenProperties
<1>5. \A i \in 1..n :
          /\ snapshot[i].schema = Catalog[i].schema /\ snapshot[i].name = Catalog[i].name
          /\ snapshot[i] \in Tables
  <2> SUFFICES ASSUME NEW i \in 1..n
               PROVE  /\ snapshot[i].schema = Catalog[i].schema /\ snapshot[i].name = Catalog[i].name
                      /\ snapshot[i] \in Tables
    OBVIOUS
  <2>1. refs[i] \in SUBSET References
    BY <1>2
  <2>2. snapshot[i] = [schema |-> Catalog[i].schema, name |-> Catalog[i].name,
                       columns |-> Catalog[i].columns, refs |-> refs[i]]
    BY <1>2
  <2> QED BY <1>4, <2>1, <2>2 DEF Tables
<1>6. snapshot \in Seq(Tables)
  <2>1. snapshot \in [1..n -> Tables]
    <3>1. snapshot = [i \in 1..n |-> snapshot[i]]
      BY <1>2
    <3> QED BY <1>5, <3>1
  <2> QED BY <1>3, <2>1
<1>7. \A i, j \in DOMAIN snapshot : NameOf(i) \in Keys(snapshot[j]) => i = j
  <2>1. \A i \in 1..n : /\ Qualified(snapshot[i]) = Qualified(Catalog[i])
                       /\ Keys(snapshot[i]) = Keys(Catalog[i])
    BY <1>5 DEF Qualified, Keys
  <2> QED BY <1>3, <2>1 DEF Unambiguous, NameOf
<1>8. InputOK
  BY <1>6, <1>7 DEF Init, InputOK
<1>9. pc = "schema" /\ matched = <<>> /\ related = <<>> /\ rounds = Depth /\ shown = <<>> /\ dropped = <<>>
      /\ strategy = "none"
  BY DEF Init
<1> QED BY <1>8, <1>9 DEF SelectionInv, AfterSelection, AfterRendering

\* The steps that leave the selection and the tables of the block alone.
LEMMA SelectionStays ==
    ASSUME SelectionInv, UNCHANGED <<input, selection, shown, omitted, dropped>>,
           pc' = pc \/ (AfterSelection /\ AfterSelection'),
           (AfterRendering /\ strategy # "none" => Named)'
    PROVE  SelectionInv'
<1>1. UNCHANGED <<strategy, matched, related, frontier, rounds, shown, omitted, dropped>>
  BY DEF selection
<1>2. Selected' <=> Selected
  BY <1>1, InputStays DEF Selected, Elements
<1>3. Seen' = Seen
  BY <1>1 DEF Seen, Elements
<1>4. Expanding' <=> Expanding
  BY <1>1, <1>2, <1>3, InputStays DEF Expanding
<1>5. Shown' <=> Shown
  <2>1. \A s : Elements(s)' = Elements(s)
    BY DEF Elements
  <2> QED BY <1>1, <2>1, InputStays DEF Shown
<1>6. /\ AfterSelection' <=> AfterSelection
      /\ (pc' = "schema" <=> pc = "schema") /\ (pc' = "expand" <=> pc = "expand")
  BY DEF AfterSelection
<1> QED BY <1>1, <1>2, <1>3, <1>4, <1>5, <1>6, InputStays DEF SelectionInv

LEMMA SkipStep ==
    ASSUME SelectionInv, NoSchema \/ ShowNone \/ Rendered
    PROVE  SelectionInv'
<1>1. CASE Rendered
  <2>1. /\ pc = "render" /\ pc' = "rag" /\ UNCHANGED <<input, selection, shown, omitted, dropped>>
        /\ named' = Prefix(NotShown, MaxNamed) /\ more' = Len(NotShown) - Len(named')
    BY <1>1 DEF Rendered
  <2>2. NotShown' = NotShown
    BY <2>1 DEF NotShown
  <2>3. Named'
    BY <2>1, <2>2 DEF Named, Prefix
  <2> QED BY <2>1, <2>3, SelectionStays DEF AfterSelection
<1>2. CASE NoSchema \/ ShowNone
  <2>1. /\ pc = "schema" /\ AfterSelection' /\ UNCHANGED <<input, selection, block>>
    BY <1>2 DEF NoSchema, ShowNone, AfterSelection
  <2>2. UNCHANGED <<strategy, matched, related, frontier, rounds, shown, omitted, dropped>>
    BY <2>1 DEF selection, block
  <2>3. strategy = "none"
    BY <2>1 DEF SelectionInv
  <2> QED BY <2>1, <2>2, InputStays DEF SelectionInv, AfterSelection, AfterRendering
<1> QED BY <1>1, <1>2

LEMMA MatchStep ==
    ASSUME SelectionInv, Match
    PROVE  SelectionInv'
<1>1. /\ pc = "schema" /\ Hits # {} /\ strategy' = "lexical" /\ matched' = ByScore(Hits)
      /\ frontier' = Hits /\ pc' = "expand" /\ UNCHANGED <<input, related, rounds, shown, omitted, dropped>>
  BY DEF Match, block
<1>2. InputOK /\ related = <<>> /\ rounds = Depth /\ shown = <<>> /\ dropped = <<>>
  BY <1>1 DEF SelectionInv, AfterSelection
<1>3. InputOK' /\ Names' = Names /\ Hits' = Hits /\ HitRows' = HitRows
  BY <1>1, <1>2, InputStays
<1>4. matched' \in Seq(Names) /\ IsInjective(matched') /\ Elements(matched') = Hits
  BY <1>1, <1>2, HitsSorted
<1>5. related' = <<>> /\ Elements(related') = {}
  BY <1>1, <1>2 DEF Elements
<1>6. Selected'
  <2>1. matched' \in Seq(Names') /\ IsInjective(matched') /\ Elements(matched') = Hits'
    BY <1>3, <1>4
  <2>2. related' \in Seq(Names') /\ IsInjective(related')
    BY <1>5 DEF IsInjective
  <2>3. Elements(matched') \cap Elements(related') = {}
    BY <1>5
  <2> QED BY <2>1, <2>2, <2>3 DEF Selected, Elements, IsInjective
<1>7. Seen' = Hits
  <2>1. Elements(matched') \cup Elements(related') = Hits
    BY <1>4, <1>5
  <2> QED BY <2>1 DEF Seen, Elements
<1>8. Hits = NamesOf(HitRows)
  BY DEF Hits, NamesOf, HitRows, NameOf
<1>9. NamesOf(Near(Depth - rounds))' = NamesOf(HitRows)
  <2>1. Depth - rounds' = 0
    BY <1>1, <1>2, TablesAssumption
  <2>2. Near(0) = HitRows
    BY <1>2, NearZero
  <2>3. NamesOf(Near(0))' = NamesOf(HitRows)
    BY <1>1, <2>2, InputStays
  <2> QED BY <2>1, <2>3
<1>10. matched' # <<>>
  <2> SUFFICES ASSUME matched' = <<>> PROVE FALSE
    OBVIOUS
  <2>1. Elements(matched') = {}
    BY DEF Elements
  <2> QED BY <1>1, <1>4, <2>1
<1>11. rounds' \in 0..Depth
  BY <1>1, <1>2, TablesAssumption
<1>12. Expanding'
  <2>1. Seen' = NamesOf(Near(Depth - rounds))'
    BY <1>7, <1>8, <1>9
  <2>2. frontier' = Seen' /\ Seen' \ frontier' = {}
    BY <1>1, <1>7
  <2> QED BY <1>1, <1>6, <1>10, <1>11, <2>1, <2>2 DEF Expanding
<1> QED BY <1>1, <1>2, <1>3, <1>12 DEF SelectionInv, AfterSelection, AfterRendering

\* A round of expansion goes one key further.
LEMMA NextRound ==
    ASSUME InputOK, NEW r \in Nat, Seen = NamesOf(Near(r)), frontier \subseteq Seen,
           \A a, b \in DOMAIN snapshot :
               Adjacent(a, b) /\ NameOf(a) \in Seen \ frontier => NameOf(b) \in Seen
    PROVE  /\ Seen \cup NextFrontier = NamesOf(Near(r + 1))
           /\ \A a, b \in DOMAIN snapshot :
                  Adjacent(a, b) /\ NameOf(a) \in Seen => NameOf(b) \in Seen \cup NextFrontier
<1>1. \A q : Near(q) \subseteq DOMAIN snapshot
  BY DEF Near
<1>2. ASSUME NEW name \in frontier
      PROVE  Get(name) \in Near(r)
  <2>1. PICK i \in Near(r) : name = NameOf(i)
    BY DEF NamesOf
  <2> QED BY <1>1, <2>1, GetFinds
<1>3. ASSUME NEW a \in DOMAIN snapshot, NEW b \in DOMAIN snapshot, Adjacent(a, b), NameOf(a) \in Seen
      PROVE  NameOf(b) \in Seen \cup NextFrontier
  <2>1. CASE NameOf(a) \notin frontier
    BY <1>3, <2>1
  <2>2. CASE NameOf(a) \in frontier
    <3>1. Get(NameOf(a)) = a
      BY GetFinds
    <3>2. RefersTo(Get(NameOf(a)), b) \/ RefersTo(b, Get(NameOf(a)))
      BY <1>3, <3>1 DEF Adjacent
    <3> QED BY <2>2, <3>2 DEF NextFrontier, NameOf
  <2> QED BY <2>1, <2>2
<1>4. ASSUME NEW b \in DOMAIN snapshot, NameOf(b) \in NextFrontier PROVE b \in Near(r + 1)
  <2>1. PICK k \in DOMAIN snapshot :
            /\ NameOf(b) = NameOf(k)
            /\ \E name \in frontier : RefersTo(Get(name), k) \/ RefersTo(k, Get(name))
    BY <1>4 DEF NextFrontier, NameOf
  <2>2. b = k
    BY <2>1, NamesDiffer
  <2>3. PICK name \in frontier : Adjacent(Get(name), b)
    BY <2>1, <2>2 DEF Adjacent
  <2> QED BY <1>2, <2>3, NearStep
<1>5. ASSUME NEW b \in Near(r + 1) PROVE NameOf(b) \in Seen \cup NextFrontier
  <2>1. b \in DOMAIN snapshot
    BY <1>1
  <2>2. b \in Near(r) \/ \E a \in Near(r) : Adjacent(a, b)
    BY <2>1, NearStep
  <2>3. CASE b \in Near(r)
    BY <2>3 DEF NamesOf
  <2>4. ASSUME NEW a \in Near(r), Adjacent(a, b) PROVE NameOf(b) \in Seen \cup NextFrontier
    <3>1. a \in DOMAIN snapshot /\ NameOf(a) \in Seen
      BY <1>1 DEF NamesOf
    <3> QED BY <1>3, <2>1, <2>4, <3>1
  <2> QED BY <2>2, <2>3, <2>4
<1>6. ASSUME NEW name \in Seen \cup NextFrontier PROVE name \in NamesOf(Near(r + 1))
  <2>1. CASE name \in Seen
    <3>1. PICK i \in Near(r) : name = NameOf(i)
      BY <2>1 DEF NamesOf
    <3>2. i \in Near(r + 1)
      BY <1>1, <3>1, NearStep
    <3> QED BY <3>1, <3>2 DEF NamesOf
  <2>2. CASE name \in NextFrontier
    <3>1. PICK i \in DOMAIN snapshot : name = NameOf(i)
      BY <2>2 DEF NextFrontier, NameOf
    <3>2. i \in Near(r + 1)
      BY <1>4, <2>2, <3>1
    <3> QED BY <3>1, <3>2 DEF NamesOf
  <2> QED BY <2>1, <2>2
<1>7. Seen \cup NextFrontier = NamesOf(Near(r + 1))
  <2>1. \A name \in NamesOf(Near(r + 1)) : name \in Seen \cup NextFrontier
    BY <1>5 DEF NamesOf
  <2> QED BY <1>6, <2>1
<1> QED BY <1>3, <1>7

LEMMA ExpandStep ==
    ASSUME SelectionInv, Expand
    PROVE  SelectionInv'
<1> DEFINE next == NextFrontier
           added == AnyOrder(next)
           r == Depth - rounds
<1>1. /\ pc = "expand" /\ pc' = "expand" /\ rounds > 0 /\ related' = related \o added /\ frontier' = next
      /\ rounds' = rounds - 1 /\ UNCHANGED <<input, strategy, matched, shown, omitted, dropped>>
  BY DEF Expand, block
<1>2. InputOK /\ Expanding /\ shown = <<>> /\ dropped = <<>>
  BY <1>1 DEF SelectionInv, AfterSelection
<1>3. r \in Nat /\ rounds \in 0..Depth /\ Depth - rounds' = r + 1 /\ rounds' \in 0..Depth
  BY <1>1, <1>2, TablesAssumption DEF Expanding
<1> HIDE DEF r
<1>4. /\ Seen = NamesOf(Near(r)) /\ frontier \subseteq Seen
      /\ \A a, b \in DOMAIN snapshot :
             Adjacent(a, b) /\ NameOf(a) \in Seen \ frontier => NameOf(b) \in Seen
  BY <1>2 DEF Expanding, r
<1>5. /\ Seen \cup next = NamesOf(Near(r + 1))
      /\ \A a, b \in DOMAIN snapshot :
             Adjacent(a, b) /\ NameOf(a) \in Seen => NameOf(b) \in Seen \cup next
  BY <1>2, <1>3, <1>4, NextRound
<1>6. next \in SUBSET Names /\ next \cap Seen = {}
  BY DEF NextFrontier, Names
<1> HIDE DEF next
<1>7. added \in Seq(next) /\ IsInjective(added) /\ Elements(added) = next
  <2>1. IsFiniteSet(next)
    BY <1>2, <1>6, NamesFinite, FS_Subset
  <2> QED BY <2>1, AllTaken
<1> HIDE DEF added
<1>8. added \in Seq(Names)
  BY <1>6, <1>7, SeqMonotonic
<1>9. Selected
  BY <1>2 DEF Expanding
<1>10. Elements(related) \cap next = {} /\ Elements(matched) \cap next = {}
  BY <1>6 DEF Seen
<1>11. /\ related' \in Seq(Names) /\ IsInjective(related')
       /\ Elements(related') = Elements(related) \cup next
  BY <1>1, <1>7, <1>8, <1>9, <1>10, JoinedLists DEF Selected
<1>12. Names' = Names /\ Hits' = Hits /\ matched' = matched
  BY <1>1, InputStays
<1>13. Selected'
  <2>1. matched' \in Seq(Names') /\ IsInjective(matched') /\ Elements(matched') = Hits'
    BY <1>9, <1>12 DEF Selected
  <2>2. related' \in Seq(Names') /\ IsInjective(related')
    BY <1>11, <1>12
  <2>3. Elements(matched') \cap Elements(related') = {}
    BY <1>9, <1>10, <1>11, <1>12 DEF Selected
  <2> QED BY <2>1, <2>2, <2>3 DEF Selected, Elements, IsInjective
<1>14. Seen' = Seen \cup next
  <2>1. Elements(matched') \cup Elements(related') = Seen \cup next
    BY <1>11, <1>12 DEF Seen
  <2> QED BY <2>1 DEF Seen, Elements
<1>15. NamesOf(Near(Depth - rounds))' = NamesOf(Near(r + 1))
  BY <1>1, <1>3, InputStays
<1>16. Expanding'
  <2>1. Seen' \ frontier' = Seen /\ frontier' \subseteq Seen'
    BY <1>1, <1>6, <1>14
  <2>2. ASSUME NEW a \in DOMAIN snapshot, NEW b \in DOMAIN snapshot,
               Adjacent(a, b)', NameOf(a)' \in Seen' \ frontier'
        PROVE  NameOf(b)' \in Seen'
    <3>1. Adjacent(a, b) /\ NameOf(a) \in Seen
      BY <1>1, <2>1, <2>2, InputStays
    <3>2. NameOf(b) \in Seen'
      BY <1>5, <1>14, <3>1
    <3> QED BY <1>1, <3>2, InputStays
  <2>3. snapshot' = snapshot
    BY <1>1, InputStays
  <2>4. matched' # <<>> /\ strategy' = "lexical"
    BY <1>1, <1>2 DEF Expanding
  <2>5. Seen' = NamesOf(Near(Depth - rounds))'
    BY <1>5, <1>14, <1>15
  <2> QED BY <1>3, <1>13, <2>1, <2>2, <2>3, <2>4, <2>5 DEF Expanding
<1> QED BY <1>1, <1>2, <1>16, InputStays DEF SelectionInv, AfterSelection, AfterRendering

\* When a round adds nothing, or none is left, all the tables within Depth keys are seen.
LEMMA ClosureReached ==
    ASSUME InputOK, Expanding, rounds = 0 \/ NextFrontier = {}
    PROVE  Seen = NamesOf(Near(Depth))
<1> DEFINE r == Depth - rounds
<1>1. r \in Nat /\ r <= Depth /\ Depth \in Nat
  BY TablesAssumption DEF Expanding
<1>2. CASE rounds = 0
  <2>1. r = Depth
    BY <1>2, TablesAssumption
  <2> QED BY <2>1 DEF Expanding
<1>3. CASE NextFrontier = {}
  <2> HIDE DEF r
  <2>1. /\ Seen = NamesOf(Near(r)) /\ frontier \subseteq Seen
        /\ \A a, b \in DOMAIN snapshot :
               Adjacent(a, b) /\ NameOf(a) \in Seen \ frontier => NameOf(b) \in Seen
    BY DEF Expanding, r
  <2>2. \A a, b \in DOMAIN snapshot : Adjacent(a, b) /\ NameOf(a) \in Seen => NameOf(b) \in Seen
    BY <1>1, <1>3, <2>1, NextRound
  <2>3. ASSUME NEW a \in Near(r), NEW b \in DOMAIN snapshot, Adjacent(a, b) PROVE b \in Near(r)
    <3>1. a \in DOMAIN snapshot /\ NameOf(a) \in Seen
      BY <2>1 DEF Near, NamesOf
    <3>2. NameOf(b) \in NamesOf(Near(r))
      BY <2>1, <2>2, <2>3, <3>1
    <3>3. PICK c \in Near(r) : NameOf(b) = NameOf(c)
      BY <3>2 DEF NamesOf
    <3>4. c \in DOMAIN snapshot
      BY DEF Near
    <3> QED BY <3>3, <3>4, NamesDiffer
  <2>4. Near(Depth) = Near(r)
    BY <1>1, <2>3, NearClosed
  <2> QED BY <2>1, <2>4
<1> QED BY <1>2, <1>3

\* The first names of a list, and the tables that they find: the others are left out.
LEMMA PrefixTaken ==
    ASSUME NEW S, NEW all \in Seq(S), NEW m \in Nat, m <= Len(all)
    PROVE  /\ DOMAIN SubSeq(all, 1, m) = 1..m
           /\ \A i \in 1..m : SubSeq(all, 1, m)[i] = all[i] /\ all[i] \in S /\ i \in DOMAIN all
<1> DEFINE kept == SubSeq(all, 1, m)
<1>1. DOMAIN all = 1..Len(all) /\ Len(all) \in Nat
  BY LenProperties
<1>2. \A i \in 1..m : i \in DOMAIN all /\ all[i] \in S
  BY <1>1, ElementOfSeq
<1>3. /\ kept \in Seq(S) /\ Len(kept) = IF 1 <= m THEN m - 1 + 1 ELSE 0
      /\ \A i \in 1..(m - 1 + 1) : kept[i] = all[1 + i - 1]
  BY <1>1, <1>2, SubSeqProperties
<1>4. m - 1 + 1 = m /\ \A i \in 1..m : 1 + i - 1 = i
  OBVIOUS
<1> HIDE DEF kept
<1>5. Len(kept) = m
  BY <1>3
<1>6. DOMAIN kept = 1..m
  BY <1>3, <1>5, LenProperties
<1> QED BY <1>2, <1>3, <1>4, <1>6 DEF kept

LEMMA PrefixShown ==
    ASSUME InputOK, NEW all \in Seq(Names), IsInjective(all), NEW m \in Nat, m <= Len(all),
           NEW s \in [1..m -> DOMAIN snapshot], \A i \in 1..m : s[i] = Get(all[i])
    PROVE  /\ s \in Seq(DOMAIN snapshot) /\ IsInjective(s) /\ Len(s) = m /\ DOMAIN s = 1..m
           /\ \A i \in 1..m : NameOf(s[i]) = all[i]
<1>1. \A i \in 1..m : i \in DOMAIN all /\ all[i] \in Names
  BY PrefixTaken
<1>2. DOMAIN s = 1..m /\ \A i \in 1..m : NameOf(s[i]) = all[i]
  BY <1>1, NameGiven
<1>3. s \in Seq(DOMAIN snapshot) /\ Len(s) = m
  OBVIOUS
<1>4. IsInjective(s)
  <2> SUFFICES ASSUME NEW i \in 1..m, NEW j \in 1..m, s[i] = s[j] PROVE i = j
    BY <1>2 DEF IsInjective
  <2>1. all[i] = all[j]
    BY <1>2
  <2> QED BY <1>1, <2>1 DEF IsInjective
<1> QED BY <1>2, <1>3, <1>4

LEMMA CutStep ==
    ASSUME SelectionInv, Cut
    PROVE  SelectionInv'
<1> DEFINE all == matched \o related
           m == AtMost(MaxTables, Len(all))
<1>1. /\ pc = "expand" /\ pc' = "render" /\ (rounds = 0 \/ NextFrontier = {})
      /\ shown' = [i \in DOMAIN Kept |-> Get(Kept[i])] /\ omitted' = NamesInOrder(Omitted)
      /\ UNCHANGED <<input, strategy, matched, related, frontier, rounds, dropped>>
  BY DEF Cut, selection
<1>2. InputOK /\ Expanding /\ Selected /\ dropped = <<>> /\ matched # <<>> /\ strategy = "lexical"
  BY <1>1 DEF SelectionInv, AfterSelection, Expanding
<1>3. Seen = NamesOf(Near(Depth))
  BY <1>1, <1>2, ClosureReached
<1>4. all \in Seq(Names) /\ IsInjective(all)
  BY <1>2, JoinedLists DEF Selected
<1>5. m \in Nat /\ m <= Len(all) /\ Kept = SubSeq(all, 1, m)
  <2>1. Len(all) \in Nat
    BY <1>4
  <2>2. Kept = SubSeq(all, 1, m)
    BY DEF Kept, Prefix
  <2> HIDE DEF all
  <2> QED BY <2>1, <2>2, TablesAssumption DEF AtMost
<1> HIDE DEF all, m
<1>6. /\ shown' \in Seq(DOMAIN snapshot) /\ IsInjective(shown') /\ Len(shown') = m
      /\ \A i \in DOMAIN shown' : NameOf(shown'[i]) = all[i]
      /\ NamesOf(Elements(shown')) = Elements(Kept) /\ Elements(Kept) \subseteq Names
  <2>1. /\ DOMAIN Kept = 1..m
        /\ \A i \in 1..m : Kept[i] = all[i] /\ all[i] \in Names
    BY <1>4, <1>5, PrefixTaken
  <2>2. /\ shown' = [i \in 1..m |-> Get(Kept[i])]
        /\ \A i \in 1..m : Kept[i] \in Names /\ Get(Kept[i]) = Get(all[i])
    BY <1>1, <2>1
  <2>3. \A i \in 1..m : Get(Kept[i]) \in DOMAIN snapshot
    BY <1>2, <2>2, NameGiven
  <2>4. shown' \in [1..m -> DOMAIN snapshot] /\ \A i \in 1..m : shown'[i] = Get(all[i])
    BY <2>2, <2>3
  <2>5. /\ shown' \in Seq(DOMAIN snapshot) /\ IsInjective(shown') /\ Len(shown') = m
        /\ DOMAIN shown' = 1..m /\ \A i \in 1..m : NameOf(shown'[i]) = all[i]
    BY <1>2, <1>4, <1>5, <2>4, PrefixShown
  <2>6. Elements(Kept) = {all[i] : i \in 1..m}
    BY <2>1 DEF Elements
  <2>7. NamesOf(Elements(shown')) = {all[i] : i \in 1..m}
    BY <2>5 DEF NamesOf, Elements
  <2> QED BY <2>1, <2>5, <2>6, <2>7
<1>7. /\ omitted' \in Seq(Names) /\ IsInjective(omitted') /\ Elements(omitted') = Names \ Elements(Kept)
      /\ dropped' \in Seq(Names) /\ IsInjective(dropped') /\ Elements(dropped') = {}
  <2>1. Omitted \in SUBSET DOMAIN snapshot /\ NamesOf(Omitted) = Names \ Elements(Kept)
    BY DEF Omitted, NamesOf, NameOf, Names
  <2>2. dropped' \in Seq(Names) /\ IsInjective(dropped') /\ Elements(dropped') = {}
    BY <1>1, <1>2 DEF Elements, IsInjective
  <2> QED BY <1>1, <1>2, <2>1, <2>2, OrderedNames
<1>8. UNCHANGED <<snapshot, Names, Hits>> /\ InputOK'
  BY <1>1, <1>2, InputStays
<1>9. Shown'
  <2>1. shown' \in Seq(DOMAIN snapshot') /\ IsInjective(shown')
    BY <1>6, <1>8
  <2>2. NamesOf(Elements(shown))' = Elements(Kept)
    <3>1. NamesOf(Elements(shown))' = NamesOf(Elements(shown'))
      BY <1>1, InputStays DEF Elements
    <3> QED BY <1>6, <3>1
  <2>3. (Elements(omitted) \cup Elements(dropped))' = Names \ Elements(Kept)
    <3>1. Elements(dropped)' = {} /\ Elements(omitted)' = Names \ Elements(Kept)
      BY <1>7 DEF Elements
    <3> QED BY <3>1
  <2>4. (matched \o related)' = all
    BY <1>1 DEF all
  <2>5. Len(shown') <= Len(all)
    BY <1>5, <1>6
  <2>6. \A i \in DOMAIN shown' : NameOf(shown[i])' = all[i]
    BY <1>1, <1>6, InputStays
  <2>7. /\ Elements(Kept) \cup (Names \ Elements(Kept)) = Names
        /\ Elements(Kept) \cap (Names \ Elements(Kept)) = {}
    BY <1>6
  <2>8. (NamesOf(Elements(shown)) \cup (Elements(omitted) \cup Elements(dropped)) = Names)'
    BY <1>8, <2>2, <2>3, <2>7
  <2>9. (NamesOf(Elements(shown)) \cap (Elements(omitted) \cup Elements(dropped)) = {})'
    BY <2>2, <2>3, <2>7
  <2>10. omitted' \in Seq(Names') /\ IsInjective(omitted') /\ dropped' \in Seq(Names') /\ IsInjective(dropped')
    BY <1>7, <1>8
  <2>11. (Elements(omitted) \cap Elements(dropped) = {})'
    BY <1>7 DEF Elements
  <2> QED BY <2>1, <2>4, <2>5, <2>6, <2>8, <2>9, <2>10, <2>11 DEF Shown, IsInjective
<1>10. Selected' /\ Seen' = NamesOf(Near(Depth))'
  <2>1. Selected'
    BY <1>1, <1>2, InputStays DEF Selected, Elements
  <2>2. Seen' = Seen
    BY <1>1 DEF Seen, Elements
  <2>3. NamesOf(Near(Depth))' = NamesOf(Near(Depth))
    BY <1>1, InputStays
  <2> QED BY <1>3, <2>1, <2>2, <2>3
<1> QED BY <1>1, <1>2, <1>8, <1>9, <1>10 DEF SelectionInv, AfterSelection, AfterRendering

LEMMA ShowAllStep ==
    ASSUME SelectionInv, ShowAll
    PROVE  SelectionInv'
<1> DEFINE n == Len(snapshot)
           m == AtMost(MaxTables, n)
<1>1. /\ pc = "schema" /\ pc' = "render" /\ strategy' = "all"
      /\ shown' = [i \in 1..m |-> i]
      /\ omitted' = NamesInOrder(DOMAIN snapshot \ DOMAIN shown')
      /\ UNCHANGED <<input, matched, related, frontier, rounds, dropped>>
  BY DEF ShowAll
<1>2. InputOK /\ matched = <<>> /\ related = <<>> /\ dropped = <<>>
  BY <1>1 DEF SelectionInv, AfterSelection
<1>3. n \in Nat /\ DOMAIN snapshot = 1..n /\ m \in Nat /\ m <= n
  <2>1. n \in Nat /\ DOMAIN snapshot = 1..n
    BY <1>2 DEF InputOK
  <2> HIDE DEF n
  <2> QED BY <2>1, TablesAssumption DEF AtMost
<1> HIDE DEF n, m
<1>4. DOMAIN shown' = 1..m /\ \A i \in 1..m : shown'[i] = i /\ i \in DOMAIN snapshot
  BY <1>1, <1>3
<1>5. shown' \in Seq(DOMAIN snapshot) /\ IsInjective(shown')
  <2>1. shown' \in [1..m -> DOMAIN snapshot]
    BY <1>1, <1>4
  <2>2. shown' \in Seq(DOMAIN snapshot)
    BY <1>3, <2>1
  <2>3. IsInjective(shown')
    BY <1>4 DEF IsInjective
  <2> QED BY <2>2, <2>3
<1>6. UNCHANGED <<snapshot, Names>> /\ InputOK'
  BY <1>1, <1>2, InputStays
<1>7. Elements(shown') = 1..m
  BY <1>4 DEF Elements
<1>8. /\ omitted' \in Seq(Names) /\ IsInjective(omitted')
      /\ Elements(omitted') = NamesOf(DOMAIN snapshot \ (1..m))
      /\ dropped' \in Seq(Names) /\ IsInjective(dropped') /\ Elements(dropped') = {}
  <2>1. omitted' = NamesInOrder(DOMAIN snapshot \ (1..m)) /\ DOMAIN snapshot \ (1..m) \in SUBSET DOMAIN snapshot
    BY <1>1, <1>4
  <2>2. dropped' \in Seq(Names) /\ IsInjective(dropped') /\ Elements(dropped') = {}
    BY <1>1, <1>2 DEF Elements, IsInjective
  <2> QED BY <1>2, <2>1, <2>2, OrderedNames
<1>9. /\ NamesOf(1..m) \cup NamesOf(DOMAIN snapshot \ (1..m)) = Names
      /\ NamesOf(1..m) \cap NamesOf(DOMAIN snapshot \ (1..m)) = {}
  <2>1. 1..m \subseteq DOMAIN snapshot
    BY <1>4
  <2>2. Names = NamesOf(DOMAIN snapshot)
    BY DEF Names, NamesOf, NameOf
  <2>3. NamesOf(1..m) \cup NamesOf(DOMAIN snapshot \ (1..m)) = NamesOf(DOMAIN snapshot)
    BY <2>1 DEF NamesOf
  <2>4. \A i \in 1..m, j \in DOMAIN snapshot \ (1..m) : NameOf(i) # NameOf(j)
    BY <1>2, <2>1, NamesDiffer
  <2>5. NamesOf(1..m) \cap NamesOf(DOMAIN snapshot \ (1..m)) = {}
    BY <2>4 DEF NamesOf
  <2> QED BY <2>2, <2>3, <2>5
<1>10. Shown'
  <2>1. NamesOf(Elements(shown))' = NamesOf(1..m)
    <3>1. NamesOf(Elements(shown))' = NamesOf(Elements(shown'))
      BY <1>1, InputStays DEF Elements
    <3> QED BY <1>7, <3>1
  <2>2. (Elements(omitted) \cup Elements(dropped))' = NamesOf(DOMAIN snapshot \ (1..m))
    <3>1. Elements(dropped)' = {} /\ Elements(omitted)' = NamesOf(DOMAIN snapshot \ (1..m))
      BY <1>8 DEF Elements
    <3> QED BY <3>1
  <2>3. matched' = <<>>
    BY <1>1, <1>2
  <2>4. (NamesOf(Elements(shown)) \cup (Elements(omitted) \cup Elements(dropped)) = Names)'
    BY <1>6, <1>9, <2>1, <2>2
  <2>5. (NamesOf(Elements(shown)) \cap (Elements(omitted) \cup Elements(dropped)) = {})'
    BY <1>9, <2>1, <2>2
  <2>6. shown' \in Seq(DOMAIN snapshot') /\ IsInjective(shown')
    BY <1>5, <1>6
  <2>7. omitted' \in Seq(Names') /\ IsInjective(omitted') /\ dropped' \in Seq(Names') /\ IsInjective(dropped')
    BY <1>6, <1>8
  <2>8. (Elements(omitted) \cap Elements(dropped) = {})'
    BY <1>8 DEF Elements
  <2> QED BY <2>3, <2>4, <2>5, <2>6, <2>7, <2>8 DEF Shown, IsInjective
<1>11. matched' = <<>> /\ pc' = "render" /\ strategy' = "all"
  BY <1>1, <1>2
<1> QED BY <1>6, <1>10, <1>11 DEF SelectionInv, AfterSelection, AfterRendering

LEMMA FrontElements ==
    ASSUME NEW S, NEW x \in S, NEW s \in Seq(S)
    PROVE  /\ <<x>> \o s \in Seq(S) /\ Elements(<<x>> \o s) = {x} \cup Elements(s)
           /\ IsInjective(s) /\ x \notin Elements(s) => IsInjective(<<x>> \o s)
<1> DEFINE r == <<x>> \o s
           n == Len(s)
<1>1. n \in Nat /\ DOMAIN s = 1..n
  OBVIOUS
<1>2. /\ r \in Seq(S) /\ Len(r) = 1 + n
      /\ \A i \in 1..(1 + n) : r[i] = IF i <= 1 THEN x ELSE s[i - 1]
  <2>1. <<x>> \in Seq(S) /\ Len(<<x>>) = 1 /\ <<x>>[1] = x
    OBVIOUS
  <2> HIDE DEF n
  <2>2. /\ r \in Seq(S) /\ Len(r) = Len(<<x>>) + Len(s)
        /\ \A i \in 1..(Len(<<x>>) + Len(s)) :
               r[i] = IF i <= Len(<<x>>) THEN <<x>>[i] ELSE s[i - Len(<<x>>)]
    BY <2>1, ConcatProperties
  <2>3. \A i \in 1..(1 + n) : i <= 1 => i = 1
    BY <1>1
  <2> QED BY <2>1, <2>2, <2>3 DEF n
<1> HIDE DEF r, n
<1>3. DOMAIN r = 1..(1 + n)
  BY <1>2, LenProperties
<1>4. \A i \in 1..n : i + 1 \in 1..(1 + n) /\ r[i + 1] = s[i]
  BY <1>1, <1>2
<1>5. 1 \in 1..(1 + n) /\ r[1] = x
  BY <1>1, <1>2
<1>6. \A i \in 1..(1 + n) : i = 1 \/ (i - 1 \in 1..n /\ r[i] = s[i - 1])
  BY <1>1, <1>2
<1>7. Elements(r) = {x} \cup Elements(s)
  <2>1. Elements(r) = {r[i] : i \in 1..(1 + n)} /\ Elements(s) = {s[i] : i \in 1..n}
    BY <1>1, <1>3 DEF Elements
  <2>2. ASSUME NEW i \in 1..(1 + n) PROVE r[i] \in {x} \cup Elements(s)
    BY <1>5, <1>6, <2>1
  <2>3. ASSUME NEW i \in 1..n PROVE s[i] \in Elements(r)
    BY <1>4, <2>1
  <2>4. x \in Elements(r)
    BY <1>5, <2>1
  <2> QED BY <2>1, <2>2, <2>3, <2>4
<1>8. ASSUME IsInjective(s), x \notin Elements(s) PROVE IsInjective(r)
  <2> SUFFICES ASSUME NEW i \in 1..(1 + n), NEW j \in 1..(1 + n), r[i] = r[j] PROVE i = j
    BY <1>3 DEF IsInjective
  <2>1. \A h \in 1..n : s[h] # x
    BY <1>1, <1>8 DEF Elements
  <2>2. \A g, h \in 1..n : s[g] = s[h] => g = h
    BY <1>1, <1>8 DEF IsInjective
  <2>3. CASE i = 1 \/ j = 1
    BY <1>5, <1>6, <2>1, <2>3
  <2>4. CASE i # 1 /\ j # 1
    <3>1. i - 1 \in 1..n /\ j - 1 \in 1..n /\ s[i - 1] = s[j - 1]
      BY <1>6, <2>4
    <3>2. i - 1 = j - 1
      BY <2>2, <3>1
    <3> QED BY <1>1, <3>2
  <2> QED BY <2>3, <2>4
<1> QED BY <1>2, <1>7, <1>8 DEF r

\* The last table of the block moves from what is shown to what is not.
LEMMA DropStep ==
    ASSUME SelectionInv, Drop
    PROVE  SelectionInv'
<1> DEFINE n == Len(shown)
           last == NameOf(shown[n])
<1>1. /\ pc = "render" /\ n > 1 /\ dropped' = <<last>> \o dropped
      /\ shown' = SubSeq(shown, 1, n - 1)
      /\ UNCHANGED <<input, pc, strategy, matched, related, frontier, rounds, omitted>>
  BY DEF Drop, selection, NameOf
<1>2. InputOK /\ strategy # "none"
  <2>1. CASE strategy = "none"
    <3>1. shown = <<>> /\ Len(<<>>) = 0
      BY <2>1 DEF SelectionInv
    <3> QED BY <1>1, <3>1
  <2> QED BY <2>1 DEF SelectionInv
<1>3. AfterSelection /\ AfterSelection' /\ pc' = "render"
  BY <1>1 DEF AfterSelection
<1>4. Shown
  BY <1>2, <1>3 DEF SelectionInv
<1>5. /\ shown \in Seq(DOMAIN snapshot) /\ n \in Nat /\ DOMAIN shown = 1..n
      /\ \A i, j \in 1..n : shown[i] = shown[j] => i = j
      /\ \A i \in 1..n : shown[i] \in DOMAIN snapshot
  <2>1. shown \in Seq(DOMAIN snapshot) /\ IsInjective(shown)
    BY <1>4 DEF Shown
  <2>2. n \in Nat /\ DOMAIN shown = 1..n
    BY <2>1
  <2>3. \A i \in 1..n : shown[i] \in DOMAIN snapshot
    BY <2>1, ElementOfSeq
  <2> QED BY <2>1, <2>2, <2>3 DEF IsInjective
<1> HIDE DEF n
<1>6. /\ shown' \in Seq(DOMAIN snapshot) /\ Len(shown') = n - 1 /\ DOMAIN shown' = 1..(n - 1)
      /\ \A i \in 1..(n - 1) : shown'[i] = shown[i]
  <2>1. \A i \in 1..(n - 1) : i \in 1..n /\ shown[i] \in DOMAIN snapshot
    BY <1>1, <1>5
  <2>2. /\ shown' \in Seq(DOMAIN snapshot) /\ Len(shown') = n - 1 - 1 + 1
        /\ \A i \in 1..(n - 1 - 1 + 1) : shown'[i] = shown[1 + i - 1]
    BY <1>1, <1>5, <2>1, SubSeqProperties
  <2>3. n - 1 - 1 + 1 = n - 1 /\ \A i \in 1..(n - 1) : 1 + i - 1 = i
    BY <1>5
  <2> QED BY <2>2, <2>3, LenProperties
<1>7. IsInjective(shown')
  <2> SUFFICES ASSUME NEW i \in 1..(n - 1), NEW j \in 1..(n - 1), shown'[i] = shown'[j] PROVE i = j
    BY <1>6 DEF IsInjective
  <2>1. i \in 1..n /\ j \in 1..n /\ shown[i] = shown[j]
    BY <1>5, <1>6
  <2> QED BY <1>5, <2>1
<1> DEFINE before == {NameOf(shown[i]) : i \in 1..n}
           after == {NameOf(shown[i]) : i \in 1..(n - 1)}
<1>8. before = after \cup {last} /\ last \notin after
  <2>1. \A i : i \in 1..n <=> i \in 1..(n - 1) \/ i = n
    BY <1>1, <1>5
  <2>2. before = after \cup {last}
    BY <2>1
  <2>3. ASSUME NEW i \in 1..(n - 1) PROVE NameOf(shown[i]) # last
    <3>1. i \in 1..n /\ n \in 1..n /\ i # n
      BY <1>1, <1>5
    <3>2. shown[i] # shown[n]
      BY <1>5, <3>1
    <3> QED BY <1>2, <1>5, <3>1, <3>2, NamesDiffer
  <2> QED BY <2>2, <2>3
<1>9. NamesOf(Elements(shown)) = before
  BY <1>5 DEF NamesOf, Elements
<1>10. NamesOf(Elements(shown')) = after
  BY <1>6 DEF NamesOf, Elements
<1> HIDE DEF before, after, last
<1>11. /\ dropped' \in Seq(Names) /\ Elements(dropped') = {last} \cup Elements(dropped)
       /\ IsInjective(dropped') /\ last \notin Elements(omitted)
  <2>1. dropped \in Seq(Names) /\ n \in DOMAIN shown /\ shown[n] \in DOMAIN snapshot
    BY <1>1, <1>4, <1>5 DEF Shown
  <2>3. last \notin Elements(omitted) /\ last \notin Elements(dropped) /\ IsInjective(dropped)
    BY <1>4, <1>8, <1>9 DEF Shown
  <2>2. last \in Names
    BY <1>2, <2>1, GetFinds DEF last
  <2> QED BY <1>1, <2>1, <2>2, <2>3, FrontElements
<1>12. UNCHANGED <<snapshot, Names, Hits>> /\ InputOK'
  BY <1>1, <1>2, InputStays
<1>13. Shown'
  <2>1. NamesOf(Elements(shown))' = after
    <3>1. NamesOf(Elements(shown))' = NamesOf(Elements(shown'))
      BY <1>1, InputStays DEF Elements
    <3> QED BY <1>10, <3>1
  <2>2. (Elements(omitted) \cup Elements(dropped))' = (Elements(omitted) \cup Elements(dropped)) \cup {last}
    <3>1. Elements(dropped)' = {last} \cup Elements(dropped) /\ Elements(omitted)' = Elements(omitted)
      BY <1>1, <1>11 DEF Elements
    <3> QED BY <1>1, <3>1
  <2>3. /\ before \cup (Elements(omitted) \cup Elements(dropped)) = Names
        /\ before \cap (Elements(omitted) \cup Elements(dropped)) = {}
    BY <1>4, <1>9 DEF Shown
  <2>4. (NamesOf(Elements(shown)) \cup (Elements(omitted) \cup Elements(dropped)) = Names)'
    BY <1>8, <1>12, <2>1, <2>2, <2>3
  <2>5. (NamesOf(Elements(shown)) \cap (Elements(omitted) \cup Elements(dropped)) = {})'
    BY <1>8, <2>1, <2>2, <2>3
  <2>6. ASSUME matched' # <<>>
        PROVE  /\ Len(shown') <= Len(matched' \o related')
               /\ \A i \in DOMAIN shown' : NameOf(shown[i])' = (matched' \o related')[i]
    <3> DEFINE all == matched \o related
    <3>1. n <= Len(all) /\ \A i \in 1..n : NameOf(shown[i]) = all[i]
      BY <1>1, <1>4, <1>5, <2>6 DEF Shown, n
    <3>2. Len(all) \in Nat
      <4>1. Selected
        BY <1>1, <1>3, <2>6 DEF SelectionInv
      <4>2. all \in Seq(Names)
        BY <4>1, ConcatProperties DEF Selected
      <4> QED BY <4>2
    <3>3. matched' \o related' = all
      BY <1>1
    <3> HIDE DEF all
    <3>4. n - 1 <= Len(all) /\ \A i \in 1..(n - 1) : i \in 1..n
      BY <1>5, <3>1, <3>2
    <3>5. \A i \in 1..(n - 1) : NameOf(shown'[i]) = all[i]
      BY <1>6, <3>1, <3>4
    <3>6. \A i \in 1..(n - 1) : NameOf(shown[i])' = all[i]
      BY <1>1, <3>5, InputStays
    <3> QED BY <1>6, <3>3, <3>4, <3>6
  <2>7. shown' \in Seq(DOMAIN snapshot') /\ IsInjective(shown')
    BY <1>6, <1>7, <1>12
  <2>8. omitted' \in Seq(Names') /\ IsInjective(omitted') /\ dropped' \in Seq(Names') /\ IsInjective(dropped')
    BY <1>1, <1>4, <1>11, <1>12 DEF Shown
  <2>9. (Elements(omitted) \cap Elements(dropped) = {})'
    <3>1. Elements(dropped)' = {last} \cup Elements(dropped) /\ Elements(omitted)' = Elements(omitted)
      BY <1>1, <1>11 DEF Elements
    <3> QED BY <1>4, <1>11, <3>1 DEF Shown
  <2> QED BY <2>4, <2>5, <2>6, <2>7, <2>8, <2>9 DEF Shown, IsInjective
<1>14. ASSUME matched' # <<>> PROVE Selected' /\ Seen' = NamesOf(Near(Depth))'
  <2>1. Selected /\ Seen = NamesOf(Near(Depth))
    BY <1>1, <1>3, <1>14 DEF SelectionInv
  <2>2. Selected'
    BY <1>1, <2>1, InputStays DEF Selected, Elements
  <2>3. Seen' = Seen
    BY <1>1 DEF Seen, Elements
  <2>4. NamesOf(Near(Depth))' = NamesOf(Near(Depth))
    BY <1>1, InputStays
  <2> QED BY <2>1, <2>2, <2>3, <2>4
<1> QED BY <1>1, <1>2, <1>3, <1>12, <1>13, <1>14 DEF SelectionInv, AfterRendering

LEMMA SelectionNext ==
    ASSUME SelectionInv, [Next]_vars
    PROVE  SelectionInv'
<1>1. CASE Assembly \/ Ended \/ UNCHANGED vars
  <2>1. UNCHANGED <<input, selection, block>>
    BY <1>1 DEF Assembly, Retrieve, FillForManager, Outline, FillForArchitect, Assembled, Ended, vars
  <2>2. pc' = pc \/ (AfterRendering /\ AfterRendering')
    BY <1>1 DEF Assembly, Retrieve, FillForManager, Outline, FillForArchitect, Assembled, Ended, vars,
                AfterSelection, AfterRendering
  <2>3. UNCHANGED <<strategy, shown, omitted, dropped, named, more>>
    BY <2>1 DEF selection, block
  <2>4. Named' <=> Named
    BY <2>3 DEF Named, NotShown, Prefix
  <2>5. AfterRendering' => AfterRendering
    BY <2>2 DEF AfterRendering, AfterSelection
  <2>6. pc' = pc \/ (AfterSelection /\ AfterSelection')
    BY <2>2 DEF AfterRendering
  <2>7. (AfterRendering /\ strategy # "none" => Named)'
    BY <2>3, <2>4, <2>5 DEF SelectionInv
  <2> QED BY <2>1, <2>3, <2>6, <2>7, SelectionStays
<1> QED BY <1>1, SkipStep, MatchStep, ShowAllStep, ExpandStep, CutStep, DropStep DEF Next, Schema

LEMMA SelectionAlways == Unambiguous => (Spec => []SelectionInv)
<1> SUFFICES ASSUME Unambiguous PROVE Spec => []SelectionInv
  OBVIOUS
<1>1. Init => SelectionInv
  BY SelectionInit
<1>2. SelectionInv /\ [Next]_vars => SelectionInv'
  BY SelectionNext
<1> QED BY <1>1, <1>2, PTL DEF Spec

-----------------------------------------------------------------------------
(* The theorems about the selection *)

\* For every database in which a name is the name of one table, every query, and whatever the
\* lengths of the tables: each table is shown once, or named as not shown, or one of those that
\* the block only counts, never both shown and named, and names are left to the count only when
\* the list is full; none that the query names gives way to one brought in by a foreign key
\* (selection.py:118-208, render.py:66-128).
THEOREM EveryTableAccounted == Unambiguous => (Spec => []TablesAccounted)
<1> SUFFICES ASSUME Unambiguous PROVE Spec => []TablesAccounted
  OBVIOUS
<1>1. ASSUME SelectionInv, AfterRendering, strategy # "none"
      PROVE  LET listed == {Qualified(snapshot[i]) : i \in Elements(shown)}
             IN  /\ Elements(named) \subseteq Names \ listed
                 /\ Cardinality(listed) = Len(shown)
                 /\ Cardinality(listed) + Cardinality(Elements(named)) + more = Len(snapshot)
                 /\ more # 0 => Cardinality(Elements(named)) = MaxNamed
                 /\ Elements(matched) \subseteq listed \/ listed \cap Elements(related) = {}
  <2> DEFINE listed == NamesOf(Elements(shown))
             n == Len(shown)
  <2>1. InputOK /\ Shown /\ Named /\ AfterSelection
    BY <1>1 DEF SelectionInv, AfterRendering
  <2>2. /\ shown \in Seq(DOMAIN snapshot) /\ n \in Nat /\ DOMAIN shown = 1..n
        /\ \A i \in 1..n : shown[i] \in DOMAIN snapshot
        /\ \A i, j \in 1..n : shown[i] = shown[j] => i = j
    <3>1. shown \in Seq(DOMAIN snapshot) /\ IsInjective(shown)
      BY <2>1 DEF Shown
    <3>2. n \in Nat /\ DOMAIN shown = 1..n
      BY <3>1
    <3> QED BY <3>1, <3>2, ElementOfSeq DEF IsInjective
  <2> HIDE DEF n
  <2>3. Cardinality(listed) = n
    <3> DEFINE names == [i \in 1..n |-> NameOf(shown[i])]
    <3>1. names \in [1..n -> Names] /\ DOMAIN names = 1..n
      BY <2>1, <2>2, GetFinds
    <3>2. IsInjective(names)
      BY <2>1, <2>2, NamesDiffer DEF IsInjective
    <3>3. Elements(names) = listed
      BY <2>2 DEF Elements, NamesOf
    <3> HIDE DEF names
    <3>4. names \in Seq(Names) /\ Len(names) = n
      BY <2>2, <3>1
    <3> QED BY <3>2, <3>3, <3>4, DistinctElements
  <2>4. Elements(matched) \subseteq listed \/ listed \cap Elements(related) = {}
    <3>1. CASE matched = <<>>
      BY <3>1 DEF Elements
    <3>2. CASE matched # <<>>
      <4> DEFINE all == matched \o related
                 m == Len(matched)
      <4>1. Selected
        BY <1>1, <2>1, <3>2 DEF SelectionInv
      <4>2. n <= Len(all) /\ \A i \in 1..n : NameOf(shown[i]) = all[i]
        BY <2>1, <2>2, <3>2 DEF Shown, n
      <4>3. /\ m \in Nat /\ DOMAIN matched = 1..m
            /\ \A i \in 1..m : all[i] = matched[i] /\ matched[i] \in Elements(matched)
        <5>1. m \in Nat /\ DOMAIN matched = 1..m
          BY <4>1 DEF Selected
        <5>2. \A i \in DOMAIN matched : all[i] = matched[i]
          BY <4>1, JoinedLists DEF Selected
        <5> QED BY <5>1, <5>2 DEF Elements
      <4> HIDE DEF all, m
      <4>4. CASE m <= n
        <5>1. ASSUME NEW x \in Elements(matched) PROVE x \in listed
          <6>1. PICK i \in 1..m : x = matched[i]
            BY <4>3 DEF Elements
          <6>2. i \in 1..n /\ x = NameOf(shown[i])
            BY <2>2, <4>2, <4>3, <4>4, <6>1
          <6> QED BY <2>2, <6>2 DEF NamesOf, Elements
        <5> QED BY <5>1
      <4>5. CASE n < m
        <5>1. ASSUME NEW x \in listed PROVE x \in Elements(matched)
          <6>1. PICK i \in 1..n : x = NameOf(shown[i])
            BY <2>2 DEF NamesOf, Elements
          <6>2. i \in 1..m
            BY <2>2, <4>3, <4>5
          <6> QED BY <4>2, <4>3, <6>1, <6>2
        <5>2. Elements(matched) \cap Elements(related) = {}
          BY <4>1 DEF Selected
        <5> QED BY <5>1, <5>2
      <4> QED BY <2>2, <4>3, <4>4, <4>5
    <3> QED BY <3>1, <3>2
  <2>5. listed = {Qualified(snapshot[i]) : i \in Elements(shown)}
    BY DEF NamesOf, NameOf
  <2>6. /\ NotShown \in Seq(Names) /\ IsInjective(NotShown)
        /\ Elements(NotShown) = Names \ listed /\ listed \subseteq Names
    <3>1. /\ listed \cup (Elements(omitted) \cup Elements(dropped)) = Names
          /\ listed \cap (Elements(omitted) \cup Elements(dropped)) = {}
      BY <2>1 DEF Shown
    <3>2. /\ NotShown \in Seq(Names) /\ IsInjective(NotShown)
          /\ Elements(NotShown) = Elements(omitted) \cup Elements(dropped)
      BY <2>1, JoinedLists DEF Shown, NotShown
    <3> QED BY <3>1, <3>2
  <2> DEFINE k == Len(NotShown)
             m == AtMost(MaxNamed, k)
  <2>7. k \in Nat /\ m \in Nat /\ m <= k /\ (m # k => m = MaxNamed) /\ named = SubSeq(NotShown, 1, m)
        /\ more = k - Len(named)
    <3>1. k \in Nat /\ named = SubSeq(NotShown, 1, m) /\ more = k - Len(named)
      BY <2>1, <2>6 DEF Named, Prefix
    <3> HIDE DEF k
    <3>2. m \in Nat /\ m <= k /\ (m # k => m = MaxNamed)
      BY <3>1, TablesAssumption DEF AtMost
    <3> QED BY <3>1, <3>2
  <2>8. Len(snapshot) = n + k
    <3>1. Cardinality(Names) = Len(snapshot) /\ IsFiniteSet(Names) /\ Len(snapshot) \in Nat
      BY <2>1, NamesCounted, NamesFinite DEF InputOK
    <3>2. Cardinality(Elements(NotShown)) = k
      BY <2>6, DistinctElements
    <3>3. Cardinality(Names \ listed) = Cardinality(Names) - Cardinality(Names \cap listed)
      BY <3>1, FS_Difference
    <3>4. Names \cap listed = listed /\ Names \ listed = Elements(NotShown)
      BY <2>6
    <3> HIDE DEF listed, k
    <3>5. k = Len(snapshot) - n
      BY <2>3, <3>1, <3>2, <3>3, <3>4, Zenon
    <3> QED BY <2>2, <2>7, <3>1, <3>5
  <2> HIDE DEF listed, k, m
  <2>9. /\ Len(named) = m /\ Cardinality(Elements(named)) = m
        /\ Elements(named) \subseteq Elements(NotShown)
    <3>1. /\ m <= Len(NotShown)
          /\ DOMAIN NotShown = 1..Len(NotShown)
      BY <2>6, <2>7, LenProperties DEF k
    <3>2. /\ DOMAIN named = 1..m
          /\ \A i \in 1..m : named[i] = NotShown[i] /\ NotShown[i] \in Names /\ i \in DOMAIN NotShown
      BY <2>6, <2>7, <3>1, PrefixTaken
    <3>3. named \in Seq(Names)
      <4>1. \A i \in 1..m : NotShown[i] \in Names
        BY <3>2
      <4> QED BY <2>6, <2>7, <3>1, <3>2, SubSeqProperties
    <3>4. IsInjective(named)
      BY <2>6, <3>2 DEF IsInjective
    <3>5. Len(named) = m
      BY <2>7, <3>2, <3>3, LenProperties
    <3>6. Elements(named) \subseteq Elements(NotShown)
      BY <3>2 DEF Elements
    <3>7. Cardinality(Elements(named)) = Len(named)
      BY <3>3, <3>4, DistinctElements
    <3> QED BY <3>5, <3>6, <3>7
  <2>10. /\ Cardinality(listed) + Cardinality(Elements(named)) + more = Len(snapshot)
         /\ more # 0 => Cardinality(Elements(named)) = MaxNamed
    <3>1. n \in Nat /\ k \in Nat /\ m \in Nat /\ (m # k => m = MaxNamed) /\ more = k - m
      BY <2>2, <2>7, <2>9
    <3>2. Cardinality(listed) = n /\ Cardinality(Elements(named)) = m /\ Len(snapshot) = n + k
      BY <2>3, <2>8, <2>9
    <3>3. n + m + more = n + k /\ (more # 0 => m = MaxNamed)
      BY <3>1
    <3> QED BY <3>2, <3>3
  <2>11. Elements(named) \subseteq Names \ listed
    BY <2>6, <2>9
  <2> QED BY <2>3, <2>4, <2>5, <2>10, <2>11 DEF n
<1>2. SelectionInv => TablesAccounted
  BY <1>1 DEF TablesAccounted
<1> QED BY <1>2, SelectionAlways, PTL

\* For every such database, every query and every depth: the tables brought in by foreign keys
\* are those within that many keys of a table that the query names, each once
\* (selection.py:149-172).
THEOREM ClosureIsExact == Unambiguous => (Spec => []ClosureExact)
<1> SUFFICES ASSUME Unambiguous PROVE Spec => []ClosureExact
  OBVIOUS
<1>1. ASSUME SelectionInv, AfterSelection, matched # <<>>
      PROVE  /\ Elements(related) =
                    {Qualified(snapshot[b]) : b \in {k \in DOMAIN snapshot :
                        /\ Score(snapshot[k]) = 0
                        /\ \E a \in DOMAIN snapshot : \E n \in 1..Depth :
                               Score(snapshot[a]) > 0 /\ Walk(a, k, n)}}
             /\ Cardinality(Elements(related)) = Len(related)
  <2> DEFINE reached == {k \in DOMAIN snapshot :
                             /\ Score(snapshot[k]) = 0
                             /\ \E a \in DOMAIN snapshot : \E n \in 1..Depth :
                                    Score(snapshot[a]) > 0 /\ Walk(a, k, n)}
  <2>1. InputOK /\ Selected /\ Seen = NamesOf(Near(Depth))
    BY <1>1 DEF SelectionInv
  <2>2. /\ Hits = NamesOf(HitRows)
        /\ HitRows \subseteq DOMAIN snapshot /\ Near(Depth) \subseteq DOMAIN snapshot
    BY DEF Hits, NamesOf, HitRows, NameOf, Near
  <2>3. reached = Near(Depth) \ HitRows
    <3>1. ASSUME NEW k \in reached PROVE k \in Near(Depth) \ HitRows
      <4>1. PICK a \in DOMAIN snapshot, n \in 1..Depth : Score(snapshot[a]) > 0 /\ Walk(a, k, n)
        OBVIOUS
      <4>2. a \in HitRows /\ n \in 0..Depth /\ k \in DOMAIN snapshot /\ Score(snapshot[k]) = 0
        BY <4>1, TablesAssumption DEF HitRows
      <4>3. k \notin HitRows
        BY <4>2 DEF HitRows
      <4> QED BY <4>1, <4>2, <4>3 DEF Near
    <3>2. ASSUME NEW k \in Near(Depth), k \notin HitRows PROVE k \in reached
      <4>1. PICK a \in HitRows, n \in 0..Depth : Walk(a, k, n)
        BY DEF Near
      <4>2. n # 0
        <5> SUFFICES ASSUME n = 0 PROVE FALSE
          OBVIOUS
        <5>1. a = k
          BY <4>1 DEF Walk
        <5> QED BY <3>2, <5>1
      <4>3. n \in 1..Depth
        BY <4>2, TablesAssumption
      <4>4. k \in DOMAIN snapshot /\ Score(snapshot[k]) \in Nat
        BY <2>1, <2>2, ScoreIsNat
      <4>5. Score(snapshot[k]) = 0
        BY <3>2, <4>4 DEF HitRows
      <4>6. a \in DOMAIN snapshot /\ Score(snapshot[a]) > 0
        BY DEF HitRows
      <4> QED BY <4>1, <4>3, <4>4, <4>5, <4>6
    <3> HIDE DEF reached
    <3> QED BY <3>1, <3>2
  <2>4. Elements(related) = NamesOf(Near(Depth)) \ NamesOf(HitRows)
    BY <2>1, <2>2 DEF Selected, Seen
  <2>5. NamesOf(Near(Depth)) \ NamesOf(HitRows) = NamesOf(Near(Depth) \ HitRows)
    <3>1. ASSUME NEW i \in Near(Depth), NameOf(i) \notin NamesOf(HitRows)
          PROVE  i \notin HitRows
      BY <3>1 DEF NamesOf
    <3>2. ASSUME NEW i \in Near(Depth) \ HitRows PROVE NameOf(i) \notin NamesOf(HitRows)
      BY <2>1, <2>2, NamesDiffer DEF NamesOf
    <3> QED BY <3>1, <3>2 DEF NamesOf
  <2>6. NamesOf(reached) = {Qualified(snapshot[b]) : b \in reached}
    BY DEF NamesOf, NameOf
  <2>7. Cardinality(Elements(related)) = Len(related)
    BY <2>1, DistinctElements DEF Selected
  <2> HIDE DEF reached
  <2>8. Elements(related) = {Qualified(snapshot[b]) : b \in reached}
    BY <2>3, <2>4, <2>5, <2>6
  <2> QED BY <2>7, <2>8 DEF reached
<1>2. SelectionInv => ClosureExact
  BY <1>1 DEF ClosureExact
<1> QED BY <1>2, SelectionAlways, PTL
=============================================================================
