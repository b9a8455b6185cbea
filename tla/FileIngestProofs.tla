--------------------------- MODULE FileIngestProofs ---------------------------
(***************************************************************************)
(* Proofs about the way of one file into the store: for every file, and    *)
(* every limit, batch size and depth, the chunks cover the file within the *)
(* limit and cut no unit that fits, and the halving of what the service    *)
(* refuses loses, repeats and reorders nothing.  The halving costs a       *)
(* bounded number of calls, and gives up on nothing that could be halved.  *)
(***************************************************************************)
EXTENDS FileIngest, SequenceTheorems, WellFoundedInduction, TLAPS

-----------------------------------------------------------------------------
(* Smallest and largest members *)

Less == {pair \in Nat \X Nat : pair[1] < pair[2]}

LEMMA SmallestOf ==
    ASSUME NEW S \in SUBSET Nat, S # {}
    PROVE  Smallest(S) \in S /\ \A y \in S : Smallest(S) <= y
<1>1. IsWellFoundedOn(Less, Nat)
  BY NatLessThanWellFounded DEF OpToRel, Less
<1>2. PICK x \in S : \A y \in S : <<y, x>> \notin Less
  BY <1>1, WFMin
<1>3. ASSUME NEW y \in S PROVE x <= y
  <2>1. x \in Nat /\ y \in Nat /\ <<y, x>> \notin Less
    BY <1>2, <1>3
  <2> QED BY <2>1 DEF Less
<1> QED BY <1>2, <1>3 DEF Smallest

LEMMA LargestOf ==
    ASSUME NEW S \in SUBSET Nat, S # {}, NEW b \in Nat, \A y \in S : y <= b
    PROVE  Largest(S) \in S /\ \A y \in S : y <= Largest(S)
<1> DEFINE Gaps == {b - y : y \in S}
<1>1. Gaps \in SUBSET Nat /\ Gaps # {}
  <2>1. ASSUME NEW y \in S PROVE b - y \in Nat
    OBVIOUS
  <2>2. PICK y \in S : TRUE
    OBVIOUS
  <2>3. b - y \in Gaps
    OBVIOUS
  <2> QED BY <2>1, <2>3
<1>2. Smallest(Gaps) \in Gaps /\ \A g \in Gaps : Smallest(Gaps) <= g
  BY <1>1, SmallestOf
<1>3. PICK x \in S : Smallest(Gaps) = b - x
  BY <1>2
<1>4. \A y \in S : y <= x
  BY <1>2, <1>3
<1> HIDE DEF Gaps
<1> QED BY <1>3, <1>4 DEF Largest

LEMMA EndInSet ==
    ASSUME NEW S \in SUBSET Nat, NEW p \in Nat, NEW e \in S, e > p
    PROVE  /\ EndIn(S, p) \in S /\ EndIn(S, p) > p
           /\ \A f \in S : f > p => EndIn(S, p) <= f
<1> DEFINE After == {f \in S : f > p}
<1>1. After \in SUBSET Nat /\ After # {}
  OBVIOUS
<1>2. Smallest(After) \in After /\ \A f \in After : Smallest(After) <= f
  BY <1>1, SmallestOf
<1> QED BY <1>2 DEF EndIn

LEMMA StartInSet ==
    ASSUME NEW S \in SUBSET Nat, NEW p \in Nat
    PROVE  /\ StartIn(S, p) \in S \cup {0} /\ StartIn(S, p) <= p
           /\ \A f \in S \cup {0} : f <= p => f <= StartIn(S, p)
<1> DEFINE UpTo == {f \in S \cup {0} : f <= p}
<1>1. UpTo \in SUBSET Nat /\ UpTo # {} /\ \A f \in UpTo : f <= p
  <2>1. 0 \in UpTo
    OBVIOUS
  <2>2. UpTo # {}
    BY <2>1
  <2>3. \A f \in UpTo : f \in Nat /\ f <= p
    OBVIOUS
  <2> HIDE DEF UpTo
  <2> QED BY <2>2, <2>3
<1>2. Largest(UpTo) \in UpTo /\ \A f \in UpTo : f <= Largest(UpTo)
  BY <1>1, LargestOf
<1> QED BY <1>2 DEF StartIn

-----------------------------------------------------------------------------
(* Pieces *)

FileOK ==
    /\ file.length \in Nat
    /\ file.lineEnds \in SUBSET Nat /\ file.length \in file.lineEnds
    /\ \A e \in file.lineEnds : e <= file.length
    /\ file.breaks \subseteq file.lineEnds

\* A cut between units, or in a unit that does not fit.
CutOK(c) == c < file.length /\ UnitStart(c) # c => UnitEnd(c) - UnitStart(c) > MaxChars

LEMMA UnitAround ==
    ASSUME FileOK, NEW p \in Nat, p < file.length
    PROVE  /\ UnitStart(p) \in Nat /\ UnitStart(p) <= p
           /\ UnitStart(p) \in file.breaks \cup {0}
           /\ \A b \in file.breaks \cup {0} : b <= p => b <= UnitStart(p)
           /\ UnitEnd(p) \in file.lineEnds /\ UnitEnd(p) > p /\ UnitEnd(p) <= file.length
           /\ UnitEnd(p) \in file.breaks \cup {file.length}
           /\ \A b \in file.breaks \cup {file.length} : b > p => UnitEnd(p) <= b
<1>1. file.breaks \in SUBSET Nat /\ file.breaks \cup {file.length} \in SUBSET Nat
  BY DEF FileOK
<1>2. /\ UnitStart(p) \in file.breaks \cup {0} /\ UnitStart(p) <= p
      /\ \A b \in file.breaks \cup {0} : b <= p => b <= UnitStart(p)
  BY <1>1, StartInSet DEF UnitStart
<1>3. /\ UnitEnd(p) \in file.breaks \cup {file.length} /\ UnitEnd(p) > p
      /\ \A b \in file.breaks \cup {file.length} : b > p => UnitEnd(p) <= b
  BY <1>1, EndInSet DEF UnitEnd
<1>4. UnitEnd(p) \in file.lineEnds /\ UnitEnd(p) <= file.length
  BY <1>3 DEF FileOK
<1> QED BY <1>1, <1>2, <1>3, <1>4

LEMMA LineAround ==
    ASSUME FileOK, NEW p \in Nat, p < file.length
    PROVE  /\ LineStart(p) \in Nat /\ LineStart(p) <= p
           /\ LineEnd(p) \in file.lineEnds /\ LineEnd(p) > p
           /\ \A e \in file.lineEnds : e > p => LineEnd(p) <= e
<1>1. file.lineEnds \in SUBSET Nat /\ file.length \in file.lineEnds
  BY DEF FileOK
<1>2. LineStart(p) \in file.lineEnds \cup {0} /\ LineStart(p) <= p
  BY <1>1, StartInSet DEF LineStart
<1>3. /\ LineEnd(p) \in file.lineEnds /\ LineEnd(p) > p
      /\ \A e \in file.lineEnds : e > p => LineEnd(p) <= e
  BY <1>1, EndInSet DEF LineEnd
<1> QED BY <1>1, <1>2, <1>3

\* A cut in the unit that p is in, if that does not fit, or at its end.
LEMMA CutInUnit ==
    ASSUME FileOK, NEW p \in Nat, p < file.length, NEW c \in Nat, p < c, c <= UnitEnd(p),
           c = UnitEnd(p) \/ UnitEnd(p) - UnitStart(p) > MaxChars
    PROVE  CutOK(c)
<1> SUFFICES ASSUME c < file.length, UnitStart(c) # c
             PROVE  UnitEnd(c) - UnitStart(c) > MaxChars
  BY DEF CutOK
<1> DEFINE lo == UnitStart(p)
           hi == UnitEnd(p)
<1>1. /\ lo \in Nat /\ lo <= p /\ lo \in file.breaks \cup {0}
      /\ \A b \in file.breaks \cup {0} : b <= p => b <= lo
      /\ hi \in Nat /\ hi > p /\ hi \in file.breaks \cup {file.length}
      /\ \A b \in file.breaks \cup {file.length} : b > p => hi <= b
  BY UnitAround DEF FileOK
<1>2. /\ UnitStart(c) \in Nat /\ UnitStart(c) <= c /\ UnitStart(c) \in file.breaks \cup {0}
      /\ \A b \in file.breaks \cup {0} : b <= c => b <= UnitStart(c)
      /\ UnitEnd(c) \in Nat /\ UnitEnd(c) > c /\ UnitEnd(c) \in file.breaks \cup {file.length}
      /\ \A b \in file.breaks \cup {file.length} : b > c => UnitEnd(c) <= b
  BY UnitAround DEF FileOK
<1> HIDE DEF lo, hi
<1>3. c # hi
  <2> SUFFICES ASSUME c = hi PROVE FALSE
    OBVIOUS
  <2>1. c \in file.breaks
    BY <1>1
  <2> QED BY <1>2, <2>1
<1>4. c < hi
  BY <1>1, <1>3 DEF hi
<1>5. UnitStart(c) = lo
  <2>1. lo <= UnitStart(c)
    BY <1>1, <1>2
  <2>2. UnitStart(c) <= p
    <3> SUFFICES ASSUME UnitStart(c) > p PROVE FALSE
      BY <1>2
    <3>1. UnitStart(c) \in file.breaks \cup {file.length}
      BY <1>2
    <3> QED BY <1>1, <1>2, <1>4, <3>1
  <2>3. UnitStart(c) <= lo
    BY <1>1, <1>2, <2>2
  <2> QED BY <1>1, <1>2, <2>1, <2>3
<1>6. UnitEnd(c) = hi
  <2>1. UnitEnd(c) <= hi
    BY <1>1, <1>2, <1>4
  <2>2. hi <= UnitEnd(c)
    BY <1>1, <1>2
  <2> QED BY <1>1, <1>2, <2>1, <2>2
<1> QED BY <1>3, <1>5, <1>6 DEF lo, hi

\* A piece is not empty, ends in its unit and fits in a chunk.
LEMMA PieceFits ==
    ASSUME FileOK, NEW p \in Nat, p < file.length
    PROVE  /\ PieceEnd(p) \in Nat /\ p < PieceEnd(p) /\ PieceEnd(p) <= file.length
           /\ PieceEnd(p) - p <= MaxChars
           /\ CutOK(PieceEnd(p))
<1> USE SizesAssumption
<1>1. /\ UnitStart(p) \in Nat /\ UnitStart(p) <= p
      /\ UnitEnd(p) \in Nat /\ UnitEnd(p) > p /\ UnitEnd(p) <= file.length
      /\ UnitEnd(p) \in file.lineEnds
  BY UnitAround DEF FileOK
<1>2. /\ LineStart(p) \in Nat /\ LineStart(p) <= p
      /\ LineEnd(p) \in file.lineEnds /\ LineEnd(p) \in Nat /\ LineEnd(p) > p
      /\ LineEnd(p) <= UnitEnd(p)
  BY <1>1, LineAround DEF FileOK
<1>3. file.length \in Nat
  BY DEF FileOK
<1>4. CASE UnitEnd(p) - UnitStart(p) <= MaxChars
  <2>1. PieceEnd(p) = UnitEnd(p)
    BY <1>4 DEF PieceEnd
  <2>2. CutOK(PieceEnd(p))
    BY <1>1, <2>1, CutInUnit
  <2> QED BY <1>1, <1>4, <2>1, <2>2
<1>5. CASE UnitEnd(p) - UnitStart(p) > MaxChars /\ LineEnd(p) - LineStart(p) > MaxChars
  <2>1. PieceEnd(p) = Smallest({p + MaxChars, LineEnd(p)})
    BY <1>1, <1>5 DEF PieceEnd
  <2>2. /\ PieceEnd(p) \in {p + MaxChars, LineEnd(p)}
        /\ PieceEnd(p) <= p + MaxChars /\ PieceEnd(p) <= LineEnd(p)
    <3>1. {p + MaxChars, LineEnd(p)} \in SUBSET Nat
      BY <1>2
    <3> QED BY <2>1, <3>1, SmallestOf
  <2>3. PieceEnd(p) \in Nat /\ p < PieceEnd(p) /\ PieceEnd(p) <= UnitEnd(p)
    BY <1>1, <1>2, <2>2
  <2>4. CutOK(PieceEnd(p))
    BY <1>5, <2>3, CutInUnit
  <2> QED BY <1>1, <1>3, <2>2, <2>3, <2>4
<1>6. CASE UnitEnd(p) - UnitStart(p) > MaxChars /\ LineEnd(p) - LineStart(p) <= MaxChars
  <2>1. PieceEnd(p) = Largest(WindowEnds(p))
    BY <1>1, <1>2, <1>6 DEF PieceEnd
  <2>2. LineEnd(p) \in WindowEnds(p)
    BY <1>2, <1>6 DEF WindowEnds
  <2>3. WindowEnds(p) \in SUBSET Nat /\ \A e \in WindowEnds(p) : e <= UnitEnd(p)
    BY DEF WindowEnds, FileOK
  <2>4. PieceEnd(p) \in WindowEnds(p)
    BY <1>1, <2>1, <2>2, <2>3, LargestOf
  <2>5. PieceEnd(p) \in Nat /\ p < PieceEnd(p) /\ PieceEnd(p) <= UnitEnd(p) /\ PieceEnd(p) - p <= MaxChars
    BY <2>3, <2>4 DEF WindowEnds
  <2>6. CutOK(PieceEnd(p))
    BY <1>6, <2>5, CutInUnit
  <2> QED BY <1>1, <1>3, <2>5, <2>6
<1> QED BY <1>1, <1>2, <1>4, <1>5, <1>6

-----------------------------------------------------------------------------
(* Covers *)

Fits(s) == \A i \in DOMAIN s : Size(s[i]) <= MaxChars

LEMMA CoverAppend ==
    ASSUME NEW s \in Seq(Texts), NEW t \in Texts, NEW a, Covers(s, a, t.from), t.from < t.to
    PROVE  Covers(Append(s, t), a, t.to)
<1> DEFINE r == Append(s, t)
<1>1. /\ Len(s) \in Nat /\ r \in Seq(Texts) /\ r # <<>> /\ Len(r) = Len(s) + 1 /\ r[Len(s) + 1] = t
      /\ \A i \in 1..Len(s) : r[i] = s[i]
  OBVIOUS
<1> HIDE DEF r
<1>2. CASE s = <<>>
  BY <1>1, <1>2 DEF Covers
<1>3. CASE s # <<>>
  <2>1. /\ s[1].from = a /\ s[Len(s)].to = t.from /\ Len(s) \in Nat \ {0}
        /\ \A i \in 1..Len(s) : s[i].from < s[i].to
        /\ \A i \in 1..(Len(s) - 1) : s[i].to = s[i + 1].from
    BY <1>3, EmptySeq DEF Covers
  <2>2. r[1].from = a /\ r[Len(r)].to = t.to
    BY <1>1, <2>1
  <2>3. \A i \in DOMAIN r : r[i].from < r[i].to
    BY <1>1, <2>1
  <2>4. ASSUME NEW i \in 1..(Len(r) - 1) PROVE r[i].to = r[i + 1].from
    <3>1. CASE i = Len(s)
      BY <1>1, <2>1, <3>1
    <3>2. CASE i # Len(s)
      <4>1. i \in 1..(Len(s) - 1) /\ i + 1 \in 1..Len(s) /\ i \in 1..Len(s)
        BY <1>1, <2>1, <3>2
      <4> QED BY <1>1, <2>1, <4>1
    <3> QED BY <3>1, <3>2
  <2> QED BY <1>1, <2>2, <2>3, <2>4 DEF Covers
<1> QED BY <1>2, <1>3 DEF r

LEMMA CoverConcat ==
    ASSUME NEW s \in Seq(Texts), NEW t \in Seq(Texts), NEW a, NEW b, NEW c,
           Covers(s, a, b), Covers(t, b, c)
    PROVE  Covers(s \o t, a, c)
<1> DEFINE r == s \o t
<1>1. /\ r \in Seq(Texts) /\ Len(r) = Len(s) + Len(t) /\ Len(s) \in Nat /\ Len(t) \in Nat
      /\ \A i \in 1..(Len(s) + Len(t)) : r[i] = IF i <= Len(s) THEN s[i] ELSE t[i - Len(s)]
  BY ConcatProperties
<1> HIDE DEF r
<1>2. CASE s = <<>>
  <2>1. r = t
    BY <1>2, ConcatEmptySeq DEF r
  <2> QED BY <1>2, <2>1 DEF Covers, r
<1>3. CASE t = <<>>
  <2>1. r = s
    BY <1>3, ConcatEmptySeq DEF r
  <2> QED BY <1>3, <2>1 DEF Covers, r
<1>4. CASE s # <<>> /\ t # <<>>
  <2>1. /\ s[1].from = a /\ s[Len(s)].to = b /\ Len(s) \in Nat \ {0}
        /\ \A i \in 1..Len(s) : s[i].from < s[i].to
        /\ \A i \in 1..(Len(s) - 1) : s[i].to = s[i + 1].from
    BY <1>4, EmptySeq DEF Covers
  <2>2. /\ t[1].from = b /\ t[Len(t)].to = c /\ Len(t) \in Nat \ {0}
        /\ \A i \in 1..Len(t) : t[i].from < t[i].to
        /\ \A i \in 1..(Len(t) - 1) : t[i].to = t[i + 1].from
    BY <1>4, EmptySeq DEF Covers
  <2>3. r[1].from = a /\ r[Len(r)].to = c /\ r # <<>> /\ DOMAIN r = 1..(Len(s) + Len(t))
    BY <1>1, <2>1, <2>2, EmptySeq
  <2>4. ASSUME NEW i \in 1..(Len(s) + Len(t)) PROVE r[i].from < r[i].to
    <3>1. CASE i <= Len(s)
      BY <1>1, <2>1, <3>1
    <3>2. CASE i > Len(s)
      <4>1. i - Len(s) \in 1..Len(t) /\ r[i] = t[i - Len(s)]
        BY <1>1, <2>1, <2>2, <3>2
      <4> QED BY <2>2, <4>1
    <3> QED BY <1>1, <3>1, <3>2
  <2>5. ASSUME NEW i \in 1..(Len(s) + Len(t) - 1) PROVE r[i].to = r[i + 1].from
    <3>1. CASE i < Len(s)
      <4>1. i \in 1..(Len(s) - 1) /\ r[i] = s[i] /\ r[i + 1] = s[i + 1]
        BY <1>1, <2>1, <2>2, <3>1
      <4> QED BY <2>1, <4>1
    <3>2. CASE i = Len(s)
      <4>1. r[i] = s[Len(s)] /\ r[i + 1] = t[1]
        BY <1>1, <2>1, <2>2, <3>2
      <4> QED BY <2>1, <2>2, <4>1
    <3>3. CASE i > Len(s)
      <4>1. i - Len(s) \in 1..(Len(t) - 1) /\ r[i] = t[i - Len(s)] /\ r[i + 1] = t[(i - Len(s)) + 1]
        BY <1>1, <2>1, <2>2, <3>3
      <4> QED BY <2>2, <4>1
    <3> QED BY <1>1, <3>1, <3>2, <3>3
  <2> QED BY <1>1, <2>3, <2>4, <2>5 DEF Covers
<1> QED BY <1>2, <1>3, <1>4 DEF r

LEMMA CoverPart ==
    ASSUME NEW s \in Seq(Texts), NEW a, NEW b, Covers(s, a, b), Fits(s),
           NEW m \in 1..Len(s), NEW n \in m..Len(s)
    PROVE  /\ SubSeq(s, m, n) \in Seq(Texts) /\ SubSeq(s, m, n) # <<>>
           /\ Len(SubSeq(s, m, n)) = n - m + 1
           /\ SubSeq(s, m, n)[1] = s[m] /\ SubSeq(s, m, n)[n - m + 1] = s[n]
           /\ Covers(SubSeq(s, m, n), s[m].from, s[n].to)
           /\ Fits(SubSeq(s, m, n))
<1> DEFINE r == SubSeq(s, m, n)
<1>1. Len(s) \in Nat /\ m \in Nat /\ n \in Nat /\ m <= n /\ n <= Len(s) /\ m >= 1
  OBVIOUS
<1>2. \A i \in m..n : s[i] \in Texts
  BY <1>1, ElementOfSeq
<1>3. /\ r \in Seq(Texts) /\ Len(r) = n - m + 1
      /\ \A i \in 1..(n - m + 1) : r[i] = s[m + i - 1]
  BY <1>1, <1>2, SubSeqProperties
<1> HIDE DEF r
<1>4. s # <<>> /\ r # <<>> /\ DOMAIN r = 1..(n - m + 1)
  BY <1>1, <1>3, EmptySeq
<1>5. /\ \A i \in 1..Len(s) : s[i].from < s[i].to /\ Size(s[i]) <= MaxChars
      /\ \A i \in 1..(Len(s) - 1) : s[i].to = s[i + 1].from
  BY <1>4 DEF Covers, Fits
<1>6. r[1] = s[m] /\ r[n - m + 1] = s[n]
  BY <1>1, <1>3
<1>7. ASSUME NEW i \in 1..(n - m + 1) PROVE r[i].from < r[i].to /\ Size(r[i]) <= MaxChars
  <2>1. r[i] = s[m + i - 1] /\ m + i - 1 \in 1..Len(s)
    BY <1>1, <1>3
  <2> QED BY <1>5, <2>1
<1>8. ASSUME NEW i \in 1..(n - m) PROVE r[i].to = r[i + 1].from
  <2>1. /\ r[i] = s[m + i - 1] /\ r[i + 1] = s[(m + i - 1) + 1]
        /\ m + i - 1 \in 1..(Len(s) - 1)
    BY <1>1, <1>3
  <2> QED BY <1>5, <2>1
<1>9. Covers(r, s[m].from, s[n].to)
  BY <1>1, <1>3, <1>4, <1>6, <1>7, <1>8 DEF Covers
<1>10. Fits(r)
  BY <1>4, <1>7 DEF Fits
<1> QED BY <1>3, <1>4, <1>6, <1>9, <1>10 DEF r

-----------------------------------------------------------------------------
(* Batches *)

\* A batch is a part of the file, too.
Span(b) == Text(b.texts[1].from, b.texts[Len(b.texts)].to)

GoodBatch(b) ==
    /\ b \in Batches
    /\ b.texts # <<>>
    /\ Covers(b.texts, Span(b).from, Span(b).to)
    /\ Fits(b.texts)

\* The batches of p are the file from a to b, in order.
Linked(p, a, b) ==
    /\ \A i \in DOMAIN p : GoodBatch(p[i])
    /\ IF p = <<>> THEN a = b
       ELSE /\ Span(p[1]).from = a /\ Span(p[Len(p)]).to = b
            /\ \A i \in 1..(Len(p) - 1) : Span(p[i]).to = Span(p[i + 1]).from

LEMMA LinkedTail ==
    ASSUME NEW p \in Seq(Batches), p # <<>>, NEW a, NEW b, Linked(p, a, b)
    PROVE  /\ Head(p) = p[1] /\ GoodBatch(p[1]) /\ Span(p[1]).from = a
           /\ Tail(p) \in Seq(Batches) /\ Linked(Tail(p), Span(p[1]).to, b)
<1> DEFINE r == Tail(p)
<1>1. /\ Len(p) \in Nat \ {0} /\ r \in Seq(Batches) /\ Len(r) = Len(p) - 1 /\ Head(p) = p[1]
      /\ \A i \in 1..(Len(p) - 1) : r[i] = p[i + 1]
  BY HeadTailProperties, EmptySeq
<1> HIDE DEF r
<1>2. /\ \A i \in 1..Len(p) : GoodBatch(p[i])
      /\ Span(p[1]).from = a /\ Span(p[Len(p)]).to = b
      /\ \A i \in 1..(Len(p) - 1) : Span(p[i]).to = Span(p[i + 1]).from
  BY DEF Linked
<1>3. \A i \in DOMAIN r : GoodBatch(r[i])
  BY <1>1, <1>2
<1>4. CASE Len(p) = 1
  <2>1. r = <<>>
    BY <1>1, <1>4, EmptySeq
  <2>2. Span(p[1]).to = b
    BY <1>2, <1>4
  <2> QED BY <1>1, <1>2, <1>3, <2>1, <2>2 DEF Linked, r
<1>5. CASE Len(p) > 1
  <2>1. r # <<>>
    BY <1>1, <1>5, EmptySeq
  <2>2. r[1] = p[2] /\ r[Len(r)] = p[Len(p)] /\ Span(p[1]).to = Span(p[2]).from
    <3>1. 1 \in 1..(Len(p) - 1) /\ 1 + 1 = 2
      BY <1>1, <1>5
    <3>2. r[1] = p[2] /\ Span(p[1]).to = Span(p[2]).from
      BY <1>1, <1>2, <3>1
    <3>3. Len(r) \in 1..(Len(p) - 1) /\ Len(r) + 1 = Len(p)
      BY <1>1, <1>5
    <3> QED BY <1>1, <3>2, <3>3
  <2>3. ASSUME NEW i \in 1..(Len(r) - 1) PROVE Span(r[i]).to = Span(r[i + 1]).from
    <3>1. /\ i \in 1..(Len(p) - 1) /\ i + 1 \in 1..(Len(p) - 1)
      BY <1>1
    <3>2. r[i] = p[i + 1] /\ r[i + 1] = p[(i + 1) + 1]
      BY <1>1, <3>1
    <3> QED BY <1>2, <3>1, <3>2
  <2> QED BY <1>1, <1>2, <1>3, <2>1, <2>2, <2>3 DEF Linked, r
<1> QED BY <1>1, <1>2, <1>4, <1>5

\* A batch in place of which two come that make it up.
LEMMA LinkedHalves ==
    ASSUME NEW p \in Seq(Batches), p # <<>>, NEW a, NEW b, Linked(p, a, b),
           NEW x, NEW y, GoodBatch(x), GoodBatch(y),
           Span(x).from = a, Span(x).to = Span(y).from, Span(y).to = Span(p[1]).to
    PROVE  /\ <<x, y>> \o Tail(p) \in Seq(Batches) /\ <<x, y>> \o Tail(p) # <<>>
           /\ Linked(<<x, y>> \o Tail(p), a, b)
<1> DEFINE t == Tail(p)
           r == <<x, y>> \o t
<1>1. t \in Seq(Batches) /\ Linked(t, Span(y).to, b)
  BY LinkedTail
<1> HIDE DEF t
<1>2. <<x, y>> \in Seq(Batches) /\ Len(<<x, y>>) = 2 /\ <<x, y>>[1] = x /\ <<x, y>>[2] = y
  BY DEF GoodBatch
<1>3. /\ r \in Seq(Batches) /\ Len(r) = 2 + Len(t) /\ Len(t) \in Nat
      /\ \A i \in 1..(2 + Len(t)) : r[i] = IF i <= 2 THEN <<x, y>>[i] ELSE t[i - 2]
  BY <1>1, <1>2, ConcatProperties
<1> HIDE DEF r
<1>4. /\ r # <<>> /\ r[1] = x /\ r[2] = y /\ DOMAIN r = 1..(2 + Len(t))
      /\ \A i \in 3..(2 + Len(t)) : r[i] = t[i - 2]
  BY <1>2, <1>3, EmptySeq
<1>5. \A i \in DOMAIN t : GoodBatch(t[i])
  BY <1>1 DEF Linked
<1>6. ASSUME NEW i \in DOMAIN r PROVE GoodBatch(r[i])
  <2>1. i = 1 \/ i = 2 \/ (i \in 3..(2 + Len(t)) /\ i - 2 \in 1..Len(t))
    BY <1>3, <1>4
  <2> QED BY <1>1, <1>4, <1>5, <2>1
<1>7. Span(r[Len(r)]).to = b
  <2>1. CASE t = <<>>
    BY <1>1, <1>3, <1>4, <2>1, EmptySeq DEF Linked
  <2>2. CASE t # <<>>
    <3>1. Len(r) \in 3..(2 + Len(t)) /\ Len(r) - 2 = Len(t)
      BY <1>1, <1>3, <2>2, EmptySeq
    <3> QED BY <1>1, <1>4, <2>2, <3>1 DEF Linked
  <2> QED BY <2>1, <2>2
<1>8. ASSUME NEW i \in 1..(Len(r) - 1) PROVE Span(r[i]).to = Span(r[i + 1]).from
  <2>1. CASE i = 1
    BY <1>4, <2>1
  <2>2. CASE i > 1
    <3>1. t # <<>>
      BY <1>3, <2>2, EmptySeq
    <3>2. /\ Span(t[1]).from = Span(y).to
          /\ \A j \in 1..(Len(t) - 1) : Span(t[j]).to = Span(t[j + 1]).from
      BY <1>1, <3>1 DEF Linked
    <3>3. CASE i = 2
      <4>1. r[i] = y /\ r[i + 1] = t[1]
        BY <1>3, <1>4, <3>3
      <4> QED BY <3>2, <4>1
    <3>4. CASE i > 2
      <4>1. i - 2 \in 1..(Len(t) - 1) /\ r[i] = t[i - 2] /\ r[i + 1] = t[(i - 2) + 1]
        BY <1>3, <1>4, <3>4
      <4> QED BY <3>2, <4>1
    <3> QED BY <2>2, <3>3, <3>4
  <2> QED BY <2>1, <2>2
<1> QED BY <1>3, <1>4, <1>6, <1>7, <1>8 DEF Linked, r, t

\* A part of the chunks is a batch.
LEMMA PartIsBatch ==
    ASSUME NEW s \in Seq(Texts), NEW a, NEW b, Covers(s, a, b), Fits(s),
           NEW m \in 1..Len(s), NEW n \in m..Len(s), NEW depth \in Nat
    PROVE  /\ GoodBatch(Batch(SubSeq(s, m, n), depth))
           /\ Span(Batch(SubSeq(s, m, n), depth)) = Text(s[m].from, s[n].to)
<1> DEFINE r == SubSeq(s, m, n)
           batch == Batch(r, depth)
<1>1. /\ r \in Seq(Texts) /\ r # <<>> /\ Len(r) = n - m + 1
      /\ r[1] = s[m] /\ r[n - m + 1] = s[n]
      /\ Covers(r, s[m].from, s[n].to) /\ Fits(r)
  BY CoverPart
<1> HIDE DEF r
<1>2. batch \in Batches /\ batch.texts = r
  BY <1>1 DEF Batch, Batches
<1>3. Span(batch) = Text(s[m].from, s[n].to)
  BY <1>1, <1>2 DEF Span
<1>4. Span(batch).from = s[m].from /\ Span(batch).to = s[n].to
  BY <1>3 DEF Text
<1>5. GoodBatch(batch)
  BY <1>1, <1>2, <1>4 DEF GoodBatch
<1> QED BY <1>3, <1>5 DEF r

\* One text is a batch.
LEMMA TextIsBatch ==
    ASSUME NEW t \in Texts, t.from < t.to, Size(t) <= MaxChars, NEW depth \in Nat
    PROVE  GoodBatch(Batch(<<t>>, depth)) /\ Span(Batch(<<t>>, depth)) = t
<1> DEFINE batch == Batch(<<t>>, depth)
<1>1. batch \in Batches /\ batch.texts = <<t>> /\ Len(<<t>>) = 1 /\ <<t>>[1] = t
  BY DEF Batch, Batches
<1>2. Span(batch) = t
  BY <1>1 DEF Span, Text, Texts
<1> QED BY <1>1, <1>2 DEF GoodBatch, Covers, Fits

LEMMA FitsConcat ==
    ASSUME NEW s \in Seq(Texts), NEW t \in Seq(Texts), Fits(s), Fits(t)
    PROVE  Fits(s \o t)
<1>1. /\ s \o t \in Seq(Texts) /\ Len(s \o t) = Len(s) + Len(t) /\ Len(s) \in Nat /\ Len(t) \in Nat
      /\ \A i \in 1..(Len(s) + Len(t)) : (s \o t)[i] = IF i <= Len(s) THEN s[i] ELSE t[i - Len(s)]
  BY ConcatProperties
<1>2. ASSUME NEW i \in 1..(Len(s) + Len(t)) PROVE Size((s \o t)[i]) <= MaxChars
  <2>1. CASE i <= Len(s)
    BY <1>1, <2>1 DEF Fits
  <2>2. CASE i > Len(s)
    <3>1. i - Len(s) \in 1..Len(t) /\ (s \o t)[i] = t[i - Len(s)]
      BY <1>1, <2>2
    <3> QED BY <3>1 DEF Fits
  <2> QED BY <1>1, <2>1, <2>2
<1> QED BY <1>1, <1>2 DEF Fits

-----------------------------------------------------------------------------
(* The invariant *)

\* Where the chunks not yet in a batch start, and how far the file is embedded.
ChunkStart == IF next = 1 THEN 0 ELSE chunks[next - 1].to
Done == IF items = <<>> THEN 0 ELSE items[Len(items)].to

\* The chunks are the file up to start, and the current one is not empty, fits, and would not
\* have fitted in the one before.
CutInv ==
    /\ start <= pos /\ pos <= file.length /\ pos - start <= MaxChars
    /\ pc = "cut" /\ pos > 0 => start < pos
    /\ pc # "cut" => start = file.length /\ pos = file.length
    /\ Covers(chunks, 0, start) /\ Fits(chunks)
    /\ \A i \in 1..(Len(chunks) - 1) : chunks[i + 1].to - chunks[i].from > MaxChars
    /\ pc = "cut" /\ chunks # <<>> => pos - chunks[Len(chunks)].from > MaxChars
    /\ CutOK(pos) /\ \A i \in DOMAIN chunks : CutOK(chunks[i].to)

\* What is embedded, then what the calls still have, then the chunks of later batches: these are
\* the file in order.
EmbedInv ==
    /\ pc = "cut" => next = 1 /\ pending = <<>> /\ items = <<>>
    /\ pc \in {"batch", "embed"} =>
           /\ next \in 1..(Len(chunks) + 1)
           /\ Covers(items, 0, Done) /\ Fits(items)
           /\ Linked(pending, Done, ChunkStart)
    /\ pc = "batch" => pending = <<>>
    /\ pc = "embed" => pending # <<>>

IngestInv == TypeOK /\ FileOK /\ CutInv /\ EmbedInv /\ StoredWhole

LEMMA FileKept == ASSUME FileOK, UNCHANGED file PROVE FileOK' /\ \A c : CutOK(c)' <=> CutOK(c)
BY DEF FileOK, CutOK, UnitStart, UnitEnd

LEMMA IngestInit == Init => IngestInv
<1> SUFFICES ASSUME Init PROVE IngestInv
  OBVIOUS
<1>1. PICK n \in 1..MaxLength : \E inner \in SUBSET (1..(n - 1)) :
          \E breaks \in SUBSET inner : file = Content(n, inner, breaks)
  BY DEF Init
<1>2. PICK inner \in SUBSET (1..(n - 1)) : \E breaks \in SUBSET inner : file = Content(n, inner, breaks)
  BY <1>1
<1>3. PICK breaks \in SUBSET inner : file = Content(n, inner, breaks)
  BY <1>2
<1>4. n \in Nat /\ n >= 1 /\ n <= MaxLength /\ MaxLength \in Nat
  BY LengthAssumption
<1>5. /\ file.length = n /\ file.lineEnds = inner \cup {n} /\ file.breaks = breaks
      /\ file = [length |-> n, lineEnds |-> inner \cup {n}, breaks |-> breaks]
  BY <1>3 DEF Content
<1>6. FileOK
  BY <1>4, <1>5 DEF FileOK
<1>7. file \in Files
  <2>1. inner \cup {n} \in SUBSET Positions /\ breaks \in SUBSET Positions
    BY <1>4 DEF Positions
  <2> QED BY <1>5, <2>1 DEF Files
<1>8. /\ pc = "cut" /\ pos = 0 /\ start = 0 /\ chunks = <<>> /\ next = 1
      /\ pending = <<>> /\ items = <<>> /\ calls = 0 /\ refused = Nothing
  BY DEF Init
<1>9. TypeOK
  <2>1. Nothing \in Texts /\ 0 \in Positions
    BY <1>4 DEF Nothing, Text, Texts, Positions
  <2> QED BY <1>7, <1>8, <2>1 DEF TypeOK, PCs
<1>10. CutOK(0)
  <2>1. UnitStart(0) \in Nat /\ UnitStart(0) <= 0
    BY <1>4, <1>5, <1>6, UnitAround
  <2> QED BY <2>1 DEF CutOK
<1>11. CutInv
  BY <1>4, <1>5, <1>8, <1>10, SizesAssumption DEF CutInv, Covers, Fits
<1> QED BY <1>6, <1>8, <1>9, <1>11 DEF IngestInv, EmbedInv, StoredWhole

LEMMA AddPieceStep ==
    ASSUME IngestInv, AddPiece
    PROVE  IngestInv'
<1> DEFINE end == PieceEnd(pos)
           flush == Overflows(end)
<1>1. /\ pc = "cut" /\ pos < file.length /\ UNCHANGED <<file, pc, embedding>>
      /\ chunks' = (IF flush THEN Append(chunks, Text(start, pos)) ELSE chunks)
      /\ start' = (IF flush THEN pos ELSE start) /\ pos' = end
  BY DEF AddPiece
<1>2. /\ pos \in Nat /\ start \in Nat /\ pos \in Positions /\ start \in Positions
      /\ chunks \in Seq(Texts) /\ file.length \in Positions
  BY LengthAssumption DEF IngestInv, TypeOK, Positions, Files
<1>3. /\ end \in Nat /\ pos < end /\ end <= file.length /\ end - pos <= MaxChars /\ CutOK(end)
  BY <1>1, <1>2, PieceFits DEF IngestInv
<1> HIDE DEF end
<1>4. FileOK' /\ \A c : CutOK(c)' <=> CutOK(c)
  BY <1>1, FileKept DEF IngestInv
<1>5. /\ start <= pos /\ pos - start <= MaxChars /\ Covers(chunks, 0, start) /\ Fits(chunks)
      /\ \A i \in 1..(Len(chunks) - 1) : chunks[i + 1].to - chunks[i].from > MaxChars
      /\ chunks # <<>> => pos - chunks[Len(chunks)].from > MaxChars
      /\ CutOK(pos) /\ \A i \in DOMAIN chunks : CutOK(chunks[i].to)
      /\ pos > 0 => start < pos
  BY <1>1 DEF IngestInv, CutInv
<1>6. /\ chunks' \in Seq(Texts) /\ Covers(chunks', 0, start') /\ Fits(chunks')
      /\ \A i \in 1..(Len(chunks') - 1) : chunks'[i + 1].to - chunks'[i].from > MaxChars
      /\ chunks' # <<>> => end - chunks'[Len(chunks')].from > MaxChars
      /\ \A i \in DOMAIN chunks' : CutOK(chunks'[i].to)
  <2>1. CASE ~flush
    <3>1. chunks' = chunks /\ start' = start
      BY <1>1, <2>1
    <3>2. ASSUME chunks # <<>> PROVE end - chunks[Len(chunks)].from > MaxChars
      <4>1. chunks[Len(chunks)] \in Texts
        BY <1>2, <3>2, EmptySeq, ElementOfSeq
      <4>2. chunks[Len(chunks)].from \in Nat
        BY <4>1, LengthAssumption DEF Texts, Positions
      <4> QED BY <1>2, <1>3, <1>5, <3>2, <4>2, SizesAssumption
    <3> QED BY <1>2, <1>5, <3>1, <3>2
  <2>2. CASE flush
    <3> DEFINE t == Text(start, pos)
    <3>1. start < pos /\ end - start > MaxChars
      BY <2>2 DEF Overflows
    <3>2. chunks' = Append(chunks, t) /\ start' = pos
      BY <1>1, <2>2
    <3>3. t \in Texts /\ t.from = start /\ t.to = pos /\ Size(t) <= MaxChars
      BY <1>2, <1>5 DEF Text, Texts, Size
    <3> HIDE DEF t
    <3>4. Covers(chunks', 0, start')
      BY <1>2, <1>5, <3>1, <3>2, <3>3, CoverAppend
    <3>5. /\ chunks' \in Seq(Texts) /\ Len(chunks) \in Nat /\ Len(chunks') = Len(chunks) + 1
          /\ chunks'[Len(chunks) + 1] = t /\ \A i \in 1..Len(chunks) : chunks'[i] = chunks[i]
      BY <1>2, <3>2, <3>3, AppendProperties
    <3>6. Fits(chunks')
      BY <1>5, <3>3, <3>5 DEF Fits
    <3>7. ASSUME NEW i \in 1..(Len(chunks') - 1) PROVE chunks'[i + 1].to - chunks'[i].from > MaxChars
      <4>1. CASE i = Len(chunks)
        <5>1. chunks # <<>> /\ chunks'[i] = chunks[Len(chunks)] /\ chunks'[i + 1] = t
          BY <3>5, <4>1, EmptySeq
        <5> QED BY <1>5, <3>3, <5>1
      <4>2. CASE i # Len(chunks)
        <5>1. /\ i \in 1..(Len(chunks) - 1) /\ chunks'[i] = chunks[i] /\ chunks'[i + 1] = chunks[i + 1]
          BY <3>5, <4>2
        <5> QED BY <1>5, <5>1
      <4> QED BY <4>1, <4>2
    <3>8. \A i \in DOMAIN chunks' : CutOK(chunks'[i].to)
      BY <1>5, <3>3, <3>5
    <3>9. chunks'[Len(chunks')].from = start
      BY <3>3, <3>5
    <3> QED BY <3>1, <3>4, <3>5, <3>6, <3>7, <3>8, <3>9
  <2> QED BY <2>1, <2>2
<1>7. start' <= pos' /\ pos' - start' <= MaxChars /\ start' < pos' /\ start' \in Positions /\ pos' \in Positions
  <2>1. end \in Positions
    BY <1>2, <1>3, LengthAssumption DEF Positions
  <2>2. CASE flush
    <3>1. start' = pos /\ pos' = end
      BY <1>1, <2>2
    <3> QED BY <1>2, <1>3, <2>1, <3>1
  <2>3. CASE ~flush
    <3>1. start' = start /\ pos' = end
      BY <1>1, <2>3
    <3>2. start < pos => end - start <= MaxChars
      BY <1>2, <1>3, <2>3, SizesAssumption DEF Overflows
    <3>3. end - start <= MaxChars
      BY <1>2, <1>3, <1>5, <3>2
    <3> QED BY <1>2, <1>3, <1>5, <2>1, <3>1, <3>3
  <2> QED BY <2>2, <2>3
<1>8. CutInv'
  BY <1>1, <1>3, <1>4, <1>6, <1>7 DEF CutInv, Covers, Fits, Size
<1>9. TypeOK'
  BY <1>1, <1>6, <1>7 DEF IngestInv, TypeOK, embedding
<1>10. EmbedInv' /\ StoredWhole'
  BY <1>1 DEF IngestInv, EmbedInv, StoredWhole, embedding
<1> QED BY <1>4, <1>8, <1>9, <1>10 DEF IngestInv

LEMMA LastChunkStep ==
    ASSUME IngestInv, LastChunk
    PROVE  IngestInv'
<1> DEFINE t == Text(start, pos)
<1>1. /\ pc = "cut" /\ pc' = "batch" /\ pos = file.length /\ UNCHANGED <<file, pos, embedding>>
      /\ chunks' = Append(chunks, t) /\ start' = pos
  BY DEF LastChunk
<1>2. /\ pos \in Nat /\ start \in Nat /\ pos \in Positions /\ start \in Positions
      /\ chunks \in Seq(Texts) /\ file.length > 0
  BY LengthAssumption DEF IngestInv, TypeOK, Positions, Files
<1>3. /\ start < pos /\ pos - start <= MaxChars /\ Covers(chunks, 0, start) /\ Fits(chunks)
      /\ \A i \in 1..(Len(chunks) - 1) : chunks[i + 1].to - chunks[i].from > MaxChars
      /\ chunks # <<>> => pos - chunks[Len(chunks)].from > MaxChars
      /\ CutOK(pos) /\ \A i \in DOMAIN chunks : CutOK(chunks[i].to)
  BY <1>1, <1>2 DEF IngestInv, CutInv
<1>4. FileOK' /\ \A c : CutOK(c)' <=> CutOK(c)
  BY <1>1, FileKept DEF IngestInv
<1>5. t \in Texts /\ t.from = start /\ t.to = pos /\ Size(t) <= MaxChars
  BY <1>2, <1>3 DEF Text, Texts, Size
<1> HIDE DEF t
<1>6. Covers(chunks', 0, start')
  BY <1>1, <1>2, <1>3, <1>5, CoverAppend
<1>7. /\ chunks' \in Seq(Texts) /\ Len(chunks) \in Nat /\ Len(chunks') = Len(chunks) + 1
      /\ chunks'[Len(chunks) + 1] = t /\ \A i \in 1..Len(chunks) : chunks'[i] = chunks[i]
  BY <1>1, <1>2, <1>5, AppendProperties
<1>8. Fits(chunks')
  BY <1>3, <1>5, <1>7 DEF Fits
<1>9. ASSUME NEW i \in 1..(Len(chunks') - 1) PROVE chunks'[i + 1].to - chunks'[i].from > MaxChars
  <2>1. CASE i = Len(chunks)
    <3>1. chunks # <<>> /\ chunks'[i] = chunks[Len(chunks)] /\ chunks'[i + 1] = t
      BY <1>7, <2>1, EmptySeq
    <3> QED BY <1>3, <1>5, <3>1
  <2>2. CASE i # Len(chunks)
    <3>1. /\ i \in 1..(Len(chunks) - 1) /\ chunks'[i] = chunks[i] /\ chunks'[i + 1] = chunks[i + 1]
      BY <1>7, <2>2
    <3> QED BY <1>3, <3>1
  <2> QED BY <2>1, <2>2
<1>10. \A i \in DOMAIN chunks' : CutOK(chunks'[i].to)
  BY <1>3, <1>5, <1>7
<1>11. CutInv'
  <2>1. start' <= pos' /\ pos' <= file'.length /\ pos' - start' <= MaxChars
    BY <1>1, <1>2, SizesAssumption
  <2> QED BY <1>1, <1>3, <1>4, <1>6, <1>8, <1>9, <1>10, <2>1 DEF CutInv, Covers, Fits, Size
<1>12. EmbedInv'
  <2>1. next' = 1 /\ pending' = <<>> /\ items' = <<>>
    BY <1>1 DEF IngestInv, EmbedInv, embedding
  <2>2. next' \in 1..(Len(chunks') + 1)
    BY <1>7, <2>1
  <2>3. Done' = 0 /\ ChunkStart' = 0
    BY <2>1 DEF Done, ChunkStart
  <2> QED BY <1>1, <2>1, <2>2, <2>3 DEF EmbedInv, Covers, Fits, Linked
<1>13. TypeOK' /\ StoredWhole'
  BY <1>1, <1>2, <1>7 DEF IngestInv, TypeOK, StoredWhole, PCs, embedding
<1> QED BY <1>4, <1>11, <1>12, <1>13 DEF IngestInv

\* The steps that leave the chunks and what they say of the file alone.
LEMMA CuttingDone ==
    ASSUME IngestInv, UNCHANGED <<file, cutting>>, pc # "cut", pc' # "cut"
    PROVE  FileOK' /\ CutInv'
<1>1. FileOK' /\ (\A c : CutOK(c)' <=> CutOK(c)) /\ UNCHANGED <<pos, start, chunks>>
  BY FileKept DEF IngestInv, cutting
<1> QED BY <1>1 DEF IngestInv, CutInv, Covers, Fits, Size

\* All chunks there are, and they reach the end of the file.
LEMMA ChunksReachEnd ==
    ASSUME IngestInv, pc # "cut"
    PROVE  /\ chunks \in Seq(Texts) /\ chunks # <<>> /\ Len(chunks) \in Nat \ {0}
           /\ Covers(chunks, 0, file.length) /\ Fits(chunks)
           /\ chunks[1].from = 0 /\ chunks[Len(chunks)].to = file.length
           /\ \A i \in 1..(Len(chunks) - 1) : chunks[i].to = chunks[i + 1].from
<1>1. chunks \in Seq(Texts) /\ file.length > 0 /\ file.length \in Nat
  BY LengthAssumption DEF IngestInv, TypeOK, Files
<1>2. Covers(chunks, 0, file.length) /\ Fits(chunks)
  BY DEF IngestInv, CutInv
<1>3. chunks # <<>>
  BY <1>1, <1>2 DEF Covers
<1> QED BY <1>1, <1>2, <1>3, EmptySeq DEF Covers

LEMMA NextBatchStep ==
    ASSUME IngestInv, NextBatch
    PROVE  IngestInv'
<1> DEFINE n == LastOfBatch
           batch == Batch(SubSeq(chunks, next, n), 0)
<1>1. /\ pc = "batch" /\ pc' = "embed" /\ next <= Len(chunks) /\ next' = n + 1 /\ pending' = <<batch>>
      /\ UNCHANGED <<file, cutting, items, calls, refused>>
  BY DEF NextBatch
<1>2. /\ chunks \in Seq(Texts) /\ Len(chunks) \in Nat \ {0}
      /\ Covers(chunks, 0, file.length) /\ Fits(chunks) /\ chunks[1].from = 0
      /\ \A i \in 1..(Len(chunks) - 1) : chunks[i].to = chunks[i + 1].from
  BY <1>1, ChunksReachEnd
<1>3. next \in 1..Len(chunks)
  BY <1>1, <1>2 DEF IngestInv, EmbedInv
<1>4. n \in next..Len(chunks)
  <2>1. {next + BatchSize - 1, Len(chunks)} \in SUBSET Nat
    BY <1>2, <1>3, SizesAssumption
  <2>2. n \in {next + BatchSize - 1, Len(chunks)} /\ n <= Len(chunks)
    BY <2>1, SmallestOf DEF LastOfBatch
  <2> QED BY <1>2, <1>3, <2>2, SizesAssumption
<1> HIDE DEF n
<1>5. GoodBatch(batch) /\ Span(batch) = Text(chunks[next].from, chunks[n].to)
  BY <1>2, <1>3, <1>4, PartIsBatch
<1> HIDE DEF batch
<1>6. chunks[next].from = ChunkStart
  <2>1. CASE next = 1
    BY <1>2, <2>1 DEF ChunkStart
  <2>2. CASE next # 1
    <3>1. next - 1 \in 1..(Len(chunks) - 1) /\ (next - 1) + 1 = next
      BY <1>2, <1>3, <2>2
    <3>2. chunks[next - 1].to = chunks[next].from
      BY <1>2, <3>1
    <3> QED BY <2>2, <3>2 DEF ChunkStart
  <2> QED BY <2>1, <2>2
<1>7. ChunkStart = Done
  BY <1>1 DEF IngestInv, EmbedInv, Linked
<1>8. ChunkStart' = chunks[n].to
  BY <1>1, <1>3, <1>4 DEF ChunkStart, cutting
<1>9. Linked(<<batch>>, Done, chunks[n].to)
  <2>1. Span(batch).from = Done /\ Span(batch).to = chunks[n].to
    BY <1>5, <1>6, <1>7 DEF Text
  <2>2. Len(<<batch>>) = 1 /\ <<batch>>[1] = batch /\ <<batch>> # <<>>
    OBVIOUS
  <2> QED BY <1>5, <2>1, <2>2 DEF Linked
<1>10. EmbedInv'
  <2>1. Done' = Done
    BY <1>1 DEF Done
  <2>2. Covers(items, 0, Done) /\ Fits(items)
    BY <1>1 DEF IngestInv, EmbedInv
  <2>3. next' \in 1..(Len(chunks') + 1)
    BY <1>1, <1>2, <1>3, <1>4 DEF cutting
  <2>4. Linked(pending', Done', ChunkStart')
    BY <1>1, <1>8, <1>9, <2>1
  <2>5. Covers(items', 0, Done') /\ Fits(items')
    BY <1>1, <2>1, <2>2
  <2>6. pending' # <<>>
    BY <1>1
  <2> QED BY <1>1, <2>3, <2>4, <2>5, <2>6 DEF EmbedInv, Linked, Covers, Fits, Size, GoodBatch, Span
<1>11. TypeOK'
  <2>1. batch \in Batches
    BY <1>5 DEF GoodBatch
  <2> QED BY <1>1, <1>3, <1>4, <2>1 DEF IngestInv, TypeOK, PCs, cutting
<1>12. StoredWhole'
  BY <1>1 DEF StoredWhole
<1> QED BY <1>1, <1>10, <1>11, <1>12, CuttingDone DEF IngestInv

LEMMA HandOverStep ==
    ASSUME IngestInv, HandOver
    PROVE  IngestInv'
<1>1. /\ pc = "batch" /\ pc' = "stored" /\ next > Len(chunks)
      /\ UNCHANGED <<file, cutting, embedding>>
  BY DEF HandOver
<1>2. chunks[Len(chunks)].to = file.length /\ Len(chunks) \in Nat \ {0}
  BY <1>1, ChunksReachEnd
<1>3. /\ next \in 1..(Len(chunks) + 1) /\ Covers(items, 0, Done) /\ Fits(items) /\ Done = ChunkStart
  BY <1>1 DEF IngestInv, EmbedInv, Linked
<1>4. next - 1 = Len(chunks)
  BY <1>1, <1>2, <1>3
<1>5. ChunkStart = file.length
  BY <1>2, <1>4 DEF ChunkStart
<1>6. StoredWhole'
  BY <1>1, <1>3, <1>5 DEF StoredWhole, Fits, Covers, Size, embedding
<1>7. TypeOK' /\ EmbedInv'
  BY <1>1 DEF IngestInv, TypeOK, EmbedInv, PCs, cutting, embedding
<1> QED BY <1>1, <1>6, <1>7, CuttingDone DEF IngestInv

\* A call is under way: of the first batch, where the embedded part ends.
LEMMA AtCall ==
    ASSUME IngestInv, pc = "embed"
    PROVE  /\ items \in Seq(Texts) /\ Covers(items, 0, Done) /\ Fits(items)
           /\ pending \in Seq(Batches) /\ pending # <<>> /\ Linked(pending, Done, ChunkStart)
           /\ Head(pending) = pending[1] /\ GoodBatch(pending[1])
           /\ Span(pending[1]).from = Done
           /\ next \in 1..(Len(chunks) + 1)
<1>1. pending \in Seq(Batches) /\ items \in Seq(Texts)
  BY DEF IngestInv, TypeOK
<1>2. /\ Covers(items, 0, Done) /\ Fits(items) /\ pending # <<>> /\ Linked(pending, Done, ChunkStart)
      /\ next \in 1..(Len(chunks) + 1)
  BY DEF IngestInv, EmbedInv
<1> QED BY <1>1, <1>2, LinkedTail

\* A call whose batch is replaced by its halves.
LEMMA HalvedStep ==
    ASSUME IngestInv, Call, UNCHANGED <<file, pc, cutting, next, items, refused>>,
           NEW x, NEW y, GoodBatch(x), GoodBatch(y),
           Span(x).from = Span(pending[1]).from, Span(x).to = Span(y).from,
           Span(y).to = Span(pending[1]).to, pending' = <<x, y>> \o Tail(pending)
    PROVE  IngestInv'
<1>1. pc = "embed" /\ pc' = "embed"
  BY DEF Call
<1>2. /\ Covers(items, 0, Done) /\ Fits(items) /\ next \in 1..(Len(chunks) + 1)
      /\ pending \in Seq(Batches) /\ pending # <<>> /\ Linked(pending, Done, ChunkStart)
      /\ Span(pending[1]).from = Done
  BY <1>1, AtCall
<1>3. pending' \in Seq(Batches) /\ pending' # <<>> /\ Linked(pending', Done, ChunkStart)
  BY <1>2, LinkedHalves
<1>4. UNCHANGED <<Done, ChunkStart>>
  BY DEF Done, ChunkStart, cutting
<1>5. TypeOK'
  BY <1>1, <1>3 DEF IngestInv, TypeOK, Call, cutting
<1>6. EmbedInv'
  <2>1. Linked(pending', Done', ChunkStart') /\ Covers(items', 0, Done') /\ Fits(items')
    BY <1>2, <1>3, <1>4
  <2>2. next' \in 1..(Len(chunks') + 1)
    BY <1>2 DEF cutting
  <2> QED BY <1>1, <1>3, <2>1, <2>2 DEF EmbedInv, Linked, Covers, Fits, Size, GoodBatch, Span
<1>7. StoredWhole'
  BY <1>1 DEF StoredWhole
<1> QED BY <1>1, <1>5, <1>6, <1>7, CuttingDone DEF IngestInv

LEMMA HalveBatchStep ==
    ASSUME IngestInv, HalveBatch
    PROVE  IngestInv'
<1> DEFINE b == pending[1]
           mid == Len(b.texts) \div 2
           x == Batch(SubSeq(b.texts, 1, mid), b.depth)
           y == Batch(SubSeq(b.texts, mid + 1, Len(b.texts)), b.depth)
<1>1. /\ pc = "embed" /\ Call /\ UNCHANGED <<file, pc, cutting, next, items, refused>>
      /\ Len(Head(pending).texts) > 1 /\ pending' = Halves(Head(pending)) \o Tail(pending)
  BY DEF HalveBatch, Call
<1>2. Head(pending) = b /\ GoodBatch(b)
  BY <1>1, AtCall
<1>3. /\ b.texts \in Seq(Texts) /\ b.depth \in Nat /\ Len(b.texts) \in Nat /\ Len(b.texts) > 1
      /\ Covers(b.texts, Span(b).from, Span(b).to) /\ Fits(b.texts) /\ b.texts # <<>>
  <2> HIDE DEF b
  <2>1. /\ b \in Batches /\ Covers(b.texts, Span(b).from, Span(b).to)
        /\ Fits(b.texts) /\ b.texts # <<>>
    BY <1>2 DEF GoodBatch
  <2>2. b.texts \in Seq(Texts) /\ b.depth \in Nat
    BY <2>1 DEF Batches
  <2>3. Len(b.texts) \in Nat /\ Len(b.texts) > 1
    BY <1>1, <1>2, <2>2
  <2> QED BY <2>1, <2>2, <2>3
<1>4. mid \in 1..(Len(b.texts) - 1) /\ mid + 1 \in 1..Len(b.texts)
  <2>1. \A n \in Nat : n > 1 => n \div 2 \in 1..(n - 1) /\ (n \div 2) + 1 \in 1..n
    OBVIOUS
  <2> HIDE DEF b
  <2> QED BY <1>3, <2>1
<1>5. pending' = <<x, y>> \o Tail(pending)
  BY <1>1, <1>2 DEF Halves
<1> HIDE DEF b, mid
<1>6. GoodBatch(x) /\ Span(x) = Text(b.texts[1].from, b.texts[mid].to)
  <2>1. 1 \in 1..Len(b.texts) /\ mid \in 1..Len(b.texts)
    BY <1>3, <1>4
  <2> QED BY <1>3, <2>1, PartIsBatch
<1>7. GoodBatch(y) /\ Span(y) = Text(b.texts[mid + 1].from, b.texts[Len(b.texts)].to)
  <2>1. Len(b.texts) \in (mid + 1)..Len(b.texts)
    BY <1>3, <1>4
  <2> QED BY <1>3, <1>4, <2>1, PartIsBatch
<1>8. b.texts[mid].to = b.texts[mid + 1].from
  BY <1>3, <1>4 DEF Covers
<1>9. Span(x).from = Span(b).from /\ Span(x).to = Span(y).from /\ Span(y).to = Span(b).to
  BY <1>6, <1>7, <1>8 DEF Span, Text
<1> HIDE DEF x, y
<1> QED BY <1>1, <1>5, <1>6, <1>7, <1>9, HalvedStep DEF b

LEMMA HalveTextStep ==
    ASSUME IngestInv, HalveText
    PROVE  IngestInv'
<1> DEFINE b == pending[1]
           t == b.texts[1]
           mid == t.from + (Size(t) \div 2)
           x == Batch(<<Text(t.from, mid)>>, b.depth + 1)
           y == Batch(<<Text(mid, t.to)>>, b.depth + 1)
<1>1. /\ pc = "embed" /\ Call /\ UNCHANGED <<file, pc, cutting, next, items, refused>>
      /\ Len(Head(pending).texts) = 1 /\ ~Hopeless(Head(pending))
      /\ pending' = TextHalves(Head(pending)) \o Tail(pending)
  BY DEF HalveText, Call
<1>2. Head(pending) = b /\ GoodBatch(b)
  BY <1>1, AtCall
<1>3. /\ b.texts \in Seq(Texts) /\ b.depth \in Nat /\ Len(b.texts) = 1 /\ Fits(b.texts)
  BY <1>1, <1>2 DEF GoodBatch, Batches
<1>4. t \in Texts /\ Size(t) <= MaxChars /\ Span(b) = t
  <2>1. 1 \in 1..Len(b.texts)
    BY <1>3
  <2>2. t \in Texts /\ Size(t) <= MaxChars
    BY <1>3, <2>1, ElementOfSeq DEF Fits
  <2> QED BY <1>3, <2>2 DEF Span, Text, Texts
<1>5. Size(t) >= 2
  BY <1>1, <1>2, <1>4, LengthAssumption DEF Hopeless, Size, Texts, Positions
<1>6. pending' = <<x, y>> \o Tail(pending)
  BY <1>1, <1>2 DEF TextHalves
<1> HIDE DEF b, t
<1>7. /\ t.from \in Nat /\ t.to \in Nat /\ t.to <= MaxLength /\ MaxLength \in Nat
      /\ Size(t) = t.to - t.from /\ Size(t) \in Int
  BY <1>4, LengthAssumption DEF Size, Texts, Positions
<1>8. mid \in Nat /\ t.from < mid /\ mid < t.to
  BY <1>5, <1>7
<1> HIDE DEF mid
<1>9. Text(t.from, mid) \in Texts /\ Text(mid, t.to) \in Texts
  BY <1>7, <1>8 DEF Text, Texts, Positions
<1>10. Size(Text(t.from, mid)) <= MaxChars /\ Size(Text(mid, t.to)) <= MaxChars
  BY <1>4, <1>7, <1>8, SizesAssumption DEF Text, Size
<1>11. GoodBatch(x) /\ Span(x) = Text(t.from, mid) /\ GoodBatch(y) /\ Span(y) = Text(mid, t.to)
  <2>1. b.depth + 1 \in Nat
    BY <1>3
  <2>2. GoodBatch(x) /\ Span(x) = Text(t.from, mid)
    BY <1>8, <1>9, <1>10, <2>1, TextIsBatch DEF Text
  <2>3. GoodBatch(y) /\ Span(y) = Text(mid, t.to)
    BY <1>8, <1>9, <1>10, <2>1, TextIsBatch DEF Text
  <2> QED BY <2>2, <2>3
<1>12. Span(x).from = Span(b).from /\ Span(x).to = Span(y).from /\ Span(y).to = Span(b).to
  BY <1>4, <1>11 DEF Text
<1> HIDE DEF x, y
<1> QED BY <1>1, <1>6, <1>11, <1>12, HalvedStep DEF b

LEMMA BatchEmbeddedStep ==
    ASSUME IngestInv, BatchEmbedded
    PROVE  IngestInv'
<1> DEFINE b == pending[1]
<1>1. /\ pc = "embed" /\ Call /\ items' = items \o Head(pending).texts /\ pending' = Tail(pending)
      /\ pc' = (IF Tail(pending) = <<>> THEN "batch" ELSE "embed")
      /\ UNCHANGED <<file, cutting, next, refused>>
  BY DEF BatchEmbedded, Call
<1>2. /\ items \in Seq(Texts) /\ Covers(items, 0, Done) /\ Fits(items)
      /\ pending \in Seq(Batches) /\ pending # <<>> /\ Linked(pending, Done, ChunkStart)
      /\ Head(pending) = b /\ GoodBatch(b) /\ Span(b).from = Done
      /\ next \in 1..(Len(chunks) + 1)
  BY <1>1, AtCall
<1>3. b.texts \in Seq(Texts) /\ b.texts # <<>> /\ Covers(b.texts, Done, Span(b).to) /\ Fits(b.texts)
  BY <1>2 DEF GoodBatch, Batches
<1>4. pending' \in Seq(Batches) /\ Linked(pending', Span(b).to, ChunkStart)
  BY <1>1, <1>2, LinkedTail
<1> HIDE DEF b
<1>5. items' \in Seq(Texts) /\ Covers(items', 0, Span(b).to) /\ Fits(items') /\ items' # <<>>
  <2>1. items' = items \o b.texts
    BY <1>1, <1>2
  <2>2. items' \in Seq(Texts) /\ items' # <<>>
    BY <1>2, <1>3, <2>1, ConcatProperties, ConcatEqualIffEmpty
  <2> QED BY <1>2, <1>3, <2>1, <2>2, CoverConcat, FitsConcat
<1>6. Done' = Span(b).to /\ UNCHANGED ChunkStart
  <2>1. items'[Len(items')].to = Span(b).to
    BY <1>5 DEF Covers
  <2> QED BY <1>1, <1>5, <2>1 DEF Done, ChunkStart, cutting
<1>7. TypeOK'
  BY <1>1, <1>4, <1>5 DEF IngestInv, TypeOK, PCs, Call, cutting
<1>8. EmbedInv'
  <2>1. Linked(pending', Done', ChunkStart') /\ Covers(items', 0, Done') /\ Fits(items')
    BY <1>4, <1>5, <1>6
  <2>2. next' \in 1..(Len(chunks') + 1)
    BY <1>1, <1>2 DEF cutting
  <2>3. (pc' = "batch" => pending' = <<>>) /\ (pc' = "embed" => pending' # <<>>) /\ pc' # "cut"
    BY <1>1
  <2> QED BY <2>1, <2>2, <2>3 DEF EmbedInv, Linked, Covers, Fits, Size, GoodBatch, Span
<1>9. StoredWhole'
  BY <1>1 DEF StoredWhole
<1>10. pc' # "cut"
  BY <1>1
<1> QED BY <1>1, <1>7, <1>8, <1>9, <1>10, CuttingDone DEF IngestInv

LEMMA FailStep ==
    ASSUME IngestInv, GiveUp \/ ServiceFails
    PROVE  IngestInv'
<1>1. /\ pc = "embed" /\ Call /\ Fail /\ UNCHANGED <<file, cutting, next>>
      /\ refused' \in {refused, Head(pending).texts[1]}
      /\ refused' = Head(pending).texts[1] => Len(Head(pending).texts) = 1 \/ refused' = refused
  BY DEF GiveUp, ServiceFails, Call
<1>2. refused' \in Texts
  <2>1. CASE refused' = refused
    BY <2>1 DEF IngestInv, TypeOK
  <2>2. CASE refused' = Head(pending).texts[1]
    <3>1. Head(pending) = pending[1] /\ GoodBatch(pending[1])
      BY <1>1, AtCall
    <3>2. pending[1].texts \in Seq(Texts) /\ 1 \in 1..Len(pending[1].texts)
      BY <3>1, EmptySeq DEF GoodBatch, Batches
    <3> QED BY <2>2, <3>1, <3>2, ElementOfSeq
  <2> QED BY <1>1, <2>1, <2>2
<1>3. TypeOK' /\ EmbedInv' /\ StoredWhole'
  BY <1>1, <1>2 DEF IngestInv, TypeOK, EmbedInv, StoredWhole, Fail, PCs, Call, cutting
<1>4. pc' # "cut"
  BY <1>1 DEF Fail
<1> QED BY <1>1, <1>3, <1>4, CuttingDone DEF IngestInv

LEMMA IngestNext ==
    ASSUME IngestInv, [Next]_vars
    PROVE  IngestInv'
<1>1. CASE Ended \/ UNCHANGED vars
  <2>1. UNCHANGED vars
    BY <1>1 DEF Ended
  <2>2. UNCHANGED <<file, pc, pos, start, chunks, next, pending, items, calls, refused>>
    BY <2>1 DEF vars, cutting, embedding
  <2>3. FileOK' /\ \A c : CutOK(c)' <=> CutOK(c)
    BY <2>2, FileKept DEF IngestInv
  <2>4. CutInv'
    BY <2>2, <2>3 DEF IngestInv, CutInv, Covers, Fits, Size
  <2>5. EmbedInv'
    BY <2>2 DEF IngestInv, EmbedInv, Done, ChunkStart, Linked, GoodBatch, Span, Covers, Fits, Size
  <2>6. TypeOK' /\ StoredWhole'
    BY <2>2 DEF IngestInv, TypeOK, StoredWhole, Covers, Size
  <2> QED BY <2>3, <2>4, <2>5, <2>6 DEF IngestInv
<1> QED BY <1>1, AddPieceStep, LastChunkStep, NextBatchStep, HandOverStep, BatchEmbeddedStep,
           HalveBatchStep, HalveTextStep, FailStep DEF Next, Embed

LEMMA IngestAlways == Spec => []IngestInv
BY IngestInit, IngestNext, PTL DEF Spec

-----------------------------------------------------------------------------
(* Powers of two: the recursive function is what it says *)

\* f doubles from 1 on, as far as k.
Doubles(f, k) == f[0] = 1 /\ \A n \in 1..k : f[n] = 2 * f[n - 1]

LEMMA DoublesUpTo ==
    ASSUME NEW k \in Nat
    PROVE  \E f \in [Nat -> Nat] : Doubles(f, k)
<1> DEFINE Missed == {m \in Nat : ~\E f \in [Nat -> Nat] : Doubles(f, m)}
<1>1. SUFFICES ASSUME Missed # {} PROVE FALSE
  OBVIOUS
<1> DEFINE m == Smallest(Missed)
<1>2. m \in Missed /\ \A y \in Missed : m <= y
  <2>1. Missed \in SUBSET Nat
    OBVIOUS
  <2> HIDE DEF Missed
  <2> QED BY <1>1, <2>1, SmallestOf
<1>3. m \in Nat /\ ~\E f \in [Nat -> Nat] : Doubles(f, m)
  BY <1>2
<1> HIDE DEF m
<1>4. CASE m = 0
  <2> DEFINE f == [n \in Nat |-> 1]
  <2>1. f \in [Nat -> Nat] /\ Doubles(f, 0)
    BY DEF Doubles
  <2> QED BY <1>3, <1>4, <2>1
<1>5. CASE m # 0
  <2>1. m - 1 \in Nat /\ m - 1 \notin Missed
    <3> HIDE DEF Missed
    <3> QED BY <1>2, <1>3, <1>5
  <2>2. PICK f \in [Nat -> Nat] : Doubles(f, m - 1)
    BY <2>1
  <2> DEFINE g == [f EXCEPT ![m] = 2 * f[m - 1]]
  <2>3. g \in [Nat -> Nat]
    BY <1>3, <2>1
  <2>4. g[0] = 1 /\ g[m] = 2 * f[m - 1] /\ \A n \in 0..(m - 1) : g[n] = f[n]
    BY <1>3, <1>5, <2>1, <2>2 DEF Doubles
  <2> HIDE DEF g
  <2>5. ASSUME NEW n \in 1..m PROVE g[n] = 2 * g[n - 1]
    <3>1. CASE n = m
      <4>1. g[m - 1] = f[m - 1]
        BY <1>3, <2>1, <2>4
      <4> QED BY <2>4, <3>1, <4>1
    <3>2. CASE n # m
      <4>1. n \in 1..(m - 1) /\ n \in 0..(m - 1) /\ n - 1 \in 0..(m - 1)
        BY <1>3, <3>2
      <4>2. f[n] = 2 * f[n - 1]
        BY <2>2, <4>1 DEF Doubles
      <4> QED BY <2>4, <4>1, <4>2
    <3> QED BY <3>1, <3>2
  <2>6. Doubles(g, m)
    BY <2>4, <2>5 DEF Doubles
  <2> QED BY <1>3, <2>3, <2>6
<1> QED BY <1>4, <1>5

LEMMA DoublesAgree ==
    ASSUME NEW f \in [Nat -> Nat], NEW g \in [Nat -> Nat], NEW j \in Nat, NEW k \in Nat,
           Doubles(f, j), Doubles(g, k), NEW n \in Nat, n <= j, n <= k
    PROVE  f[n] = g[n]
<1> DEFINE Apart == {m \in 0..n : f[m] # g[m]}
<1>1. SUFFICES ASSUME Apart # {} PROVE FALSE
  OBVIOUS
<1> DEFINE m == Smallest(Apart)
<1>2. m \in Apart /\ \A y \in Apart : m <= y
  <2>1. Apart \in SUBSET Nat
    OBVIOUS
  <2> HIDE DEF Apart
  <2> QED BY <1>1, <2>1, SmallestOf
<1>3. m \in 0..n /\ f[m] # g[m]
  BY <1>2
<1> HIDE DEF m
<1>4. m # 0
  BY <1>3 DEF Doubles
<1>5. m - 1 \in 0..n /\ m - 1 \notin Apart /\ m \in 1..j /\ m \in 1..k
  BY <1>2, <1>3, <1>4
<1>6. f[m - 1] = g[m - 1]
  BY <1>5
<1> QED BY <1>3, <1>5, <1>6 DEF Doubles

LEMMA PowerStep ==
    /\ Power2[0] = 1
    /\ \A n \in Nat : Power2[n] \in Nat \ {0} /\ Power2[n + 1] = 2 * Power2[n]
<1> DEFINE upTo(n) == CHOOSE f \in [Nat -> Nat] : Doubles(f, n)
           power == [n \in Nat |-> upTo(n)[n]]
<1>1. \A n \in Nat : upTo(n) \in [Nat -> Nat] /\ Doubles(upTo(n), n)
  BY DoublesUpTo
<1> HIDE DEF upTo
<1>2. \A n \in Nat : power[n] = upTo(n)[n] /\ power[n] \in Nat
  BY <1>1
<1>3. power[0] = 1
  BY <1>1, <1>2 DEF Doubles
<1>4. ASSUME NEW n \in Nat, n # 0 PROVE power[n] = 2 * power[n - 1]
  <2>1. n - 1 \in Nat /\ n \in 1..n
    BY <1>4
  <2>2. upTo(n)[n - 1] = upTo(n - 1)[n - 1]
    <3>1. /\ upTo(n) \in [Nat -> Nat] /\ Doubles(upTo(n), n)
          /\ upTo(n - 1) \in [Nat -> Nat] /\ Doubles(upTo(n - 1), n - 1)
      BY <1>1, <2>1
    <3>2. n - 1 <= n /\ n - 1 <= n - 1
      BY <2>1
    <3> QED BY <2>1, <3>1, <3>2, DoublesAgree
  <2>3. upTo(n)[n] = 2 * upTo(n)[n - 1]
    BY <1>1, <2>1 DEF Doubles
  <2> QED BY <1>2, <2>1, <2>2, <2>3
<1>5. power = [n \in Nat |-> IF n = 0 THEN 1 ELSE 2 * power[n - 1]]
  <2>1. \A n \in Nat : power[n] = IF n = 0 THEN 1 ELSE 2 * power[n - 1]
    BY <1>3, <1>4
  <2>2. power = [n \in Nat |-> power[n]]
    OBVIOUS
  <2> HIDE DEF power
  <2> QED BY <2>1, <2>2
<1> HIDE DEF power
<1>6. Power2 = [n \in Nat |-> IF n = 0 THEN 1 ELSE 2 * Power2[n - 1]]
  BY <1>5 DEF Power2
<1>7. Power2[0] = 1
  BY <1>6
<1>8. ASSUME NEW n \in Nat PROVE Power2[n + 1] = 2 * Power2[n]
  <2>1. n + 1 \in Nat /\ n + 1 # 0 /\ (n + 1) - 1 = n
    OBVIOUS
  <2> QED BY <1>6, <2>1
<1> DEFINE NotPositive == {n \in Nat : ~(Power2[n] \in Nat \ {0})}
<1>9. NotPositive = {}
  <2> SUFFICES ASSUME NotPositive # {} PROVE FALSE
    OBVIOUS
  <2> DEFINE m == Smallest(NotPositive)
  <2>1. m \in NotPositive /\ \A y \in NotPositive : m <= y
    <3>1. NotPositive \in SUBSET Nat
      OBVIOUS
    <3> HIDE DEF NotPositive
    <3> QED BY <3>1, SmallestOf
  <2>2. m \in Nat /\ ~(Power2[m] \in Nat \ {0})
    BY <2>1
  <2> HIDE DEF m
  <2>3. m # 0
    BY <1>7, <2>2
  <2>4. m - 1 \in Nat /\ m - 1 \notin NotPositive /\ (m - 1) + 1 = m
    BY <2>1, <2>2, <2>3
  <2>5. Power2[m - 1] \in Nat \ {0}
    BY <2>4
  <2>6. Power2[m] = 2 * Power2[m - 1]
    BY <1>8, <2>4
  <2> QED BY <2>2, <2>5, <2>6
<1> QED BY <1>7, <1>8, <1>9

-----------------------------------------------------------------------------
(* Halving: what it leaves of a chunk, and what it costs *)

\* The calls that a batch costs if every one of them is refused: each text is halved as often as
\* its depth allows.
Cost(b) == Len(b.texts) * Power2[MaxSplitDepth + 1 - b.depth] - 1

\* The batches p and `rest` calls for the chunks of later batches cost at most n calls: w[i] is
\* what they cost from the i-th batch on.
Budget(p, rest, n) ==
    \E w \in [1..(Len(p) + 1) -> Nat] :
        /\ w[Len(p) + 1] = rest
        /\ \A i \in 1..Len(p) : w[i] = w[i + 1] + Cost(p[i])
        /\ w[1] <= n

\* The calls for the chunks that are in no batch yet.
Rest == (Len(chunks) + 1 - next) * Power2[MaxSplitDepth + 1]

\* t is what `depth` halvings leave of a part of a chunk.
OfChunk(t, depth) ==
    \E c \in DOMAIN chunks :
        /\ chunks[c].from <= t.from /\ t.to <= chunks[c].to
        /\ Size(t) = 1 \/ Size(t) * Power2[depth] < Size(chunks[c]) + Power2[depth]

HalvedFromChunks(b) ==
    b.depth <= MaxSplitDepth /\ \A i \in DOMAIN b.texts : OfChunk(b.texts[i], b.depth)

HalvingInv ==
    /\ \A i \in DOMAIN pending : HalvedFromChunks(pending[i])
    /\ pc # "failed" => refused = Nothing
    /\ GivesUpOnlyWhenHopeless
    /\ pc = "cut" => calls = 0
    /\ CallsBounded
    /\ pc # "failed" => Budget(pending, Rest, CallBound - calls)

LEMMA CostOfBatch ==
    ASSUME NEW b \in Batches, b.texts # <<>>, b.depth <= MaxSplitDepth
    PROVE  /\ Cost(b) \in Nat \ {0}
           /\ Power2[MaxSplitDepth + 1 - b.depth] = 2 * Power2[MaxSplitDepth - b.depth]
           /\ Power2[MaxSplitDepth - b.depth] \in Nat \ {0}
<1> DEFINE k == MaxSplitDepth - b.depth
           n == Len(b.texts)
<1>1. b.depth \in Nat /\ b.texts \in Seq(Texts) /\ k \in Nat /\ n \in Nat \ {0}
  BY SplitAssumption, EmptySeq DEF Batches
<1>2. MaxSplitDepth + 1 - b.depth = k + 1
  BY <1>1, SplitAssumption DEF Batches
<1>3. Power2[k] \in Nat \ {0} /\ Power2[k + 1] = 2 * Power2[k]
  BY <1>1, PowerStep
<1> DEFINE q == Power2[k]
<1>4. Cost(b) = n * (2 * q) - 1
  BY <1>2, <1>3 DEF Cost
<1>5. q \in Nat \ {0}
  BY <1>3
<1>6. Cost(b) \in Nat \ {0}
  <2> HIDE DEF q, n
  <2>1. n * q \in Nat \ {0} /\ n * (2 * q) = 2 * (n * q)
    BY <1>1, <1>5
  <2> QED BY <1>4, <2>1
<1> QED BY <1>2, <1>3, <1>6

LEMMA BudgetEmpty ==
    ASSUME NEW rest \in Nat, NEW n \in Int, rest <= n
    PROVE  Budget(<<>>, rest, n)
<1> DEFINE w == [i \in 1..1 |-> rest]
<1>1. w \in [1..1 -> Nat] /\ w[1] = rest
  OBVIOUS
<1> HIDE DEF w
<1>2. Len(<<>>) = 0 /\ 1..(0 + 1) = 1..1 /\ 1..0 = {}
  OBVIOUS
<1> QED BY <1>1, <1>2 DEF Budget

\* The first batch is done.
LEMMA BudgetTail ==
    ASSUME NEW p \in Seq(Batches), p # <<>>, NEW rest, NEW n \in Int, Budget(p, rest, n),
           Cost(p[1]) \in Nat
    PROVE  Budget(Tail(p), rest, n - Cost(p[1])) /\ n - Cost(p[1]) >= 0
<1> DEFINE k == Len(p)
           t == Tail(p)
<1>1. /\ k \in Nat \ {0} /\ t \in Seq(Batches) /\ Len(t) = k - 1
      /\ \A i \in 1..(k - 1) : t[i] = p[i + 1]
  BY EmptySeq
<1>2. PICK w \in [1..(k + 1) -> Nat] :
          /\ w[k + 1] = rest
          /\ \A i \in 1..k : w[i] = w[i + 1] + Cost(p[i])
          /\ w[1] <= n
  BY DEF Budget
<1> DEFINE v == [i \in 1..k |-> w[i + 1]]
<1> HIDE DEF k, t
<1>3. v \in [1..k -> Nat] /\ \A i \in 1..k : v[i] = w[i + 1]
  BY <1>1, <1>2
<1> HIDE DEF v
<1>4. v[k] = rest
  BY <1>1, <1>2, <1>3
<1>5. ASSUME NEW i \in 1..(k - 1) PROVE v[i] = v[i + 1] + Cost(t[i])
  <2>1. i \in 1..k /\ i + 1 \in 1..k
    BY <1>1
  <2>2. w[i + 1] = w[(i + 1) + 1] + Cost(p[i + 1])
    BY <1>2, <2>1
  <2> QED BY <1>1, <1>3, <2>1, <2>2
<1>6. v[1] <= n - Cost(p[1]) /\ n - Cost(p[1]) >= 0
  <2>1. 1 \in 1..k /\ 1 \in 1..(k + 1) /\ 1 + 1 \in 1..(k + 1)
    BY <1>1
  <2>2. v[1] = w[1 + 1] /\ w[1] = w[1 + 1] + Cost(p[1]) /\ w[1] \in Nat /\ w[1 + 1] \in Nat
    BY <1>2, <1>3, <2>1
  <2> QED BY <1>2, <2>2
<1>7. (Len(t) + 1) = k
  BY <1>1
<1>8. Budget(t, rest, n - Cost(p[1]))
  BY <1>1, <1>3, <1>4, <1>5, <1>6, <1>7 DEF Budget
<1> QED BY <1>6, <1>8 DEF t

\* Two batches come first.
LEMMA BudgetTwo ==
    ASSUME NEW t \in Seq(Batches), NEW x \in Batches, NEW y \in Batches, NEW rest, NEW n \in Int,
           Budget(t, rest, n), Cost(x) \in Nat, Cost(y) \in Nat
    PROVE  Budget(<<x, y>> \o t, rest, n + Cost(x) + Cost(y))
<1> DEFINE p == <<x, y>> \o t
           k == Len(t)
           s == <<x, y>>
<1>1. k \in Nat /\ s \in Seq(Batches) /\ Len(s) = 2 /\ s[1] = x /\ s[2] = y
  OBVIOUS
<1>2. p = s \o t
  OBVIOUS
<1> HIDE DEF k, p, s
<1>3. /\ p \in Seq(Batches) /\ Len(p) = k + 2
      /\ \A i \in 1..(k + 2) : p[i] = IF i <= 2 THEN s[i] ELSE t[i - 2]
  <2>1. s \in Seq(Batches) /\ t \in Seq(Batches)
    BY <1>1
  <2>2. /\ Len(s \o t) = Len(s) + Len(t)
        /\ \A i \in 1..(Len(s) + Len(t)) : (s \o t)[i] = IF i <= Len(s) THEN s[i] ELSE t[i - Len(s)]
    BY <2>1, ConcatProperties
  <2>3. s \o t \in Seq(Batches)
    BY <2>1
  <2>4. Len(s) + Len(t) = k + 2
    BY <1>1 DEF k
  <2> QED BY <1>1, <1>2, <2>2, <2>3, <2>4
<1>4. p[1] = x /\ p[2] = y /\ \A i \in 3..(k + 2) : p[i] = t[i - 2]
  BY <1>1, <1>3
<1>5. PICK v \in [1..(k + 1) -> Nat] :
          /\ v[k + 1] = rest
          /\ \A i \in 1..k : v[i] = v[i + 1] + Cost(t[i])
          /\ v[1] <= n
  BY DEF Budget, k
<1> DEFINE w == [i \in 1..(k + 3) |-> IF i = 1 THEN v[1] + Cost(x) + Cost(y)
                                       ELSE IF i = 2 THEN v[1] + Cost(y) ELSE v[i - 2]]
<1>6. /\ w \in [1..(k + 3) -> Nat]
      /\ w[1] = v[1] + Cost(x) + Cost(y) /\ w[2] = v[1] + Cost(y)
      /\ \A i \in 3..(k + 3) : w[i] = v[i - 2]
  <2>1. v[1] \in Nat /\ v[1] + Cost(x) + Cost(y) \in Nat /\ v[1] + Cost(y) \in Nat
    BY <1>1, <1>5
  <2>2. \A i \in 3..(k + 3) : v[i - 2] \in Nat
    BY <1>1, <1>5
  <2> QED BY <1>1, <2>1, <2>2
<1> HIDE DEF w
<1>7. w[k + 3] = rest
  BY <1>1, <1>5, <1>6
<1>8. ASSUME NEW i \in 1..(k + 2) PROVE w[i] = w[i + 1] + Cost(p[i])
  <2>1. v[1] \in Nat
    BY <1>1, <1>5
  <2>2. CASE i = 1
    BY <1>4, <1>6, <2>1, <2>2
  <2>3. CASE i = 2
    <3>1. w[3] = v[1]
      BY <1>1, <1>6
    <3> QED BY <1>4, <1>6, <2>1, <2>3, <3>1
  <2>4. CASE i > 2
    <3>1. /\ i - 2 \in 1..k /\ i \in 3..(k + 2) /\ i \in 3..(k + 3)
          /\ i + 1 \in 3..(k + 3) /\ (i + 1) - 2 = (i - 2) + 1
      BY <1>1, <2>4
    <3>2. v[i - 2] = v[(i - 2) + 1] + Cost(t[i - 2])
      BY <1>5, <3>1
    <3>3. w[i] = v[i - 2] /\ w[i + 1] = v[(i - 2) + 1] /\ p[i] = t[i - 2]
      BY <1>4, <1>6, <3>1
    <3> QED BY <3>2, <3>3
  <2> QED BY <2>2, <2>3, <2>4
<1>9. w[1] <= n + Cost(x) + Cost(y)
  BY <1>1, <1>5, <1>6
<1>10. Len(p) + 1 = k + 3
  BY <1>1, <1>3
<1>11. Budget(p, rest, n + Cost(x) + Cost(y))
  BY <1>3, <1>6, <1>7, <1>8, <1>9, <1>10 DEF Budget
<1> QED BY <1>11 DEF p

LEMMA HalvingInit == Init => HalvingInv
<1> SUFFICES ASSUME Init PROVE HalvingInv
  OBVIOUS
<1>1. chunks = <<>> /\ next = 1 /\ pending = <<>> /\ calls = 0 /\ refused = Nothing
  BY DEF Init
<1>2. Len(chunks) = 0 /\ DOMAIN pending = {}
  BY <1>1
<1> DEFINE q == Power2[MaxSplitDepth + 1]
<1>3. q \in Nat
  BY PowerStep, SplitAssumption
<1>4. Rest = (0 + 1 - 1) * q /\ CallBound = 0 * q
  BY <1>1, <1>2 DEF Rest, CallBound
<1> HIDE DEF q
<1>5. Rest = 0 /\ CallBound = 0
  BY <1>3, <1>4
<1>6. Budget(pending, Rest, CallBound - calls)
  BY <1>1, <1>5, BudgetEmpty
<1> QED BY <1>1, <1>2, <1>5, <1>6 DEF HalvingInv, GivesUpOnlyWhenHopeless, CallsBounded

\* Before the first call, the chunks cost what the bound allows.
LEMMA NoCallYet ==
    ASSUME NEW n \in Nat
    PROVE  Budget(<<>>, (n + 1 - 1) * Power2[MaxSplitDepth + 1], n * Power2[MaxSplitDepth + 1] - 0)
<1> DEFINE q == Power2[MaxSplitDepth + 1]
<1>1. q \in Nat
  BY PowerStep, SplitAssumption
<1> HIDE DEF q
<1>2. n + 1 - 1 = n /\ n * q \in Nat /\ n * q - 0 = n * q
  BY <1>1
<1>3. Budget(<<>>, n * q, n * q)
  BY <1>2, BudgetEmpty
<1> QED BY <1>2, <1>3 DEF q

\* The chunks are cut before the first call.
LEMMA HalvingCut ==
    ASSUME IngestInv, HalvingInv, AddPiece \/ LastChunk, IngestInv'
    PROVE  HalvingInv'
<1>1. pc = "cut" /\ pc' # "failed" /\ UNCHANGED embedding /\ chunks' \in Seq(Texts)
  BY DEF AddPiece, LastChunk, IngestInv, TypeOK
<1>2. /\ next' = 1 /\ pending' = <<>> /\ calls' = 0 /\ refused' = Nothing
  BY <1>1 DEF IngestInv, EmbedInv, HalvingInv, embedding
<1> DEFINE n == Len(chunks')
<1>3. n \in Nat
  BY <1>1
<1>4. Rest' = (n + 1 - 1) * Power2[MaxSplitDepth + 1] /\ CallBound' = n * Power2[MaxSplitDepth + 1]
  BY <1>2 DEF Rest, CallBound, Power2
<1>5. Budget(pending', Rest', CallBound' - calls')
  <2> HIDE DEF n
  <2> QED BY <1>2, <1>3, <1>4, NoCallYet
<1>6. CallBound' >= 0
  <2> DEFINE q == Power2[MaxSplitDepth + 1]
  <2>1. q \in Nat
    BY PowerStep, SplitAssumption
  <2> HIDE DEF q
  <2>2. n * q >= 0
    BY <1>3, <2>1
  <2> QED BY <1>4, <2>2 DEF q
<1>7. DOMAIN pending' = {}
  BY <1>2
<1>8. (Budget(pending, Rest, CallBound - calls))'
  BY <1>5 DEF Budget, Cost, Power2
<1> QED BY <1>1, <1>2, <1>6, <1>7, <1>8 DEF HalvingInv, GivesUpOnlyWhenHopeless, CallsBounded

\* The steps that leave the chunks alone leave what the texts of a batch were halved from.
LEMMA ChunksKept ==
    ASSUME UNCHANGED chunks
    PROVE  /\ \A t, d : OfChunk(t, d)' <=> OfChunk(t, d)
           /\ \A b : HalvedFromChunks(b)' <=> HalvedFromChunks(b)
           /\ CallBound' = CallBound
BY DEF OfChunk, HalvedFromChunks, CallBound

\* The bound and the counter are numbers.
LEMMA BoundIsNumber ==
    ASSUME IngestInv
    PROVE  calls \in Nat /\ CallBound \in Int
<1> DEFINE q == Power2[MaxSplitDepth + 1]
           m == Len(chunks)
<1>1. q \in Nat
  BY PowerStep, SplitAssumption
<1>2. m \in Nat /\ calls \in Nat
  BY DEF IngestInv, TypeOK
<1>3. CallBound = m * q
  BY DEF CallBound
<1> HIDE DEF q, m
<1> QED BY <1>1, <1>2, <1>3

\* The next batch takes its calls from those kept for the chunks.
LEMMA HalvingNextBatch ==
    ASSUME IngestInv, HalvingInv, NextBatch
    PROVE  HalvingInv'
<1> DEFINE n == LastOfBatch
           batch == Batch(SubSeq(chunks, next, n), 0)
           q == Power2[MaxSplitDepth + 1]
           m == Len(chunks)
<1>1. /\ pc = "batch" /\ pc' = "embed" /\ next <= m /\ next' = n + 1 /\ pending' = <<batch>>
      /\ UNCHANGED <<chunks, calls, refused>>
  BY DEF NextBatch, cutting
<1>2. /\ chunks \in Seq(Texts) /\ m \in Nat \ {0} /\ next \in 1..m
      /\ Covers(chunks, 0, file.length) /\ Fits(chunks)
  BY <1>1, ChunksReachEnd DEF IngestInv, EmbedInv
<1>3. n \in next..m
  <2>1. {next + BatchSize - 1, Len(chunks)} \in SUBSET Nat
    BY <1>2, SizesAssumption
  <2>2. n \in {next + BatchSize - 1, Len(chunks)} /\ n <= Len(chunks)
    BY <2>1, SmallestOf DEF LastOfBatch
  <2> QED BY <1>2, <2>2, SizesAssumption
<1>4. q \in Nat \ {0}
  BY PowerStep, SplitAssumption
<1> HIDE DEF n
<1>5. /\ batch \in Batches /\ batch.texts = SubSeq(chunks, next, n) /\ batch.depth = 0
      /\ batch.texts # <<>> /\ Len(batch.texts) = n - next + 1
  <2>1. /\ SubSeq(chunks, next, n) \in Seq(Texts) /\ SubSeq(chunks, next, n) # <<>>
        /\ Len(SubSeq(chunks, next, n)) = n - next + 1
    BY <1>2, <1>3, CoverPart
  <2> QED BY <2>1 DEF Batch, Batches
<1>6. HalvedFromChunks(batch)
  <2> SUFFICES ASSUME NEW i \in DOMAIN batch.texts PROVE OfChunk(batch.texts[i], 0)
    BY <1>5, SplitAssumption DEF HalvedFromChunks
  <2>1. i \in 1..(n - next + 1) /\ next + i - 1 \in 1..m
    BY <1>2, <1>3, <1>5
  <2>2. \A j \in next..n : chunks[j] \in Texts
    BY <1>2, <1>3, ElementOfSeq
  <2>3. batch.texts[i] = chunks[next + i - 1]
    BY <1>2, <1>3, <1>5, <2>1, <2>2, SubSeqProperties
  <2> DEFINE t == chunks[next + i - 1]
  <2>4. t \in Texts /\ t = batch.texts[i] /\ next + i - 1 \in DOMAIN chunks
    BY <1>2, <2>1, <2>3, ElementOfSeq
  <2>5. Size(t) \in Int /\ t.from \in Int /\ t.to \in Int
    BY <2>4, LengthAssumption DEF Texts, Positions, Size
  <2>6. Power2[0] = 1
    BY PowerStep
  <2>7. Size(t) * Power2[0] < Size(t) + Power2[0]
    BY <2>5, <2>6
  <2> QED BY <2>4, <2>5, <2>7 DEF OfChunk
<1>7. Cost(batch) = (n - next + 1) * q - 1 /\ Cost(batch) \in Nat \ {0}
  <2>1. MaxSplitDepth + 1 - batch.depth = MaxSplitDepth + 1 /\ batch.depth <= MaxSplitDepth
    BY <1>5, SplitAssumption
  <2>2. Cost(batch) = Len(batch.texts) * Power2[MaxSplitDepth + 1] - 1
    BY <2>1 DEF Cost
  <2>3. Cost(batch) \in Nat \ {0}
    BY <1>5, <2>1, CostOfBatch
  <2> QED BY <1>5, <2>2, <2>3
<1> HIDE DEF batch, q, m
<1>8. Rest = (m + 1 - next) * q /\ Rest' = (m - n) * q /\ CallBound' = CallBound
  <2>1. Rest = (m + 1 - next) * q /\ CallBound' = CallBound
    BY <1>1 DEF Rest, CallBound, m, q
  <2>2. m + 1 - (n + 1) = m - n
    BY <1>2, <1>3
  <2>3. Rest' = (m + 1 - (n + 1)) * q
    BY <1>1 DEF Rest, m, q
  <2> QED BY <2>1, <2>2, <2>3
<1>9. pending = <<>> /\ Budget(pending, Rest, CallBound - calls)
  BY <1>1 DEF IngestInv, EmbedInv, HalvingInv
<1>10. calls \in Nat /\ CallBound \in Int
  BY <1>2, <1>4 DEF IngestInv, TypeOK, CallBound, m, q
<1>11. Rest \in Nat /\ Rest <= CallBound - calls
  <2>1. PICK w \in [1..(Len(pending) + 1) -> Nat] : w[Len(pending) + 1] = Rest /\ w[1] <= CallBound - calls
    BY <1>9 DEF Budget
  <2>2. Len(pending) + 1 = 1
    BY <1>9
  <2> QED BY <2>1, <2>2
<1>12. Rest' \in Nat /\ Rest' + Cost(batch) = Rest - 1
  <2>1. m - n \in Nat /\ n - next + 1 \in Nat /\ m + 1 - next = (m - n) + (n - next + 1)
    BY <1>2, <1>3
  <2> DEFINE a == m - n
             b == n - next + 1
  <2>2. /\ a \in Nat /\ b \in Nat /\ q \in Nat
        /\ Rest = (a + b) * q /\ Rest' = a * q /\ Cost(batch) = b * q - 1
    BY <1>4, <1>7, <1>8, <2>1
  <2> HIDE DEF a, b
  <2>3. a * q \in Nat /\ b * q \in Nat /\ (a + b) * q = a * q + b * q
    BY <2>2
  <2> QED BY <2>2, <2>3
<1>13. Budget(<<batch>>, Rest', CallBound - calls)
  <2> DEFINE w == [i \in 1..2 |-> IF i = 1 THEN Rest' + Cost(batch) ELSE Rest']
  <2>1. w \in [1..2 -> Nat] /\ w[1] = Rest' + Cost(batch) /\ w[2] = Rest'
    BY <1>7, <1>12
  <2> HIDE DEF w
  <2>2. Len(<<batch>>) = 1 /\ <<batch>>[1] = batch
    OBVIOUS
  <2>3. w[1] <= CallBound - calls
    BY <1>7, <1>10, <1>11, <1>12, <2>1
  <2>4. \A i \in 1..1 : w[i] = w[i + 1] + Cost(<<batch>>[i])
    BY <2>1, <2>2
  <2>5. 1 + 1 = 2
    OBVIOUS
  <2> QED BY <2>1, <2>2, <2>3, <2>4, <2>5 DEF Budget
<1>14. (Budget(pending, Rest, CallBound - calls))'
  <2>1. Budget(pending', Rest', CallBound' - calls')
    BY <1>1, <1>8, <1>13
  <2> QED BY <2>1 DEF Budget, Cost, Power2
<1>15. \A i \in DOMAIN pending' : HalvedFromChunks(pending'[i])
  <2>1. DOMAIN pending' = 1..1 /\ pending'[1] = batch
    BY <1>1
  <2> QED BY <1>6, <2>1
<1>16. (\A i \in DOMAIN pending : HalvedFromChunks(pending[i]))'
  BY <1>1, <1>15, ChunksKept
<1>17. refused' = Nothing /\ calls' <= CallBound'
  BY <1>1, <1>8 DEF HalvingInv, CallsBounded
<1> QED BY <1>1, <1>14, <1>16, <1>17 DEF HalvingInv, GivesUpOnlyWhenHopeless, CallsBounded

\* A call: it is paid for, and so is what is left if the batch is not done with.
LEMMA AtPaidCall ==
    ASSUME IngestInv, HalvingInv, Call
    PROVE  /\ pending \in Seq(Batches) /\ pending # <<>> /\ Head(pending) = pending[1]
           /\ pending[1] \in Batches /\ pending[1].texts # <<>> /\ HalvedFromChunks(pending[1])
           /\ Cost(pending[1]) \in Nat \ {0} /\ CallBound - calls \in Int
           /\ Budget(Tail(pending), Rest, CallBound - calls - Cost(pending[1]))
           /\ calls' = calls + 1 /\ calls + 1 <= CallBound
<1> DEFINE b == pending[1]
<1>1. pc = "embed"
  BY DEF Call
<1>2. pending \in Seq(Batches) /\ pending # <<>> /\ Head(pending) = b /\ GoodBatch(b)
  BY <1>1, AtCall
<1>3. 1 \in DOMAIN pending /\ b \in Batches /\ b.texts # <<>>
  BY <1>2, EmptySeq DEF GoodBatch
<1>4. HalvedFromChunks(b) /\ b.depth <= MaxSplitDepth
  BY <1>3 DEF HalvingInv, HalvedFromChunks
<1> HIDE DEF b
<1>5. Cost(b) \in Nat \ {0}
  BY <1>3, <1>4, CostOfBatch
<1>6. calls \in Nat /\ CallBound \in Int
  BY BoundIsNumber
<1>7. CallBound - calls \in Int /\ Budget(pending, Rest, CallBound - calls)
  BY <1>1, <1>6 DEF HalvingInv
<1>8. Budget(Tail(pending), Rest, CallBound - calls - Cost(b)) /\ CallBound - calls - Cost(b) >= 0
  BY <1>2, <1>5, <1>7, BudgetTail DEF b
<1>9. calls + 1 <= CallBound /\ calls' = calls + 1
  <2>1. calls + 1 <= CallBound
    BY <1>5, <1>6, <1>8
  <2> QED BY <1>6, <2>1 DEF Call
<1> QED BY <1>2, <1>3, <1>4, <1>5, <1>7, <1>8, <1>9 DEF b

LEMMA HalvingEmbedded ==
    ASSUME IngestInv, HalvingInv, BatchEmbedded
    PROVE  HalvingInv'
<1>1. /\ pc = "embed" /\ pc' \in {"batch", "embed"} /\ Call /\ pending' = Tail(pending)
      /\ UNCHANGED <<chunks, next, refused>>
  BY DEF BatchEmbedded, Call, cutting
<1>2. /\ pending \in Seq(Batches) /\ pending # <<>>
      /\ Cost(pending[1]) \in Nat \ {0} /\ CallBound - calls \in Int
      /\ Budget(Tail(pending), Rest, CallBound - calls - Cost(pending[1]))
      /\ calls' = calls + 1 /\ calls + 1 <= CallBound
  BY <1>1, AtPaidCall
<1>3. Rest' = Rest /\ CallBound' = CallBound /\ calls \in Nat /\ CallBound \in Int
  BY <1>1, BoundIsNumber DEF Rest, CallBound
<1> DEFINE t == Tail(pending)
           c == Cost(pending[1])
<1>4. Budget(t, Rest, CallBound - (calls + 1))
  <2> HIDE DEF t, c
  <2>1. CallBound - calls - c <= CallBound - (calls + 1)
    BY <1>2, <1>3 DEF c
  <2>2. PICK w \in [1..(Len(t) + 1) -> Nat] :
            /\ w[Len(t) + 1] = Rest
            /\ \A i \in 1..Len(t) : w[i] = w[i + 1] + Cost(t[i])
            /\ w[1] <= CallBound - calls - c
    BY <1>2 DEF Budget, t, c
  <2>3. w[1] \in Nat
    <3>1. t \in Seq(Batches)
      BY <1>2 DEF t
    <3>2. 1 \in 1..(Len(t) + 1)
      BY <3>1
    <3> QED BY <2>2, <3>2
  <2>4. w[1] <= CallBound - (calls + 1)
    BY <1>2, <1>3, <2>1, <2>2, <2>3 DEF c
  <2> QED BY <2>2, <2>4 DEF Budget
<1>5. (Budget(pending, Rest, CallBound - calls))'
  <2>1. Budget(pending', Rest', CallBound' - calls')
    BY <1>1, <1>2, <1>3, <1>4
  <2> QED BY <2>1 DEF Budget, Cost, Power2
<1>6. \A i \in DOMAIN pending' : HalvedFromChunks(pending'[i])
  <2> TAKE i \in DOMAIN pending'
  <2>1. Len(pending) \in Nat \ {0} /\ Len(pending') = Len(pending) - 1 /\ pending' \in Seq(Batches)
    BY <1>1, <1>2, EmptySeq
  <2>2. i \in 1..(Len(pending) - 1) /\ i + 1 \in DOMAIN pending
    BY <2>1
  <2>3. pending'[i] = pending[i + 1]
    BY <1>1, <1>2, <2>2
  <2> QED BY <2>2, <2>3 DEF HalvingInv
<1>7. (\A i \in DOMAIN pending : HalvedFromChunks(pending[i]))'
  BY <1>1, <1>6, ChunksKept
<1>8. refused' = Nothing /\ calls' <= CallBound' /\ pc' # "cut"
  BY <1>1, <1>2, <1>3 DEF HalvingInv
<1> QED BY <1>5, <1>7, <1>8 DEF HalvingInv, GivesUpOnlyWhenHopeless, CallsBounded

\* A call whose batch is replaced by its halves: what they cost is less by the call made.
LEMMA HalvingHalved ==
    ASSUME IngestInv, HalvingInv, Call, UNCHANGED <<file, pc, cutting, next, items, refused>>,
           NEW x \in Batches, NEW y \in Batches, HalvedFromChunks(x), HalvedFromChunks(y),
           Cost(x) \in Nat, Cost(y) \in Nat, Cost(x) + Cost(y) + 1 <= Cost(pending[1]),
           pending' = <<x, y>> \o Tail(pending)
    PROVE  HalvingInv'
<1>1. pc = "embed" /\ pc' = "embed" /\ UNCHANGED <<chunks, next, refused>>
  BY DEF Call, cutting
<1>2. /\ pending \in Seq(Batches) /\ pending # <<>>
      /\ Cost(pending[1]) \in Nat \ {0} /\ CallBound - calls \in Int
      /\ Budget(Tail(pending), Rest, CallBound - calls - Cost(pending[1]))
      /\ calls' = calls + 1 /\ calls + 1 <= CallBound
  BY AtPaidCall
<1>3. Rest' = Rest /\ CallBound' = CallBound /\ calls \in Nat /\ CallBound \in Int
  BY <1>1, BoundIsNumber DEF Rest, CallBound
<1> DEFINE t == Tail(pending)
           p == <<x, y>> \o t
           c == Cost(pending[1])
           n == CallBound - calls - c
<1>4. t \in Seq(Batches) /\ c \in Nat /\ n \in Int
  BY <1>2, <1>3
<1>5. Budget(p, Rest, n + Cost(x) + Cost(y))
  <2>1. Budget(t, Rest, n)
    BY <1>2
  <2> HIDE DEF t, n
  <2> QED BY <1>4, <2>1, BudgetTwo
<1>6. n + Cost(x) + Cost(y) <= CallBound - (calls + 1)
  <2>1. n = CallBound - calls - c /\ Cost(x) + Cost(y) + 1 <= c
    OBVIOUS
  <2> HIDE DEF n, c
  <2> QED BY <1>3, <1>4, <2>1
<1>7. /\ p \in Seq(Batches)
      /\ \A i \in 1..(Len(t) + 2) : p[i] = IF i = 1 THEN x ELSE IF i = 2 THEN y ELSE t[i - 2]
  <2> HIDE DEF t
  <2> QED BY <1>4
<1>8. Len(p) = Len(t) + 2
  <2> HIDE DEF t
  <2> QED BY <1>4
<1>9. Budget(p, Rest, CallBound - (calls + 1))
  <2> HIDE DEF p, n
  <2>1. PICK w \in [1..(Len(p) + 1) -> Nat] :
            /\ w[Len(p) + 1] = Rest
            /\ \A i \in 1..Len(p) : w[i] = w[i + 1] + Cost(p[i])
            /\ w[1] <= n + Cost(x) + Cost(y)
    BY <1>5 DEF Budget
  <2>2. w[1] \in Nat
    <3> HIDE DEF t
    <3>1. Len(t) \in Nat
      BY <1>4
    <3>2. 1 \in 1..(Len(p) + 1)
      BY <1>8, <3>1
    <3> QED BY <2>1, <3>2
  <2>3. w[1] <= CallBound - (calls + 1)
    BY <1>3, <1>4, <1>6, <2>1, <2>2
  <2> QED BY <2>1, <2>3 DEF Budget
<1>10. (Budget(pending, Rest, CallBound - calls))'
  <2>1. Budget(pending', Rest', CallBound' - calls')
    BY <1>2, <1>3, <1>9
  <2> QED BY <2>1 DEF Budget, Cost, Power2
<1>11. \A i \in DOMAIN p : HalvedFromChunks(p[i])
  <2> SUFFICES ASSUME NEW i \in DOMAIN p PROVE HalvedFromChunks(p[i])
    OBVIOUS
  <2>1. i \in 1..(Len(t) + 2)
    BY <1>7, <1>8
  <2>2. CASE i > 2
    <3>1. Len(pending) \in Nat \ {0} /\ Len(t) = Len(pending) - 1
      BY <1>2, EmptySeq
    <3>2. i - 2 \in 1..(Len(pending) - 1) /\ (i - 2) + 1 \in DOMAIN pending
      BY <1>2, <2>1, <2>2, <3>1
    <3>3. t[i - 2] = pending[(i - 2) + 1]
      BY <1>2, <3>2
    <3>4. HalvedFromChunks(pending[(i - 2) + 1])
      BY <3>2 DEF HalvingInv
    <3>5. p[i] = t[i - 2]
      BY <1>7, <2>1, <2>2
    <3> QED BY <3>3, <3>4, <3>5
  <2>3. CASE i = 1 \/ i = 2
    <3>1. p[i] = x \/ p[i] = y
      BY <1>7, <2>1, <2>3
    <3> QED BY <3>1
  <2> QED BY <2>1, <2>2, <2>3
<1>12. (\A i \in DOMAIN pending : HalvedFromChunks(pending[i]))'
  BY <1>1, <1>11, ChunksKept
<1>13. refused' = Nothing /\ calls' <= CallBound'
  BY <1>1, <1>2, <1>3 DEF HalvingInv
<1> QED BY <1>1, <1>10, <1>12, <1>13 DEF HalvingInv, GivesUpOnlyWhenHopeless, CallsBounded

LEMMA HalvingHalveBatch ==
    ASSUME IngestInv, HalvingInv, HalveBatch
    PROVE  HalvingInv'
<1> DEFINE b == pending[1]
           s == b.texts
           k == Len(s)
           mid == k \div 2
           x == Batch(SubSeq(s, 1, mid), b.depth)
           y == Batch(SubSeq(s, mid + 1, k), b.depth)
           q == Power2[MaxSplitDepth + 1 - b.depth]
<1>1. /\ Call /\ UNCHANGED <<file, pc, cutting, next, items, refused>>
      /\ Len(Head(pending).texts) > 1 /\ pending' = Halves(Head(pending)) \o Tail(pending)
  BY DEF HalveBatch, Call
<1>2. Head(pending) = b /\ b \in Batches /\ b.texts # <<>> /\ HalvedFromChunks(b)
  BY <1>1, AtPaidCall
<1>3. pending' = <<x, y>> \o Tail(pending) /\ k > 1
  BY <1>1, <1>2 DEF Halves
<1>4. b.depth \in Nat /\ b.depth <= MaxSplitDepth /\ \A i \in DOMAIN s : OfChunk(s[i], b.depth)
  BY <1>2 DEF HalvedFromChunks, Batches
<1> HIDE DEF b
<1>5. s \in Seq(Texts) /\ k \in Nat /\ Cost(b) = k * q - 1
  BY <1>2 DEF Batches, Cost
<1>6. q \in Nat \ {0}
  <2>1. MaxSplitDepth + 1 - b.depth \in Nat
    BY <1>4, SplitAssumption
  <2> QED BY <2>1, PowerStep
<1> HIDE DEF s, k, q
<1>7. mid \in 1..(k - 1) /\ mid \in Nat
  <2>1. \A n \in Nat : n > 1 => n \div 2 \in 1..(n - 1)
    OBVIOUS
  <2> QED BY <1>3, <1>5, <2>1
<1> HIDE DEF mid
<1>8. \A i \in 1..k : s[i] \in Texts
  BY <1>5, ElementOfSeq DEF k
<1>9. /\ SubSeq(s, 1, mid) \in Seq(Texts) /\ Len(SubSeq(s, 1, mid)) = mid
      /\ \A i \in 1..mid : SubSeq(s, 1, mid)[i] = s[i]
  <2>1. \A i \in 1..mid : s[i] \in Texts
    BY <1>5, <1>7, <1>8
  <2>2. /\ SubSeq(s, 1, mid) \in Seq(Texts) /\ Len(SubSeq(s, 1, mid)) = mid - 1 + 1
        /\ \A i \in 1..(mid - 1 + 1) : SubSeq(s, 1, mid)[i] = s[1 + i - 1]
    BY <1>7, <2>1, SubSeqProperties
  <2>3. mid - 1 + 1 = mid /\ \A i \in 1..mid : 1 + i - 1 = i
    BY <1>7
  <2> QED BY <2>2, <2>3
<1>10. /\ SubSeq(s, mid + 1, k) \in Seq(Texts) /\ Len(SubSeq(s, mid + 1, k)) = k - mid
       /\ \A i \in 1..(k - mid) : SubSeq(s, mid + 1, k)[i] = s[mid + i]
  <2>1. \A i \in (mid + 1)..k : s[i] \in Texts
    BY <1>5, <1>7, <1>8
  <2>2. mid + 1 \in Nat /\ k \in Nat /\ mid + 1 <= k + 1
    BY <1>5, <1>7
  <2>3. /\ SubSeq(s, mid + 1, k) \in Seq(Texts) /\ Len(SubSeq(s, mid + 1, k)) = k - (mid + 1) + 1
        /\ \A i \in 1..(k - (mid + 1) + 1) : SubSeq(s, mid + 1, k)[i] = s[mid + 1 + i - 1]
    BY <1>7, <2>1, <2>2, SubSeqProperties
  <2>4. k - (mid + 1) + 1 = k - mid /\ \A i \in 1..(k - mid) : mid + 1 + i - 1 = mid + i
    BY <1>5, <1>7
  <2> QED BY <2>3, <2>4
<1>11. /\ x \in Batches /\ y \in Batches /\ x.texts = SubSeq(s, 1, mid) /\ y.texts = SubSeq(s, mid + 1, k)
       /\ x.depth = b.depth /\ y.depth = b.depth
  BY <1>4, <1>9, <1>10 DEF Batch, Batches
<1> HIDE DEF x, y
<1>12. HalvedFromChunks(x) /\ HalvedFromChunks(y)
  <2>1. ASSUME NEW i \in DOMAIN x.texts PROVE OfChunk(x.texts[i], b.depth)
    <3>1. i \in 1..mid /\ i \in DOMAIN s
      BY <1>5, <1>7, <1>9, <1>11 DEF k
    <3> QED BY <1>4, <1>9, <1>11, <3>1
  <2>2. ASSUME NEW i \in DOMAIN y.texts PROVE OfChunk(y.texts[i], b.depth)
    <3>1. i \in 1..(k - mid)
      BY <1>10, <1>11
    <3>2. mid + i \in DOMAIN s
      BY <1>5, <1>7, <3>1 DEF k
    <3> QED BY <1>4, <1>10, <1>11, <3>1, <3>2
  <2> QED BY <1>4, <1>11, <2>1, <2>2 DEF HalvedFromChunks
<1>13. Cost(x) = mid * q - 1 /\ Cost(y) = (k - mid) * q - 1
  BY <1>9, <1>10, <1>11 DEF Cost, q
<1>14. Cost(x) \in Nat /\ Cost(y) \in Nat
  <2>1. x.texts # <<>> /\ y.texts # <<>>
    <3>1. Len(x.texts) # 0 /\ Len(y.texts) # 0
      BY <1>5, <1>7, <1>9, <1>10, <1>11
    <3> QED BY <3>1
  <2> QED BY <1>4, <1>11, <2>1, CostOfBatch
<1>15. Cost(x) + Cost(y) + 1 <= Cost(b)
  <2> DEFINE r == k - mid
  <2>1. r \in Nat /\ k = mid + r
    BY <1>5, <1>7
  <2> HIDE DEF r
  <2>2. (mid + r) * q = mid * q + r * q /\ mid * q \in Int /\ r * q \in Int
    BY <1>6, <1>7, <2>1
  <2>3. Cost(x) = mid * q - 1 /\ Cost(y) = r * q - 1 /\ Cost(b) = (mid + r) * q - 1
    BY <1>5, <1>13, <2>1 DEF r
  <2> QED BY <2>2, <2>3
<1>16. Cost(x) + Cost(y) + 1 <= Cost(pending[1])
  BY <1>15 DEF b
<1> QED BY <1>1, <1>3, <1>11, <1>12, <1>14, <1>16, HalvingHalved

\* Half of a text is at most half a character longer than half its size.
LEMMA HalfOfChunk ==
    ASSUME NEW t \in Texts, NEW h \in Texts, NEW d \in Nat, OfChunk(t, d), Size(t) >= 2,
           t.from <= h.from, h.to <= t.to, Size(h) >= 1, 2 * Size(h) <= Size(t) + 1,
           chunks \in Seq(Texts)
    PROVE  OfChunk(h, d + 1)
<1> DEFINE q == Power2[d]
           s == Size(t)
           k == Size(h)
<1>1. PICK c \in DOMAIN chunks :
          /\ chunks[c].from <= t.from /\ t.to <= chunks[c].to
          /\ s = 1 \/ s * q < Size(chunks[c]) + q
  BY DEF OfChunk
<1>2. q \in Nat \ {0} /\ Power2[d + 1] = 2 * q
  BY PowerStep
<1>3. chunks[c] \in Texts
  BY ElementOfSeq
<1>4. /\ s \in Int /\ k \in Int /\ Size(chunks[c]) \in Int
      /\ t.from \in Int /\ t.to \in Int /\ h.from \in Int /\ h.to \in Int
      /\ chunks[c].from \in Int /\ chunks[c].to \in Int
  <2>1. ASSUME NEW u \in Texts PROVE u.from \in Int /\ u.to \in Int /\ Size(u) \in Int
    BY LengthAssumption DEF Texts, Positions, Size
  <2> QED BY <1>3, <2>1
<1>5. chunks[c].from <= h.from /\ h.to <= chunks[c].to
  <2> HIDE DEF q, s, k
  <2>1. chunks[c].from <= t.from /\ t.to <= chunks[c].to
    BY <1>1
  <2> QED BY <1>4, <2>1
<1> DEFINE z == Size(chunks[c])
<1>6. s * q < z + q /\ 2 * k <= s + 1 /\ z \in Int
  <2>1. s # 1 /\ 2 * k <= s + 1
    BY <1>4
  <2>2. s = 1 \/ s * q < z + q
    BY <1>1
  <2> HIDE DEF q, s, k, z
  <2>3. z \in Int
    BY <1>4 DEF z
  <2> QED BY <2>1, <2>2, <2>3
<1> HIDE DEF q, s, k, z
<1>7. k * (2 * q) < z + 2 * q
  <2> DEFINE gap == s + 1 - 2 * k
  <2>1. gap \in Nat /\ s = 2 * k + gap - 1
    BY <1>4, <1>6
  <2> HIDE DEF gap
  <2>2. gap * q \in Nat /\ k * q \in Int /\ s * q = 2 * (k * q) + gap * q - q /\ k * (2 * q) = 2 * (k * q)
    BY <1>2, <1>4, <2>1
  <2> DEFINE gq == gap * q
             kq == k * q
             sq == s * q
  <2>3. gq \in Nat /\ kq \in Int /\ sq = 2 * kq + gq - q /\ sq < z + q /\ k * (2 * q) = 2 * kq
    BY <1>6, <2>2
  <2> HIDE DEF gq, kq, sq
  <2> QED BY <1>2, <1>6, <2>3
<1>8. Size(h) * Power2[d + 1] < Size(chunks[c]) + Power2[d + 1]
  BY <1>2, <1>7 DEF q, k, z
<1> QED BY <1>5, <1>8 DEF OfChunk

LEMMA HalvingHalveText ==
    ASSUME IngestInv, HalvingInv, HalveText
    PROVE  HalvingInv'
<1> DEFINE b == pending[1]
           t == b.texts[1]
           d == b.depth
           mid == t.from + (Size(t) \div 2)
           x == Batch(<<Text(t.from, mid)>>, d + 1)
           y == Batch(<<Text(mid, t.to)>>, d + 1)
<1>1. /\ Call /\ UNCHANGED <<file, pc, cutting, next, items, refused>>
      /\ Len(Head(pending).texts) = 1 /\ ~Hopeless(Head(pending))
      /\ pending' = TextHalves(Head(pending)) \o Tail(pending)
  BY DEF HalveText, Call
<1>2. Head(pending) = b /\ b \in Batches /\ b.texts # <<>> /\ HalvedFromChunks(b)
  BY <1>1, AtPaidCall
<1>3. pending' = <<x, y>> \o Tail(pending)
  BY <1>1, <1>2 DEF TextHalves
<1>4. /\ d \in Nat /\ d <= MaxSplitDepth /\ 1 \in DOMAIN b.texts /\ b.texts \in Seq(Texts)
      /\ Len(b.texts) = 1 /\ t \in Texts /\ OfChunk(t, d)
  <2> HIDE DEF b
  <2>1. b.texts \in Seq(Texts) /\ d \in Nat /\ Len(b.texts) = 1
    BY <1>1, <1>2 DEF Batches
  <2>2. 1 \in DOMAIN b.texts
    BY <2>1
  <2> QED BY <1>2, <2>1, <2>2, ElementOfSeq DEF HalvedFromChunks
<1>5. ~(d >= MaxSplitDepth) /\ ~(Size(t) < 2)
  BY <1>1, <1>2 DEF Hopeless
<1> HIDE DEF b, d, t
<1>6. d < MaxSplitDepth /\ d + 1 <= MaxSplitDepth /\ d + 1 \in Nat
  BY <1>4, <1>5, SplitAssumption
<1>7. /\ t.from \in Nat /\ t.to \in Nat /\ t.to <= MaxLength /\ MaxLength \in Nat
      /\ Size(t) = t.to - t.from /\ Size(t) >= 2
  BY <1>4, <1>5, LengthAssumption DEF Size, Texts, Positions
<1>8. /\ mid \in Nat /\ t.from < mid /\ mid < t.to
      /\ 2 * (mid - t.from) <= Size(t) + 1 /\ 2 * (t.to - mid) <= Size(t) + 1
  BY <1>7
<1> HIDE DEF mid
<1>9. /\ Text(t.from, mid) \in Texts /\ Text(mid, t.to) \in Texts
      /\ Size(Text(t.from, mid)) = mid - t.from /\ Size(Text(mid, t.to)) = t.to - mid
      /\ Text(t.from, mid).from = t.from /\ Text(t.from, mid).to = mid
      /\ Text(mid, t.to).from = mid /\ Text(mid, t.to).to = t.to
  BY <1>7, <1>8 DEF Text, Texts, Positions, Size
<1>10. chunks \in Seq(Texts)
  BY DEF IngestInv, TypeOK
<1>11. OfChunk(Text(t.from, mid), d + 1)
  <2> DEFINE h == Text(t.from, mid)
  <2>1. /\ h \in Texts /\ t.from <= h.from /\ h.to <= t.to
        /\ Size(h) >= 1 /\ 2 * Size(h) <= Size(t) + 1
    BY <1>7, <1>8, <1>9
  <2> HIDE DEF h
  <2>2. OfChunk(h, d + 1)
    BY <1>4, <1>7, <1>10, <2>1, HalfOfChunk
  <2> QED BY <2>2 DEF h
<1>12. OfChunk(Text(mid, t.to), d + 1)
  <2> DEFINE h == Text(mid, t.to)
  <2>1. /\ h \in Texts /\ t.from <= h.from /\ h.to <= t.to
        /\ Size(h) >= 1 /\ 2 * Size(h) <= Size(t) + 1
    BY <1>7, <1>8, <1>9
  <2> HIDE DEF h
  <2>2. OfChunk(h, d + 1)
    BY <1>4, <1>7, <1>10, <2>1, HalfOfChunk
  <2> QED BY <2>2 DEF h
<1>13. /\ x \in Batches /\ y \in Batches
       /\ x.texts = <<Text(t.from, mid)>> /\ y.texts = <<Text(mid, t.to)>>
       /\ x.depth = d + 1 /\ y.depth = d + 1
  BY <1>6, <1>9 DEF Batch, Batches
<1> HIDE DEF x, y
<1>14. HalvedFromChunks(x) /\ HalvedFromChunks(y)
  <2>1. DOMAIN x.texts = 1..1 /\ DOMAIN y.texts = 1..1
    BY <1>13
  <2> QED BY <1>6, <1>11, <1>12, <1>13, <2>1 DEF HalvedFromChunks
<1>15. Cost(x) \in Nat /\ Cost(y) \in Nat
  <2>1. x.texts # <<>> /\ y.texts # <<>>
    BY <1>13
  <2> QED BY <1>6, <1>13, <2>1, CostOfBatch
<1>16. Cost(x) + Cost(y) + 1 <= Cost(b)
  <2> DEFINE q == Power2[MaxSplitDepth - d]
  <2>1. MaxSplitDepth + 1 - (d + 1) = MaxSplitDepth - d
    BY <1>4, SplitAssumption
  <2>2. Cost(x) = 1 * q - 1 /\ Cost(y) = 1 * q - 1
    <3>1. Len(x.texts) = 1 /\ Len(y.texts) = 1
      BY <1>13
    <3> QED BY <1>13, <2>1, <3>1 DEF Cost
  <2>3. Power2[MaxSplitDepth + 1 - d] = 2 * q /\ q \in Nat
    BY <1>2, <1>4, CostOfBatch DEF d
  <2>4. Cost(b) = 1 * (2 * q) - 1
    BY <1>4, <2>3 DEF Cost, d
  <2> HIDE DEF q
  <2> QED BY <2>2, <2>3, <2>4
<1>17. Cost(x) + Cost(y) + 1 <= Cost(pending[1])
  BY <1>16 DEF b
<1> QED BY <1>1, <1>3, <1>13, <1>14, <1>15, <1>17, HalvingHalved

\* The text given up on is what is left of a chunk after the last halving.
LEMMA HalvingFails ==
    ASSUME IngestInv, HalvingInv, GiveUp \/ ServiceFails
    PROVE  HalvingInv'
<1> DEFINE b == pending[1]
           t == b.texts[1]
<1>1. pc = "embed" /\ Call /\ pc' = "failed" /\ pending' = <<>> /\ UNCHANGED chunks
  BY DEF GiveUp, ServiceFails, Call, Fail, cutting
<1>2. /\ Head(pending) = b /\ b \in Batches /\ b.texts # <<>> /\ HalvedFromChunks(b)
      /\ calls' = calls + 1 /\ calls + 1 <= CallBound /\ CallBound' = CallBound
  BY <1>1, AtPaidCall, ChunksKept
<1>3. DOMAIN pending' = {}
  BY <1>1
<1>4. GivesUpOnlyWhenHopeless'
  <2>1. CASE UNCHANGED refused
    BY <1>1, <2>1 DEF HalvingInv, GivesUpOnlyWhenHopeless
  <2>2. CASE GiveUp
    <3>1. refused' = t /\ Hopeless(b) /\ Len(b.texts) = 1
      BY <1>2, <2>2 DEF GiveUp
    <3>2. /\ b.depth \in Nat /\ b.depth <= MaxSplitDepth /\ b.texts \in Seq(Texts)
          /\ t \in Texts /\ OfChunk(t, b.depth)
      <4> HIDE DEF b
      <4>1. b.texts \in Seq(Texts) /\ b.depth \in Nat /\ 1 \in DOMAIN b.texts
        BY <1>2, <3>1 DEF Batches
      <4> QED BY <1>2, <4>1, ElementOfSeq DEF HalvedFromChunks
    <3>3. t.from < t.to
      <4>1. GoodBatch(b)
        BY <1>1, AtCall
      <4> HIDE DEF b
      <4>2. Covers(b.texts, Span(b).from, Span(b).to) /\ 1 \in DOMAIN b.texts /\ b.texts # <<>>
        BY <1>2, <3>1, <3>2, <4>1 DEF GoodBatch
      <4> QED BY <4>2 DEF Covers
    <3> HIDE DEF b, t
    <3>4. PICK c \in DOMAIN chunks :
              /\ chunks[c].from <= t.from /\ t.to <= chunks[c].to
              /\ Size(t) = 1 \/ Size(t) * Power2[b.depth] < Size(chunks[c]) + Power2[b.depth]
      BY <3>2 DEF OfChunk
    <3>5. Size(t) = 1 \/ Size(t) * Power2[MaxSplitDepth] < Size(chunks[c]) + Power2[MaxSplitDepth]
      <4>1. CASE b.depth >= MaxSplitDepth
        <5>1. b.depth = MaxSplitDepth
          BY <3>2, <4>1, SplitAssumption
        <5> QED BY <3>4, <5>1
      <4>2. CASE Size(t) < 2
        BY <3>2, <3>3, <4>2, LengthAssumption DEF Texts, Positions, Size
      <4> QED BY <3>1, <4>1, <4>2 DEF Hopeless, t
    <3>6. \E i \in DOMAIN chunks :
              /\ chunks[i].from <= t.from /\ t.to <= chunks[i].to
              /\ Size(t) = 1 \/ Size(t) * Power2[MaxSplitDepth] < Size(chunks[i]) + Power2[MaxSplitDepth]
      BY <3>4, <3>5
    <3> QED BY <1>1, <3>1, <3>6 DEF GivesUpOnlyWhenHopeless, Size, Power2
  <2> QED BY <2>1, <2>2 DEF ServiceFails
<1>5. calls' <= CallBound'
  BY <1>2
<1> QED BY <1>1, <1>3, <1>4, <1>5 DEF HalvingInv, CallsBounded

LEMMA HalvingNext ==
    ASSUME IngestInv, IngestInv', HalvingInv, [Next]_vars
    PROVE  HalvingInv'
<1>1. CASE HandOver \/ Ended \/ UNCHANGED vars
  <2>1. UNCHANGED <<chunks, next, pending, calls, refused>>
    BY <1>1 DEF HandOver, Ended, vars, cutting, embedding
  <2>2. pc' \notin {"cut", "failed"} \/ pc' = pc
    BY <1>1 DEF HandOver, Ended, vars
  <2>3. (pc = "failed") => pc' = "failed"
    BY <1>1 DEF HandOver, Ended, vars
  <2>4. /\ \A b : HalvedFromChunks(b)' <=> HalvedFromChunks(b)
        /\ CallBound' = CallBound /\ Rest' = Rest
    BY <2>1, ChunksKept DEF Rest
  <2>5. (Budget(pending, Rest, CallBound - calls))' <=> Budget(pending, Rest, CallBound - calls)
    BY <2>1, <2>4 DEF Budget, Cost, Power2
  <2>6. GivesUpOnlyWhenHopeless' /\ CallsBounded'
    BY <2>1, <2>4 DEF HalvingInv, GivesUpOnlyWhenHopeless, CallsBounded
  <2> QED BY <2>1, <2>2, <2>3, <2>4, <2>5, <2>6 DEF HalvingInv
<1> QED BY <1>1, HalvingCut, HalvingNextBatch, HalvingEmbedded, HalvingHalveBatch,
           HalvingHalveText, HalvingFails DEF Next, Embed

LEMMA HalvingAlways == Spec => []HalvingInv
<1>1. IngestInv /\ IngestInv' /\ HalvingInv /\ [Next]_vars => HalvingInv'
  BY HalvingNext
<1> QED BY <1>1, HalvingInit, IngestAlways, PTL DEF Spec

-----------------------------------------------------------------------------
(* The theorems *)

\* Positions, chunks, batches and texts keep to the file, for every file, limit and batch size
\* (core/chunking.py, core/ingestor.py:121-155).
THEOREM IngestTypeCorrect == Spec => []TypeOK
<1>1. IngestInv => TypeOK
  BY DEF IngestInv
<1> QED BY <1>1, IngestAlways, PTL

\* For every file and every limit the chunks are the file, each within the limit, and no two
\* neighbours would have fitted in one (chunking.py:88-151).
THEOREM ChunksArePacked == Spec => []ChunksPacked
<1>1. IngestInv => ChunksPacked
  BY DEF IngestInv, CutInv, Fits, ChunksPacked
<1> QED BY <1>1, IngestAlways, PTL

\* For every file and every limit, only a unit that does not fit in a chunk is cut
\* (chunking.py:104-109).
THEOREM FittingUnitsKept == Spec => []UnitsKeptWhole
<1>1. IngestInv => UnitsKeptWhole
  BY DEF IngestInv, CutInv, CutOK, UnitsKeptWhole
<1> QED BY <1>1, IngestAlways, PTL

\* Whatever the service refuses, and for every batch size and depth, the texts handed to the
\* store are the whole file in order, each within the limit (ingestor.py:121-155).
THEOREM StoredIsWhole == Spec => []StoredWhole
<1>1. IngestInv => StoredWhole
  BY DEF IngestInv
<1> QED BY <1>1, IngestAlways, PTL

\* Whatever the size of the file and the depth, the text given up on is a single character or
\* what MAX_SPLIT_DEPTH halvings leave of a chunk (ingestor.py:148).
THEOREM GivenUpIsHopeless == Spec => []GivesUpOnlyWhenHopeless
<1>1. HalvingInv => GivesUpOnlyWhenHopeless
  BY DEF HalvingInv
<1> QED BY <1>1, HalvingAlways, PTL

\* Whatever is refused, a file costs at most 2^(MAX_SPLIT_DEPTH + 1) calls per chunk
\* (ingestor.py:133-155).
THEOREM CallsAreBounded == Spec => []CallsBounded
<1>1. HalvingInv => CallsBounded
  BY DEF HalvingInv
<1> QED BY <1>1, HalvingAlways, PTL
=============================================================================
