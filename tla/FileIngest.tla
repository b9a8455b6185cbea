------------------------------ MODULE FileIngest ------------------------------
(***************************************************************************)
(* One file on its way into the vector store: it is cut into chunks        *)
(* (core/chunking.py), and the chunks are embedded in batches that are     *)
(* halved when the service finds them too large (core/ingestor.py,         *)
(* memory/embeddings.py).                                                  *)
(*                                                                         *)
(* A text is an interval of the file: the characters after position `from` *)
(* up to position `to`.  Of the characters the model keeps which ones end  *)
(* a line, and after which of these a new unit starts.  Any call of the    *)
(* embedding service may succeed, answer 400 or fail otherwise: the code   *)
(* takes every 400 for an input that is too large.                         *)
(***************************************************************************)
EXTENDS Integers, Sequences, FiniteSets

CONSTANTS
    MaxLength,      \* bound: characters of the file
    MaxChars,       \* embeddings.max_chunk_chars
    BatchSize,      \* embeddings.batch_size
    MaxSplitDepth   \* MAX_SPLIT_DEPTH

ASSUME LengthAssumption == MaxLength \in Nat \ {0}
ASSUME SizesAssumption == MaxChars \in Nat \ {0} /\ BatchSize \in Nat \ {0}
ASSUME SplitAssumption == MaxSplitDepth \in Nat

VARIABLES
    file,      \* the content
    pc,        \* cut: in chunk_file; batch: between two batches; embed: in a call
    pos,       \* characters already in pieces
    start,     \* where current_text starts
    chunks,    \* the chunks made so far
    next,      \* first chunk that is in no batch yet
    pending,   \* the batches _embed_batch still has to embed, innermost call first
    items,     \* the texts embedded so far
    calls,     \* requests made to the embedding service
    refused    \* the text given up on, after the last halving

cutting == <<pos, start, chunks>>
embedding == <<next, pending, items, calls, refused>>
vars == <<file, pc, cutting, embedding>>

Positions == 0..MaxLength
Text(a, b) == [from |-> a, to |-> b]
Texts == [from : Positions, to : Positions]
Size(t) == t.to - t.from

\* lineEnds: the characters that end a line, the last one included;
\* breaks: the line ends after which a unit starts: a line of code or a header that the
\* extension's pattern matches, or the line after a blank one.
Files == [length : 1..MaxLength, lineEnds : SUBSET Positions, breaks : SUBSET Positions]

Content(n, inner, breaks) == [length |-> n, lineEnds |-> inner \cup {n}, breaks |-> breaks]

PCs == {"cut", "batch", "embed", "stored", "failed"}
Batches == [texts : Seq(Texts), depth : Nat]
Nothing == Text(0, 0)

-----------------------------------------------------------------------------
(* Cutting: _split_units, _line_window_split, _char_window_split *)

Smallest(S) == CHOOSE x \in S : \A y \in S : x <= y
Largest(S) == CHOOSE x \in S : \A y \in S : y <= x

\* The first and the last member of S around the character after p.
EndIn(S, p) == Smallest({e \in S : e > p})
StartIn(S, p) == Largest({e \in S \cup {0} : e <= p})

UnitEnd(p) == EndIn(file.breaks \cup {file.length}, p)
UnitStart(p) == StartIn(file.breaks, p)
LineEnd(p) == EndIn(file.lineEnds, p)
LineStart(p) == StartIn(file.lineEnds, p)

\* Where a window of lines that starts at p may end.
WindowEnds(p) == {e \in file.lineEnds : p < e /\ e <= UnitEnd(p) /\ e - p <= MaxChars}

\* Mutants: a window does not stop where its line does; units are not told apart from windows
\* of lines; a line that is too long is not cut.
PieceEndPastLine(p) ==
    IF UnitEnd(p) - UnitStart(p) <= MaxChars THEN UnitEnd(p)
    ELSE IF LineEnd(p) - LineStart(p) > MaxChars THEN p + MaxChars
    ELSE Largest(WindowEnds(p))
PieceEndIgnoringUnits(p) ==
    IF file.length - p <= MaxChars THEN file.length
    ELSE IF LineEnd(p) - LineStart(p) > MaxChars THEN Smallest({p + MaxChars, LineEnd(p)})
    ELSE Largest({e \in file.lineEnds : p < e /\ e - p <= MaxChars})
PieceEndWholeLines(p) ==
    IF UnitEnd(p) - UnitStart(p) <= MaxChars THEN UnitEnd(p)
    ELSE Largest(WindowEnds(p) \cup {p})

\* The piece that starts at p: a unit that fits; of one that does not, a window of a line that
\* is itself too long, or as many lines as fit.
PieceEnd(p) ==
    IF UnitEnd(p) - UnitStart(p) <= MaxChars THEN UnitEnd(p)
    ELSE IF LineEnd(p) - LineStart(p) > MaxChars THEN Smallest({p + MaxChars, LineEnd(p)})
    ELSE Largest(WindowEnds(p))

-----------------------------------------------------------------------------
(* Packing: chunk_file *)

Init ==
    /\ \E n \in 1..MaxLength : \E inner \in SUBSET (1..(n - 1)) :
           \E breaks \in SUBSET inner : file = Content(n, inner, breaks)
    /\ pc = "cut"
    /\ pos = 0 /\ start = 0
    /\ chunks = <<>>
    /\ next = 1
    /\ pending = <<>> /\ items = <<>>
    /\ calls = 0
    /\ refused = Nothing

\* Mutant: the piece that no longer fits is still added.
OverflowsLate(end) == start < pos /\ pos - start > MaxChars
Overflows(end) == start < pos /\ end - start > MaxChars

\* The next piece is added to the current chunk, after a flush if it does not fit.
AddPiece ==
    /\ pc = "cut"
    /\ pos < file.length
    /\ LET end == PieceEnd(pos)
           flush == Overflows(end)
       IN  /\ chunks' = IF flush THEN Append(chunks, Text(start, pos)) ELSE chunks
           /\ start' = IF flush THEN pos ELSE start
           /\ pos' = end
    /\ UNCHANGED <<file, pc, embedding>>

LastChunk ==
    /\ pc = "cut"
    /\ pos = file.length
    /\ chunks' = Append(chunks, Text(start, pos))
    /\ start' = pos
    /\ pc' = "batch"
    /\ UNCHANGED <<file, pos, embedding>>

-----------------------------------------------------------------------------
(* Embedding: _embed_chunks, _embed_batch, _split_and_embed *)

Batch(texts, depth) == [texts |-> texts, depth |-> depth]

LastOfBatch == Smallest({next + BatchSize - 1, Len(chunks)})

NextBatch ==
    /\ pc = "batch"
    /\ next <= Len(chunks)
    /\ pending' = <<Batch(SubSeq(chunks, next, LastOfBatch), 0)>>
    /\ next' = LastOfBatch + 1
    /\ pc' = "embed"
    /\ UNCHANGED <<file, cutting, items, calls, refused>>

\* Every chunk is embedded: the texts go to replace_source.
HandOver ==
    /\ pc = "batch"
    /\ next > Len(chunks)
    /\ pc' = "stored"
    /\ UNCHANGED <<file, cutting, embedding>>

Power2[n \in Nat] == IF n = 0 THEN 1 ELSE 2 * Power2[n - 1]

\* All the nodes of the halving tree of every chunk, and of the batches above them.
CallBound == Len(chunks) * Power2[MaxSplitDepth + 1]

\* The counter stops where it has passed the bound.
Call ==
    /\ pc = "embed"
    /\ calls' = IF calls > CallBound THEN calls ELSE calls + 1

\* The service returns a vector for each text.
BatchEmbedded ==
    /\ Call
    /\ items' = items \o Head(pending).texts
    /\ pending' = Tail(pending)
    /\ pc' = IF Tail(pending) = <<>> THEN "batch" ELSE "embed"
    /\ UNCHANGED <<file, cutting, next, refused>>

\* Mutant: the text in the middle of a batch is in neither half.
HalvesGap(b) ==
    LET mid == Len(b.texts) \div 2
    IN  <<Batch(SubSeq(b.texts, 1, mid), b.depth),
          Batch(SubSeq(b.texts, mid + 2, Len(b.texts)), b.depth)>>
Halves(b) ==
    LET mid == Len(b.texts) \div 2
    IN  <<Batch(SubSeq(b.texts, 1, mid), b.depth),
          Batch(SubSeq(b.texts, mid + 1, Len(b.texts)), b.depth)>>

\* A 400 for several texts, for one that can be halved, and for one that cannot.
HalveBatch ==
    /\ Call
    /\ Len(Head(pending).texts) > 1
    /\ pending' = Halves(Head(pending)) \o Tail(pending)
    /\ UNCHANGED <<file, pc, cutting, next, items, refused>>

\* Mutant: the depth of the halves is that of the whole.
TextHalvesSameDepth(b) ==
    LET t == b.texts[1]
        mid == t.from + (Size(t) \div 2)
    IN  <<Batch(<<Text(t.from, mid)>>, b.depth), Batch(<<Text(mid, t.to)>>, b.depth)>>
TextHalves(b) ==
    LET t == b.texts[1]
        mid == t.from + (Size(t) \div 2)
    IN  <<Batch(<<Text(t.from, mid)>>, b.depth + 1), Batch(<<Text(mid, t.to)>>, b.depth + 1)>>

\* Mutant: the last halving is not tried.
HopelessEarly(b) == b.depth + 1 >= MaxSplitDepth \/ Size(b.texts[1]) < 2
Hopeless(b) == b.depth >= MaxSplitDepth \/ Size(b.texts[1]) < 2

HalveText ==
    /\ Call
    /\ Len(Head(pending).texts) = 1
    /\ ~Hopeless(Head(pending))
    /\ pending' = TextHalves(Head(pending)) \o Tail(pending)
    /\ UNCHANGED <<file, pc, cutting, next, items, refused>>

\* The file fails and what was embedded of it is dropped; the store is not touched.
Fail ==
    /\ pc' = "failed"
    /\ pending' = <<>>
    /\ items' = <<>>

GiveUp ==
    /\ Call
    /\ Len(Head(pending).texts) = 1
    /\ Hopeless(Head(pending))
    /\ refused' = Head(pending).texts[1]
    /\ Fail
    /\ UNCHANGED <<file, cutting, next>>

\* Any other failure of the call: the connection, another status, an answer that is no JSON
\* or has not one vector per text.
ServiceFails ==
    /\ Call
    /\ Fail
    /\ UNCHANGED <<file, cutting, next, refused>>

Ended == pc \in {"stored", "failed"} /\ UNCHANGED vars

Embed == BatchEmbedded \/ HalveBatch \/ HalveText \/ GiveUp \/ ServiceFails

Next == AddPiece \/ LastChunk \/ NextBatch \/ HandOver \/ Embed \/ Ended

\* The code between two calls runs on, and a call is answered or fails: the client has a timeout.
Fairness == WF_vars(Next)

Spec == Init /\ [][Next]_vars /\ Fairness

-----------------------------------------------------------------------------
(* Properties *)

TypeOK ==
    /\ file \in Files
    /\ pc \in PCs
    /\ pos \in Positions /\ start \in Positions
    /\ chunks \in Seq(Texts)
    /\ next \in Nat
    /\ pending \in Seq(Batches)
    /\ items \in Seq(Texts)
    /\ calls \in Nat
    /\ refused \in Texts

\* s is a cover of the file from a to b: nothing lost, repeated or out of order.
Covers(s, a, b) ==
    IF s = <<>> THEN a = b
    ELSE /\ s[1].from = a /\ s[Len(s)].to = b
         /\ \A i \in DOMAIN s : s[i].from < s[i].to
         /\ \A i \in 1..(Len(s) - 1) : s[i].to = s[i + 1].from

\* What goes to replace_source is the whole file, in order, however the batches and texts were
\* halved on the way (ingestor.py:133-155), and no text is longer than a chunk may be.
StoredWhole ==
    pc = "stored" =>
        /\ Covers(items, 0, file.length)
        /\ \A i \in DOMAIN items : Size(items[i]) <= MaxChars

\* The chunks are the file up to the piece at hand, none over max_chars "regardless of input"
\* (chunking.py:111-112), and no two neighbours would have fitted in one: their number is at
\* most twice what the size of the file asks for.
ChunksPacked ==
    /\ Covers(chunks, 0, start)
    /\ \A i \in DOMAIN chunks : Size(chunks[i]) <= MaxChars
    /\ \A i \in 1..(Len(chunks) - 1) :
           pc # "cut" => chunks[i + 1].to - chunks[i].from > MaxChars

\* A unit that fits in a chunk is never cut (chunking.py:104-109).
UnitsKeptWhole ==
    \A i \in DOMAIN chunks :
        LET cut == chunks[i].to
        IN  cut < file.length /\ UnitStart(cut) # cut => UnitEnd(cut) - UnitStart(cut) > MaxChars

\* A file is only given up on for its size when a chunk of it halved MAX_SPLIT_DEPTH times, or
\* a single character, was still refused (ingestor.py:148).
GivesUpOnlyWhenHopeless ==
    refused # Nothing =>
        \E i \in DOMAIN chunks :
            LET whole == chunks[i]
                times == Power2[MaxSplitDepth]
            IN  /\ whole.from <= refused.from /\ refused.to <= whole.to
                /\ Size(refused) = 1 \/ Size(refused) * times < Size(whole) + times

\* Halving costs a bounded number of calls, whatever is refused: at most 2^(MAX_SPLIT_DEPTH + 1)
\* per chunk (ingestor.py:133-155).
CallsBounded == calls <= CallBound

\* The walk comes to the next file, whatever the service answers.
FileEnds == <>(pc \in {"stored", "failed"})
=============================================================================
