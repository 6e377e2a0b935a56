-------------------------- MODULE DocumentsProofs --------------------------
(***************************************************************************)
(* Proofs about Documents, for every set of uploads, files and jobs.  What *)
(* a handler will do next is safe in the state it will do it in            *)
(* (HandlerFits): the object it fills is its own, the object it is about   *)
(* to catalogue has its bytes, the object it has erased is still to be     *)
(* marked.  A step of anybody else keeps that true until the document is   *)
(* deleted, and nothing is catalogued after that.                          *)
(*                                                                         *)
(* The text of a document, first: what Chunking makes of it is faithful,   *)
(* for every text, limit and overlap.  Blocks are trimmed and ordered      *)
(* (BlocksOK); units follow each other, and one is repeated at most once   *)
(* and then no longer than the overlap (UnitsOK); what splitBlock has      *)
(* behind it is in units (SplitOK); what is grouped is in chunks, and two  *)
(* equal chunks in a row are two such units (GroupOK).                     *)
(***************************************************************************)
EXTENDS Documents, Chunking, FiniteSetTheorems, SequenceTheorems,
        WellFoundedInduction, TLAPS

-----------------------------------------------------------------------------
\* A set of natural numbers has a smallest element, and Min picks it.
LEMMA MinimumExists ==
  ASSUME NEW T \in SUBSET Nat, T # {}
  PROVE  Min(T) \in T /\ \A y \in T : Min(T) <= y
<1> DEFINE R == OpToRel(<, Nat)
<1>1. IsWellFoundedOn(R, Nat)
  BY NatLessThanWellFounded, Zenon
<1>2. PICK x \in T : \A y \in T : ~ (<<y, x>> \in R)
  <2> HIDE DEF R
  <2> QED BY <1>1, WFMin
<1>3. \A y \in T : ~ (y < x)
  BY <1>2 DEF OpToRel
<1>4. \E x1 \in T : \A y \in T : x1 <= y
  BY <1>3
<1> QED BY <1>4 DEF Min

\* A set of whole numbers from -1 to n has a largest element, and Max picks it.
LEMMA MaximumExists ==
  ASSUME NEW n \in Nat, NEW T \in SUBSET (-1 .. n), T # {}
  PROVE  Max(T) \in T /\ \A y \in T : y <= Max(T)
<1> DEFINE U == {n - y : y \in T}
<1>1. \A y \in T : y \in Int /\ n - y \in Nat
  OBVIOUS
<1>6. U \in SUBSET Nat /\ U # {}
  BY <1>1
<1>2. Min(U) \in U /\ \A y \in U : Min(U) <= y
  BY <1>6, MinimumExists
<1>3. PICK x \in T : Min(U) = n - x
  BY <1>2
<1>4. \A y \in T : n - x <= n - y
  BY <1>2, <1>3
<1>5. \A y \in T : x >= y
  BY <1>4
<1> QED BY <1>5 DEF Max

\* The letters of a text that is not blank have a first and a last.
LEMMA FirstAndLastLetter ==
  ASSUME NEW t \in Seq(Characters), NEW I \in SUBSET Letters(t), I # {}
  PROVE  /\ Min(I) \in I /\ \A y \in I : Min(I) <= y
         /\ Max(I) \in I /\ \A y \in I : y <= Max(I)
<1>1. Letters(t) \in SUBSET (1 .. Len(t)) /\ Len(t) \in Nat
  BY DEF Letters
<1>2. I \in SUBSET Nat /\ I \in SUBSET (-1 .. Len(t))
  BY <1>1
<1> QED BY <1>1, <1>2, MinimumExists, MaximumExists

\* What normalizeExtractedText leaves is a text; unless it is empty it begins and ends
\* with a letter.
LEMMA TrimmedText ==
  ASSUME NEW t \in Seq(Characters)
  PROVE  /\ Trimmed(t) \in Seq(Characters)
         /\ Trimmed(t) # <<>> => Trimmed(t)[1] # Blank /\ Trimmed(t)[Len(Trimmed(t))] # Blank
<1>1. CASE Letters(t) = {}
  BY <1>1 DEF Trimmed
<1>2. CASE Letters(t) # {}
  <2> DEFINE m == Min(Letters(t))  n == Max(Letters(t))
  <2>1. m \in Letters(t) /\ n \in Letters(t) /\ m <= n
    BY <1>2, FirstAndLastLetter
  <2>2. m \in 1 .. Len(t) /\ n \in 1 .. Len(t) /\ t[m] # Blank /\ t[n] # Blank
    <3> HIDE DEF m, n
    <3> QED BY <2>1 DEF Letters
  <2>3. Trimmed(t) = SubSeq(t, m, n)
    BY <1>2 DEF Trimmed
  <2> HIDE DEF m, n
  <2>4. \A i \in m .. n : t[i] \in Characters
    BY <2>2
  <2>5. /\ SubSeq(t, m, n) \in Seq(Characters)
        /\ Len(SubSeq(t, m, n)) = n - m + 1
        /\ \A i \in 1 .. n - m + 1 : SubSeq(t, m, n)[i] = t[m + i - 1]
    BY <2>1, <2>2, <2>4, SubSeqProperties
  <2> QED BY <2>1, <2>2, <2>3, <2>5
<1> QED BY <1>1, <1>2

-----------------------------------------------------------------------------
\* Half of the limit, where splitBlock begins to look for a blank, rounds down.
LEMMA HalfTheLimit ==
  /\ MaxChars \in Nat /\ MaxChars > 0 /\ MaxChars \div 2 \in Nat
  /\ 2 * (MaxChars \div 2) <= MaxChars /\ MaxChars <= 2 * (MaxChars \div 2) + 1
BY ChunkingAssumption DEF ChunkingAssumption

\* An overlap is less than half of the limit (the options are clamped).
LEMMA OverlapsAreShort ==
  \A o \in Overlaps : o \in Nat /\ 2 * o < MaxChars /\ o <= MaxChars \div 2
<1>1. \A o \in Overlaps : o \in Nat /\ 2 * o < MaxChars
  BY ChunkingAssumption DEF ChunkingAssumption
<1> QED BY <1>1, HalfTheLimit

\* A piece has characters, at most the limit; one that ends before its text and is
\* shorter than the limit ends at a blank in the second half of the limit, and no
\* blank follows within the limit.
LEMMA PieceEndBounds ==
  ASSUME NEW t \in Seq(Characters), NEW s \in Nat, s < Len(t)
  PROVE  LET e == PieceEnd(t, s) IN
         /\ e \in Nat /\ s < e /\ e <= Len(t) /\ e <= s + MaxChars
         /\ \/ e = Len(t)
            \/ e = s + MaxChars
            \/ /\ s + (MaxChars \div 2) < e /\ t[e + 1] = Blank
               /\ \A j \in (e + 1) .. (s + MaxChars) : j < Len(t) => t[j + 1] # Blank
<1> DEFINE end == Min({Len(t), s + MaxChars})
           spaces == {i \in 0 .. end : i < Len(t) /\ t[i + 1] = Blank}
           boundary == Max(spaces \cup {-1})
           e == PieceEnd(t, s)
<1>1. Len(t) \in Nat /\ s + MaxChars \in Nat
  BY HalfTheLimit
<1>2. end \in {Len(t), s + MaxChars} /\ end <= Len(t) /\ end <= s + MaxChars
  BY <1>1, MinimumExists
<1>3. end \in Nat /\ s < end
  BY <1>1, <1>2, HalfTheLimit
<1>4. e = IF end < Len(t) /\ boundary > s + MaxChars \div 2 THEN boundary ELSE end
  BY DEF PieceEnd
<1> HIDE DEF end
<1>5. boundary \in spaces \cup {-1} /\ \A y \in spaces \cup {-1} : y <= boundary
  <2>1. spaces \cup {-1} \in SUBSET (-1 .. end) /\ spaces \cup {-1} # {}
    BY <1>3
  <2> HIDE DEF spaces
  <2> QED BY <2>1, <1>3, MaximumExists
<1> HIDE DEF boundary, e
<1>6. CASE end < Len(t) /\ boundary > s + MaxChars \div 2
  <2>1. e = boundary
    BY <1>4, <1>6
  <2>2. end = s + MaxChars
    BY <1>1, <1>2, <1>3, <1>6
  <2>3. boundary \in spaces
    BY <1>5, <1>6, HalfTheLimit
  <2>4. boundary \in 0 .. end /\ boundary < Len(t) /\ t[boundary + 1] = Blank
    BY <2>3
  <2>5. ASSUME NEW j \in (e + 1) .. (s + MaxChars), j < Len(t)
        PROVE  t[j + 1] # Blank
    <3>1. j \in 0 .. end /\ j > boundary
      BY <2>1, <2>2, <2>4, <1>3, HalfTheLimit
    <3>2. j \notin spaces
      BY <3>1, <1>5, <2>4
    <3> QED BY <3>1, <3>2, <2>5
  <2>6. e \in Nat /\ s + (MaxChars \div 2) < e /\ s < e /\ e <= Len(t) /\ e <= s + MaxChars
    BY <2>1, <2>2, <2>4, <1>1, <1>3, <1>6, HalfTheLimit
  <2> HIDE DEF spaces
  <2> QED BY <2>1, <2>4, <2>5, <2>6 DEF e
<1>7. CASE ~ (end < Len(t) /\ boundary > s + MaxChars \div 2)
  <2>1. e = end
    BY <1>4, <1>7
  <2> HIDE DEF spaces
  <2> QED BY <2>1, <1>1, <1>2, <1>3 DEF e
<1> QED BY <1>6, <1>7

\* What trimSegment leaves of a piece: nothing if the piece is blank, otherwise what
\* is from its first letter to its last.
LEMMA TrimmedSegment ==
  ASSUME NEW t \in Seq(Characters), NEW s \in Nat, NEW end \in Nat
  PROVE  \/ trimSegment(t, s, end) = {} /\ \A i \in Letters(t) : ~ (s < i /\ i <= end)
         \/ \E m, n \in Letters(t) :
              /\ trimSegment(t, s, end) = {[from |-> m - 1, to |-> n]}
              /\ s < m /\ m <= n /\ n <= end
              /\ \A i \in Letters(t) : s < i /\ i <= end => m <= i /\ i <= n
<1> DEFINE inside == {i \in Letters(t) : s < i /\ i <= end}
<1>1. CASE inside = {}
  BY <1>1 DEF trimSegment
<1>2. CASE inside # {}
  <2> DEFINE m == Min(inside)  n == Max(inside)
  <2>1. trimSegment(t, s, end) = {[from |-> m - 1, to |-> n]}
    BY <1>2 DEF trimSegment
  <2>2. inside \in SUBSET Letters(t)
    OBVIOUS
  <2>3. /\ m \in inside /\ \A y \in inside : m <= y
        /\ n \in inside /\ \A y \in inside : y <= n
    <3> HIDE DEF inside
    <3> QED BY <1>2, <2>2, FirstAndLastLetter
  <2> HIDE DEF m, n
  <2>4. m \in Letters(t) /\ n \in Letters(t) /\ s < m /\ m <= n /\ n <= end
    BY <2>3
  <2>5. \A i \in Letters(t) : s < i /\ i <= end => m <= i /\ i <= n
    BY <2>3
  <2> QED BY <2>1, <2>4, <2>5
<1> QED BY <1>1, <1>2

\* The next piece begins one after the last start or where the overlap begins, whichever
\* is later: never after the end (nextSegmentStart).
LEMMA NextStartIs ==
  ASSUME NEW s \in Nat, NEW end \in Nat, s < end, overlap \in Overlaps
  PROVE  LET n == NextStart(s, end) IN
         n \in Nat /\ s < n /\ n <= end /\ end - overlap <= n /\ (n = s + 1 \/ n = end - overlap)
<1>1. overlap \in Nat
  BY OverlapsAreShort
<1> DEFINE T == {s + 1, end - overlap}
<1>2. PICK x \in T : \A y \in T : x >= y
  <2>1. CASE s + 1 >= end - overlap
    BY <2>1, <1>1
  <2>2. CASE s + 1 < end - overlap
    BY <2>2, <1>1
  <2> QED BY <2>1, <2>2, <1>1
<1>3. Max(T) \in T /\ \A y \in T : Max(T) >= y
  <2> HIDE DEF T
  <2> QED BY <1>2 DEF Max
<1> QED BY <1>1, <1>3 DEF NextStart

-----------------------------------------------------------------------------
(***************************************************************************)
(* Chunking: what holds of the blocks, of the pieces cut from them, of the *)
(* place where the cutting is and of the chunks made so far.               *)
(***************************************************************************)
Draft == [text : Seq(Characters), page : Pages, heading : BOOLEAN]
Block == [text : Seq(Characters), page : Pages, heading : BOOLEAN, start : Nat]
Unit == [block : Nat \ {0}, from : Nat, to : Nat]

\* A block has text, without blanks around it, and ends before the next begins.
BlocksOK ==
  /\ blocks \in Seq(Block)
  /\ \A b \in DOMAIN blocks : LET t == blocks[b].text IN
       t # <<>> /\ t[1] # Blank /\ t[Len(t)] # Blank
  /\ \A b, c \in DOMAIN blocks :
       b < c => blocks[b].start + Len(blocks[b].text) < blocks[c].start

InBlock(u) ==
  LET b == blocks[u.block] IN
  /\ u.block \in DOMAIN blocks
  /\ b.start <= u.from /\ u.from < u.to /\ u.to <= b.start + Len(b.text)
  /\ u.to - u.from <= MaxChars
  /\ b.text[u.to - b.start] # Blank

Before(u, v) == u.block <= v.block /\ u.from <= v.from /\ u.to <= v.to

\* Units follow each other, and one is repeated only if it is no longer than the
\* overlap, and then once.
UnitsOK ==
  /\ units \in Seq(Unit)
  /\ \A i \in DOMAIN units : InBlock(units[i])
  /\ \A i, j \in DOMAIN units : i < j => Before(units[i], units[j])
  /\ \A i \in 1 .. Len(units) - 1 :
       units[i] = units[i + 1] => units[i].to - units[i].from <= overlap
  /\ \A i \in 1 .. Len(units) - 2 : units[i] # units[i + 1] \/ units[i + 1] # units[i + 2]

Holds(u, b, i) ==
  u.block = b /\ u.from < blocks[b].start + i /\ blocks[b].start + i <= u.to

Behind(b, i) == \E j \in DOMAIN units : Holds(units[j], b, i)

\* The letters before block b, and up to s in it, are in units.
Reached(b, s) ==
  \A c \in DOMAIN blocks : \A i \in Letters(blocks[c].text) :
    c < b \/ (c = b /\ i <= s) => Behind(c, i)

\* Units of block b end at most the overlap after s and begin before all letters
\* after s.
NotAhead(b, s) ==
  \A j \in DOMAIN units : units[j].block = b =>
    /\ units[j].to <= blocks[b].start + s + overlap
    /\ \A i \in Letters(blocks[b].text) : s < i => units[j].from < blocks[b].start + i

\* If the last two units are equal, the next of the block begins or ends after them.
NoThird(b, s) ==
  LET n == Len(units)  d == blocks[b].start  t == blocks[b].text IN
  (n >= 2 /\ units[n].block = b /\ units[n - 1] = units[n]) =>
    \/ units[n].from < d + s
    \/ \E i \in Letters(t) : i <= PieceEnd(t, s) /\ units[n].to < d + i

\* No unit is of a later block, or of block b before anything of it is cut.
NotPast(b, s) ==
  \A j \in DOMAIN units : units[j].block <= b /\ (s = 0 => units[j].block < b)

SplitOK ==
  LET b == at[1]  s == at[2]  length == Len(blocks[b].text) IN
  /\ b \in 1 .. Len(blocks) + 1
  /\ b > Len(blocks) => s = 0
  /\ b <= Len(blocks) => s < length /\ (length <= MaxChars => s = 0)
  /\ NotPast(b, s) /\ Reached(b, s) /\ NotAhead(b, s) /\ NoThird(b, s)

\* A short unit may be repeated as a chunk: see ChunksFaithful.
Repeats(u) == 2 * overlap + 1 = MaxChars \/ blocks[u.block].heading

ChunkOK(c) ==
  /\ c # <<>> /\ CharCount(c) <= MaxChars
  /\ \A j \in DOMAIN c : blocks[c[j].block].page = blocks[c[1].block].page
  /\ \A j \in DOMAIN c : j > 1 => ~blocks[c[j].block].heading

\* The units before the current one are in chunks, the last of them in the last.
GroupOK ==
  LET n == at[1] - 1 IN
  /\ at[1] \in 1 .. Len(units) + 1
  /\ \A c \in DOMAIN blocks : \A i \in Letters(blocks[c].text) : Behind(c, i)
  /\ chunks \in Seq(Seq(Unit))
  /\ chunks = <<>> <=> n = 0
  /\ \A k \in DOMAIN chunks : ChunkOK(chunks[k])
  /\ \A i \in 1 .. n : \E k \in DOMAIN chunks : \E j \in DOMAIN chunks[k] :
       chunks[k][j] = units[i]
  /\ n > 0 => \E f \in 1 .. n : LET c == chunks[Len(chunks)] IN
       Len(c) = n + 1 - f /\ \A j \in DOMAIN c : c[j] = units[f + j - 1]
  /\ \A k \in 1 .. Len(chunks) - 1 :
       /\ StartOffset(chunks[k]) <= StartOffset(chunks[k + 1])
       /\ EndOffset(chunks[k]) <= EndOffset(chunks[k + 1])
       /\ chunks[k][1] # chunks[k + 1][1] \/ Repeats(chunks[k][1])

ChunkInv ==
  /\ phase \in {"extract", "split", "group", "chunked", "failed"}
  /\ drafts \in Drafts /\ overlap \in Overlaps
  /\ at \in (Nat \ {0}) \X Nat
  /\ BlocksOK
  /\ phase = "extract" => units = <<>>
  /\ phase \in {"extract", "split"} => chunks = <<>>
  /\ UnitsOK
  /\ phase = "split" => SplitOK
  /\ phase \in {"group", "chunked"} => GroupOK
  /\ phase = "chunked" => at[1] = Len(units) + 1

-----------------------------------------------------------------------------
\* The letters of a text are positions in it.
LEMMA LettersOf ==
  ASSUME NEW t \in Seq(Characters)
  PROVE  Len(t) \in Nat /\ \A i \in Letters(t) : i \in 1 .. Len(t)
BY DEF Letters

\* The text of a block is not empty and begins and ends with a letter.
LEMMA BlockFacts ==
  ASSUME BlocksOK, NEW b \in DOMAIN blocks
  PROVE  LET t == blocks[b].text IN
         /\ b \in 1 .. Len(blocks) /\ Len(blocks) \in Nat
         /\ t \in Seq(Characters) /\ Len(t) \in Nat /\ blocks[b].start \in Nat
         /\ Len(t) > 0 /\ 1 \in Letters(t) /\ Len(t) \in Letters(t)
         /\ \A i \in Letters(t) : i \in 1 .. Len(t)
<1> DEFINE t == blocks[b].text
<1>1. b \in 1 .. Len(blocks) /\ Len(blocks) \in Nat /\ blocks[b] \in Block
  BY DEF BlocksOK
<1>2. t \in Seq(Characters) /\ blocks[b].start \in Nat
  BY <1>1 DEF Block
<1>3. t # <<>> /\ t[1] # Blank /\ t[Len(t)] # Blank
  BY DEF BlocksOK
<1> HIDE DEF t
<1>4. Len(t) \in Nat /\ Len(t) > 0 /\ DOMAIN t = 1 .. Len(t)
  BY <1>2, <1>3
<1>5. 1 \in Letters(t) /\ Len(t) \in Letters(t)
  BY <1>3, <1>4 DEF Letters
<1> QED BY <1>1, <1>2, <1>4, <1>5, LettersOf DEF t

\* The invariant holds before anything is extracted.
LEMMA ChunkInitInv ==
  ASSUME ChunkInit
  PROVE  ChunkInv
<1> USE DEF ChunkInit
<1>1. BlocksOK
  BY DEF BlocksOK
<1>2. UnitsOK
  BY DEF UnitsOK
<1> QED BY <1>1, <1>2 DEF ChunkInv

\* The block of a draft is trimmed and begins after the one before it ends.
LEMMA FinalizeInv ==
  ASSUME ChunkInv, finalizeExtraction
  PROVE  ChunkInv'
<1> DEFINE text == Trimmed(drafts[at[1]].text)
           n == Len(blocks)
           offset == IF blocks = <<>> THEN 0 ELSE blocks[n].start + Len(blocks[n].text) + 2
           new == [text |-> text, page |-> drafts[at[1]].page,
                   heading |-> drafts[at[1]].heading, start |-> offset]
<1>1. /\ phase = "extract" /\ at \in (Nat \ {0}) \X Nat /\ at[1] <= Len(drafts)
      /\ drafts \in Drafts /\ BlocksOK /\ units = <<>> /\ chunks = <<>>
      /\ overlap \in Overlaps
  BY DEF ChunkInv, finalizeExtraction
<1>2. drafts \in Seq(Draft)
  BY <1>1, ChunkingAssumption DEF ChunkingAssumption, Draft
<1>3. drafts[at[1]] \in Draft
  <2>1. at[1] \in 1 .. Len(drafts)
    BY <1>1, <1>2
  <2> QED BY <2>1, <1>2
<1>4. text \in Seq(Characters) /\ (text # <<>> => text[1] # Blank /\ text[Len(text)] # Blank)
  BY <1>3, TrimmedText DEF Draft
<1>5. n \in Nat /\ \A b \in DOMAIN blocks : b \in 1 .. n
  BY <1>1 DEF BlocksOK
<1>6. /\ offset \in Nat
      /\ \A b \in DOMAIN blocks : blocks[b].start + Len(blocks[b].text) < offset
  <2>1. CASE blocks = <<>>
    BY <2>1
  <2>2. CASE blocks # <<>>
    <3>1. n \in DOMAIN blocks
      BY <2>2, <1>1, <1>5 DEF BlocksOK
    <3>2. \A b \in DOMAIN blocks : blocks[b].start \in Nat /\ Len(blocks[b].text) \in Nat
      BY <1>1, BlockFacts
    <3>3. \A b \in DOMAIN blocks : b < n =>
            blocks[b].start + Len(blocks[b].text) < blocks[n].start
      BY <1>1, <3>1 DEF BlocksOK
    <3>4. offset = blocks[n].start + Len(blocks[n].text) + 2
      BY <2>2
    <3>5. \A b \in DOMAIN blocks : b < n \/ b = n
      BY <1>5
    <3> HIDE DEF offset, n
    <3>6. offset \in Nat
      BY <3>1, <3>2, <3>4
    <3>7. ASSUME NEW b \in DOMAIN blocks
          PROVE  blocks[b].start + Len(blocks[b].text) < offset
      <4> DEFINE z == blocks[b].start + Len(blocks[b].text)
                 y == blocks[n].start
                 l == Len(blocks[n].text)
      <4>1. z \in Nat /\ y \in Nat /\ l \in Nat /\ offset = y + l + 2
        BY <3>1, <3>2, <3>4
      <4>2. z < y \/ z = y + l
        BY <3>3, <3>5
      <4> HIDE DEF z, y, l
      <4>3. z < offset
        BY <4>1, <4>2
      <4> QED BY <4>3 DEF z
    <3> QED BY <3>6, <3>7
  <2> QED BY <2>1, <2>2
<1>7. \/ blocks' = blocks
      \/ blocks' = Append(blocks, new) /\ text # <<>>
  BY DEF finalizeExtraction
<1> HIDE DEF text, offset, n
<1>8. BlocksOK'
  <2>1. CASE blocks' = blocks
    BY <1>1, <2>1 DEF BlocksOK
  <2>2. CASE blocks' = Append(blocks, new) /\ text # <<>>
    <3>1. new \in Block
      BY <1>3, <1>4, <1>6 DEF Draft, Block
    <3>2. blocks \in Seq(Block)
      BY <1>1 DEF BlocksOK
    <3>3. /\ blocks' \in Seq(Block) /\ Len(blocks') = n + 1
          /\ blocks'[n + 1] = new /\ \A b \in 1 .. n : blocks'[b] = blocks[b]
      BY <2>2, <3>1, <3>2, AppendProperties DEF n
    <3>4. \A b \in DOMAIN blocks' : b = n + 1 \/ (b \in 1 .. n /\ b \in DOMAIN blocks)
      BY <3>2, <3>3, <1>5 DEF n
    <3>5. ASSUME NEW b \in DOMAIN blocks'
          PROVE  LET t == blocks'[b].text IN t # <<>> /\ t[1] # Blank /\ t[Len(t)] # Blank
      <4>1. CASE b = n + 1
        <5>1. blocks'[b].text = text
          BY <4>1, <3>3
        <5> QED BY <5>1, <2>2, <1>4
      <4>2. CASE b \in 1 .. n /\ b \in DOMAIN blocks
        <5>1. blocks'[b] = blocks[b]
          BY <4>2, <3>3
        <5> QED BY <5>1, <4>2, <1>1 DEF BlocksOK
      <4> QED BY <4>1, <4>2, <3>4
    <3>6. ASSUME NEW b \in DOMAIN blocks', NEW c \in DOMAIN blocks', b < c
          PROVE  blocks'[b].start + Len(blocks'[b].text) < blocks'[c].start
      <4>1. b \in 1 .. n /\ b \in DOMAIN blocks /\ blocks'[b] = blocks[b]
        BY <3>4, <3>3, <3>6, <1>5
      <4>2. CASE c = n + 1
        <5>1. blocks'[c].start = offset
          BY <4>2, <3>3
        <5> QED BY <5>1, <4>1, <1>6
      <4>3. CASE c \in 1 .. n /\ c \in DOMAIN blocks
        <5>1. blocks'[c] = blocks[c]
          BY <4>3, <3>3
        <5> QED BY <5>1, <4>1, <4>3, <3>6, <1>1 DEF BlocksOK
      <4> QED BY <4>2, <4>3, <3>4
    <3> QED BY <3>3, <3>5, <3>6 DEF BlocksOK
  <2> QED BY <1>7, <2>1, <2>2
<1>9. UnitsOK'
  <2>1. units' = <<>>
    BY <1>1 DEF finalizeExtraction
  <2> QED BY <2>1 DEF UnitsOK
<1>10. /\ phase' \in {"extract", "failed"} /\ drafts' = drafts /\ overlap' = overlap
       /\ at' = <<at[1] + 1, 0>> /\ units' = units /\ chunks' = chunks
  BY <1>1 DEF finalizeExtraction
<1>11. at' \in (Nat \ {0}) \X Nat
  BY <1>1, <1>10
<1> QED BY <1>1, <1>8, <1>9, <1>10, <1>11 DEF ChunkInv

\* The invariant holds when finalizeExtraction hands its blocks to splitBlock.
LEMMA ExtractionDoneInv ==
  ASSUME ChunkInv, ExtractionDone
  PROVE  ChunkInv'
<1>1. /\ phase' = "split" /\ at' = <<1, 0>> /\ blocks' = blocks /\ units' = units
      /\ chunks' = chunks /\ drafts' = drafts /\ overlap' = overlap
  BY DEF ExtractionDone
<1>2. /\ BlocksOK /\ units = <<>> /\ chunks = <<>> /\ drafts \in Drafts
      /\ overlap \in Overlaps /\ Len(blocks) \in Nat
  BY DEF ChunkInv, ExtractionDone, BlocksOK
<1>3. BlocksOK' /\ UnitsOK'
  BY <1>1, <1>2 DEF BlocksOK, UnitsOK
<1>4. SplitOK'
  <2>1. 1 <= Len(blocks) => 0 < Len(blocks[1].text)
    <3>1. 1 <= Len(blocks) => 1 \in DOMAIN blocks
      BY <1>2 DEF BlocksOK
    <3> QED BY <3>1, <1>2, BlockFacts
  <2>2. \A c \in DOMAIN blocks : \A i \in Letters(blocks[c].text) :
          ~ (c < 1) /\ ~ (i <= 0)
    <3> TAKE c \in DOMAIN blocks
    <3> TAKE i \in Letters(blocks[c].text)
    <3>1. /\ c \in 1 .. Len(blocks) /\ Len(blocks[c].text) \in Nat
          /\ i \in 1 .. Len(blocks[c].text)
      BY <1>2, BlockFacts
    <3> QED BY <3>1, <1>2
  <2>3. at'[1] = 1 /\ at'[2] = 0
    BY <1>1
  <2> QED BY <1>1, <1>2, <2>1, <2>2, <2>3 DEF SplitOK, NotPast, Reached, NotAhead, NoThird
<1> QED BY <1>1, <1>2, <1>3, <1>4 DEF ChunkInv

-----------------------------------------------------------------------------
(***************************************************************************)
(* One iteration of splitBlock: it looks at the characters after s up to e *)
(* and makes a unit from the m-th character to the n-th, or none.          *)
(***************************************************************************)
PieceOf(b, m, n) ==
  [block |-> b, from |-> blocks[b].start + (m - 1), to |-> blocks[b].start + n]

Blanks(t, s, e) == \A i \in Letters(t) : ~ (s < i /\ i <= e)

WordsFrom(t, s, e, m, n) ==
  /\ m \in Letters(t) /\ n \in Letters(t)
  /\ s < m /\ m <= n /\ n <= e
  /\ \A i \in Letters(t) : s < i /\ i <= e => m <= i /\ i <= n

Place(b, s) ==
  /\ b \in DOMAIN blocks /\ s \in Nat /\ s < Len(blocks[b].text)
  /\ Len(blocks[b].text) <= MaxChars => s = 0

\* The units are those there were, then v.
Grows(v) ==
  /\ Len(units') = Len(units) + 1 /\ DOMAIN units' = 1 .. Len(units) + 1
  /\ \A j \in 1 .. Len(units) : units'[j] = units[j]
  /\ units'[Len(units) + 1] = v

CutTo(b, s, e) ==
  LET t == blocks[b].text IN
  /\ e \in Nat /\ s < e /\ e <= Len(t) /\ e <= s + MaxChars
  /\ e = Len(t) \/ s + overlap < e
  /\ Len(t) > MaxChars => e = PieceEnd(t, s)
  /\ e < Len(t) => Len(t) > MaxChars
  /\ at' = IF e >= Len(t) THEN <<b + 1, 0>> ELSE <<b, NextStart(s, e)>>
  /\ blocks' = blocks /\ overlap' = overlap
  /\ \/ units' = units /\ Blanks(t, s, e)
     \/ \E m, n \in Nat :
          units' = Append(units, PieceOf(b, m, n)) /\ WordsFrom(t, s, e, m, n)

\* What splitBlock does is a cut at the current place, as CutTo describes it.
LEMMA CutHappens ==
  ASSUME ChunkInv, splitBlock
  PROVE  Place(at[1], at[2]) /\ \E e \in Nat : CutTo(at[1], at[2], e)
<1> DEFINE b == at[1]  s == at[2]  t == blocks[b].text  d == blocks[b].start
           whole == Len(t) <= MaxChars
           e == IF whole THEN Len(t) ELSE PieceEnd(t, s)
           piece == IF whole THEN {[from |-> 0, to |-> Len(t)]} ELSE trimSegment(t, s, e)
<1>1. /\ phase = "split" /\ BlocksOK /\ SplitOK /\ at \in (Nat \ {0}) \X Nat
      /\ overlap \in Overlaps /\ b <= Len(blocks)
  BY DEF ChunkInv, splitBlock
<1>2. b \in 1 .. Len(blocks) /\ s \in Nat /\ b \in Nat
  BY <1>1 DEF SplitOK
<1>3. b \in DOMAIN blocks
  BY <1>1, <1>2 DEF BlocksOK
<1>4. s < Len(t) /\ (whole => s = 0)
  BY <1>1 DEF SplitOK
<1>5. Place(b, s)
  BY <1>2, <1>3, <1>4 DEF Place
<1>6. /\ t \in Seq(Characters) /\ Len(t) \in Nat /\ d \in Nat /\ Len(t) > 0
      /\ 1 \in Letters(t) /\ Len(t) \in Letters(t) /\ \A i \in Letters(t) : i \in 1 .. Len(t)
  BY <1>1, <1>3, BlockFacts
<1>7. /\ units' = IF piece = {} THEN units
                  ELSE LET p == CHOOSE x \in piece : TRUE
                       IN Append(units, [block |-> b, from |-> d + p.from, to |-> d + p.to])
      /\ at' = IF e >= Len(t) THEN <<b + 1, 0>> ELSE <<b, NextStart(s, e)>>
      /\ blocks' = blocks /\ overlap' = overlap
  BY DEF splitBlock
<1>8. overlap \in Nat /\ overlap <= MaxChars \div 2
  BY <1>1, OverlapsAreShort
<1> HIDE DEF b, s, t, d, piece
<1>9. /\ e \in Nat /\ s < e /\ e <= Len(t) /\ e <= s + MaxChars
      /\ e = Len(t) \/ s + overlap < e
  <2>1. CASE whole
    <3>1. e = Len(t)
      BY <2>1
    <3>2. Len(t) <= MaxChars /\ s = 0
      BY <2>1, <1>4
    <3> HIDE DEF e
    <3> QED BY <3>1, <3>2, <1>2, <1>6, HalfTheLimit
  <2>2. CASE ~ whole
    <3>1. e = PieceEnd(t, s)
      BY <2>2
    <3> HIDE DEF e
    <3>2. /\ e \in Nat /\ s < e /\ e <= Len(t) /\ e <= s + MaxChars
          /\ e = Len(t) \/ e = s + MaxChars \/ s + (MaxChars \div 2) < e
      BY <3>1, <1>2, <1>4, <1>6, PieceEndBounds
    <3> QED BY <3>2, <1>2, <1>8, <1>6, <1>1, HalfTheLimit, OverlapsAreShort
  <2> QED BY <2>1, <2>2
<1>10. \/ units' = units /\ Blanks(t, s, e)
       \/ \E m, n \in Nat :
            /\ units' = Append(units, [block |-> b, from |-> d + (m - 1), to |-> d + n])
            /\ WordsFrom(t, s, e, m, n)
  <2>1. CASE whole
    <3>1. piece = {[from |-> 0, to |-> Len(t)]}
      BY <2>1 DEF piece
    <3>2. units' = Append(units, [block |-> b, from |-> d + 0, to |-> d + Len(t)])
      <4> DEFINE p == CHOOSE x \in piece : TRUE
      <4>1. piece # {} /\ p = [from |-> 0, to |-> Len(t)]
        BY <3>1
      <4>2. units' = Append(units, [block |-> b, from |-> d + p.from, to |-> d + p.to])
        BY <4>1, <1>7
      <4> HIDE DEF p
      <4>3. p.from = 0 /\ p.to = Len(t)
        BY <4>1
      <4> QED BY <4>2, <4>3
    <3>3. WordsFrom(t, s, e, 1, Len(t))
      BY <2>1, <1>4, <1>6, <1>9 DEF WordsFrom
    <3> QED BY <3>2, <3>3, <1>6
  <2>2. CASE ~ whole
    <3>1. piece = trimSegment(t, s, e)
      BY <2>2 DEF piece
    <3> HIDE DEF e
    <3>2. CASE piece = {} /\ \A i \in Letters(t) : ~ (s < i /\ i <= e)
      BY <3>2, <1>7 DEF Blanks
    <3>3. ASSUME NEW m \in Letters(t), NEW n \in Letters(t),
                 piece = {[from |-> m - 1, to |-> n]}, s < m, m <= n, n <= e,
                 \A i \in Letters(t) : s < i /\ i <= e => m <= i /\ i <= n
          PROVE  /\ units' = Append(units, [block |-> b, from |-> d + (m - 1), to |-> d + n])
                 /\ WordsFrom(t, s, e, m, n) /\ m \in Nat /\ n \in Nat
      <4> DEFINE p == CHOOSE x \in piece : TRUE
      <4>1. piece # {} /\ p = [from |-> m - 1, to |-> n]
        BY <3>3
      <4>3. units' = Append(units, [block |-> b, from |-> d + p.from, to |-> d + p.to])
        BY <4>1, <1>7
      <4> HIDE DEF p
      <4>4. p.from = m - 1 /\ p.to = n
        BY <4>1
      <4>2. units' = Append(units, [block |-> b, from |-> d + (m - 1), to |-> d + n])
        BY <4>3, <4>4
      <4> QED BY <3>3, <4>2, <1>6 DEF WordsFrom
    <3>4. \/ piece = {} /\ \A i \in Letters(t) : ~ (s < i /\ i <= e)
          \/ \E m, n \in Letters(t) :
               /\ piece = {[from |-> m - 1, to |-> n]} /\ s < m /\ m <= n /\ n <= e
               /\ \A i \in Letters(t) : s < i /\ i <= e => m <= i /\ i <= n
      <4>1. s \in Nat /\ e \in Nat /\ t \in Seq(Characters)
        BY <1>2, <1>6, <1>9
      <4>2. \/ trimSegment(t, s, e) = {} /\ \A i \in Letters(t) : ~ (s < i /\ i <= e)
            \/ \E m, n \in Letters(t) :
                 /\ trimSegment(t, s, e) = {[from |-> m - 1, to |-> n]}
                 /\ s < m /\ m <= n /\ n <= e
                 /\ \A i \in Letters(t) : s < i /\ i <= e => m <= i /\ i <= n
        BY <4>1, TrimmedSegment
      <4> QED BY <4>2, <3>1, Zenon
    <3> QED BY <3>2, <3>3, <3>4
  <2> QED BY <2>1, <2>2
<1>11. CutTo(b, s, e)
  <2>1. Len(t) > MaxChars => e = PieceEnd(t, s)
    BY <1>6, HalfTheLimit
  <2>2. e < Len(t) => Len(t) > MaxChars
    BY <1>6, HalfTheLimit
  <2> HIDE DEF e
  <2> QED BY <1>7, <1>9, <1>10, <2>1, <2>2 DEF CutTo, PieceOf, t, d
<1> QED BY <1>5, <1>9, <1>11 DEF b, s

-----------------------------------------------------------------------------
\* What a cut knows of the block it is in.
LEMMA CutFacts ==
  ASSUME BlocksOK, overlap \in Overlaps, NEW b \in Nat, NEW s \in Nat, NEW e \in Nat,
         Place(b, s), CutTo(b, s, e)
  PROVE  LET t == blocks[b].text  d == blocks[b].start IN
         /\ b \in DOMAIN blocks /\ b \in 1 .. Len(blocks) /\ Len(blocks) \in Nat
         /\ t \in Seq(Characters) /\ Len(t) \in Nat /\ d \in Nat
         /\ Len(t) \in Letters(t) /\ \A i \in Letters(t) : i \in 1 .. Len(t)
         /\ s < Len(t) /\ s < e /\ e <= Len(t) /\ e <= s + MaxChars
         /\ MaxChars \in Nat /\ overlap \in Nat /\ 2 * overlap < MaxChars
         /\ e = Len(t) \/ s + overlap < e
<1>1. b \in DOMAIN blocks /\ s < Len(blocks[b].text)
  BY DEF Place
<1>2. /\ s < e /\ e <= Len(blocks[b].text) /\ e <= s + MaxChars
      /\ e = Len(blocks[b].text) \/ s + overlap < e
  BY DEF CutTo
<1> QED BY <1>1, <1>2, BlockFacts, OverlapsAreShort, HalfTheLimit

\* The piece that is cut is a unit of its block, after the units there are.
LEMMA CutPiece ==
  ASSUME BlocksOK, UnitsOK, overlap \in Overlaps, NEW b \in Nat, NEW s \in Nat,
         NEW e \in Nat, Place(b, s), CutTo(b, s, e), NEW m \in Nat, NEW n \in Nat,
         WordsFrom(blocks[b].text, s, e, m, n), NotPast(b, s), NotAhead(b, s)
  PROVE  LET v == PieceOf(b, m, n) IN
         /\ v \in Unit /\ InBlock(v)
         /\ \A j \in DOMAIN units : Before(units[j], v)
<1> DEFINE t == blocks[b].text  d == blocks[b].start  v == PieceOf(b, m, n)
<1>1. /\ b \in DOMAIN blocks /\ b \in 1 .. Len(blocks) /\ Len(blocks) \in Nat
      /\ t \in Seq(Characters) /\ Len(t) \in Nat /\ d \in Nat
      /\ \A i \in Letters(t) : i \in 1 .. Len(t)
      /\ s < e /\ e <= Len(t) /\ e <= s + MaxChars
      /\ MaxChars \in Nat /\ overlap \in Nat
      /\ e = Len(t) \/ s + overlap < e
  BY CutFacts
<1>2. /\ m \in Letters(t) /\ n \in Letters(t) /\ s < m /\ m <= n /\ n <= e
      /\ \A i \in Letters(t) : s < i /\ i <= e => m <= i /\ i <= n
  BY DEF WordsFrom
<1>3. v.block = b /\ v.from = d + (m - 1) /\ v.to = d + n
  BY DEF PieceOf
<1> HIDE DEF t, d
<1>4. v \in Unit
  <2>1. m - 1 \in Nat /\ d + (m - 1) \in Nat /\ d + n \in Nat /\ b \in Nat \ {0}
    BY <1>1, <1>2
  <2> QED BY <2>1 DEF PieceOf, Unit, d
<1>5. InBlock(v)
  <2>1. t[n] # Blank
    BY <1>2 DEF Letters
  <2>2. v.to - d = n
    BY <1>1, <1>3
  <2>3. n \in 1 .. Len(t)
    BY <1>1, <1>2
  <2>4. d <= v.from /\ v.from < v.to /\ v.to <= d + Len(t) /\ v.to - v.from <= MaxChars
    BY <1>1, <1>2, <1>3, <2>3
  <2> HIDE DEF v
  <2> QED BY <1>1, <1>3, <2>1, <2>2, <2>4 DEF InBlock, t, d
<1>6. ASSUME NEW j \in DOMAIN units
      PROVE  Before(units[j], v)
  <2> DEFINE u == units[j]
  <2>1. u \in Unit /\ InBlock(u) /\ u.block <= b
    BY DEF UnitsOK, NotPast
  <2>2. u.block \in Nat /\ u.from \in Nat /\ u.to \in Nat
    BY <2>1 DEF Unit
  <2>3. CASE u.block < b
    <3>1. u.block \in DOMAIN blocks
      BY <2>1 DEF InBlock
    <3>2. blocks[u.block].start + Len(blocks[u.block].text) < d
      BY <3>1, <1>1, <2>3 DEF BlocksOK, d
    <3>3. u.from < u.to /\ u.to <= blocks[u.block].start + Len(blocks[u.block].text)
      BY <2>1 DEF InBlock
    <3>4. blocks[u.block].start \in Nat /\ Len(blocks[u.block].text) \in Nat
      BY <3>1, BlockFacts
    <3> HIDE DEF u, v
    <3>5. d <= v.from /\ d <= v.to
      BY <1>1, <1>2, <1>3
    <3>6. u.to < d
      BY <3>2, <3>3, <3>4, <2>2, <1>1, SMTT(30)
    <3>8. u.from \in Nat /\ u.to \in Nat /\ d \in Nat /\ v.from \in Nat /\ v.to \in Nat
      BY <2>2, <1>1, <1>4 DEF Unit
    <3>9. u.from < u.to
      BY <3>3
    <3>7. u.from <= v.from /\ u.to <= v.to
      BY <3>5, <3>6, <3>8, <3>9
    <3>10. u.block <= v.block
      BY <2>1, <1>3
    <3> QED BY <3>7, <3>10 DEF Before, u
  <2>4. CASE u.block = b
    <3>1. u.to <= d + s + overlap /\ \A i \in Letters(t) : s < i => u.from < d + i
      BY <2>4 DEF NotAhead, t, d
    <3>2. /\ d <= u.from /\ u.from < u.to /\ u.to <= d + Len(t)
          /\ t[u.to - d] # Blank
      BY <2>1, <2>4 DEF InBlock, t, d
    <3>3. u.from < d + m
      BY <3>1, <1>2
    <3> DEFINE i == u.to - d
    <3> HIDE DEF u, v
    <3>9. u.to \in Nat /\ u.from \in Nat /\ d \in Nat /\ Len(t) \in Nat /\ overlap \in Nat
      BY <2>2, <1>1
    <3>10. u.to <= d + s + overlap /\ d <= u.from /\ u.from < u.to /\ u.to <= d + Len(t)
      BY <3>1, <3>2
    <3>13. \A x, y, z, w \in Nat : d <= x /\ x < y /\ y <= d + z /\ y <= d + w =>
             y - d \in 1 .. z /\ y = d + (y - d) /\ y - d <= w
      BY <3>9
    <3>14. u.to <= d + (s + overlap) /\ s + overlap \in Nat
      BY <3>9, <3>10
    <3>4. i \in 1 .. Len(t) /\ u.to = d + i /\ i <= s + overlap
      BY <3>9, <3>10, <3>13, <3>14
    <3>11. t[i] # Blank
      BY <3>2
    <3> HIDE DEF i
    <3>12. DOMAIN t = 1 .. Len(t)
      BY <1>1
    <3>5. i \in Letters(t)
      BY <3>4, <3>11, <3>12 DEF Letters
    <3>6. i <= e
      BY <3>4, <1>1
    <3>7. i <= n
      <4>1. CASE i <= s
        BY <4>1, <3>4, <1>1, <1>2
      <4>2. CASE s < i
        BY <4>2, <3>5, <3>6, <1>2
      <4> QED BY <4>1, <4>2, <3>4
    <3>8. u.from <= v.from /\ u.to <= v.to
      BY <3>3, <3>4, <3>7, <2>2, <1>1, <1>2, <1>3
    <3> QED BY <3>8, <2>4, <2>2, <1>3 DEF Before, u
  <2> QED BY <2>1, <2>2, <2>3, <2>4
<1> QED BY <1>4, <1>5, <1>6

\* After a cut the units are still in order, each repeated at most once and then no longer
\* than the overlap.
LEMMA CutUnits ==
  ASSUME BlocksOK, UnitsOK, overlap \in Overlaps, NEW b \in Nat, NEW s \in Nat,
         NEW e \in Nat, Place(b, s), CutTo(b, s, e), NotPast(b, s), NotAhead(b, s),
         NoThird(b, s)
  PROVE  UnitsOK'
<1> DEFINE t == blocks[b].text  d == blocks[b].start  k == Len(units)
<1>1. /\ t \in Seq(Characters) /\ Len(t) \in Nat /\ d \in Nat
      /\ \A i \in Letters(t) : i \in 1 .. Len(t)
      /\ s < Len(t) /\ s < e /\ e <= Len(t) /\ overlap \in Nat
  BY CutFacts
<1>2. /\ blocks' = blocks /\ overlap' = overlap
      /\ Len(t) > MaxChars => e = PieceEnd(t, s)
      /\ \/ units' = units
         \/ \E m, n \in Nat :
              units' = Append(units, PieceOf(b, m, n)) /\ WordsFrom(t, s, e, m, n)
  BY DEF CutTo
<1>3. CASE units' = units
  BY <1>2, <1>3 DEF UnitsOK, InBlock
<1>5. Len(t) <= MaxChars => s = 0
  BY DEF Place
<1> HIDE DEF t, d
<1>4. ASSUME NEW m \in Nat, NEW n \in Nat,
             units' = Append(units, PieceOf(b, m, n)), WordsFrom(t, s, e, m, n)
      PROVE  UnitsOK'
  <2> DEFINE v == PieceOf(b, m, n)
  <2>1. /\ v \in Unit /\ InBlock(v) /\ \A j \in DOMAIN units : Before(units[j], v)
    BY <1>4, CutPiece DEF t
  <2>2. units \in Seq(Unit) /\ k \in Nat /\ DOMAIN units = 1 .. k
    BY DEF UnitsOK
  <2>3. v.block = b /\ v.from = d + (m - 1) /\ v.to = d + n
    BY DEF PieceOf, d
  <2>4. /\ m \in Letters(t) /\ n \in Letters(t) /\ s < m /\ m <= n /\ n <= e
        /\ \A i \in Letters(t) : s < i /\ i <= e => m <= i /\ i <= n
    BY <1>4 DEF WordsFrom
  <2> HIDE DEF v, k
  <2>5. /\ units' \in Seq(Unit) /\ Len(units') = k + 1 /\ DOMAIN units' = 1 .. k + 1
        /\ units'[k + 1] = v /\ \A j \in 1 .. k : units'[j] = units[j]
    <3>1. units' = Append(units, v)
      BY <1>4 DEF v
    <3> QED BY <3>1, <2>1, <2>2, AppendProperties DEF k
  <2>6. ASSUME NEW j \in DOMAIN units'
        PROVE  InBlock(units[j])' 
    <3>1. CASE j \in 1 .. k
      <4>1. units'[j] = units[j] /\ InBlock(units[j])
        BY <3>1, <2>2, <2>5 DEF UnitsOK
      <4> QED BY <4>1, <1>2 DEF InBlock
    <3>2. CASE j = k + 1
      BY <3>2, <2>1, <2>5, <1>2 DEF InBlock
    <3> QED BY <3>1, <3>2, <2>2, <2>5
  <2>7. ASSUME NEW i \in DOMAIN units', NEW j \in DOMAIN units', i < j
        PROVE  Before(units[i], units[j])'
    <3>1. i \in 1 .. k /\ units'[i] = units[i] /\ i \in DOMAIN units
      BY <2>2, <2>5, <2>7
    <3>2. CASE j = k + 1
      BY <3>1, <3>2, <2>1, <2>5 DEF Before
    <3>3. CASE j \in 1 .. k
      <4>1. units'[j] = units[j] /\ Before(units[i], units[j])
        BY <3>1, <3>3, <2>2, <2>5, <2>7 DEF UnitsOK
      <4> QED BY <4>1, <3>1 DEF Before
    <3> QED BY <3>2, <3>3, <2>2, <2>5
  <2>8. ASSUME NEW i \in 1 .. k, units'[i] = units'[i + 1]
        PROVE  units'[i].to - units'[i].from <= overlap
    <3>1. CASE i < k
      <4>1. i \in 1 .. k - 1 /\ units'[i] = units[i] /\ units'[i + 1] = units[i + 1]
        BY <3>1, <2>2, <2>5
      <4> QED BY <4>1, <2>8 DEF UnitsOK, k
    <3>2. CASE i = k
      <4>1. units[k] = v /\ units'[i] = v /\ k \in DOMAIN units
        BY <3>2, <2>2, <2>5, <2>8
      <4>2. v.to <= d + s + overlap
        BY <4>1, <2>3 DEF NotAhead, d
      <4> QED BY <4>1, <4>2, <2>3, <2>4, <1>1
    <3> QED BY <3>1, <3>2, <2>2
  <2>9. ASSUME NEW i \in 1 .. k - 1, units'[i] = units'[i + 1], units'[i + 1] = units'[i + 2]
        PROVE  FALSE
    <3>1. CASE i < k - 1
      <4>1. /\ i \in 1 .. k - 2 /\ units'[i] = units[i] /\ units'[i + 1] = units[i + 1]
            /\ units'[i + 2] = units[i + 2]
        BY <3>1, <2>2, <2>5
      <4> QED BY <4>1, <2>9 DEF UnitsOK, k
    <3>2. CASE i = k - 1
      <4>1. k >= 2 /\ units[k] = v /\ units[k - 1] = v /\ k \in DOMAIN units
        BY <3>2, <2>2, <2>5, <2>9
      <4>2. s # 0
        BY <4>1, <2>3, <1>1 DEF NotPast
      <4>3. e = PieceEnd(t, s)
        <5>1. Len(t) > MaxChars
          BY <4>2, <1>1, <1>5, HalfTheLimit
        <5> QED BY <5>1, <1>2
      <4>4. v.from < d + s \/ \E i1 \in Letters(t) : i1 <= e /\ v.to < d + i1
        BY <4>1, <4>3, <2>3 DEF NoThird, k, t, d
      <4>5. ~ (v.from < d + s)
        BY <2>3, <2>4, <1>1
      <4>6. PICK i1 \in Letters(t) : i1 <= e /\ v.to < d + i1
        BY <4>4, <4>5
      <4>7. i1 \in Nat /\ d \in Nat
        BY <1>1
      <4>8. d + n < d + i1
        BY <4>6, <2>3
      <4>9. n < i1
        BY <4>7, <4>8
      <4>10. s < i1
        BY <4>7, <4>9, <2>4
      <4>11. i1 <= n
        BY <4>6, <4>10, <2>4
      <4> QED BY <4>7, <4>9, <4>11
    <3> QED BY <3>1, <3>2, <2>2
  <2>10. \A i \in 1 .. Len(units') - 2 : units'[i] # units'[i + 1] \/ units'[i + 1] # units'[i + 2]
    <3>1. Len(units') - 2 = k - 1
      BY <2>2, <2>5
    <3> QED BY <3>1, <2>9
  <2>11. \A i \in 1 .. Len(units') - 1 :
           units'[i] = units'[i + 1] => units'[i].to - units'[i].from <= overlap'
    <3>1. Len(units') - 1 = k
      BY <2>2, <2>5
    <3> QED BY <3>1, <2>8, <1>2
  <2> QED BY <2>5, <2>6, <2>7, <2>10, <2>11 DEF UnitsOK
<1> QED BY <1>2, <1>3, <1>4

-----------------------------------------------------------------------------
\* What a cut leaves of the units there were.
LEMMA CutKeeps ==
  ASSUME UnitsOK, NEW b \in Nat, NEW s \in Nat, NEW e \in Nat, CutTo(b, s, e)
  PROVE  /\ blocks' = blocks /\ Len(units) \in Nat /\ DOMAIN units = 1 .. Len(units)
         /\ \/ /\ units' = units
               /\ Blanks(blocks[b].text, s, e)
            \/ \E m, n \in Nat :
                 WordsFrom(blocks[b].text, s, e, m, n) /\ Grows(PieceOf(b, m, n))
<1>1. units \in Seq(Unit) /\ Len(units) \in Nat /\ DOMAIN units = 1 .. Len(units)
  BY DEF UnitsOK
<1>2. /\ blocks' = blocks
      /\ \/ units' = units /\ Blanks(blocks[b].text, s, e)
         \/ \E m, n \in Nat : /\ units' = Append(units, PieceOf(b, m, n))
                              /\ WordsFrom(blocks[b].text, s, e, m, n)
  BY DEF CutTo
<1>3. ASSUME NEW m \in Nat, NEW n \in Nat, units' = Append(units, PieceOf(b, m, n))
      PROVE  Grows(PieceOf(b, m, n))
  <2> DEFINE T == {units[j] : j \in 1 .. Len(units)} \cup {PieceOf(b, m, n)}
  <2>1. units \in Seq(T) /\ PieceOf(b, m, n) \in T
    BY <1>1
  <2> HIDE DEF T
  <2>2. /\ units' \in Seq(T) /\ Len(units') = Len(units) + 1
        /\ \A j \in 1 .. Len(units) : units'[j] = units[j]
        /\ units'[Len(units) + 1] = PieceOf(b, m, n)
    BY <2>1, <1>3, AppendProperties
  <2> QED BY <2>2, <1>1 DEF Grows
<1> QED BY <1>1, <1>2, <1>3

\* After a cut the letters up to e are in units.
LEMMA CutReached ==
  ASSUME BlocksOK, UnitsOK, overlap \in Overlaps, NEW b \in Nat, NEW s \in Nat,
         NEW e \in Nat, Place(b, s), CutTo(b, s, e), Reached(b, s)
  PROVE  Reached(b, e)'
<1> DEFINE t == blocks[b].text  d == blocks[b].start  k == Len(units)
<1>1. t \in Seq(Characters) /\ d \in Nat /\ \A i \in Letters(t) : i \in 1 .. Len(t)
  BY CutFacts
<1>2. /\ blocks' = blocks /\ k \in Nat /\ DOMAIN units = 1 .. k
      /\ \/ units' = units /\ Blanks(t, s, e)
         \/ \E m, n \in Nat : WordsFrom(t, s, e, m, n) /\ Grows(PieceOf(b, m, n))
  BY CutKeeps
<1>3. \A j \in DOMAIN units : j \in DOMAIN units' /\ units'[j] = units[j]
  <2>1. ASSUME NEW v, Grows(v)
        PROVE  \A j \in DOMAIN units : j \in DOMAIN units' /\ units'[j] = units[j]
    BY <2>1, <1>2 DEF Grows
  <2> QED BY <2>1, <1>2
<1>4. ASSUME NEW c \in DOMAIN blocks, NEW i \in Letters(blocks[c].text), Behind(c, i)
      PROVE  Behind(c, i)'
  <2>1. PICK j \in DOMAIN units : Holds(units[j], c, i)
    BY <1>4 DEF Behind
  <2>2. j \in DOMAIN units' /\ units'[j] = units[j]
    BY <1>3
  <2> QED BY <2>1, <2>2, <1>2 DEF Behind, Holds
<1>5. ASSUME NEW i \in Letters(t), s < i, i <= e
      PROVE  Behind(b, i)'
  <2>1. ~ Blanks(t, s, e)
    BY <1>5 DEF Blanks
  <2>2. PICK m \in Nat, n \in Nat :
          WordsFrom(t, s, e, m, n) /\ Grows(PieceOf(b, m, n))
    BY <2>1, <1>2
  <2>3. m <= i /\ i <= n
    BY <2>2, <1>5 DEF WordsFrom
  <2> DEFINE v == PieceOf(b, m, n)
  <2>4. v.block = b /\ v.from = d + (m - 1) /\ v.to = d + n
    BY DEF PieceOf
  <2> HIDE DEF v, d, t
  <2>5. v.from < d + i /\ d + i <= v.to
    BY <2>3, <2>4, <1>1
  <2>6. k + 1 \in DOMAIN units' /\ units'[k + 1] = v
    BY <2>2, <1>2 DEF v, Grows
  <2> QED BY <2>2, <2>4, <2>5, <2>6, <1>2 DEF Behind, Holds, d
<1>6. ASSUME NEW c \in DOMAIN blocks, NEW i \in Letters(blocks[c].text),
             c < b \/ (c = b /\ i <= e)
      PROVE  Behind(c, i)'
  <2>1. CASE c < b \/ (c = b /\ i <= s)
    BY <2>1, <1>4 DEF Reached
  <2>2. CASE c = b /\ ~ (i <= s) /\ i <= e
    <3>1. i \in Letters(t) /\ s < i
      BY <2>2, <1>1
    <3> QED BY <3>1, <2>2, <1>5
  <2> QED BY <1>6, <2>1, <2>2
<1> QED BY <1>2, <1>6 DEF Reached

\* The next place is after the last by at least one, and what is cut is behind it or
\* in the overlap.
LEMMA CutNotAhead ==
  ASSUME BlocksOK, UnitsOK, overlap \in Overlaps, NEW b \in Nat, NEW s \in Nat,
         NEW e \in Nat, Place(b, s), CutTo(b, s, e), NotAhead(b, s),
         NEW next \in Nat, s < next, e <= next + overlap
  PROVE  NotAhead(b, next)'
<1> DEFINE t == blocks[b].text  d == blocks[b].start  k == Len(units)
<1>1. /\ t \in Seq(Characters) /\ d \in Nat /\ overlap \in Nat
      /\ \A i \in Letters(t) : i \in 1 .. Len(t)
  BY CutFacts
<1>2. /\ blocks' = blocks /\ k \in Nat /\ DOMAIN units = 1 .. k
      /\ \/ units' = units /\ Blanks(t, s, e)
         \/ \E m, n \in Nat : WordsFrom(t, s, e, m, n) /\ Grows(PieceOf(b, m, n))
  BY CutKeeps
<1>3. overlap' = overlap
  BY DEF CutTo
<1>4. ASSUME NEW j \in DOMAIN units, units[j].block = b
      PROVE  /\ units[j].to <= d + next + overlap
             /\ \A i \in Letters(t) : next < i => units[j].from < d + i
  <2>1. units[j].to <= d + s + overlap /\ \A i \in Letters(t) : s < i => units[j].from < d + i
    BY <1>4 DEF NotAhead
  <2>2. units[j].to \in Nat
    <3>1. units[j] \in Unit
      BY DEF UnitsOK
    <3> QED BY <3>1 DEF Unit
  <2> HIDE DEF t, d
  <2> QED BY <2>1, <2>2, <1>1
<1>5. ASSUME NEW m \in Nat, NEW n \in Nat, WordsFrom(t, s, e, m, n)
      PROVE  LET v == PieceOf(b, m, n) IN
             /\ v.to <= d + next + overlap
             /\ \A i \in Letters(t) : next < i => v.from < d + i
  <2> DEFINE v == PieceOf(b, m, n)
  <2>1. v.from = d + (m - 1) /\ v.to = d + n
    BY DEF PieceOf
  <2>2. /\ s < m /\ m <= n /\ n <= e
        /\ \A i \in Letters(t) : s < i /\ i <= e => m <= i /\ i <= n
    BY <1>5 DEF WordsFrom
  <2> HIDE DEF t, d, v
  <2>3. v.to <= d + next + overlap
    BY <2>1, <2>2, <1>1
  <2>4. ASSUME NEW i \in Letters(t), next < i
        PROVE  v.from < d + i
    <3>1. i \in Nat /\ s < i
      BY <2>4, <1>1
    <3>2. m <= i
      BY <3>1, <2>2
    <3> QED BY <3>1, <3>2, <2>1, <1>1
  <2> QED BY <2>3, <2>4 DEF v
<1>6. CASE units' = units
  BY <1>2, <1>3, <1>4, <1>6 DEF NotAhead
<1>7. ASSUME NEW m \in Nat, NEW n \in Nat, WordsFrom(t, s, e, m, n),
             Grows(PieceOf(b, m, n))
      PROVE  NotAhead(b, next)'
  <2>0. /\ DOMAIN units' = 1 .. k + 1 /\ \A j \in 1 .. k : units'[j] = units[j]
        /\ units'[k + 1] = PieceOf(b, m, n)
    BY <1>7 DEF Grows
  <2> HIDE DEF t, d, k
  <2>1. ASSUME NEW j \in DOMAIN units', units'[j].block = b
        PROVE  /\ units'[j].to <= d + next + overlap
               /\ \A i \in Letters(t) : next < i => units'[j].from < d + i
    <3>1. CASE j = k + 1
      BY <3>1, <1>5, <1>7, <2>0
    <3>2. CASE j \in 1 .. k
      <4>1. j \in DOMAIN units /\ units'[j] = units[j]
        BY <3>2, <1>2, <2>0
      <4> QED BY <4>1, <2>1, <1>4
    <3> QED BY <3>1, <3>2, <1>2, <2>0
  <2> QED BY <2>1, <1>2, <1>3 DEF NotAhead, t, d
<1> QED BY <1>2, <1>6, <1>7

\* If the next place is in the same block, a unit that was just repeated is not cut a
\* third time: the next piece begins after it or has a letter more.
LEMMA CutNoThird ==
  ASSUME BlocksOK, UnitsOK, overlap \in Overlaps, NEW b \in Nat, NEW s \in Nat,
         NEW e \in Nat, Place(b, s), CutTo(b, s, e), NotAhead(b, s), NoThird(b, s),
         e < Len(blocks[b].text),
         NEW next \in Nat, s < next, next <= e, e <= next + overlap
  PROVE  NoThird(b, next)'
<1> DEFINE t == blocks[b].text  d == blocks[b].start  k == Len(units)
<1>1. /\ t \in Seq(Characters) /\ d \in Nat /\ overlap \in Nat /\ Len(t) \in Nat
      /\ \A i \in Letters(t) : i \in 1 .. Len(t)
      /\ Len(t) \in Letters(t) /\ s < Len(t) /\ s < e
      /\ 2 * overlap < MaxChars /\ MaxChars \in Nat
  BY CutFacts
<1>2. /\ blocks' = blocks /\ k \in Nat /\ DOMAIN units = 1 .. k
      /\ \/ units' = units /\ Blanks(t, s, e)
         \/ \E m, n \in Nat : WordsFrom(t, s, e, m, n) /\ Grows(PieceOf(b, m, n))
  BY CutKeeps
<1>3. e = PieceEnd(t, s)
  BY DEF CutTo
<1>4. e < Len(t)
  OBVIOUS
<1>5. CASE units' = units /\ Blanks(t, s, e)
  <2> SUFFICES ASSUME k >= 2, units[k].block = b, units[k - 1] = units[k]
               PROVE  units[k].from < d + next
    BY <1>2, <1>5 DEF NoThird
  <2>1. \/ units[k].from < d + s
        \/ \E i \in Letters(t) : i <= e /\ units[k].to < d + i
    BY <1>3 DEF NoThird
  <2>2. units[k].from \in Nat /\ units[k].to \in Nat /\ units[k].from < units[k].to
    <3>1. k \in DOMAIN units
      BY <1>2
    <3>2. units[k] \in Unit /\ InBlock(units[k])
      BY <3>1 DEF UnitsOK
    <3> QED BY <3>2 DEF Unit, InBlock
  <2>3. \A i \in Letters(t) : i <= e => i <= s
    BY <1>1, <1>5 DEF Blanks
  <2> HIDE DEF t, d, k
  <2>4. \/ units[k].from < d + s
        \/ \E i \in Letters(t) : i <= s /\ units[k].to < d + i
    BY <2>1, <2>3
  <2>5. units[k].from < d + s
    <3>1. ASSUME NEW i \in Letters(t), i <= s, units[k].to < d + i
          PROVE  units[k].from < d + s
      <4>1. i \in Nat /\ d \in Nat
        BY <1>1
      <4> QED BY <4>1, <3>1, <2>2
    <3> QED BY <3>1, <2>4
  <2> QED BY <2>2, <2>5, <1>1
<1>6. ASSUME NEW m \in Nat, NEW n \in Nat, WordsFrom(t, s, e, m, n),
             Grows(PieceOf(b, m, n))
      PROVE  NoThird(b, next)'
  <2> DEFINE v == PieceOf(b, m, n)
  <2>1. v.from = d + (m - 1) /\ v.to = d + n /\ v.block = b
    BY DEF PieceOf
  <2>2. s < m /\ m <= n /\ n <= e
    BY <1>6 DEF WordsFrom
  <2> SUFFICES ASSUME k >= 1, units[k] = v, ~ (v.from < d + next)
               PROVE  \E i \in Letters(t) : i <= PieceEnd(t, next) /\ v.to < d + i
    <3>0. /\ Len(units') = k + 1 /\ \A j \in 1 .. k : units'[j] = units[j]
          /\ units'[k + 1] = v
      BY <1>6 DEF Grows
    <3>1. k + 1 >= 2 => units'[k] = units[k]
      BY <1>2, <3>0
    <3>2. k + 1 - 1 = k
      BY <1>2
    <3>3. k + 1 >= 2 => k >= 1
      BY <1>2
    <3> QED BY <3>0, <3>1, <3>2, <3>3, <1>2 DEF NoThird
  <2>3. v.to <= d + s + overlap
    <3>1. k \in DOMAIN units
      BY <1>2
    <3> QED BY <3>1, <2>1 DEF NotAhead
  <2> HIDE DEF t, d, k, v
  <2>15. d \in Nat /\ overlap \in Nat
    BY <1>1
  <2>16. ~ (d + (m - 1) < d + next) /\ d + n <= d + s + overlap
    BY <2>1, <2>3
  <2>17. next <= m - 1
    BY <2>15, <2>16
  <2>18. n <= s + overlap
    BY <2>15, <2>16
  <2>4. next <= m - 1 /\ n <= s + overlap
    BY <2>17, <2>18
  <2>5. e < s + MaxChars /\ overlap >= 2
    BY <2>2, <2>4, <1>1
  <2>6. /\ s + (MaxChars \div 2) < e /\ t[e + 1] = Blank
        /\ \A j \in (e + 1) .. (s + MaxChars) : j < Len(t) => t[j + 1] # Blank
    <3> DEFINE f == PieceEnd(t, s)
    <3>1. \/ f = Len(t)
          \/ f = s + MaxChars
          \/ /\ s + (MaxChars \div 2) < f /\ t[f + 1] = Blank
             /\ \A j \in (f + 1) .. (s + MaxChars) : j < Len(t) => t[j + 1] # Blank
      BY <1>1, PieceEndBounds
    <3>2. f = e
      BY <1>3
    <3> HIDE DEF f
    <3>3. e # Len(t) /\ e # s + MaxChars
      BY <2>5, <1>1, <1>4
    <3> QED BY <3>1, <3>2, <3>3
  <2>7. DOMAIN t = 1 .. Len(t)
    BY <1>1
  <2>8. e + 2 <= Len(t)
    <3>1. t[Len(t)] # Blank
      BY <1>1 DEF Letters
    <3> QED BY <3>1, <2>6, <1>1, <1>4
  <2>9. t[e + 2] # Blank
    <3>1. e + 1 \in (e + 1) .. (s + MaxChars) /\ e + 1 < Len(t) /\ (e + 1) + 1 = e + 2
      BY <2>5, <2>8, <1>1
    <3> QED BY <3>1, <2>6
  <2>10. e + 2 \in Letters(t)
    BY <2>7, <2>8, <2>9, <1>1 DEF Letters
  <2> DEFINE f == PieceEnd(t, next)
  <2>11. next < Len(t)
    BY <1>1, <1>4
  <2>12. /\ f \in Nat
         /\ f = Len(t) \/ f = next + MaxChars
            \/ (next + (MaxChars \div 2) < f /\ t[f + 1] = Blank)
    BY <2>11, <1>1, PieceEndBounds
  <2> HIDE DEF f
  <2>13. e + 2 <= f
    <3>1. CASE f = Len(t)
      BY <3>1, <2>8
    <3>2. CASE f = next + MaxChars
      BY <3>2, <2>5, <1>1
    <3>3. CASE next + (MaxChars \div 2) < f /\ t[f + 1] = Blank
      <4>1. f >= e + 1
        BY <3>3, <2>12, <1>1, OverlapsAreShort, HalfTheLimit
      <4>2. f # e + 1
        BY <3>3, <2>9
      <4> QED BY <4>1, <4>2, <2>12
    <3> QED BY <3>1, <3>2, <3>3, <2>12
  <2>14. v.to < d + (e + 2)
    BY <2>1, <2>2, <1>1
  <2> QED BY <2>10, <2>13, <2>14 DEF f
<1> QED BY <1>2, <1>5, <1>6

\* The invariant holds after a cut of splitBlock.
LEMMA SplitBlockInv ==
  ASSUME ChunkInv, splitBlock
  PROVE  ChunkInv'
<1>13. PICK b \in Nat, s \in Nat : b = at[1] /\ s = at[2]
  BY DEF ChunkInv
<1> DEFINE t == blocks[b].text
<1>1. /\ BlocksOK /\ UnitsOK /\ SplitOK /\ overlap \in Overlaps /\ drafts \in Drafts
      /\ chunks = <<>> /\ phase = "split" /\ b <= Len(blocks)
  BY <1>13 DEF ChunkInv, splitBlock
<1>2. /\ phase' = phase /\ drafts' = drafts /\ overlap' = overlap /\ blocks' = blocks
      /\ chunks' = chunks
  BY DEF splitBlock
<1>3. PICK e \in Nat : CutTo(b, s, e)
  BY <1>13, CutHappens
<1>4. Place(b, s)
  BY <1>13, CutHappens
<1>5. /\ NotPast(b, s) /\ Reached(b, s) /\ NotAhead(b, s) /\ NoThird(b, s)
  BY <1>1, <1>13 DEF SplitOK
<1>6. at' = IF e >= Len(t) THEN <<b + 1, 0>> ELSE <<b, NextStart(s, e)>>
  BY <1>3 DEF CutTo
<1>7. /\ b \in 1 .. Len(blocks) /\ Len(blocks) \in Nat /\ Len(t) \in Nat
      /\ s < e /\ e <= Len(t) /\ overlap \in Nat /\ b \in DOMAIN blocks
  BY <1>1, <1>3, <1>4, CutFacts
<1>8. e < Len(t) => Len(t) > MaxChars
  BY <1>3 DEF CutTo
<1> HIDE DEF t
<1>9. UnitsOK' /\ Reached(b, e)'
  BY <1>1, <1>3, <1>4, <1>5, CutUnits, CutReached
<1>10. \A j \in DOMAIN units' : units'[j].block <= b
  <2>1. CASE units' = units
    BY <2>1, <1>5 DEF NotPast
  <2>2. ASSUME NEW m \in Nat, NEW n \in Nat, Grows(PieceOf(b, m, n))
        PROVE  \A j \in DOMAIN units' : units'[j].block <= b
    <3> TAKE j \in DOMAIN units'
    <3>1. PieceOf(b, m, n).block = b
      BY DEF PieceOf
    <3>2. DOMAIN units = 1 .. Len(units) /\ Len(units) \in Nat
      BY <1>1 DEF UnitsOK
    <3>3. CASE j = Len(units) + 1
      BY <3>1, <3>3, <2>2 DEF Grows
    <3>4. CASE j \in 1 .. Len(units)
      <4>1. j \in DOMAIN units /\ units'[j] = units[j]
        BY <3>2, <3>4, <2>2 DEF Grows
      <4> QED BY <4>1, <1>5 DEF NotPast
    <3> QED BY <3>2, <3>3, <3>4, <2>2 DEF Grows
  <2> QED BY <2>1, <2>2, <1>1, <1>3, CutKeeps
<1>11. CASE e >= Len(t)
  <2>1. at' = <<b + 1, 0>> /\ e = Len(t)
    BY <1>6, <1>7, <1>11
  <2>2. at'[1] = b + 1 /\ at'[2] = 0 /\ at' \in (Nat \ {0}) \X Nat
    BY <2>1, <1>7
  <2>3. Reached(b + 1, 0)'
    <3> SUFFICES ASSUME NEW c \in DOMAIN blocks, NEW i \in Letters(blocks[c].text),
                        c < b + 1 \/ (c = b + 1 /\ i <= 0)
                 PROVE  Behind(c, i)'
      BY <1>2 DEF Reached
    <3>1. i \in 1 .. Len(blocks[c].text) /\ Len(blocks[c].text) \in Nat /\ c \in Nat
      <4>1. c \in 1 .. Len(blocks) /\ i \in 1 .. Len(blocks[c].text)
            /\ Len(blocks[c].text) \in Nat
        BY <1>1, BlockFacts
      <4> QED BY <4>1, <1>7
    <3>2. c < b \/ (c = b /\ i <= e)
      <4>1. CASE c = b
        <5>1. i <= Len(t)
          BY <4>1, <3>1 DEF t
        <5> QED BY <5>1, <4>1, <2>1
      <4>2. CASE c # b
        BY <4>2, <3>1, <1>7
      <4> QED BY <4>1, <4>2
    <3> QED BY <3>2, <1>2, <1>9 DEF Reached
  <2>4. \A j \in DOMAIN units' : units'[j].block < b + 1 /\ units'[j].block # b + 1
                                 /\ units'[j].block <= b + 1
    <3> TAKE j \in DOMAIN units'
    <3>1. units'[j].block <= b /\ units'[j].block \in Nat
      <4>1. units'[j] \in Unit
        BY <1>9 DEF UnitsOK
      <4> QED BY <4>1, <1>10 DEF Unit
    <3> QED BY <3>1, <1>7
  <2>5. NotAhead(b + 1, 0)'
    BY <2>4 DEF NotAhead
  <2>6. NoThird(b + 1, 0)'
    <3>1. Len(units') >= 2 => Len(units') \in DOMAIN units'
      BY <1>9 DEF UnitsOK
    <3> QED BY <2>4, <3>1 DEF NoThird
  <2>7. SplitOK'
    <3>1. /\ b + 1 \in 1 .. Len(blocks) + 1
          /\ b + 1 <= Len(blocks) => 0 < Len(blocks[b + 1].text)
      <4>1. b + 1 <= Len(blocks) => b + 1 \in DOMAIN blocks
        BY <1>1, <1>7 DEF BlocksOK
      <4> QED BY <4>1, <1>1, <1>7, BlockFacts
    <3> QED BY <3>1, <2>2, <2>3, <2>4, <2>5, <2>6, <1>2 DEF SplitOK, NotPast
  <2> QED BY <1>1, <1>2, <1>9, <2>2, <2>7 DEF ChunkInv, BlocksOK
<1>12. CASE e < Len(t)
  <2>9. NextStart(s, e) \in Nat
    BY <1>1, <1>7, NextStartIs
  <2>10. PICK next \in Nat : next = NextStart(s, e)
    BY <2>9
  <2>1. at' = <<b, next>>
    BY <1>6, <1>7, <1>12, <2>10
  <2>2. next \in Nat /\ s < next /\ next <= e /\ e - overlap <= next
    BY <1>1, <1>7, <2>10, NextStartIs
  <2>3. e <= next + overlap
    BY <2>2, <1>7
  <2>4. at'[1] = b /\ at'[2] = next /\ at' \in (Nat \ {0}) \X Nat
    BY <2>1, <2>2, <1>7
  <2>5. Reached(b, next)'
    <3> SUFFICES ASSUME NEW c \in DOMAIN blocks, NEW i \in Letters(blocks[c].text),
                        c < b \/ (c = b /\ i <= next)
                 PROVE  Behind(c, i)'
      BY <1>2 DEF Reached
    <3>1. i \in 1 .. Len(blocks[c].text) /\ Len(blocks[c].text) \in Nat
      BY <1>1, BlockFacts
    <3>2. c < b \/ (c = b /\ i <= e)
      BY <3>1, <2>2
    <3> QED BY <3>2, <1>2, <1>9 DEF Reached
  <2>6. NotAhead(b, next)'
    BY <1>1, <1>3, <1>4, <1>5, <2>2, <2>3, CutNotAhead
  <2>7. NoThird(b, next)'
    BY <1>1, <1>3, <1>4, <1>5, <1>12, <2>2, <2>3, CutNoThird DEF t
  <2>8. SplitOK'
    <3>1. /\ b \in 1 .. Len(blocks) + 1 /\ ~ (b > Len(blocks))
          /\ next < Len(t) /\ next # 0 /\ ~ (Len(t) <= MaxChars)
      BY <1>7, <1>8, <1>12, <2>2, HalfTheLimit
    <3> QED BY <3>1, <2>4, <2>5, <2>6, <2>7, <1>2, <1>10 DEF SplitOK, NotPast, t
  <2> QED BY <1>1, <1>2, <1>9, <2>4, <2>8 DEF ChunkInv, BlocksOK
<1> QED BY <1>7, <1>11, <1>12

\* The invariant holds when the last block is split and the units are grouped.
LEMMA SplitDoneInv ==
  ASSUME ChunkInv, SplitDone
  PROVE  ChunkInv'
<1>1. /\ BlocksOK /\ UnitsOK /\ SplitOK /\ overlap \in Overlaps /\ drafts \in Drafts
      /\ chunks = <<>> /\ at[1] > Len(blocks)
  BY DEF ChunkInv, SplitDone
<1>2. /\ phase' = "group" /\ at' = <<1, 0>> /\ drafts' = drafts /\ overlap' = overlap
      /\ blocks' = blocks /\ units' = units /\ chunks' = chunks
  BY DEF SplitDone
<1>3. BlocksOK' /\ UnitsOK'
  BY <1>1, <1>2 DEF BlocksOK, UnitsOK, InBlock
<1>4. ASSUME NEW c \in DOMAIN blocks, NEW i \in Letters(blocks[c].text)
      PROVE  Behind(c, i)'
  <2>1. c < at[1]
    <3>1. c \in 1 .. Len(blocks) /\ Len(blocks) \in Nat
      BY <1>1, BlockFacts
    <3>2. at[1] \in 1 .. Len(blocks) + 1
      BY <1>1 DEF SplitOK
    <3> QED BY <3>1, <3>2, <1>1
  <2>2. Behind(c, i)
    BY <2>1, <1>1 DEF SplitOK, Reached
  <2> QED BY <2>2, <1>2 DEF Behind, Holds
<1>5. at'[1] = 1 /\ at' \in (Nat \ {0}) \X Nat /\ chunks' = <<>> /\ Len(units) \in Nat
  BY <1>1, <1>2 DEF UnitsOK
<1>6. GroupOK'
  BY <1>2, <1>4, <1>5 DEF GroupOK
<1> QED BY <1>1, <1>2, <1>3, <1>5, <1>6 DEF ChunkInv

-----------------------------------------------------------------------------
(***************************************************************************)
(* Grouping.  CharCount is only needed of one unit and of two.             *)
(***************************************************************************)
\* The characters of a chunk of one unit are those of its text.
LEMMA CountOfOne ==
  ASSUME NEW u \in Unit
  PROVE  CharCount(<<u>>) = u.to - u.from
<1> DEFINE g == <<u>>
           sum[i \in 0 .. Len(g)] ==
             IF i = 0 THEN 0
             ELSE sum[i - 1] + (g[i].to - g[i].from) + (IF i > 1 THEN 2 ELSE 0)
<1>1. CharCount(g) = sum[Len(g)]
  BY DEF CharCount
<1>2. Len(g) = 1 /\ g[1] = u /\ u.to \in Nat /\ u.from \in Nat
  BY DEF Unit
<1> DEFINE f == [i \in 0 .. Len(g) |-> IF i = 0 THEN 0 ELSE u.to - u.from]
<1>3. f = [i \in 0 .. Len(g) |->
             IF i = 0 THEN 0
             ELSE f[i - 1] + (g[i].to - g[i].from) + (IF i > 1 THEN 2 ELSE 0)]
  <2> SUFFICES ASSUME NEW i \in 0 .. Len(g)
               PROVE  f[i] = IF i = 0 THEN 0
                             ELSE f[i - 1] + (g[i].to - g[i].from) + (IF i > 1 THEN 2 ELSE 0)
    OBVIOUS
  <2>1. CASE i = 0
    BY <2>1
  <2>2. CASE i = 1
    <3>1. f[0] = 0 /\ f[1] = u.to - u.from
      BY <1>2
    <3> QED BY <3>1, <2>2, <1>2
  <2> QED BY <2>1, <2>2, <1>2
<1>4. sum = [i \in 0 .. Len(g) |->
               IF i = 0 THEN 0
               ELSE sum[i - 1] + (g[i].to - g[i].from) + (IF i > 1 THEN 2 ELSE 0)]
  <2> HIDE DEF f
  <2> QED BY <1>3, Zenon DEF sum
<1> HIDE DEF sum, g
<1>5. sum[0] = 0
  BY <1>2, <1>4
<1>6. sum[1] = sum[0] + (u.to - u.from) + 0
  BY <1>2, <1>4
<1> QED BY <1>1, <1>2, <1>5, <1>6 DEF g

\* The characters of a chunk of two units are those of both and the break between them.
LEMMA CountOfTwo ==
  ASSUME NEW u \in Unit, NEW v \in Unit
  PROVE  CharCount(<<u, v>>) = (u.to - u.from) + (v.to - v.from) + 2
<1> DEFINE g == <<u, v>>
           sum[i \in 0 .. Len(g)] ==
             IF i = 0 THEN 0
             ELSE sum[i - 1] + (g[i].to - g[i].from) + (IF i > 1 THEN 2 ELSE 0)
<1>1. CharCount(g) = sum[Len(g)]
  BY DEF CharCount
<1>2. /\ Len(g) = 2 /\ g[1] = u /\ g[2] = v /\ u.to \in Nat /\ u.from \in Nat
      /\ v.to \in Nat /\ v.from \in Nat
  BY DEF Unit
<1> DEFINE f == [i \in 0 .. Len(g) |->
                   IF i = 0 THEN 0
                   ELSE IF i = 1 THEN u.to - u.from
                   ELSE (u.to - u.from) + (v.to - v.from) + 2]
<1>3. f = [i \in 0 .. Len(g) |->
             IF i = 0 THEN 0
             ELSE f[i - 1] + (g[i].to - g[i].from) + (IF i > 1 THEN 2 ELSE 0)]
  <2> SUFFICES ASSUME NEW i \in 0 .. Len(g)
               PROVE  f[i] = IF i = 0 THEN 0
                             ELSE f[i - 1] + (g[i].to - g[i].from) + (IF i > 1 THEN 2 ELSE 0)
    OBVIOUS
  <2>1. CASE i = 0
    BY <2>1
  <2>2. CASE i = 1
    <3>1. f[0] = 0 /\ f[1] = u.to - u.from
      BY <1>2
    <3> QED BY <3>1, <2>2, <1>2
  <2>3. CASE i = 2
    <3>1. f[1] = u.to - u.from /\ f[2] = (u.to - u.from) + (v.to - v.from) + 2
      BY <1>2
    <3> QED BY <3>1, <2>3, <1>2
  <2> QED BY <2>1, <2>2, <2>3, <1>2
<1>4. sum = [i \in 0 .. Len(g) |->
               IF i = 0 THEN 0
               ELSE sum[i - 1] + (g[i].to - g[i].from) + (IF i > 1 THEN 2 ELSE 0)]
  <2> HIDE DEF f
  <2> QED BY <1>3, Zenon DEF sum
<1> HIDE DEF sum, g
<1>5. sum[0] = 0
  BY <1>2, <1>4
<1>6. sum[1] = sum[0] + (u.to - u.from) + 0
  BY <1>2, <1>4
<1>7. sum[2] = sum[1] + (v.to - v.from) + 2
  BY <1>2, <1>4
<1> QED BY <1>1, <1>2, <1>5, <1>6, <1>7 DEF g

\* Every unit is one, with its place in its block.
LEMMA UnitFacts ==
  ASSUME UnitsOK, NEW i \in 1 .. Len(units)
  PROVE  LET u == units[i] IN
         /\ i \in DOMAIN units /\ u \in Unit /\ InBlock(u)
         /\ u.block \in Nat /\ u.from \in Nat /\ u.to \in Nat /\ u.from < u.to
<1>1. i \in DOMAIN units /\ units[i] \in Unit /\ InBlock(units[i])
  BY DEF UnitsOK
<1> QED BY <1>1 DEF Unit, InBlock

\* Units follow each other; equal ones are neighbours, and two of them have no third.
LEMMA UnitsInOrder ==
  ASSUME UnitsOK, NEW i \in 1 .. Len(units), NEW j \in 1 .. Len(units), i <= j
  PROVE  Before(units[i], units[j])
<1>1. CASE i = j
  BY <1>1, UnitFacts DEF Before
<1>2. CASE i < j
  <2>1. i \in DOMAIN units /\ j \in DOMAIN units
    BY UnitFacts
  <2> QED BY <1>2, <2>1 DEF UnitsOK
<1> QED BY <1>1, <1>2

\* Equal units are neighbours.
LEMMA EqualUnitsAreNeighbours ==
  ASSUME UnitsOK, NEW f \in 1 .. Len(units), NEW n \in 1 .. Len(units) - 1, f <= n,
         units[f] = units[n + 1]
  PROVE  f = n
<1>1. Len(units) \in Nat /\ units \in Seq(Unit)
  BY DEF UnitsOK
<1> SUFFICES ASSUME f < n
             PROVE  FALSE
  BY <1>1
<1>2. n - 1 \in 1 .. Len(units) - 2 /\ n - 1 + 1 = n /\ n - 1 + 2 = n + 1
  BY <1>1
<1>3. ASSUME NEW i \in f .. n
      PROVE  units[i] = units[n + 1]
  <2>1. i \in 1 .. Len(units) /\ n + 1 \in 1 .. Len(units) /\ f <= i /\ i <= n + 1
    BY <1>1
  <2>2. Before(units[f], units[i]) /\ Before(units[i], units[n + 1])
    BY <2>1, UnitsInOrder
  <2>3. /\ units[i] \in Unit /\ units[n + 1] \in Unit
        /\ units[i].block \in Nat /\ units[i].from \in Nat /\ units[i].to \in Nat
        /\ units[n + 1].block \in Nat /\ units[n + 1].from \in Nat /\ units[n + 1].to \in Nat
    BY <2>1, UnitFacts
  <2>4. /\ units[i].block = units[n + 1].block /\ units[i].from = units[n + 1].from
        /\ units[i].to = units[n + 1].to
    <3>1. /\ units[n + 1].block <= units[i].block /\ units[i].block <= units[n + 1].block
          /\ units[n + 1].from <= units[i].from /\ units[i].from <= units[n + 1].from
          /\ units[n + 1].to <= units[i].to /\ units[i].to <= units[n + 1].to
      BY <2>2 DEF Before
    <3>2. \A x, y \in Nat : x <= y /\ y <= x => x = y
      OBVIOUS
    <3> QED BY <3>1, <3>2, <2>3
  <2> QED BY <2>3, <2>4 DEF Unit
<1>4. units[n - 1] = units[n + 1] /\ units[n] = units[n + 1]
  <2>1. n - 1 \in f .. n /\ n \in f .. n
    BY <1>1
  <2> QED BY <2>1, <1>3
<1> QED BY <1>2, <1>4 DEF UnitsOK

-----------------------------------------------------------------------------
\* What a chunk is after a unit was added at its end.
LEMMA AppendUnit ==
  ASSUME NEW c \in Seq(Unit), NEW u \in Unit
  PROVE  /\ Append(c, u) \in Seq(Unit) /\ Append(c, u) # <<>>
         /\ Len(Append(c, u)) = Len(c) + 1
         /\ \A j \in 1 .. Len(c) : Append(c, u)[j] = c[j]
         /\ Append(c, u)[Len(c) + 1] = u
BY AppendProperties

\* A unit is a chunk.
LEMMA OneUnitChunk ==
  ASSUME UnitsOK, NEW i \in 1 .. Len(units)
  PROVE  ChunkOK(<<units[i]>>)
<1> DEFINE u == units[i]
<1>1. u \in Unit /\ InBlock(u)
  BY UnitFacts
<1>2. CharCount(<<u>>) <= MaxChars
  BY <1>1, CountOfOne DEF InBlock
<1> HIDE DEF u
<1>3. <<u>> # <<>> /\ DOMAIN <<u>> = {1} /\ <<u>>[1] = u
  OBVIOUS
<1> QED BY <1>2, <1>3 DEF ChunkOK, u

\* The last chunk holds the units up to the current one.
LastChunk(c, n, f) ==
  /\ Len(c) = n + 1 - f
  /\ \A j \in DOMAIN c : c[j] = units[f + j - 1]

\* The first and the last unit of the last chunk.
LEMMA LastChunkEnds ==
  ASSUME UnitsOK, NEW n \in 1 .. Len(units), NEW f \in 1 .. n, NEW c \in Seq(Unit),
         LastChunk(c, n, f)
  PROVE  c # <<>> /\ Len(c) \in Nat \ {0} /\ c[1] = units[f] /\ c[Len(c)] = units[n]
<1>1. Len(c) = n + 1 - f /\ DOMAIN c = 1 .. Len(c) /\ n \in Nat /\ f \in Nat /\ f <= n
  BY DEF LastChunk, UnitsOK
<1>2. 1 \in DOMAIN c /\ Len(c) \in DOMAIN c /\ f + 1 - 1 = f /\ f + Len(c) - 1 = n
  BY <1>1
<1> QED BY <1>1, <1>2 DEF LastChunk

\* A unit is repeated as a chunk only where the two do not fit, or are a heading's.
LEMMA RepeatedChunk ==
  ASSUME BlocksOK, UnitsOK, overlap \in Overlaps, NEW n \in 1 .. Len(units) - 1,
         NEW f \in 1 .. n, NEW c \in Seq(Unit), LastChunk(c, n, f), c[1] = units[n + 1],
         ~ (Fits(c, units[n + 1]) /\ sameStructure(c[Len(c)], units[n + 1]))
  PROVE  Repeats(c[1])
<1> DEFINE u == units[n + 1]
<1>1. Len(units) \in Nat /\ n + 1 \in 1 .. Len(units)
  BY DEF UnitsOK
<1>2. c[1] = units[f] /\ f \in 1 .. Len(units) /\ f <= n
  <2>1. n \in 1 .. Len(units)
    BY <1>1
  <2> QED BY <2>1, <1>1, LastChunkEnds
<1>3. f = n
  BY <1>2, EqualUnitsAreNeighbours
<1>4. u \in Unit /\ u.to \in Nat /\ u.from \in Nat
  BY <1>1, UnitFacts
<1>5. u.to - u.from <= overlap
  <2>1. units[n] = units[n + 1]
    BY <1>2, <1>3
  <2> QED BY <2>1 DEF UnitsOK
<1> HIDE DEF u
<1>6. Len(c) = 1 /\ c[1] = u
  BY <1>3 DEF u, LastChunk
<1>7. Append(c, u) = <<u, u>>
  <2>1. c = <<u>>
    <3>1. <<u>> \in Seq(Unit) /\ Len(<<u>>) = 1 /\ <<u>>[1] = u
      BY <1>4
    <3>2. \A i \in 1 .. Len(c) : c[i] = <<u>>[i]
      BY <1>6, <3>1
    <3> QED BY <1>6, <3>1, <3>2, SeqEqual
  <2>2. Append(<<u>>, u) = <<u, u>>
    <3>1. <<u>> \in Seq(Unit) /\ Len(<<u>>) = 1 /\ <<u>>[1] = u
      BY <1>4
    <3>2. /\ Append(<<u>>, u) \in Seq(Unit) /\ Len(Append(<<u>>, u)) = 2
          /\ Append(<<u>>, u)[1] = u /\ Append(<<u>>, u)[2] = u
      <4>1. /\ Append(<<u>>, u) \in Seq(Unit)
            /\ Len(Append(<<u>>, u)) = Len(<<u>>) + 1
            /\ \A i \in 1 .. Len(<<u>>) : Append(<<u>>, u)[i] = <<u>>[i]
            /\ Append(<<u>>, u)[Len(<<u>>) + 1] = u
        BY <3>1, <1>4, AppendProperties
      <4> QED BY <4>1, <3>1
    <3>3. <<u, u>> \in Seq(Unit) /\ Len(<<u, u>>) = 2 /\ <<u, u>>[1] = u /\ <<u, u>>[2] = u
      BY <1>4
    <3>4. \A i \in 1 .. Len(Append(<<u>>, u)) : Append(<<u>>, u)[i] = <<u, u>>[i]
      <4> TAKE i \in 1 .. Len(Append(<<u>>, u))
      <4>1. i = 1 \/ i = 2
        BY <3>2
      <4> QED BY <4>1, <3>2, <3>3
    <3> QED BY <3>2, <3>3, <3>4, SeqEqual
  <2> QED BY <2>1, <2>2
<1>8. CharCount(Append(c, u)) = (u.to - u.from) + (u.to - u.from) + 2
  BY <1>4, <1>7, CountOfTwo
<1>9. overlap \in Nat /\ 2 * overlap < MaxChars /\ MaxChars \in Nat
  BY OverlapsAreShort, HalfTheLimit
<1>10. CASE ~ Fits(c, u)
  <2>1. ~ (CharCount(Append(c, u)) <= MaxChars)
    BY <1>10 DEF Fits
  <2>2. 2 * overlap + 1 = MaxChars
    BY <2>1, <1>4, <1>5, <1>8, <1>9
  <2> QED BY <2>2 DEF Repeats
<1>11. CASE ~ sameStructure(c[Len(c)], u)
  <2>1. blocks[u.block].heading
    BY <1>6, <1>11 DEF sameStructure
  <2> QED BY <2>1, <1>6 DEF Repeats
<1> QED BY <1>10, <1>11 DEF u

\* The current unit joins the last chunk.
LEMMA Joins ==
  ASSUME BlocksOK, UnitsOK, GroupOK, at \in (Nat \ {0}) \X Nat,
         NEW n \in Nat, at[1] = n + 1, n + 1 <= Len(units), chunks # <<>>,
         Fits(chunks[Len(chunks)], units[n + 1]),
         sameStructure(chunks[Len(chunks)][Len(chunks[Len(chunks)])], units[n + 1]),
         chunks' = [chunks EXCEPT ![Len(chunks)] = Append(@, units[n + 1])],
         at' = <<n + 2, 0>>, blocks' = blocks, units' = units, overlap' = overlap
  PROVE  GroupOK'
<1>1. PICK K \in Nat : K = Len(chunks)
  BY DEF GroupOK
<1>2. PICK c : c = chunks[K]
  OBVIOUS
<1>3. PICK u : u = units[n + 1]
  OBVIOUS
<1>4. /\ chunks \in Seq(Seq(Unit)) /\ K >= 1 /\ K \in DOMAIN chunks
      /\ DOMAIN chunks = 1 .. K /\ c \in Seq(Unit)
  <2>1. chunks \in Seq(Seq(Unit))
    BY DEF GroupOK
  <2>2. DOMAIN chunks = 1 .. K /\ K >= 1
    BY <2>1, <1>1
  <2>3. c \in Seq(Unit) /\ K \in DOMAIN chunks
    BY <2>1, <2>2, <1>2
  <2> QED BY <2>1, <2>2, <2>3
<1>5. n > 0 /\ n \in 1 .. Len(units) /\ n + 1 \in 1 .. Len(units)
  <2>1. n + 1 - 1 = n /\ Len(units) \in Nat
    BY DEF UnitsOK
  <2>2. n # 0
    BY <2>1 DEF GroupOK
  <2> QED BY <2>1, <2>2
<1>6. PICK f \in 1 .. n : LastChunk(c, n, f)
  <2>1. n + 1 - 1 = n
    OBVIOUS
  <2> QED BY <2>1, <1>1, <1>2, <1>5 DEF GroupOK, LastChunk
<1>7. c # <<>> /\ Len(c) \in Nat \ {0} /\ c[1] = units[f] /\ c[Len(c)] = units[n]
  BY <1>4, <1>5, <1>6, LastChunkEnds
<1>8. u \in Unit /\ u.to \in Nat
  BY <1>3, <1>5, UnitFacts
<1>9. PICK c2 : c2 = Append(c, u)
  OBVIOUS
<1>10. /\ c2 \in Seq(Unit) /\ Len(c2) = Len(c) + 1 /\ c2 # <<>>
       /\ \A j \in 1 .. Len(c) : c2[j] = c[j]
       /\ c2[Len(c) + 1] = u
  <2>1. c \in Seq(Unit) /\ u \in Unit
    BY <1>4, <1>8
  <2>2. /\ Append(c, u) \in Seq(Unit) /\ Append(c, u) # <<>>
        /\ Len(Append(c, u)) = Len(c) + 1
        /\ \A j \in 1 .. Len(c) : Append(c, u)[j] = c[j]
        /\ Append(c, u)[Len(c) + 1] = u
    BY ONLY <2>1, AppendUnit
  <2> QED BY <2>2, <1>9
<1>11. /\ chunks' \in Seq(Seq(Unit)) /\ Len(chunks') = K /\ DOMAIN chunks' = 1 .. K
       /\ chunks'[K] = c2 /\ \A k \in 1 .. K - 1 : chunks'[k] = chunks[k]
  <2>1. chunks' = [chunks EXCEPT ![K] = c2]
    BY <1>1, <1>2, <1>3, <1>9
  <2>2. chunks \in [1 .. K -> Seq(Unit)]
    BY <1>1, <1>4
  <2>3. chunks' \in [1 .. K -> Seq(Unit)]
    BY <2>1, <2>2, <1>10
  <2>4. chunks' \in Seq(Seq(Unit)) /\ Len(chunks') = K
    BY <2>3
  <2> QED BY <2>1, <2>2, <2>3, <2>4, <1>4
<1>12. ChunkOK(c) /\ CharCount(c2) <= MaxChars
       /\ blocks[c[Len(c)].block].page = blocks[u.block].page /\ ~ blocks[u.block].heading
  BY <1>1, <1>2, <1>3, <1>4, <1>9 DEF GroupOK, Fits, sameStructure
<1>13. DOMAIN c = 1 .. Len(c) /\ DOMAIN c2 = 1 .. Len(c) + 1 /\ c2[1] = c[1]
  BY <1>4, <1>7, <1>10
<1>14. ASSUME NEW j \in DOMAIN c2
       PROVE  /\ blocks[c2[j].block].page = blocks[c2[1].block].page
              /\ j > 1 => ~ blocks[c2[j].block].heading
  <2>1. CASE j \in 1 .. Len(c)
    BY <2>1, <1>10, <1>12, <1>13 DEF ChunkOK
  <2>2. CASE j = Len(c) + 1
    <3>1. Len(c) \in DOMAIN c
      BY <1>7, <1>13
    <3>2. blocks[c[Len(c)].block].page = blocks[c[1].block].page
      BY <3>1, <1>12 DEF ChunkOK
    <3> QED BY <2>2, <3>2, <1>10, <1>12, <1>13
  <2> QED BY <2>1, <2>2, <1>13, <1>7
<1>15. ChunkOK(c2)
  BY <1>10, <1>12, <1>14 DEF ChunkOK
<1>16. ASSUME NEW k \in DOMAIN chunks'
       PROVE  ChunkOK(chunks[k])'
  <2>1. CASE k = K
    <3>1. chunks'[k] = c2
      BY <2>1, <1>11
    <3> QED BY <3>1, <1>15 DEF ChunkOK
  <2>2. CASE k \in 1 .. K - 1
    <3>1. k \in DOMAIN chunks
      BY <2>2, <1>4
    <3>2. ChunkOK(chunks[k]) /\ chunks'[k] = chunks[k]
      BY <3>1, <2>2, <1>11 DEF GroupOK
    <3> QED BY <3>2 DEF ChunkOK
  <2> QED BY <2>1, <2>2, <1>11
<1>17. ASSUME NEW i \in 1 .. n + 1
       PROVE  \E k \in DOMAIN chunks' : \E j \in DOMAIN chunks'[k] : chunks'[k][j] = units[i]
  <2>1. CASE i = n + 1
    <3>1. K \in DOMAIN chunks' /\ Len(c) + 1 \in DOMAIN c2
      BY <1>4, <1>7, <1>11, <1>13
    <3>2. c2[Len(c) + 1] = units[i] /\ chunks'[K] = c2
      BY <2>1, <1>3, <1>10, <1>11
    <3> QED BY <3>1, <3>2
  <2>2. CASE i \in 1 .. n
    <3>4. PICK k \in DOMAIN chunks : \E j \in DOMAIN chunks[k] : chunks[k][j] = units[i]
      <4>1. n + 1 - 1 = n
        OBVIOUS
      <4> QED BY <4>1, <2>2 DEF GroupOK
    <3>1. PICK j \in DOMAIN chunks[k] : chunks[k][j] = units[i]
      BY <3>4
    <3>2. CASE k = K
      <4>1. j \in DOMAIN c /\ c[j] = units[i]
        BY <3>1, <3>2, <1>2
      <4>2. j \in 1 .. Len(c) /\ Len(c) \in Nat
        BY <4>1, <1>7, <1>13
      <4>3. j \in DOMAIN c2
        BY <4>2, <1>13
      <4>4. c2[j] = units[i]
        BY <4>1, <4>2, <1>10
      <4>5. K \in DOMAIN chunks' /\ chunks'[K] = c2
        BY <1>4, <1>11
      <4> QED BY <4>3, <4>4, <4>5
    <3>3. CASE k \in 1 .. K - 1
      <4>1. k \in DOMAIN chunks' /\ chunks'[k] = chunks[k]
        BY <3>3, <1>11, <1>4
      <4> QED BY <4>1, <3>1
    <3>5. k = K \/ k \in 1 .. K - 1
      BY <1>4
    <3> QED BY <3>2, <3>3, <3>5
  <2>3. i = n + 1 \/ i \in 1 .. n
    OBVIOUS
  <2> QED BY <2>1, <2>2, <2>3, Zenon
<1>18. LastChunk(c2, n + 1, f)
  <2>1. Len(c2) = (n + 1) + 1 - f
    BY <1>5, <1>6, <1>10 DEF LastChunk
  <2>2. ASSUME NEW j \in DOMAIN c2
        PROVE  c2[j] = units[f + j - 1]
    <3>1. CASE j \in 1 .. Len(c)
      BY <3>1, <1>6, <1>10, <1>13 DEF LastChunk
    <3>2. CASE j = Len(c) + 1
      <4>1. Len(c) = n + 1 - f
        BY <1>6 DEF LastChunk
      <4>2. f + j - 1 = n + 1
        BY <4>1, <3>2, <1>5
      <4> QED BY <4>2, <3>2, <1>3, <1>10
    <3> QED BY <3>1, <3>2, <1>13
  <2> QED BY <2>1, <2>2 DEF LastChunk
<1>19. ASSUME NEW k \in 1 .. K - 1
       PROVE  /\ StartOffset(chunks'[k]) <= StartOffset(chunks'[k + 1])
              /\ EndOffset(chunks'[k]) <= EndOffset(chunks'[k + 1])
              /\ chunks'[k][1] # chunks'[k + 1][1] \/ Repeats(chunks'[k][1])
  <2>1. /\ StartOffset(chunks[k]) <= StartOffset(chunks[k + 1])
        /\ EndOffset(chunks[k]) <= EndOffset(chunks[k + 1])
        /\ chunks[k][1] # chunks[k + 1][1] \/ Repeats(chunks[k][1])
    BY <1>1 DEF GroupOK
  <2>2. chunks'[k] = chunks[k]
    BY <1>11
  <2>3. CASE k + 1 \in 1 .. K - 1
    BY <2>1, <2>2, <2>3, <1>11
  <2>4. CASE k + 1 = K
    <3>1. chunks[k + 1] = c /\ chunks'[k + 1] = c2
      BY <2>4, <1>2, <1>11
    <3>2. StartOffset(c2) = StartOffset(c)
      BY <1>13 DEF StartOffset
    <3>3. EndOffset(c) = units[n].to /\ EndOffset(c2) = u.to
      BY <1>7, <1>10 DEF EndOffset
    <3>4. units[n].to <= u.to /\ units[n].to \in Nat
      <4>1. Before(units[n], units[n + 1])
        BY <1>5, UnitsInOrder
      <4> QED BY <4>1, <1>3, <1>5, UnitFacts DEF Before
    <3>5. EndOffset(chunks[k]) \in Nat
      <4>4. k \in DOMAIN chunks
        BY <1>4
      <4>1. k \in DOMAIN chunks /\ ChunkOK(chunks[k]) /\ chunks[k] \in Seq(Unit)
        BY <4>4, <1>4 DEF GroupOK
      <4>2. chunks[k] # <<>>
        BY <4>1 DEF ChunkOK
      <4>3. chunks[k][Len(chunks[k])] \in Unit
        BY <4>1, <4>2
      <4> QED BY <4>3 DEF EndOffset, Unit
    <3>6. EndOffset(chunks[k]) <= EndOffset(c2)
      <4>1. EndOffset(chunks[k]) <= units[n].to
        BY <2>1, <3>1, <3>3
      <4>3. \A x, y, z \in Nat : x <= y /\ y <= z => x <= z
        OBVIOUS
      <4>2. EndOffset(chunks[k]) <= u.to
        BY <4>1, <4>3, <3>4, <3>5, <1>8
      <4> QED BY <4>2, <3>3
    <3> QED BY <2>1, <2>2, <3>1, <3>2, <3>6, <1>13
  <2>5. k + 1 \in 1 .. K - 1 \/ k + 1 = K
    BY <1>4
  <2> QED BY <2>3, <2>4, <2>5, Zenon
<1>20. at'[1] = n + 2 /\ n + 2 - 1 = n + 1 /\ n + 2 \in 1 .. Len(units) + 1
  BY <1>5
<1>21. \A b \in DOMAIN blocks : \A i \in Letters(blocks[b].text) : Behind(b, i)'
  <2>1. \A b \in DOMAIN blocks : \A i \in Letters(blocks[b].text) : Behind(b, i)
    BY DEF GroupOK
  <2> QED BY <2>1 DEF Behind, Holds
<1>22. chunks' # <<>>
  BY <1>4, <1>11
<1>23. \E g \in 1 .. n + 1 : LastChunk(c2, n + 1, g)
  BY <1>5, <1>18
<1>24. \A k \in 1 .. K - 1 :
         /\ StartOffset(chunks'[k]) <= StartOffset(chunks'[k + 1])
         /\ EndOffset(chunks'[k]) <= EndOffset(chunks'[k + 1])
         /\ chunks'[k][1] # chunks'[k + 1][1] \/ Repeats(chunks[k][1])'
  BY <1>19 DEF Repeats
<1> QED
  <2>1. (at[1] - 1)' = n + 1 /\ n + 1 # 0 /\ n + 1 > 0
    BY <1>20
  <2>2. \E g \in 1 .. n + 1 : /\ Len(chunks'[K]) = n + 1 + 1 - g
                              /\ \A j \in DOMAIN chunks'[K] : chunks'[K][j] = units[g + j - 1]
    BY <1>11, <1>23 DEF LastChunk
  <2>3. at'[1] \in 1 .. Len(units') + 1
    BY <1>20
  <2>4. \A c1 \in DOMAIN blocks' : \A i \in Letters(blocks'[c1].text) : Behind(c1, i)'
    BY <1>21
  <2>5. (chunks = <<>> <=> at[1] - 1 = 0)'
    BY <1>22, <2>1
  <2>6. (\A k \in 1 .. Len(chunks) - 1 :
          /\ StartOffset(chunks[k]) <= StartOffset(chunks[k + 1])
          /\ EndOffset(chunks[k]) <= EndOffset(chunks[k + 1])
          /\ chunks[k][1] # chunks[k + 1][1] \/ Repeats(chunks[k][1]))'
    BY <1>11, <1>24
  <2>7. (\A i \in 1 .. at[1] - 1 : \E k \in DOMAIN chunks : \E j \in DOMAIN chunks[k] :
          chunks[k][j] = units[i])'
    <3>1. \A i \in 1 .. n + 1 : \E k \in DOMAIN chunks' : \E j \in DOMAIN chunks'[k] :
            chunks'[k][j] = units'[i]
      <4> TAKE i \in 1 .. n + 1
      <4>1. PICK k \in DOMAIN chunks' : \E j \in DOMAIN chunks'[k] : chunks'[k][j] = units[i]
        BY <1>17
      <4>2. units'[i] = units[i]
        OBVIOUS
      <4> QED BY <4>1, <4>2
    <3>2. at'[1] - 1 = n + 1
      BY <2>1
    <3> QED BY <3>1, <3>2, Zenon
  <2>8. (at[1] - 1 > 0 => \E g \in 1 .. at[1] - 1 : LET c1 == chunks[Len(chunks)] IN
          /\ Len(c1) = at[1] - 1 + 1 - g
          /\ \A j \in DOMAIN c1 : c1[j] = units[g + j - 1])'
    <3>1. PICK g \in 1 .. n + 1 : /\ Len(chunks'[K]) = n + 1 + 1 - g
                                 /\ \A j \in DOMAIN chunks'[K] : chunks'[K][j] = units'[g + j - 1]
      BY <2>2
    <3>2. at'[1] - 1 = n + 1 /\ Len(chunks') = K
      BY <2>1, <1>11
    <3>3. g \in 1 .. at'[1] - 1 /\ Len(chunks'[Len(chunks')]) = at'[1] - 1 + 1 - g
      BY <3>1, <3>2
    <3>4. \A j \in DOMAIN chunks'[Len(chunks')] : chunks'[Len(chunks')][j] = units'[g + j - 1]
      BY <3>1, <3>2
    <3> QED BY <3>3, <3>4, Zenon
  <2> QED BY <1>11, <1>16, <2>3, <2>4, <2>5, <2>6, <2>7, <2>8 DEF GroupOK

\* The current unit begins a chunk.
LEMMA Begins ==
  ASSUME BlocksOK, UnitsOK, GroupOK, overlap \in Overlaps, at \in (Nat \ {0}) \X Nat,
         NEW n \in Nat, at[1] = n + 1, n + 1 <= Len(units),
         chunks # <<>> =>
           ~ (/\ Fits(chunks[Len(chunks)], units[n + 1])
              /\ sameStructure(chunks[Len(chunks)][Len(chunks[Len(chunks)])], units[n + 1])),
         chunks' = Append(chunks, <<units[n + 1]>>),
         at' = <<n + 2, 0>>, blocks' = blocks, units' = units, overlap' = overlap
  PROVE  GroupOK'
<1>1. PICK K \in Nat : K = Len(chunks)
  BY DEF GroupOK
<1>2. PICK u : u = units[n + 1]
  OBVIOUS
<1>3. chunks \in Seq(Seq(Unit)) /\ DOMAIN chunks = 1 .. K
  BY <1>1 DEF GroupOK
<1>4. n + 1 \in 1 .. Len(units) /\ Len(units) \in Nat
  BY DEF UnitsOK
<1>5. u \in Unit /\ u.from \in Nat /\ u.to \in Nat
  BY <1>2, <1>4, UnitFacts
<1>6. PICK c2 : c2 = <<u>>
  OBVIOUS
<1>7. c2 \in Seq(Unit) /\ Len(c2) = 1 /\ DOMAIN c2 = {1} /\ c2[1] = u /\ ChunkOK(c2)
  <2>1. ChunkOK(<<units[n + 1]>>)
    BY <1>4, OneUnitChunk
  <2> QED BY <2>1, <1>2, <1>5, <1>6
<1>8. /\ chunks' \in Seq(Seq(Unit)) /\ Len(chunks') = K + 1 /\ chunks' # <<>>
      /\ \A k \in 1 .. K : chunks'[k] = chunks[k]
      /\ chunks'[K + 1] = c2
  <2>1. chunks' = Append(chunks, c2)
    BY <1>2, <1>6
  <2>2. /\ Append(chunks, c2) \in Seq(Seq(Unit)) /\ Append(chunks, c2) # <<>>
        /\ Len(Append(chunks, c2)) = Len(chunks) + 1
        /\ \A k \in 1 .. Len(chunks) : Append(chunks, c2)[k] = chunks[k]
        /\ Append(chunks, c2)[Len(chunks) + 1] = c2
    BY <1>3, <1>7, AppendProperties
  <2> QED BY <2>1, <2>2, <1>1
<1>9. DOMAIN chunks' = 1 .. K + 1
  BY <1>8
<1>10. ASSUME NEW k \in DOMAIN chunks'
       PROVE  ChunkOK(chunks[k])'
  <2>1. CASE k = K + 1
    <3>1. chunks'[k] = c2
      BY <2>1, <1>8
    <3> QED BY <3>1, <1>7 DEF ChunkOK
  <2>2. CASE k \in 1 .. K
    <3>1. ChunkOK(chunks[k]) /\ chunks'[k] = chunks[k]
      BY <2>2, <1>3, <1>8 DEF GroupOK
    <3> QED BY <3>1 DEF ChunkOK
  <2> QED BY <2>1, <2>2, <1>9
<1>11. ASSUME NEW i \in 1 .. n + 1
       PROVE  \E k \in DOMAIN chunks' : \E j \in DOMAIN chunks'[k] : chunks'[k][j] = units'[i]
  <2>0. units'[i] = units[i]
    OBVIOUS
  <2>1. CASE i = n + 1
    <3>1. K + 1 \in DOMAIN chunks' /\ 1 \in DOMAIN c2
      BY <1>7, <1>9
    <3>2. c2[1] = units[i] /\ chunks'[K + 1] = c2
      BY <2>1, <1>2, <1>7, <1>8
    <3> QED BY <3>1, <3>2, <2>0
  <2>2. CASE i \in 1 .. n
    <3>1. PICK k \in DOMAIN chunks : \E j \in DOMAIN chunks[k] : chunks[k][j] = units[i]
      <4>1. n + 1 - 1 = n
        OBVIOUS
      <4> QED BY <4>1, <2>2 DEF GroupOK
    <3>2. k \in DOMAIN chunks' /\ chunks'[k] = chunks[k]
      BY <1>3, <1>8, <1>9
    <3> QED BY <3>1, <3>2, <2>0
  <2> QED BY <2>1, <2>2
<1>12. ASSUME K > 0
       PROVE  /\ StartOffset(chunks[K]) <= u.from /\ EndOffset(chunks[K]) <= u.to
              /\ chunks[K][1] # u \/ Repeats(chunks[K][1])
  <2>1. PICK c : c = chunks[K]
    OBVIOUS
  <2>2. K \in DOMAIN chunks /\ c \in Seq(Unit) /\ chunks # <<>>
    <3>1. K \in DOMAIN chunks
      BY <1>12, <1>3
    <3> QED BY <3>1, <2>1, <1>3
  <2>3. n > 0 /\ n \in 1 .. Len(units) - 1 /\ n \in 1 .. Len(units)
    <3>1. n + 1 - 1 = n
      OBVIOUS
    <3>2. n # 0
      BY <3>1, <2>2 DEF GroupOK
    <3> QED BY <3>2, <1>4
  <2>4. PICK f \in 1 .. n : LastChunk(c, n, f)
    <3>1. n + 1 - 1 = n
      OBVIOUS
    <3> QED BY <3>1, <2>1, <2>3, <1>1 DEF GroupOK, LastChunk
  <2>5. c # <<>> /\ Len(c) \in Nat \ {0} /\ c[1] = units[f] /\ c[Len(c)] = units[n]
    BY <2>2, <2>3, <2>4, LastChunkEnds
  <2>6. Before(units[f], u) /\ Before(units[n], u)
    <3>1. f \in 1 .. Len(units) /\ f <= n + 1 /\ n <= n + 1
      BY <2>3, <1>4
    <3> QED BY <3>1, <2>3, <1>2, <1>4, UnitsInOrder
  <2>7. StartOffset(c) <= u.from /\ EndOffset(c) <= u.to
    BY <2>5, <2>6 DEF StartOffset, EndOffset, Before
  <2>8. c[1] # u \/ Repeats(c[1])
    <3> SUFFICES ASSUME c[1] = u
                 PROVE  Repeats(c[1])
      OBVIOUS
    <3>1. ~ (Fits(c, units[n + 1]) /\ sameStructure(c[Len(c)], units[n + 1]))
      BY <2>1, <2>2, <1>1
    <3>3. c[1] = units[n + 1]
      BY <1>2
    <3> QED BY <3>1, <3>3, <2>2, <2>3, <2>4, RepeatedChunk
  <2> QED BY <2>1, <2>7, <2>8
<1>13. ASSUME NEW k \in 1 .. K
       PROVE  /\ StartOffset(chunks'[k]) <= StartOffset(chunks'[k + 1])
              /\ EndOffset(chunks'[k]) <= EndOffset(chunks'[k + 1])
              /\ chunks'[k][1] # chunks'[k + 1][1] \/ Repeats(chunks[k][1])'
  <2>1. chunks'[k] = chunks[k]
    BY <1>8
  <2>2. CASE k \in 1 .. K - 1
    <3>1. /\ StartOffset(chunks[k]) <= StartOffset(chunks[k + 1])
          /\ EndOffset(chunks[k]) <= EndOffset(chunks[k + 1])
          /\ chunks[k][1] # chunks[k + 1][1] \/ Repeats(chunks[k][1])
      BY <2>2, <1>1 DEF GroupOK
    <3>2. chunks'[k + 1] = chunks[k + 1]
      BY <2>2, <1>8
    <3> QED BY <3>1, <3>2, <2>1 DEF Repeats
  <2>3. CASE k = K
    <3>1. chunks'[k + 1] = c2 /\ StartOffset(c2) = u.from /\ EndOffset(c2) = u.to /\ c2[1] = u
      BY <2>3, <1>7, <1>8 DEF StartOffset, EndOffset
    <3>2. /\ StartOffset(chunks[k]) <= u.from /\ EndOffset(chunks[k]) <= u.to
          /\ chunks[k][1] # u \/ Repeats(chunks[k][1])
      BY <2>3, <1>12
    <3> QED BY <3>1, <3>2, <2>1 DEF Repeats
  <2>4. k \in 1 .. K - 1 \/ k = K
    OBVIOUS
  <2> QED BY <2>2, <2>3, <2>4
<1>14. at'[1] = n + 2 /\ at'[1] - 1 = n + 1 /\ n + 1 # 0 /\ at'[1] \in 1 .. Len(units') + 1
  BY <1>4
<1>15. \A b \in DOMAIN blocks' : \A i \in Letters(blocks'[b].text) : Behind(b, i)'
  <2>1. \A b \in DOMAIN blocks : \A i \in Letters(blocks[b].text) : Behind(b, i)
    BY DEF GroupOK
  <2> QED BY <2>1 DEF Behind, Holds
<1>16. (chunks = <<>> <=> at[1] - 1 = 0)'
  BY <1>8, <1>14
<1>17. (\A i \in 1 .. at[1] - 1 : \E k \in DOMAIN chunks : \E j \in DOMAIN chunks[k] :
         chunks[k][j] = units[i])'
  <2>1. at'[1] - 1 = n + 1
    BY <1>14
  <2> QED BY <2>1, <1>11, Zenon
<1>18. (at[1] - 1 > 0 => \E g \in 1 .. at[1] - 1 : LET c1 == chunks[Len(chunks)] IN
         /\ Len(c1) = at[1] - 1 + 1 - g
         /\ \A j \in DOMAIN c1 : c1[j] = units[g + j - 1])'
  <2>1. chunks'[Len(chunks')] = c2
    BY <1>8
  <2>2. n + 1 \in 1 .. at'[1] - 1 /\ Len(c2) = at'[1] - 1 + 1 - (n + 1)
    BY <1>7, <1>14
  <2>3. \A j \in DOMAIN c2 : c2[j] = units'[n + 1 + j - 1]
    <3> TAKE j \in DOMAIN c2
    <3>1. j = 1 /\ n + 1 + 1 - 1 = n + 1
      BY <1>7
    <3>2. units'[n + 1] = u
      BY <1>2
    <3> QED BY <3>1, <3>2, <1>7
  <2> QED BY <2>1, <2>2, <2>3, Zenon
<1>19. (\A k \in 1 .. Len(chunks) - 1 :
         /\ StartOffset(chunks[k]) <= StartOffset(chunks[k + 1])
         /\ EndOffset(chunks[k]) <= EndOffset(chunks[k + 1])
         /\ chunks[k][1] # chunks[k + 1][1] \/ Repeats(chunks[k][1]))'
  <2>1. Len(chunks') - 1 = K
    BY <1>8
  <2> QED BY <2>1, <1>13
<1> QED BY <1>8, <1>10, <1>14, <1>15, <1>16, <1>17, <1>18, <1>19 DEF GroupOK

\* The invariant holds after a unit is put into a chunk.
LEMMA GroupUnitInv ==
  ASSUME ChunkInv, GroupUnit
  PROVE  ChunkInv'
<1>1. /\ BlocksOK /\ UnitsOK /\ GroupOK /\ overlap \in Overlaps /\ drafts \in Drafts
      /\ at \in (Nat \ {0}) \X Nat /\ phase = "group" /\ at[1] <= Len(units)
  BY DEF ChunkInv, GroupUnit
<1>2. /\ phase' = phase /\ drafts' = drafts /\ overlap' = overlap /\ blocks' = blocks
      /\ units' = units /\ at' = <<at[1] + 1, 0>>
  BY DEF GroupUnit
<1>3. PICK n \in Nat : at[1] = n + 1
  <2>1. at[1] - 1 \in Nat /\ at[1] = (at[1] - 1) + 1
    BY <1>1
  <2> QED BY <2>1
<1>4. n + 1 <= Len(units) /\ at' = <<n + 2, 0>> /\ at' \in (Nat \ {0}) \X Nat
  BY <1>1, <1>2, <1>3
<1> DEFINE K == Len(chunks)  c == chunks[K]  u == units[n + 1]
<1>5. chunks' = IF chunks = <<>> THEN <<<<u>>>>
                ELSE IF Fits(c, u) /\ sameStructure(c[Len(c)], u)
                THEN [chunks EXCEPT ![K] = Append(@, u)]
                ELSE Append(chunks, <<u>>)
  BY <1>3 DEF GroupUnit
<1>6. GroupOK'
  <2>1. CASE chunks # <<>> /\ Fits(c, u) /\ sameStructure(c[Len(c)], u)
    <3>1. chunks' = [chunks EXCEPT ![K] = Append(@, u)]
      BY <2>1, <1>5
    <3> QED BY <3>1, <2>1, <1>1, <1>2, <1>3, <1>4, Joins
  <2>2. CASE ~ (chunks # <<>> /\ Fits(c, u) /\ sameStructure(c[Len(c)], u))
    <3>1. chunks' = Append(chunks, <<u>>)
      <4>1. CASE chunks = <<>>
        <5>1. Append(<<>>, <<u>>) = <<<<u>>>>
          OBVIOUS
        <5> QED BY <5>1, <4>1, <1>5
      <4>2. CASE chunks # <<>>
        BY <4>2, <2>2, <1>5
      <4> QED BY <4>1, <4>2
    <3>2. chunks # <<>> => ~ (Fits(c, u) /\ sameStructure(c[Len(c)], u))
      BY <2>2
    <3> QED BY <3>1, <3>2, <1>1, <1>2, <1>3, <1>4, Begins
  <2> QED BY <2>1, <2>2
<1>7. BlocksOK' /\ UnitsOK'
  BY <1>1, <1>2 DEF BlocksOK, UnitsOK, InBlock
<1> QED BY <1>1, <1>2, <1>4, <1>6, <1>7 DEF ChunkInv

\* The invariant holds when the chunks are handed back.
LEMMA ChunkExtractionInv ==
  ASSUME ChunkInv, chunkExtraction
  PROVE  ChunkInv'
<1>1. /\ BlocksOK /\ UnitsOK /\ GroupOK /\ overlap \in Overlaps /\ drafts \in Drafts
      /\ at \in (Nat \ {0}) \X Nat /\ at[1] > Len(units)
  BY DEF ChunkInv, chunkExtraction
<1>2. /\ phase' \in {"chunked", "failed"} /\ drafts' = drafts /\ overlap' = overlap
      /\ blocks' = blocks /\ units' = units /\ at' = at /\ chunks' = chunks
  BY DEF chunkExtraction
<1>3. at[1] = Len(units) + 1
  <2>1. at[1] \in 1 .. Len(units) + 1 /\ Len(units) \in Nat
    BY <1>1 DEF GroupOK, UnitsOK
  <2> QED BY <2>1, <1>1
<1>4. BlocksOK' /\ UnitsOK'
  BY <1>1, <1>2 DEF BlocksOK, UnitsOK, InBlock
<1>5. GroupOK'
  BY <1>1, <1>2 DEF GroupOK, Behind, Holds, ChunkOK, Repeats
<1> QED BY <1>1, <1>2, <1>3, <1>4, <1>5 DEF ChunkInv

\* The invariant is about the variables of the specification only.
LEMMA ChunkInvStutter ==
  ASSUME ChunkInv, UNCHANGED chunkVars
  PROVE  ChunkInv'
BY DEF ChunkInv, chunkVars, BlocksOK, UnitsOK, InBlock, SplitOK, Reached, NotAhead, NoThird,
       NotPast, GroupOK, Behind, Holds, ChunkOK, Repeats

\* Every step keeps the invariant.
LEMMA ChunkInvStep ==
  ASSUME ChunkInv, [ChunkNext]_chunkVars
  PROVE  ChunkInv'
BY FinalizeInv, ExtractionDoneInv, SplitBlockInv, SplitDoneInv, GroupUnitInv,
   ChunkExtractionInv, ChunkInvStutter DEF ChunkNext

\* The invariant says that the chunks are faithful.
LEMMA ChunkInvFaithful ==
  ASSUME ChunkInv
  PROVE  ChunksFaithful
<1> SUFFICES ASSUME phase = "chunked"
             PROVE  /\ \A b \in DOMAIN blocks : \A i \in Letters(blocks[b].text) :
                         \E k \in DOMAIN chunks : \E j \in DOMAIN chunks[k] :
                           LET u == chunks[k][j] IN
                           /\ u.block = b /\ u.from < blocks[b].start + i
                           /\ blocks[b].start + i <= u.to
                    /\ \A k \in DOMAIN chunks :
                         /\ CharCount(chunks[k]) <= MaxChars
                         /\ \A j \in DOMAIN chunks[k] :
                              LET u == chunks[k][j] IN
                              /\ blocks[u.block].page = blocks[chunks[k][1].block].page
                              /\ blocks[u.block].heading =>
                                   \A h \in 1 .. j : chunks[k][h].block = u.block
                    /\ \A k \in 1 .. Len(chunks) - 1 :
                         /\ StartOffset(chunks[k]) <= StartOffset(chunks[k + 1])
                         /\ EndOffset(chunks[k]) <= EndOffset(chunks[k + 1])
                         /\ \/ chunks[k] # chunks[k + 1]
                            \/ 2 * overlap + 1 = MaxChars
                            \/ blocks[chunks[k][1].block].heading
  BY DEF ChunksFaithful
<1>1. UnitsOK /\ GroupOK /\ at[1] = Len(units) + 1
  BY DEF ChunkInv
<1>2. at[1] - 1 = Len(units) /\ DOMAIN units = 1 .. Len(units)
  BY <1>1 DEF UnitsOK
<1>3. ASSUME NEW b \in DOMAIN blocks, NEW i \in Letters(blocks[b].text)
      PROVE  \E k \in DOMAIN chunks : \E j \in DOMAIN chunks[k] :
               LET u == chunks[k][j] IN
               /\ u.block = b /\ u.from < blocks[b].start + i
               /\ blocks[b].start + i <= u.to
  <2>1. PICK x \in DOMAIN units : Holds(units[x], b, i)
    BY <1>1 DEF GroupOK, Behind
  <2>2. PICK k \in DOMAIN chunks : \E j \in DOMAIN chunks[k] : chunks[k][j] = units[x]
    <3>1. x \in 1 .. at[1] - 1
      BY <1>2
    <3> QED BY <3>1, <1>1 DEF GroupOK
  <2>3. PICK j \in DOMAIN chunks[k] : chunks[k][j] = units[x]
    BY <2>2
  <2> QED BY <2>1, <2>3 DEF Holds
<1>4. ASSUME NEW k \in DOMAIN chunks
      PROVE  /\ CharCount(chunks[k]) <= MaxChars
             /\ \A j \in DOMAIN chunks[k] :
                  LET u == chunks[k][j] IN
                  /\ blocks[u.block].page = blocks[chunks[k][1].block].page
                  /\ blocks[u.block].heading =>
                       \A h \in 1 .. j : chunks[k][h].block = u.block
  <2>1. ChunkOK(chunks[k]) /\ chunks[k] \in Seq(Unit)
    BY <1>1 DEF GroupOK
  <2>2. ASSUME NEW j \in DOMAIN chunks[k], blocks[chunks[k][j].block].heading,
               NEW h \in 1 .. j
        PROVE  h = j
    <3>1. ~ (j > 1) /\ j \in Nat
      BY <2>1, <2>2 DEF ChunkOK
    <3> QED BY <3>1
  <2> QED BY <2>1, <2>2 DEF ChunkOK
<1>5. ASSUME NEW k \in 1 .. Len(chunks) - 1
      PROVE  /\ StartOffset(chunks[k]) <= StartOffset(chunks[k + 1])
             /\ EndOffset(chunks[k]) <= EndOffset(chunks[k + 1])
             /\ \/ chunks[k] # chunks[k + 1]
                \/ 2 * overlap + 1 = MaxChars
                \/ blocks[chunks[k][1].block].heading
  BY <1>1 DEF GroupOK, Repeats
<1> QED BY <1>3, <1>4, <1>5

\* Every chunking of an extracted document is faithful, whatever the text, the limits
\* and the overlap the options admit: see ChunksFaithful.
THEOREM ChunksFaithfulHolds ==
  ChunkInit /\ [][ChunkNext]_chunkVars => []ChunksFaithful
<1>1. ChunkInit => ChunkInv
  BY ChunkInitInv
<1>2. ChunkInv /\ [ChunkNext]_chunkVars => ChunkInv'
  BY ChunkInvStep
<1>3. ChunkInv => ChunksFaithful
  BY ChunkInvFaithful
<1> QED BY <1>1, <1>2, <1>3, PTL

-----------------------------------------------------------------------------
USE DocumentsAssumption, WorkerJobsAssumption DEF DocumentsAssumption, WorkerJobsAssumption

-----------------------------------------------------------------------------
(* The inductive invariant.                                                *)

\* Where a handler of each type may be.
Anywhere == {"none", "done", "state"} \cup Outcomes
PlacesOf(j) ==
  Anywhere \cup
    IF j \in ScanJobs THEN {"begin", "scan", "put", "fill", "settle", "commit", "after", "enqueue"}
    ELSE IF j \in ExtractJobs
    THEN {"begin", "extract", "put", "fill", "settle", "commit", "recordFailure"}
    ELSE {"delete", "erased"}
Places ==
  Anywhere \cup {"begin", "scan", "extract", "put", "fill", "settle", "commit", "after", "enqueue",
                 "recordFailure", "delete", "erased"}

HandlerRows ==
  [ pc : Places, version : 0..VersionCap, scan : {"none", "CLEAN", "INFECTED", "ERROR"},
    resume : BOOLEAN, claims : SUBSET Objects, object : Objects, failed : BOOLEAN,
    progress : BOOLEAN ]
UploadPcs ==
  {"start", "put", "fill", "settle", "wait", "created", "found", "reconcile", "compensate",
   "compensated", "scan", "done", "refused"}

\* The object a handler h of job j prepares.
TargetOf(j, h) == IF j \in ScanJobs THEN Clean ELSE Artifact(h.version)

Erased == doc.status = "DELETED"

\* What the row h of a handler of job j promises about the state.
HandlerFits(j, h) ==
  /\ h.pc \in PlacesOf(j)
  /\ h.pc # "none" => jobs[j].status # "NONE"
  /\ j \in ExtractJobs /\ h.pc \in {"extract", "put", "fill", "settle", "commit", "recordFailure"} =>
       h.version # 0
  /\ j \in ScanJobs /\ h.pc \in {"put", "fill", "settle", "commit"} => h.scan # "none"
  /\ h.pc = "enqueue" => j \in DOMAIN AfterScan
  /\ \A w \in Versions : w < h.version => versions[w] # "NONE"
  /\ h.pc = "fill" /\ ~Erased => blobs[TargetOf(j, h)] = PartialFile
  /\ h.pc = "settle" /\ ~Erased => blobs[TargetOf(j, h)] = doc.file
  /\ h.pc = "commit" /\ (j \in ScanJobs => h.scan = "CLEAN") /\ ~Erased =>
       blobs[TargetOf(j, h)] = doc.file \/ TargetOf(j, h) \in unlinked
  /\ h.pc = "erased" => rows[h.object].retention = "PENDING_DELETE"
  /\ h.pc = "returned" /\ j = CleanupJob => Pending = {}

HandlersOK ==
  /\ handler \in [JobIds -> [AttemptNumbers -> HandlerRows]]
  /\ \A j \in JobIds, a \in AttemptNumbers : HandlerFits(j, handler[j][a])

\* Of the handlers that prepare one object, one has created it and may unlink it.
OneFiller ==
  ~Erased => \A j, k \in JobIds, a, b \in AttemptNumbers :
    /\ handler[j][a].pc \in {"fill", "settle"} /\ handler[k][b].pc \in {"fill", "settle"}
    /\ TargetOf(j, handler[j][a]) = TargetOf(k, handler[k][b])
    => j = k /\ a = b

\* The object a cleanup has erased is claimed by it until it is marked.
OwnersOK ==
  \A a \in AttemptNumbers : Pc(CleanupJob, a) = "erased" =>
    rows[handler[CleanupJob][a].object].owner = a

\* Until an upload is compensated the raw object is what its writers think.
UploadsOK ==
  /\ upload \in [Uploads -> UploadPcs] /\ BytesOf \in [Uploads -> Files]
  /\ (\A u \in Uploads : upload[u] # "compensated") /\ ~Erased =>
       /\ \A u \in Uploads : upload[u] = "fill" => blobs[Raw] = PartialFile
       /\ \A u \in Uploads : upload[u] = "settle" => blobs[Raw] = BytesOf[u]
       /\ \A u, w \in Uploads :
            upload[u] \in {"fill", "settle"} /\ upload[w] \in {"fill", "settle"} => u = w
       /\ \A u \in Uploads : upload[u] \in {"created", "found"} =>
            blobs[Raw] = BytesOf[u] \/ Raw \in unlinked

\* The status of the document and what else the tables hold of it.
DocOK ==
  /\ doc.status = "NONE" =>
       /\ doc = NoDoc /\ \A j \in JobIds : jobs[j].status = "NONE"
       /\ \A v \in Versions : versions[v] = "NONE"
       /\ \A o \in Objects : rows[o].retention = "NONE"
  /\ doc.status # "NONE" => doc.file \in Files
  /\ doc.status \in Scannable \cup {"SCANNING", "REJECTED"} => doc.source = "raw"
  /\ Erased => /\ doc.anchors = {} /\ doc.text = 0 /\ doc.source = NoFile
               /\ \A o \in Objects : rows[o].retention # "ACTIVE"
  /\ \A o \in Objects :
       /\ rows[o].retention \in {"PENDING_DELETE", "DELETED"} => Erased
       /\ rows[o].retention = "ACTIVE" => rows[o].sha256 = doc.file
  /\ jobs[CleanupJob].status # "NONE" => Erased

\* Versions are recorded in order.
VersionsOK == \E n \in 0..VersionCap : Recorded = 1..n

DocumentsInv ==
  /\ TypeOK /\ HandlersOK /\ OneFiller /\ OwnersOK /\ UploadsOK /\ DocOK /\ VersionsOK
  /\ BytesBehindRows /\ CleanBeforeUse /\ PublishedExtraction /\ CleanupComplete

-----------------------------------------------------------------------------
(* Rows.                                                                   *)

JobRows ==
  [status : JobQueueStatuses, attempts : 0..AttemptCap, max : 0..AttemptCap,
   input : 0..VersionCap]
ObjectRows ==
  [retention : {"NONE", "ACTIVE", "PENDING_DELETE", "DELETED"},
   sha256 : Files \cup {NoFile}, owner : 0..AttemptCap]
DocRows ==
  [status : DocumentStatuses \cup {"NONE"}, file : Files \cup {NoFile},
   scan : {"UNSCANNED", "CLEAN", "INFECTED", "ERROR"}, bypassed : BOOLEAN,
   extraction : 0..VersionCap, anchors : SUBSET Versions,
   text : 0..VersionCap, source : {NoFile, "raw", "clean"}]

\* TypeOK, table by table.
LEMMA TypeParts ==
  TypeOK <=>
    /\ doc \in DocRows
    /\ versions \in [Versions -> {"NONE", "FAILED", "OCR", "SUCCEEDED"}]
    /\ rows \in [Objects -> ObjectRows]
    /\ blobs \in [Objects -> Files \cup {NoFile, PartialFile}]
    /\ unlinked \subseteq Objects
    /\ jobs \in [JobIds -> JobRows]
  BY DEF TypeOK, DocRows, ObjectRows, JobRows

\* Jobs are of one type, and the numbers of versions and attempts are naturals.
LEMMA Kinds ==
  /\ ScanJobs \subseteq JobIds /\ ExtractJobs \subseteq JobIds /\ CleanupJob \in JobIds
  /\ \A j \in JobIds : j \in ScanJobs \/ j \in ExtractJobs \/ j = CleanupJob
  /\ \A j \in ScanJobs : j \notin ExtractJobs /\ j # CleanupJob
  /\ \A j \in ExtractJobs : j # CleanupJob
  /\ AttemptCap \in Nat /\ VersionCap \in Nat /\ AttemptNumbers \subseteq Nat \ {0}
  /\ Versions \subseteq Nat \ {0}
  BY DEF AttemptNumbers, Versions

\* The raw object is nobody's target, and one version has one artifact.
LEMMA ObjectNames ==
  /\ Raw \in Objects /\ Clean \in Objects /\ \A v \in Versions : Artifact(v) \in Objects
  /\ Raw # Clean /\ \A v : Artifact(v) # Raw /\ Artifact(v) # Clean
  /\ \A v, w : Artifact(v) = Artifact(w) => v = w
  BY DEF Raw, Clean, Artifact, Objects

\* A handler that prepares an object prepares one of the document's.
LEMMA TargetIsObject ==
  ASSUME NEW j \in JobIds, NEW h \in HandlerRows, HandlerFits(j, h),
         h.pc \in {"put", "fill", "settle", "commit"}
  PROVE  /\ TargetOf(j, h) \in Objects /\ TargetOf(j, h) # Raw
         /\ j \in ScanJobs \/ j \in ExtractJobs
         /\ j \in ExtractJobs => h.version \in Versions
<1>1. j \in ScanJobs \/ j \in ExtractJobs
  BY Kinds DEF HandlerFits, PlacesOf, Anywhere, Outcomes
<1>2. j \in ExtractJobs => h.version \in Versions
  BY Kinds DEF HandlerFits, HandlerRows, Versions
<1> QED BY <1>1, <1>2, ObjectNames, Kinds DEF TargetOf

\* The rows a handler's program writes.
LEMMA RowMoved ==
  ASSUME NEW h \in HandlerRows, NEW pc \in Places
  PROVE  LET n == [h EXCEPT !.pc = pc] IN
         /\ n \in HandlerRows /\ n.pc = pc /\ n.version = h.version /\ n.scan = h.scan
         /\ n.object = h.object /\ n.claims = h.claims
  BY DEF HandlerRows

\* ... and the two rows of an attempt without a handler.
LEMMA RowsOfNobody ==
  /\ NoHandler \in HandlerRows /\ Ended \in HandlerRows
  /\ NoHandler.pc = "none" /\ Ended.pc = "done" /\ NoHandler.version = 0 /\ Ended.version = 0
<1>1. NoHandler \in HandlerRows /\ NoHandler.pc = "none" /\ NoHandler.version = 0
  BY ObjectNames, Kinds DEF NoHandler, HandlerRows, Places, Anywhere
<1>2. "done" \in Places
  BY DEF Places, Anywhere
<1> QED BY <1>1, <1>2, RowMoved DEF Ended

\* One handler's row is replaced.
LEMMA OneHandler ==
  ASSUME NEW t, NEW j \in JobIds, NEW a \in AttemptNumbers, NEW h \in HandlerRows,
         t \in [JobIds -> [AttemptNumbers -> HandlerRows]]
  PROVE  LET n == [t EXCEPT ![j][a] = h] IN
         /\ n \in [JobIds -> [AttemptNumbers -> HandlerRows]]
         /\ n[j][a] = h
         /\ \A k \in JobIds, b \in AttemptNumbers : ~(k = j /\ b = a) => n[k][b] = t[k][b]
<1> DEFINE n == [t EXCEPT ![j][a] = h]
<1>1. \A k \in JobIds : n[k] = IF k = j THEN [t[j] EXCEPT ![a] = h] ELSE t[k]
  OBVIOUS
<1>2. \A k \in JobIds : n[k] \in [AttemptNumbers -> HandlerRows]
  BY <1>1
<1>3. n \in [JobIds -> [AttemptNumbers -> HandlerRows]]
  BY <1>2
<1>4. n[j][a] = h
  BY <1>1
<1>5. \A k \in JobIds, b \in AttemptNumbers : ~(k = j /\ b = a) => n[k][b] = t[k][b]
  BY <1>1
<1> QED BY <1>3, <1>4, <1>5

\* Every handler's row fits, when each of the rows written does.
LEMMA HandlersNext ==
  ASSUME handler' \in [JobIds -> [AttemptNumbers -> HandlerRows]],
         \A k \in JobIds, b \in AttemptNumbers, g \in HandlerRows :
           g = handler'[k][b] => HandlerFits(k, g)'
  PROVE  HandlersOK'
<1> SUFFICES ASSUME NEW k \in JobIds, NEW b \in AttemptNumbers
             PROVE  HandlerFits(k, handler[k][b])'
  BY DEF HandlersOK
<1>1. PICK g \in HandlerRows : g = handler'[k][b]
  OBVIOUS
<1>2. HandlerFits(k, g)'
  BY <1>1
<1> QED BY <1>1, <1>2 DEF HandlerFits, TargetOf

\* The row of one handler is replaced.
Becomes(j, a, h) == handler' = [handler EXCEPT ![j][a] = h]
\* ... and the rows of the others still fit.
OthersFit(j, a) ==
  \A k \in JobIds, b \in AttemptNumbers, g \in HandlerRows :
    g = handler[k][b] /\ ~(k = j /\ b = a) /\ HandlerFits(k, g) => HandlerFits(k, g)'
\* The table of handlers after that.
Replaced(j, a, h) ==
  /\ handler' \in [JobIds -> [AttemptNumbers -> HandlerRows]]
  /\ handler'[j][a] = h
  /\ \A k \in JobIds, b \in AttemptNumbers :
       ~(k = j /\ b = a) => handler'[k][b] = handler[k][b]

\* One handler's row is replaced by one that fits, the others still fit.
LEMMA HandlerStep ==
  ASSUME HandlersOK, NEW j \in JobIds, NEW a \in AttemptNumbers, NEW h \in HandlerRows,
         Becomes(j, a, h), HandlerFits(j, h)', OthersFit(j, a)
  PROVE  HandlersOK' /\ Replaced(j, a, h)
<1>1. /\ handler' \in [JobIds -> [AttemptNumbers -> HandlerRows]]
      /\ handler'[j][a] = h
      /\ \A k \in JobIds, b \in AttemptNumbers :
           ~(k = j /\ b = a) => handler'[k][b] = handler[k][b]
  BY OneHandler DEF HandlersOK, Becomes
<1>2. ASSUME NEW k \in JobIds, NEW b \in AttemptNumbers, NEW g \in HandlerRows,
             g = handler'[k][b]
      PROVE  HandlerFits(k, g)'
  <2>1. CASE k = j /\ b = a
    BY <1>1, <1>2, <2>1
  <2>2. CASE ~(k = j /\ b = a)
    <3>1. g = handler[k][b]
      BY <1>1, <1>2, <2>2
    <3>2. HandlerFits(k, g)
      BY <3>1 DEF HandlersOK
    <3> QED BY <2>2, <3>1, <3>2 DEF OthersFit
  <2> QED BY <2>1, <2>2
<1>3. HandlersOK'
  BY <1>1, <1>2, HandlersNext
<1> QED BY <1>1, <1>3 DEF Replaced

-----------------------------------------------------------------------------
(* What steps of others leave a handler's row to rely on.                  *)

\* A row fits the next state when what it relies on has stayed.
LEMMA FitsKept ==
  ASSUME NEW j \in JobIds, NEW h \in HandlerRows, HandlerFits(j, h), DocOK,
         \A w \in Versions : versions[w] # "NONE" => versions'[w] # "NONE",
         Erased => Erased',
         doc.status # "NONE" => doc'.file = doc.file,
         jobs[j].status # "NONE" => jobs'[j].status # "NONE",
         h.pc \in {"fill", "settle"} /\ ~Erased' =>
           blobs'[TargetOf(j, h)] = blobs[TargetOf(j, h)],
         /\ h.pc = "commit" /\ ~Erased'
         /\ blobs[TargetOf(j, h)] = doc.file \/ TargetOf(j, h) \in unlinked
         => blobs'[TargetOf(j, h)] = doc.file \/ TargetOf(j, h) \in unlinked',
         h.pc = "erased" => rows'[h.object].retention = "PENDING_DELETE",
         Erased /\ Pending = {} => Pending' = {}
  PROVE  HandlerFits(j, h)'
<1>1. h.pc # "none" => doc.status # "NONE"
  BY DEF HandlerFits, DocOK
<1>2. h.pc = "returned" /\ j = CleanupJob => Pending' = {}
  BY <1>1 DEF HandlerFits, DocOK
<1>3. h.pc = "fill" /\ ~Erased' => blobs'[TargetOf(j, h)] = PartialFile
  BY DEF HandlerFits
<1>4. /\ h.pc = "settle" /\ ~Erased' => blobs'[TargetOf(j, h)] = doc'.file
      /\ h.pc = "commit" /\ (j \in ScanJobs => h.scan = "CLEAN") /\ ~Erased' =>
           blobs'[TargetOf(j, h)] = doc'.file \/ TargetOf(j, h) \in unlinked'
  BY <1>1 DEF HandlerFits
<1>5. \A w \in Versions : w < h.version => versions'[w] # "NONE"
  BY DEF HandlerFits
<1> QED BY <1>2, <1>3, <1>4, <1>5 DEF HandlerFits, TargetOf

-----------------------------------------------------------------------------
(* Steps of the queue and of handlers that change nothing of the document. *)

\* What the queue may do to the jobs: none is withdrawn, a job is submitted for a
\* document that exists, a cleanup by a deletion only, and a cleanup succeeds when
\* nothing is left to delete.
JobsMove ==
  /\ jobs' \in [JobIds -> JobRows]
  /\ \A k \in JobIds : jobs[k].status # "NONE" => jobs'[k].status # "NONE"
  /\ \A k \in JobIds : jobs'[k].status # "NONE" =>
       jobs[k].status # "NONE" \/ (doc.status # "NONE" /\ k # CleanupJob)
  /\ jobs'[CleanupJob].status = "SUCCEEDED" =>
       jobs[CleanupJob].status = "SUCCEEDED" \/ Pending = {}

\* The step leaves the document, its versions, its objects and their rows alone.
Quiet == UNCHANGED <<doc, versions, rows, blobs, unlinked>> /\ JobsMove

\* Jobs that are left alone.
LEMMA SameJobs ==
  ASSUME TypeOK, UNCHANGED jobs
  PROVE  JobsMove
  BY TypeParts DEF JobsMove

\* One job's row is replaced by another that was submitted.
LEMMA OneJob ==
  ASSUME TypeOK, NEW j \in JobIds, NEW r \in JobRows, jobs' = [jobs EXCEPT ![j] = r],
         r.status # "NONE",
         jobs[j].status # "NONE" \/ (doc.status # "NONE" /\ j # CleanupJob),
         j = CleanupJob /\ r.status = "SUCCEEDED" => Pending = {}
  PROVE  JobsMove
<1>1. jobs \in [JobIds -> JobRows]
  BY TypeParts
<1> QED BY <1>1, Kinds DEF JobsMove

\* A job that is claimed has an attempt number.
LEMMA StartMoves ==
  ASSUME TypeOK, NEW j \in JobIds, StartAttempt(j)
  PROVE  /\ JobsMove /\ jobs[j].attempts + 1 \in AttemptNumbers
         /\ jobs[j].status # "NONE"
<1>1. jobs \in [JobIds -> JobRows] /\ jobs[j] \in JobRows
  BY TypeParts
<1>2. /\ jobs[j].status = "QUEUED" /\ jobs[j].attempts \in 0..AttemptCap
      /\ jobs[j].max \in 0..AttemptCap /\ jobs[j].attempts < jobs[j].max
  BY <1>1 DEF StartAttempt, JobRows
<1> DEFINE n == jobs[j].attempts + 1
<1>3. n \in 0..AttemptCap /\ n \in AttemptNumbers
  BY <1>2, Kinds DEF AttemptNumbers
<1>4. jobs' = [jobs EXCEPT ![j].status = "RUNNING", ![j].attempts = n]
  BY <1>1 DEF StartAttempt
<1> HIDE DEF n
<1>5. "RUNNING" \in JobQueueStatuses
  BY DEF JobQueueStatuses
<1> DEFINE r == [jobs[j] EXCEPT !.status = "RUNNING", !.attempts = n]
<1>6. r \in JobRows /\ r.status = "RUNNING"
  BY <1>1, <1>3, <1>5 DEF JobRows
<1>7. jobs' = [jobs EXCEPT ![j] = r]
  BY <1>4
<1> HIDE DEF r
<1>8. JobsMove
  BY <1>2, <1>6, <1>7, OneJob
<1> QED BY <1>2, <1>3, <1>8 DEF n

\* A job that changes its status only.
LEMMA StatusMoves ==
  ASSUME TypeOK, NEW j \in JobIds, NEW status \in JobQueueStatuses \ {"NONE"},
         jobs[j].status # "NONE", jobs' = [jobs EXCEPT ![j].status = status],
         j = CleanupJob /\ status = "SUCCEEDED" => Pending = {}
  PROVE  JobsMove
<1>1. jobs \in [JobIds -> JobRows]
  BY TypeParts
<1> DEFINE r == [jobs[j] EXCEPT !.status = status]
<1>2. r \in JobRows /\ r.status = status
  BY <1>1 DEF JobRows
<1>3. jobs' = [jobs EXCEPT ![j] = r]
  OBVIOUS
<1> HIDE DEF r
<1> QED BY <1>2, <1>3, OneJob

\* The end of an attempt, by its lease, by the operator or by its handler.
LEMMA QueueMoves ==
  ASSUME TypeOK, NEW j \in JobIds
  PROVE  /\ LeaseExpires(j) \/ releaseJobLease(j) => JobsMove
         /\ requestJobCancellation(j) => JobsMove
         /\ manualRetryJob(j) => JobsMove
<1>1. jobs \in [JobIds -> JobRows] /\ jobs[j] \in JobRows
  BY TypeParts
<1>2. ASSUME LeaseExpires(j) \/ releaseJobLease(j) PROVE JobsMove
  <2>1. PICK status \in {"FAILED", "QUEUED", "CANCELLED"} :
          jobs[j].status # "NONE" /\ jobs' = [jobs EXCEPT ![j].status = status]
    BY <1>2 DEF LeaseExpires, releaseJobLease, AttemptOver
  <2>2. status \in JobQueueStatuses \ {"NONE"} /\ status # "SUCCEEDED"
    BY DEF JobQueueStatuses
  <2> QED BY <2>1, <2>2, StatusMoves
<1>3. ASSUME requestJobCancellation(j) PROVE JobsMove
  <2>1. PICK status \in {"CANCELLATION_REQUESTED", "CANCELLED"} :
          jobs[j].status # "NONE" /\ jobs' = [jobs EXCEPT ![j].status = status]
    BY <1>3 DEF requestJobCancellation, Cancelled
  <2>2. status \in JobQueueStatuses \ {"NONE"} /\ status # "SUCCEEDED"
    BY DEF JobQueueStatuses
  <2> QED BY <2>1, <2>2, StatusMoves
<1>4. ASSUME manualRetryJob(j) PROVE JobsMove
  <2>1. jobs[j].attempts \in 0..AttemptCap /\ jobs[j].attempts < AttemptCap
        /\ jobs[j].status = "FAILED"
    BY <1>1, <1>4 DEF manualRetryJob, JobRows
  <2> DEFINE n == jobs[j].attempts + 1
  <2>2. n \in 0..AttemptCap
    BY <2>1, Kinds
  <2>3. jobs' = [jobs EXCEPT ![j].status = "QUEUED", ![j].max = n]
    BY <1>4 DEF manualRetryJob
  <2> HIDE DEF n
  <2>4. "QUEUED" \in JobQueueStatuses
    BY DEF JobQueueStatuses
  <2> DEFINE r == [jobs[j] EXCEPT !.status = "QUEUED", !.max = n]
  <2>5. r \in JobRows /\ r.status = "QUEUED"
    BY <1>1, <2>2, <2>4 DEF JobRows
  <2>6. jobs' = [jobs EXCEPT ![j] = r]
    BY <2>3
  <2> HIDE DEF r
  <2> QED BY <2>1, <2>5, <2>6, OneJob
<1> QED BY <1>2, <1>3, <1>4

\* A cleanup succeeds when its handler has returned.
LEMMA SettleMoves ==
  ASSUME TypeOK, NEW j \in JobIds, NEW a \in AttemptNumbers, NEW outcome \in Outcomes,
         Settle(j, a, outcome), j = CleanupJob /\ outcome = "returned" => Pending = {}
  PROVE  JobsMove
<1>1. CASE jobs' = jobs
  BY <1>1, SameJobs
<1>2. CASE jobs' # jobs
  <2>1. \/ jobs[j].status = "CANCELLATION_REQUESTED"
           /\ jobs' = [jobs EXCEPT ![j].status = "CANCELLED"]
        \/ jobs[j].status = "RUNNING" /\ outcome = "returned"
           /\ jobs' = [jobs EXCEPT ![j].status = "SUCCEEDED"]
        \/ jobs[j].status = "RUNNING" /\ outcome = "failFatal"
           /\ jobs' = [jobs EXCEPT ![j].status = "FAILED"]
        \/ jobs[j].status = "RUNNING" /\ outcome = "failRetryable"
           /\ jobs' = [jobs EXCEPT ![j].status = AttemptOver(j)]
    BY <1>2 DEF Settle, Outcomes
  <2>2. AttemptOver(j) \in {"FAILED", "QUEUED"}
    BY DEF AttemptOver
  <2>3. PICK status \in {"CANCELLED", "SUCCEEDED", "FAILED", "QUEUED"} :
          /\ jobs[j].status # "NONE" /\ jobs' = [jobs EXCEPT ![j].status = status]
          /\ status = "SUCCEEDED" => outcome = "returned"
    BY <2>1, <2>2
  <2>4. status \in JobQueueStatuses \ {"NONE"}
    BY DEF JobQueueStatuses
  <2> QED BY <2>3, <2>4, StatusMoves
<1> QED BY <1>1, <1>2

\* A quiet step keeps what the tables say.
LEMMA QuietState ==
  ASSUME DocumentsInv, Quiet
  PROVE  TypeOK' /\ DocOK' /\ VersionsOK' /\ CleanBeforeUse' /\ PublishedExtraction'
         /\ CleanupComplete'
<1> USE DEF DocumentsInv
<1>1. TypeOK'
  BY TypeParts DEF Quiet, JobsMove, TypeOK, JobRows
<1>2. DocOK'
  BY Kinds DEF DocOK, Quiet, JobsMove, Erased
<1>3. VersionsOK'
  BY DEF VersionsOK, Recorded, Quiet
<1>4. CleanBeforeUse' /\ PublishedExtraction'
  BY DEF CleanBeforeUse, PublishedExtraction, Quiet
<1>5. CleanupComplete'
  <2> SUFFICES ASSUME jobs'[CleanupJob].status = "SUCCEEDED", NEW o \in Objects
               PROVE  rows[o].retention \in {"NONE", "DELETED"}
    BY DEF CleanupComplete, Quiet
  <2>1. CASE jobs[CleanupJob].status = "SUCCEEDED"
    BY <2>1 DEF CleanupComplete
  <2>2. CASE Pending = {} /\ jobs[CleanupJob].status # "SUCCEEDED"
    <3>1. Erased
      BY <1>2, Kinds DEF Quiet, DocOK, Erased
    <3>2. rows[o].retention \notin {"ACTIVE", "PENDING_DELETE"}
      BY <2>2, <3>1 DEF DocOK, Pending
    <3>3. rows[o] \in ObjectRows
      BY TypeParts
    <3> QED BY <3>2, <3>3 DEF ObjectRows
  <2> QED BY <2>1, <2>2 DEF Quiet, JobsMove
<1> QED BY <1>1, <1>2, <1>3, <1>4, <1>5

\* ... and what handlers rely on.
LEMMA QuietFits ==
  ASSUME DocumentsInv, Quiet, NEW j \in JobIds, NEW h \in HandlerRows, HandlerFits(j, h)
  PROVE  HandlerFits(j, h)'
<1>1. /\ Erased <=> Erased'
      /\ Pending' = Pending
  BY DEF Erased, Pending, Quiet
<1>2. h.pc = "erased" => rows'[h.object].retention = "PENDING_DELETE"
  BY DEF HandlerFits, Quiet
<1> QED BY <1>1, <1>2, FitsKept DEF Quiet, JobsMove, DocumentsInv

\* A quiet step of the queue or the operator.
LEMMA QuietQueue ==
  ASSUME DocumentsInv, Quiet, UNCHANGED <<handler, upload, BytesOf>>
  PROVE  DocumentsInv'
<1> USE DEF DocumentsInv
<1>1. HandlersOK'
  <2>1. handler' \in [JobIds -> [AttemptNumbers -> HandlerRows]]
    BY DEF HandlersOK
  <2>2. \A k \in JobIds, b \in AttemptNumbers, g \in HandlerRows :
          g = handler'[k][b] => HandlerFits(k, g)'
    BY QuietFits DEF HandlersOK
  <2> QED BY <2>1, <2>2, HandlersNext
<1>2. OneFiller' /\ OwnersOK' /\ UploadsOK' /\ BytesBehindRows'
  BY DEF OneFiller, OwnersOK, UploadsOK, BytesBehindRows, Quiet, Erased, TargetOf, Pc
<1> QED BY <1>1, <1>2, QuietState

\* A quiet step of a handler, to a place that fits.
LEMMA QuietHandler ==
  ASSUME DocumentsInv, Quiet, UNCHANGED <<upload, BytesOf>>,
         NEW j \in JobIds, NEW a \in AttemptNumbers, NEW h \in HandlerRows,
         Becomes(j, a, h), HandlerFits(j, h),
         h.pc \notin {"fill", "settle", "erased"}
  PROVE  DocumentsInv'
<1> USE DEF DocumentsInv
<1>1. HandlerFits(j, h)'
  BY QuietFits
<1>2. OthersFit(j, a)
  BY QuietFits DEF OthersFit
<1>3. HandlersOK' /\ Replaced(j, a, h)
  BY <1>1, <1>2, HandlerStep
<1>5. \A k \in JobIds, b \in AttemptNumbers :
        handler'[k][b].pc \in {"fill", "settle", "erased"} => handler'[k][b] = handler[k][b]
  BY <1>3 DEF Replaced
<1>6. OneFiller'
  BY <1>5 DEF OneFiller, Quiet, Erased, TargetOf
<1>7. OwnersOK'
  BY <1>5, Kinds DEF OwnersOK, Quiet, Pc
<1>8. UploadsOK' /\ BytesBehindRows'
  BY DEF UploadsOK, BytesBehindRows, Quiet, Erased
<1> QED BY <1>3, <1>6, <1>7, <1>8, QuietState

\* A handler that goes on to a place without a promise of its own.
LEMMA PlainMove ==
  ASSUME NEW j \in JobIds, NEW h \in HandlerRows, HandlerFits(j, h),
         NEW n \in HandlerRows, n.version = h.version,
         n.pc \in PlacesOf(j) \ {"fill", "settle", "erased"}, jobs[j].status # "NONE",
         n.pc = "returned" => j # CleanupJob,
         n.pc = "commit" => j \in ScanJobs /\ n.scan # "CLEAN",
         n.pc = "enqueue" => j \in DOMAIN AfterScan,
         n.pc \in {"put", "commit"} /\ j \in ScanJobs => n.scan # "none",
         n.pc \in {"extract", "put", "recordFailure"} /\ j \in ExtractJobs => h.version # 0
  PROVE  HandlerFits(j, n)
  BY Kinds DEF HandlerFits

\* The row of a handler, as the tables type it.
LEMMA RowOf ==
  ASSUME HandlersOK, NEW j \in JobIds, NEW a \in AttemptNumbers
  PROVE  handler[j][a] \in HandlerRows /\ HandlerFits(j, handler[j][a])
  BY DEF HandlersOK

\* Moving a handler on replaces its row by one that differs in its place only.
LEMMA GotoBecomes ==
  ASSUME HandlersOK, NEW j \in JobIds, NEW a \in AttemptNumbers, NEW pc \in PlacesOf(j),
         Goto(j, a, pc)
  PROVE  \E n \in HandlerRows :
           /\ Becomes(j, a, n) /\ n.pc = pc
           /\ n.version = handler[j][a].version /\ n.scan = handler[j][a].scan
           /\ n.object = handler[j][a].object
<1>1. handler[j][a] \in HandlerRows /\ pc \in Places
  BY RowOf DEF PlacesOf, Places
<1> DEFINE n == [handler[j][a] EXCEPT !.pc = pc]
<1>2. /\ n \in HandlerRows /\ n.pc = pc /\ n.version = handler[j][a].version
      /\ n.scan = handler[j][a].scan /\ n.object = handler[j][a].object
  BY <1>1, RowMoved
<1>3. Becomes(j, a, n)
  BY DEF Becomes, Goto
<1> QED BY <1>2, <1>3

\* A quiet step that moves a handler on.
LEMMA QuietGoto ==
  ASSUME DocumentsInv, Quiet, UNCHANGED <<upload, BytesOf>>,
         NEW j \in JobIds, NEW a \in AttemptNumbers, jobs[j].status # "NONE",
         NEW pc \in PlacesOf(j) \ {"fill", "settle", "erased"}, Goto(j, a, pc),
         pc = "returned" => j # CleanupJob,
         pc = "commit" => j \in ScanJobs /\ handler[j][a].scan # "CLEAN",
         pc = "enqueue" => j \in DOMAIN AfterScan,
         pc \in {"put", "commit"} /\ j \in ScanJobs => handler[j][a].scan # "none",
         pc \in {"extract", "put", "recordFailure"} /\ j \in ExtractJobs =>
           handler[j][a].version # 0
  PROVE  DocumentsInv'
<1>1. HandlersOK
  BY DEF DocumentsInv
<1>2. handler[j][a] \in HandlerRows /\ HandlerFits(j, handler[j][a])
  BY <1>1, RowOf
<1>3. PICK n \in HandlerRows :
        /\ Becomes(j, a, n) /\ n.pc = pc
        /\ n.version = handler[j][a].version /\ n.scan = handler[j][a].scan
        /\ n.object = handler[j][a].object
  BY <1>1, GotoBecomes
<1>4. HandlerFits(j, n)
  BY <1>2, <1>3, PlainMove
<1> QED BY <1>3, <1>4, QuietHandler

\* A handler that has started belongs to a job that was submitted.
LEMMA Started ==
  ASSUME HandlersOK, NEW j \in JobIds, NEW a \in AttemptNumbers, Pc(j, a) # "none"
  PROVE  jobs[j].status # "NONE"
  BY RowOf DEF HandlerFits, Pc

\* Nothing but a handler's place changes.
LEMMA OnlyHandlers ==
  ASSUME DocumentsInv, Unfenced' = Unfenced
  PROVE  Quiet /\ UNCHANGED upload
<1>1. JobsMove
  BY SameJobs DEF Unfenced, DocumentsInv
<1> QED BY <1>1 DEF Unfenced, docVars, storeVars, blobVars, Quiet

\* The places of a handler by the type of its job.
LEMMA PlacesByType ==
  /\ \A j \in JobIds : {"failFatal", "failRetryable", "returned", "done", "state"} \subseteq PlacesOf(j)
  /\ \A j \in ScanJobs :
       {"begin", "scan", "put", "fill", "settle", "commit", "after", "enqueue"} \subseteq PlacesOf(j)
  /\ \A j \in ExtractJobs :
       {"begin", "extract", "put", "fill", "settle", "commit", "recordFailure"} \subseteq PlacesOf(j)
  /\ {"delete", "erased"} \subseteq PlacesOf(CleanupJob)
  BY Kinds DEF PlacesOf, Anywhere, Outcomes

-----------------------------------------------------------------------------
(* Steps that only move a handler on.                                      *)

\* A fenced transaction of a lost attempt is refused.
LEMMA LeaseLostStep ==
  ASSUME DocumentsInv, UNCHANGED BytesOf, NEW j \in JobIds, NEW a \in AttemptNumbers,
         LeaseLost(j, a)
  PROVE  DocumentsInv'
<1>1. Quiet /\ UNCHANGED upload
  BY OnlyHandlers DEF LeaseLost
<1>2. jobs[j].status # "NONE"
  BY Started DEF LeaseLost, FencedPcs, DocumentsInv
<1> QED BY <1>1, <1>2, QuietGoto, PlacesByType DEF LeaseLost

\* A handler enters its job's work or ends: it also notes whether it resumes.
LEMMA EnterStep ==
  ASSUME DocumentsInv, UNCHANGED BytesOf, NEW j \in JobIds, NEW a \in AttemptNumbers,
         NEW pc \in {"begin", "after", "returned", "failFatal"}, NEW resume \in BOOLEAN,
         pc \in PlacesOf(j), j # CleanupJob, Pc(j, a) = "state",
         Enter(j, a, pc, resume), UNCHANGED Unfenced
  PROVE  DocumentsInv'
<1>1. Quiet /\ UNCHANGED upload
  BY OnlyHandlers
<1>2. jobs[j].status # "NONE"
  BY Started DEF DocumentsInv
<1>3. handler[j][a] \in HandlerRows /\ HandlerFits(j, handler[j][a]) /\ pc \in Places
  BY RowOf DEF DocumentsInv, PlacesOf, Places
<1> DEFINE n == [handler[j][a] EXCEPT !.pc = pc, !.resume = resume]
<1>4. n \in HandlerRows /\ n.pc = pc /\ n.version = handler[j][a].version
  BY <1>3 DEF HandlerRows
<1>5. Becomes(j, a, n)
  BY DEF Becomes, Enter
<1> HIDE DEF n
<1>6. HandlerFits(j, n)
  BY <1>2, <1>3, <1>4, PlainMove
<1> QED BY <1>1, <1>4, <1>5, <1>6, QuietHandler

\* Scanning starts with a look at the document.
LEMMA ScanReadsStateStep ==
  ASSUME DocumentsInv, UNCHANGED BytesOf, NEW j \in JobIds, NEW a \in AttemptNumbers,
         ScanReadsState(j, a)
  PROVE  DocumentsInv'
<1> DEFINE pc == IF doc.status \in Scannable \cup {"SCANNING"} THEN "begin"
                 ELSE IF doc.scan \in {"CLEAN", "INFECTED"} THEN "after" ELSE "failFatal"
           resume == doc.status = "SCANNING"
<1>1. /\ j \in ScanJobs /\ Pc(j, a) = "state" /\ Enter(j, a, pc, resume)
      /\ UNCHANGED Unfenced
  BY DEF ScanReadsState
<1>2. pc \in {"begin", "after", "returned", "failFatal"} /\ pc \in PlacesOf(j)
  BY <1>1, PlacesByType, Kinds
<1>3. resume \in BOOLEAN
  OBVIOUS
<1> HIDE DEF pc, resume
<1> QED BY <1>1, <1>2, <1>3, EnterStep, Kinds

\* ... and so does extracting.
LEMMA ExtractReadsStateStep ==
  ASSUME DocumentsInv, UNCHANGED BytesOf, NEW j \in JobIds, NEW a \in AttemptNumbers,
         ExtractReadsState(j, a)
  PROVE  DocumentsInv'
<1> DEFINE pc == IF /\ doc.extraction # jobs[j].input
                    /\ doc.status \in {"READY", "OCR_REQUIRED_UNSUPPORTED"}
                 THEN "returned" ELSE "begin"
           resume == doc.status = "EXTRACTING"
<1>1. /\ j \in ExtractJobs /\ Pc(j, a) = "state" /\ Enter(j, a, pc, resume)
      /\ UNCHANGED Unfenced
  BY DEF ExtractReadsState
<1>2. pc \in {"begin", "after", "returned", "failFatal"} /\ pc \in PlacesOf(j)
  BY <1>1, PlacesByType, Kinds
<1>3. resume \in BOOLEAN
  OBVIOUS
<1> HIDE DEF pc, resume
<1> QED BY <1>1, <1>2, <1>3, EnterStep, Kinds

\* The scanner answers.
LEMMA ScannedStep ==
  ASSUME DocumentsInv, UNCHANGED BytesOf, NEW j \in JobIds, NEW a \in AttemptNumbers,
         NEW scan \in {"CLEAN", "ERROR", "INFECTED"}, Scanned(j, a, scan)
  PROVE  DocumentsInv'
<1> DEFINE pc == IF scan = "CLEAN" THEN "put" ELSE "commit"
<1>1. /\ j \in ScanJobs /\ j \notin ExtractJobs /\ j # CleanupJob /\ Pc(j, a) = "scan"
      /\ handler' = [handler EXCEPT ![j][a].scan = scan, ![j][a].pc = pc]
      /\ Quiet /\ UNCHANGED upload
  BY OnlyHandlers, Kinds DEF Scanned
<1>2. jobs[j].status # "NONE"
  BY <1>1, Started DEF DocumentsInv
<1>3. /\ handler[j][a] \in HandlerRows /\ HandlerFits(j, handler[j][a])
      /\ pc \in PlacesOf(j) \ {"fill", "settle", "erased"} /\ pc \in Places
  BY <1>1, RowOf, PlacesByType DEF DocumentsInv, Places
<1>4. (pc = "commit" => scan # "CLEAN") /\ pc \notin {"returned", "enqueue"}
  OBVIOUS
<1> HIDE DEF pc
<1> DEFINE n == [handler[j][a] EXCEPT !.scan = scan, !.pc = pc]
<1>5. n \in HandlerRows /\ n.pc = pc /\ n.version = handler[j][a].version /\ n.scan = scan
  BY <1>3 DEF HandlerRows
<1>6. Becomes(j, a, n)
  BY <1>1 DEF Becomes
<1> HIDE DEF n
<1>7. HandlerFits(j, n)
  BY <1>1, <1>2, <1>3, <1>4, <1>5, PlainMove
<1> QED BY <1>1, <1>3, <1>5, <1>6, <1>7, QuietHandler

\* After the scan the document's state is read again.
LEMMA AfterScanReadsStateStep ==
  ASSUME DocumentsInv, UNCHANGED BytesOf, NEW j \in JobIds, NEW a \in AttemptNumbers,
         AfterScanReadsState(j, a)
  PROVE  DocumentsInv'
<1>1. /\ j \in ScanJobs /\ j \notin ExtractJobs /\ j # CleanupJob /\ Pc(j, a) = "after"
      /\ Quiet /\ UNCHANGED upload
  BY OnlyHandlers, Kinds DEF AfterScanReadsState
<1>2. jobs[j].status # "NONE"
  BY <1>1, Started DEF DocumentsInv
<1>3. PICK pc \in {"enqueue", "returned"} :
        Goto(j, a, pc) /\ (pc = "enqueue" => j \in DOMAIN AfterScan)
  BY DEF AfterScanReadsState
<1>4. pc \in PlacesOf(j) \ {"fill", "settle", "erased"}
  BY <1>1, PlacesByType
<1> QED BY <1>1, <1>2, <1>3, <1>4, QuietGoto

\* The bytes are read, extracted and chunked, or are not what was uploaded.
LEMMA ExtractBytesStep ==
  ASSUME DocumentsInv, UNCHANGED BytesOf, NEW j \in JobIds, NEW a \in AttemptNumbers,
         ExtractBytes(j, a) \/ ExtractionThrows(j, a)
  PROVE  DocumentsInv'
<1>1. /\ j \in ExtractJobs /\ j \notin ScanJobs /\ j # CleanupJob
      /\ Pc(j, a) \in {"extract", "commit"} /\ Quiet /\ UNCHANGED upload
  BY OnlyHandlers, Kinds DEF ExtractBytes, ExtractionThrows
<1>2. jobs[j].status # "NONE"
  BY <1>1, Started DEF DocumentsInv
<1>3. PICK pc \in {"put", "recordFailure"} : Goto(j, a, pc)
  BY DEF ExtractBytes, ExtractionThrows
<1>4. pc \in PlacesOf(j) \ {"fill", "settle", "erased"}
  BY <1>1, PlacesByType
<1>5. handler[j][a].version # 0
  BY <1>1, RowOf DEF DocumentsInv, HandlerFits, Pc
<1> QED BY <1>1, <1>2, <1>3, <1>4, <1>5, QuietGoto

\* A handler that is over leaves the row of an ended one.
LEMMA EndsQuietly ==
  ASSUME DocumentsInv, Quiet, UNCHANGED <<upload, BytesOf>>,
         NEW j \in JobIds, NEW a \in AttemptNumbers, Pc(j, a) # "none", End(j, a)
  PROVE  DocumentsInv'
<1>1. jobs[j].status # "NONE" /\ "done" \in PlacesOf(j)
  BY Started, PlacesByType DEF DocumentsInv
<1>2. Ended \in HandlerRows /\ Ended.pc = "done" /\ Ended.version = 0
  BY RowsOfNobody
<1>3. HandlerFits(j, Ended)
  BY <1>1, <1>2, Kinds DEF HandlerFits
<1>4. Becomes(j, a, Ended)
  BY DEF Becomes, End
<1> QED BY <1>2, <1>3, <1>4, QuietHandler

\* The worker settles a job when its handler ends.
LEMMA SettleHandlerStep ==
  ASSUME DocumentsInv, UNCHANGED BytesOf, NEW j \in JobIds, NEW a \in AttemptNumbers,
         SettleHandler(j, a)
  PROVE  DocumentsInv'
<1>1. Pc(j, a) \in Outcomes /\ Settle(j, a, Pc(j, a)) /\ Pc(j, a) # "none"
  BY DEF SettleHandler, Outcomes
<1>2. j = CleanupJob /\ Pc(j, a) = "returned" => Pending = {}
  BY RowOf DEF DocumentsInv, HandlerFits, Pc
<1>3. JobsMove
  BY <1>1, <1>2, SettleMoves DEF DocumentsInv
<1>4. Quiet /\ UNCHANGED upload /\ End(j, a)
  BY <1>3 DEF Quiet, SettleHandler, docVars, storeVars, blobVars
<1> QED BY <1>1, <1>4, EndsQuietly

\* A process dies: its handlers are gone, and so is a cleanup's lock.
LEMMA CrashHandlerStep ==
  ASSUME DocumentsInv, UNCHANGED BytesOf, NEW j \in JobIds, NEW a \in AttemptNumbers,
         CrashHandler(j, a)
  PROVE  DocumentsInv'
<1>1. Quiet /\ UNCHANGED upload /\ Pc(j, a) # "none" /\ End(j, a)
  BY OnlyHandlers DEF CrashHandler
<1> QED BY <1>1, EndsQuietly

\* A job's next attempt starts.
LEMMA StartHandlerStep ==
  ASSUME DocumentsInv, UNCHANGED BytesOf, NEW j \in JobIds, StartHandler(j)
  PROVE  DocumentsInv'
<1> DEFINE a == jobs[j].attempts + 1
<1>1. /\ JobsMove /\ a \in AttemptNumbers /\ jobs[j].status # "NONE"
      /\ Goto(j, a, "state") /\ UNCHANGED <<docVars, storeVars, upload>>
  BY StartMoves DEF StartHandler, DocumentsInv, Goto
<1> HIDE DEF a
<1>2. Quiet /\ UNCHANGED upload
  BY <1>1 DEF Quiet, docVars, storeVars, blobVars
<1>3. "state" \in PlacesOf(j) \ {"fill", "settle", "erased"}
  BY PlacesByType
<1> QED BY <1>1, <1>2, <1>3, QuietGoto

\* A job is submitted for a document that exists.
LEMMA SubmitMoves ==
  ASSUME DocumentsInv, NEW j \in JobIds, j # CleanupJob
  PROVE  /\ enqueueDocumentScan(j) => JobsMove
         /\ enqueueDocumentExtraction(j) => JobsMove
<1>1. doc \in DocRows /\ jobs \in [JobIds -> JobRows] /\ TypeOK
  BY TypeParts DEF DocumentsInv
<1>2. \A input \in 0..VersionCap :
        QueuedJob(input) \in JobRows /\ QueuedJob(input).status = "QUEUED"
  BY DEF QueuedJob, JobRows, JobQueueStatuses
<1>3. NoInput \in 0..VersionCap /\ doc.extraction \in 0..VersionCap
  BY <1>1 DEF NoInput, DocRows
<1>4. ASSUME enqueueDocumentScan(j) PROVE JobsMove
  <2>1. doc.status # "NONE" /\ jobs' = [jobs EXCEPT ![j] = QueuedJob(NoInput)]
    BY <1>4 DEF enqueueDocumentScan, CanScan, Scannable
  <2> QED BY <1>1, <1>2, <1>3, <2>1, OneJob
<1>5. ASSUME enqueueDocumentExtraction(j) PROVE JobsMove
  <2>1. doc.status # "NONE" /\ jobs' = [jobs EXCEPT ![j] = QueuedJob(doc.extraction)]
    BY <1>5 DEF enqueueDocumentExtraction, CanExtract, Extractable
  <2> QED BY <1>1, <1>2, <1>3, <2>1, OneJob
<1> QED BY <1>4, <1>5

\* A scan job submits the extraction of a clean document.
LEMMA ScanSubmitsExtractionStep ==
  ASSUME DocumentsInv, UNCHANGED BytesOf, NEW j \in JobIds, NEW a \in AttemptNumbers,
         ScanSubmitsExtraction(j, a)
  PROVE  DocumentsInv'
<1>1. j \in DOMAIN AfterScan
  BY RowOf DEF DocumentsInv, ScanSubmitsExtraction, HandlerFits, Pc
<1>2. /\ j \in ScanJobs /\ j \notin ExtractJobs /\ j # CleanupJob
      /\ AfterScan[j] \in ExtractJobs /\ AfterScan[j] \in JobIds /\ AfterScan[j] # CleanupJob
  BY <1>1, Kinds
<1>3. jobs[j].status # "NONE"
  BY Started DEF DocumentsInv, ScanSubmitsExtraction
<1>4. enqueueDocumentExtraction(AfterScan[j]) \/ UNCHANGED jobs
  BY DEF ScanSubmitsExtraction
<1>5. JobsMove
  BY <1>2, <1>4, SubmitMoves, SameJobs DEF DocumentsInv
<1>6. Quiet /\ UNCHANGED upload
  BY <1>5 DEF ScanSubmitsExtraction, Quiet, docVars, storeVars, blobVars
<1>7. PICK pc \in {"returned", "failFatal"} : Goto(j, a, pc)
  BY DEF ScanSubmitsExtraction
<1>8. pc \in PlacesOf(j) \ {"fill", "settle", "erased"}
  BY PlacesByType
<1> QED BY <1>2, <1>3, <1>6, <1>7, <1>8, QuietGoto

\* A lease that runs out, a cancellation, a retry by the operator.
LEMMA QueueSteps ==
  ASSUME DocumentsInv, UNCHANGED BytesOf, NEW j \in JobIds,
         AttemptLost(j) \/ OperatorRetries(j)
  PROVE  DocumentsInv'
<1>1. JobsMove
  BY QueueMoves DEF AttemptLost, OperatorRetries, DocumentsInv
<1>2. Quiet /\ UNCHANGED <<handler, upload, BytesOf>>
  BY <1>1 DEF Quiet, AttemptLost, OperatorRetries, docVars, storeVars, blobVars
<1> QED BY <1>2, QuietQueue

\* The operator asks for a scan or an extraction.
LEMMA OperatorSteps ==
  ASSUME DocumentsInv, UNCHANGED BytesOf, NEW j \in JobIds,
         (j \in ScanJobs /\ OperatorScan(j)) \/ (j \in ExtractJobs /\ OperatorExtract(j))
  PROVE  DocumentsInv'
<1>1. j # CleanupJob
  BY Kinds
<1>2. JobsMove
  BY <1>1, SubmitMoves DEF OperatorScan, OperatorExtract
<1>3. Quiet /\ UNCHANGED <<handler, upload, BytesOf>>
  BY <1>2 DEF Quiet, OperatorScan, OperatorExtract, docVars, storeVars, blobVars
<1> QED BY <1>3, QuietQueue

\* A batch of deletions ends: the cleanup is done when nothing is pending.
LEMMA FinishBatchStep ==
  ASSUME DocumentsInv, UNCHANGED BytesOf, NEW a \in AttemptNumbers, FinishBatch(a)
  PROVE  DocumentsInv'
<1> DEFINE pc == CleanupResult(a)
<1>1. /\ Pc(CleanupJob, a) = "delete" /\ Goto(CleanupJob, a, pc)
      /\ CleanupJob \in JobIds /\ Quiet /\ UNCHANGED upload
  BY OnlyHandlers, Kinds DEF FinishBatch
<1>2. pc \in {"failRetryable", "returned", "state"} /\ (pc = "returned" => Pending = {})
  BY DEF CleanupResult
<1>3. pc \in PlacesOf(CleanupJob)
  BY <1>1, <1>2, PlacesByType
<1>4. jobs[CleanupJob].status # "NONE"
  BY <1>1, Started DEF DocumentsInv
<1> HIDE DEF pc
<1>5. /\ handler[CleanupJob][a] \in HandlerRows
      /\ HandlerFits(CleanupJob, handler[CleanupJob][a])
  BY <1>1, RowOf DEF DocumentsInv
<1>6. PICK n \in HandlerRows :
        /\ Becomes(CleanupJob, a, n) /\ n.pc = pc
        /\ n.version = handler[CleanupJob][a].version
  BY <1>1, <1>3, GotoBecomes DEF DocumentsInv
<1>7. HandlerFits(CleanupJob, n)
  BY <1>2, <1>3, <1>4, <1>5, <1>6, Kinds DEF HandlerFits
<1>8. n.pc \notin {"fill", "settle", "erased"}
  BY <1>2, <1>6
<1> QED BY <1>1, <1>6, <1>7, <1>8, QuietHandler

-----------------------------------------------------------------------------
(* Steps of uploads.                                                       *)

\* A quiet step of an upload that neither writes nor has written.
LEMMA QuietUpload ==
  ASSUME DocumentsInv, Quiet, UNCHANGED <<handler, BytesOf>>,
         NEW u \in Uploads, NEW pc \in UploadPcs \ {"fill", "settle", "compensated"},
         UploadGoto(u, pc), upload[u] # "compensated",
         pc \in {"created", "found"} => blobs[Raw] = BytesOf[u]
  PROVE  DocumentsInv'
<1> USE DEF DocumentsInv
<1>1. HandlersOK'
  <2>1. handler' \in [JobIds -> [AttemptNumbers -> HandlerRows]]
    BY DEF HandlersOK
  <2>2. \A k \in JobIds, b \in AttemptNumbers, g \in HandlerRows :
          g = handler'[k][b] => HandlerFits(k, g)'
    BY QuietFits DEF HandlersOK
  <2> QED BY <2>1, <2>2, HandlersNext
<1>2. OneFiller' /\ OwnersOK'
  BY DEF OneFiller, OwnersOK, Quiet, Erased, TargetOf, Pc
<1>3. /\ upload' \in [Uploads -> UploadPcs] /\ upload'[u] = pc
      /\ \A w \in Uploads : w # u => upload'[w] = upload[w]
  BY DEF UploadsOK, UploadGoto
<1>4. UploadsOK'
  BY <1>3 DEF UploadsOK, Quiet, Erased
<1>5. BytesBehindRows'
  BY <1>3 DEF BytesBehindRows, Quiet
<1> QED BY <1>1, <1>2, <1>4, <1>5, QuietState

\* The steps of an upload that only look.
LEMMA UploadLooks ==
  ASSUME DocumentsInv, UNCHANGED BytesOf, NEW u \in Uploads,
         \/ CheckExistingUpload(u) \/ ReadRaw(u) \/ UploadConflicts(u)
         \/ UploadTransactionThrows(u) \/ ReconcileUpload(u) \/ CrashUpload(u)
  PROVE  DocumentsInv'
<1>1. Quiet /\ UNCHANGED handler
  <2>1. UNCHANGED <<docVars, storeVars, jobs, handler>>
    BY DEF CheckExistingUpload, ReadRaw, UploadConflicts, UploadTransactionThrows,
           ReconcileUpload, CrashUpload
  <2>2. JobsMove
    BY <2>1, SameJobs DEF DocumentsInv
  <2> QED BY <2>1, <2>2 DEF Quiet, docVars, storeVars, blobVars
<1>2. PICK pc \in UploadPcs \ {"fill", "settle", "compensated"} :
        /\ UploadGoto(u, pc) /\ upload[u] # "compensated"
        /\ pc \in {"created", "found"} => blobs[Raw] = BytesOf[u]
  BY DEF CheckExistingUpload, ReadRaw, UploadConflicts, UploadTransactionThrows,
         ReconcileUpload, CrashUpload, UploadPcs, UploadsAtRest
<1> QED BY <1>1, <1>2, QuietUpload

\* The upload submits the document's first scan.
LEMMA UploadSubmitsScanStep ==
  ASSUME DocumentsInv, UNCHANGED BytesOf, NEW u \in Uploads, UploadSubmitsScan(u)
  PROVE  DocumentsInv'
<1>1. JobsMove
  BY Kinds, SubmitMoves, SameJobs DEF UploadSubmitsScan, DocumentsInv
<1>2. Quiet /\ UNCHANGED handler /\ UploadGoto(u, "done") /\ upload[u] # "compensated"
  BY <1>1 DEF Quiet, UploadSubmitsScan, docVars, storeVars, blobVars
<1>3. "done" \in UploadPcs \ {"fill", "settle", "compensated"}
  BY DEF UploadPcs
<1> QED BY <1>2, <1>3, QuietUpload

\* A step that changes only the store and the uploads keeps what the tables say.
LEMMA StoreState ==
  ASSUME DocumentsInv, UNCHANGED <<doc, versions, rows, jobs>>, unlinked' \subseteq Objects,
         blobs' \in [Objects -> Files \cup {NoFile, PartialFile}]
  PROVE  TypeOK' /\ DocOK' /\ VersionsOK' /\ CleanBeforeUse' /\ PublishedExtraction'
         /\ CleanupComplete'
<1> USE DEF DocumentsInv
<1>1. TypeOK'
  BY DEF TypeOK
<1>2. DocOK' /\ VersionsOK'
  BY DEF DocOK, Erased, VersionsOK, Recorded
<1>3. CleanBeforeUse' /\ PublishedExtraction' /\ CleanupComplete'
  BY DEF CleanBeforeUse, PublishedExtraction, CleanupComplete
<1> QED BY <1>1, <1>2, <1>3

\* The bytes of the raw object are of no handler's concern.
LEMMA RawWritten ==
  ASSUME DocumentsInv, UNCHANGED <<doc, versions, rows, jobs, handler>>,
         NEW b \in Files \cup {NoFile, PartialFile}, blobs' = [blobs EXCEPT ![Raw] = b],
         unlinked' = unlinked \/ unlinked' = unlinked \cup {Raw}
  PROVE  /\ TypeOK' /\ DocOK' /\ VersionsOK' /\ CleanBeforeUse' /\ PublishedExtraction'
         /\ CleanupComplete' /\ HandlersOK' /\ OneFiller' /\ OwnersOK'
         /\ blobs'[Raw] = b
         /\ \A o \in Objects : o # Raw => blobs'[o] = blobs[o]
<1> USE DEF DocumentsInv
<1>1. /\ blobs \in [Objects -> Files \cup {NoFile, PartialFile}] /\ Raw \in Objects
      /\ blobs' \in [Objects -> Files \cup {NoFile, PartialFile}] /\ blobs'[Raw] = b
      /\ \A o \in Objects : o # Raw => blobs'[o] = blobs[o]
      /\ unlinked' \subseteq Objects /\ unlinked \subseteq unlinked'
  BY TypeParts, ObjectNames
<1>2. ASSUME NEW k \in JobIds, NEW g \in HandlerRows, HandlerFits(k, g)
      PROVE  HandlerFits(k, g)'
  <2>1. g.pc \in {"fill", "settle", "commit"} =>
          blobs'[TargetOf(k, g)] = blobs[TargetOf(k, g)]
    BY <1>1, <1>2, TargetIsObject
  <2>2. g.pc = "erased" => rows'[g.object].retention = "PENDING_DELETE"
    BY <1>2 DEF HandlerFits
  <2>3. (Erased <=> Erased') /\ Pending' = Pending
    BY DEF Erased, Pending
  <2> QED BY <1>1, <1>2, <2>1, <2>2, <2>3, FitsKept
<1>3. HandlersOK'
  <2>1. handler' \in [JobIds -> [AttemptNumbers -> HandlerRows]]
    BY DEF HandlersOK
  <2>2. \A k \in JobIds, c \in AttemptNumbers, g \in HandlerRows :
          g = handler'[k][c] => HandlerFits(k, g)'
    BY <1>2 DEF HandlersOK
  <2> QED BY <2>1, <2>2, HandlersNext
<1>4. OneFiller' /\ OwnersOK'
  BY DEF OneFiller, OwnersOK, Erased, TargetOf, Pc
<1> QED BY <1>1, <1>3, <1>4, StoreState

\* An upload moves on.
LEMMA UploadMoved ==
  ASSUME UploadsOK, NEW u \in Uploads, NEW pc \in UploadPcs, UploadGoto(u, pc)
  PROVE  /\ upload' \in [Uploads -> UploadPcs] /\ upload'[u] = pc
         /\ \A w \in Uploads : w # u => upload'[w] = upload[w]
  BY DEF UploadsOK, UploadGoto

\* An upload creates the raw object, fills it, reads it back, or unlinks what it
\* created.
LEMMA RawSteps ==
  ASSUME DocumentsInv, UNCHANGED BytesOf, NEW u \in Uploads,
         PutRaw(u) \/ FillRaw(u) \/ SettleRaw(u) \/ FillRawFails(u) \/ CompensateUpload(u)
  PROVE  DocumentsInv'
<1> USE DEF DocumentsInv
<1>1. UNCHANGED <<doc, versions, rows, jobs, handler>>
  BY DEF PutRaw, FillRaw, SettleRaw, FillRawFails, CompensateUpload, docVars
<1>2. /\ BytesOf[u] \in Files /\ UploadsOK /\ \A w \in Uploads : BytesOf[w] \in Files
      /\ blobs[Raw] \in Files \cup {NoFile, PartialFile}
  BY TypeParts, ObjectNames DEF UploadsOK
<1>3. NoFile \notin Files /\ PartialFile \notin Files /\ NoFile # PartialFile
  BY DEF NoFile, PartialFile
<1>4. \A o \in Objects : rows[o].retention = "ACTIVE" => ~Erased /\ rows[o].sha256 \in Files
  BY DEF DocOK, Erased
<1>5. ASSUME NEW pc \in {"wait", "created", "refused"}, UploadGoto(u, pc), UNCHANGED blobVars,
             upload[u] # "compensated", pc = "created" => blobs[Raw] = BytesOf[u]
      PROVE  DocumentsInv'
  <2>1. Quiet
    BY <1>1, <1>5, SameJobs DEF Quiet, blobVars
  <2>2. pc \in UploadPcs \ {"fill", "settle", "compensated"}
    BY DEF UploadPcs
  <2> QED BY <1>1, <1>5, <2>1, <2>2, QuietUpload
<1>6. ASSUME Unlink(Raw), UploadGoto(u, "refused"), upload[u] \in {"fill", "settle"}
      PROVE  DocumentsInv'
  <2>1. /\ blobs' = [blobs EXCEPT ![Raw] = NoFile] /\ "refused" \in UploadPcs
        /\ unlinked' = unlinked \/ unlinked' = unlinked \cup {Raw}
        /\ blobs[Raw] \in Files => Raw \in unlinked'
    BY <1>6 DEF Unlink, UploadPcs
  <2>2. /\ upload' \in [Uploads -> UploadPcs] /\ upload'[u] = "refused"
        /\ \A w \in Uploads : w # u => upload'[w] = upload[w]
    BY <1>2, <1>6, <2>1, UploadMoved
  <2>3. /\ TypeOK' /\ DocOK' /\ VersionsOK' /\ CleanBeforeUse' /\ PublishedExtraction'
        /\ CleanupComplete' /\ HandlersOK' /\ OneFiller' /\ OwnersOK'
        /\ blobs'[Raw] = NoFile
        /\ \A o \in Objects : o # Raw => blobs'[o] = blobs[o]
    BY <1>1, <2>1, RawWritten
  <2>4. UploadsOK'
    BY <1>1, <1>2, <1>3, <1>6, <2>1, <2>2, <2>3 DEF UploadsOK, Erased
  <2>5. BytesBehindRows'
    BY <1>1, <1>2, <1>3, <1>4, <1>6, <2>1, <2>2, <2>3 DEF BytesBehindRows, UploadsOK
  <2> QED BY <2>3, <2>4, <2>5
<1>7. CASE PutRaw(u)
  <2>1. CASE blobs[Raw] # NoFile
    BY <1>5, <1>7, <2>1 DEF PutRaw
  <2>2. CASE blobs[Raw] = NoFile
    <3>1. /\ blobs' = [blobs EXCEPT ![Raw] = PartialFile] /\ unlinked' = unlinked
          /\ UploadGoto(u, "fill") /\ upload[u] = "put" /\ "fill" \in UploadPcs
      BY <1>7, <2>2 DEF PutRaw, Create, UploadPcs
    <3>2. /\ upload' \in [Uploads -> UploadPcs] /\ upload'[u] = "fill"
          /\ \A w \in Uploads : w # u => upload'[w] = upload[w]
      BY <1>2, <3>1, UploadMoved
    <3>3. /\ TypeOK' /\ DocOK' /\ VersionsOK' /\ CleanBeforeUse' /\ PublishedExtraction'
          /\ CleanupComplete' /\ HandlersOK' /\ OneFiller' /\ OwnersOK'
          /\ blobs'[Raw] = PartialFile
          /\ \A o \in Objects : o # Raw => blobs'[o] = blobs[o]
      BY <1>1, <3>1, RawWritten
    <3>4. UploadsOK'
      BY <1>1, <1>2, <1>3, <2>2, <3>1, <3>2, <3>3 DEF UploadsOK, Erased
    <3>5. BytesBehindRows'
      BY <1>1, <1>3, <1>4, <2>2, <3>1, <3>2, <3>3 DEF BytesBehindRows
    <3> QED BY <3>3, <3>4, <3>5
  <2> QED BY <2>1, <2>2
<1>8. CASE FillRaw(u)
  <2> DEFINE b == IF blobs[Raw] = PartialFile THEN BytesOf[u] ELSE blobs[Raw]
  <2>1. /\ blobs' = [blobs EXCEPT ![Raw] = b] /\ unlinked' = unlinked
        /\ UploadGoto(u, "settle") /\ upload[u] = "fill" /\ "settle" \in UploadPcs
        /\ b \in Files \cup {NoFile, PartialFile}
    BY <1>2, <1>8 DEF FillRaw, Write, UploadPcs
  <2>2. /\ upload' \in [Uploads -> UploadPcs] /\ upload'[u] = "settle"
        /\ \A w \in Uploads : w # u => upload'[w] = upload[w]
    BY <1>2, <2>1, UploadMoved
  <2>3. /\ TypeOK' /\ DocOK' /\ VersionsOK' /\ CleanBeforeUse' /\ PublishedExtraction'
        /\ CleanupComplete' /\ HandlersOK' /\ OneFiller' /\ OwnersOK'
        /\ blobs'[Raw] = b
        /\ \A o \in Objects : o # Raw => blobs'[o] = blobs[o]
    BY <1>1, <2>1, RawWritten
  <2>4. UploadsOK'
    BY <1>1, <1>2, <1>3, <2>1, <2>2, <2>3 DEF UploadsOK, Erased
  <2>5. BytesBehindRows'
    BY <1>1, <1>2, <1>3, <1>4, <2>1, <2>2, <2>3 DEF BytesBehindRows, UploadsOK
  <2> QED BY <2>3, <2>4, <2>5
<1>9. CASE SettleRaw(u)
  <2>1. CASE blobs[Raw] = BytesOf[u]
    BY <1>5, <1>9, <2>1 DEF SettleRaw, ReadBack
  <2>2. CASE blobs[Raw] # BytesOf[u]
    BY <1>6, <1>9, <2>2 DEF SettleRaw, ReadBack
  <2> QED BY <2>1, <2>2
<1>10. CASE FillRawFails(u)
  BY <1>5, <1>6, <1>10 DEF FillRawFails, PutFails
<1>11. CASE CompensateUpload(u)
  <2>1. /\ blobs' = [blobs EXCEPT ![Raw] = NoFile] /\ unlinked' = unlinked
        /\ UploadGoto(u, "compensated") /\ "compensated" \in UploadPcs
    BY <1>11 DEF CompensateUpload, UploadPcs
  <2>2. /\ upload' \in [Uploads -> UploadPcs] /\ upload'[u] = "compensated"
        /\ \A w \in Uploads : w # u => upload'[w] = upload[w]
    BY <1>2, <2>1, UploadMoved
  <2>3. /\ TypeOK' /\ DocOK' /\ VersionsOK' /\ CleanBeforeUse' /\ PublishedExtraction'
        /\ CleanupComplete' /\ HandlersOK' /\ OneFiller' /\ OwnersOK'
        /\ blobs'[Raw] = NoFile
        /\ \A o \in Objects : o # Raw => blobs'[o] = blobs[o]
    BY <1>1, <2>1, RawWritten
  <2>4. UploadsOK'
    BY <1>2, <2>2 DEF UploadsOK
  <2>5. BytesBehindRows'
    BY <1>1, <2>1, <2>2, <2>3 DEF BytesBehindRows
  <2> QED BY <2>3, <2>4, <2>5
<1> QED BY <1>7, <1>8, <1>9, <1>10, <1>11

\* The document is recorded with its raw object, or found recorded.
LEMMA CommitUploadStep ==
  ASSUME DocumentsInv, UNCHANGED BytesOf, NEW u \in Uploads, CommitUpload(u)
  PROVE  DocumentsInv'
<1> USE DEF DocumentsInv
<1>1. /\ UNCHANGED <<versions, blobs, unlinked, jobs, handler>> /\ UploadGoto(u, "scan")
      /\ upload[u] \in {"created", "found"} /\ "scan" \in UploadPcs
  BY DEF CommitUpload, UploadPcs, blobVars
<1>2. CASE doc.status # "NONE"
  <2>1. Quiet
    BY <1>1, <1>2, SameJobs DEF Quiet, CommitUpload
  <2> QED BY <1>1, <2>1, QuietUpload
<1>3. CASE doc.status = "NONE"
  <2>1. /\ doc = NoDoc /\ \A j \in JobIds : jobs[j].status = "NONE"
        /\ \A v \in Versions : versions[v] = "NONE"
        /\ \A o \in Objects : rows[o].retention = "NONE"
    BY <1>3 DEF DocOK
  <2>2. BytesOf[u] \in Files
    BY DEF UploadsOK
  <2>3. /\ doc' = [NoDoc EXCEPT !.status = "QUARANTINED", !.file = BytesOf[u], !.source = "raw"]
        /\ rows' = [rows EXCEPT ![Raw] = ActiveObject(BytesOf[u])]
    BY <1>3 DEF CommitUpload
  <2>4. /\ doc'.status = "QUARANTINED" /\ doc'.file = BytesOf[u] /\ doc'.source = "raw"
        /\ doc'.extraction = 0 /\ doc'.anchors = {} /\ doc'.text = 0 /\ doc' \in DocRows
    <3>1. doc' = [ status |-> "QUARANTINED", file |-> BytesOf[u], scan |-> "UNSCANNED",
                   bypassed |-> FALSE, extraction |-> 0, anchors |-> {}, text |-> 0,
                   source |-> "raw" ]
      BY <2>3 DEF NoDoc
    <3>2. 0 \in 0..VersionCap /\ {} \in SUBSET Versions /\ "QUARANTINED" \in DocumentStatuses
      BY Kinds DEF DocumentStatuses
    <3> QED BY <2>2, <3>1, <3>2 DEF DocRows
  <2>5. ActiveObject(BytesOf[u]) \in ObjectRows
    BY <2>2, Kinds DEF ActiveObject, ObjectRows
  <2>6. /\ rows' \in [Objects -> ObjectRows] /\ rows'[Raw] = ActiveObject(BytesOf[u])
        /\ \A o \in Objects : o # Raw => rows'[o] = rows[o]
    BY <2>3, <2>5, ObjectNames, TypeParts
  <2>7. TypeOK'
    BY <1>1, <2>4, <2>6, TypeParts DEF TypeOK, DocRows, ObjectRows
  <2>8. \A j \in JobIds, a \in AttemptNumbers : handler[j][a].pc = "none"
    BY <2>1, RowOf DEF HandlerFits
  <2>9. HandlersOK'
    <3>1. handler' \in [JobIds -> [AttemptNumbers -> HandlerRows]]
      BY <1>1 DEF HandlersOK
    <3>2. ASSUME NEW k \in JobIds, NEW b \in AttemptNumbers, NEW g \in HandlerRows,
                 g = handler'[k][b]
          PROVE  HandlerFits(k, g)'
      <4>1. g.pc = "none" /\ HandlerFits(k, g)
        BY <1>1, <2>8, <3>2, RowOf
      <4> QED BY <1>1, <4>1 DEF HandlerFits
    <3> QED BY <3>1, <3>2, HandlersNext
  <2>10. OneFiller' /\ OwnersOK'
    BY <1>1, <2>8, Kinds DEF OneFiller, OwnersOK, Pc
  <2>11. /\ upload' \in [Uploads -> UploadPcs] /\ upload'[u] = "scan"
         /\ \A w \in Uploads : w # u => upload'[w] = upload[w]
    BY <1>1, UploadMoved
  <2>12. UploadsOK'
    BY <1>1, <1>3, <2>11 DEF UploadsOK, Erased
  <2>13. DocOK'
    BY <1>1, <2>1, <2>2, <2>4, <2>6, Kinds DEF DocOK, Erased, ActiveObject
  <2>14. VersionsOK'
    BY <1>1 DEF VersionsOK, Recorded
  <2>15. BytesBehindRows'
    <3> SUFFICES ASSUME NEW o \in Objects, rows'[o].retention = "ACTIVE"
                 PROVE  \/ blobs'[o] = rows'[o].sha256 \/ o \in unlinked'
                        \/ o = Raw /\ \E w \in Uploads : upload'[w] = "compensated"
      BY DEF BytesBehindRows
    <3>1. o = Raw
      BY <2>1, <2>6
    <3>2. CASE \A w \in Uploads : upload[w] # "compensated"
      <4>1. blobs[Raw] = BytesOf[u] \/ Raw \in unlinked
        BY <1>1, <1>3, <3>2 DEF UploadsOK, Erased
      <4> QED BY <1>1, <2>6, <3>1, <4>1 DEF ActiveObject
    <3>3. CASE \E w \in Uploads : upload[w] = "compensated"
      BY <1>1, <2>11, <3>1, <3>3
    <3> QED BY <3>2, <3>3
  <2>16. CleanBeforeUse' /\ CleanupComplete'
    BY <1>1, <2>1, <2>4, Kinds DEF CleanBeforeUse, CleanupComplete, Extractable
  <2>17. PublishedExtraction'
    BY <2>4 DEF PublishedExtraction
  <2> QED BY <2>7, <2>9, <2>10, <2>12, <2>13, <2>14, <2>15, <2>16, <2>17
<1> QED BY <1>2, <1>3

-----------------------------------------------------------------------------
(* Steps of handlers that write the object they prepare.                   *)

\* The objects a handler may name are typed.
LEMMA TargetsAgree ==
  ASSUME NEW j \in JobIds, NEW a \in AttemptNumbers
  PROVE  Target(j, a) = TargetOf(j, handler[j][a])
  BY DEF Target, TargetOf

\* While a handler is about to create an object that is not there, or has created
\* it and may still unlink it, no other handler has created it.
LEMMA Unready ==
  ASSUME DocumentsInv, ~Erased, NEW j \in JobIds, NEW a \in AttemptNumbers,
         NEW o \in Objects, o = Target(j, a),
         \/ Pc(j, a) = "put" /\ blobs[o] = NoFile
         \/ Pc(j, a) \in {"fill", "settle"}
  PROVE  \A k \in JobIds, b \in AttemptNumbers, g \in HandlerRows :
           g = handler[k][b] /\ ~(k = j /\ b = a) /\ g.pc \in {"fill", "settle"}
           => TargetOf(k, g) # o
<1> USE DEF DocumentsInv
<1>1. o = TargetOf(j, handler[j][a])
  BY TargetsAgree
<1>2. NoFile \notin Files /\ PartialFile \notin Files /\ NoFile # PartialFile
  BY DEF NoFile, PartialFile
<1> SUFFICES ASSUME NEW k \in JobIds, NEW b \in AttemptNumbers, NEW g \in HandlerRows,
                    g = handler[k][b], ~(k = j /\ b = a), TargetOf(k, g) = o,
                    g.pc \in {"fill", "settle"}
             PROVE  FALSE
  OBVIOUS
<1>3. HandlerFits(k, g)
  BY RowOf
<1>4. doc.file \in Files
  BY <1>3 DEF HandlerFits, DocOK
<1>5. blobs[o] # NoFile
  BY <1>2, <1>3, <1>4 DEF HandlerFits
<1>6. handler[j][a].pc \in {"fill", "settle"}
  BY <1>5 DEF Pc
<1> QED BY <1>1, <1>6 DEF OneFiller

\* A handler writes the object it prepares and moves on to a place that fits: what
\* others may rely on is there, or is noted as unlinked.
LEMMA ObjectWritten ==
  ASSUME DocumentsInv, UNCHANGED <<doc, versions, rows, jobs, upload, BytesOf>>,
         NEW j \in JobIds, NEW a \in AttemptNumbers, NEW o \in Objects, o = Target(j, a),
         \/ Pc(j, a) = "put" /\ blobs[o] = NoFile
         \/ Pc(j, a) \in {"fill", "settle"},
         NEW b \in Files \cup {NoFile, PartialFile}, blobs' = [blobs EXCEPT ![o] = b],
         unlinked' \subseteq Objects,
         \A p \in Objects : p # o => (p \in unlinked' <=> p \in unlinked),
         ~Erased => \/ b = doc.file \/ o \in unlinked'
                    \/ blobs[o] # doc.file /\ o \notin unlinked,
         NEW n \in HandlerRows, Becomes(j, a, n), n.version = handler[j][a].version,
         n.pc \in {"fill", "settle", "failRetryable"}, n.scan = handler[j][a].scan,
         n.pc = "fill" => b = PartialFile, n.pc = "settle" /\ ~Erased => b = doc.file
  PROVE  DocumentsInv'
<1> USE DEF DocumentsInv
<1>1. /\ blobs' \in [Objects -> Files \cup {NoFile, PartialFile}] /\ blobs'[o] = b
      /\ \A p \in Objects : p # o => blobs'[p] = blobs[p]
  BY TypeParts
<1>2. /\ (Erased <=> Erased') /\ Pending' = Pending
  BY DEF Erased, Pending
<1>3. handler[j][a] \in HandlerRows /\ HandlerFits(j, handler[j][a])
  BY RowOf
<1>4. /\ handler[j][a].pc \in {"put", "fill", "settle"} /\ o = TargetOf(j, handler[j][a])
      /\ o # Raw /\ TargetOf(j, n) = o
  <2>1. handler[j][a].pc \in {"put", "fill", "settle"} /\ o = TargetOf(j, handler[j][a])
    BY TargetsAgree DEF Pc
  <2>2. o # Raw
    BY <1>3, <2>1, TargetIsObject
  <2> QED BY <2>1, <2>2 DEF TargetOf
<1>5. HandlerFits(j, n)'
  <2>1. j \in ScanJobs \/ j \in ExtractJobs
    BY <1>3, <1>4, TargetIsObject
  <2>2. n.pc \in PlacesOf(j)
    BY <2>1, PlacesByType
  <2>3. (j \in ExtractJobs => n.version # 0) /\ (j \in ScanJobs => n.scan # "none")
    BY <1>3, <1>4 DEF HandlerFits
  <2>4. /\ jobs[j].status # "NONE"
        /\ \A w \in Versions : w < n.version => versions[w] # "NONE"
    BY <1>3, <1>4 DEF HandlerFits
  <2>5. blobs'[TargetOf(j, n)] = b
    BY <1>1, <1>4
  <2>6. /\ HandlerFits(j, n)' <=>
            /\ n.pc \in PlacesOf(j)
            /\ n.pc # "none" => jobs'[j].status # "NONE"
            /\ j \in ExtractJobs /\ n.pc \in {"extract", "put", "fill", "settle", "commit", "recordFailure"} =>
                 n.version # 0
            /\ j \in ScanJobs /\ n.pc \in {"put", "fill", "settle", "commit"} => n.scan # "none"
            /\ n.pc = "enqueue" => j \in DOMAIN AfterScan
            /\ \A w \in Versions : w < n.version => versions'[w] # "NONE"
            /\ n.pc = "fill" /\ ~Erased' => blobs'[TargetOf(j, n)] = PartialFile
            /\ n.pc = "settle" /\ ~Erased' => blobs'[TargetOf(j, n)] = doc'.file
            /\ n.pc = "commit" /\ (j \in ScanJobs => n.scan = "CLEAN") /\ ~Erased' =>
                 blobs'[TargetOf(j, n)] = doc'.file \/ TargetOf(j, n) \in unlinked'
            /\ n.pc = "erased" => rows'[n.object].retention = "PENDING_DELETE"
            /\ n.pc = "returned" /\ j = CleanupJob => Pending' = {}
    BY DEF HandlerFits, TargetOf
  <2> QED BY <1>2, <2>2, <2>3, <2>4, <2>5, <2>6
<1>6. ~Erased =>
        \A k \in JobIds, c \in AttemptNumbers, g \in HandlerRows :
          g = handler[k][c] /\ ~(k = j /\ c = a) /\ g.pc \in {"fill", "settle"}
          => TargetOf(k, g) # o
  BY Unready
<1>7. OthersFit(j, a)
  <2> SUFFICES ASSUME NEW k \in JobIds, NEW c \in AttemptNumbers, NEW g \in HandlerRows,
                      g = handler[k][c], ~(k = j /\ c = a), HandlerFits(k, g)
               PROVE  HandlerFits(k, g)'
    BY DEF OthersFit
  <2>1. g.pc \in {"fill", "settle", "commit"} => TargetOf(k, g) \in Objects
    BY TargetIsObject
  <2>2. g.pc = "erased" => rows'[g.object].retention = "PENDING_DELETE"
    BY DEF HandlerFits
  <2>3. g.pc \in {"fill", "settle"} /\ ~Erased' => blobs'[TargetOf(k, g)] = blobs[TargetOf(k, g)]
    BY <1>1, <1>2, <1>6, <2>1
  <2>4. /\ g.pc = "commit" /\ ~Erased'
        /\ blobs[TargetOf(k, g)] = doc.file \/ TargetOf(k, g) \in unlinked
        => blobs'[TargetOf(k, g)] = doc.file \/ TargetOf(k, g) \in unlinked'
    <3>1. CASE TargetOf(k, g) = o
      BY <1>1, <1>2, <3>1
    <3>2. CASE TargetOf(k, g) # o
      BY <1>1, <2>1, <3>2
    <3> QED BY <3>1, <3>2
  <2> QED BY <1>2, <2>2, <2>3, <2>4, FitsKept
<1>8. HandlersOK' /\ Replaced(j, a, n)
  BY <1>5, <1>7, HandlerStep
<1>9. OneFiller'
  <2> SUFFICES ASSUME ~Erased', NEW k \in JobIds, NEW l \in JobIds, NEW c \in AttemptNumbers,
                      NEW d \in AttemptNumbers, NEW g \in HandlerRows, NEW h \in HandlerRows,
                      g = handler'[k][c], h = handler'[l][d],
                      g.pc \in {"fill", "settle"}, h.pc \in {"fill", "settle"},
                      TargetOf(k, g) = TargetOf(l, h)
               PROVE  k = l /\ c = d
    BY <1>8, SMTT(30) DEF OneFiller, Replaced
  <2>1. CASE k = j /\ c = a /\ ~(l = j /\ d = a)
    BY <1>2, <1>4, <1>6, <1>8, <2>1 DEF Replaced, TargetOf
  <2>2. CASE ~(k = j /\ c = a) /\ l = j /\ d = a
    BY <1>2, <1>4, <1>6, <1>8, <2>2 DEF Replaced, TargetOf
  <2>3. CASE ~(k = j /\ c = a) /\ ~(l = j /\ d = a)
    <3>1. g = handler[k][c] /\ h = handler[l][d]
      BY <1>8, <2>3 DEF Replaced
    <3>2. ~Erased /\ OneFiller
      BY <1>2
    <3> QED BY <3>1, <3>2 DEF OneFiller
  <2> QED BY <2>1, <2>2, <2>3
<1>10. OwnersOK'
  BY <1>8, Kinds DEF OwnersOK, Replaced, Pc
<1>11. UploadsOK'
  BY <1>1, <1>2, <1>4, ObjectNames DEF UploadsOK
<1>12. BytesBehindRows'
  <2> SUFFICES ASSUME NEW p \in Objects, rows[p].retention = "ACTIVE"
               PROVE  \/ blobs'[p] = rows[p].sha256 \/ p \in unlinked'
                      \/ p = Raw /\ \E u \in Uploads : upload[u] = "compensated"
    BY DEF BytesBehindRows
  <2>1. ~Erased /\ rows[p].sha256 = doc.file
    BY DEF DocOK
  <2>2. CASE p = o
    BY <1>1, <1>4, <2>1, <2>2 DEF BytesBehindRows
  <2>3. CASE p # o
    BY <1>1, <2>3 DEF BytesBehindRows
  <2> QED BY <2>2, <2>3
<1> QED BY <1>1, <1>8, <1>9, <1>10, <1>11, <1>12, StoreState

\* storage.put by a handler, in its three steps, and the put that fails.
LEMMA ObjectSteps ==
  ASSUME DocumentsInv, UNCHANGED BytesOf, NEW j \in JobIds, NEW a \in AttemptNumbers,
         \/ PutObject(j, a, Target(j, a)) \/ FillObject(j, a, Target(j, a))
         \/ SettleObject(j, a, Target(j, a)) \/ FillObjectFails(j, a, Target(j, a))
  PROVE  DocumentsInv'
<1> DEFINE o == Target(j, a)
<1>1. /\ Pc(j, a) \in {"put", "fill", "settle"}
      /\ UNCHANGED <<doc, versions, rows, jobs, upload>>
  BY DEF PutObject, FillObject, SettleObject, FillObjectFails, docVars
<1>2. /\ handler[j][a] \in HandlerRows /\ HandlerFits(j, handler[j][a])
      /\ handler[j][a].pc \in {"put", "fill", "settle"} /\ HandlersOK
  BY <1>1, RowOf DEF DocumentsInv, Pc
<1>3. /\ o \in Objects /\ (j \in ScanJobs \/ j \in ExtractJobs) /\ jobs[j].status # "NONE"
      /\ doc.file \in Files /\ blobs[o] \in Files \cup {NoFile, PartialFile}
      /\ unlinked \subseteq Objects
  <2>1. o \in Objects /\ (j \in ScanJobs \/ j \in ExtractJobs)
    BY <1>2, TargetIsObject, TargetsAgree
  <2>2. jobs[j].status # "NONE"
    BY <1>2 DEF HandlerFits
  <2> QED BY <2>1, <2>2, TypeParts DEF DocumentsInv, DocOK
<1>4. {"fill", "settle", "commit", "failRetryable"} \subseteq PlacesOf(j)
  BY <1>3, PlacesByType
<1>5. /\ NoFile \notin Files /\ PartialFile \notin Files
      /\ Pc(j, a) = "fill" /\ ~Erased => blobs[o] = PartialFile
      /\ Pc(j, a) = "settle" /\ ~Erased => blobs[o] = doc.file
  BY <1>2, TargetsAgree DEF NoFile, PartialFile, HandlerFits, Pc
<1> HIDE DEF o
<1>6. ASSUME NEW pc \in {"fill", "settle", "failRetryable"}, Goto(j, a, pc),
             (Pc(j, a) = "put" /\ blobs[o] = NoFile) \/ Pc(j, a) \in {"fill", "settle"},
             NEW b \in Files \cup {NoFile, PartialFile}, blobs' = [blobs EXCEPT ![o] = b],
             unlinked' \subseteq Objects,
             \A p \in Objects : p # o => (p \in unlinked' <=> p \in unlinked),
             ~Erased => \/ b = doc.file \/ o \in unlinked'
                        \/ blobs[o] # doc.file /\ o \notin unlinked,
             pc = "fill" => b = PartialFile, pc = "settle" /\ ~Erased => b = doc.file
      PROVE  DocumentsInv'
  <2>1. PICK n \in HandlerRows :
          /\ Becomes(j, a, n) /\ n.pc = pc /\ n.version = handler[j][a].version
          /\ n.scan = handler[j][a].scan
    BY <1>2, <1>4, <1>6, GotoBecomes
  <2>2. o = Target(j, a)
    BY DEF o
  <2> QED BY <1>1, <1>3, <1>6, <2>1, <2>2, ObjectWritten
<1>7. ASSUME NEW pc \in {"commit", "failRetryable"}, Goto(j, a, pc), UNCHANGED blobVars,
             pc = "commit" => blobs[o] = doc.file
      PROVE  DocumentsInv'
  <2>1. PICK n \in HandlerRows :
          /\ Becomes(j, a, n) /\ n.pc = pc
          /\ n.version = handler[j][a].version /\ n.scan = handler[j][a].scan
    BY <1>2, <1>4, <1>7, GotoBecomes
  <2>2. TargetOf(j, n) = o
    BY <2>1, TargetsAgree DEF TargetOf, o
  <2>3. HandlerFits(j, n)
    BY <1>2, <1>3, <1>4, <1>7, <2>1, <2>2 DEF HandlerFits
  <2>4. Quiet
    BY <1>1, <1>7, SameJobs DEF Quiet, DocumentsInv, blobVars
  <2> QED BY <1>1, <2>1, <2>3, <2>4, QuietHandler
<1>8. ASSUME Unlink(o), Goto(j, a, "failRetryable"), Pc(j, a) \in {"fill", "settle"}
      PROVE  DocumentsInv'
  <2>1. /\ blobs' = [blobs EXCEPT ![o] = NoFile]
        /\ unlinked' = IF blobs[o] \in Files THEN unlinked \cup {o} ELSE unlinked
    BY <1>8 DEF Unlink
  <2>2. /\ unlinked' \subseteq Objects
        /\ \A p \in Objects : p # o => (p \in unlinked' <=> p \in unlinked)
        /\ o \in unlinked' \/ (blobs[o] # doc.file /\ o \notin unlinked)
    BY <1>3, <2>1
  <2> QED BY <1>6, <1>8, <2>1, <2>2
<1>9. CASE PutObject(j, a, o)
  <2>1. CASE blobs[o] = NoFile
    <3>1. /\ Pc(j, a) = "put" /\ Goto(j, a, "fill") /\ unlinked' = unlinked
          /\ blobs' = [blobs EXCEPT ![o] = PartialFile]
      BY <1>9, <2>1 DEF PutObject, Create
    <3> QED BY <1>3, <1>5, <1>6, <2>1, <3>1
  <2>2. CASE blobs[o] # NoFile
    BY <1>7, <1>9, <2>2 DEF PutObject, Reusable
  <2> QED BY <2>1, <2>2
<1>10. CASE FillObject(j, a, o)
  <2> DEFINE b == IF blobs[o] = PartialFile THEN doc.file ELSE blobs[o]
  <2>1. /\ Pc(j, a) = "fill" /\ Goto(j, a, "settle") /\ unlinked' = unlinked \ {o}
        /\ blobs' = [blobs EXCEPT ![o] = b]
    BY <1>10 DEF FillObject, Write
  <2>2. b \in Files \cup {NoFile, PartialFile} /\ (~Erased => b = doc.file)
    BY <1>3, <1>5, <2>1
  <2> HIDE DEF b
  <2> QED BY <1>3, <1>6, <2>1, <2>2
<1>11. CASE SettleObject(j, a, o)
  <2>1. CASE blobs[o] = doc.file
    BY <1>7, <1>11, <2>1 DEF SettleObject, ReadBack
  <2>2. CASE blobs[o] # doc.file
    BY <1>8, <1>11, <2>2 DEF SettleObject, ReadBack
  <2> QED BY <2>1, <2>2
<1>12. CASE FillObjectFails(j, a, o)
  BY <1>7, <1>8, <1>12 DEF FillObjectFails, PutFails
<1> QED BY <1>9, <1>10, <1>11, <1>12 DEF o

-----------------------------------------------------------------------------
(* Steps of scans and extractions that change the document.                *)

\* What a fenced transaction of a scan or an extraction does to the tables: it keeps
\* the file and the versions recorded, and catalogues objects that are there.
Transaction ==
  /\ doc.status \notin {"NONE", "DELETED"} /\ doc'.status \notin {"NONE", "DELETED"}
  /\ doc' \in DocRows /\ doc'.file = doc.file
  /\ doc'.status \in Scannable \cup {"SCANNING", "REJECTED"} => doc'.source = "raw"
  /\ versions' \in [Versions -> {"NONE", "FAILED", "OCR", "SUCCEEDED"}]
  /\ \A w \in Versions : versions[w] # "NONE" => versions'[w] # "NONE"
  /\ rows' \in [Objects -> ObjectRows]
  /\ \A o \in Objects :
       \/ rows'[o] = rows[o]
       \/ (blobs[o] = doc.file \/ o \in unlinked) /\ rows'[o] = ActiveObject(doc.file)

\* A transaction keeps everything but what is said of versions and publication.
LEMMA TransactionStep ==
  ASSUME DocumentsInv, Transaction, UNCHANGED <<blobs, unlinked, jobs, upload, BytesOf>>,
         NEW j \in JobIds, NEW a \in AttemptNumbers, NEW n \in HandlerRows,
         Becomes(j, a, n), n.pc \in PlacesOf(j) \ {"put", "fill", "settle", "erased", "commit"},
         jobs[j].status # "NONE", j # CleanupJob,
         n.pc = "enqueue" => j \in DOMAIN AfterScan,
         \A w \in Versions : w < n.version => versions'[w] # "NONE",
         j \in ExtractJobs /\ n.pc \in {"extract", "put", "recordFailure"} => n.version # 0
  PROVE  /\ TypeOK' /\ HandlersOK' /\ OneFiller' /\ OwnersOK' /\ UploadsOK' /\ DocOK'
         /\ BytesBehindRows' /\ CleanupComplete'
<1> USE DEF DocumentsInv
<1>1. /\ ~Erased /\ ~Erased' /\ jobs[CleanupJob].status = "NONE"
      /\ \A o \in Objects : rows[o].retention \notin {"PENDING_DELETE", "DELETED"}
  BY DEF Transaction, Erased, DocOK
<1>2. \A o \in Objects : rows'[o].retention \notin {"PENDING_DELETE", "DELETED"}
  BY <1>1 DEF Transaction, ActiveObject
<1>3. TypeOK'
  BY TypeParts DEF Transaction, TypeOK, DocRows, ObjectRows
<1>4. DocOK'
  BY <1>1, <1>2 DEF DocOK, Transaction, Erased, ActiveObject
<1>5. HandlerFits(j, n)'
  BY DEF HandlerFits
<1>6. OthersFit(j, a)
  <2> SUFFICES ASSUME NEW k \in JobIds, NEW c \in AttemptNumbers, NEW g \in HandlerRows,
                      g = handler[k][c], ~(k = j /\ c = a), HandlerFits(k, g)
               PROVE  HandlerFits(k, g)'
    BY DEF OthersFit
  <2>1. g.pc # "erased"
    BY <1>1 DEF HandlerFits, HandlerRows
  <2> QED BY <1>1, <2>1, FitsKept DEF Transaction
<1>7. HandlersOK' /\ Replaced(j, a, n)
  BY <1>5, <1>6, HandlerStep
<1>8. OneFiller'
  <2> SUFFICES ASSUME NEW k \in JobIds, NEW l \in JobIds, NEW c \in AttemptNumbers,
                      NEW d \in AttemptNumbers, NEW g \in HandlerRows, NEW h \in HandlerRows,
                      g = handler'[k][c], h = handler'[l][d],
                      g.pc \in {"fill", "settle"}, h.pc \in {"fill", "settle"},
                      TargetOf(k, g) = TargetOf(l, h)
               PROVE  k = l /\ c = d
    BY <1>7 DEF OneFiller, Replaced
  <2>1. g = handler[k][c] /\ h = handler[l][d]
    BY <1>7 DEF Replaced
  <2> QED BY <1>1, <2>1 DEF OneFiller
<1>9. OwnersOK'
  <2>1. \A b \in AttemptNumbers : handler[CleanupJob][b].pc = "none"
    BY <1>1, RowOf, Kinds DEF HandlerFits
  <2> QED BY <1>7, <2>1, Kinds DEF OwnersOK, Replaced, Pc
<1>10. UploadsOK'
  BY <1>1 DEF UploadsOK
<1>11. BytesBehindRows'
  BY DEF BytesBehindRows, Transaction, ActiveObject
<1>12. CleanupComplete'
  BY <1>1 DEF CleanupComplete
<1> QED BY <1>3, <1>4, <1>7, <1>8, <1>9, <1>10, <1>11, <1>12

\* Cataloguing an object that is there.
LEMMA CataloguedRows ==
  ASSUME TypeOK, doc.file \in Files, NEW o \in Objects
  PROVE  /\ Catalogued(o) \in [Objects -> ObjectRows]
         /\ \A p \in Objects :
              Catalogued(o)[p] = rows[p] \/ (p = o /\ Catalogued(o)[p] = ActiveObject(doc.file))
         /\ \A p \in Objects :
              rows[p].retention # "NONE" => Catalogued(o)[p].retention = rows[p].retention
         /\ ~CatalogueConflict(o) => Catalogued(o)[o].retention = "ACTIVE"
<1>1. rows \in [Objects -> ObjectRows] /\ rows[o] \in ObjectRows
  BY TypeParts
<1>2. ActiveObject(doc.file) \in ObjectRows /\ ActiveObject(doc.file).retention = "ACTIVE"
  BY Kinds DEF ActiveObject, ObjectRows
<1>3. CASE rows[o].retention = "NONE"
  <2>1. Catalogued(o) = [rows EXCEPT ![o] = ActiveObject(doc.file)]
    BY <1>3 DEF Catalogued
  <2> QED BY <1>1, <1>2, <1>3, <2>1
<1>4. CASE rows[o].retention # "NONE"
  <2>1. Catalogued(o) = rows
    BY <1>4 DEF Catalogued
  <2> QED BY <1>1, <1>4, <2>1 DEF CatalogueConflict
<1> QED BY <1>3, <1>4

\* A quiet step of a handler that fails at a transaction.
LEMMA HandlerFails ==
  ASSUME DocumentsInv, UNCHANGED <<doc, versions, rows, blobs, unlinked, jobs, upload, BytesOf>>,
         NEW j \in JobIds, NEW a \in AttemptNumbers, Pc(j, a) # "none",
         NEW pc \in {"failFatal", "failRetryable"}, Goto(j, a, pc)
  PROVE  DocumentsInv'
<1>1. Quiet
  BY SameJobs DEF Quiet, DocumentsInv
<1>2. jobs[j].status # "NONE" /\ pc \in PlacesOf(j) \ {"fill", "settle", "erased"}
  BY Started, PlacesByType DEF DocumentsInv
<1> QED BY <1>1, <1>2, QuietGoto

\* The first transaction of a scan.
LEMMA BeginScanStep ==
  ASSUME DocumentsInv, UNCHANGED BytesOf, NEW j \in JobIds, NEW a \in AttemptNumbers,
         BeginScan(j, a)
  PROVE  DocumentsInv'
<1>1. /\ j \in ScanJobs /\ j \notin ExtractJobs /\ j # CleanupJob /\ Pc(j, a) = "begin"
      /\ UNCHANGED <<versions, rows, blobs, unlinked, jobs, upload>>
  BY Kinds DEF BeginScan, storeVars, blobVars
<1>2. CASE UNCHANGED doc /\ Goto(j, a, "failFatal")
  BY <1>1, <1>2, HandlerFails
<1>3. CASE /\ doc.status \in Scannable \cup {"SCANNING"}
           /\ doc' = [doc EXCEPT !.status = "SCANNING"] /\ Goto(j, a, "scan")
  <2>1. doc \in DocRows /\ doc.source = "raw" /\ doc.status \notin {"NONE", "DELETED"} /\ TypeOK
    BY <1>3, TypeParts DEF DocumentsInv, DocOK, Scannable
  <2>2. doc' \in DocRows /\ doc'.status = "SCANNING" /\ doc'.file = doc.file
        /\ doc'.source = "raw" /\ doc'.extraction = doc.extraction
        /\ doc'.anchors = doc.anchors /\ doc'.text = doc.text
    BY <1>3, <2>1 DEF DocRows, DocumentStatuses
  <2>3. Transaction
    BY <1>1, <2>1, <2>2, TypeParts DEF Transaction
  <2>4. jobs[j].status # "NONE" /\ HandlerFits(j, handler[j][a]) /\ HandlersOK
        /\ "scan" \in PlacesOf(j) \ {"put", "fill", "settle", "erased", "commit"}
    BY <1>1, Started, RowOf, PlacesByType DEF DocumentsInv
  <2>5. PICK n \in HandlerRows :
          Becomes(j, a, n) /\ n.pc = "scan" /\ n.version = handler[j][a].version
    BY <1>3, <2>4, GotoBecomes
  <2>6. \A w \in Versions : w < n.version => versions'[w] # "NONE"
    BY <1>1, <2>4, <2>5 DEF HandlerFits
  <2>7. /\ TypeOK' /\ HandlersOK' /\ OneFiller' /\ OwnersOK' /\ UploadsOK' /\ DocOK'
        /\ BytesBehindRows' /\ CleanupComplete'
    BY <1>1, <2>3, <2>4, <2>5, <2>6, TransactionStep
  <2>8. VersionsOK'
    BY <1>1 DEF VersionsOK, Recorded, DocumentsInv
  <2>9. CleanBeforeUse'
    BY <2>2 DEF CleanBeforeUse, Extractable
  <2>10. PublishedExtraction'
    BY <1>1, <2>1, <2>2 DEF PublishedExtraction, DocumentsInv
  <2> QED BY <2>7, <2>8, <2>9, <2>10 DEF DocumentsInv
<1> QED BY <1>2, <1>3 DEF BeginScan

\* The second transaction of a scan: the verdict is recorded, and with it the clean
\* object, whose bytes have been put where the row says.
LEMMA CommitScanStep ==
  ASSUME DocumentsInv, UNCHANGED BytesOf, NEW j \in JobIds, NEW a \in AttemptNumbers,
         CommitScan(j, a)
  PROVE  DocumentsInv'
<1> DEFINE scan == handler[j][a].scan
<1>1. /\ j \in ScanJobs /\ j \notin ExtractJobs /\ j # CleanupJob /\ Pc(j, a) = "commit"
      /\ UNCHANGED <<versions, blobs, unlinked, jobs, upload>>
  BY Kinds DEF CommitScan, blobVars
<1>2. CASE Goto(j, a, "failFatal") /\ UNCHANGED <<doc, rows>>
  BY <1>1, <1>2, HandlerFails
<1>3. CASE /\ doc.status = "SCANNING" /\ ~(scan = "CLEAN" /\ CatalogueConflict(Clean))
           /\ doc' = [doc EXCEPT
                !.status = resolveScanDisposition(scan), !.scan = scan,
                !.bypassed = (scan = "ERROR" /\ Bypass),
                !.source = IF scan = "CLEAN" THEN "clean" ELSE @]
           /\ rows' = IF scan = "CLEAN" THEN Catalogued(Clean) ELSE rows
           /\ Goto(j, a, "after")
  <2>1. /\ doc \in DocRows /\ doc.source = "raw" /\ TypeOK /\ doc.file \in Files
        /\ HandlersOK /\ PublishedExtraction
    BY <1>3, TypeParts DEF DocumentsInv, DocOK
  <2>2. handler[j][a] \in HandlerRows /\ HandlerFits(j, handler[j][a])
    BY <2>1, RowOf
  <2>3. scan \in {"none", "CLEAN", "INFECTED", "ERROR"}
    BY <2>2 DEF HandlerRows
  <2>4. scan # "none"
    BY <1>1, <2>2 DEF HandlerFits, Pc
  <2>5. /\ doc'.status = resolveScanDisposition(scan) /\ doc'.scan = scan
        /\ doc'.bypassed = (scan = "ERROR" /\ Bypass) /\ doc'.file = doc.file
        /\ doc'.source = (IF scan = "CLEAN" THEN "clean" ELSE "raw")
        /\ doc'.extraction = doc.extraction /\ doc'.anchors = doc.anchors
        /\ doc'.text = doc.text
    BY <1>3, <2>1 DEF DocRows
  <2>6. /\ scan = "CLEAN" => doc'.status = "CLEAN"
        /\ scan = "INFECTED" => doc'.status = "REJECTED"
        /\ scan = "ERROR" /\ Bypass => doc'.status = "CLEAN" /\ doc'.bypassed
        /\ scan = "ERROR" /\ ~Bypass => doc'.status = "BLOCKED_SCANNER_UNAVAILABLE"
    BY <2>5 DEF resolveScanDisposition
  <2>7. doc' \in DocRows
    <3>1. /\ doc'.status \in DocumentStatuses \cup {"NONE"}
          /\ doc'.scan \in {"UNSCANNED", "CLEAN", "INFECTED", "ERROR"}
          /\ doc'.bypassed \in BOOLEAN /\ doc'.source \in {NoFile, "raw", "clean"}
      BY <2>3, <2>4, <2>5, <2>6 DEF DocumentStatuses
    <3>2. doc' = [doc EXCEPT !.status = doc'.status, !.scan = doc'.scan,
                             !.bypassed = doc'.bypassed, !.source = doc'.source]
      BY <1>3, <2>1, <2>5 DEF DocRows
    <3> QED BY <2>1, <3>1, <3>2 DEF DocRows
  <2>8. scan = "CLEAN" => blobs[Clean] = doc.file \/ Clean \in unlinked
    BY <1>1, <1>3, <2>2 DEF HandlerFits, TargetOf, Erased, Pc
  <2>9. /\ rows' \in [Objects -> ObjectRows]
        /\ \A o \in Objects :
             \/ rows'[o] = rows[o]
             \/ (blobs[o] = doc.file \/ o \in unlinked) /\ rows'[o] = ActiveObject(doc.file)
        /\ \A o \in Objects : rows[o].retention # "NONE" => rows'[o].retention = rows[o].retention
        /\ scan = "CLEAN" => rows'[Clean].retention = "ACTIVE"
    <3>1. CASE scan = "CLEAN"
      BY <1>3, <2>1, <2>8, <3>1, CataloguedRows, ObjectNames
    <3>2. CASE scan # "CLEAN"
      BY <1>3, <2>1, <3>2, TypeParts
    <3> QED BY <3>1, <3>2
  <2>10. doc'.status \in {"CLEAN", "REJECTED", "BLOCKED_SCANNER_UNAVAILABLE"}
         /\ (doc'.status # "CLEAN" => doc'.source = "raw")
    BY <2>3, <2>4, <2>5, <2>6
  <2>11. Transaction
    BY <1>1, <1>3, <2>1, <2>5, <2>7, <2>9, <2>10, TypeParts DEF Transaction, Scannable
  <2>12. jobs[j].status # "NONE" /\ "after" \in PlacesOf(j) \ {"put", "fill", "settle", "erased", "commit"}
    BY <1>1, <2>1, Started, PlacesByType
  <2>13. PICK n \in HandlerRows :
           Becomes(j, a, n) /\ n.pc = "after" /\ n.version = handler[j][a].version
    BY <1>3, <2>1, <2>12, GotoBecomes
  <2>14. \A w \in Versions : w < n.version => versions'[w] # "NONE"
    BY <1>1, <2>2, <2>13 DEF HandlerFits
  <2>15. /\ TypeOK' /\ HandlersOK' /\ OneFiller' /\ OwnersOK' /\ UploadsOK' /\ DocOK'
         /\ BytesBehindRows' /\ CleanupComplete'
    BY <1>1, <2>11, <2>12, <2>13, <2>14, TransactionStep
  <2>16. VersionsOK'
    BY <1>1 DEF VersionsOK, Recorded, DocumentsInv
  <2>17. CleanBeforeUse'
    BY <2>3, <2>4, <2>5, <2>6, <2>9 DEF CleanBeforeUse, Extractable
  <2>18. PublishedExtraction'
    <3>1. \A v \in Versions : Artifact(v) \in Objects
      BY ObjectNames
    <3>2. doc.status # "DELETED" /\ doc'.status # "READY"
      BY <1>3, <2>10
    <3> QED BY <1>1, <2>1, <2>5, <2>9, <3>1, <3>2 DEF PublishedExtraction
  <2> QED BY <2>15, <2>16, <2>17, <2>18 DEF DocumentsInv
<1> QED BY <1>2, <1>3 DEF CommitScan

\* The version an extraction takes is the first that is not recorded.
LEMMA NextIsFree ==
  ASSUME VersionsOK
  PROVE  \E n \in 0..VersionCap :
           /\ Recorded = 1..n /\ NextVersion = n + 1
           /\ \A w \in Versions : w < n + 1 => versions[w] # "NONE"
<1>1. PICK n \in 0..VersionCap : Recorded = 1..n
  BY DEF VersionsOK
<1>2. n \in Nat /\ Cardinality(1..n) = n
  BY Kinds, FS_Interval
<1>3. \A w \in Versions : w < n + 1 => w \in Recorded
  BY <1>1, <1>2, Kinds DEF Versions
<1> QED BY <1>1, <1>2, <1>3 DEF NextVersion, Recorded

\* Versions stay in order when the one recorded follows recorded ones.
LEMMA VersionRecorded ==
  ASSUME VersionsOK, NEW v \in Versions, NEW row, row # "NONE",
         versions \in [Versions -> {"NONE", "FAILED", "OCR", "SUCCEEDED"}],
         versions' = [versions EXCEPT ![v] = row],
         \A w \in Versions : w < v => versions[w] # "NONE"
  PROVE  VersionsOK'
<1>1. PICK n \in 0..VersionCap : Recorded = 1..n
  BY DEF VersionsOK
<1>2. n \in Nat /\ v \in Nat /\ 1 <= v /\ v <= VersionCap /\ VersionCap \in Nat /\ n <= VersionCap
  BY Kinds DEF Versions
<1>3. Recorded' = Recorded \cup {v}
  BY DEF Recorded
<1>4. v <= n + 1
  <2> SUFFICES ASSUME n + 1 < v PROVE FALSE
    BY <1>2
  <2>1. n + 1 \in Versions
    BY <1>2 DEF Versions
  <2>2. n + 1 \in Recorded
    BY <1>2, <2>1 DEF Recorded
  <2> QED BY <1>1, <1>2, <2>2
<1>5. CASE v <= n
  BY <1>1, <1>2, <1>3, <1>5 DEF VersionsOK
<1>6. CASE v = n + 1
  <2>1. Recorded' = 1..v /\ v \in 0..VersionCap
    BY <1>1, <1>2, <1>3, <1>6
  <2> QED BY <2>1 DEF VersionsOK
<1> QED BY <1>2, <1>4, <1>5, <1>6

\* The first transaction of an extraction: it takes the version one above the
\* recorded ones, which another attempt may take too.
LEMMA BeginExtractionStep ==
  ASSUME DocumentsInv, UNCHANGED BytesOf, NEW j \in JobIds, NEW a \in AttemptNumbers,
         BeginExtraction(j, a)
  PROVE  DocumentsInv'
<1>1. /\ j \in ExtractJobs /\ j \notin ScanJobs /\ j # CleanupJob /\ Pc(j, a) = "begin"
      /\ UNCHANGED <<versions, rows, blobs, unlinked, jobs, upload>>
  BY Kinds DEF BeginExtraction, storeVars, blobVars
<1>2. CASE UNCHANGED doc /\ Goto(j, a, "failFatal")
  BY <1>1, <1>2, HandlerFails
<1>3. CASE /\ doc.status \in Extractable \cup {"EXTRACTING"} /\ NextVersion \in Versions
           /\ doc' = [doc EXCEPT !.status = "EXTRACTING"]
           /\ handler' = [handler EXCEPT ![j][a].version = NextVersion, ![j][a].pc = "extract"]
  <2>1. doc \in DocRows /\ doc.status \notin {"NONE", "DELETED"} /\ TypeOK /\ HandlersOK
    BY <1>3, TypeParts DEF DocumentsInv, Extractable
  <2>2. /\ doc' \in DocRows /\ doc'.status = "EXTRACTING" /\ doc'.file = doc.file
        /\ doc'.source = doc.source /\ doc'.extraction = doc.extraction
        /\ doc'.anchors = doc.anchors /\ doc'.text = doc.text /\ doc'.scan = doc.scan
        /\ doc'.bypassed = doc.bypassed
    BY <1>3, <2>1 DEF DocRows, DocumentStatuses
  <2>3. Transaction
    BY <1>1, <2>1, <2>2, TypeParts DEF Transaction, Scannable
  <2>4. /\ jobs[j].status # "NONE" /\ handler[j][a] \in HandlerRows
        /\ "extract" \in PlacesOf(j) \ {"put", "fill", "settle", "erased", "commit"} /\ "extract" \in Places
    BY <1>1, <2>1, Started, RowOf, PlacesByType DEF Places
  <2>5. /\ NextVersion \in 0..VersionCap /\ NextVersion # 0
        /\ \A w \in Versions : w < NextVersion => versions[w] # "NONE"
    BY <1>3, NextIsFree, Kinds DEF DocumentsInv, Versions
  <2> DEFINE n == [handler[j][a] EXCEPT !.version = NextVersion, !.pc = "extract"]
  <2>6. n \in HandlerRows /\ n.pc = "extract" /\ n.version = NextVersion
    BY <2>4, <2>5 DEF HandlerRows
  <2>7. Becomes(j, a, n)
    BY <1>3 DEF Becomes
  <2> HIDE DEF n
  <2>8. \A w \in Versions : w < n.version => versions'[w] # "NONE"
    BY <1>1, <2>5, <2>6
  <2>9. /\ TypeOK' /\ HandlersOK' /\ OneFiller' /\ OwnersOK' /\ UploadsOK' /\ DocOK'
        /\ BytesBehindRows' /\ CleanupComplete'
    BY <1>1, <2>3, <2>4, <2>5, <2>6, <2>7, <2>8, TransactionStep
  <2>10. VersionsOK'
    BY <1>1 DEF VersionsOK, Recorded, DocumentsInv
  <2>11. CleanBeforeUse'
    BY <1>1, <1>3, <2>2 DEF CleanBeforeUse, DocumentsInv
  <2>12. PublishedExtraction'
    BY <1>1, <2>1, <2>2 DEF PublishedExtraction, DocumentsInv
  <2> QED BY <2>9, <2>10, <2>11, <2>12 DEF DocumentsInv
<1> QED BY <1>2, <1>3 DEF BeginExtraction

\* A failed extraction records its version, unless another attempt has.
LEMMA RecordFailureStep ==
  ASSUME DocumentsInv, UNCHANGED BytesOf, NEW j \in JobIds, NEW a \in AttemptNumbers,
         recordExtractionFailure(j, a)
  PROVE  DocumentsInv'
<1> DEFINE v == handler[j][a].version
<1>1. /\ j \in ExtractJobs /\ j \notin ScanJobs /\ j # CleanupJob /\ Pc(j, a) = "recordFailure"
      /\ UNCHANGED <<rows, blobs, unlinked, jobs, upload>>
  BY Kinds DEF recordExtractionFailure, storeVars, blobVars
<1>2. PICK pc \in {"failFatal", "failRetryable"} : Goto(j, a, pc)
  BY DEF recordExtractionFailure
<1>3. CASE doc.status # "EXTRACTING"
  <2>1. UNCHANGED <<doc, versions>>
    BY <1>3 DEF recordExtractionFailure, docVars
  <2> QED BY <1>1, <1>2, <2>1, HandlerFails
<1>4. CASE doc.status = "EXTRACTING"
  <2>1. doc \in DocRows /\ TypeOK /\ HandlersOK
        /\ versions \in [Versions -> {"NONE", "FAILED", "OCR", "SUCCEEDED"}]
    BY TypeParts DEF DocumentsInv
  <2>2. handler[j][a] \in HandlerRows /\ HandlerFits(j, handler[j][a])
    BY <2>1, RowOf
  <2>3. v \in Versions /\ \A w \in Versions : w < v => versions[w] # "NONE"
    BY <1>1, <2>2, Kinds DEF HandlerFits, HandlerRows, Versions, Pc
  <2> DEFINE row == IF versions[v] = "NONE" THEN "FAILED" ELSE versions[v]
  <2>4. /\ doc' = [doc EXCEPT !.status = "EXTRACTION_FAILED"]
        /\ versions' = [versions EXCEPT ![v] = row]
    BY <1>4 DEF recordExtractionFailure
  <2>5. /\ doc' \in DocRows /\ doc'.status = "EXTRACTION_FAILED" /\ doc'.file = doc.file
        /\ doc'.source = doc.source /\ doc'.extraction = doc.extraction
        /\ doc'.anchors = doc.anchors /\ doc'.text = doc.text /\ doc'.scan = doc.scan
        /\ doc'.bypassed = doc.bypassed
    BY <2>1, <2>4 DEF DocRows, DocumentStatuses
  <2>6. row \in {"FAILED", "OCR", "SUCCEEDED"} /\ row # "NONE"
        /\ (row \in {"OCR", "SUCCEEDED"} => versions[v] = row)
        /\ (versions[v] \in {"OCR", "SUCCEEDED"} => versions[v] = row)
    BY <2>1, <2>3
  <2> HIDE DEF row
  <2>7. /\ versions' \in [Versions -> {"NONE", "FAILED", "OCR", "SUCCEEDED"}]
        /\ \A w \in Versions : versions[w] # "NONE" => versions'[w] # "NONE"
        /\ \A w \in Versions :
             versions'[w] \in {"OCR", "SUCCEEDED"} <=> versions[w] \in {"OCR", "SUCCEEDED"}
    BY <2>1, <2>3, <2>4, <2>6
  <2>8. Transaction
    BY <1>1, <1>4, <2>1, <2>5, <2>7, TypeParts DEF Transaction, Scannable
  <2>9. /\ jobs[j].status # "NONE" /\ pc \in PlacesOf(j) \ {"put", "fill", "settle", "erased", "commit"}
    BY <1>1, <2>1, Started, PlacesByType
  <2>10. PICK n \in HandlerRows :
           Becomes(j, a, n) /\ n.pc = pc /\ n.version = handler[j][a].version
    BY <1>2, <2>1, <2>9, GotoBecomes
  <2>11. \A w \in Versions : w < n.version => versions'[w] # "NONE"
    BY <2>3, <2>7, <2>10
  <2>12. /\ TypeOK' /\ HandlersOK' /\ OneFiller' /\ OwnersOK' /\ UploadsOK' /\ DocOK'
         /\ BytesBehindRows' /\ CleanupComplete'
    BY <1>1, <2>8, <2>9, <2>10, <2>11, TransactionStep
  <2>13. VersionsOK'
    BY <2>1, <2>3, <2>4, <2>6, VersionRecorded DEF DocumentsInv
  <2>14. CleanBeforeUse'
    BY <1>1, <1>4, <2>5 DEF CleanBeforeUse, DocumentsInv
  <2>15. PublishedExtraction'
    BY <1>1, <1>4, <2>5, <2>7 DEF PublishedExtraction, DocumentsInv
  <2> QED BY <2>12, <2>13, <2>14, <2>15 DEF DocumentsInv
<1> QED BY <1>3, <1>4

\* A version that is not recorded is above the recorded ones.
LEMMA UnrecordedIsNewest ==
  ASSUME VersionsOK, NEW v \in Versions, versions[v] = "NONE"
  PROVE  \A w \in Versions : versions[w] # "NONE" => w <= v
<1> SUFFICES ASSUME NEW w \in Versions, versions[w] # "NONE"
             PROVE  w <= v
  OBVIOUS
<1>1. PICK n \in 0..VersionCap : Recorded = 1..n
  BY DEF VersionsOK
<1>2. w \in 1..n /\ v \notin 1..n
  BY <1>1 DEF Recorded
<1>3. v \in Nat \ {0} /\ w \in Nat \ {0} /\ n \in Nat
  BY Kinds
<1> QED BY <1>2, <1>3

\* The transaction that publishes an extraction: the version that has not been
\* recorded is above every recorded one, and its artifact has been put.
LEMMA CommitExtractionStep ==
  ASSUME DocumentsInv, UNCHANGED BytesOf, NEW j \in JobIds, NEW a \in AttemptNumbers,
         CommitExtraction(j, a)
  PROVE  DocumentsInv'
<1> DEFINE v == handler[j][a].version
           ocr == doc.file \in ImageOnly
<1>1. /\ j \in ExtractJobs /\ j \notin ScanJobs /\ j # CleanupJob /\ Pc(j, a) = "commit"
      /\ UNCHANGED <<blobs, unlinked, jobs, upload>> /\ HandlersOK
      /\ jobs[j].status # "NONE"
  BY Kinds, Started DEF CommitExtraction, DocumentsInv, blobVars
<1>2. handler[j][a] \in HandlerRows /\ HandlerFits(j, handler[j][a])
  BY <1>1, RowOf
<1>3. v \in Versions /\ \A w \in Versions : w < v => versions[w] # "NONE"
  BY <1>1, <1>2, Kinds DEF HandlerFits, HandlerRows, Versions, Pc
<1>4. CASE Goto(j, a, "recordFailure") /\ UNCHANGED <<doc, versions, rows>>
  <2>1. Quiet
    BY <1>1, <1>4, SameJobs DEF Quiet, DocumentsInv
  <2>2. "recordFailure" \in PlacesOf(j) \ {"fill", "settle", "erased"} /\ v # 0
    BY <1>1, <1>3, Kinds, PlacesByType
  <2> QED BY <1>1, <1>4, <2>1, <2>2, QuietGoto
<1>5. CASE /\ ~StaleExtraction(v)
           /\ versions' = [versions EXCEPT ![v] = IF ocr THEN "OCR" ELSE "SUCCEEDED"]
           /\ rows' = Catalogued(Artifact(v))
           /\ doc' = IF ocr
                     THEN [doc EXCEPT !.status = "OCR_REQUIRED_UNSUPPORTED", !.extraction = v]
                     ELSE Published(v)
           /\ Goto(j, a, "returned")
  <2>1. /\ doc \in DocRows /\ TypeOK /\ doc.file \in Files /\ PublishedExtraction
        /\ versions \in [Versions -> {"NONE", "FAILED", "OCR", "SUCCEEDED"}]
        /\ doc.status = "EXTRACTING" /\ versions[v] = "NONE" /\ ~CatalogueConflict(Artifact(v))
    BY <1>5, TypeParts DEF DocumentsInv, DocOK, StaleExtraction
  <2>2. /\ Artifact(v) \in Objects
        /\ blobs[Artifact(v)] = doc.file \/ Artifact(v) \in unlinked
    BY <1>1, <1>2, <1>3, <2>1, ObjectNames DEF HandlerFits, TargetOf, Erased, Pc
  <2> DEFINE row == IF ocr THEN "OCR" ELSE "SUCCEEDED"
  <2>3. versions' = [versions EXCEPT ![v] = row] /\ row \in {"OCR", "SUCCEEDED"} /\ row # "NONE"
    BY <1>5
  <2>4. /\ doc'.status = (IF ocr THEN "OCR_REQUIRED_UNSUPPORTED" ELSE "READY")
        /\ doc'.file = doc.file /\ doc'.source = doc.source /\ doc'.scan = doc.scan
        /\ doc'.bypassed = doc.bypassed /\ doc'.extraction = v
        /\ IF ocr THEN doc'.anchors = doc.anchors /\ doc'.text = doc.text
           ELSE doc'.anchors = {v} /\ doc'.text = v
    BY <1>5, <2>1 DEF Published, DocRows
  <2>5. doc' \in DocRows
    <3>1. v \in 0..VersionCap /\ {v} \in SUBSET Versions
      BY <1>3, Kinds DEF Versions
    <3>2. CASE ocr
      BY <1>5, <2>1, <3>1, <3>2 DEF DocRows, DocumentStatuses
    <3>3. CASE ~ocr
      BY <1>5, <2>1, <3>1, <3>3 DEF DocRows, DocumentStatuses, Published
    <3> QED BY <3>2, <3>3
  <2> HIDE DEF row
  <2>6. /\ versions' \in [Versions -> {"NONE", "FAILED", "OCR", "SUCCEEDED"}]
        /\ \A w \in Versions : versions[w] # "NONE" => versions'[w] # "NONE"
        /\ versions'[v] \in {"OCR", "SUCCEEDED"}
        /\ \A w \in Versions : w # v => versions'[w] = versions[w]
    BY <1>3, <2>1, <2>3
  <2>7. /\ rows' \in [Objects -> ObjectRows]
        /\ \A o \in Objects :
             \/ rows'[o] = rows[o]
             \/ (blobs[o] = doc.file \/ o \in unlinked) /\ rows'[o] = ActiveObject(doc.file)
        /\ \A o \in Objects : rows[o].retention # "NONE" => rows'[o].retention = rows[o].retention
        /\ rows'[Artifact(v)].retention = "ACTIVE"
    BY <1>5, <2>1, <2>2, CataloguedRows
  <2>8. Transaction
    BY <1>1, <2>1, <2>4, <2>5, <2>6, <2>7 DEF Transaction, Scannable
  <2>9. "returned" \in PlacesOf(j) \ {"put", "fill", "settle", "erased", "commit"}
    BY PlacesByType
  <2>10. PICK n \in HandlerRows :
           Becomes(j, a, n) /\ n.pc = "returned" /\ n.version = v
    BY <1>1, <1>5, <2>9, GotoBecomes
  <2>11. \A w \in Versions : w < n.version => versions'[w] # "NONE"
    BY <1>3, <2>6, <2>10
  <2>12. /\ TypeOK' /\ HandlersOK' /\ OneFiller' /\ OwnersOK' /\ UploadsOK' /\ DocOK'
         /\ BytesBehindRows' /\ CleanupComplete'
    BY <1>1, <2>8, <2>9, <2>10, <2>11, TransactionStep
  <2>13. VersionsOK'
    BY <1>3, <2>1, <2>3, VersionRecorded DEF DocumentsInv
  <2>14. CleanBeforeUse'
    <3>1. rows[Clean].retention = "ACTIVE" => rows'[Clean].retention = "ACTIVE"
      BY <2>7, ObjectNames
    <3> QED BY <2>1, <2>4, <3>1 DEF CleanBeforeUse, DocumentsInv
  <2>15. PublishedExtraction'
    <3>1. \A w \in Versions : versions[w] # "NONE" => w <= v
      BY <1>3, <2>1, UnrecordedIsNewest DEF DocumentsInv
    <3>2. \A w \in Versions : versions'[w] \in {"OCR", "SUCCEEDED"} => w <= v
      BY <1>3, <2>1, <2>6, <3>1, Kinds
    <3>3. doc'.anchors = (IF doc'.text = 0 THEN {} ELSE {doc'.text})
      BY <1>3, <2>1, <2>4, Kinds DEF PublishedExtraction
    <3>4. doc'.status = "READY" => doc'.text = doc'.extraction
      BY <2>4
    <3> QED BY <1>3, <2>4, <2>6, <2>7, <3>2, <3>3, <3>4 DEF PublishedExtraction
  <2> QED BY <2>12, <2>13, <2>14, <2>15 DEF DocumentsInv
<1> QED BY <1>4, <1>5 DEF CommitExtraction

-----------------------------------------------------------------------------
(* Deletion and cleanup.                                                   *)

\* What a step of the cleanup does to the catalogue and the store: rows only go from
\* PENDING_DELETE to DELETED, and bytes are only touched of a deleted document.
CleanupMove ==
  /\ UNCHANGED <<doc, versions, unlinked, jobs, upload, BytesOf>>
  /\ rows' \in [Objects -> ObjectRows]
  /\ blobs' \in [Objects -> Files \cup {NoFile, PartialFile}]
  /\ UNCHANGED blobs \/ Erased
  /\ \A o \in Objects :
       /\ rows'[o].sha256 = rows[o].sha256
       /\ \/ rows'[o].retention = rows[o].retention
          \/ rows[o].retention = "PENDING_DELETE" /\ rows'[o].retention = "DELETED"

\* Such a step keeps what the tables say.
LEMMA CleanupState ==
  ASSUME DocumentsInv, CleanupMove
  PROVE  /\ TypeOK' /\ UploadsOK' /\ DocOK' /\ VersionsOK' /\ BytesBehindRows'
         /\ CleanBeforeUse' /\ PublishedExtraction' /\ CleanupComplete'
         /\ (Erased' <=> Erased) /\ (Pending = {} => Pending' = {})
<1> USE DEF DocumentsInv
<1>1. TypeOK'
  BY TypeParts DEF CleanupMove, TypeOK, ObjectRows
<1>2. Erased' <=> Erased
  BY DEF Erased, CleanupMove
<1>3. UploadsOK'
  BY <1>2 DEF UploadsOK, CleanupMove
<1>4. DocOK'
  BY DEF DocOK, CleanupMove, Erased
<1>5. VersionsOK'
  BY DEF VersionsOK, Recorded, CleanupMove
<1>6. BytesBehindRows'
  BY DEF BytesBehindRows, CleanupMove, DocOK, Erased
<1>7. CleanBeforeUse'
  BY ObjectNames DEF CleanBeforeUse, CleanupMove, DocOK, Erased, Extractable
<1>8. PublishedExtraction'
  <2>1. \A v \in Versions : Artifact(v) \in Objects
    BY ObjectNames
  <2> QED BY <2>1 DEF PublishedExtraction, CleanupMove
<1>9. CleanupComplete'
  BY DEF CleanupComplete, CleanupMove
<1>10. Pending = {} => Pending' = {}
  BY DEF Pending, CleanupMove
<1> QED BY <1>1, <1>2, <1>3, <1>4, <1>5, <1>6, <1>7, <1>8, <1>9, <1>10

\* ... and what handlers rely on, except the one whose object it marks.
LEMMA CleanupFits ==
  ASSUME DocumentsInv, CleanupMove, NEW k \in JobIds, NEW g \in HandlerRows, HandlerFits(k, g),
         g.pc = "erased" => rows'[g.object].retention = "PENDING_DELETE"
  PROVE  HandlerFits(k, g)'
<1>1. (Erased' <=> Erased) /\ (Pending = {} => Pending' = {})
  BY CleanupState
<1>2. g.pc \in {"fill", "settle", "commit"} /\ ~Erased' =>
        blobs'[TargetOf(k, g)] = blobs[TargetOf(k, g)]
  BY <1>1 DEF CleanupMove
<1> QED BY <1>1, <1>2, FitsKept DEF CleanupMove, DocumentsInv

\* A lease on claimed objects runs out.
LEMMA CleanupLeaseExpiresStep ==
  ASSUME DocumentsInv, UNCHANGED BytesOf, NEW o \in Objects, CleanupLeaseExpires(o)
  PROVE  DocumentsInv' /\ CleanupMove
<1> USE DEF DocumentsInv
<1>1. /\ rows \in [Objects -> ObjectRows] /\ rows[o] \in ObjectRows
      /\ blobs \in [Objects -> Files \cup {NoFile, PartialFile}]
  BY TypeParts
<1>2. /\ rows' = [rows EXCEPT ![o].owner = 0] /\ ~Locked(o)
      /\ UNCHANGED <<doc, versions, blobs, unlinked, jobs, handler, upload>>
  BY DEF CleanupLeaseExpires, docVars, blobVars
<1>3. /\ rows' \in [Objects -> ObjectRows]
      /\ \A p \in Objects : /\ rows'[p].sha256 = rows[p].sha256
                            /\ rows'[p].retention = rows[p].retention
                            /\ p # o => rows'[p] = rows[p]
  BY <1>1, <1>2, Kinds DEF ObjectRows
<1>4. CleanupMove
  BY <1>1, <1>2, <1>3 DEF CleanupMove
<1>5. HandlersOK'
  <2>1. handler' \in [JobIds -> [AttemptNumbers -> HandlerRows]]
    BY <1>2 DEF HandlersOK
  <2>2. ASSUME NEW k \in JobIds, NEW b \in AttemptNumbers, NEW g \in HandlerRows,
               g = handler'[k][b]
        PROVE  HandlerFits(k, g)'
    <3>1. HandlerFits(k, g)
      BY <1>2, <2>2, RowOf
    <3>2. g.pc = "erased" => rows'[g.object].retention = "PENDING_DELETE"
      BY <1>3, <3>1 DEF HandlerFits, HandlerRows
    <3> QED BY <1>4, <3>1, <3>2, CleanupFits
  <2> QED BY <2>1, <2>2, HandlersNext
<1>6. OneFiller'
  BY <1>2, <1>4, CleanupState DEF OneFiller, TargetOf
<1>7. OwnersOK'
  <2> SUFFICES ASSUME NEW a \in AttemptNumbers, handler[CleanupJob][a].pc = "erased"
               PROVE  rows'[handler[CleanupJob][a].object].owner = a
    BY <1>2 DEF OwnersOK, Pc
  <2>1. handler[CleanupJob][a].object \in Objects
    BY RowOf, Kinds DEF HandlerRows
  <2>2. handler[CleanupJob][a].object # o
    BY <1>2 DEF Locked, Pc
  <2> QED BY <1>3, <2>1, <2>2 DEF OwnersOK, Pc
<1> QED BY <1>4, <1>5, <1>6, <1>7, CleanupState

\* A step of a cleanup handler, to a row that fits: the objects of the other cleanups
\* keep their claims.
LEMMA CleanupHandler ==
  ASSUME DocumentsInv, CleanupMove, NEW a \in AttemptNumbers, NEW n \in HandlerRows,
         Becomes(CleanupJob, a, n), n.pc \in {"delete", "erased"},
         n.version = handler[CleanupJob][a].version,
         Pc(CleanupJob, a) # "none",
         n.pc = "erased" => /\ rows'[n.object].retention = "PENDING_DELETE"
                            /\ rows'[n.object].owner = a,
         \A b \in AttemptNumbers, g \in HandlerRows :
           g = handler[CleanupJob][b] /\ b # a /\ g.pc = "erased" => rows'[g.object] = rows[g.object]
  PROVE  DocumentsInv'
<1> USE DEF DocumentsInv
<1>1. /\ jobs[CleanupJob].status # "NONE" /\ n.pc \in PlacesOf(CleanupJob) /\ CleanupJob \in JobIds
      /\ CleanupJob \notin ScanJobs /\ CleanupJob \notin ExtractJobs
  BY Started, PlacesByType, Kinds
<1>2. HandlerFits(CleanupJob, handler[CleanupJob][a])
  BY <1>1, RowOf
<1>3. HandlerFits(CleanupJob, n)'
  BY <1>1, <1>2 DEF HandlerFits, CleanupMove
<1>4. OthersFit(CleanupJob, a)
  <2> SUFFICES ASSUME NEW k \in JobIds, NEW c \in AttemptNumbers, NEW g \in HandlerRows,
                      g = handler[k][c], ~(k = CleanupJob /\ c = a), HandlerFits(k, g)
               PROVE  HandlerFits(k, g)'
    BY DEF OthersFit
  <2>1. g.pc = "erased" => k = CleanupJob
    BY Kinds DEF HandlerFits, PlacesOf, Anywhere, Outcomes
  <2>2. g.pc = "erased" => rows'[g.object].retention = "PENDING_DELETE"
    BY <2>1 DEF HandlerFits
  <2> QED BY <2>2, CleanupFits
<1>5. HandlersOK' /\ Replaced(CleanupJob, a, n)
  BY <1>1, <1>3, <1>4, HandlerStep
<1>6. OneFiller'
  <2> SUFFICES ASSUME ~Erased, NEW k \in JobIds, NEW l \in JobIds, NEW c \in AttemptNumbers,
                      NEW d \in AttemptNumbers, NEW g \in HandlerRows, NEW h \in HandlerRows,
                      g = handler'[k][c], h = handler'[l][d],
                      g.pc \in {"fill", "settle"}, h.pc \in {"fill", "settle"},
                      TargetOf(k, g) = TargetOf(l, h)
               PROVE  k = l /\ c = d
    BY <1>5, CleanupState DEF OneFiller, Replaced
  <2>1. g = handler[k][c] /\ h = handler[l][d]
    BY <1>5 DEF Replaced
  <2> QED BY <2>1 DEF OneFiller
<1>7. OwnersOK'
  <2> SUFFICES ASSUME NEW b \in AttemptNumbers, NEW g \in HandlerRows,
                      g = handler'[CleanupJob][b], g.pc = "erased"
               PROVE  rows'[g.object].owner = b
    BY <1>1, <1>5 DEF OwnersOK, Pc, Replaced
  <2>1. CASE b = a
    BY <1>1, <1>5, <2>1 DEF Replaced
  <2>2. CASE b # a
    <3>1. g = handler[CleanupJob][b]
      BY <1>1, <1>5, <2>2 DEF Replaced
    <3>2. rows[g.object].owner = b
      BY <3>1 DEF OwnersOK, Pc
    <3> QED BY <2>2, <3>1, <3>2
  <2> QED BY <2>1, <2>2
<1> QED BY <1>5, <1>6, <1>7, CleanupState

\* A batch of candidates is claimed: rows nobody owns and nobody has locked.
LEMMA ClaimStep ==
  ASSUME DocumentsInv, UNCHANGED BytesOf, NEW a \in AttemptNumbers, claimDeletionCandidates(a)
  PROVE  DocumentsInv' /\ CleanupMove
<1> USE DEF DocumentsInv
<1> DEFINE claims == {o \in Pending : rows[o].owner = 0 /\ ~Locked(o)}
<1>1. /\ rows' = [o \in Objects |-> IF o \in claims THEN [rows[o] EXCEPT !.owner = a] ELSE rows[o]]
      /\ handler' = [handler EXCEPT ![CleanupJob][a] =
           [@ EXCEPT !.pc = "delete", !.claims = claims, !.failed = FALSE, !.progress = FALSE]]
      /\ Pc(CleanupJob, a) = "state" /\ UNCHANGED <<doc, versions, blobs, unlinked, jobs, upload>>
  BY DEF claimDeletionCandidates, docVars, blobVars
<1>2. rows \in [Objects -> ObjectRows] /\ blobs \in [Objects -> Files \cup {NoFile, PartialFile}]
  BY TypeParts
<1>3. claims \subseteq Objects /\ \A o \in claims : ~Locked(o)
  BY DEF Pending
<1> HIDE DEF claims
<1>4. /\ rows' \in [Objects -> ObjectRows]
      /\ \A o \in Objects : /\ rows'[o].sha256 = rows[o].sha256
                            /\ rows'[o].retention = rows[o].retention
                            /\ o \notin claims => rows'[o] = rows[o]
  <2>1. a \in 0..AttemptCap
    BY Kinds DEF AttemptNumbers
  <2> QED BY <1>1, <1>2, <2>1 DEF ObjectRows
<1>5. CleanupMove
  BY <1>1, <1>2, <1>4 DEF CleanupMove
<1>6. handler[CleanupJob][a] \in HandlerRows
  BY RowOf, Kinds
<1> DEFINE n == [handler[CleanupJob][a] EXCEPT !.pc = "delete", !.claims = claims,
                   !.failed = FALSE, !.progress = FALSE]
<1>7. n \in HandlerRows /\ n.pc = "delete" /\ n.version = handler[CleanupJob][a].version
  BY <1>3, <1>6 DEF HandlerRows, Places
<1>8. Becomes(CleanupJob, a, n)
  BY <1>1 DEF Becomes
<1> HIDE DEF n
<1>9. ASSUME NEW b \in AttemptNumbers, NEW g \in HandlerRows,
             g = handler[CleanupJob][b], b # a, g.pc = "erased"
      PROVE  rows'[g.object] = rows[g.object]
  <2>1. Locked(g.object) /\ g.object \in Objects
    BY <1>9 DEF Locked, Pc, HandlerRows
  <2> QED BY <1>3, <1>4, <2>1
<1> QED BY <1>1, <1>5, <1>7, <1>8, <1>9, CleanupHandler

\* The candidate a cleanup takes next is one of the objects it has claimed.
LEMMA NextClaimIsObject ==
  ASSUME HandlersOK, NEW a \in AttemptNumbers, Deleting(a)
  PROVE  NextClaim(a) \in Objects /\ ~Locked(NextClaim(a))
<1>1. handler[CleanupJob][a].claims \subseteq Objects
  BY RowOf, Kinds DEF HandlerRows
<1>2. handler[CleanupJob][a].claims # {} /\ ~Locked(NextClaim(a))
  BY DEF Deleting
<1>3. NextClaim(a) \in handler[CleanupJob][a].claims
  BY <1>2 DEF NextClaim
<1> QED BY <1>1, <1>2, <1>3

\* The object of a claimed candidate is deleted, or the claim turns out to be lost.
LEMMA DeleteClaimedStep ==
  ASSUME DocumentsInv, UNCHANGED BytesOf, NEW a \in AttemptNumbers, deleteClaimed(a)
  PROVE  DocumentsInv' /\ CleanupMove
<1> USE DEF DocumentsInv
<1> DEFINE o == NextClaim(a)
           h == handler[CleanupJob][a]
           rest == h.claims \ {o}
<1>1. o \in Objects /\ h.pc = "delete"
  BY NextClaimIsObject DEF deleteClaimed, Deleting, Pc
<1>2. h \in HandlerRows /\ HandlersOK
  BY RowOf, Kinds
<1>3. h.claims \in SUBSET Objects /\ rest \in SUBSET Objects /\ h.object \in Objects
      /\ h.failed \in BOOLEAN
  BY <1>2 DEF HandlerRows
<1>4. /\ rows \in [Objects -> ObjectRows] /\ blobs \in [Objects -> Files \cup {NoFile, PartialFile}]
      /\ UNCHANGED <<doc, versions, rows, unlinked, jobs, upload>>
  BY TypeParts DEF deleteClaimed, docVars
<1>5. CASE StillClaimed(o, a)
  <2>1. /\ blobs' = [blobs EXCEPT ![o] = NoFile]
        /\ HandleClaim(a, [h EXCEPT !.pc = "erased", !.object = o])
    BY <1>5 DEF deleteClaimed
  <2>2. Erased
    BY <1>1, <1>5 DEF StillClaimed, DocOK
  <2>3. CleanupMove
    BY <1>4, <2>1, <2>2 DEF CleanupMove
  <2> DEFINE n == [h EXCEPT !.pc = "erased", !.object = o, !.failed = h.failed, !.claims = rest]
  <2>4. n \in HandlerRows /\ n.pc = "erased" /\ n.version = h.version /\ n.object = o
    BY <1>1, <1>2, <1>3 DEF HandlerRows, Places
  <2>5. [[h EXCEPT !.pc = "erased", !.object = o] EXCEPT !.claims = @ \ {o}] = n
    BY <1>2 DEF HandlerRows
  <2>6. Becomes(CleanupJob, a, n)
    BY <2>1, <2>5 DEF Becomes, HandleClaim
  <2> HIDE DEF n
  <2>7. rows'[n.object].retention = "PENDING_DELETE" /\ rows'[n.object].owner = a
    BY <1>4, <1>5, <2>4 DEF StillClaimed
  <2> QED BY <1>1, <1>4, <2>3, <2>4, <2>6, <2>7, CleanupHandler DEF Pc
<1>6. CASE ~StillClaimed(o, a)
  <2>1. UNCHANGED blobs /\ HandleClaim(a, [h EXCEPT !.failed = TRUE])
    BY <1>6 DEF deleteClaimed
  <2>2. CleanupMove
    BY <1>4, <2>1 DEF CleanupMove
  <2> DEFINE n == [h EXCEPT !.pc = "delete", !.object = h.object, !.failed = TRUE, !.claims = rest]
  <2>3. n \in HandlerRows /\ n.pc = "delete" /\ n.version = h.version
    BY <1>2, <1>3 DEF HandlerRows, Places
  <2>4. [[h EXCEPT !.failed = TRUE] EXCEPT !.claims = @ \ {o}] = n
    BY <1>1, <1>2 DEF HandlerRows
  <2>5. Becomes(CleanupJob, a, n)
    BY <2>1, <2>4 DEF Becomes, HandleClaim
  <2> HIDE DEF n
  <2> QED BY <1>1, <1>4, <2>2, <2>3, <2>5, CleanupHandler DEF Pc
<1> QED BY <1>5, <1>6

\* The store refuses to delete: the claim is given back.
LEMMA MarkDeleteFailedStep ==
  ASSUME DocumentsInv, UNCHANGED BytesOf, NEW a \in AttemptNumbers, markDeleteFailed(a)
  PROVE  DocumentsInv' /\ CleanupMove
<1> USE DEF DocumentsInv
<1> DEFINE o == NextClaim(a)
           h == handler[CleanupJob][a]
           rest == h.claims \ {o}
<1>1. o \in Objects /\ h.pc = "delete" /\ ~Locked(o)
  BY NextClaimIsObject DEF markDeleteFailed, Deleting, Pc
<1>2. h \in HandlerRows /\ HandlersOK
  BY RowOf, Kinds
<1>3. h.claims \in SUBSET Objects /\ rest \in SUBSET Objects /\ h.object \in Objects
  BY <1>2 DEF HandlerRows
<1>4. /\ rows \in [Objects -> ObjectRows] /\ blobs \in [Objects -> Files \cup {NoFile, PartialFile}]
      /\ UNCHANGED <<doc, versions, blobs, unlinked, jobs, upload>>
      /\ rows' = [rows EXCEPT ![o].owner = 0]
      /\ HandleClaim(a, [h EXCEPT !.failed = TRUE])
  BY TypeParts DEF markDeleteFailed, docVars, blobVars
<1>5. /\ rows' \in [Objects -> ObjectRows]
      /\ \A p \in Objects : /\ rows'[p].sha256 = rows[p].sha256
                            /\ rows'[p].retention = rows[p].retention
                            /\ p # o => rows'[p] = rows[p]
  BY <1>1, <1>4, Kinds DEF ObjectRows
<1>6. CleanupMove
  BY <1>4, <1>5 DEF CleanupMove
<1> DEFINE n == [h EXCEPT !.pc = "delete", !.object = h.object, !.failed = TRUE, !.claims = rest]
<1>7. n \in HandlerRows /\ n.pc = "delete" /\ n.version = h.version
  BY <1>2, <1>3 DEF HandlerRows, Places
<1>8. [[h EXCEPT !.failed = TRUE] EXCEPT !.claims = @ \ {o}] = n
  BY <1>1, <1>2 DEF HandlerRows
<1>9. Becomes(CleanupJob, a, n)
  BY <1>4, <1>8 DEF Becomes, HandleClaim
<1> HIDE DEF n
<1>10. ASSUME NEW b \in AttemptNumbers, NEW g \in HandlerRows,
              g = handler[CleanupJob][b], b # a, g.pc = "erased"
       PROVE  rows'[g.object] = rows[g.object]
  <2>1. Locked(g.object) /\ g.object \in Objects
    BY <1>10 DEF Locked, Pc, HandlerRows
  <2> QED BY <1>1, <1>5, <2>1
<1> QED BY <1>1, <1>6, <1>7, <1>9, <1>10, CleanupHandler DEF Pc

\* The row of the deleted object follows: it is claimed by this cleanup alone.
LEMMA MarkDeletedStep ==
  ASSUME DocumentsInv, UNCHANGED BytesOf, NEW a \in AttemptNumbers, MarkDeleted(a)
  PROVE  DocumentsInv' /\ CleanupMove
<1> USE DEF DocumentsInv
<1> DEFINE h == handler[CleanupJob][a]
           o == h.object
<1>1. /\ h \in HandlerRows /\ HandlerFits(CleanupJob, h) /\ h.pc = "erased" /\ HandlersOK
      /\ o \in Objects
  BY RowOf, Kinds DEF MarkDeleted, Pc, HandlerRows
<1>2. rows[o].retention = "PENDING_DELETE" /\ rows[o].owner = a
  BY <1>1 DEF HandlerFits, OwnersOK, Pc
<1>3. /\ rows \in [Objects -> ObjectRows] /\ blobs \in [Objects -> Files \cup {NoFile, PartialFile}]
      /\ UNCHANGED <<doc, versions, blobs, unlinked, jobs, upload>>
      /\ rows' = [rows EXCEPT ![o].retention = "DELETED", ![o].owner = 0]
      /\ handler' = [handler EXCEPT ![CleanupJob][a].pc = "delete", ![CleanupJob][a].progress = TRUE]
  BY TypeParts DEF MarkDeleted, docVars, blobVars
<1> HIDE DEF o
<1>4. /\ rows' \in [Objects -> ObjectRows]
      /\ rows'[o].sha256 = rows[o].sha256 /\ rows'[o].retention = "DELETED"
      /\ \A p \in Objects : p # o => rows'[p] = rows[p]
  <2> DEFINE row == [rows[o] EXCEPT !.retention = "DELETED", !.owner = 0]
  <2>1. row \in ObjectRows /\ row.sha256 = rows[o].sha256 /\ row.retention = "DELETED"
    <3>1. rows[o] \in ObjectRows /\ 0 \in 0..AttemptCap
      BY <1>1, <1>3, Kinds
    <3> QED BY <3>1 DEF ObjectRows
  <2>2. rows \in [Objects -> ObjectRows] /\ o \in Objects
        /\ rows' = [rows EXCEPT ![o].retention = "DELETED", ![o].owner = 0]
    BY <1>1, <1>3
  <2>3. rows' = [rows EXCEPT ![o] = row]
    BY <2>2
  <2> HIDE DEF row
  <2> QED BY <2>1, <2>2, <2>3, ZenonT(60)
<1>5. CleanupMove
  BY <1>2, <1>3, <1>4 DEF CleanupMove
<1> DEFINE n == [h EXCEPT !.pc = "delete", !.progress = TRUE]
<1>6. n \in HandlerRows /\ n.pc = "delete" /\ n.version = h.version
  BY <1>1 DEF HandlerRows, Places
<1>7. Becomes(CleanupJob, a, n)
  BY <1>3 DEF Becomes
<1> HIDE DEF n
<1>8. ASSUME NEW b \in AttemptNumbers, NEW g \in HandlerRows,
             g = handler[CleanupJob][b], b # a, g.pc = "erased"
      PROVE  rows'[g.object] = rows[g.object]
  <2>1. g.object \in Objects /\ rows[g.object].owner = b
    BY <1>8 DEF OwnersOK, Pc, HandlerRows
  <2> QED BY <1>2, <1>4, <1>8, <2>1
<1> QED BY <1>1, <1>5, <1>6, <1>7, <1>8, CleanupHandler DEF Pc

\* The rows a deletion leaves: what was active is to be deleted.
LEMMA Marked ==
  ASSUME NEW row \in ObjectRows
  PROVE  /\ MarkedForDeletion(row) \in ObjectRows
         /\ MarkedForDeletion(row).retention =
              (IF row.retention = "ACTIVE" THEN "PENDING_DELETE" ELSE row.retention)
<1>1. 0 \in 0..AttemptCap
  BY Kinds
<1> QED BY <1>1 DEF MarkedForDeletion, ObjectRows

\* The document is deleted: its objects are marked, its waiting jobs cancelled and
\* the cleanup submitted.
LEMMA DeleteDocumentStep ==
  ASSUME DocumentsInv, UNCHANGED BytesOf, deleteDocument
  PROVE  /\ DocumentsInv'
         /\ UNCHANGED versions
         /\ Erased => /\ doc' = doc
                      /\ \A o \in Objects : rows'[o].retention = rows[o].retention
<1> USE DEF DocumentsInv
<1>1. /\ doc \in DocRows /\ jobs \in [JobIds -> JobRows] /\ rows \in [Objects -> ObjectRows]
      /\ doc.status # "NONE" /\ doc.file \in Files
      /\ UNCHANGED <<versions, blobs, unlinked, handler, upload>>
      /\ versions \in [Versions -> {"NONE", "FAILED", "OCR", "SUCCEEDED"}]
      /\ blobs \in [Objects -> Files \cup {NoFile, PartialFile}] /\ unlinked \subseteq Objects
      /\ \A o \in Objects : ~Locked(o)
  BY TypeParts DEF deleteDocument, DocOK, blobVars
<1>2. /\ doc' = [doc EXCEPT !.status = "DELETED", !.anchors = {}, !.text = 0, !.source = NoFile]
      /\ doc' \in DocRows /\ Erased' /\ doc'.file = doc.file /\ doc'.extraction = doc.extraction
      /\ doc'.anchors = {} /\ doc'.text = 0 /\ doc'.source = NoFile
  <2>1. 0 \in 0..VersionCap /\ {} \in SUBSET Versions
    BY Kinds
  <2>2. doc' = [doc EXCEPT !.status = "DELETED", !.anchors = {}, !.text = 0, !.source = NoFile]
    BY DEF deleteDocument
  <2> QED BY <1>1, <2>1, <2>2 DEF DocRows, DocumentStatuses, Erased
<1>3. /\ rows' \in [Objects -> ObjectRows]
      /\ \A o \in Objects : rows'[o].retention =
           (IF rows[o].retention = "ACTIVE" THEN "PENDING_DELETE" ELSE rows[o].retention)
  <2>1. rows' = [o \in Objects |-> MarkedForDeletion(rows[o])]
    BY DEF deleteDocument
  <2> QED BY <1>1, <2>1, Marked
<1>4. /\ jobs' \in [JobIds -> JobRows]
      /\ \A j \in JobIds : jobs[j].status # "NONE" => jobs'[j].status # "NONE"
      /\ \A j \in JobIds : jobs'[j].status = "SUCCEEDED" => jobs[j].status = "SUCCEEDED"
  <2>1. QueuedJob(NoInput) \in JobRows /\ QueuedJob(NoInput).status = "QUEUED"
    BY Kinds DEF QueuedJob, NoInput, JobRows, JobQueueStatuses
  <2>2. ASSUME NEW j \in JobIds
        PROVE  /\ [jobs[j] EXCEPT !.status = "CANCELLED"] \in JobRows
               /\ [jobs[j] EXCEPT !.status = "CANCELLED"].status = "CANCELLED"
    BY <1>1 DEF JobRows, JobQueueStatuses
  <2>3. jobs' = [j \in JobIds |->
          IF j = CleanupJob
          THEN IF jobs[j].status = "NONE" THEN QueuedJob(NoInput) ELSE jobs[j]
          ELSE IF jobs[j].status = "QUEUED"
          THEN [jobs[j] EXCEPT !.status = "CANCELLED"] ELSE jobs[j]]
    BY DEF deleteDocument
  <2> QED BY <1>1, <2>1, <2>2, <2>3
<1>5. TypeOK'
  BY <1>1, <1>2, <1>3, <1>4 DEF TypeOK, DocRows, ObjectRows, JobRows
<1>6. Erased => /\ \A o \in Objects : rows[o].retention # "ACTIVE"
                /\ \A o \in Objects : rows'[o].retention = rows[o].retention
                /\ Pending' = Pending
  BY <1>3 DEF DocOK, Pending
<1>7. HandlersOK'
  <2>1. handler' \in [JobIds -> [AttemptNumbers -> HandlerRows]]
    BY <1>1 DEF HandlersOK
  <2>2. ASSUME NEW k \in JobIds, NEW b \in AttemptNumbers, NEW g \in HandlerRows,
               g = handler'[k][b]
        PROVE  HandlerFits(k, g)'
    <3>1. HandlerFits(k, g)
      BY <1>1, <2>2, RowOf
    <3>2. g.pc = "erased" => rows'[g.object].retention = "PENDING_DELETE"
      BY <1>3, <3>1 DEF HandlerFits, HandlerRows
    <3> QED BY <1>1, <1>2, <1>4, <1>6, <3>1, <3>2, FitsKept
  <2> QED BY <2>1, <2>2, HandlersNext
<1>8. OneFiller'
  BY <1>2 DEF OneFiller
<1>9. OwnersOK'
  <2>1. ASSUME NEW a \in AttemptNumbers, handler[CleanupJob][a].pc = "erased" PROVE FALSE
    <3>1. handler[CleanupJob][a].object \in Objects
      BY RowOf, Kinds DEF HandlerRows
    <3> QED BY <1>1, <2>1, <3>1 DEF Locked, Pc
  <2> QED BY <1>1, <2>1 DEF OwnersOK, Pc
<1>10. UploadsOK'
  BY <1>1, <1>2 DEF UploadsOK
<1>11. DocOK'
  BY <1>1, <1>2, <1>3 DEF DocOK, Erased, Scannable
<1>12. VersionsOK'
  BY <1>1 DEF VersionsOK, Recorded
<1>13. BytesBehindRows'
  BY <1>3 DEF BytesBehindRows
<1>14. CleanBeforeUse'
  BY <1>2 DEF CleanBeforeUse, Extractable, Erased
<1>15. PublishedExtraction'
  <2>1. \A v \in Versions : Artifact(v) \in Objects
    BY ObjectNames
  <2> QED BY <1>1, <1>2, <1>3, <2>1 DEF PublishedExtraction, Erased
<1>16. CleanupComplete'
  BY <1>3, <1>4, Kinds DEF CleanupComplete
<1>17. Erased => doc' = doc
  <2> SUFFICES ASSUME Erased PROVE doc' = doc
    OBVIOUS
  <2>1. doc.status = "DELETED" /\ doc.anchors = {} /\ doc.text = 0 /\ doc.source = NoFile
    BY DEF DocOK, Erased
  <2>2. doc = [ status |-> doc.status, file |-> doc.file, scan |-> doc.scan,
                bypassed |-> doc.bypassed, extraction |-> doc.extraction,
                anchors |-> doc.anchors, text |-> doc.text, source |-> doc.source ]
    BY <1>1 DEF DocRows
  <2>3. doc' = [ status |-> "DELETED", file |-> doc.file, scan |-> doc.scan,
                 bypassed |-> doc.bypassed, extraction |-> doc.extraction,
                 anchors |-> {}, text |-> 0, source |-> NoFile ]
    BY <1>1, <1>2 DEF DocRows
  <2> QED BY <2>1, <2>2, <2>3
<1> QED BY <1>1, <1>5, <1>6, <1>7, <1>8, <1>9, <1>10, <1>11, <1>12, <1>13, <1>14, <1>15,
           <1>16, <1>17

\* What no live row tracks is deleted, with workers and writers stopped.
LEMMA DeleteUntrackedStep ==
  ASSUME DocumentsInv, UNCHANGED BytesOf, deleteUntracked
  PROVE  DocumentsInv'
<1> USE DEF DocumentsInv
<1>1. /\ UNCHANGED <<doc, versions, rows, unlinked, jobs>> /\ unlinked \subseteq Objects
      /\ blobs \in [Objects -> Files \cup {NoFile, PartialFile}]
      /\ blobs' = [o \in Objects |-> IF Untracked(o) THEN NoFile ELSE blobs[o]]
      /\ handler' = [j \in JobIds |-> [a \in AttemptNumbers |->
                      IF Pc(j, a) = "none" THEN NoHandler ELSE Ended]]
      /\ upload' = [u \in Uploads |-> IF upload[u] \in UploadsAtRest THEN upload[u] ELSE "refused"]
  BY TypeParts DEF deleteUntracked, docVars
<1>2. blobs' \in [Objects -> Files \cup {NoFile, PartialFile}]
  BY <1>1
<1>3. handler' \in [JobIds -> [AttemptNumbers -> HandlerRows]]
  BY <1>1, RowsOfNobody
<1>4. \A k \in JobIds, b \in AttemptNumbers :
        handler'[k][b].pc \in {"none", "done"} /\ handler'[k][b].version = 0
        /\ (handler'[k][b].pc = "done" => Pc(k, b) # "none")
  BY <1>1, RowsOfNobody
<1>5. HandlersOK'
  <2>1. ASSUME NEW k \in JobIds, NEW b \in AttemptNumbers, NEW g \in HandlerRows,
               g = handler'[k][b]
        PROVE  HandlerFits(k, g)'
    <3>1. g.pc \in {"none", "done"} /\ g.version = 0 /\ (g.pc = "done" => Pc(k, b) # "none")
      BY <1>4, <2>1
    <3>2. g.pc # "none" => jobs'[k].status # "NONE"
      BY <1>1, <3>1, Started
    <3>3. g.pc \in PlacesOf(k)
      BY <3>1 DEF PlacesOf, Anywhere
    <3> QED BY <3>1, <3>2, <3>3, Kinds DEF HandlerFits
  <2> QED BY <1>3, <2>1, HandlersNext
<1>6. OneFiller' /\ OwnersOK'
  BY <1>4, Kinds DEF OneFiller, OwnersOK, Pc
<1>7. /\ upload' \in [Uploads -> UploadPcs]
      /\ \A u \in Uploads : upload'[u] \in UploadsAtRest /\ (upload[u] = "compensated" => upload'[u] = "compensated")
  BY <1>1 DEF UploadsOK, UploadsAtRest, UploadPcs
<1>8. UploadsOK'
  BY <1>7 DEF UploadsOK, UploadsAtRest
<1>9. BytesBehindRows'
  BY <1>1, <1>7 DEF BytesBehindRows, Untracked
<1> QED BY <1>1, <1>2, <1>5, <1>6, <1>8, <1>9, StoreState

-----------------------------------------------------------------------------
(* The theorems.                                                           *)

\* At the start there is neither a document nor an object.
LEMMA InitiallyInv ==
  ASSUME Init
  PROVE  DocumentsInv
<1> USE DEF Init
<1>1. TypeOK
  <2>1. NoDoc \in DocRows /\ NoObject \in ObjectRows
    BY Kinds DEF NoDoc, NoObject, DocRows, ObjectRows
  <2>2. NoJob \in JobRows
    BY Kinds DEF NoJob, NoInput, JobRows, JobQueueStatuses
  <2> QED BY <2>1, <2>2, TypeParts
<1>2. /\ doc.status = "NONE" /\ ~Erased /\ doc.extraction = 0 /\ doc.anchors = {} /\ doc.text = 0
      /\ \A o \in Objects : rows[o].retention = "NONE"
      /\ \A j \in JobIds : jobs[j].status = "NONE"
  BY DEF NoDoc, NoObject, NoJob, Erased
<1>3. \A j \in JobIds, a \in AttemptNumbers : handler[j][a] = NoHandler
  OBVIOUS
<1>4. HandlersOK
  <2>1. handler \in [JobIds -> [AttemptNumbers -> HandlerRows]]
    BY RowsOfNobody
  <2>2. ASSUME NEW j \in JobIds PROVE HandlerFits(j, NoHandler)
    <3>1. NoHandler.pc = "none" /\ NoHandler.version = 0 /\ "none" \in PlacesOf(j)
      BY RowsOfNobody DEF PlacesOf, Anywhere
    <3>2. \A w \in Versions : ~(w < 0)
      BY Kinds
    <3> QED BY <3>1, <3>2 DEF HandlerFits
  <2> QED BY <1>3, <2>1, <2>2 DEF HandlersOK
<1>5. OneFiller /\ OwnersOK
  BY <1>3, RowsOfNobody, Kinds DEF OneFiller, OwnersOK, Pc
<1>6. UploadsOK
  BY DEF UploadsOK, UploadPcs
<1>7. DocOK
  BY <1>2, Kinds DEF DocOK, Scannable
<1>8. VersionsOK
  <2>1. Recorded = 1..0
    BY DEF Recorded
  <2>2. 0 \in 0..VersionCap
    BY Kinds
  <2> QED BY <2>1, <2>2 DEF VersionsOK
<1>9. BytesBehindRows /\ CleanBeforeUse /\ CleanupComplete
  BY <1>2, Kinds DEF BytesBehindRows, CleanBeforeUse, Extractable, CleanupComplete
<1>10. PublishedExtraction
  BY <1>2 DEF PublishedExtraction
<1> QED BY <1>1, <1>4, <1>5, <1>6, <1>7, <1>8, <1>9, <1>10 DEF DocumentsInv

\* Every step keeps the invariant.
LEMMA StepKeepsInv ==
  ASSUME DocumentsInv, Next
  PROVE  DocumentsInv'
<1>1. UNCHANGED BytesOf /\ (Step \/ Fault)
  BY DEF Next
<1>2. ASSUME NEW u \in Uploads, UploadStep(u) PROVE DocumentsInv'
  BY <1>1, <1>2, UploadLooks, RawSteps, CommitUploadStep, UploadSubmitsScanStep DEF UploadStep
<1>3. ASSUME NEW j \in JobIds, NEW a \in AttemptNumbers, ScanStep(j, a) PROVE DocumentsInv'
  <2>1. CASE ScanBytes(j, a)
    <3>1. PICK scan \in {"CLEAN", "ERROR", "INFECTED"} : Scanned(j, a, scan)
      BY <2>1 DEF ScanBytes
    <3> QED BY <1>1, <3>1, ScannedStep
  <2>2. CASE ScanReadsState(j, a) \/ BeginScan(j, a) \/ CommitScan(j, a)
    BY <1>1, <2>2, ScanReadsStateStep, BeginScanStep, CommitScanStep
  <2>3. CASE AfterScanReadsState(j, a) \/ ScanSubmitsExtraction(j, a)
    BY <1>1, <2>3, AfterScanReadsStateStep, ScanSubmitsExtractionStep
  <2> QED BY <1>3, <2>1, <2>2, <2>3 DEF ScanStep
<1>4. ASSUME NEW j \in JobIds, NEW a \in AttemptNumbers, ExtractStep(j, a) PROVE DocumentsInv'
  <2>1. CASE ExtractReadsState(j, a) \/ BeginExtraction(j, a) \/ ExtractBytes(j, a)
    BY <1>1, <2>1, ExtractReadsStateStep, BeginExtractionStep, ExtractBytesStep
  <2>2. CASE CommitExtraction(j, a) \/ recordExtractionFailure(j, a)
    BY <1>1, <2>2, CommitExtractionStep, RecordFailureStep
  <2> QED BY <1>4, <2>1, <2>2 DEF ExtractStep
<1>5. ASSUME NEW a \in AttemptNumbers, CleanupStep(a) PROVE DocumentsInv'
  BY <1>1, <1>5, ClaimStep, DeleteClaimedStep, MarkDeletedStep, FinishBatchStep DEF CleanupStep
<1>6. CASE Step
  <2>1. CASE \E u \in Uploads : UploadStep(u)
    BY <2>1, <1>2
  <2>2. CASE (\E j \in ScanJobs : OperatorScan(j)) \/ \E j \in ExtractJobs : OperatorExtract(j)
    BY <1>1, <2>2, OperatorSteps, Kinds
  <2>3. CASE \E j \in JobIds : StartHandler(j)
    BY <1>1, <2>3, StartHandlerStep
  <2>4. CASE \E j \in JobIds, a \in AttemptNumbers :
               \/ ScanStep(j, a) \/ ExtractStep(j, a)
               \/ PutObject(j, a, Target(j, a)) \/ FillObject(j, a, Target(j, a))
               \/ SettleObject(j, a, Target(j, a))
               \/ LeaseLost(j, a) \/ SettleHandler(j, a)
    <3>1. PICK j \in JobIds, a \in AttemptNumbers :
               \/ ScanStep(j, a) \/ ExtractStep(j, a)
               \/ PutObject(j, a, Target(j, a)) \/ FillObject(j, a, Target(j, a))
               \/ SettleObject(j, a, Target(j, a))
               \/ LeaseLost(j, a) \/ SettleHandler(j, a)
      BY <2>4
    <3>2. CASE ScanStep(j, a) \/ ExtractStep(j, a)
      BY <1>3, <1>4, <3>2
    <3>3. CASE \/ PutObject(j, a, Target(j, a)) \/ FillObject(j, a, Target(j, a))
               \/ SettleObject(j, a, Target(j, a))
      BY <1>1, <3>3, ObjectSteps
    <3>4. CASE LeaseLost(j, a) \/ SettleHandler(j, a)
      BY <1>1, <3>4, LeaseLostStep, SettleHandlerStep
    <3> QED BY <3>1, <3>2, <3>3, <3>4
  <2>5. CASE \E a \in AttemptNumbers : CleanupStep(a)
    BY <1>5, <2>5
  <2>6. CASE deleteDocument
    BY <1>1, <2>6, DeleteDocumentStep
  <2> QED BY <1>6, <2>1, <2>2, <2>3, <2>4, <2>5, <2>6 DEF Step
<1>7. CASE Fault
  <2>1. CASE \E u \in Uploads : FillRawFails(u) \/ UploadTransactionThrows(u) \/ CrashUpload(u)
    BY <1>1, <2>1, RawSteps, UploadLooks
  <2>2. CASE \E j \in JobIds : AttemptLost(j) \/ OperatorRetries(j)
    BY <1>1, <2>2, QueueSteps
  <2>3. CASE \E j \in JobIds, a \in AttemptNumbers :
               \/ FillObjectFails(j, a, Target(j, a)) \/ ScanNotClean(j, a)
               \/ ExtractionThrows(j, a) \/ CrashHandler(j, a)
    <3>1. PICK j \in JobIds, a \in AttemptNumbers :
               \/ FillObjectFails(j, a, Target(j, a)) \/ ScanNotClean(j, a)
               \/ ExtractionThrows(j, a) \/ CrashHandler(j, a)
      BY <2>3
    <3>2. CASE FillObjectFails(j, a, Target(j, a)) \/ ExtractionThrows(j, a) \/ CrashHandler(j, a)
      BY <1>1, <3>2, ObjectSteps, ExtractBytesStep, CrashHandlerStep
    <3>3. CASE ScanNotClean(j, a)
      BY <1>1, <3>3, ScannedStep DEF ScanNotClean
    <3> QED BY <3>1, <3>2, <3>3
  <2>4. CASE \E a \in AttemptNumbers : markDeleteFailed(a)
    BY <1>1, <2>4, MarkDeleteFailedStep
  <2>5. CASE \E o \in Objects : CleanupLeaseExpires(o)
    BY <1>1, <2>5, CleanupLeaseExpiresStep
  <2>6. CASE deleteUntracked
    BY <1>1, <2>6, DeleteUntrackedStep
  <2> QED BY <1>7, <2>1, <2>2, <2>3, <2>4, <2>5, <2>6 DEF Fault
<1> QED BY <1>1, <1>6, <1>7

\* A step that changes no variable keeps it too.
LEMMA StutterKeepsInv ==
  ASSUME DocumentsInv, UNCHANGED vars
  PROVE  DocumentsInv'
<1>1. Quiet /\ UNCHANGED <<handler, upload, BytesOf>>
  BY SameJobs DEF vars, Quiet, DocumentsInv
<1> QED BY <1>1, QuietQueue

\* The inductive invariant of the life of a document (lib/services/documents.ts,
\* worker/document-handlers.ts, orphan-cleanup.ts).
THEOREM DocumentsInvariant == Spec => []DocumentsInv
<1>1. Init => DocumentsInv
  BY InitiallyInv
<1>2. DocumentsInv /\ [Next]_vars => DocumentsInv'
  BY StepKeepsInv, StutterKeepsInv
<1> QED BY <1>1, <1>2, PTL DEF Spec

\* Every ACTIVE row of the catalogue has its bytes in the store, but for a raw object
\* another upload of the key has compensated and an object that was found complete and
\* then unlinked by the writer whose put failed (storage.put, deleteClaimed,
\* quarantineDocument).
THEOREM BytesBehindRowsHolds == Spec => []BytesBehindRows
<1>1. DocumentsInv => BytesBehindRows
  BY DEF DocumentsInv
<1> QED BY <1>1, DocumentsInvariant, PTL

\* No document is usable without a clean scan and its promoted object, or the bypass of
\* the demo mode (scanDocument, extractDocument).
THEOREM CleanBeforeUseHolds == Spec => []CleanBeforeUse
<1>1. DocumentsInv => CleanBeforeUse
  BY DEF DocumentsInv
<1> QED BY <1>1, DocumentsInvariant, PTL

\* The published extraction is the newest that succeeded, and anchors and text are its
\* own (extractDocument, recordExtractionFailure).
THEOREM PublishedExtractionHolds == Spec => []PublishedExtraction
<1>1. DocumentsInv => PublishedExtraction
  BY DEF DocumentsInv
<1> QED BY <1>1, DocumentsInvariant, PTL

\* A cleanup job that succeeded has left nothing to delete (cleanup in
\* worker/document-handlers.ts).
THEOREM CleanupCompleteHolds == Spec => []CleanupComplete
<1>1. DocumentsInv => CleanupComplete
  BY DEF DocumentsInv
<1> QED BY <1>1, DocumentsInvariant, PTL

\* What a step may do to a deleted document.
StaysDeleted ==
  /\ doc' = doc /\ versions' = versions
  /\ \A o \in Objects :
       \/ rows'[o].retention = rows[o].retention
       \/ rows[o].retention = "PENDING_DELETE" /\ rows'[o].retention = "DELETED"

\* Steps of a deleted document leave it deleted.
LEMMA DeletedStep ==
  ASSUME DocumentsInv, Erased, Next
  PROVE  StaysDeleted
<1>1. UNCHANGED BytesOf /\ (Step \/ Fault) /\ doc.status = "DELETED"
  BY DEF Next, Erased
<1>2. ASSUME UNCHANGED <<doc, versions, rows>> PROVE StaysDeleted
  BY <1>2 DEF StaysDeleted
<1>3. ASSUME CleanupMove PROVE StaysDeleted
  BY <1>3 DEF StaysDeleted, CleanupMove
<1>4. ASSUME NEW u \in Uploads, UploadStep(u) PROVE StaysDeleted
  <2>1. UNCHANGED <<doc, versions, rows>>
    BY <1>1, <1>4 DEF UploadStep, CheckExistingUpload, PutRaw, FillRaw, SettleRaw, ReadRaw, CommitUpload,
       UploadConflicts, UploadTransactionThrows, ReconcileUpload, CompensateUpload,
       UploadSubmitsScan, docVars, storeVars, blobVars
  <2> QED BY <1>2, <2>1
<1>5. ASSUME NEW j \in JobIds, NEW a \in AttemptNumbers, ScanStep(j, a) PROVE StaysDeleted
  <2>1. UNCHANGED <<doc, versions, rows>>
    BY <1>1, <1>5 DEF ScanStep, ScanReadsState, BeginScan, ScanBytes, Scanned, CommitScan,
       AfterScanReadsState, ScanSubmitsExtraction, Unfenced, docVars, storeVars, blobVars, Scannable
  <2> QED BY <1>2, <2>1
<1>6. ASSUME NEW j \in JobIds, NEW a \in AttemptNumbers, ExtractStep(j, a) PROVE StaysDeleted
  <2>1. UNCHANGED <<doc, versions, rows>>
    BY <1>1, <1>6 DEF ExtractStep, ExtractReadsState, BeginExtraction, ExtractBytes,
       CommitExtraction, StaleExtraction, recordExtractionFailure, Unfenced, docVars, storeVars, blobVars,
       Extractable
  <2> QED BY <1>2, <2>1
<1>7. ASSUME NEW a \in AttemptNumbers, CleanupStep(a) PROVE StaysDeleted
  <2>1. CASE FinishBatch(a)
    BY <1>2, <2>1 DEF FinishBatch, Unfenced, docVars, storeVars, blobVars
  <2>2. CASE claimDeletionCandidates(a) \/ deleteClaimed(a) \/ MarkDeleted(a)
    <3>1. CleanupMove
      BY <1>1, <2>2, ClaimStep, DeleteClaimedStep, MarkDeletedStep
    <3> QED BY <1>3, <3>1
  <2> QED BY <1>7, <2>1, <2>2 DEF CleanupStep
<1>8. CASE Step
  <2>1. CASE \E u \in Uploads : UploadStep(u)
    BY <2>1, <1>4
  <2>2. CASE (\E j \in ScanJobs : OperatorScan(j)) \/ \E j \in ExtractJobs : OperatorExtract(j)
    BY <1>2, <2>2 DEF OperatorScan, OperatorExtract, docVars, storeVars, blobVars
  <2>3. CASE \E j \in JobIds : StartHandler(j)
    BY <1>2, <2>3 DEF StartHandler, docVars, storeVars, blobVars
  <2>4. CASE \E j \in JobIds, a \in AttemptNumbers : ScanStep(j, a) \/ ExtractStep(j, a)
    BY <1>5, <1>6, <2>4
  <2>5. CASE \E j \in JobIds, a \in AttemptNumbers :
               \/ PutObject(j, a, Target(j, a)) \/ FillObject(j, a, Target(j, a))
               \/ SettleObject(j, a, Target(j, a))
               \/ LeaseLost(j, a) \/ SettleHandler(j, a)
    BY <1>2, <2>5 DEF PutObject, FillObject, SettleObject, LeaseLost, SettleHandler, Unfenced,
       docVars, storeVars, blobVars
  <2>6. CASE \E a \in AttemptNumbers : CleanupStep(a)
    BY <1>7, <2>6
  <2>7. CASE deleteDocument
    BY <1>1, <2>7, DeleteDocumentStep DEF StaysDeleted
  <2> QED BY <1>8, <2>1, <2>2, <2>3, <2>4, <2>5, <2>6, <2>7 DEF Step
<1>9. CASE Fault
  <2>1. CASE \E u \in Uploads : FillRawFails(u) \/ UploadTransactionThrows(u) \/ CrashUpload(u)
    BY <1>2, <2>1 DEF FillRawFails, UploadTransactionThrows, CrashUpload, docVars, storeVars, blobVars
  <2>2. CASE \E j \in JobIds : AttemptLost(j) \/ OperatorRetries(j)
    BY <1>2, <2>2 DEF AttemptLost, OperatorRetries, docVars, storeVars, blobVars
  <2>3. CASE \E j \in JobIds, a \in AttemptNumbers :
               \/ FillObjectFails(j, a, Target(j, a)) \/ ScanNotClean(j, a)
               \/ ExtractionThrows(j, a) \/ CrashHandler(j, a)
    BY <1>2, <2>3 DEF FillObjectFails, ScanNotClean, Scanned, ExtractionThrows, CrashHandler,
       Unfenced, docVars, storeVars, blobVars
  <2>4. CASE \E a \in AttemptNumbers : markDeleteFailed(a)
    BY <1>1, <1>3, <2>4, MarkDeleteFailedStep
  <2>5. CASE \E o \in Objects : CleanupLeaseExpires(o)
    BY <1>1, <1>3, <2>5, CleanupLeaseExpiresStep
  <2>6. CASE deleteUntracked
    BY <1>2, <2>6 DEF deleteUntracked, docVars
  <2> QED BY <1>9, <2>1, <2>2, <2>3, <2>4, <2>5, <2>6 DEF Fault
<1> QED BY <1>1, <1>8, <1>9

\* Once a document is deleted nothing is published for it again, and its objects only
\* move from PENDING_DELETE to DELETED (deleteDocument, assertDocumentJobFence).
THEOREM DeletedForGoodHolds == Spec => DeletedForGood
<1>1. DocumentsInv /\ [Next]_vars => (doc.status = "DELETED" => StaysDeleted)
  <2>1. ASSUME UNCHANGED vars PROVE StaysDeleted
    BY <2>1 DEF vars, StaysDeleted
  <2> QED BY <2>1, DeletedStep DEF Erased
<1>2. (doc.status = "DELETED" => StaysDeleted) =>
        (doc.status = "DELETED" =>
           /\ doc' = doc /\ versions' = versions
           /\ \A o \in Objects :
                \/ rows'[o].retention = rows[o].retention
                \/ rows[o].retention = "PENDING_DELETE" /\ rows'[o].retention = "DELETED")
  BY DEF StaysDeleted
<1> QED BY <1>1, <1>2, DocumentsInvariant, PTL DEF Spec, DeletedForGood
=============================================================================
