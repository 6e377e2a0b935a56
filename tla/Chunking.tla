------------------------------ MODULE Chunking ------------------------------
(***************************************************************************)
(* How an extracted document becomes chunks and citation anchors:          *)
(* finalizeExtraction of lib/documents/extraction/types.ts and             *)
(* lib/documents/chunking.ts, one iteration of a loop a step.              *)
(*                                                                         *)
(* A text is a sequence of blanks and letters.  A page stands for the page *)
(* number and section path of a block; hashes and identifiers, which are   *)
(* functions of what is modelled, are left out.  Offsets count from zero,  *)
(* as in the code.                                                         *)
(***************************************************************************)
EXTENDS Integers, Sequences, FiniteSetsExt

CONSTANTS
  Drafts,        \* documents within the byte and block limits: sequences of
                 \* [text, page, heading]
  Characters,    \* what texts consist of
  Blank,         \* the character that trimming removes
  Pages,         \* what page may be
  MaxChars,      \* chunk length
  Overlaps,      \* overlapChars values
  MaxChunks,     \* chunks a document may have
  MaxTextChars   \* text a document may have

ASSUME ChunkingAssumption ==
  /\ Drafts \subseteq Seq([text : Seq(Characters), page : Pages, heading : BOOLEAN])
  /\ MaxChars \in Nat \ {0} /\ MaxChunks \in Nat \ {0} /\ MaxTextChars \in Nat
  /\ \A o \in Overlaps : o \in Nat /\ 2 * o < MaxChars

VARIABLES
  phase,    \* "extract", "split", "group", "chunked" or "failed"
  drafts,   \* what the extractor of the format produced
  overlap,  \* the overlap in use
  blocks,   \* extraction blocks: [text, page, heading, start]
  at,       \* <<draft, block or unit, start>>: where the loop of the phase is
  units,    \* pieces of blocks: [block, from, to], offsets in the document
  chunks    \* groups of units; the last is the current one while grouping

chunkVars == <<phase, drafts, overlap, blocks, at, units, chunks>>

ChunkInit ==
  /\ phase = "extract" /\ drafts \in Drafts /\ overlap \in Overlaps
  /\ blocks = <<>> /\ at = <<1, 0>> /\ units = <<>> /\ chunks = <<>>

-----------------------------------------------------------------------------
Letters(t) == {i \in DOMAIN t : t[i] # Blank}
Trimmed(t) ==
  IF Letters(t) = {} THEN <<>> ELSE SubSeq(t, Min(Letters(t)), Max(Letters(t)))

\* One draft becomes a block, unless it has no text; two characters separate the
\* blocks.
finalizeExtraction ==
  LET text == Trimmed(drafts[at[1]].text)
      offset == IF blocks = <<>> THEN 0
                ELSE blocks[Len(blocks)].start + Len(blocks[Len(blocks)].text) + 2
      tooLarge == text # <<>> /\ offset + Len(text) > MaxTextChars
  IN
  /\ phase = "extract" /\ at[1] <= Len(drafts)
  /\ phase' = IF tooLarge THEN "failed" ELSE phase
  /\ blocks' = IF text = <<>> \/ tooLarge THEN blocks
               ELSE Append(blocks, [text |-> text, page |-> drafts[at[1]].page,
                                    heading |-> drafts[at[1]].heading, start |-> offset])
  /\ at' = <<at[1] + 1, 0>>
  /\ UNCHANGED <<drafts, overlap, units, chunks>>

ExtractionDone ==
  /\ phase = "extract" /\ at[1] > Len(drafts)
  /\ phase' = "split" /\ at' = <<1, 0>>
  /\ UNCHANGED <<drafts, overlap, blocks, units, chunks>>

\* Where a piece of text t that starts at s ends: after MaxChars characters, or at
\* the last space if that is in the second half of them.
PieceEnd(t, s) ==
  LET end == Min({Len(t), s + MaxChars})
      spaces == {i \in 0 .. end : i < Len(t) /\ t[i + 1] = Blank}
      boundary == Max(spaces \cup {-1})
  IN IF end < Len(t) /\ boundary > s + MaxChars \div 2 THEN boundary ELSE end

\* Variant: the next piece starts one character late.
NextStartLate(s, end) == Max({s + 1, end + 1 - overlap})

NextStart(s, end) == Max({s + 1, end - overlap})

\* trimSegment: the piece from s to end without spaces around it, if any is left.
trimSegment(t, s, end) ==
  LET inside == {i \in Letters(t) : s < i /\ i <= end}
  IN IF inside = {} THEN {} ELSE {[from |-> Min(inside) - 1, to |-> Max(inside)]}

splitBlock ==
  LET b == at[1]  s == at[2]
      t == blocks[b].text
      whole == Len(t) <= MaxChars
      end == IF whole THEN Len(t) ELSE PieceEnd(t, s)
      piece == IF whole THEN {[from |-> 0, to |-> Len(t)]} ELSE trimSegment(t, s, end)
  IN
  /\ phase = "split" /\ b <= Len(blocks)
  /\ units' = IF piece = {} THEN units
              ELSE LET p == CHOOSE x \in piece : TRUE
                   IN Append(units, [block |-> b, from |-> blocks[b].start + p.from,
                                     to |-> blocks[b].start + p.to])
  /\ at' = IF end >= Len(t) THEN <<b + 1, 0>> ELSE <<b, NextStart(s, end)>>
  /\ UNCHANGED <<phase, drafts, overlap, blocks, chunks>>

SplitDone ==
  /\ phase = "split" /\ at[1] > Len(blocks)
  /\ phase' = "group" /\ at' = <<1, 0>>
  /\ UNCHANGED <<drafts, overlap, blocks, units, chunks>>

sameStructure(left, right) ==
  /\ blocks[left.block].page = blocks[right.block].page
  /\ ~blocks[right.block].heading

\* The text of a chunk: its units with two characters between them.
CharCount(group) ==
  LET sum[i \in 0 .. Len(group)] ==
        IF i = 0 THEN 0
        ELSE sum[i - 1] + (group[i].to - group[i].from) + (IF i > 1 THEN 2 ELSE 0)
  IN sum[Len(group)]

Fits(group, unit) == CharCount(Append(group, unit)) <= MaxChars

\* One unit joins the current group or begins the next.
GroupUnit ==
  LET u == units[at[1]]
      current == chunks[Len(chunks)]
  IN
  /\ phase = "group" /\ at[1] <= Len(units)
  /\ chunks' = IF chunks = <<>> THEN <<<<u>>>>
               ELSE IF Fits(current, u) /\ sameStructure(current[Len(current)], u)
               THEN [chunks EXCEPT ![Len(chunks)] = Append(@, u)]
               ELSE Append(chunks, <<u>>)
  /\ at' = <<at[1] + 1, 0>>
  /\ UNCHANGED <<phase, drafts, overlap, blocks, units>>

\* The chunk count is checked when every unit is in a group.
chunkExtraction ==
  /\ phase = "group" /\ at[1] > Len(units)
  /\ phase' = IF Len(chunks) > MaxChunks THEN "failed" ELSE "chunked"
  /\ UNCHANGED <<drafts, overlap, blocks, at, units, chunks>>

ChunkNext ==
  \/ finalizeExtraction \/ ExtractionDone
  \/ splitBlock \/ SplitDone \/ GroupUnit \/ chunkExtraction

-----------------------------------------------------------------------------
StartOffset(chunk) == chunk[1].from
EndOffset(chunk) == chunk[Len(chunk)].to

\* A citation anchor can be trusted: every letter of the document is between the
\* offsets of a chunk that holds text of its block, no chunk is longer than the
\* limit or mixes pages, a heading only begins one, and each goes on from the
\* one before it without repeating it.  (splitBlock puts a word no longer than the
\* overlap, with enough blanks around it, into two pieces; one chunk takes both,
\* unless the overlap is one short of half of an odd limit, which the options
\* admit, or they are pieces of a heading, which sameStructure keeps apart.)
ChunksFaithful ==
  phase = "chunked" =>
    /\ \A b \in DOMAIN blocks : \A i \in Letters(blocks[b].text) :
         \E k \in DOMAIN chunks : \E j \in DOMAIN chunks[k] :
           LET u == chunks[k][j] IN
           u.block = b /\ u.from < blocks[b].start + i /\ blocks[b].start + i <= u.to
    /\ \A k \in DOMAIN chunks :
         /\ CharCount(chunks[k]) <= MaxChars
         /\ \A j \in DOMAIN chunks[k] :
              LET u == chunks[k][j] IN
              /\ blocks[u.block].page = blocks[chunks[k][1].block].page
              /\ blocks[u.block].heading => \A h \in 1 .. j : chunks[k][h].block = u.block
    /\ \A k \in 1 .. Len(chunks) - 1 :
         /\ StartOffset(chunks[k]) <= StartOffset(chunks[k + 1])
         /\ EndOffset(chunks[k]) <= EndOffset(chunks[k + 1])
         /\ \/ chunks[k] # chunks[k + 1]
            \/ 2 * overlap + 1 = MaxChars
            \/ blocks[chunks[k][1].block].heading
=============================================================================
