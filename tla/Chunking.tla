------------------------------ MODULE Chunking ------------------------------
(***************************************************************************)
(* How a text is cut into the fragments of a knowledge base: windows of a  *)
(* fixed size, sections and paragraphs (src/agent/kb_chunking.py), and for *)
(* code the definitions of a Python file or windows of lines               *)
(* (src/agent/code_chunking.py).  Pure functions: a step takes a text and  *)
(* cuts it, and the properties say what the cuts leave of it.              *)
(*                                                                         *)
(* A character is one of a few classes: a letter, a space, a newline, the  *)
(* end of a sentence, or a whole heading line ("C" a chapter or a Markdown *)
(* heading, "A" an article, which is kept without a body).  Offsets count  *)
(* from 0 and a span is [from, to) as in the code.  A line of code is its  *)
(* length and whether it has content.                                      *)
(***************************************************************************)
EXTENDS Integers, Sequences, FiniteSets, SequencesExt



CONSTANTS ChunkTexts,   \* the texts
          Windows,      \* pairs of a chunk size and an overlap that validate_chunk_params accepts
          Room,         \* characters a structural or a code fragment has beside its header
          SubOverlap,   \* STRUCT_SUBSPLIT_OVERLAP
          CodeFiles,    \* [lines, defs]: lines, and the spans of the definitions
          WindowLines, WindowOverlap

VARIABLES cutting,   \* what is cut: [how, text, window] or [how, file]
          chunks     \* the fragments, once it is

chunkVars == <<cutting, chunks>>

Least(a, b) == IF a < b THEN a ELSE b
Most(a, b) == IF a > b THEN a ELSE b
Span(from, to) == [from |-> from, to |-> to]
Blanks == {"space", "newline"}
Headings == {"C", "A"}

\* rfind: the last offset in [from, to) with one of these characters, or -1.
LastOf(text, class, from, to) ==
  LET found == {i \in from .. to - 1 : text[i + 1] \in class}
  IN  IF found = {} THEN -1 ELSE Max(found)

\* _strip_span
Strip(text, span) ==
  LET solid == {i \in span.from .. span.to - 1 : text[i + 1] \notin Blanks}
  IN  IF solid = {} THEN Span(span.from, span.from) ELSE Span(Min(solid), Max(solid) + 1)
Solid(spans) == SelectSeq(spans, LAMBDA s : s.to > s.from)

-----------------------------------------------------------------------------
(* chunk_fixed: windows that end behind a blank of their last fifth. *)

Fixed(text, size, overlap) ==
  LET total == Len(text)
      end(pos) == LET hard == Least(pos + size, total)
                      blank == LastOf(text, Blanks, pos + (size * 4) \div 5, hard)
                  IN  IF hard < total /\ blank # -1 THEN blank + 1 ELSE hard
      from[pos \in 0 .. total] ==
        IF pos = total THEN <<>>
        ELSE <<Strip(text, Span(pos, end(pos)))>> \o
             (IF end(pos) = total THEN <<>> ELSE from[Most(pos + 1, end(pos) - overlap)])
  IN  Solid(from[0])

-----------------------------------------------------------------------------
(* chunk_structural *)

\* _find_cut: behind a paragraph, a sentence, a blank, or where the room ends.
FindCut(text, pos, hard, least) ==
  LET paras == {i \in pos .. hard - 2 : text[i + 1] = "newline" /\ text[i + 2] = "newline"}
      sentences == {e \in pos + 1 .. hard :
                      /\ e >= least
                      /\ e = hard \/ text[e + 1] \notin Blanks
                      /\ \E s \in Most(pos, 1) .. e - 1 :
                           text[s] = "stop" /\ \A i \in s .. e - 1 : text[i + 1] \in Blanks}
      blank == LastOf(text, Blanks, pos, hard)
  IN  IF paras # {} /\ Max(paras) >= least THEN Max(paras) + 2
      ELSE IF sentences # {} THEN Max(sentences)
      ELSE IF blank >= least THEN blank + 1 ELSE hard

\* _subsplit: pieces of at most Room characters that share SubOverlap.
Subsplit(text, span) ==
  LET cut(pos) == LET hard == Least(pos + Room, span.to)
                  IN  IF hard = span.to THEN hard ELSE FindCut(text, pos, hard, pos + Room \div 3)
      next(pos) == IF cut(pos) - SubOverlap > pos THEN cut(pos) - SubOverlap ELSE cut(pos)
      from[pos \in span.from .. span.to] ==
        IF pos = span.to THEN <<>>
        ELSE <<Span(pos, cut(pos))>> \o (IF cut(pos) = span.to THEN <<>> ELSE from[next(pos)])
  IN  from[span.from]

\* The text before the first heading, and what follows each one up to the next.
Sections(text) ==
  LET heads == SetToSortSeq({i \in 0 .. Len(text) - 1 : text[i + 1] \in Headings}, <)
      end(k) == IF k < Len(heads) THEN heads[k + 1] ELSE Len(text)
  IN  Solid(<<Strip(text, Span(0, heads[1]))>>) \o
      [k \in DOMAIN heads |-> Span(heads[k] + 1, end(k))]

\* Runs of blanks with an empty line in them part the paragraphs.
Gaps(text) ==
  LET run(b, e) == /\ \A i \in b .. e - 1 : text[i + 1] \in Blanks
                   /\ e = Len(text) \/ text[e + 1] \notin Blanks
                   /\ text[b + 1] = "newline"
                   /\ \E i \in b + 1 .. e - 1 : text[i + 1] = "newline"
      found == {g \in (0 .. Len(text)) \X (0 .. Len(text)) : g[1] < g[2] /\ run(g[1], g[2])}
  IN  SetToSortSeq({g \in found : \A h \in found : h[2] = g[2] => g[1] <= h[1]},
                   LAMBDA g, h : g[1] < h[1])

\* _paragraph_sections: paragraphs are put together while they fit.
Paragraphs(text) ==
  LET gaps == Gaps(text)
      bounds == <<0>> \o FlattenSeq([k \in DOMAIN gaps |-> <<gaps[k][1], gaps[k][2]>>])
                  \o <<Len(text)>>
      all == [k \in 1 .. Len(bounds) \div 2 |-> Span(bounds[2 * k - 1], bounds[2 * k])]
      solid == SelectSeq(all, LAMBDA s : Solid(<<Strip(text, s)>>) # <<>>)
      Add(acc, s) == IF acc # <<>> /\ s.to - Last(acc).from <= Room
                     THEN Append(Front(acc), Span(Last(acc).from, s.to)) ELSE Append(acc, s)
  IN  FoldLeft(Add, <<>>, solid)

Structural(text) ==
  LET sections == IF \E i \in DOMAIN text : text[i] \in Headings THEN Sections(text)
                  ELSE IF Gaps(text) # <<>> THEN Paragraphs(text) ELSE <<Span(0, Len(text))>>
      ChunkCuts(s) == LET body == Strip(text, s)
                     pieces == Subsplit(text, body)
                 IN  IF body.to - body.from <= Room THEN Solid(<<body>>)
                     ELSE Solid([k \in DOMAIN pieces |-> Strip(text, pieces[k])])
  IN  FlattenSeq([k \in DOMAIN sections |-> ChunkCuts(sections[k])])

-----------------------------------------------------------------------------
(* Code.  A fragment is [first, last, from, to]: its lines and its characters. *)

Offset(lines, n) == FoldLeft(LAMBDA a, b : a + b.size + 1, 0, SubSeq(lines, 1, n - 1))
Content(lines, first, last) == \E n \in first .. last : lines[n].solid

Whole(lines, first, last) ==
  [first |-> first, last |-> last, from |-> Offset(lines, first),
   to |-> Most(Offset(lines, last) + lines[last].size, Offset(lines, first) + 1)]
Cut(lines, n) ==
  [k \in 1 .. (lines[n].size + Room - 1) \div Room |->
     [first |-> n, last |-> n, from |-> Offset(lines, n) + (k - 1) * Room,
      to |-> Offset(lines, n) + Least(k * Room, lines[n].size)]]

\* _span_fragments: whole lines while they fit, a line that is too long by characters.
ChunkFragments(lines, first, last) ==
  LET Add(acc, n) ==
        LET size == lines[n].size
            added == size + (IF n > acc.start THEN 1 ELSE 0)
            before == IF n > acc.start THEN <<Whole(lines, acc.start, n - 1)>> ELSE <<>>
        IN  IF size > Room
            THEN [done |-> acc.done \o before \o Cut(lines, n), start |-> n + 1, size |-> 0]
            ELSE IF acc.size + added > Room
            THEN [done |-> acc.done \o before, start |-> n, size |-> size]
            ELSE [acc EXCEPT !.size = @ + added]
      end == FoldLeft(Add, [done |-> <<>>, start |-> first, size |-> 0],
                      [k \in 1 .. last - first + 1 |-> first + k - 1])
      all == IF end.start <= last THEN Append(end.done, Whole(lines, end.start, last)) ELSE end.done
  IN  SelectSeq(all, LAMBDA f : Content(lines, f.first, f.last))

\* chunk_python: the definitions, and what is between them when it has content.
ByDefinition(file) ==
  LET n == Len(file.defs)
      gap(k) == <<IF k = 1 THEN 1 ELSE file.defs[k - 1][2] + 1,
                  IF k = n + 1 THEN Len(file.lines) ELSE file.defs[k][1] - 1>>
      Between(k) == IF gap(k)[1] <= gap(k)[2] THEN ChunkFragments(file.lines, gap(k)[1], gap(k)[2]) ELSE <<>>
  IN  FlattenSeq([k \in 1 .. n |->
                    Between(k) \o ChunkFragments(file.lines, file.defs[k][1], file.defs[k][2])])
        \o Between(n + 1)

\* chunk_lines: windows of lines that overlap; the last one reaches the end.
ByWindow(file) ==
  LET total == Len(file.lines)
      end(b) == Least(b + WindowLines - 1, total)
      from[b \in 1 .. total + WindowLines] ==
        IF b > total THEN <<>>
        ELSE ChunkFragments(file.lines, b, end(b)) \o
             (IF end(b) = total THEN <<>> ELSE from[b + WindowLines - WindowOverlap])
  IN  from[1]

-----------------------------------------------------------------------------
ChunkInit ==
  /\ chunks = <<>>
  /\ \/ \E text \in ChunkTexts, w \in Windows : cutting = [how |-> "fixed", text |-> text, window |-> w]
     \/ \E text \in ChunkTexts : cutting = [how |-> "structural", text |-> text]
     \/ \E file \in CodeFiles, how \in {"definitions", "lines"} : cutting = [how |-> how, file |-> file]

ChunkCuts ==
  /\ cutting.how # "done" /\ chunks = <<>>
  /\ chunks' = CASE cutting.how = "fixed" -> Fixed(cutting.text, cutting.window[1], cutting.window[2])
                 [] cutting.how = "structural" -> Structural(cutting.text)
                 [] cutting.how = "definitions" -> ByDefinition(cutting.file)
                 [] cutting.how = "lines" -> ByWindow(cutting.file)
  /\ chunks' # <<>>
  /\ UNCHANGED cutting

ChunkNext == ChunkCuts
ChunkSpec == ChunkInit /\ [][ChunkNext]_chunkVars

-----------------------------------------------------------------------------
(* Properties of a finished cut *)

OfText == cutting.how \in {"fixed", "structural"}

\* The offsets that must be found again: what is neither blank nor a heading.
Wanted == IF OfText
          THEN {i \in 0 .. Len(cutting.text) - 1 : cutting.text[i + 1] \notin Blanks \cup Headings}
          ELSE UNION {{Offset(cutting.file.lines, n) + k : k \in 0 .. cutting.file.lines[n].size - 1} :
                        n \in {m \in DOMAIN cutting.file.lines : cutting.file.lines[m].solid}}

\* No character is lost between two fragments, and a text that has any gives a fragment.
NothingLost == chunks # <<>> =>
  \A i \in Wanted : \E k \in DOMAIN chunks : chunks[k].from <= i /\ i < chunks[k].to

\* A fragment fits what the embedder takes.
FragmentsFit ==
  LET room == IF cutting.how = "fixed" THEN cutting.window[1] ELSE Room
  IN  \A k \in DOMAIN chunks : chunks[k].to - chunks[k].from \in 1 .. Most(room, 1)

\* Fragments come in the order of the text, and only windows overlap, by what they may.
CutsInOrder ==
  LET overlap == CASE cutting.how = "fixed" -> cutting.window[2]
                   [] cutting.how = "structural" -> SubOverlap
                   [] OTHER -> 0
  IN  cutting.how # "lines" => \A k \in 1 .. Len(chunks) - 1 :
        /\ chunks[k].from <= chunks[k + 1].from
        /\ chunks[k].to <= chunks[k + 1].to
        /\ chunks[k].to - chunks[k + 1].from <= overlap

\* The lines a code fragment is labelled with are those its characters come from.
LabelsTrue ==
  ~OfText => \A k \in DOMAIN chunks :
    LET lines == cutting.file.lines
        f == chunks[k]
    IN  /\ Offset(lines, f.first) <= f.from
        /\ f.to <= Most(Offset(lines, f.last) + lines[f.last].size, f.from + 1)
        /\ f.first # f.last => /\ f.from = Offset(lines, f.first)
                               /\ f.to = Offset(lines, f.last) + lines[f.last].size

\* What the cutting of a text promises, whichever way it is cut.
ChunksSound == NothingLost /\ FragmentsFit /\ CutsInOrder /\ LabelsTrue
=============================================================================
