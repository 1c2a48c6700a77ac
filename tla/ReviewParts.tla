----------------------------- MODULE ReviewParts -----------------------------
(***************************************************************************)
(* One review of a pull request: it is read from the user's GitHub server  *)
(* page by page while its author may push, cut into parts that fit the     *)
(* context of the model, each part is reviewed with fragments of the       *)
(* documentation and of the code, the partial reviews are merged level by  *)
(* level, and the head is read once more (src/agent/review_github.py,      *)
(* review_pipeline.py, review_service.py).                                 *)
(*                                                                         *)
(* Text is measured, not spelt: a line is its number of tokens, and the    *)
(* estimate of a text is the sum of its lines.  A push always makes a new  *)
(* head: no force push brings an older one back.                           *)
(***************************************************************************)
EXTENDS Naturals, Sequences, SequencesExt


CONSTANTS Histories,    \* what the heads of the pull request show, one after another
          PerPage,      \* FILES_PER_PAGE
          MaxPages,     \* MAX_FILE_PAGES
          Available,    \* _available_tokens(context_length)
          HeaderSize,   \* the "diff --git" line of a file
          MaxParts,     \* MAX_PARTS
          AnswerSizes   \* what a partial review may measure

\* A head is the files it changes, each once: its path, whether get_files brings its
\* text, and the sizes of the lines of each hunk.
FileChange == [path : STRING, patch : BOOLEAN, hunks : Seq(Seq(Nat))]
OncePerPath(files) == \A i, j \in DOMAIN files : files[i].path = files[j].path => i = j

ASSUME PartsAssumption ==
  /\ \A h \in Histories : /\ h \in Seq(Seq(FileChange)) /\ h # <<>>
                           /\ \A rev \in DOMAIN h : OncePerPath(h[rev])
  /\ PerPage \in Nat \ {0} /\ MaxPages \in Nat
  /\ Available \in Nat /\ HeaderSize \in Nat /\ MaxParts \in Nat /\ AnswerSizes \subseteq Nat

VARIABLES history, tip,  \* the pull request on GitHub, and which of its heads is current
          step,          \* where the review is
          pr,            \* PullRequestData as far as it is read
          parts, plan,   \* the parts still to be reviewed, and all of them
          docs,          \* [active, used, notes]: the documentation base of run_review
          tries,         \* malformed replies to the current call
          partials,      \* the sections of the level being written: parts covered, size
          groups,        \* _merge_sections: the groups still to be merged at this level
          reply

partVars == <<history, tip, step, pr, parts, plan, docs, tries, partials, groups, reply>>

-----------------------------------------------------------------------------
(* The text of a change.  A file is [path, patch, hunks]: hunks are sequences *)
(* of line sizes, patch says whether get_files brought its text.              *)

Total(sizes) == FoldLeft(LAMBDA a, b : a + b, 0, sizes)
LinesSize(lines) == Total([i \in DOMAIN lines |-> lines[i].size])
Item(lines) == [lines |-> lines, size |-> LinesSize(lines)]
Joined(group) == [lines |-> FlattenSeq([i \in DOMAIN group |-> group[i].lines]),
                  size |-> Total([i \in DOMAIN group |-> group[i].size])]

HunksOf(file, rev) ==
  [h \in DOMAIN file.hunks |->
     [i \in DOMAIN file.hunks[h] |->
        [of |-> <<file.path, rev, h, i>>, from |-> 1, size |-> file.hunks[h][i]]]]

FileText(file, rev) == LET body == Item(FlattenSeq(HunksOf(file, rev)))
                       IN  [body EXCEPT !.size = @ + HeaderSize]
DiffText(files, rev) == Joined([i \in DOMAIN files |-> FileText(files[i], rev)])

\* Items are put together as long as they fit; each costs one more than it measures.
Empty == [groups |-> <<>>, group |-> <<>>, used |-> 0]
PartsClosed(acc) == IF acc.group = <<>> THEN acc.groups ELSE Append(acc.groups, Joined(acc.group))
Packs(acc, item, room) ==
  IF acc.group # <<>> /\ acc.used + item.size + 1 > room
  THEN [groups |-> PartsClosed(acc), group |-> <<item>>, used |-> item.size + 1]
  ELSE [acc EXCEPT !.group = Append(@, item), !.used = @ + item.size + 1]
Packed(items, room) == PartsClosed(FoldLeft(LAMBDA acc, item : Packs(acc, item, room), Empty, items))

\* A line that does not fit alone is cut by characters.
Slices(line, budget) ==
  IF line.size <= budget THEN <<Item(<<line>>)>>
  ELSE [k \in 1 .. (line.size + budget - 1) \div budget |->
          LET left == line.size - (k - 1) * budget
          IN  Item(<<[line EXCEPT !.from = (k - 1) * budget + 1,
                                  !.size = IF left < budget THEN left ELSE budget]>>)]

Budget == IF Available > HeaderSize + 5 THEN Available - HeaderSize - 4 ELSE 1
HunkPieces(hunk) ==
  Packed(FlattenSeq([i \in DOMAIN hunk |-> Slices(hunk[i], Budget)]), Budget)

(* Mutant: what was gathered before a large hunk is forgotten. *)
FilePiecesLosing(file, rev) ==
  LET Add(acc, hunk) ==
        IF LinesSize(hunk) + 1 > Budget
        THEN [Empty EXCEPT !.groups = acc.groups \o HunkPieces(hunk)]
        ELSE Packs(acc, Item(hunk), Budget)
      pieces == PartsClosed(FoldLeft(Add, Empty, HunksOf(file, rev)))
  IN  [k \in DOMAIN pieces |-> [pieces[k] EXCEPT !.size = @ + HeaderSize]]

\* _split_file_text: whole hunks together, a hunk that is too large line by line;
\* every piece repeats the header of the file.
FilePieces(file, rev) ==
  LET Add(acc, hunk) ==
        IF LinesSize(hunk) + 1 > Budget
        THEN [Empty EXCEPT !.groups = PartsClosed(acc) \o HunkPieces(hunk)]
        ELSE Packs(acc, Item(hunk), Budget)
      pieces == PartsClosed(FoldLeft(Add, Empty, HunksOf(file, rev)))
  IN  [k \in DOMAIN pieces |-> [pieces[k] EXCEPT !.size = @ + HeaderSize]]

\* Where the diff of head rev shows the file; the last place counts.
InDiff(path, rev) == {k \in DOMAIN history[rev] : history[rev][k].path = path}

\* What is known of the change of one read file: its patch, else its part of the diff.
Known(entry) == LET here == InDiff(entry.file.path, pr.diff)
                IN  IF entry.file.patch THEN <<entry>>
                    ELSE IF here = {} THEN <<>>
                    ELSE <<[file |-> history[pr.diff][Max(here)], rev |-> pr.diff]>>
PiecesOf(entry) == LET text == FileText(entry.file, entry.rev)
                   IN  IF text.size <= Available THEN <<text>> ELSE FilePieces(entry.file, entry.rev)

Unreviewed == {pr.files[i].file.path : i \in {j \in DOMAIN pr.files : Known(pr.files[j]) = <<>>}}

\* plan_parts: the whole diff when it fits, else the files packed into parts.
Planned ==
  LET diff == DiffText(history[pr.diff], pr.diff)
      known == FlattenSeq([i \in DOMAIN pr.files |-> Known(pr.files[i])])
  IN  IF diff.lines # <<>> /\ diff.size <= Available THEN <<diff>>
      ELSE Packed(FlattenSeq([i \in DOMAIN known |-> PiecesOf(known[i])]), Available)
Skipped == LET diff == DiffText(history[pr.diff], pr.diff)
           IN  IF diff.lines # <<>> /\ diff.size <= Available THEN {} ELSE Unreviewed

-----------------------------------------------------------------------------
(* Reading the pull request *)

NoReply == [ok |-> FALSE, code |-> "none"]

PartsInit ==
  /\ history \in Histories
  /\ tip = 1
  /\ step = "meta"
  /\ pr = [head |-> 0, count |-> 0, page |-> 1, files |-> <<>>, diff |-> 0]
  /\ parts = <<>> /\ plan = <<>>
  /\ \E chosen \in BOOLEAN :
       docs = [active |-> chosen, used |-> FALSE, notes |-> IF chosen THEN {} ELSE {"not_selected"}]
  /\ tries = 0 /\ partials = <<>> /\ groups = <<>>
  /\ reply = NoReply

\* The author of the pull request pushes.
Pushes == /\ tip < Len(history)
          /\ tip' = tip + 1
          /\ UNCHANGED <<history, step, pr, parts, plan, docs, tries, partials, groups, reply>>

Stops(code) ==
  /\ step' = "done"
  /\ reply' = [ok |-> FALSE, code |-> code]
  /\ UNCHANGED <<history, tip, pr, parts, plan, docs, tries, partials, groups>>

Reads(next) == /\ step' = next
               /\ UNCHANGED <<history, tip, parts, plan, docs, tries, partials, groups, reply>>

\* "get": the head and the number of changed files, 0 when it is unusable.
ReadsMeta == /\ step = "meta"
             /\ \E count \in {0, Len(history[tip])} :
                  pr' = [pr EXCEPT !.head = tip, !.count = count]
             /\ Reads("files")

PageOf(files, page) == LET last == page * PerPage
                       IN  SubSeq(files, last - PerPage + 1,
                                  IF last < Len(files) THEN last ELSE Len(files))

\* The list is complete at a short page, or when the announced number is reached.
Complete(items, files) == Len(items) < PerPage \/ (pr.count # 0 /\ Len(files) >= pr.count)

ReadsPage ==
  LET items == PageOf(history[tip], pr.page)
      files == pr.files \o [i \in DOMAIN items |-> [file |-> items[i], rev |-> tip]]
  IN  /\ step = "files"
      /\ \/ /\ Complete(items, files)
            /\ pr' = [pr EXCEPT !.files = files]
            /\ Reads("diff")
         \/ /\ ~Complete(items, files) /\ pr.page < MaxPages
            /\ pr' = [pr EXCEPT !.files = files, !.page = @ + 1]
            /\ Reads("files")
         \/ /\ ~Complete(items, files) /\ pr.page = MaxPages
            /\ Stops("PR_TOO_LARGE")

ReadsDiff == /\ step = "diff"
             /\ pr' = [pr EXCEPT !.diff = tip]
             /\ Reads("plan")

\* No server, no session, a timeout, a refused token, an answer that is not understood.
ReadFails == /\ step \in {"meta", "files", "diff"}
             /\ \E code \in {"GITHUB_MCP_UNAVAILABLE", "PR_NOT_FOUND"} : Stops(code)

-----------------------------------------------------------------------------
(* The parts *)

\* A part without retrieval yet, the merge, or the end: where the loop of run_review goes.
After(rest, sections) ==
  IF rest # <<>> THEN "docs" ELSE IF Len(sections) > 1 THEN "merge" ELSE "head"

\* One group when everything fits one call, else pairs.
Grouped(sections) ==
  IF Len(sections) < 2 THEN <<>>
  ELSE IF LinesSize(sections) <= Available THEN <<sections>>
  ELSE [k \in 1 .. (Len(sections) + 1) \div 2 |->
          SubSeq(sections, 2 * k - 1, IF 2 * k < Len(sections) THEN 2 * k ELSE Len(sections))]

PlansParts ==
  /\ step = "plan"
  /\ \/ /\ Available = 0 \/ Len(Planned) > MaxParts
        /\ Stops("PR_TOO_LARGE")
     \/ /\ Available > 0 /\ Len(Planned) <= MaxParts
        /\ plan' = Planned /\ parts' = Planned
        /\ step' = After(Planned, <<>>)
        /\ UNCHANGED <<history, tip, pr, docs, tries, partials, groups, reply>>

\* The documentation base is asked for each part until it fails once.
SearchesDocs ==
  /\ step = "docs"
  /\ \/ /\ ~docs.active
        /\ docs' = docs
     \/ /\ docs.active
        /\ docs' = [docs EXCEPT !.used = TRUE]
     \/ /\ docs.active
        /\ docs' = [docs EXCEPT !.active = FALSE, !.notes = @ \cup {"unavailable"}]
  /\ step' = "code"
  /\ UNCHANGED <<history, tip, pr, parts, plan, tries, partials, groups, reply>>

SearchesCode ==
  /\ step = "code"
  /\ step' = "write"
  /\ UNCHANGED <<history, tip, pr, parts, plan, docs, tries, partials, groups, reply>>

\* A dead embedder, in either search, or a code base that cannot be used.
PartSearchFails ==
  \/ step = "docs" /\ docs.active /\ Stops("EMBEDDER_UNAVAILABLE")
  \/ step = "code" /\ \E code \in {"EMBEDDER_UNAVAILABLE", "CODE_INDEX_UNAVAILABLE"} : Stops(code)

\* The model reviews the first of the remaining parts.
PartWrites ==
  /\ step = "write"
  /\ \E size \in AnswerSizes :
       LET section == [covers |-> <<Len(plan) - Len(parts) + 1>>, size |-> size]
           sections == Append(partials, section)
           rest == Tail(parts)
       IN  /\ parts' = rest /\ partials' = IF rest = <<>> /\ Len(sections) > 1 THEN <<>> ELSE sections
           /\ groups' = IF rest = <<>> THEN Grouped(sections) ELSE <<>>
           /\ step' = After(rest, sections)
  /\ tries' = 0
  /\ UNCHANGED <<history, tip, pr, plan, docs, reply>>

\* _merge_sections: a group of one stays; the others are merged by the model.  The last
\* group of a level starts the next one.
NextLevel(sections, rest) ==
  /\ groups' = IF rest = <<>> THEN Grouped(sections) ELSE rest
  /\ partials' = IF rest = <<>> /\ Len(sections) > 1 THEN <<>> ELSE sections
  /\ step' = IF rest = <<>> /\ Len(sections) = 1 THEN "head" ELSE "merge"

Merges ==
  LET group == Head(groups)
      covers == FlattenSeq([i \in DOMAIN group |-> group[i].covers])
  IN  /\ step = "merge"
      /\ \E size \in IF Len(group) = 1 THEN {group[1].size} ELSE AnswerSizes :
           NextLevel(Append(partials, [covers |-> covers, size |-> size]), Tail(groups))
      /\ tries' = 0
      /\ UNCHANGED <<history, tip, pr, parts, plan, docs, reply>>

Calls == step = "write" \/ (step = "merge" /\ Len(Head(groups)) > 1)

\* The reply has not the three sections: the call is repeated once with a reminder.
Malformed ==
  /\ Calls
  /\ \/ /\ tries = 0
        /\ tries' = 1
        /\ UNCHANGED <<history, tip, step, pr, parts, plan, docs, partials, groups, reply>>
     \/ tries = 1 /\ Stops("REVIEW_BAD_OUTPUT")

PartModelFails == /\ Calls
              /\ \E code \in {"LLM_ERROR", "LLM_UNREACHABLE"} : Stops(code)

-----------------------------------------------------------------------------
(* The end: the head is read again, and a failure of that is ignored *)

PartReplies(head) ==
  /\ step = "head"
  /\ step' = "done"
  /\ reply' = [ok |-> TRUE, code |-> "none", docsUsed |-> docs.used, notes |-> docs.notes,
               headRead |-> head # 0, headChanged |-> head # 0 /\ head # pr.head,
               unreviewed |-> Skipped,
               covers |-> IF partials = <<>> THEN <<>> ELSE partials[1].covers]
  /\ UNCHANGED <<history, tip, pr, parts, plan, docs, tries, partials, groups>>

PartsNext ==
  \/ Pushes \/ ReadsMeta \/ ReadsPage \/ ReadsDiff \/ ReadFails
  \/ PlansParts \/ SearchesDocs \/ SearchesCode \/ PartSearchFails
  \/ PartWrites \/ Malformed \/ PartModelFails \/ Merges
  \/ PartReplies(tip) \/ PartReplies(0)

PartsSpec == PartsInit /\ [][PartsNext]_partVars

-----------------------------------------------------------------------------
(* Every token of a text, in order, named by its place in the change. *)
Tokens(lines) == FlattenSeq([i \in DOMAIN lines |->
                   [k \in 1 .. lines[i].size |-> <<lines[i].of, lines[i].from + k - 1>>]])

\* When the reply says that the head has not moved, the reviewed parts are the whole change
\* of that head: no file is left unreviewed, and every token of every file was given to the
\* model once and in order, whatever the pages, the missing patches and the cuts.
EveryLineShown ==
  reply.ok /\ reply.headRead /\ ~reply.headChanged
    => /\ reply.unreviewed = {}
       /\ Tokens(Joined(plan).lines) = Tokens(DiffText(history[pr.head], pr.head).lines)

\* A part never takes more than the context leaves for the diff.
PartsFit == \A i \in DOMAIN plan : plan[i].size <= Available

\* The merged review stands for every part once, in order.
EveryPartMerged == reply.ok => reply.covers = [i \in DOMAIN plan |-> i]

\* No documentation in a review that had something to look up: a note explains why.
SilenceExplained == reply.ok /\ ~reply.docsUsed /\ plan # <<>> => reply.notes # {}

\* What a finished review promises about the pull request it names.
ReviewWhole == EveryLineShown /\ PartsFit /\ EveryPartMerged /\ SilenceExplained
=============================================================================
