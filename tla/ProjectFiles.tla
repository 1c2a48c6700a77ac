---------------------------- MODULE ProjectFiles ----------------------------
(***************************************************************************)
(* The file and git tools of mcp_servers/project_git.py: several calls on  *)
(* one event loop, git as a child process, and a developer who works on    *)
(* the same files.                                                         *)
(*                                                                         *)
(* A text is a sequence of letters; all lines of a file end alike (CRLF or *)
(* LF).  Sizes of answers are numbers of characters.                       *)
(***************************************************************************)
EXTENDS Naturals, Sequences, FiniteSets, AnswerText, SequencesExt


CONSTANTS
  ToolCalls,
  Paths,
  Letters,       \* one letter is a line of a text
  Fragments,     \* the texts a caller sends
  MaxLetters,    \* MAX_WRITE_BYTES
  ReadWindow,    \* READ_WINDOW_LINES
  LineChars,     \* letter -> characters of its line as read_file shows it
  BodyChars      \* sizes of what a tool has to say, before it is cut

ASSUME FilesAssumption ==
  /\ MaxLetters \in Nat \ {0} /\ ReadWindow \in Nat \ {0}
  /\ LineChars \in [Letters -> Nat] /\ BodyChars \subseteq Nat
  /\ Fragments \subseteq Seq(Letters)

VARIABLES
  disk,      \* path -> [text, crlf, exists]
  ignored,   \* the paths git ignores or the tools protect
  toolCalls,     \* call -> what it asks and where it stands
  answers    \* call -> its answer

fileVars == <<disk, ignored, toolCalls, answers>>

Absent == [text |-> <<>>, crlf |-> FALSE, exists |-> FALSE]
File(text, crlf) == [text |-> text, crlf |-> crlf, exists |-> TRUE]
NoAnswer == [kind |-> "none"]
Idle == [tool |-> "none", pc |-> "idle", path |-> 0, text |-> <<>>, by |-> <<>>, start |-> 1, upto |-> 0,
         hidden |-> FALSE, old |-> Absent, new |-> Absent, raced |-> FALSE]
Over == [Idle EXCEPT !.pc = "answered"]

FilesInit ==
  /\ disk \in [Paths -> {Absent} \cup {File(text, crlf) : text \in Fragments, crlf \in BOOLEAN}]
  /\ ignored = {}
  /\ toolCalls = [k \in ToolCalls |-> Idle] /\ answers = [k \in ToolCalls |-> NoAnswer]

Reply(k, answer) ==
  /\ answers' = [answers EXCEPT ![k] = answer]
  /\ toolCalls' = [toolCalls EXCEPT ![k] = Over]
Refuse(k) == Reply(k, [kind |-> "refused"])

(***************************************************************************)
(* Editing.                                                                *)
(***************************************************************************)
OccursAt(old, text, i) == i + Len(old) - 1 <= Len(text) /\ SubSeq(text, i, i + Len(old) - 1) = old
Occurrences(old, text) == {i \in 1..Len(text) : OccursAt(old, text, i)}

(* str.count: from the left, occurrences that do not overlap.              *)
Counted(old, text) ==
  LET found == Occurrences(old, text)
      free[i \in 1..Len(text) + Len(old)] ==   \* occurrences counted from position i on
        IF i > Len(text) THEN 0
        ELSE IF i \in found THEN 1 + free[i + Len(old)] ELSE free[i + 1]
  IN free[1]

(* str.replace(old, new, 1): the first occurrence, if there is one.        *)
ReplacedOnce(text, old, new) ==
  LET i == CHOOSE i \in Occurrences(old, text) : \A j \in Occurrences(old, text) : i <= j
  IN IF Occurrences(old, text) = {} THEN text
     ELSE SubSeq(text, 1, i - 1) \o new \o SubSeq(text, i + Len(old), Len(text))

(***************************************************************************)
(* A call.  The loop lets others in while git runs; from the moment the    *)
(* file is read until it is replaced it does not, but the developer may.   *)
(***************************************************************************)
ToolArrives(k) ==
  /\ toolCalls[k].pc = "idle"
  /\ \E tool \in {"write", "edit", "read", "list"}, p \in Paths, text, by \in Fragments,
        start \in 1..MaxLetters, upto \in 0..MaxLetters :
       /\ tool # "edit" => by = <<>>
       /\ tool \in {"read", "list"} => text = <<>>
       /\ tool # "read" => start = 1 /\ upto = 0
       /\ upto = 0 \/ upto >= start
       /\ toolCalls' = [toolCalls EXCEPT ![k].tool = tool, ![k].pc = "asking", ![k].path = p, ![k].text = text,
                                 ![k].by = by, ![k].start = start, ![k].upto = upto]
  /\ UNCHANGED <<disk, ignored, answers>>

(* git check-ignore of check_write_target, git ls-files of                 *)
(* require_visible_file: the child process looks at the working tree.      *)
GitLooks(k) ==
  /\ toolCalls[k].pc = "asking"
  /\ toolCalls' = [toolCalls EXCEPT ![k].pc = "looked",
       ![k].hidden = \/ toolCalls[k].tool # "list" /\ toolCalls[k].path \in ignored
                     \/ toolCalls[k].tool = "read" /\ ~disk[toolCalls[k].path].exists]
  /\ UNCHANGED <<disk, ignored, answers>>

LoopFree == \A k \in ToolCalls : toolCalls[k].pc # "writing"

(* run_command: git runs out of time or fails; the path is hidden, a       *)
(* folder or a binary file.                                                *)
GitRefuses(k) ==
  /\ LoopFree
  /\ toolCalls[k].pc = "asking" \/ (toolCalls[k].pc = "looked" /\ toolCalls[k].hidden)
  /\ Refuse(k)
  /\ UNCHANGED <<disk, ignored>>

(* Mutant: another call may run between the read and the replacement.      *)
ProceedsAnyway(k, tool) == toolCalls[k].pc = "looked" /\ ~toolCalls[k].hidden /\ toolCalls[k].tool = tool

Proceeds(k, tool) == LoopFree /\ toolCalls[k].pc = "looked" /\ ~toolCalls[k].hidden /\ toolCalls[k].tool = tool
OnDisk(k) == disk[toolCalls[k].path]

WantsWrite(k, text) ==
  /\ toolCalls' = [toolCalls EXCEPT ![k].pc = "writing", ![k].old = OnDisk(k), ![k].new = File(text, OnDisk(k).crlf)]
  /\ UNCHANGED answers

WriteFile(k) ==
  /\ Proceeds(k, "write")
  /\ IF OnDisk(k).exists /\ OnDisk(k).text = toolCalls[k].text
     THEN Reply(k, [kind |-> "same"])
     ELSE WantsWrite(k, toolCalls[k].text)
  /\ UNCHANGED <<disk, ignored>>

(* edit_file: what must hold of the fragment and of the result.            *)
Edits(k, old, new) ==
  /\ OnDisk(k).exists /\ old # <<>> /\ old # new
  /\ Counted(old, OnDisk(k).text) = 1
  /\ Len(ReplacedOnce(OnDisk(k).text, old, new)) <= MaxLetters

EditFile(k) ==
  /\ Proceeds(k, "edit")
  /\ LET old == toolCalls[k].text new == toolCalls[k].by IN
     IF Edits(k, old, new) THEN WantsWrite(k, ReplacedOnce(OnDisk(k).text, old, new)) ELSE Refuse(k)
  /\ UNCHANGED <<disk, ignored>>

Replaced(k, file) == disk' = [disk EXCEPT ![toolCalls[k].path] = file]

(* _result: a summary line and the diff.                                   *)
Wrote(k) == \E diff \in BodyChars : Reply(k, [kind |-> "wrote", chars |-> FitText(1, diff, FALSE)])

(* _write_atomic and _result: the file is replaced, or stays as it is.     *)
Writes(k) ==
  /\ toolCalls[k].pc = "writing"
  /\ \/ Replaced(k, toolCalls[k].new) /\ Wrote(k)
     \/ Refuse(k) /\ UNCHANGED disk
  /\ UNCHANGED ignored

Shown(text, start, n) == FoldLeft(LAMBDA sum, c : sum + LineChars[c] + 1, 0, SubSeq(text, start, n))

(* Mutant: a first line that does not fit is left for the next call.       *)
LastShownWhole(text, start, end, room) ==
  CHOOSE n \in start - 1..end : Shown(text, start, n) <= room /\ (n < end => Shown(text, start, n + 1) > room)

(* read_file: the last line shown of those from start to end.  The first   *)
(* one is cut to what fits, so that the next call can go on after it.      *)
LastShown(text, start, end, room) ==
  CHOOSE n \in start..end :
    /\ n = start \/ Shown(text, start, n) <= room
    /\ n < end => ~(Shown(text, start, n + 1) <= room)

(* end_line widens the window; the advice to read on is given when lines   *)
(* asked for are missing, or when none was named.                          *)
ReadFile(k) ==
  /\ Proceeds(k, "read")
  /\ LET text == OnDisk(k).text
         start == toolCalls[k].start
         upto == toolCalls[k].upto
         end == AtMost(Len(text), IF upto = 0 THEN start + ReadWindow - 1 ELSE upto)
         last == LastShown(text, start, end, MaxChars - MarkerChars - 2)
     IN IF ~OnDisk(k).exists \/ start > Len(text)
        THEN Refuse(k)
        ELSE Reply(k, [kind |-> "read", first |-> start, last |-> last, wanted |-> IF upto = 0 THEN Len(text) ELSE end,
                       next |-> IF last < Len(text) /\ (last < end \/ upto = 0) THEN last + 1 ELSE 0])
  /\ UNCHANGED <<disk, ignored>>

(* git_status, git_recent_commits; git_diff without and with its stat;     *)
(* search_text, find_usages: hits left out, and for find_usages files left *)
(* unread, get a marker of their own inside the body.                      *)
StatusChars(summary, body, capped) == FitText(summary, body, capped)
DiffChars(summary, stat, patch, capped) ==
  IF summary + 1 + patch <= MaxChars /\ ~capped THEN summary + 1 + patch
  ELSE ComposedDiff(summary, stat, patch, capped)
SearchChars(summary, hits, more, capped) == FitText(summary, hits + (IF more THEN 1 + MarkerChars ELSE 0), capped)
UsagesChars(summary, rows, more, unread) ==
  FitText(summary, rows + (IF more THEN 1 + MarkerChars ELSE 0) + (IF unread THEN 1 + MarkerChars ELSE 0), FALSE)

ListTool(k) ==
  /\ Proceeds(k, "list")
  /\ \E summary, body, extra \in BodyChars, capped, more \in BOOLEAN :
       \E chars \in {StatusChars(summary, body, capped), DiffChars(summary, extra, body, capped),
                     SearchChars(summary, body, more, capped), UsagesChars(summary, body, more, capped),
                     TrackedFiles(summary, extra, body)} :
         Reply(k, [kind |-> "list", chars |-> chars])
  /\ UNCHANGED <<disk, ignored>>

(***************************************************************************)
(* The developer, who does not wait for the server's loop, and a restart.  *)
(***************************************************************************)
DeveloperSaves ==
  /\ \E p \in Paths, text \in Fragments, crlf \in BOOLEAN :
       /\ disk' = [disk EXCEPT ![p] = File(text, crlf)]
       /\ toolCalls' = [k \in ToolCalls |->
            IF toolCalls[k].pc = "writing" /\ toolCalls[k].path = p THEN [toolCalls[k] EXCEPT !.raced = TRUE] ELSE toolCalls[k]]
  /\ UNCHANGED <<ignored, answers>>

DeveloperIgnores ==
  /\ \E p \in Paths : ignored' = (ignored \ {p}) \cup ({p} \ ignored)
  /\ UNCHANGED <<disk, toolCalls, answers>>

(* The process dies; what was not answered never is.                       *)
ServerDies ==
  /\ \E k \in ToolCalls : toolCalls[k].pc \notin {"idle", "answered"}
  /\ toolCalls' = [k \in ToolCalls |-> IF toolCalls[k].pc = "idle" THEN Idle ELSE Over]
  /\ UNCHANGED <<disk, ignored, answers>>

FilesNext ==
  \/ DeveloperSaves \/ DeveloperIgnores \/ ServerDies
  \/ \E k \in ToolCalls :
       \/ ToolArrives(k) \/ GitLooks(k) \/ GitRefuses(k) \/ WriteFile(k) \/ EditFile(k) \/ Writes(k)
       \/ ReadFile(k) \/ ListTool(k)

FilesSpec == FilesInit /\ [][FilesNext]_fileVars

(***************************************************************************)
(* Properties.                                                             *)
(***************************************************************************)
(* No answer is longer than --max-chars, whatever is cut.                  *)
AnswersFit == \A k \in ToolCalls : answers[k].kind \in {"wrote", "list"} => answers[k].chars <= MaxChars

(* A caller that follows the advice of read_file reads on: an answer shows *)
(* a line at least, and either all that was wanted or where to go on, with *)
(* no line between.                                                        *)
ReadGoesOn ==
  \A k \in ToolCalls : answers[k].kind = "read" =>
    /\ answers[k].last >= answers[k].first
    /\ answers[k].last < answers[k].wanted => answers[k].next = answers[k].last + 1

(* Two calls that change one file do not lose each other's change: a call  *)
(* replaces the text it read, unless the developer saved in between, and   *)
(* keeps the line ends.  A call that does not answer so changes nothing.   *)
NoLostEdit ==
  \A k \in ToolCalls :
    toolCalls[k].pc = "writing" /\ toolCalls'[k].pc = "answered" =>
      LET p == toolCalls[k].path IN
      IF answers'[k].kind = "wrote"
      THEN ~toolCalls[k].raced => disk[p] = toolCalls[k].old /\ disk'[p].crlf = disk[p].crlf
      ELSE disk' = disk
=============================================================================
