----------------------------- MODULE AnswerText -----------------------------
(***************************************************************************)
(* How the MCP servers of this repository cut an answer that is too long   *)
(* (fit_text of mcp_servers/project_git.py and support_desk.py and what is *)
(* built like it), as arithmetic on numbers of characters.                 *)
(***************************************************************************)
EXTENDS Naturals

CONSTANTS
  MaxChars,      \* --max-chars
  MarkerChars    \* the longest truncation marker of an answer

(* MIN_MAX_CHARS is 1000; a marker has at most some 200 characters.        *)
ASSUME AnswerAssumption ==
  /\ MaxChars \in Nat /\ MarkerChars \in Nat
  /\ 1000 <= MaxChars /\ 4 * MarkerChars + 12 <= MaxChars

AtMost(n, max) == IF n < max THEN n ELSE max
Less(n, m) == IF n > m THEN n - m ELSE 0

(* _cut_at_line and the marker after it, in the room that is left.         *)
CutBefore(head, body, room) ==
  LET kept == AtMost(body, room) IN
  head + (IF kept = 0 THEN 0 ELSE kept + 1) + MarkerChars

(* fit_text: a summary line, then the whole body or what fits of it.       *)
(* capped: git printed more than was read, so the marker is needed.        *)
FitText(summary, body, capped) ==
  LET head == AtMost(summary, MaxChars \div 2) IN
  IF body = 0 THEN head
  ELSE IF head + 1 + body <= MaxChars /\ ~capped THEN head + 1 + body
  ELSE CutBefore(head + 1, body, Less(MaxChars, head + 1 + 1 + MarkerChars))

(* _shrink_stat keeps whole lines of the stat, but always the two last     *)
(* ones ("... more files not shown" and the totals), 80 characters here.   *)
ShrunkStat(stat) == AtMost(stat, IF MaxChars \div 4 < 80 THEN 80 ELSE MaxChars \div 4)

(* compose_truncated_diff.                                                 *)
ComposedDiff(summary, stat, patch, capped) ==
  LET header == AtMost(summary, MaxChars \div 2) + (IF stat = 0 THEN 0 ELSE ShrunkStat(stat) + 1) + 2
  IN IF header + patch <= MaxChars /\ ~capped THEN header + patch
     ELSE CutBefore(header, patch, Less(MaxChars, header + MarkerChars + 1))

(* git_tracked_files and _folder_table: a summary (never cut: its path has *)
(* less than a third of the room), a table of folders in a third of the    *)
(* room, whose last line ("... more folders") may go over, and the paths   *)
(* that fit.                                                               *)
TrackedFiles(summary, table, paths) ==
  LET shown == AtMost(summary, MaxChars \div 3)
      head == shown + 1 + AtMost(table, MaxChars \div 3 + 40) + 1
  IN IF shown + 1 + paths <= MaxChars THEN shown + 1 + paths
     ELSE CutBefore(head, paths, Less(MaxChars, head + MarkerChars + 1))
=============================================================================
