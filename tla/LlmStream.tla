----------------------------- MODULE LlmStream ------------------------------
(***************************************************************************)
(* Reading one streamed answer: stream_chat and _parse_sse_stream_with_    *)
(* tools of agent/llm_client.py.  The model's server sends text and pieces *)
(* of tool calls, each under its index, and ends in one of several ways;   *)
(* the caller may be cancelled at any line.                                *)
(***************************************************************************)
EXTENDS Naturals, Sequences, FiniteSets, SequencesExt

CONSTANTS
  CallIndexes,   \* indexes under which the model may call a tool
  MaxLines       \* bound: lines of one answer

ASSUME StreamAssumption == IsFiniteSet(CallIndexes)

VARIABLES
  streamState,   \* "open", "finished" (no more pieces), "ended", "failed", "cancelled"
  lines,         \* lines sent so far
  sentText,      \* what the server has sent: the numbers of its lines with text,
  sentCalls,     \* and index -> the numbers of the lines with a piece of that call
  accumulated,   \* tool_calls_acc: the calls in the order of their first piece
  emitted,       \* tool_calls_emitted
  gotText,       \* what the caller was given
  gotCalls       \* the lists of tool calls it was given

streamVars == <<streamState, lines, sentText, sentCalls, accumulated, emitted, gotText, gotCalls>>

StreamInit ==
  /\ streamState = "open" /\ lines = 0
  /\ sentText = <<>> /\ sentCalls = [i \in CallIndexes |-> <<>>]
  /\ accumulated = <<>> /\ emitted = FALSE
  /\ gotText = <<>> /\ gotCalls = <<>>

(* setdefault by index: one more piece of each known call, and new calls   *)
(* behind them.                                                            *)
Accumulate(acc, pieces, n) ==
  LET new == SetToSeq(pieces \ {acc[k].index : k \in DOMAIN acc})
  IN  [k \in DOMAIN acc |-> IF acc[k].index \in pieces THEN [acc[k] EXCEPT !.pieces = Append(@, n)] ELSE acc[k]]
        \o [k \in DOMAIN new |-> [index |-> new[k], pieces |-> <<n>>]]

(* A data line: text, pieces of several calls, and perhaps the reason why  *)
(* the answer finishes here.                                               *)
Line(text, pieces, finish) ==
  LET n == lines + 1
      acc == Accumulate(accumulated, pieces, n)
  IN
  /\ streamState = "open" /\ lines < MaxLines /\ lines' = n
  /\ sentText' = IF text THEN Append(sentText, n) ELSE sentText
  /\ gotText' = IF text THEN Append(gotText, n) ELSE gotText
  /\ sentCalls' = [i \in CallIndexes |-> IF i \in pieces THEN Append(sentCalls[i], n) ELSE sentCalls[i]]
  /\ accumulated' = acc
  /\ IF finish = "tool_calls"
     THEN emitted' = TRUE /\ gotCalls' = Append(gotCalls, acc)
     ELSE UNCHANGED <<emitted, gotCalls>>
  /\ streamState' = IF finish = "none" THEN "open" ELSE "finished"

ServerSends == \E text \in BOOLEAN, pieces \in SUBSET CallIndexes, finish \in {"none", "stop", "length", "tool_calls"} :
                 Line(text, pieces, finish)

(* [DONE] or the end of the body: calls that no finish reason announced    *)
(* are given now.                                                          *)
StreamEnds ==
  /\ streamState \in {"open", "finished"} /\ streamState' = "ended"
  /\ gotCalls' = IF accumulated # <<>> /\ ~emitted THEN Append(gotCalls, accumulated) ELSE gotCalls
  /\ UNCHANGED <<lines, sentText, sentCalls, accumulated, emitted, gotText>>

(* A timeout or a broken line raises; a cancelled caller closes the answer.*)
StreamFails ==
  /\ streamState \in {"open", "finished"}
  /\ streamState' \in {"failed", "cancelled"}
  /\ UNCHANGED <<lines, sentText, sentCalls, accumulated, emitted, gotText, gotCalls>>

StreamNext == ServerSends \/ StreamEnds \/ StreamFails

StreamSpec == StreamInit /\ [][StreamNext]_streamVars

(***************************************************************************)
(* Properties.                                                             *)
(***************************************************************************)
(* An answer that ended gave the caller all its text in order and all its  *)
(* calls, whole and once, however the server announced them; a call is     *)
(* never given before its last piece.                                      *)
NothingLostInStream ==
  /\ gotText = sentText
  /\ Len(gotCalls) <= 1
  /\ \A k \in DOMAIN gotCalls : \A c \in DOMAIN gotCalls[k] : gotCalls[k][c].pieces = sentCalls[gotCalls[k][c].index]
  /\ streamState = "ended" =>
       \A i \in CallIndexes : sentCalls[i] # <<>> =>
         \E k \in DOMAIN gotCalls : \E c \in DOMAIN gotCalls[k] : gotCalls[k][c].index = i
=============================================================================
