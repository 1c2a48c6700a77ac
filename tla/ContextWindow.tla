--------------------------- MODULE ContextWindow ---------------------------
(***************************************************************************)
(* What of a conversation is sent to the model                             *)
(* (src/agent/context_engine.py): the strategy of the chat picks messages  *)
(* of the active branch, then a reply that called tools is expanded into   *)
(* the calls, their results and its text.                                  *)
(*                                                                         *)
(* A stored message is [role, text, calls, cost]: the tokens of its text   *)
(* (0 when it is blank), the tool calls of its trace and what one call     *)
(* costs, its name, arguments and result together.                         *)
(***************************************************************************)
EXTENDS Integers, Sequences, FiniteSets, SequencesExt


CONSTANTS Recent,         \* RECENT_MESSAGE_COUNT
          CtxLength,  \* context_length, the same for every strategy
          Trigger,        \* SUMMARY_TRIGGER_RATIO of it
          MaxLength       \* bound: messages of the branch

ASSUME ContextAssumption == Recent \in Nat \ {0}

Strategies == {"sliding", "sticky", "truncate_middle", "no_compression"}

VARIABLES ctxBranch,     \* the messages of the active branch, oldest first
          strategy,
          sent,       \* what the last turn sent: items [kind, of, call, tokens]
          stats       \* current_context_size as it was computed for that

contextVars == <<ctxBranch, strategy, sent, stats>>

\* _message_to_dict: the stored count of a reply and what its trace adds.
CtxTokens(m) == m.text + m.calls * m.cost

\* _message_tokens counts the messages as they are sent, the traces expanded.
TokenSum(counts) == FoldLeft(LAMBDA a, b : a + b, 0, counts)
CtxTotal(messages) == TokenSum([i \in DOMAIN messages |-> CtxTokens(messages[i])])

\* _expand_trace_message: the calls, one result each, and the text when there is one.
ExpandMessage(m, i) ==
  LET item(kind, k, tokens) == [kind |-> kind, of |-> i, call |-> k, tokens |-> tokens]
      \* half of what a call costs is its name and arguments
      asked == m.calls * (m.cost \div 2)
      rest == CtxTokens(m) - asked - m.calls * (m.cost - m.cost \div 2)
  IN  IF m.calls = 0 THEN <<item(m.role, 0, m.text)>>
      ELSE <<item("calls", m.calls, asked)>>
           \o [k \in 1 .. m.calls |-> item("tool", k, m.cost - m.cost \div 2)]
           \o (IF m.text > 0 THEN <<item("assistant", 0, rest)>> ELSE <<>>)

\* The strategies pick positions of the branch.
Latest(n) == {i \in 1 .. n : i > n - Recent}
Overflows(messages, how) == how = "no_compression" /\ CtxTotal(messages) > CtxLength
Picked(messages, how) ==
  LET n == Len(messages)
  IN  IF how = "no_compression" \/ CtxTotal(messages) <= Trigger \/ n <= Recent THEN 1 .. n
      ELSE CASE how = "sliding" -> Latest(n)
             [] how = "sticky" -> {1} \cup Latest(n)
             [] how = "truncate_middle" -> {1, 2} \cup Latest(n)

(* Mutant: the traces are expanded before the strategy counts and cuts the messages. *)
BuildExpanded(messages, how) ==
  LET items == FlattenSeq([i \in DOMAIN messages |-> ExpandMessage(messages[i], i)])
      n == Len(items)
      kept == IF how = "no_compression" \/ CtxTotal(messages) <= Trigger \/ n <= Recent THEN 1 .. n
              ELSE Latest(n) \cup (CASE how = "sliding" -> {} [] how = "sticky" -> {1} [] OTHER -> {1, 2})
  IN  FlattenSeq([i \in 1 .. n |-> IF i \in kept THEN <<items[i]>> ELSE <<>>])

\* build_llm_context, behind the system prompt.
Build(messages, how) ==
  FlattenSeq([i \in DOMAIN messages |->
                IF i \in Picked(messages, how) THEN ExpandMessage(messages[i], i) ELSE <<>>])

\* compute_chat_stats
Size(items) == TokenSum([k \in DOMAIN items |-> items[k].tokens])

-----------------------------------------------------------------------------
ContextInit ==
  /\ ctxBranch = <<>> /\ sent = <<>> /\ stats = 0
  /\ strategy \in Strategies

\* A turn: the question is saved and the context built; on an overflow it is deleted again.
Asks ==
  \E text \in 1 .. 2 :
    LET question == [role |-> "user", text |-> text, calls |-> 0, cost |-> 0]
        messages == Append(ctxBranch, question)
    IN  /\ Len(messages) <= MaxLength
        /\ ctxBranch' = IF Overflows(messages, strategy) THEN ctxBranch ELSE messages
        /\ sent' = IF Overflows(messages, strategy) THEN <<>> ELSE Build(messages, strategy)
        /\ stats' = Size(sent')
        /\ UNCHANGED strategy

\* The reply is stored with its trace; only a reply that called tools may be blank.
CtxAnswers ==
  /\ ctxBranch # <<>> /\ Last(ctxBranch).role = "user" /\ Len(ctxBranch) < MaxLength
  /\ \E text \in 0 .. 2, calls \in 0 .. 2 :
       /\ text = 0 => calls > 0
       /\ ctxBranch' = Append(ctxBranch, [role |-> "assistant", text |-> text, calls |-> calls, cost |-> 3])
  /\ UNCHANGED <<strategy, sent, stats>>

ChangesStrategy ==
  /\ strategy' \in Strategies \ {strategy}
  /\ UNCHANGED <<ctxBranch, sent, stats>>

ContextNext == Asks \/ CtxAnswers \/ ChangesStrategy
ContextSpec == ContextInit /\ [][ContextNext]_contextVars

-----------------------------------------------------------------------------
(* Properties.  `sent` was built from the branch as it was: a prefix of today's. *)

\* Calls and results stay together: a window never opens between a call and its results,
\* which a provider would refuse.
CallsAnswered ==
  \A k \in DOMAIN sent :
    /\ sent[k].kind = "calls" =>
         /\ k + sent[k].call <= Len(sent)
         /\ \A j \in 1 .. sent[k].call :
              sent[k + j].kind = "tool" /\ sent[k + j].call = j /\ sent[k + j].of = sent[k].of
    /\ sent[k].kind = "tool" =>
         /\ k > sent[k].call
         /\ sent[k - sent[k].call].kind = "calls" /\ sent[k - sent[k].call].of = sent[k].of

\* The question comes last, messages keep their order, and none is sent twice.
QuestionLast ==
  sent # <<>> =>
    /\ Last(sent).kind = "user"
    /\ \A j, k \in DOMAIN sent : j < k =>
         \/ sent[j].of < sent[k].of
         \/ sent[j].of = sent[k].of /\ sent[j].kind # sent[k].kind
         \/ sent[j].of = sent[k].of /\ sent[j].call < sent[k].call

\* The size shown counts every message sent once, its text and its trace.
SizeIsTrue ==
  stats = TokenSum([i \in DOMAIN ctxBranch |->
                      IF \E k \in DOMAIN sent : sent[k].of = i THEN CtxTokens(ctxBranch[i]) ELSE 0])

ContextSound == CallsAnswered /\ QuestionLast /\ SizeIsTrue
=============================================================================
