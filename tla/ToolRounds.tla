----------------------------- MODULE ToolRounds -----------------------------
(***************************************************************************)
(* One turn's conversation with the model: the first answer, the retry of  *)
(* a promise without a tool call, the tool rounds (_run_turn_middle and    *)
(* _run_tool_rounds of agent/ws.py) and the turn of a background job that  *)
(* reuses them (agent/headless.py).                                        *)
(*                                                                         *)
(* A step is one streamed request or one round of calls.  A call is its    *)
(* signature, name and canonical arguments; a text is what the checks of   *)
(* agent/tool_guard.py tell apart.                                         *)
(***************************************************************************)
EXTENDS Naturals, FiniteSets

CONSTANTS
  Signatures,  \* the calls the model may make
  MaxRounds    \* MAX_TOOL_ROUNDS

ASSUME RoundsAssumption == MaxRounds \in Nat \ {0}

VARIABLES
  mode,      \* chat or headless
  offered,   \* the turn has tools to offer
  pc,        \* the request or the step that comes next, or how the turn ended
  calls,     \* signatures of the round dispatched last, or about to be
  rounds,    \* acc.rounds
  used,      \* acc's flags: empty_retry_used, announce_nudge_used, error_nudge_used
  outcomes,  \* how the calls of the last round ended
  rejected,  \* some transition of a task was refused
  error,     \* acc.error is set
  said,      \* the text after the first answer is not blank
  requests,  \* requests to the model so far
  shown,     \* of those, how many sent text to the client, ...
  saved      \* ... and how many had their text added to the reply

vars == <<mode, offered, pc, calls, rounds, used, outcomes, rejected, error,
          said, requests, shown, saved>>

Final == {"done", "discarded", "failed", "broken"}
Flags == {"empty", "announce", "error"}
Outcomes == {"ok", "mcpFailed", "blocked", "failed", "illegal"}

(* Announcing: looks_like_action_announcement (or, in a first answer, a    *)
(* claim); Slight: shorter than TOOL_ERROR_NUDGE_MAX_CHARS.                *)
Texts == {"blank", "short", "long", "promise", "longPromise"}
Announcing == {"promise", "longPromise"}
Slight == {"blank", "short", "promise"}

Init ==
  /\ mode \in {"chat", "headless"}
  /\ offered \in BOOLEAN
  /\ pc = IF mode = "chat" THEN "first" ELSE "follow"
  /\ calls = {} /\ outcomes = {} /\ used = {}
  /\ rounds = 0 /\ requests = 0 /\ shown = 0 /\ saved = 0
  /\ rejected = FALSE /\ error = FALSE /\ said = FALSE

----------------------------------------------------------------------------
(* Requests. *)

Shows(t) == IF t = "blank" THEN 0 ELSE 1

(* A streamed answer of text t; its text is kept, or only shown. *)
Streamed(t, kept) ==
  /\ requests' = requests + 1
  /\ shown' = shown + Shows(t)
  /\ saved' = IF kept THEN saved + Shows(t) ELSE saved

(* Calls come from tool_calls or are recovered from the text, both only if *)
(* tools were offered.                                                     *)
CallsFrom(tools) == IF tools THEN SUBSET Signatures ELSE {{}}

Capped == rounds >= MaxRounds

ToolsOffered == offered /\ ~Capped

(* Mutant: the calls are compared with nothing. *)
ContinuesAlways(c) ==
  /\ pc' = IF c = {} THEN "wrapup" ELSE "dispatch"
  /\ calls' = c

(* The rounds go on with the calls c unless one repeats the last round. *)
Continues(c) ==
  /\ pc' = IF c = {} THEN "wrapup" ELSE IF c \cap calls # {} THEN "loop" ELSE "dispatch"
  /\ calls' = IF c \cap calls # {} THEN calls ELSE c

(* should_nudge_after_tool_error: only MCP failures, and no success. *)
FailedOnly == "mcpFailed" \in outcomes /\ "ok" \notin outcomes

(* _pick_nudge *)
PickNudge(t) ==
  IF "announce" \notin used /\ t \in Announcing THEN "announce"
  ELSE IF "error" \notin used /\ FailedOnly /\ t \in Slight THEN "error"
  ELSE "none"

(* What follows a follow-up of text t and calls c: a nudge, or its calls. *)
Judged(t, c) ==
  IF c = {} /\ ~Capped /\ PickNudge(t) # "none"
  THEN /\ used' = used \cup {PickNudge(t)}
       /\ pc' = "nudge"
       /\ UNCHANGED calls
  ELSE Continues(c) /\ UNCHANGED used

(* Mutant: every empty answer is asked for once more. *)
WantsEmptyRetryAlways(t, c) == ToolsOffered /\ c = {} /\ t = "blank"

WantsEmptyRetry(t, c) == ToolsOffered /\ c = {} /\ t = "blank" /\ "empty" \notin used

----------------------------------------------------------------------------
(* The first answer of a chat turn. *)

FirstAnswer ==
  /\ pc = "first"
  /\ \E t \in Texts, c \in CallsFrom(offered) :
       /\ Streamed(t, TRUE)
       /\ calls' = c
       /\ pc' = IF c # {} THEN "dispatch"
                ELSE IF offered /\ t \in Announcing THEN "retry" ELSE "done"
  /\ UNCHANGED <<mode, offered, rounds, used, outcomes, rejected, error, said>>

(* An error frame, and the question is discarded. *)
FirstFails ==
  /\ pc = "first"
  /\ \E t \in Texts : Streamed(t, FALSE)
  /\ pc' = "discarded"
  /\ UNCHANGED <<mode, offered, calls, rounds, used, outcomes, rejected, error, said>>

(* _stream_action_claim_retry; a failure keeps what has come. *)
ActionClaimRetry ==
  /\ pc = "retry"
  /\ \E t \in Texts, c \in CallsFrom(offered) :
       /\ Streamed(t, TRUE)
       /\ calls' = c
       /\ pc' = IF c # {} THEN "dispatch" ELSE "done"
  /\ UNCHANGED <<mode, offered, rounds, used, outcomes, rejected, error, said>>

----------------------------------------------------------------------------
(* The rounds. *)

(* _dispatch_round: every call gets a result.  _run_tool_rounds has flags  *)
(* of its own.                                                             *)
DispatchRound ==
  /\ pc = "dispatch"
  /\ \E results \in [calls -> Outcomes] :
       /\ outcomes' = {results[c] : c \in calls}
       /\ rejected' = (rejected \/ \E c \in calls : results[c] = "illegal")
  /\ rounds' = rounds + 1
  /\ used' = IF rounds = 0 THEN {} ELSE used
  /\ pc' = "follow"
  /\ UNCHANGED <<mode, offered, calls, error, said, requests, shown, saved>>

(* A follow-up or a nudge, tools on offer below the cap; an answer with    *)
(* nothing in it is asked for once more.                                   *)
FollowUp ==
  /\ pc \in {"follow", "nudge"}
  /\ \E t \in Texts, c \in CallsFrom(ToolsOffered) :
       /\ Streamed(t, TRUE)
       /\ said' = (said \/ t # "blank")
       /\ IF WantsEmptyRetry(t, c)
          THEN /\ used' = used \cup {"empty"}
               /\ pc' = IF pc = "follow" THEN "followEmpty" ELSE "nudgeEmpty"
               /\ UNCHANGED calls
          ELSE IF pc = "follow" THEN Judged(t, c)
          ELSE Continues(c) /\ UNCHANGED used
  /\ UNCHANGED <<mode, offered, rounds, outcomes, rejected, error>>

(* Mutant: the text of the second attempt is not added to the reply. *)
EmptyRetryUnsaved ==
  /\ pc \in {"followEmpty", "nudgeEmpty"}
  /\ \E t \in Texts :
       /\ Streamed(t, FALSE)
       /\ UNCHANGED said
       /\ IF pc = "followEmpty" THEN Judged(t, {}) ELSE Continues({}) /\ UNCHANGED used
  /\ UNCHANGED <<mode, offered, rounds, outcomes, rejected, error>>

(* The second attempt, without tools. *)
EmptyRetry ==
  /\ pc \in {"followEmpty", "nudgeEmpty"}
  /\ \E t \in Texts :
       /\ Streamed(t, TRUE)
       /\ said' = (said \/ t # "blank")
       /\ IF pc = "followEmpty" THEN Judged(t, {}) ELSE Continues({}) /\ UNCHANGED used
  /\ UNCHANGED <<mode, offered, rounds, outcomes, rejected, error>>

(* The text-only answer that ends a loop. *)
LoopAnswer ==
  /\ pc = "loop"
  /\ \E t \in Texts :
       /\ Streamed(t, TRUE)
       /\ said' = (said \/ t # "blank")
  /\ pc' = "wrapup"
  /\ UNCHANGED <<mode, offered, calls, rounds, used, outcomes, rejected, error>>

(* Any of these streams fails: what it has shown is not in acc.text. *)
FollowUpFails ==
  /\ pc \in {"follow", "nudge", "followEmpty", "nudgeEmpty", "loop"}
  /\ \E t \in Texts : Streamed(t, FALSE)
  /\ error' = TRUE
  /\ pc' = "wrapup"
  /\ UNCHANGED <<mode, offered, calls, rounds, used, outcomes, rejected, said>>

----------------------------------------------------------------------------
(* The end of the rounds. *)

(* A round has results, so the turn is not undone here;                    *)
(* _reprompt_rejected_transitions follows, unless the model has failed.    *)
EndsRounds ==
  /\ mode = "chat"
  /\ pc = "wrapup"
  /\ pc' = IF rejected /\ ~error THEN "reprompt" ELSE "closing"
  /\ UNCHANGED <<mode, offered, calls, rounds, used, outcomes, rejected, error,
                 said, requests, shown, saved>>

(* A failure keeps what has come. *)
Reprompt ==
  /\ pc = "reprompt"
  /\ \E t \in Texts :
       /\ Streamed(t, TRUE)
       /\ said' = (said \/ t # "blank")
  /\ pc' = "closing"
  /\ UNCHANGED <<mode, offered, calls, rounds, used, outcomes, rejected, error>>

(* Mutant: after a failure of the model the summary is left out. *)
ClosesWithNote ==
  /\ pc = "closing"
  /\ said' = (said \/ ~error)
  /\ pc' = "done"
  /\ UNCHANGED <<mode, offered, calls, rounds, used, outcomes, rejected, error,
                 requests, shown, saved>>

(* A summary of the results if the model said nothing, a note if it failed.*)
Closes ==
  /\ pc = "closing"
  /\ said' = TRUE
  /\ pc' = "done"
  /\ UNCHANGED <<mode, offered, calls, rounds, used, outcomes, rejected, error,
                 requests, shown, saved>>

(* _drive_tool_loop and _finalize_text: a failure of the model fails the   *)
(* run, and so does an answer with nothing in it and no tool results.      *)
HeadlessEnds ==
  /\ mode = "headless"
  /\ pc = "wrapup"
  /\ IF error \/ (~said /\ rounds = 0)
     THEN pc' = "failed" /\ UNCHANGED said
     ELSE pc' = "done" /\ said' = TRUE
  /\ UNCHANGED <<mode, offered, calls, rounds, used, outcomes, rejected, error,
                 requests, shown, saved>>

(* A frame cannot be sent, or the deadline of the run cancels it. *)
Interrupted ==
  /\ pc \notin Final
  /\ pc' = "broken"
  /\ UNCHANGED <<mode, offered, calls, rounds, used, outcomes, rejected, error,
                 said, requests, shown, saved>>

----------------------------------------------------------------------------
Next ==
  \/ FirstAnswer \/ FirstFails \/ ActionClaimRetry
  \/ DispatchRound \/ FollowUp \/ EmptyRetry \/ LoopAnswer \/ FollowUpFails
  \/ EndsRounds \/ Reprompt \/ Closes \/ HeadlessEnds \/ Interrupted

Spec == Init /\ [][Next]_vars

----------------------------------------------------------------------------
(* Every variable has its type. *)
TypeOK ==
  /\ mode \in {"chat", "headless"}
  /\ offered \in BOOLEAN /\ rejected \in BOOLEAN /\ error \in BOOLEAN /\ said \in BOOLEAN
  /\ pc \in {"first", "retry", "dispatch", "follow", "followEmpty", "nudge", "nudgeEmpty",
             "loop", "wrapup", "reprompt", "closing"} \cup Final
  /\ calls \subseteq Signatures
  /\ used \subseteq Flags
  /\ outcomes \subseteq Outcomes
  /\ rounds \in 0..MaxRounds
  /\ requests \in Nat /\ shown \in Nat /\ saved \in Nat

(* Whatever the model answers, the cap on rounds and the one-time retries  *)
(* bound what a turn costs: besides one request for each round, at most    *)
(* six.                                                                    *)
RequestsBounded == requests <= MaxRounds + 6

(* "The repeated call is not dispatched": no call of a round is in the     *)
(* next round, whichever of the follow-up, its retry and the nudge made it.*)
RepeatNotDispatched ==
  [][pc \notin {"first", "retry"} /\ pc' = "dispatch" => calls \cap calls' = {}]_vars

(* Tools that ran are accounted for: the turn is not undone, and when it   *)
(* is done something was said after them.                                  *)
WorkIsReported ==
  rounds > 0 => pc # "discarded" /\ (pc = "done" => said)

(* The reply that is stored has all the client was shown, unless a failure *)
(* of the model cut a follow-up short.                                     *)
ShownIsSaved == pc = "done" /\ ~error => saved = shown
=============================================================================
