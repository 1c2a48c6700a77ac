----------------------------- MODULE TurnsProofs -----------------------------
(***************************************************************************)
(* Proofs about what a turn does.  ToolRounds, for any cap on rounds and   *)
(* any set of calls: the bound on requests, no repeated call, no work      *)
(* unreported, and a reply that is saved as it was shown.  AnswerText: an  *)
(* answer of the MCP servers never exceeds --max-chars, for every limit,   *)
(* marker and text.  And one part each for the background jobs of a chat,  *)
(* the file tools, the turns of a command, the support desk, retrieval,    *)
(* the streamed answer and what of a branch is sent to the model.          *)
(***************************************************************************)
EXTENDS MCTurns, SequenceTheorems, FiniteSetTheorems, WellFoundedInduction, TLAPS

(* The one-time retries that have been used, and the requests of a turn    *)
(* that belong to no round.                                                *)
Spent == (IF "empty" \in used THEN 1 ELSE 0) + (IF "announce" \in used THEN 1 ELSE 0)
         + (IF "error" \in used THEN 1 ELSE 0)
Base == IF mode = "chat" THEN 2 ELSE 3

Streams == {"follow", "followEmpty", "nudge", "nudgeEmpty"}

(* Before the first round. *)
EarlyInv ==
  /\ pc \in {"first", "retry"} => mode = "chat" /\ rounds = 0
  /\ pc = "first" => requests = 0
  /\ pc = "retry" => requests = 1
  /\ pc = "discarded" => rounds = 0
  /\ rounds = 0 => outcomes = {} /\ "error" \notin used
  /\ rounds = 0 /\ pc = "dispatch" => requests <= Base
  /\ rounds = 0 /\ pc \in Streams => mode = "headless" /\ requests <= Spent

(* A stream that is due is paid for by its round or by a retry. *)
BudgetInv ==
  /\ pc = "dispatch" => rounds < MaxRounds
  /\ rounds > 0 /\ pc = "dispatch" => requests <= Base + rounds + Spent
  /\ rounds > 0 /\ pc \in Streams => requests + 1 <= Base + rounds + Spent
  /\ pc = "loop" => requests + 1 <= Base + MaxRounds + Spent
  /\ pc = "wrapup" => requests <= Base + MaxRounds + Spent
  /\ pc \in {"reprompt", "closing"} => mode = "chat"
  /\ pc = "reprompt" => requests <= MaxRounds + 5

(* The types of what is not a flag. *)
CountsOK ==
  /\ mode \in {"chat", "headless"}
  /\ pc \in {"first", "retry", "dispatch", "follow", "followEmpty", "nudge", "nudgeEmpty",
             "loop", "wrapup", "reprompt", "closing"} \cup Final
  /\ calls \subseteq Signatures
  /\ used \subseteq Flags
  /\ outcomes \subseteq Outcomes
  /\ rounds \in 0..MaxRounds
  /\ requests \in Nat /\ shown \in Nat /\ saved \in Nat

IInv == CountsOK /\ EarlyInv /\ BudgetInv /\ RequestsBounded /\ WorkIsReported

LEMMA SpentRange == Spent \in 0..3 /\ ("error" \notin used => Spent <= 2)
BY DEF Spent

(* A flag that is set for the first time is worth one request. *)
LEMMA SpentGrows ==
  ASSUME NEW f \in Flags, f \notin used, used' = used \cup {f}
  PROVE  Spent' = Spent + 1
BY DEF Spent, Flags

LEMMA NudgeIsNew ==
  ASSUME NEW t, PickNudge(t) # "none"
  PROVE  /\ PickNudge(t) \in Flags \ used
         /\ PickNudge(t) = "error" => outcomes # {}
BY DEF PickNudge, Flags, FailedOnly

LEMMA InitIInv == ASSUME Init PROVE IInv
<1>1. MaxRounds \in Nat \ {0}
  BY RoundsAssumption
<1>2. Spent = 0 /\ Base \in {2, 3}
  BY DEF Init, Spent, Base
<1>3. CountsOK
  BY <1>1 DEF Init, CountsOK, Flags, Outcomes, Final
<1>4. EarlyInv
  BY <1>2 DEF Init, EarlyInv, Streams
<1>5. BudgetInv
  BY <1>1, <1>2 DEF Init, BudgetInv, Streams
<1>6. RequestsBounded /\ WorkIsReported
  BY <1>1 DEF Init, RequestsBounded, WorkIsReported
<1> QED
  BY <1>3, <1>4, <1>5, <1>6 DEF IInv

(* What a step that leaves used and mode alone needs of Spent and Base. *)
LEMMA Unspent == UNCHANGED used => Spent' = Spent
BY DEF Spent

LEMMA StreamedType ==
  ASSUME CountsOK, NEW t \in Texts, Streamed(t, TRUE) \/ Streamed(t, FALSE)
  PROVE  requests' = requests + 1 /\ shown' \in Nat /\ saved' \in Nat
<1>1. Shows(t) \in Nat
  BY DEF Shows
<1> QED
  BY <1>1 DEF CountsOK, Streamed

LEMMA CallsType ==
  ASSUME NEW tools \in BOOLEAN, NEW c \in CallsFrom(tools)
  PROVE  c \subseteq Signatures /\ (c # {} => tools)
BY DEF CallsFrom

LEMMA FirstAnswerKeeps == ASSUME IInv, FirstAnswer PROVE IInv'
<1>1. PICK t \in Texts, c \in CallsFrom(offered) :
        /\ Streamed(t, TRUE)
        /\ calls' = c
        /\ pc' = IF c # {} THEN "dispatch"
                 ELSE IF offered /\ t \in Announcing THEN "retry" ELSE "done"
  BY DEF FirstAnswer
<1>2. /\ mode = "chat" /\ rounds = 0 /\ rounds' = 0 /\ requests = 0
      /\ MaxRounds \in Nat \ {0}
  BY RoundsAssumption DEF IInv, EarlyInv, FirstAnswer
<1>s. requests' = requests + 1 /\ shown' \in Nat /\ saved' \in Nat
  BY <1>1, StreamedType DEF IInv
<1>3. requests' = 1 /\ c \subseteq Signatures
  BY <1>2, <1>s DEF CallsFrom
<1>4. CountsOK'
  BY <1>1, <1>3, <1>s DEF IInv, CountsOK, FirstAnswer, Final
<1>5. pc' \in {"dispatch", "retry", "done"}
  BY <1>1
<1>6. Base' = 2
  BY <1>2 DEF FirstAnswer, Base
<1>7. EarlyInv'
  BY <1>2, <1>3, <1>5, <1>6 DEF IInv, EarlyInv, FirstAnswer, Streams
<1>8. BudgetInv'
  BY <1>2, <1>3, <1>5, <1>6 DEF BudgetInv, FirstAnswer, Streams
<1>9. RequestsBounded' /\ WorkIsReported'
  BY <1>2, <1>3 DEF RequestsBounded, WorkIsReported
<1> QED
  BY <1>4, <1>7, <1>8, <1>9 DEF IInv

LEMMA FirstFailsKeeps == ASSUME IInv, FirstFails PROVE IInv'
<1>1. PICK t \in Texts : Streamed(t, FALSE)
  BY DEF FirstFails
<1>2. /\ rounds = 0 /\ rounds' = 0 /\ requests = 0 /\ pc' = "discarded"
      /\ MaxRounds \in Nat \ {0}
  BY RoundsAssumption DEF IInv, EarlyInv, FirstFails
<1>s. requests' = requests + 1 /\ shown' \in Nat /\ saved' \in Nat
  BY <1>1, StreamedType DEF IInv
<1>3. requests' = 1
  BY <1>2, <1>s
<1>4. CountsOK'
  BY <1>2, <1>3, <1>s DEF IInv, CountsOK, FirstFails, Final
<1>5. EarlyInv' /\ BudgetInv'
  BY <1>2, <1>3 DEF IInv, EarlyInv, BudgetInv, FirstFails, Streams
<1>6. RequestsBounded' /\ WorkIsReported'
  BY <1>2, <1>3 DEF RequestsBounded, WorkIsReported
<1> QED
  BY <1>4, <1>5, <1>6 DEF IInv

LEMMA RetryKeeps == ASSUME IInv, ActionClaimRetry PROVE IInv'
<1>1. PICK t \in Texts, c \in CallsFrom(offered) :
        /\ Streamed(t, TRUE)
        /\ calls' = c
        /\ pc' = IF c # {} THEN "dispatch" ELSE "done"
  BY DEF ActionClaimRetry
<1>2. /\ mode = "chat" /\ rounds = 0 /\ rounds' = 0 /\ requests = 1
      /\ MaxRounds \in Nat \ {0}
  BY RoundsAssumption DEF IInv, EarlyInv, ActionClaimRetry
<1>s. requests' = requests + 1 /\ shown' \in Nat /\ saved' \in Nat
  BY <1>1, StreamedType DEF IInv
<1>3. requests' = 2 /\ c \subseteq Signatures
  BY <1>2, <1>s DEF CallsFrom
<1>4. CountsOK'
  BY <1>1, <1>3, <1>s DEF IInv, CountsOK, ActionClaimRetry, Final
<1>5. pc' \in {"dispatch", "done"} /\ Base' = 2
  BY <1>1, <1>2 DEF ActionClaimRetry, Base
<1>6. EarlyInv' /\ BudgetInv'
  BY <1>2, <1>3, <1>5 DEF IInv, EarlyInv, BudgetInv, ActionClaimRetry, Streams
<1>7. RequestsBounded' /\ WorkIsReported'
  BY <1>2, <1>3 DEF RequestsBounded, WorkIsReported
<1> QED
  BY <1>4, <1>6, <1>7 DEF IInv

----------------------------------------------------------------------------
(* A stream of the rounds, whoever makes it, ends in a retry that was not  *)
(* used before or in a step that needs no further request of its own.      *)

Retries ==
  /\ pc' \in Streams
  /\ \E f \in Flags \ used : (rounds = 0 => f # "error") /\ used' = used \cup {f}

Concludes ==
  /\ pc' \in {"wrapup", "loop", "dispatch"}
  /\ pc' \in {"loop", "dispatch"} => rounds < MaxRounds
  /\ UNCHANGED used

LEMMA StreamStep ==
  ASSUME IInv, pc \in Streams, requests' = requests + 1,
         UNCHANGED <<mode, rounds, outcomes>>, Retries \/ Concludes
  PROVE  EarlyInv' /\ BudgetInv' /\ RequestsBounded' /\ WorkIsReported'
<1>1. /\ MaxRounds \in Nat \ {0} /\ rounds \in 0..MaxRounds /\ requests \in Nat
      /\ mode \in {"chat", "headless"} /\ Spent \in 0..3
  BY RoundsAssumption, SpentRange DEF IInv, CountsOK
<1>2. Base \in {2, 3} /\ Base' = Base
  BY <1>1 DEF Base
<1>3. /\ rounds = 0 => outcomes = {} /\ "error" \notin used /\ mode = "headless"
                       /\ requests <= Spent
      /\ rounds > 0 => requests + 1 <= Base + rounds + Spent
  BY DEF IInv, EarlyInv, BudgetInv
<1>4. requests + 1 <= Base + rounds + Spent
  BY <1>1, <1>2, <1>3
<1>5. CASE Retries
  <2>1. PICK f \in Flags \ used : (rounds = 0 => f # "error") /\ used' = used \cup {f}
    BY <1>5 DEF Retries
  <2>2. Spent' = Spent + 1 /\ Spent' \in 0..3
    BY <2>1, SpentGrows, <1>1 DEF Spent
  <2>3. pc' \in Streams
    BY <1>5 DEF Retries
  <2>4. EarlyInv'
    BY <1>3, <2>1, <2>2, <2>3, <1>1 DEF EarlyInv, Streams
  <2>5. BudgetInv'
    BY <1>1, <1>2, <1>4, <2>2, <2>3 DEF BudgetInv, Streams
  <2>6. RequestsBounded' /\ WorkIsReported'
    BY <1>1, <1>2, <1>4, <2>3 DEF RequestsBounded, WorkIsReported, Streams
  <2> QED
    BY <2>4, <2>5, <2>6
<1>6. CASE Concludes
  <2>1. /\ pc' \in {"wrapup", "loop", "dispatch"} /\ (pc' \in {"loop", "dispatch"} => rounds < MaxRounds)
        /\ used' = used
    BY <1>6 DEF Concludes
  <2>2. Spent' = Spent
    BY <2>1, Unspent
  <2>3. rounds = 0 => Spent <= 2 /\ Base = 3
    BY <1>3, SpentRange DEF Base
  <2>4. EarlyInv'
    BY <1>1, <1>2, <1>3, <2>1, <2>3 DEF EarlyInv, Streams
  <2>5. BudgetInv'
    BY <1>1, <1>2, <1>4, <2>1, <2>2 DEF BudgetInv, Streams
  <2>6. RequestsBounded' /\ WorkIsReported'
    BY <1>1, <1>2, <1>4, <2>1 DEF RequestsBounded, WorkIsReported
  <2> QED
    BY <2>4, <2>5, <2>6
<1> QED
  BY <1>5, <1>6

LEMMA ContinuesConcludes ==
  ASSUME IInv, NEW c \in SUBSET Signatures, c # {} => rounds < MaxRounds,
         Continues(c), UNCHANGED used
  PROVE  Concludes /\ calls' \subseteq Signatures
BY DEF Continues, Concludes, IInv, CountsOK

LEMMA JudgedRetriesOrConcludes ==
  ASSUME IInv, NEW t \in Texts, NEW c \in SUBSET Signatures, c # {} => rounds < MaxRounds,
         Judged(t, c)
  PROVE  (Retries \/ Concludes) /\ calls' \subseteq Signatures /\ used' \subseteq Flags
<1>1. CASE c = {} /\ ~Capped /\ PickNudge(t) # "none"
  <2>1. /\ used' = used \cup {PickNudge(t)} /\ pc' = "nudge" /\ calls' = calls
    BY <1>1 DEF Judged
  <2>2. PickNudge(t) \in Flags \ used /\ (PickNudge(t) = "error" => outcomes # {})
    BY <1>1, NudgeIsNew
  <2>3. rounds = 0 => outcomes = {}
    BY DEF IInv, EarlyInv
  <2>4. Retries
    BY <2>1, <2>2, <2>3 DEF Retries, Streams
  <2> QED
    BY <2>1, <2>2, <2>4 DEF IInv, CountsOK
<1>2. CASE ~(c = {} /\ ~Capped /\ PickNudge(t) # "none")
  <2>1. Continues(c) /\ UNCHANGED used
    BY <1>2 DEF Judged
  <2> QED
    BY <2>1, ContinuesConcludes DEF IInv, CountsOK
<1> QED
  BY <1>1, <1>2

LEMMA FollowUpKeeps == ASSUME IInv, FollowUp PROVE IInv'
<1>1. PICK t \in Texts, c \in CallsFrom(ToolsOffered) :
        /\ Streamed(t, TRUE)
        /\ IF WantsEmptyRetry(t, c)
           THEN /\ used' = used \cup {"empty"}
                /\ pc' = IF pc = "follow" THEN "followEmpty" ELSE "nudgeEmpty"
                /\ UNCHANGED calls
           ELSE IF pc = "follow" THEN Judged(t, c)
           ELSE Continues(c) /\ UNCHANGED used
  BY DEF FollowUp
<1>2. requests' = requests + 1 /\ shown' \in Nat /\ saved' \in Nat
  BY <1>1, StreamedType DEF IInv
<1>3. c \in SUBSET Signatures /\ (c # {} => rounds < MaxRounds)
  BY RoundsAssumption DEF CallsFrom, ToolsOffered, Capped, IInv, CountsOK
<1>4. (Retries \/ Concludes) /\ calls' \subseteq Signatures /\ used' \subseteq Flags
  <2>1. CASE WantsEmptyRetry(t, c)
    BY <1>1, <2>1 DEF WantsEmptyRetry, Retries, Streams, Flags, IInv, CountsOK
  <2>2. CASE ~WantsEmptyRetry(t, c) /\ pc = "follow"
    BY <1>1, <1>3, <2>2, JudgedRetriesOrConcludes
  <2>3. CASE ~WantsEmptyRetry(t, c) /\ pc # "follow"
    <3>1. Continues(c) /\ UNCHANGED used
      BY <1>1, <2>3
    <3> QED
      BY <1>3, <3>1, ContinuesConcludes DEF IInv, CountsOK
  <2> QED
    BY <2>1, <2>2, <2>3
<1>5. pc \in Streams /\ UNCHANGED <<mode, rounds, outcomes>>
  BY DEF FollowUp, Streams
<1>6. EarlyInv' /\ BudgetInv' /\ RequestsBounded' /\ WorkIsReported'
  BY <1>2, <1>4, <1>5, StreamStep
<1>7. CountsOK'
  BY <1>2, <1>4, <1>5 DEF IInv, CountsOK, Retries, Concludes, Streams
<1> QED
  BY <1>6, <1>7 DEF IInv

LEMMA EmptyRetryKeeps == ASSUME IInv, EmptyRetry PROVE IInv'
<1>1. PICK t \in Texts :
        /\ Streamed(t, TRUE)
        /\ IF pc = "followEmpty" THEN Judged(t, {}) ELSE Continues({}) /\ UNCHANGED used
  BY DEF EmptyRetry
<1>2. requests' = requests + 1 /\ shown' \in Nat /\ saved' \in Nat
  BY <1>1, StreamedType DEF IInv
<1>3. {} \in SUBSET Signatures
  OBVIOUS
<1>4. (Retries \/ Concludes) /\ calls' \subseteq Signatures /\ used' \subseteq Flags
  <2>1. CASE pc = "followEmpty"
    BY <1>1, <1>3, <2>1, JudgedRetriesOrConcludes
  <2>2. CASE pc # "followEmpty"
    <3>1. Continues({}) /\ UNCHANGED used
      BY <1>1, <2>2
    <3> QED
      BY <1>3, <3>1, ContinuesConcludes DEF IInv, CountsOK
  <2> QED
    BY <2>1, <2>2
<1>5. pc \in Streams /\ UNCHANGED <<mode, rounds, outcomes>>
  BY DEF EmptyRetry, Streams
<1>6. EarlyInv' /\ BudgetInv' /\ RequestsBounded' /\ WorkIsReported'
  BY <1>2, <1>4, <1>5, StreamStep
<1>7. CountsOK'
  BY <1>2, <1>4, <1>5 DEF IInv, CountsOK, Retries, Concludes, Streams
<1> QED
  BY <1>6, <1>7 DEF IInv

(* The streams that end the rounds: a failure, or the answer after a loop. *)
LEMMA LastStream ==
  ASSUME IInv, NEW t \in Texts, Streamed(t, TRUE) \/ Streamed(t, FALSE),
         pc \in Streams \cup {"loop"}, pc' = "wrapup",
         UNCHANGED <<mode, calls, rounds, used, outcomes>>
  PROVE  IInv'
<1>1. requests' = requests + 1 /\ shown' \in Nat /\ saved' \in Nat
  BY StreamedType DEF IInv
<1>2. CountsOK'
  BY <1>1 DEF IInv, CountsOK
<1>3. CASE pc \in Streams
  <2>1. Concludes
    BY DEF Concludes
  <2> QED
    BY <1>1, <1>2, <1>3, <2>1, StreamStep DEF IInv
<1>4. CASE pc = "loop"
  <2>1. /\ MaxRounds \in Nat \ {0} /\ requests \in Nat /\ Spent \in 0..3
        /\ requests + 1 <= Base + MaxRounds + Spent
    BY <1>4, RoundsAssumption, SpentRange DEF IInv, CountsOK, BudgetInv
  <2>2. Spent' = Spent /\ Base' = Base /\ Base \in {2, 3}
    BY Unspent DEF Base
  <2>3. EarlyInv'
    BY <2>1 DEF IInv, EarlyInv, Streams
  <2>4. BudgetInv' /\ RequestsBounded' /\ WorkIsReported'
    BY <1>1, <2>1, <2>2 DEF BudgetInv, RequestsBounded, WorkIsReported, Streams
  <2> QED
    BY <1>2, <2>3, <2>4 DEF IInv
<1> QED
  BY <1>3, <1>4

LEMMA LoopAnswerKeeps == ASSUME IInv, LoopAnswer PROVE IInv'
BY LastStream DEF LoopAnswer

LEMMA FollowUpFailsKeeps == ASSUME IInv, FollowUpFails PROVE IInv'
BY LastStream DEF FollowUpFails, Streams

LEMMA DispatchKeeps == ASSUME IInv, DispatchRound PROVE IInv'
<1>1. /\ MaxRounds \in Nat \ {0} /\ rounds \in 0..MaxRounds /\ requests \in Nat
      /\ rounds < MaxRounds /\ rounds' = rounds + 1 /\ requests' = requests
      /\ pc' = "follow" /\ UNCHANGED <<mode, calls, shown, saved>>
  BY RoundsAssumption DEF IInv, CountsOK, BudgetInv, DispatchRound
<1>2. PICK results \in [calls -> Outcomes] : outcomes' = {results[c] : c \in calls}
  BY DEF DispatchRound
<1>3. outcomes' \subseteq Outcomes
  BY <1>2
<1>4. used' = IF rounds = 0 THEN {} ELSE used
  BY DEF DispatchRound
<1>5. CountsOK'
  BY <1>1, <1>3, <1>4 DEF IInv, CountsOK
<1>6. Base' = Base /\ Base \in {2, 3} /\ Spent \in 0..3
  BY <1>1, SpentRange DEF Base
<1>7. requests' + 1 <= Base' + rounds' + Spent'
  <2>1. CASE rounds = 0
    <3>1. requests <= Base /\ Spent' = 0
      BY <1>4, <2>1 DEF IInv, EarlyInv, DispatchRound, Spent
    <3> QED
      BY <1>1, <1>6, <2>1, <3>1
  <2>2. CASE rounds > 0
    <3>1. requests <= Base + rounds + Spent /\ Spent' = Spent
      BY <1>1, <1>4, <2>2, Unspent DEF IInv, BudgetInv, DispatchRound
    <3> QED
      BY <1>1, <1>6, <3>1
  <2> QED
    BY <1>1, <2>1, <2>2
<1>8. EarlyInv'
  BY <1>1 DEF EarlyInv, Streams
<1>9. BudgetInv'
  BY <1>1, <1>7 DEF BudgetInv, Streams
<1>10. RequestsBounded' /\ WorkIsReported'
  BY <1>1 DEF IInv, RequestsBounded, WorkIsReported
<1> QED
  BY <1>5, <1>8, <1>9, <1>10 DEF IInv

(* The steps without a request. *)
LEMMA QuietStep ==
  ASSUME IInv, UNCHANGED <<mode, calls, rounds, used, outcomes, requests, shown, saved>>,
         \/ pc = "wrapup" /\ mode = "chat" /\ pc' \in {"reprompt", "closing"}
         \/ pc = "closing" /\ pc' = "done" /\ said'
         \/ pc = "wrapup" /\ pc' = "failed"
         \/ pc = "wrapup" /\ pc' = "done" /\ said'
         \/ pc' = "broken"
  PROVE  IInv'
<1>1. /\ MaxRounds \in Nat \ {0} /\ requests \in Nat /\ Spent \in 0..3 /\ Base \in {2, 3}
      /\ mode = "chat" => Base = 2
      /\ pc = "wrapup" => requests <= Base + MaxRounds + Spent
  BY RoundsAssumption, SpentRange DEF IInv, CountsOK, BudgetInv, Base
<1>2. CountsOK'
  BY DEF IInv, CountsOK, Final
<1>3. EarlyInv'
  BY DEF IInv, EarlyInv, Streams
<1>4. BudgetInv'
  BY <1>1 DEF BudgetInv, Streams
<1>5. RequestsBounded' /\ WorkIsReported'
  BY <1>1 DEF IInv, RequestsBounded, WorkIsReported
<1> QED
  BY <1>2, <1>3, <1>4, <1>5 DEF IInv

LEMMA RepromptKeeps == ASSUME IInv, Reprompt PROVE IInv'
<1>1. PICK t \in Texts : Streamed(t, TRUE)
  BY DEF Reprompt
<1>2. requests' = requests + 1 /\ shown' \in Nat /\ saved' \in Nat
  BY <1>1, StreamedType DEF IInv
<1>3. /\ MaxRounds \in Nat \ {0} /\ requests \in Nat /\ mode = "chat"
      /\ requests <= MaxRounds + 5 /\ pc' = "closing"
      /\ UNCHANGED <<mode, calls, rounds, used, outcomes>>
  BY RoundsAssumption DEF IInv, CountsOK, BudgetInv, Reprompt
<1>4. CountsOK'
  BY <1>2, <1>3 DEF IInv, CountsOK
<1>5. EarlyInv'
  BY <1>3 DEF IInv, EarlyInv, Streams
<1>6. BudgetInv' /\ RequestsBounded' /\ WorkIsReported'
  BY <1>2, <1>3 DEF BudgetInv, RequestsBounded, WorkIsReported, Streams
<1> QED
  BY <1>4, <1>5, <1>6 DEF IInv

LEMMA StutterKeeps == ASSUME IInv, UNCHANGED vars PROVE IInv'
BY DEF IInv, CountsOK, EarlyInv, BudgetInv, RequestsBounded, WorkIsReported, Spent, Base, vars

LEMMA NextKeeps == ASSUME IInv, [Next]_vars PROVE IInv'
<1>1. CASE FirstAnswer \/ FirstFails \/ ActionClaimRetry
  BY <1>1, FirstAnswerKeeps, FirstFailsKeeps, RetryKeeps
<1>2. CASE DispatchRound \/ FollowUp \/ EmptyRetry
  BY <1>2, DispatchKeeps, FollowUpKeeps, EmptyRetryKeeps
<1>3. CASE LoopAnswer \/ FollowUpFails \/ Reprompt
  BY <1>3, LoopAnswerKeeps, FollowUpFailsKeeps, RepromptKeeps
<1>4. CASE EndsRounds
  BY <1>4, QuietStep DEF EndsRounds
<1>5. CASE Closes
  BY <1>5, QuietStep DEF Closes
<1>6. CASE HeadlessEnds
  BY <1>6, QuietStep DEF HeadlessEnds
<1>7. CASE Interrupted
  BY <1>7, QuietStep DEF Interrupted
<1>8. CASE UNCHANGED vars
  BY <1>8, StutterKeeps
<1> QED
  BY <1>1, <1>2, <1>3, <1>4, <1>5, <1>6, <1>7, <1>8 DEF Next

----------------------------------------------------------------------------
(* The strengthened invariant holds in every behaviour. *)
THEOREM SpecIInv == Spec => []IInv
<1>1. Init => IInv
  BY InitIInv
<1>2. IInv /\ [Next]_vars => IInv'
  BY NextKeeps
<1> QED
  BY <1>1, <1>2, PTL DEF Spec

(* Whatever the model answers and however requests fail, a turn makes at   *)
(* most MaxRounds + 6 of them (_run_turn_middle, _run_tool_rounds).        *)
THEOREM TurnIsBounded == Spec => []RequestsBounded
<1>1. IInv => RequestsBounded
  BY DEF IInv
<1> QED
  BY <1>1, SpecIInv, PTL

(* A turn whose tools have run is never undone, and never ends silent. *)
THEOREM WorkReported == Spec => []WorkIsReported
<1>1. IInv => WorkIsReported
  BY DEF IInv
<1> QED
  BY <1>1, SpecIInv, PTL

(* No call of a round is dispatched again in the next round. *)
THEOREM NoRepeat == Spec => RepeatNotDispatched
<1>1. ASSUME [Next]_vars, pc \notin {"first", "retry"}, pc' = "dispatch", ~UNCHANGED vars
      PROVE  calls \cap calls' = {}
  <2>1. PICK c : Continues(c)
    <3>1. CASE FollowUp
      BY <1>1, <3>1 DEF FollowUp, Judged
    <3>2. CASE EmptyRetry
      BY <1>1, <3>2 DEF EmptyRetry, Judged
    <3>3. FollowUp \/ EmptyRetry
      BY <1>1 DEF Next, FirstAnswer, FirstFails, ActionClaimRetry, DispatchRound, LoopAnswer,
         FollowUpFails, EndsRounds, Reprompt, Closes, HeadlessEnds, Interrupted
    <3> QED
      BY <3>1, <3>2, <3>3
  <2> QED
    BY <1>1, <2>1 DEF Continues
<1>2. [Next]_vars => [pc \notin {"first", "retry"} /\ pc' = "dispatch" => calls \cap calls' = {}]_vars
  BY <1>1
<1> QED
  BY <1>2, PTL DEF Spec, RepeatNotDispatched

(* What the client was shown is in the reply while no stream has failed.   *)
ReplyInv == ~error /\ pc # "discarded" => saved = shown

LEMMA ReplyKept ==
  ASSUME ReplyInv, [Next]_vars
  PROVE  ReplyInv'
<1>1. CASE UNCHANGED <<shown, saved>> /\ UNCHANGED error /\ pc # "discarded"
  BY <1>1 DEF ReplyInv
<1>2. CASE \E t \in Texts : Streamed(t, TRUE) /\ UNCHANGED error /\ pc # "discarded"
  BY <1>2 DEF ReplyInv, Streamed
<1>3. CASE FirstFails \/ FollowUpFails \/ UNCHANGED vars
  BY <1>3 DEF ReplyInv, FirstFails, FollowUpFails, vars
<1>4. CASE FirstAnswer \/ ActionClaimRetry \/ FollowUp \/ EmptyRetry \/ LoopAnswer \/ Reprompt
  BY <1>2, <1>4 DEF FirstAnswer, ActionClaimRetry, FollowUp, EmptyRetry, LoopAnswer, Reprompt
<1>5. CASE DispatchRound \/ EndsRounds \/ Closes \/ HeadlessEnds \/ Interrupted
  BY <1>1, <1>5 DEF DispatchRound, EndsRounds, Closes, HeadlessEnds, Interrupted, Final
<1> QED
  BY <1>3, <1>4, <1>5 DEF Next

(* A reply that is stored without a failure of the model has all the text  *)
(* the client was shown, whichever of the retries, nudges and rounds of    *)
(* _run_turn_middle it came from.                                          *)
THEOREM ReplyIsWhole == Spec => []ShownIsSaved
<1>1. Init => ReplyInv
  BY DEF Init, ReplyInv
<1>2. ReplyInv /\ [Next]_vars => ReplyInv'
  BY ReplyKept
<1>3. ReplyInv => ShownIsSaved
  BY DEF ReplyInv, ShownIsSaved
<1> QED
  BY <1>1, <1>2, <1>3, PTL DEF Spec

-----------------------------------------------------------------------------
(***************************************************************************)
(* AnswerText                                                              *)
(***************************************************************************)
(* What is left after a marker of the room it was reckoned with.           *)
LEMMA CutBeforeFits ==
  ASSUME NEW head \in Nat, NEW body \in Nat, NEW room \in Nat,
         head + MarkerChars <= MaxChars,
         room = 0 \/ head + room + 1 + MarkerChars <= MaxChars
  PROVE  CutBefore(head, body, room) <= MaxChars
BY AnswerAssumption DEF CutBefore, AtMost

(* fit_text keeps every answer of both servers within --max-chars,         *)
(* whatever the tool had to say and whether or not git's output was cut.   *)
THEOREM FitTextFits ==
  ASSUME NEW summary \in Nat, NEW body \in Nat, NEW capped \in BOOLEAN
  PROVE  FitText(summary, body, capped) <= MaxChars
<1> DEFINE head == AtMost(summary, MaxChars \div 2)
           room == Less(MaxChars, head + 1 + 1 + MarkerChars)
<1>1. head \in Nat /\ head <= MaxChars \div 2
  BY AnswerAssumption DEF AtMost
<1>2. room \in Nat /\ (room = 0 \/ head + 1 + room + 1 + MarkerChars <= MaxChars)
  BY <1>1, AnswerAssumption DEF Less
<1>3. head + 1 + MarkerChars <= MaxChars
  BY <1>1, AnswerAssumption
<1>4. CutBefore(head + 1, body, room) <= MaxChars
  BY <1>1, <1>2, <1>3, CutBeforeFits
<1> QED
  BY <1>1, <1>4, AnswerAssumption DEF FitText

(* git_diff's answer with its stat and its patch fits too.                 *)
THEOREM ComposedDiffFits ==
  ASSUME NEW summary \in Nat, NEW stat \in Nat, NEW patch \in Nat, NEW capped \in BOOLEAN
  PROVE  ComposedDiff(summary, stat, patch, capped) <= MaxChars
<1> DEFINE header == AtMost(summary, MaxChars \div 2) + (IF stat = 0 THEN 0 ELSE ShrunkStat(stat) + 1) + 2
           room == Less(MaxChars, header + MarkerChars + 1)
<1>1. AtMost(summary, MaxChars \div 2) \in Nat /\ AtMost(summary, MaxChars \div 2) <= MaxChars \div 2
  BY AnswerAssumption DEF AtMost
<1>2. ShrunkStat(stat) \in Nat /\ ShrunkStat(stat) <= MaxChars \div 4
  BY AnswerAssumption DEF ShrunkStat, AtMost
<1>3. header \in Nat /\ header + MarkerChars <= MaxChars
  BY <1>1, <1>2, AnswerAssumption
<1>4. room \in Nat /\ (room = 0 \/ header + room + 1 + MarkerChars <= MaxChars)
  BY <1>3, AnswerAssumption DEF Less
<1>5. CutBefore(header, patch, room) <= MaxChars
  BY <1>3, <1>4, CutBeforeFits
<1> QED
  BY <1>3, <1>5, AnswerAssumption DEF ComposedDiff

(* git_tracked_files: the summary, the table of folders and the paths fit. *)
THEOREM TrackedFilesFits ==
  ASSUME NEW summary \in Nat, NEW table \in Nat, NEW paths \in Nat
  PROVE  TrackedFiles(summary, table, paths) <= MaxChars
<1> DEFINE opening == AtMost(summary, MaxChars \div 3)
           listed == AtMost(table, MaxChars \div 3 + 40)
           head == opening + 1 + listed + 1
           room == Less(MaxChars, head + MarkerChars + 1)
<1>1. opening \in Nat /\ opening <= MaxChars \div 3
  BY AnswerAssumption DEF AtMost
<1>2. listed \in Nat /\ listed <= MaxChars \div 3 + 40
  BY AnswerAssumption DEF AtMost
<1>3. head \in Nat /\ head + MarkerChars <= MaxChars
  BY <1>1, <1>2, AnswerAssumption
<1>4. room \in Nat /\ (room = 0 \/ head + room + 1 + MarkerChars <= MaxChars)
  BY <1>3, AnswerAssumption DEF Less
<1>5. CutBefore(head, paths, room) <= MaxChars
  BY <1>3, <1>4, CutBeforeFits
<1> QED
  BY <1>1, <1>3, <1>5, AnswerAssumption DEF TrackedFiles

-----------------------------------------------------------------------------
(***************************************************************************)
(* The components of a turn                                                *)
(***************************************************************************)
(* A step of the composition is one of the component in focus, or a        *)
(* stutter of it.                                                          *)
LEMMA FocusMoves ==
  ASSUME [TurnsNext]_turnsVars
  PROVE  /\ focus' = focus
         /\ focus = "rag" => [RagNext]_ragVars
         /\ focus = "command" => [CommandNext]_commandVars
         /\ focus = "desk" => [DeskNext]_deskVars
         /\ focus = "parts" => [PartsNext]_partVars
         /\ focus = "files" => [FilesNext]_fileVars
         /\ focus = "background" => [BgNext]_bgVars
         /\ focus = "stream" => [StreamNext]_streamVars
         /\ focus = "context" => [ContextNext]_contextVars
<1>1. CASE UNCHANGED turnsVars
  BY <1>1 DEF turnsVars
<1>2. CASE TurnsNext
  BY <1>2 DEF TurnsNext, OnlyMoves
<1> QED
  BY <1>1, <1>2

-----------------------------------------------------------------------------
(***************************************************************************)
(* ChatBackground                                                          *)
(***************************************************************************)
TitleStages == {"asking", "telling", "done", "forgotten"}
TitleJobs == [pc : TitleStages, chat : Nat, cancelled : BOOLEAN]

TitlesOK ==
  /\ bgChat.no \in Nat /\ bgChat = [no |-> bgChat.no, there |-> bgChat.there, title |-> bgChat.title]
  /\ titles \in Seq(TitleJobs) /\ titleTask \in 0..Len(titles)
  /\ TitleJobKnown

(* A row is a record of its three columns. *)
RowsOK ==
  /\ own = [there |-> own.there, value |-> own.value, facts |-> own.facts]
  /\ UserSettingsKept

QueuesOK == /\ queue \in [Sockets -> Seq(Nat)]
            /\ \A s \in Sockets : Len(queue[s]) <= QueueMax

BgInv == TitlesOK /\ RowsOK /\ QueuesOK

(* A closed queue is within its bound. *)
LEMMA ClosedFits == Closed \in Seq(Nat) /\ Len(Closed) <= QueueMax
<1>1. <<0>> \in Seq(Nat) /\ Len(<<0>>) = 1
  OBVIOUS
<1> QED
  BY <1>1, BackgroundAssumption DEF Closed

LEMMA BgStarts == BgInit => BgInv
<1> SUFFICES ASSUME BgInit PROVE BgInv
  OBVIOUS
<1>1. TitlesOK
  <2>1. titles = <<>> /\ titleTask = 0 /\ \E new : bgChat = [no |-> 1, there |-> TRUE, title |-> new]
    BY Zenon DEF BgInit, NoJob
  <2>2. titles \in Seq(TitleJobs) /\ Len(titles) = 0 /\ \A j : j \notin DOMAIN titles
    <3>1. <<>> \in Seq(TitleJobs) /\ Len(<<>>) = 0 /\ DOMAIN <<>> = 1..0
      OBVIOUS
    <3> QED
      BY <2>1, <3>1
  <2>3. bgChat.no \in Nat /\ bgChat = [no |-> bgChat.no, there |-> bgChat.there, title |-> bgChat.title]
    BY <2>1
  <2>4. titleTask \in 0..Len(titles) /\ TitleJobKnown
    BY <2>1, <2>2 DEF TitleJobKnown
  <2> QED
    BY <2>2, <2>3, <2>4 DEF TitlesOK
<1>2. RowsOK
  BY DEF BgInit, RowsOK, UserSettingsKept, NoRow
<1>3. QueuesOK
  BY ClosedFits DEF BgInit, QueuesOK
<1> QED
  BY <1>1, <1>2, <1>3 DEF BgInv

(* A title job that moves on, without starting again.                      *)
LEMMA TitleMoves ==
  ASSUME TitlesOK, NEW j \in DOMAIN titles, NEW stage \in TitleStages, TitleOnly(j, stage),
         stage = "telling" => titles[j].pc = "asking",
         stage # "asking"
  PROVE  /\ titles' \in Seq(TitleJobs) /\ Len(titles') = Len(titles)
         /\ \A i \in DOMAIN titles' : titles'[i].pc \in {"asking", "telling"} => titles'[i].cancelled \/ titleTask = i
<1>1. titles \in Seq(TitleJobs) /\ titles[j] \in TitleJobs /\ DOMAIN titles = 1..Len(titles)
  BY DEF TitlesOK
<1>2. [titles[j] EXCEPT !.pc = stage] \in TitleJobs /\ [titles[j] EXCEPT !.pc = stage].cancelled = titles[j].cancelled
      /\ [titles[j] EXCEPT !.pc = stage].pc = stage
  BY <1>1 DEF TitleJobs
<1>3. titles' = [titles EXCEPT ![j] = [titles[j] EXCEPT !.pc = stage]]
  BY DEF TitleOnly
<1>4. /\ titles' \in Seq(TitleJobs) /\ Len(titles') = Len(titles) /\ DOMAIN titles' = DOMAIN titles
      /\ \A i \in DOMAIN titles : titles'[i] = IF i = j THEN [titles[j] EXCEPT !.pc = stage] ELSE titles[i]
  BY <1>1, <1>2, <1>3
<1>5. \A i \in DOMAIN titles : titles[i].pc \in {"asking", "telling"} => titles[i].cancelled \/ titleTask = i
  BY DEF TitlesOK, TitleJobKnown
<1> QED
  BY <1>2, <1>4, <1>5

LEMMA TitlesStay ==
  ASSUME TitlesOK, UNCHANGED <<titles, titleTask, bgChat>> PROVE TitlesOK'
BY DEF TitlesOK, TitleJobKnown

LEMMA SchedulesKeeps ==
  ASSUME TitlesOK, SchedulesTitle, UNCHANGED bgChat PROVE TitlesOK'
<1> DEFINE new == [pc |-> "asking", chat |-> bgChat.no, cancelled |-> FALSE]
<1>1. titles \in Seq(TitleJobs) /\ new \in TitleJobs /\ titleTask \in 0..Len(titles) /\ new.pc = "asking"
  BY DEF TitlesOK, TitleJobs, TitleStages
<1>2. CASE titleTask # NoJob /\ titles[titleTask].pc \notin {"done", "forgotten"}
  BY <1>2, TitlesStay DEF SchedulesTitle
<1>3. CASE ~(titleTask # NoJob /\ titles[titleTask].pc \notin {"done", "forgotten"})
  <2>1. titles' = Append(titles, new) /\ titleTask' = Len(titles) + 1
    BY <1>3 DEF SchedulesTitle
  <2> HIDE DEF new
  <2>2. /\ titles' \in Seq(TitleJobs) /\ Len(titles') = Len(titles) + 1
        /\ \A i \in 1..Len(titles) : titles'[i] = titles[i]
        /\ DOMAIN titles' = 1..Len(titles) + 1
    BY <1>1, <2>1
  <2>3. \A i \in 1..Len(titles) : titles[i].pc \in {"asking", "telling"} => titles[i].cancelled
    BY <1>1, <1>3 DEF TitlesOK, TitleJobKnown, NoJob
  <2>4. TitleJobKnown'
    BY <1>1, <2>1, <2>2, <2>3 DEF TitleJobKnown
  <2> QED
    BY <1>1, <2>1, <2>2, <2>4 DEF TitlesOK
<1> QED
  BY <1>2, <1>3

LEMMA TitleStepKeeps ==
  ASSUME TitlesOK, NEW j \in DOMAIN titles, TitleStep(j) PROVE TitlesOK'
<1>1. CASE TitleSkipped(j) \/ TitleTells(j) \/ TitleCancelled(j)
  <2>1. TitleOnly(j, "done") /\ UNCHANGED <<titleTask, bgChat>>
    BY <1>1 DEF TitleSkipped, TitleTells, TitleCancelled
  <2> QED
    BY <2>1, TitleMoves DEF TitleStages, TitlesOK, TitleJobKnown
<1>2. CASE TitleApplies(j)
  <2>1. PICK stage \in {"telling", "done"} : TitleOnly(j, stage)
    BY <1>2 DEF TitleApplies
  <2>2. titles[j].pc = "asking" /\ UNCHANGED titleTask
    BY <1>2 DEF TitleApplies
  <2>3. /\ titles' \in Seq(TitleJobs) /\ Len(titles') = Len(titles)
        /\ \A i \in DOMAIN titles' : titles'[i].pc \in {"asking", "telling"} => titles'[i].cancelled \/ titleTask = i
    BY <2>1, <2>2, TitleMoves DEF TitleStages
  <2>4. bgChat' = bgChat \/ bgChat' = [bgChat EXCEPT !.title = "made"]
    BY <1>2 DEF TitleApplies
  <2>5. bgChat'.no \in Nat /\ bgChat' = [no |-> bgChat'.no, there |-> bgChat'.there, title |-> bgChat'.title]
    BY <2>4 DEF TitlesOK
  <2> QED
    BY <2>2, <2>3, <2>5 DEF TitlesOK, TitleJobKnown
<1>3. CASE TitleForgotten(j)
  <2>1. TitleOnly(j, "forgotten") /\ UNCHANGED bgChat /\ titles[j].pc = "done"
        /\ titleTask' = IF titleTask = j THEN NoJob ELSE titleTask
    BY <1>3 DEF TitleForgotten
  <2>2. /\ titles' \in Seq(TitleJobs) /\ Len(titles') = Len(titles)
        /\ \A i \in DOMAIN titles' : titles'[i].pc \in {"asking", "telling"} => titles'[i].cancelled \/ titleTask = i
    BY <2>1, TitleMoves DEF TitleStages
  <2>3. titles'[j].pc = "forgotten"
    <3>1. titles[j] \in TitleJobs /\ DOMAIN titles = 1..Len(titles)
      BY DEF TitlesOK
    <3>2. titles' = [titles EXCEPT ![j] = [titles[j] EXCEPT !.pc = "forgotten"]]
      BY <2>1 DEF TitleOnly
    <3>3. titles'[j] = [titles[j] EXCEPT !.pc = "forgotten"]
      BY <3>2
    <3> QED
      BY <3>1, <3>3 DEF TitleJobs
  <2> QED
    BY <2>1, <2>2, <2>3 DEF TitlesOK, TitleJobKnown, NoJob
<1> QED
  BY <1>1, <1>2, <1>3 DEF TitleStep

LEMMA DropsKeeps == ASSUME TitlesOK, DropsCaches PROVE TitlesOK'
<1> DEFINE dropped(j) == IF j = titleTask /\ titles[j].pc # "done"
                         THEN [titles[j] EXCEPT !.cancelled = TRUE] ELSE titles[j]
<1>1. titles \in Seq(TitleJobs) /\ DOMAIN titles = 1..Len(titles)
  BY DEF TitlesOK
<1>2. titles' = [j \in 1..Len(titles) |-> dropped(j)] /\ titleTask' = NoJob /\ UNCHANGED bgChat
  BY <1>1 DEF DropsCaches
<1>3. ASSUME NEW j \in 1..Len(titles)
      PROVE  /\ dropped(j) \in TitleJobs
             /\ dropped(j).pc \in {"asking", "telling"} => dropped(j).cancelled
  <2>1. titles[j] \in TitleJobs
    BY <1>1
  <2>2. titles[j].pc \in {"asking", "telling"} => titles[j].cancelled \/ titleTask = j
    BY <1>1 DEF TitlesOK, TitleJobKnown
  <2> QED
    BY <2>1, <2>2 DEF TitleJobs
<1> HIDE DEF dropped
<1>4. titles' \in Seq(TitleJobs) /\ Len(titles') = Len(titles) /\ DOMAIN titles' = 1..Len(titles)
  BY <1>1, <1>2, <1>3
<1> QED
  BY <1>1, <1>2, <1>3, <1>4 DEF TitlesOK, TitleJobKnown, NoJob

LEMMA TitlesKept == ASSUME TitlesOK, [BgNext]_bgVars PROVE TitlesOK'
<1>1. CASE BgTurnEnds
  <2>1. SchedulesTitle \/ UNCHANGED <<titles, titleTask>>
    BY <1>1 DEF BgTurnEnds
  <2>2. UNCHANGED bgChat
    BY <1>1 DEF BgTurnEnds
  <2> QED
    BY <2>1, <2>2, SchedulesKeeps, TitlesStay
<1>2. CASE PutsGlobal \/ LoadsOwn \/ PutsOwn \/ UNCHANGED bgVars
  BY <1>2, TitlesStay DEF PutsGlobal, LoadsOwn, PutsOwn, bgVars
<1>3. CASE DeletesChat \/ CreatesChat
  <2>1. UNCHANGED <<titles, titleTask>>
    BY <1>3 DEF DeletesChat, CreatesChat
  <2>2. bgChat'.no \in Nat /\ bgChat' = [no |-> bgChat'.no, there |-> bgChat'.there, title |-> bgChat'.title]
    <3>1. bgChat.no \in Nat /\ bgChat = [no |-> bgChat.no, there |-> bgChat.there, title |-> bgChat.title]
      BY DEF TitlesOK
    <3>2. CASE DeletesChat
      <4>1. bgChat' = [bgChat EXCEPT !.there = FALSE]
        BY <3>2 DEF DeletesChat
      <4> QED
        BY <3>1, <4>1
    <3>3. CASE CreatesChat
      <4>1. \E new : bgChat' = [no |-> bgChat.no + 1, there |-> TRUE, title |-> new]
        BY <3>3, Zenon DEF CreatesChat
      <4> QED
        BY <3>1, <4>1
    <3> QED
      BY <1>3, <3>2, <3>3
  <2> QED
    BY <2>1, <2>2 DEF TitlesOK, TitleJobKnown
<1>4. CASE DropsCaches
  BY <1>4, DropsKeeps
<1>5. CASE \E j \in DOMAIN titles : TitleStep(j)
  BY <1>5, TitleStepKeeps
<1>6. CASE \E j \in DOMAIN facts : FactsStep(j)
  <2>1. FactsFrame
    BY <1>6 DEF FactsStep, FactsStarts, FactsCancelled, FactsWakes, FactsFails, FactsLoads, FactsTargets, FactsStores
  <2> QED
    BY <2>1, TitlesStay DEF FactsFrame
<1>7. CASE \E s \in Sockets : SocketStep(s)
  BY <1>7, TitlesStay DEF SocketStep
<1> QED
  BY <1>1, <1>2, <1>3, <1>4, <1>5, <1>6, <1>7 DEF BgNext

LEMMA RowsStay == ASSUME RowsOK, UNCHANGED <<own, chosen>> PROVE RowsOK'
BY DEF RowsOK, UserSettingsKept

LEMMA RowsKept == ASSUME RowsOK, [BgNext]_bgVars PROVE RowsOK'
<1>1. CASE UNCHANGED <<own, chosen>>
  BY <1>1, RowsStay
<1>2. CASE PutsOwn
  BY <1>2 DEF PutsOwn, RowsOK, UserSettingsKept
<1>3. CASE DeletesChat
  BY <1>3 DEF DeletesChat, RowsOK, UserSettingsKept, NoRow
<1>4. ASSUME NEW j \in DOMAIN facts, FactsStep(j) PROVE RowsOK'
  <2>1. UNCHANGED chosen
    BY <1>4 DEF FactsFrame, FactsStep, FactsStarts, FactsCancelled, FactsWakes, FactsFails, FactsLoads, FactsTargets, FactsStores
  <2>2. CASE UNCHANGED own
    BY <2>1, <2>2, RowsStay
  <2>3. CASE FactsTargets(j)
    BY <2>1, <2>3 DEF FactsTargets, RowsOK, UserSettingsKept, NewRow
  <2>4. CASE FactsStores(j)
    <3>1. own' = own \/ (own.there /\ own' = [own EXCEPT !.facts = facts[j].copy \cup {facts[j].msg}])
      BY <2>4 DEF FactsStores
    <3> QED
      BY <2>1, <3>1 DEF RowsOK, UserSettingsKept
  <2> QED
    BY <1>4, <2>2, <2>3, <2>4 DEF FactsStep, FactsStarts, FactsCancelled, FactsWakes, FactsFails, FactsLoads
<1>5. CASE BgTurnEnds \/ PutsGlobal \/ LoadsOwn \/ DropsCaches \/ CreatesChat \/ UNCHANGED bgVars
  BY <1>1, <1>5 DEF BgTurnEnds, PutsGlobal, LoadsOwn, DropsCaches, CreatesChat, bgVars
<1>6. CASE \E j \in DOMAIN titles : TitleStep(j)
  BY <1>1, <1>6 DEF TitleStep, TitleSkipped, TitleApplies, TitleTells, TitleCancelled, TitleForgotten
<1>7. CASE \E s \in Sockets : SocketStep(s)
  BY <1>1, <1>7 DEF SocketStep
<1> QED
  BY <1>2, <1>3, <1>4, <1>5, <1>6, <1>7 DEF BgNext

(* A frame is put at the end of a queue that keeps its bound. *)
LEMMA PublishedFits ==
  ASSUME NEW q \in Seq(Nat), Len(q) <= QueueMax, NEW frame \in Nat
  PROVE  /\ Published(q, frame) \in Seq(Nat) /\ Len(Published(q, frame)) <= QueueMax
         /\ q # Closed => /\ Published(q, frame) # <<>>
                          /\ Published(q, frame)[Len(Published(q, frame))] = frame
<1>1. QueueMax \in Nat /\ QueueMax >= 1
  BY BackgroundAssumption
<1> DEFINE kept == IF Len(q) = QueueMax THEN Tail(q) ELSE q
<1>2. kept \in Seq(Nat) /\ Len(kept) + 1 <= QueueMax
  BY <1>1
<1> HIDE DEF kept
<1>3. Append(kept, frame) \in Seq(Nat) /\ Len(Append(kept, frame)) = Len(kept) + 1
      /\ Append(kept, frame)[Len(kept) + 1] = frame
  BY <1>2
<1>4. Append(kept, frame) # <<>>
  BY <1>2, <1>3
<1> QED
  BY <1>2, <1>3, <1>4 DEF Published, kept

LEMMA QueuesKept == ASSUME BgInv, [BgNext]_bgVars PROVE QueuesOK'
<1> USE DEF BgInv
<1>1. CASE UNCHANGED queue
  BY <1>1 DEF QueuesOK
<1>2. ASSUME NEW j \in DOMAIN titles, TitleTells(j) PROVE QueuesOK'
  <2>1. queue' = [s \in Sockets |-> Published(queue[s], titles[j].chat)]
    BY <1>2 DEF TitleTells
  <2>2. titles[j].chat \in Nat
    <3>1. titles[j] \in TitleJobs
      BY DEF TitlesOK
    <3> QED
      BY <3>1 DEF TitleJobs
  <2>3. \A s \in Sockets : queue[s] \in Seq(Nat) /\ Len(queue[s]) <= QueueMax
    BY DEF QueuesOK
  <2> QED
    BY <2>1, <2>2, <2>3, PublishedFits DEF QueuesOK
<1>3. ASSUME NEW s \in Sockets, SocketStep(s) PROVE QueuesOK'
  <2>1. queue \in [Sockets -> Seq(Nat)] /\ queue[s] \in Seq(Nat) /\ Len(queue[s]) <= QueueMax
    BY DEF QueuesOK
  <2>2. PICK q : queue' = [queue EXCEPT ![s] = q] /\ (q = <<>> \/ q = Closed \/ (queue[s] # <<>> /\ q = Tail(queue[s])))
    BY <1>3 DEF SocketStep
  <2>3. q \in Seq(Nat) /\ Len(q) <= QueueMax
    <3>1. CASE q = <<>>
      BY <3>1, BackgroundAssumption
    <3>2. CASE q = Closed
      BY <3>2, ClosedFits
    <3>3. CASE queue[s] # <<>> /\ q = Tail(queue[s])
      <4>1. q \in Seq(Nat) /\ Len(q) = Len(queue[s]) - 1
        BY <2>1, <3>3
      <4> QED
        BY <2>1, <4>1, BackgroundAssumption
    <3> QED
      BY <2>2, <3>1, <3>2, <3>3
  <2> QED
    BY <2>1, <2>2, <2>3 DEF QueuesOK
<1>4. CASE \E j \in DOMAIN titles : TitleStep(j)
  BY <1>1, <1>2, <1>4 DEF TitleStep, TitleSkipped, TitleApplies, TitleCancelled, TitleForgotten
<1>5. CASE BgTurnEnds \/ PutsGlobal \/ LoadsOwn \/ PutsOwn \/ DeletesChat \/ DropsCaches \/ CreatesChat \/ UNCHANGED bgVars
  BY <1>1, <1>5 DEF BgTurnEnds, PutsGlobal, LoadsOwn, PutsOwn, DeletesChat, DropsCaches, CreatesChat, bgVars
<1>6. CASE \E j \in DOMAIN facts : FactsStep(j)
  BY <1>1, <1>6 DEF FactsFrame, FactsStep, FactsStarts, FactsCancelled, FactsWakes, FactsFails, FactsLoads, FactsTargets, FactsStores
<1> QED
  BY <1>3, <1>4, <1>5, <1>6 DEF BgNext

LEMMA BgStep == ASSUME BgInv, [BgNext]_bgVars PROVE BgInv'
BY TitlesKept, RowsKept, QueuesKept DEF BgInv

(* Only the frame of a title ends the telling of a job that goes on. *)
LEMMA NewestKept == ASSUME BgInv, [BgNext]_bgVars PROVE NewestFrameKept
<1>1. QueuesOK'
  BY BgStep DEF BgInv
<1> SUFFICES ASSUME NEW s \in Sockets, NEW j \in DOMAIN titles, titles[j].pc = "telling",
                    titles'[j].pc = "done", ~titles[j].cancelled, queue[s] # Closed
             PROVE  queue'[s] # <<>> /\ queue'[s][Len(queue'[s])] = titles[j].chat
  BY <1>1 DEF NewestFrameKept, QueuesOK
<1>2. titles \in Seq(TitleJobs) /\ DOMAIN titles = 1..Len(titles) /\ titles[j] \in TitleJobs
  BY DEF BgInv, TitlesOK
<1>3. CASE titles'[j] = titles[j]
  BY <1>3
<1>4. CASE TitleTells(j)
  <2>1. queue'[s] = Published(queue[s], titles[j].chat)
    BY <1>4 DEF TitleTells
  <2>2. queue[s] \in Seq(Nat) /\ Len(queue[s]) <= QueueMax /\ titles[j].chat \in Nat
    BY <1>2 DEF BgInv, QueuesOK, TitleJobs
  <2> QED
    BY <2>1, <2>2, PublishedFits
<1>5. ASSUME NEW i \in DOMAIN titles, TitleStep(i), i # j PROVE titles'[j] = titles[j]
  <2>1. PICK stage : TitleOnly(i, stage)
    BY <1>5 DEF TitleStep, TitleSkipped, TitleApplies, TitleTells, TitleCancelled, TitleForgotten
  <2> QED
    BY <1>2, <1>5, <2>1 DEF TitleOnly
<1>6. CASE TitleStep(j)
  BY <1>4, <1>6 DEF TitleStep, TitleSkipped, TitleApplies, TitleCancelled, TitleForgotten
<1>7. CASE BgTurnEnds
  <2>1. titles' = titles \/ \E new : titles' = Append(titles, new)
    BY <1>7 DEF BgTurnEnds, SchedulesTitle
  <2>2. titles'[j] = titles[j]
    BY <1>2, <2>1
  <2> QED
    BY <1>3, <2>2
<1>8. CASE DropsCaches
  <2>1. titles'[j].pc = titles[j].pc
    BY <1>2, <1>8 DEF DropsCaches, TitleJobs
  <2> QED
    BY <2>1
<1>9. CASE PutsGlobal \/ LoadsOwn \/ PutsOwn \/ DeletesChat \/ CreatesChat \/ UNCHANGED bgVars
  BY <1>3, <1>9 DEF PutsGlobal, LoadsOwn, PutsOwn, DeletesChat, CreatesChat, bgVars
<1>10. CASE \E f \in DOMAIN facts : FactsStep(f)
  BY <1>3, <1>10 DEF FactsFrame, FactsStep, FactsStarts, FactsCancelled, FactsWakes, FactsFails, FactsLoads, FactsTargets, FactsStores
<1>11. CASE \E t \in Sockets : SocketStep(t)
  BY <1>3, <1>11 DEF SocketStep
<1> QED
  BY <1>3, <1>5, <1>6, <1>7, <1>8, <1>9, <1>10, <1>11 DEF BgNext

(* No title job runs that the deletion of its chat could not find, however *)
(* turns, deletions and new chats with the same id follow one another      *)
(* (title_tasks); and what the user set for a chat stays, whatever the     *)
(* facts jobs write into its row meanwhile.                                *)
THEOREM BackgroundIsSound == TurnsSpec => []BackgroundSound
<1> DEFINE Inv == focus = "background" => BgInv
<1>1. TurnsInit => Inv
  BY BgStarts DEF TurnsInit
<1>2. Inv /\ [TurnsNext]_turnsVars => Inv'
  BY FocusMoves, BgStep
<1>3. Inv => BackgroundSound
  BY DEF BackgroundSound, BgInv, TitlesOK, RowsOK
<1> QED
  BY <1>1, <1>2, <1>3, PTL DEF TurnsSpec

-----------------------------------------------------------------------------
(***************************************************************************)
(* ProjectFiles                                                            *)
(***************************************************************************)
LEMMA LeastNat == ASSUME NEW T \in SUBSET Nat, T # {} PROVE \E n \in T : \A m \in T : n <= m
<1> DEFINE R == OpToRel(<, Nat)
<1>1. IsWellFoundedOn(R, Nat)
  BY NatLessThanWellFounded
<1>2. \A m, n \in Nat : m < n => <<m, n>> \in R
  BY DEF OpToRel
<1> HIDE DEF R
<1>3. PICK n \in T : \A m \in T : <<m, n>> \notin R
  BY <1>1, WFMin
<1>4. ASSUME NEW m \in T PROVE n <= m
  <2>1. m \in Nat /\ n \in Nat /\ <<m, n>> \notin R
    BY <1>3
  <2>2. ~(m < n)
    BY <1>2, <2>1, Zenon
  <2> QED
    BY <2>1, <2>2
<1> QED
  BY <1>4

LEMMA SubSeqTyped ==
  ASSUME NEW S, NEW s \in Seq(S), NEW m \in Nat, NEW n \in Nat, 1 <= m, n <= Len(s)
  PROVE  SubSeq(s, m, n) \in Seq(S)
<1>1. \A i \in m..n : s[i] \in S
  OBVIOUS
<1> QED
  BY <1>1, SubSeqProperties

(* str.replace leaves a text. *)
LEMMA ReplacedTyped ==
  ASSUME NEW text \in Seq(Letters), NEW old \in Seq(Letters), NEW new \in Seq(Letters)
  PROVE  ReplacedOnce(text, old, new) \in Seq(Letters)
<1> DEFINE O == Occurrences(old, text)
           i == CHOOSE i \in O : \A j \in O : i <= j
<1>1. CASE O = {}
  BY <1>1 DEF ReplacedOnce
<1>2. CASE O # {}
  <2>1. O \in SUBSET Nat /\ \A k \in O : k \in 1..Len(text) /\ k + Len(old) - 1 <= Len(text)
    BY DEF Occurrences, OccursAt
  <2> HIDE DEF O
  <2>2. \E k \in O : \A j \in O : k <= j
    BY <1>2, <2>1, LeastNat
  <2>3. i \in O
    BY <2>2
  <2> HIDE DEF i
  <2>4. i \in 1..Len(text) /\ i + Len(old) - 1 <= Len(text) /\ Len(old) \in Nat /\ Len(text) \in Nat
    BY <2>1, <2>3
  <2>5. SubSeq(text, 1, i - 1) \in Seq(Letters)
    BY <2>4, SubSeqTyped
  <2>6. SubSeq(text, i + Len(old), Len(text)) \in Seq(Letters)
    BY <2>4, SubSeqTyped
  <2>7. SubSeq(text, 1, i - 1) \o new \o SubSeq(text, i + Len(old), Len(text)) \in Seq(Letters)
    BY <2>5, <2>6
  <2> QED
    BY <1>2, <2>7 DEF ReplacedOnce, O, i
<1> QED
  BY <1>1, <1>2

FileType == [text : Seq(Letters), crlf : BOOLEAN, exists : BOOLEAN]
ToolTypes == {"none", "write", "edit", "read", "list"}
ToolStages == {"idle", "asking", "looked", "writing", "answered"}
CallTypes == [tool : ToolTypes, pc : ToolStages, path : Paths \cup {0}, text : Seq(Letters), by : Seq(Letters),
              start : Nat \ {0}, upto : Nat, hidden : BOOLEAN, old : FileType, new : FileType, raced : BOOLEAN]
Running(call) == call.pc \in {"asking", "looked", "writing"}

(* A call that runs is about a file and a window that is not empty. *)
CallOK(call) ==
  /\ call \in CallTypes
  /\ Running(call) => call.path \in Paths /\ (call.upto = 0 \/ call.start <= call.upto)

(* What was read is still there when it is replaced. *)
HoldsRead(call, files) ==
  call.pc = "writing" /\ ~call.raced => files[call.path] = call.old /\ call.new.crlf = call.old.crlf

AnswerOK(answer) ==
  /\ answer.kind \in {"wrote", "list"} => answer.chars <= MaxChars
  /\ answer.kind = "read" =>
       /\ answer.last >= answer.first
       /\ answer.last < answer.wanted => answer.next = answer.last + 1

FilesInv ==
  /\ disk \in [Paths -> FileType]
  /\ toolCalls = [k \in ToolCalls |-> toolCalls[k]] /\ answers = [k \in ToolCalls |-> answers[k]]
  /\ \A k \in ToolCalls : /\ CallOK(toolCalls[k])
                          /\ HoldsRead(toolCalls[k], disk)
                          /\ AnswerOK(answers[k])
                          /\ toolCalls[k].pc # "answered" => answers[k] = NoAnswer
  /\ \A k, l \in ToolCalls : toolCalls[k].pc = "writing" /\ toolCalls[l].pc = "writing" => k = l

LEMMA FileTyped ==
  /\ Absent \in FileType
  /\ \A text \in Seq(Letters), crlf \in BOOLEAN : File(text, crlf) \in FileType /\ File(text, crlf).crlf = crlf
<1>1. <<>> \in Seq(Letters)
  OBVIOUS
<1> QED
  BY <1>1 DEF Absent, File, FileType

LEMMA IdleTyped ==
  /\ Idle \in CallTypes /\ Idle.pc = "idle"
  /\ Over \in CallTypes /\ Over.pc = "answered"
<1>1. <<>> \in Seq(Letters)
  OBVIOUS
<1>2. Idle \in CallTypes /\ Idle.pc = "idle"
  BY <1>1, FileTyped DEF Idle, CallTypes, ToolTypes, ToolStages
<1>3. Over = [Idle EXCEPT !.pc = "answered"]
  BY DEF Over
<1> QED
  BY <1>2, <1>3 DEF CallTypes, ToolStages

LEMMA NoAnswerOK == AnswerOK(NoAnswer)
BY DEF AnswerOK, NoAnswer

LEMMA IdleOK == ASSUME NEW files PROVE /\ CallOK(Idle) /\ HoldsRead(Idle, files) /\ ~Running(Idle)
                                       /\ CallOK(Over) /\ HoldsRead(Over, files) /\ ~Running(Over)
BY IdleTyped DEF CallOK, HoldsRead, Running

LEMMA FilesStart == FilesInit => FilesInv
<1> SUFFICES ASSUME FilesInit PROVE FilesInv
  OBVIOUS
<1>1. disk \in [Paths -> FileType]
  <2>1. {Absent} \cup {File(text, crlf) : text \in Fragments, crlf \in BOOLEAN} \subseteq FileType
    BY FilesAssumption, FileTyped
  <2>2. disk \in [Paths -> {Absent} \cup {File(text, crlf) : text \in Fragments, crlf \in BOOLEAN}]
    BY DEF FilesInit
  <2> HIDE DEF FileType
  <2> QED
    BY <2>1, <2>2
<1>2. toolCalls = [k \in ToolCalls |-> Idle] /\ answers = [k \in ToolCalls |-> NoAnswer]
  BY DEF FilesInit
<1> QED
  BY <1>1, <1>2, IdleOK, IdleTyped, NoAnswerOK DEF FilesInv

(* A step that changes one call, and no file. *)
LEMMA CallStep ==
  ASSUME FilesInv, NEW k \in ToolCalls, NEW call, NEW answer,
         toolCalls' = [toolCalls EXCEPT ![k] = call], answers' = [answers EXCEPT ![k] = answer],
         UNCHANGED disk, CallOK(call), HoldsRead(call, disk), AnswerOK(answer),
         call.pc # "answered" => answer = NoAnswer,
         call.pc = "writing" => toolCalls[k].pc = "writing" \/ LoopFree
  PROVE  FilesInv'
<1>1. /\ toolCalls' = [l \in ToolCalls |-> toolCalls'[l]] /\ answers' = [l \in ToolCalls |-> answers'[l]]
      /\ \A l \in ToolCalls : /\ toolCalls'[l] = IF l = k THEN call ELSE toolCalls[l]
                              /\ answers'[l] = IF l = k THEN answer ELSE answers[l]
  BY DEF FilesInv
<1>2. \A i, l \in ToolCalls : toolCalls'[i].pc = "writing" /\ toolCalls'[l].pc = "writing" => i = l
  BY <1>1 DEF FilesInv, LoopFree
<1>3. \A l \in ToolCalls : /\ CallOK(toolCalls'[l])
                           /\ HoldsRead(toolCalls'[l], disk)
                           /\ AnswerOK(answers'[l])
                           /\ toolCalls'[l].pc # "answered" => answers'[l] = NoAnswer
  BY <1>1 DEF FilesInv
<1> QED
  BY <1>1, <1>2, <1>3 DEF FilesInv

LEMMA ReplyStep ==
  ASSUME FilesInv, NEW k \in ToolCalls, NEW answer, AnswerOK(answer), Reply(k, answer), UNCHANGED disk
  PROVE  FilesInv'
BY CallStep, IdleOK, IdleTyped DEF Reply

LEMMA RefuseStep == ASSUME FilesInv, NEW k \in ToolCalls, Refuse(k), UNCHANGED disk PROVE FilesInv'
<1>1. AnswerOK([kind |-> "refused"])
  BY DEF AnswerOK
<1> QED
  BY <1>1, ReplyStep DEF Refuse

(* A call that moves on without an answer. *)
LEMMA MoveStep ==
  ASSUME FilesInv, NEW k \in ToolCalls, toolCalls[k].pc # "answered", NEW call,
         toolCalls' = [toolCalls EXCEPT ![k] = call], UNCHANGED <<disk, answers>>,
         CallOK(call), HoldsRead(call, disk),
         call.pc = "writing" => toolCalls[k].pc = "writing" \/ LoopFree
  PROVE  FilesInv'
<1>1. answers[k] = NoAnswer
  BY DEF FilesInv
<1>2. answers' = [answers EXCEPT ![k] = answers[k]]
  BY DEF FilesInv
<1> QED
  BY <1>1, <1>2, NoAnswerOK, CallStep

LEMMA ArrivesKeeps == ASSUME FilesInv, NEW k \in ToolCalls, ToolArrives(k) PROVE FilesInv'
<1>1. PICK tool \in {"write", "edit", "read", "list"}, p \in Paths, text \in Fragments, by \in Fragments,
           start \in 1..MaxLetters, upto \in 0..MaxLetters :
        /\ tool # "edit" => by = <<>>
        /\ tool \in {"read", "list"} => text = <<>>
        /\ tool # "read" => start = 1 /\ upto = 0
        /\ upto = 0 \/ upto >= start
        /\ toolCalls' = [toolCalls EXCEPT ![k].tool = tool, ![k].pc = "asking", ![k].path = p, ![k].text = text,
                                 ![k].by = by, ![k].start = start, ![k].upto = upto]
  BY Zenon DEF ToolArrives
<1>c. PICK call : call = [toolCalls[k] EXCEPT !.tool = tool, !.pc = "asking", !.path = p, !.text = text,
                                              !.by = by, !.start = start, !.upto = upto]
  OBVIOUS
<1>2. toolCalls[k] \in CallTypes /\ toolCalls[k].pc = "idle"
  BY DEF FilesInv, CallOK, ToolArrives
<1>3. /\ tool \in ToolTypes /\ "asking" \in ToolStages /\ p \in Paths \cup {0}
      /\ text \in Seq(Letters) /\ by \in Seq(Letters) /\ start \in Nat \ {0} /\ upto \in Nat
  BY FilesAssumption DEF ToolTypes, ToolStages
<1>5. /\ call \in CallTypes /\ call.pc = "asking" /\ call.path = p
      /\ call.start = start /\ call.upto = upto
  <2>1. PICK old : old = toolCalls[k]
    OBVIOUS
  <2>2. old \in CallTypes
    BY <1>2, <2>1
  <2>3. call = [old EXCEPT !.tool = tool, !.pc = "asking", !.path = p, !.text = text,
                           !.by = by, !.start = start, !.upto = upto]
    BY <1>c, <2>1
  <2>4. call.tool = tool /\ call.pc = "asking" /\ call.path = p /\ call.text = text
    BY <2>2, <2>3 DEF CallTypes
  <2>5. call.by = by /\ call.start = start /\ call.upto = upto
    BY <2>2, <2>3 DEF CallTypes
  <2>6. call.hidden = old.hidden /\ call.old = old.old /\ call.new = old.new /\ call.raced = old.raced
    BY <2>2, <2>3 DEF CallTypes
  <2>7. DOMAIN call = DOMAIN old /\ call = [f \in DOMAIN call |-> call[f]]
    BY <2>2, <2>3 DEF CallTypes
  <2>8. call \in CallTypes
    BY <1>3, <2>2, <2>4, <2>5, <2>6, <2>7 DEF CallTypes
  <2> QED
    BY <2>4, <2>5, <2>8
<1>6. toolCalls' = [toolCalls EXCEPT ![k] = call]
  BY <1>1, <1>c, Zenon DEF FilesInv
<1>8. CallOK(call) /\ HoldsRead(call, disk)
  BY <1>1, <1>5 DEF CallOK, HoldsRead
<1>9. UNCHANGED <<disk, answers>> /\ call.pc # "writing"
  BY <1>5 DEF ToolArrives
<1> QED
  BY <1>2, <1>6, <1>8, <1>9, MoveStep

LEMMA LooksKeeps == ASSUME FilesInv, NEW k \in ToolCalls, GitLooks(k) PROVE FilesInv'
<1> DEFINE hidden == \/ toolCalls[k].tool # "list" /\ toolCalls[k].path \in ignored
                     \/ toolCalls[k].tool = "read" /\ ~disk[toolCalls[k].path].exists
           call == [toolCalls[k] EXCEPT !.pc = "looked", !.hidden = hidden]
<1>1. toolCalls' = [toolCalls EXCEPT ![k] = call] /\ UNCHANGED <<disk, answers>> /\ toolCalls[k].pc = "asking"
  BY DEF GitLooks, FilesInv
<1>2. toolCalls[k] \in CallTypes /\ CallOK(toolCalls[k])
  BY DEF FilesInv, CallOK
<1>3. hidden \in BOOLEAN
  OBVIOUS
<1> HIDE DEF hidden
<1>4. call \in CallTypes /\ call.pc = "looked" /\ call.path = toolCalls[k].path
      /\ call.start = toolCalls[k].start /\ call.upto = toolCalls[k].upto
  BY <1>2, <1>3 DEF CallTypes, ToolStages
<1> HIDE DEF call
<1>5. CallOK(call) /\ HoldsRead(call, disk)
  BY <1>1, <1>2, <1>4 DEF CallOK, HoldsRead, Running
<1> QED
  BY <1>1, <1>4, <1>5, MoveStep

(* The file is read, and another text is to replace it. *)
LEMMA WantsStep ==
  ASSUME FilesInv, NEW k \in ToolCalls, LoopFree, toolCalls[k].pc = "looked",
         NEW text \in Seq(Letters), WantsWrite(k, text), UNCHANGED disk
  PROVE  FilesInv'
<1> DEFINE new == File(text, OnDisk(k).crlf)
           call == [toolCalls[k] EXCEPT !.pc = "writing", !.old = OnDisk(k), !.new = new]
<1>1. toolCalls' = [toolCalls EXCEPT ![k] = call] /\ UNCHANGED <<disk, answers>>
  BY DEF WantsWrite, FilesInv
<1>2. toolCalls[k] \in CallTypes /\ CallOK(toolCalls[k]) /\ toolCalls[k].path \in Paths
  BY DEF FilesInv, CallOK, Running
<1>3. OnDisk(k) \in FileType /\ OnDisk(k) = disk[toolCalls[k].path]
  BY <1>2 DEF FilesInv, OnDisk
<1>4. OnDisk(k).crlf \in BOOLEAN
  BY <1>3 DEF FileType
<1>5. new \in FileType /\ new.crlf = OnDisk(k).crlf
  BY <1>4, FileTyped
<1> HIDE DEF new
<1>6. call \in CallTypes /\ call.pc = "writing" /\ call.path = toolCalls[k].path
      /\ call.start = toolCalls[k].start /\ call.upto = toolCalls[k].upto
      /\ call.old = OnDisk(k) /\ call.new = new
  BY <1>2, <1>3, <1>5 DEF CallTypes, ToolStages
<1> HIDE DEF call
<1>7. CallOK(call) /\ HoldsRead(call, disk)
  BY <1>2, <1>3, <1>5, <1>6 DEF CallOK, HoldsRead, Running
<1> QED
  BY <1>1, <1>6, <1>7, MoveStep

LEMMA WriteFileKeeps == ASSUME FilesInv, NEW k \in ToolCalls, WriteFile(k) PROVE FilesInv'
<1>1. toolCalls[k].text \in Seq(Letters)
  BY DEF FilesInv, CallOK, CallTypes
<1>2. AnswerOK([kind |-> "same"])
  BY DEF AnswerOK
<1>3. UNCHANGED disk /\ LoopFree /\ toolCalls[k].pc = "looked"
      /\ (Reply(k, [kind |-> "same"]) \/ WantsWrite(k, toolCalls[k].text))
  BY DEF WriteFile, Proceeds
<1> QED
  BY <1>1, <1>2, <1>3, ReplyStep, WantsStep

LEMMA EditFileKeeps == ASSUME FilesInv, NEW k \in ToolCalls, EditFile(k) PROVE FilesInv'
<1>1. /\ toolCalls[k].text \in Seq(Letters) /\ toolCalls[k].by \in Seq(Letters)
      /\ toolCalls[k].pc = "looked" => toolCalls[k].path \in Paths
  BY DEF FilesInv, CallOK, CallTypes, Running
<1>2. UNCHANGED disk /\ LoopFree /\ toolCalls[k].pc = "looked"
      /\ (Refuse(k) \/ WantsWrite(k, ReplacedOnce(OnDisk(k).text, toolCalls[k].text, toolCalls[k].by)))
  BY DEF EditFile, Proceeds
<1>3. OnDisk(k).text \in Seq(Letters)
  BY <1>1, <1>2 DEF OnDisk, FilesInv, FileType
<1>4. ReplacedOnce(OnDisk(k).text, toolCalls[k].text, toolCalls[k].by) \in Seq(Letters)
  BY <1>1, <1>3, ReplacedTyped
<1> QED
  BY <1>2, <1>4, RefuseStep, WantsStep

LEMMA RefusesKeeps == ASSUME FilesInv, NEW k \in ToolCalls, GitRefuses(k) PROVE FilesInv'
BY RefuseStep DEF GitRefuses

(* The file is replaced: no other call has read it. *)
LEMMA WritesKeeps == ASSUME FilesInv, NEW k \in ToolCalls, Writes(k) PROVE FilesInv'
<1>1. CASE Refuse(k) /\ UNCHANGED disk
  BY <1>1, RefuseStep
<1>2. CASE Replaced(k, toolCalls[k].new) /\ Wrote(k)
  <2>1. PICK diff \in BodyChars : Reply(k, [kind |-> "wrote", chars |-> FitText(1, diff, FALSE)])
    BY <1>2 DEF Wrote
  <2> DEFINE answer == [kind |-> "wrote", chars |-> FitText(1, diff, FALSE)]
  <2>2. AnswerOK(answer)
    <3>1. FitText(1, diff, FALSE) <= MaxChars
      BY FilesAssumption, FitTextFits
    <3> QED
      BY <3>1 DEF AnswerOK
  <2> HIDE DEF answer
  <2>3. toolCalls[k].path \in Paths /\ toolCalls[k].new \in FileType /\ toolCalls[k].pc = "writing"
    BY DEF FilesInv, CallOK, CallTypes, Running, Writes
  <2>4. disk' \in [Paths -> FileType]
    BY <1>2, <2>3 DEF Replaced, FilesInv
  <2>5. /\ toolCalls' = [toolCalls EXCEPT ![k] = Over] /\ answers' = [answers EXCEPT ![k] = answer]
    BY <2>1 DEF Reply, answer
  <2>6. /\ toolCalls' = [l \in ToolCalls |-> toolCalls'[l]] /\ answers' = [l \in ToolCalls |-> answers'[l]]
        /\ \A l \in ToolCalls : /\ toolCalls'[l] = IF l = k THEN Over ELSE toolCalls[l]
                                /\ answers'[l] = IF l = k THEN answer ELSE answers[l]
    BY <2>5 DEF FilesInv
  <2>7. \A l \in ToolCalls : /\ CallOK(toolCalls'[l])
                             /\ AnswerOK(answers'[l])
                             /\ toolCalls'[l].pc # "answered" => answers'[l] = NoAnswer
                             /\ toolCalls'[l].pc # "writing"
    BY <2>2, <2>3, <2>6, IdleOK, IdleTyped DEF FilesInv
  <2> QED
    BY <2>4, <2>6, <2>7 DEF FilesInv, HoldsRead
<1> QED
  BY <1>1, <1>2 DEF Writes

(* The last line shown is one of those there are to show. *)
LEMMA LastShownInRange ==
  ASSUME NEW text, NEW start \in Nat, NEW end \in Nat, start <= end, NEW room
  PROVE  LastShown(text, start, end, room) \in start..end
<1> DEFINE Ends(n) == n < end => ~(Shown(text, start, n + 1) <= room)
           T == {n \in start..end : Ends(n)}
<1>1. end \in T
  OBVIOUS
<1>2. T \in SUBSET Nat
  OBVIOUS
<1> HIDE DEF T
<1>3. PICK n \in T : \A m \in T : n <= m
  BY <1>1, <1>2, LeastNat
<1>4. n \in start..end /\ Ends(n)
  BY <1>3 DEF T
<1>5. n = start \/ Shown(text, start, n) <= room
  <2>1. SUFFICES ASSUME n # start PROVE Shown(text, start, n) <= room
    OBVIOUS
  <2>2. n - 1 \in start..end /\ ~(n <= n - 1) /\ n - 1 < end /\ (n - 1) + 1 = n
    BY <1>4, <2>1
  <2>3. n - 1 \notin T
    BY <1>3, <2>2
  <2>4. ~Ends(n - 1)
    BY <2>2, <2>3 DEF T
  <2> QED
    BY <2>2, <2>4
<1> QED
  BY <1>4, <1>5 DEF LastShown

LEMMA ReadFileKeeps == ASSUME FilesInv, NEW k \in ToolCalls, ReadFile(k) PROVE FilesInv'
<1> DEFINE text == OnDisk(k).text
           start == toolCalls[k].start
           upto == toolCalls[k].upto
           end == AtMost(Len(text), IF upto = 0 THEN start + ReadWindow - 1 ELSE upto)
           last == LastShown(text, start, end, MaxChars - MarkerChars - 2)
           wanted == IF upto = 0 THEN Len(text) ELSE end
           next == IF last < Len(text) /\ (last < end \/ upto = 0) THEN last + 1 ELSE 0
           answer == [kind |-> "read", first |-> start, last |-> last, wanted |-> wanted, next |-> next]
<1>1. toolCalls[k].pc = "looked" /\ UNCHANGED disk
  BY DEF ReadFile, Proceeds
<1>2. start \in Nat \ {0} /\ upto \in Nat /\ (upto = 0 \/ start <= upto) /\ toolCalls[k].path \in Paths
  BY <1>1 DEF FilesInv, CallOK, CallTypes, Running
<1>3. text \in Seq(Letters)
  BY <1>2 DEF OnDisk, FilesInv, FileType
<1>4. Len(text) \in Nat
  BY <1>3
<1>5. Refuse(k) \/ (start <= Len(text) /\ Reply(k, answer))
  <2>1. IF ~OnDisk(k).exists \/ start > Len(text) THEN Refuse(k) ELSE Reply(k, answer)
    BY DEF ReadFile
  <2> HIDE DEF answer, text, start
  <2> QED
    BY <1>2, <1>4, <2>1
<1>6. CASE Refuse(k)
  BY <1>1, <1>6, RefuseStep
<1>7. CASE start <= Len(text) /\ Reply(k, answer)
  <2>1. end \in Nat /\ start <= end /\ end <= Len(text)
    <3> HIDE DEF text, start, upto
    <3> QED
      BY <1>2, <1>4, <1>7, FilesAssumption DEF AtMost
  <2> HIDE DEF end
  <2>2. last \in start..end
    BY <1>2, <2>1, LastShownInRange
  <2> HIDE DEF last
  <2>3. last >= start /\ (last < wanted => next = last + 1)
    <3> HIDE DEF text, start, upto
    <3> QED
      BY <1>2, <1>4, <2>1, <2>2
  <2> HIDE DEF start, wanted, next
  <2>4. AnswerOK(answer)
    BY <2>3 DEF AnswerOK
  <2> HIDE DEF answer
  <2> QED
    BY <1>1, <1>7, <2>4, ReplyStep
<1> QED
  BY <1>5, <1>6, <1>7

LEMMA ListKeeps == ASSUME FilesInv, NEW k \in ToolCalls, ListTool(k) PROVE FilesInv'
<1>1. PICK summary \in BodyChars, body \in BodyChars, extra \in BodyChars, capped \in BOOLEAN, more \in BOOLEAN :
        \E chars \in {StatusChars(summary, body, capped), DiffChars(summary, extra, body, capped),
                     SearchChars(summary, body, more, capped), UsagesChars(summary, body, more, capped),
                     TrackedFiles(summary, extra, body)} : Reply(k, [kind |-> "list", chars |-> chars])
  BY Zenon DEF ListTool
<1>2. summary \in Nat /\ body \in Nat /\ extra \in Nat /\ MarkerChars \in Nat /\ MaxChars \in Nat
  BY FilesAssumption, AnswerAssumption
<1>3. StatusChars(summary, body, capped) <= MaxChars
  BY <1>2, FitTextFits DEF StatusChars
<1>4. DiffChars(summary, extra, body, capped) <= MaxChars
  BY <1>2, ComposedDiffFits DEF DiffChars
<1>5. SearchChars(summary, body, more, capped) <= MaxChars
  <2>1. body + (IF more THEN 1 + MarkerChars ELSE 0) \in Nat
    BY <1>2
  <2> QED
    BY <1>2, <2>1, FitTextFits DEF SearchChars
<1>6. UsagesChars(summary, body, more, capped) <= MaxChars
  <2>1. body + (IF more THEN 1 + MarkerChars ELSE 0) + (IF capped THEN 1 + MarkerChars ELSE 0) \in Nat
    BY <1>2
  <2> QED
    BY <1>2, <2>1, FitTextFits DEF UsagesChars
<1>7. TrackedFiles(summary, extra, body) <= MaxChars
  BY <1>2, TrackedFilesFits
<1>8. PICK chars : chars <= MaxChars /\ Reply(k, [kind |-> "list", chars |-> chars])
  BY <1>1, <1>3, <1>4, <1>5, <1>6, <1>7, Zenon
<1>9. AnswerOK([kind |-> "list", chars |-> chars])
  BY <1>8 DEF AnswerOK
<1>10. UNCHANGED disk
  BY DEF ListTool
<1> QED
  BY <1>8, <1>9, <1>10, ReplyStep

(* The developer saves: who has read the file is marked. *)
LEMMA SavesKeeps == ASSUME FilesInv, DeveloperSaves PROVE FilesInv'
<1>1. PICK p \in Paths, text \in Fragments, crlf \in BOOLEAN :
        /\ disk' = [disk EXCEPT ![p] = File(text, crlf)]
        /\ toolCalls' = [k \in ToolCalls |->
             IF toolCalls[k].pc = "writing" /\ toolCalls[k].path = p THEN [toolCalls[k] EXCEPT !.raced = TRUE] ELSE toolCalls[k]]
  BY DEF DeveloperSaves
<1>2. UNCHANGED answers
  BY DEF DeveloperSaves
<1>3. disk' \in [Paths -> FileType]
  <2>1. File(text, crlf) \in FileType
    BY FilesAssumption, FileTyped
  <2> QED
    BY <1>1, <2>1 DEF FilesInv
<1>4. ASSUME NEW k \in ToolCalls
      PROVE  CallOK(toolCalls'[k]) /\ HoldsRead(toolCalls'[k], disk') /\ toolCalls'[k].pc = toolCalls[k].pc
  <2>1. CallOK(toolCalls[k]) /\ HoldsRead(toolCalls[k], disk)
    BY DEF FilesInv
  <2>2. CASE toolCalls[k].pc = "writing" /\ toolCalls[k].path = p
    <3>1. toolCalls'[k] = [toolCalls[k] EXCEPT !.raced = TRUE]
      BY <1>1, <2>2
    <3>2. /\ toolCalls'[k] \in CallTypes /\ toolCalls'[k].raced /\ toolCalls'[k].pc = toolCalls[k].pc
          /\ toolCalls'[k].path = toolCalls[k].path /\ toolCalls'[k].start = toolCalls[k].start
          /\ toolCalls'[k].upto = toolCalls[k].upto
      BY <2>1, <3>1 DEF CallOK, CallTypes
    <3> QED
      BY <2>1, <3>2 DEF CallOK, HoldsRead, Running
  <2>3. CASE ~(toolCalls[k].pc = "writing" /\ toolCalls[k].path = p)
    <3>1. toolCalls'[k] = toolCalls[k]
      BY <1>1, <2>3
    <3>2. toolCalls[k].pc = "writing" => disk'[toolCalls[k].path] = disk[toolCalls[k].path]
      BY <1>1, <2>1, <2>3 DEF FilesInv, CallOK, Running
    <3> QED
      BY <2>1, <3>1, <3>2 DEF HoldsRead
  <2> QED
    BY <2>2, <2>3
<1>5. toolCalls' = [k \in ToolCalls |-> toolCalls'[k]]
  BY <1>1
<1> QED
  BY <1>2, <1>3, <1>4, <1>5 DEF FilesInv

LEMMA DiesKeeps == ASSUME FilesInv, ServerDies PROVE FilesInv'
<1>1. toolCalls' = [k \in ToolCalls |-> IF toolCalls[k].pc = "idle" THEN Idle ELSE Over] /\ UNCHANGED <<disk, answers>>
  BY DEF ServerDies
<1>2. \A k \in ToolCalls : /\ CallOK(toolCalls'[k]) /\ HoldsRead(toolCalls'[k], disk)
                           /\ toolCalls'[k].pc # "writing"
                           /\ toolCalls'[k].pc # "answered" => answers[k] = NoAnswer
  BY <1>1, IdleOK, IdleTyped DEF FilesInv
<1>3. toolCalls' = [k \in ToolCalls |-> toolCalls'[k]]
  BY <1>1
<1> QED
  BY <1>1, <1>2, <1>3 DEF FilesInv

LEMMA FilesStep == ASSUME FilesInv, [FilesNext]_fileVars PROVE FilesInv'
<1>1. CASE DeveloperSaves
  BY <1>1, SavesKeeps
<1>2. CASE DeveloperIgnores \/ UNCHANGED fileVars
  <2>1. UNCHANGED <<disk, toolCalls, answers>>
    BY <1>2 DEF DeveloperIgnores, fileVars
  <2> QED
    BY <2>1 DEF FilesInv
<1>3. CASE ServerDies
  BY <1>3, DiesKeeps
<1>4. ASSUME NEW k \in ToolCalls, \/ ToolArrives(k) \/ GitLooks(k) \/ GitRefuses(k) \/ WriteFile(k)
                                  \/ EditFile(k) \/ Writes(k) \/ ReadFile(k) \/ ListTool(k)
      PROVE  FilesInv'
  BY <1>4, ArrivesKeeps, LooksKeeps, RefusesKeeps, WriteFileKeeps, EditFileKeeps, WritesKeeps,
     ReadFileKeeps, ListKeeps
<1> QED
  BY <1>1, <1>2, <1>3, <1>4 DEF FilesNext

(* Only its own step, or the end of the process, ends a call that writes.  *)
LEMMA EditsKept == ASSUME FilesInv, [FilesNext]_fileVars PROVE NoLostEdit
<1> SUFFICES ASSUME NEW k \in ToolCalls, toolCalls[k].pc = "writing", toolCalls'[k].pc = "answered"
             PROVE  IF answers'[k].kind = "wrote"
                    THEN ~toolCalls[k].raced => /\ disk[toolCalls[k].path] = toolCalls[k].old
                                                /\ disk'[toolCalls[k].path].crlf = disk[toolCalls[k].path].crlf
                    ELSE disk' = disk
  BY DEF NoLostEdit
<1>1. CASE Writes(k)
  <2>1. CASE Refuse(k) /\ UNCHANGED disk
    <3>1. answers'[k] = [kind |-> "refused"]
      BY <2>1 DEF Refuse, Reply, FilesInv
    <3> QED
      BY <2>1, <3>1
  <2>2. CASE Replaced(k, toolCalls[k].new) /\ Wrote(k)
    <3>1. toolCalls[k].path \in Paths /\ HoldsRead(toolCalls[k], disk)
      BY DEF FilesInv, CallOK, Running
    <3>2. disk'[toolCalls[k].path] = toolCalls[k].new
      BY <2>2, <3>1 DEF Replaced, FilesInv
    <3>3. answers'[k].kind = "wrote"
      <4>1. PICK diff : answers' = [answers EXCEPT ![k] = [kind |-> "wrote", chars |-> diff]]
        BY <2>2 DEF Wrote, Reply
      <4> QED
        BY <4>1 DEF FilesInv
    <3> QED
      BY <3>1, <3>2, <3>3 DEF HoldsRead
  <2> QED
    BY <1>1, <2>1, <2>2 DEF Writes
<1>2. CASE ServerDies
  <2>1. UNCHANGED <<disk, answers>> /\ answers[k] = NoAnswer
    BY <1>2 DEF ServerDies, FilesInv
  <2> QED
    BY <2>1 DEF NoAnswer
<1>3. CASE DeveloperSaves
  <2>1. PICK p : toolCalls' = [l \in ToolCalls |->
             IF toolCalls[l].pc = "writing" /\ toolCalls[l].path = p THEN [toolCalls[l] EXCEPT !.raced = TRUE] ELSE toolCalls[l]]
    BY <1>3 DEF DeveloperSaves
  <2>2. toolCalls[k] \in CallTypes
    BY DEF FilesInv, CallOK
  <2>3. toolCalls'[k].pc = toolCalls[k].pc
    BY <2>1, <2>2 DEF CallTypes
  <2> QED
    BY <2>3
<1>4. CASE UNCHANGED toolCalls
  BY <1>4
<1>5. ASSUME NEW l \in ToolCalls, NEW call, toolCalls' = [toolCalls EXCEPT ![l] = call], l # k PROVE FALSE
  <2>1. toolCalls'[k] = toolCalls[k]
    BY <1>5 DEF FilesInv
  <2> QED
    BY <2>1
<1>6. ASSUME NEW l \in ToolCalls, \/ ToolArrives(l) \/ GitLooks(l) \/ GitRefuses(l) \/ WriteFile(l)
                                  \/ EditFile(l) \/ ReadFile(l) \/ ListTool(l)
      PROVE  FALSE
  <2>1. l # k
    BY <1>6 DEF ToolArrives, GitLooks, GitRefuses, LoopFree, WriteFile, EditFile, ReadFile, ListTool, Proceeds
  <2>2. \E call : toolCalls' = [toolCalls EXCEPT ![l] = call]
    <3>1. CASE ToolArrives(l)
      <4>1. PICK tool \in {"write", "edit", "read", "list"}, p \in Paths, text \in Fragments, by \in Fragments,
           start \in 1..MaxLetters, upto \in 0..MaxLetters :
        /\ tool # "edit" => by = <<>>
        /\ tool \in {"read", "list"} => text = <<>>
        /\ tool # "read" => start = 1 /\ upto = 0
        /\ upto = 0 \/ upto >= start
        /\ toolCalls' = [toolCalls EXCEPT ![l].tool = tool, ![l].pc = "asking", ![l].path = p, ![l].text = text,
                                 ![l].by = by, ![l].start = start, ![l].upto = upto]
        BY <3>1, Zenon DEF ToolArrives
      <4>2. PICK call : call = [toolCalls[l] EXCEPT !.tool = tool, !.pc = "asking", !.path = p, !.text = text,
                                              !.by = by, !.start = start, !.upto = upto]
        OBVIOUS
      <4>3. toolCalls' = [toolCalls EXCEPT ![l] = call]
        BY <4>1, <4>2, Zenon DEF FilesInv
      <4> QED
        BY <4>3
    <3>2. CASE GitLooks(l)
      BY <3>2 DEF GitLooks, FilesInv
    <3>3. CASE GitRefuses(l)
      BY <3>3 DEF GitRefuses, Refuse, Reply
    <3>4. CASE WriteFile(l)
      BY <3>4 DEF WriteFile, Reply, WantsWrite, FilesInv
    <3>5. CASE EditFile(l)
      BY <3>5 DEF EditFile, Refuse, Reply, WantsWrite, FilesInv
    <3>6. CASE ReadFile(l)
      BY <3>6 DEF ReadFile, Refuse, Reply
    <3>7. CASE ListTool(l)
      BY <3>7 DEF ListTool, Reply
    <3> QED
      BY <1>6, <3>1, <3>2, <3>3, <3>4, <3>5, <3>6, <3>7
  <2> QED
    BY <1>5, <2>1, <2>2
<1>7. ASSUME NEW l \in ToolCalls, Writes(l), l # k PROVE FALSE
  <2>1. toolCalls' = [toolCalls EXCEPT ![l] = Over]
    BY <1>7 DEF Writes, Wrote, Refuse, Reply
  <2> QED
    BY <1>5, <1>7, <2>1
<1> QED
  BY <1>1, <1>2, <1>3, <1>4, <1>6, <1>7 DEF FilesNext, DeveloperIgnores, fileVars

(* Every answer of the file tools keeps within --max-chars, and one of     *)
(* read_file shows a line at least and says where to read on, for every    *)
(* file, window and size of its lines.                                     *)
THEOREM FileAnswersAreSound == TurnsSpec => []FileAnswersSound
<1> DEFINE Inv == focus = "files" => FilesInv
<1>1. TurnsInit => Inv
  BY FilesStart DEF TurnsInit
<1>2. Inv /\ [TurnsNext]_turnsVars => Inv'
  BY FocusMoves, FilesStep
<1>3. Inv => FileAnswersSound
  BY DEF FileAnswersSound, FilesInv, AnswerOK, AnswersFit, ReadGoesOn
<1> QED
  BY <1>1, <1>2, <1>3, PTL DEF TurnsSpec

(* An edit replaces the text it read or is refused, unless the developer   *)
(* saved in between, for any number of calls (the server's loop runs one   *)
(* at a time from the read on); and a frame that is published is the       *)
(* newest of every open queue, whose bound it keeps (EventHub.publish).    *)
THEOREM NothingIsOverwritten == TurnsSpec => NothingOverwritten
<1> DEFINE Inv == (focus = "files" => FilesInv) /\ (focus = "background" => BgInv)
<1>1. TurnsInit => Inv
  BY FilesStart, BgStarts DEF TurnsInit
<1>2. Inv /\ [TurnsNext]_turnsVars => Inv'
  BY FocusMoves, FilesStep, BgStep
<1>3. Inv /\ [TurnsNext]_turnsVars => [focus = "files" => NoLostEdit]_fileVars
  BY FocusMoves, EditsKept
<1>4. Inv /\ [TurnsNext]_turnsVars => [focus = "background" => NewestFrameKept]_bgVars
  BY FocusMoves, NewestKept
<1> QED
  BY <1>1, <1>2, <1>3, <1>4, PTL DEF TurnsSpec, NothingOverwritten

-----------------------------------------------------------------------------
(***************************************************************************)
(* CommandTurn                                                             *)
(***************************************************************************)
ServerLabels == ServerNames \cup {"local-git", "support"}
Stages == {"none", "socket", "locked", "loading", "storing", "lookup", "choosing", "connecting",
           "search", "answering", "done"}
TurnTypes ==
  [at : Stages, cmd : {"plain", "help", "support"}, asked : BOOLEAN, ticket : BOOLEAN, replay : SUBSET Nat,
   lookup : {"none", "unavailable", "ok", "absent"}, shown : Nat, chosen : SUBSET Entries,
   missing : SUBSET ServerLabels, tools : SUBSET Entries, warned : SUBSET ServerLabels,
   fragments : BOOLEAN, failed : BOOLEAN, quotes : {"none", "picked", "written"}]
Messages == [role : {"user", "assistant"}, turn : TurnTypes]

(* The answered /support questions among the first n messages.             *)
PairsUpTo(b, n) ==
  {k \in 2..n : /\ b[k].role = "assistant" /\ b[k - 1].role = "user"
                /\ b[k].turn.cmd = "support" /\ b[k - 1].turn.cmd = "support"}

(* What is replayed of them: the newest, not too many.                     *)
ReplayOK(replay, pairs) ==
  /\ replay \subseteq pairs /\ Cardinality(replay) <= HistoryPairs
  /\ \A j \in replay : {i \in pairs : i > j} \subseteq replay

(* What holds of an answer and of what comes before it.                    *)
Stands(b, k) ==
  /\ k > 1 /\ b[k - 1].role = "user" /\ b[k - 1].turn.cmd = b[k].turn.cmd
  /\ Accounted(b[k].turn)
  /\ b[k].turn.shown = IF b[k].turn.lookup = "ok" THEN 1 ELSE 0
  /\ b[k].turn.quotes = "picked" => b[k].turn.fragments /\ b[k].turn.lookup # "ok"
  /\ ReplayOK(b[k].turn.replay, PairsUpTo(b, k - 2))

IsAnswer(message) == message.role = "assistant" /\ message.turn.cmd \in Commands
AllStand(b) == \A k \in 1..Len(b) : IsAnswer(b[k]) => Stands(b, k)

Stored == {"lookup", "choosing", "connecting", "search", "answering"}

(* What a turn has made sure of by the stage it is at. *)
TurnOK ==
  /\ turn \in TurnTypes
  /\ turn.at # "none" => turn.cmd \in Commands
  /\ turn.at # "answering" => turn.shown = 0
  /\ turn.at = "answering" => turn.shown = IF turn.lookup = "ok" THEN 1 ELSE 0
  /\ turn.at \in {"search", "answering"} => Accounted(turn)
  /\ turn.at \in Stored =>
       /\ branch # <<>> /\ branch[Len(branch)].role = "user" /\ branch[Len(branch)].turn.cmd = turn.cmd
       /\ ReplayOK(turn.replay, PairsUpTo(branch, Len(branch) - 1))

RowsTyped ==
  /\ marked \in BOOLEAN /\ docBase \in {"none", "indexing", "ready"}
  /\ DOMAIN servers \subseteq Nat /\ IsFiniteSet(DOMAIN servers)
  /\ servers = [i \in DOMAIN servers |-> servers[i]]
  /\ \A i \in DOMAIN servers : servers[i] \in [name : ServerNames, enabled : BOOLEAN, made : Nat]
  /\ DOMAIN choices = Commands
  /\ \A c \in Commands : choices[c] = NoChoice \/ choices[c] \subseteq Entries
  /\ turns \in 0..MaxTurns /\ changes \in 0..MaxChanges

CommandInv ==
  /\ RowsTyped
  /\ branch \in Seq(Messages) /\ AllStand(branch)
  /\ TurnOK

(* The pairs among the first messages are those of every longer branch.    *)
LEMMA PairsAgree ==
  ASSUME NEW b, NEW c, NEW n \in Int, \A k \in 1..n : b[k] = c[k]
  PROVE  PairsUpTo(b, n) = PairsUpTo(c, n)
<1>1. \A k \in 2..n : b[k] = c[k] /\ b[k - 1] = c[k - 1]
  OBVIOUS
<1> QED
  BY <1>1 DEF PairsUpTo

LEMMA StandsAgree ==
  ASSUME NEW b, NEW c, NEW k \in Nat, \A i \in 1..k : b[i] = c[i], Stands(b, k)
  PROVE  Stands(c, k)
<1>1. k > 1 /\ b[k] = c[k] /\ b[k - 1] = c[k - 1]
  BY DEF Stands
<1>2. PairsUpTo(b, k - 2) = PairsUpTo(c, k - 2)
  BY PairsAgree
<1> QED
  BY <1>1, <1>2 DEF Stands

LEMMA AppendStands ==
  ASSUME NEW b \in Seq(Messages), AllStand(b), NEW message \in Messages,
         IsAnswer(message) => Stands(Append(b, message), Len(b) + 1)
  PROVE  Append(b, message) \in Seq(Messages) /\ AllStand(Append(b, message))
<1>1. /\ Append(b, message) \in Seq(Messages) /\ Len(Append(b, message)) = Len(b) + 1 /\ Len(b) \in Nat
      /\ \A i \in 1..Len(b) : Append(b, message)[i] = b[i]
      /\ Append(b, message)[Len(b) + 1] = message
  OBVIOUS
<1>2. ASSUME NEW k \in 1..Len(b) + 1, IsAnswer(Append(b, message)[k]) PROVE Stands(Append(b, message), k)
  <2>1. CASE k \in 1..Len(b)
    <3>1. Stands(b, k)
      BY <1>1, <1>2, <2>1 DEF AllStand
    <3>2. k \in Nat /\ \A i \in 1..k : b[i] = Append(b, message)[i]
      BY <1>1, <2>1
    <3> QED
      BY <3>1, <3>2, StandsAgree, Zenon
  <2>2. CASE k = Len(b) + 1
    BY <1>1, <1>2, <2>2
  <2> QED
    BY <1>1, <2>1, <2>2
<1> QED
  BY <1>1, <1>2 DEF AllStand

LEMMA FrontLength ==
  \A n \in Nat : n >= 1 => (IF 1 <= n - 1 THEN n - 1 - 1 + 1 ELSE 0) = n - 1
OBVIOUS

LEMMA FrontStands ==
  ASSUME NEW b \in Seq(Messages), AllStand(b), b # <<>>
  PROVE  SubSeq(b, 1, Len(b) - 1) \in Seq(Messages) /\ AllStand(SubSeq(b, 1, Len(b) - 1))
<1> DEFINE f == SubSeq(b, 1, Len(b) - 1)
<1>1. Len(b) \in Nat /\ Len(b) >= 1
  OBVIOUS
<1>2. \A i \in 1..Len(b) - 1 : b[i] \in Messages
  BY <1>1
<1>3. f \in Seq(Messages) /\ Len(f) = Len(b) - 1 /\ \A i \in 1..Len(b) - 1 : f[i] = b[i]
  <2>1. 1 \in Int /\ Len(b) - 1 \in Int
    BY <1>1
  <2>2. /\ f \in Seq(Messages)
        /\ Len(f) = IF 1 <= Len(b) - 1 THEN Len(b) - 1 - 1 + 1 ELSE 0
        /\ \A i \in 1..Len(b) - 1 - 1 + 1 : f[i] = b[1 + i - 1]
    BY <1>2, <2>1, SubSeqProperties
  <2> HIDE DEF f
  <2>3. Len(b) - 1 - 1 + 1 = Len(b) - 1 /\ \A i \in 1..Len(b) - 1 : 1 + i - 1 = i
    BY <1>1
  <2>6. Len(f) = IF 1 <= Len(b) - 1 THEN Len(b) - 1 - 1 + 1 ELSE 0
    BY <2>2
  <2>4. Len(f) = Len(b) - 1
    BY <1>1, <2>6, FrontLength, Zenon
  <2>5. ASSUME NEW i \in 1..Len(b) - 1 PROVE f[i] = b[i]
    <3>1. i \in 1..Len(b) - 1 - 1 + 1 /\ 1 + i - 1 = i
      BY <1>1
    <3> QED
      BY <2>2, <3>1
  <2> QED
    BY <2>2, <2>4, <2>5
<1> HIDE DEF f
<1>4. ASSUME NEW k \in 1..Len(f), IsAnswer(f[k]) PROVE Stands(f, k)
  <2>1. Stands(b, k)
    BY <1>1, <1>3, <1>4 DEF AllStand
  <2> QED
    BY <1>1, <1>3, <2>1, StandsAgree
<1> QED
  BY <1>3, <1>4 DEF AllStand, f

LEMMA IndexesFinite ==
  ASSUME NEW n \in Nat, NEW I, I \subseteq 1..n PROVE IsFiniteSet(I) /\ I \subseteq Nat
<1>1. IsFiniteSet(1..n)
  BY FS_Interval
<1>2. IsFiniteSet(I)
  BY <1>1, FS_Subset, Zenon
<1>3. I \subseteq Nat
  OBVIOUS
<1> QED
  BY <1>2, <1>3

(* load_support_history keeps to HistoryPairs and to the newest.           *)
LEMMA LastPairsOK ==
  ASSUME NEW n \in Nat, NEW pairs \in SUBSET (1..n)
  PROVE  ReplayOK(LastPairs(pairs), pairs)
<1> DEFINE after(k) == {j \in pairs : j > k}
           L == LastPairs(pairs)
<1>1. IsFiniteSet(pairs) /\ pairs \subseteq Nat
  BY IndexesFinite
<1>2. \A k : IsFiniteSet(after(k)) /\ Cardinality(after(k)) \in Nat
  BY <1>1, FS_Subset, FS_CardinalityType
<1>3. L \subseteq pairs /\ L \subseteq Nat /\ \A k \in L : Cardinality(after(k)) < HistoryPairs
  BY <1>1 DEF LastPairs
<1>4. ASSUME NEW j \in L, NEW i \in after(j) PROVE i \in L
  <2>1. after(i) \subseteq after(j) /\ i \in pairs
    <3>1. i \in pairs /\ i > j /\ i \in Nat /\ j \in Nat
      BY <1>1, <1>3, <1>4
    <3>2. \A x \in pairs : x > i => x > j
      BY <1>1, <3>1
    <3> QED
      BY <3>1, <3>2
  <2>2. Cardinality(after(i)) <= Cardinality(after(j))
    BY <1>2, <2>1, FS_Subset
  <2>3. Cardinality(after(i)) < HistoryPairs
    BY <1>2, <1>3, <2>2, CommandAssumption
  <2> QED
    BY <2>1, <2>3 DEF LastPairs
<1>5. Cardinality(L) <= HistoryPairs
  <2>1. CASE L = {}
    BY <2>1, FS_EmptySet, CommandAssumption
  <2>2. CASE L # {}
    <3>1. L \in SUBSET Nat
      BY <1>3
    <3> HIDE DEF L
    <3>2. PICK k \in L : \A m \in L : k <= m
      BY <2>2, <3>1, LeastNat
    <3>3. L \subseteq after(k) \cup {k}
      BY <1>3, <3>1, <3>2
    <3>4. Cardinality(after(k)) < HistoryPairs /\ Cardinality(after(k)) \in Nat /\ IsFiniteSet(after(k))
      BY <1>2, <1>3
    <3>5. k \notin after(k)
      BY <3>1
    <3> HIDE DEF after
    <3>6. IsFiniteSet(after(k) \cup {k}) /\ Cardinality(after(k) \cup {k}) = Cardinality(after(k)) + 1
      BY <3>4, <3>5, FS_AddElement
    <3>7. Cardinality(L) <= Cardinality(after(k) \cup {k})
      BY <3>3, <3>6, FS_Subset
    <3>8. IsFiniteSet(L) /\ Cardinality(L) \in Nat
      BY <3>3, <3>6, FS_Subset, FS_CardinalityType
    <3> QED
      BY <3>4, <3>6, <3>7, <3>8, CommandAssumption
  <2> QED
    BY <2>1, <2>2
<1> QED
  BY <1>3, <1>4, <1>5 DEF ReplayOK

(* So does what is left of them when they are too long. *)
LEMMA TrimmedOK ==
  ASSUME NEW n \in Nat, NEW pairs \in SUBSET (1..n), NEW replay \in Trimmed(LastPairs(pairs))
  PROVE  ReplayOK(replay, pairs) /\ replay \in SUBSET Nat
<1> DEFINE L == LastPairs(pairs)
<1>1. ReplayOK(L, pairs)
  BY LastPairsOK
<1>2. L \subseteq pairs /\ pairs \subseteq Nat /\ IsFiniteSet(pairs)
  BY IndexesFinite DEF LastPairs
<1> HIDE DEF L
<1>3. CASE replay = L
  BY <1>1, <1>2, <1>3
<1>4. ASSUME NEW k \in L, replay = {j \in L : j > k} PROVE ReplayOK(replay, pairs) /\ replay \in SUBSET Nat
  <2>1. IsFiniteSet(L) /\ replay \subseteq L
    BY <1>2, <1>4, FS_Subset
  <2>2. Cardinality(replay) <= Cardinality(L) /\ Cardinality(L) \in Nat /\ Cardinality(replay) \in Nat
    BY <2>1, FS_Subset, FS_CardinalityType
  <2>3. Cardinality(replay) <= HistoryPairs
    BY <1>1, <2>2, CommandAssumption DEF ReplayOK
  <2>4. ASSUME NEW j \in replay, NEW i \in pairs, i > j PROVE i \in replay
    <3>1. j \in L /\ j > k /\ j \in Nat /\ i \in Nat /\ k \in Nat
      BY <1>2, <1>4
    <3>2. i \in L
      BY <1>1, <2>4, <3>1 DEF ReplayOK
    <3> QED
      BY <1>4, <2>4, <3>1, <3>2
  <2> QED
    BY <1>2, <2>1, <2>3, <2>4 DEF ReplayOK
<1> QED
  BY <1>3, <1>4 DEF Trimmed, L

LEMMA NoTurnTyped == /\ NoTurn \in TurnTypes /\ NoTurn.at = "none" /\ NoTurn.shown = 0 /\ NoTurn.cmd = "plain"
                     /\ DOMAIN NoTurn = {"at", "cmd", "asked", "ticket", "replay", "lookup", "shown", "chosen", "missing",
                                         "tools", "warned", "fragments", "failed", "quotes"}
BY DEF NoTurn, TurnTypes, Stages

LEMMA MaxFits ==
  ASSUME NEW T \in SUBSET Nat, IsFiniteSet(T), T # {}
  PROVE  Max(T) \in T /\ \A m \in T : m <= Max(T)
<1> DEFINE Above(x) == {y \in T : y > x}
           Sizes == {Cardinality(Above(x)) : x \in T}
<1>1. \A x \in T : IsFiniteSet(Above(x)) /\ Cardinality(Above(x)) \in Nat
  BY FS_Subset, FS_CardinalityType
<1>2. Sizes \in SUBSET Nat /\ Sizes # {}
  BY <1>1
<1>3. PICK n \in Sizes : \A m \in Sizes : n <= m
  BY <1>2, LeastNat
<1>4. PICK x \in T : n = Cardinality(Above(x))
  OBVIOUS
<1>5. ASSUME NEW y \in T, y > x PROVE FALSE
  <2>0. x \in Nat /\ y \in Nat /\ \A z \in T : z \in Nat
    OBVIOUS
  <2>1. Above(y) \subseteq Above(x) /\ y \in Above(x) /\ y \notin Above(y)
    <3>1. \A z \in T : z > y => z > x
      BY <1>5, <2>0
    <3>2. y > x /\ ~(y > y)
      BY <1>5, <2>0
    <3> QED
      BY <3>1, <3>2
  <2>2. Cardinality(Above(y)) <= Cardinality(Above(x))
        /\ Cardinality(Above(y)) # Cardinality(Above(x))
    BY <1>1, <2>1, FS_Subset
  <2>3. n <= Cardinality(Above(y)) /\ n \in Nat /\ Cardinality(Above(y)) \in Nat
    BY <1>1, <1>2, <1>3
  <2> QED
    BY <1>4, <2>2, <2>3
<1>6. x \in T /\ \A y \in T : x >= y
  BY <1>5
<1>7. \E z \in T : \A y \in T : z >= y
  BY <1>6
<1>8. Max(T) \in T /\ \A y \in T : Max(T) >= y
  BY <1>7 DEF Max
<1> QED
  BY <1>8

(* A row as the settings show it. *)

LEMMA EntryTyped == ASSUME RowsTyped, NEW i \in DOMAIN servers PROVE Entry(i) \in Entries /\ Entry(i).id = i
BY DEF RowsTyped, Entry, Entries

(* The settings stay what they are, whatever is changed in them. *)
LEMMA ChangesKeep == ASSUME CommandInv, Change PROVE changes' \in 0..MaxChanges /\ turns' \in 0..MaxTurns
                                                     /\ branch' = branch /\ turn' = turn
BY CommandAssumption DEF CommandInv, RowsTyped, Change

LEMMA CreateKeeps == ASSUME CommandInv, NEW name \in ServerNames, CreateServer(name) PROVE RowsTyped'
<1> DEFINE id == IF DOMAIN servers = {} THEN 1 ELSE Max(DOMAIN servers) + 1
           rows == [i \in DOMAIN servers \cup {id} |->
                      IF i = id THEN [name |-> name, enabled |-> TRUE, made |-> changes + 2] ELSE servers[i]]
<1>1. RowsTyped /\ changes \in Nat
  BY CommandAssumption DEF CommandInv, RowsTyped
<1>2. id \in Nat
  <2>1. CASE DOMAIN servers = {}
    BY <2>1
  <2>2. CASE DOMAIN servers # {}
    <3>1. Max(DOMAIN servers) \in DOMAIN servers
      BY <1>1, <2>2, MaxFits DEF RowsTyped
    <3> QED
      BY <1>1, <2>2, <3>1 DEF RowsTyped
  <2> QED
    BY <2>1, <2>2
<1>3. servers' = rows /\ UNCHANGED <<marked, docBase, choices>>
  BY DEF CreateServer
<1> HIDE DEF id
<1>4. DOMAIN rows = DOMAIN servers \cup {id} /\ IsFiniteSet(DOMAIN servers \cup {id})
  BY <1>1, FS_AddElement DEF RowsTyped
<1>5. \A i \in DOMAIN rows : rows[i] \in [name : ServerNames, enabled : BOOLEAN, made : Nat]
  BY <1>1 DEF RowsTyped
<1>6. rows = [i \in DOMAIN rows |-> rows[i]]
  OBVIOUS
<1> HIDE DEF rows
<1>7. Change
  BY DEF CreateServer
<1> QED
  BY <1>1, <1>2, <1>3, <1>4, <1>5, <1>6, <1>7, ChangesKeep DEF RowsTyped

LEMMA DeleteKeeps == ASSUME CommandInv, NEW id \in DOMAIN servers, DeleteServer(id) PROVE RowsTyped'
<1> DEFINE rows == [i \in DOMAIN servers \ {id} |-> servers[i]]
<1>1. RowsTyped
  BY DEF CommandInv
<1>2. servers' = rows /\ UNCHANGED <<marked, docBase, choices>> /\ Change
  BY DEF DeleteServer
<1>3. DOMAIN rows = DOMAIN servers \ {id} /\ IsFiniteSet(DOMAIN servers \ {id})
  BY <1>1, FS_RemoveElement DEF RowsTyped
<1>4. \A i \in DOMAIN rows : rows[i] \in [name : ServerNames, enabled : BOOLEAN, made : Nat]
  BY <1>1 DEF RowsTyped
<1>5. rows = [i \in DOMAIN rows |-> rows[i]]
  OBVIOUS
<1> HIDE DEF rows
<1> QED
  BY <1>1, <1>2, <1>3, <1>4, <1>5, ChangesKeep DEF RowsTyped

LEMMA EnableKeeps == ASSUME CommandInv, NEW id \in DOMAIN servers, EnableServer(id) PROVE RowsTyped'
<1> DEFINE row == [servers[id] EXCEPT !.enabled = ~servers[id].enabled]
           rows == [servers EXCEPT ![id] = row]
<1>1. RowsTyped
  BY DEF CommandInv
<1>2. servers' = rows /\ UNCHANGED <<marked, docBase, choices>> /\ Change
  BY DEF EnableServer
<1>3. row \in [name : ServerNames, enabled : BOOLEAN, made : Nat]
  BY <1>1 DEF RowsTyped
<1> HIDE DEF row
<1>4. DOMAIN rows = DOMAIN servers
  OBVIOUS
<1>5. \A i \in DOMAIN rows : rows[i] \in [name : ServerNames, enabled : BOOLEAN, made : Nat]
  BY <1>1, <1>3 DEF RowsTyped
<1>6. rows = [i \in DOMAIN rows |-> rows[i]]
  BY <1>1 DEF RowsTyped
<1> HIDE DEF rows
<1> QED
  BY <1>1, <1>2, <1>4, <1>5, <1>6, ChangesKeep DEF RowsTyped

LEMMA PutKeeps == ASSUME CommandInv, NEW c \in Commands, PutServers(c) PROVE RowsTyped'
<1>1. RowsTyped
  BY DEF CommandInv
<1>2. PICK entries \in {NoChoice} \cup {{Entry(i) : i \in ids} : ids \in SUBSET DOMAIN servers} :
        choices' = [choices EXCEPT ![c] = entries]
  BY DEF PutServers
<1>3. entries = NoChoice \/ entries \subseteq Entries
  BY <1>1, EntryTyped
<1>4. DOMAIN choices' = Commands /\ \A d \in Commands : choices'[d] = NoChoice \/ choices'[d] \subseteq Entries
  BY <1>1, <1>2, <1>3 DEF RowsTyped
<1>5. UNCHANGED <<marked, docBase, servers>> /\ Change
  BY DEF PutServers
<1> QED
  BY <1>1, <1>4, <1>5, ChangesKeep DEF RowsTyped

LEMMA BaseKeeps == ASSUME CommandInv, BaseChanges \/ PutMark PROVE RowsTyped'
<1>1. RowsTyped
  BY DEF CommandInv
<1>2. UNCHANGED <<servers, choices>> /\ Change /\ marked' \in BOOLEAN /\ docBase' \in {"none", "indexing", "ready"}
  BY <1>1 DEF BaseChanges, PutMark, RowsTyped
<1> QED
  BY <1>1, <1>2, ChangesKeep DEF RowsTyped

(* What a change of the settings, the servers or the base comes to. *)
Settles ==
  \/ BaseChanges \/ PutMark
  \/ \E c \in Commands : PutServers(c)
  \/ \E n \in ServerNames : CreateServer(n)
  \/ \E i \in DOMAIN servers : DeleteServer(i) \/ EnableServer(i)

LEMMA SettlesKeeps == ASSUME CommandInv, Settles PROVE CommandInv'
<1>1. RowsTyped'
  BY BaseKeeps, PutKeeps, CreateKeeps, DeleteKeeps, EnableKeeps DEF Settles
<1>2. Change
  BY DEF Settles, BaseChanges, PutMark, PutServers, CreateServer, DeleteServer, EnableServer
<1>3. branch' = branch /\ turn' = turn
  BY <1>2 DEF Change
<1> QED
  BY <1>1, <1>3 DEF CommandInv, AllStand, TurnOK, Stands

-----------------------------------------------------------------------------
(* One field of the turn at a time. *)
LEMMA FieldsTyped ==
  ASSUME NEW t \in TurnTypes
  PROVE  /\ \A s \in Stages : [t EXCEPT !.at = s] \in TurnTypes
         /\ \A x \in SUBSET Nat : [t EXCEPT !.replay = x] \in TurnTypes
         /\ \A x \in {"none", "unavailable", "ok", "absent"} : [t EXCEPT !.lookup = x] \in TurnTypes
         /\ \A x \in Nat : [t EXCEPT !.shown = x] \in TurnTypes
         /\ \A x \in SUBSET Entries : [t EXCEPT !.chosen = x] \in TurnTypes /\ [t EXCEPT !.tools = x] \in TurnTypes
         /\ \A x \in SUBSET ServerLabels : [t EXCEPT !.missing = x] \in TurnTypes /\ [t EXCEPT !.warned = x] \in TurnTypes
         /\ \A x \in BOOLEAN : /\ [t EXCEPT !.fragments = x] \in TurnTypes /\ [t EXCEPT !.failed = x] \in TurnTypes
                               /\ [t EXCEPT !.asked = x] \in TurnTypes /\ [t EXCEPT !.ticket = x] \in TurnTypes
         /\ \A x \in {"none", "picked", "written"} : [t EXCEPT !.quotes = x] \in TurnTypes
         /\ \A x \in {"plain", "help", "support"} : [t EXCEPT !.cmd = x] \in TurnTypes
<1>1. \A s \in Stages : [t EXCEPT !.at = s] \in TurnTypes
  BY DEF TurnTypes
<1>2. \A x \in SUBSET Nat : [t EXCEPT !.replay = x] \in TurnTypes
  BY DEF TurnTypes
<1>3. \A x \in {"none", "unavailable", "ok", "absent"} : [t EXCEPT !.lookup = x] \in TurnTypes
  BY DEF TurnTypes
<1>4. \A x \in Nat : [t EXCEPT !.shown = x] \in TurnTypes
  BY DEF TurnTypes
<1>5. \A x \in SUBSET Entries : [t EXCEPT !.chosen = x] \in TurnTypes /\ [t EXCEPT !.tools = x] \in TurnTypes
  BY DEF TurnTypes
<1>6. \A x \in SUBSET ServerLabels : [t EXCEPT !.missing = x] \in TurnTypes /\ [t EXCEPT !.warned = x] \in TurnTypes
  BY DEF TurnTypes
<1>7. \A x \in BOOLEAN : [t EXCEPT !.fragments = x] \in TurnTypes /\ [t EXCEPT !.failed = x] \in TurnTypes
  BY DEF TurnTypes
<1>8. \A x \in BOOLEAN : [t EXCEPT !.asked = x] \in TurnTypes /\ [t EXCEPT !.ticket = x] \in TurnTypes
  BY DEF TurnTypes
<1>9. \A x \in {"none", "picked", "written"} : [t EXCEPT !.quotes = x] \in TurnTypes
  BY DEF TurnTypes
<1>10. \A x \in {"plain", "help", "support"} : [t EXCEPT !.cmd = x] \in TurnTypes
  BY DEF TurnTypes
<1> QED
  BY <1>1, <1>2, <1>3, <1>4, <1>5, <1>6, <1>7, <1>8, <1>9, <1>10

(* The rest of a step that leaves the settings alone. *)
LEMMA StepKeeps ==
  ASSUME CommandInv, UNCHANGED <<settings, changes>>, turns' \in 0..MaxTurns PROVE RowsTyped'
BY DEF CommandInv, RowsTyped, settings

(* A step within a turn. *)
LEMMA WithinTurn ==
  ASSUME CommandInv, NEW next, Step(next), TurnOK' PROVE CommandInv'
<1>1. branch' = branch /\ UNCHANGED <<settings, changes>> /\ turns' \in 0..MaxTurns
  BY DEF CommandInv, RowsTyped, Step
<1>2. RowsTyped'
  BY <1>1, StepKeeps
<1> QED
  BY <1>1, <1>2 DEF CommandInv, AllStand, Stands

LEMMA TurnEnds == ASSUME turn' = NoTurn PROVE TurnOK'
<1> DEFINE t == NoTurn
<1>1. t \in TurnTypes /\ t.at = "none" /\ t.shown = 0
  BY NoTurnTyped
<1> HIDE DEF t
<1>2. turn' = t
  BY DEF t
<1> QED
  BY <1>1, <1>2 DEF TurnOK, Stored

LEMMA EarlyStep ==
  ASSUME CommandInv, NEW s \in {"locked", "loading", "storing"}, turn.at # "none", turn.at # "answering", turn' = Goes(s)
  PROVE  TurnOK'
<1>1. turn \in TurnTypes /\ turn.cmd \in Commands /\ turn.shown = 0
  BY DEF CommandInv, TurnOK
<1>2. turn' \in TurnTypes
  BY <1>1, FieldsTyped DEF Goes, Stages
<1>3. turn'.at = s /\ turn'.cmd = turn.cmd /\ turn'.shown = 0
  BY <1>1 DEF Goes, TurnTypes
<1> QED
  BY <1>1, <1>2, <1>3 DEF TurnOK, Stored

LEMMA ChecksKeep == ASSUME CommandInv, SocketChecks \/ LockChecks \/ LoadsBase \/ SearchBreaks PROVE CommandInv'
<1>1. PICK next : Step(next) /\ turn' = next /\ (next = NoTurn \/ \E s \in {"locked", "loading", "storing"} : next = Goes(s))
                  /\ turn.at \in {"socket", "locked", "loading", "search"}
  BY DEF SocketChecks, LockChecks, LoadsBase, SearchBreaks, At, Step
<1>2. TurnOK'
  BY <1>1, TurnEnds, EarlyStep
<1> QED
  BY <1>1, <1>2, WithinTurn

LEMMA SendsKeep ==
  ASSUME CommandInv, NEW cmd \in Commands, NEW asked \in BOOLEAN, NEW ticket \in BOOLEAN,
         NEW at \in {"socket", "locked"}, Sends(cmd, asked, ticket, at)
  PROVE  CommandInv'
<1>1. branch' = branch /\ UNCHANGED <<settings, changes>> /\ turns' \in 0..MaxTurns
  BY CommandAssumption DEF Sends, CommandInv, RowsTyped
<1>2. RowsTyped'
  BY <1>1, StepKeeps
<1> DEFINE t0 == NoTurn
           t1 == [t0 EXCEPT !.at = at]
           t2 == [t1 EXCEPT !.cmd = cmd]
           t3 == [t2 EXCEPT !.asked = asked]
           t4 == [t3 EXCEPT !.ticket = ticket]
<1>3. turn' = t4
  BY DEF Sends
<1>4. t0 \in TurnTypes /\ t0.shown = 0
  BY NoTurnTyped
<1> HIDE DEF t0
<1>5. t1 \in TurnTypes /\ t1.at = at /\ t1.shown = 0
  <2>1. t1 \in TurnTypes
    BY <1>4, FieldsTyped DEF Stages
  <2>2. t1.at = at /\ t1.shown = 0
    BY <1>4 DEF TurnTypes
  <2> QED
    BY <2>1, <2>2
<1> HIDE DEF t1
<1>6. t2 \in TurnTypes /\ t2.at = at /\ t2.cmd = cmd /\ t2.shown = 0
  <2>1. t2 \in TurnTypes
    BY <1>5, FieldsTyped DEF Commands
  <2>2. t2.at = at /\ t2.cmd = cmd /\ t2.shown = 0
    BY <1>5 DEF TurnTypes
  <2> QED
    BY <2>1, <2>2
<1> HIDE DEF t2
<1>7. t3 \in TurnTypes /\ t3.at = at /\ t3.cmd = cmd /\ t3.shown = 0
  <2>1. t3 \in TurnTypes
    BY <1>6, FieldsTyped
  <2>2. t3.at = at /\ t3.cmd = cmd /\ t3.shown = 0
    BY <1>6 DEF TurnTypes
  <2> QED
    BY <2>1, <2>2
<1> HIDE DEF t3
<1>8. t4 \in TurnTypes /\ t4.at = at /\ t4.cmd = cmd /\ t4.shown = 0
  <2>1. t4 \in TurnTypes
    BY <1>7, FieldsTyped
  <2>2. t4.at = at /\ t4.cmd = cmd /\ t4.shown = 0
    BY <1>7 DEF TurnTypes
  <2> QED
    BY <2>1, <2>2
<1> HIDE DEF t4
<1>9. TurnOK'
  BY <1>3, <1>8 DEF TurnOK, Stored
<1> QED
  BY <1>1, <1>2, <1>9 DEF CommandInv, AllStand, Stands

(* A message of an ordinary turn is no answer of a command. *)
LEMMA PlainKeeps == ASSUME CommandInv, PlainTurn PROVE CommandInv'
<1> DEFINE t == NoTurn
           u == [role |-> "user", turn |-> t]
           a == [role |-> "assistant", turn |-> t]
<1>1. t \in TurnTypes /\ t.cmd = "plain" /\ t.at = "none"
  BY NoTurnTyped
<1>2. branch' = branch \o <<u, a>> /\ turn' = NoTurn /\ UNCHANGED <<settings, changes>> /\ turns' \in 0..MaxTurns
  BY CommandAssumption DEF PlainTurn, CommandInv, RowsTyped
<1> HIDE DEF t
<1>3. u \in Messages /\ a \in Messages /\ ~IsAnswer(u) /\ ~IsAnswer(a)
  BY <1>1 DEF Messages, IsAnswer, Commands
<1> HIDE DEF u, a
<1>4. branch \in Seq(Messages) /\ AllStand(branch)
  BY DEF CommandInv
<1>5. Append(branch, u) \in Seq(Messages) /\ AllStand(Append(branch, u))
  BY <1>3, <1>4, AppendStands
<1>6. Append(Append(branch, u), a) \in Seq(Messages) /\ AllStand(Append(Append(branch, u), a))
  <2> DEFINE b == Append(branch, u)
  <2>1. b \in Seq(Messages) /\ AllStand(b)
    BY <1>5
  <2> HIDE DEF b
  <2>2. Append(b, a) \in Seq(Messages) /\ AllStand(Append(b, a))
    BY <1>3, <2>1, AppendStands
  <2> QED
    BY <2>2 DEF b
<1>7. branch' = Append(Append(branch, u), a)
  <2>1. branch \o <<u, a>> = Append(Append(branch, u), a)
    BY <1>3, <1>4
  <2> QED
    BY <1>2, <2>1
<1>8. RowsTyped'
  BY <1>2, StepKeeps
<1>9. TurnOK'
  BY <1>2, TurnEnds
<1> QED
  BY <1>6, <1>7, <1>8, <1>9 DEF CommandInv

(* A step of a turn whose question is stored. *)
LEMMA StoredStep ==
  ASSUME CommandInv, NEW t \in TurnTypes, turn.at \in Stored, t.at \in Stored, t.cmd = turn.cmd, t.replay = turn.replay,
         t.shown = (IF t.at = "answering" /\ t.lookup = "ok" THEN 1 ELSE 0),
         t.at \in {"search", "answering"} => Accounted(t), Step(t)
  PROVE  CommandInv'
<1>1. turn' = t /\ branch' = branch
  BY DEF Step
<1>2. TurnOK'
  BY <1>1 DEF CommandInv, TurnOK, Stored
<1> QED
  BY <1>2, WithinTurn

LEMMA LooksUpKeeps == ASSUME CommandInv, LooksUp PROVE CommandInv'
<1> DEFINE t1 == Goes("choosing")
<1>1. PICK outcome \in {"none", "unavailable", "ok", "absent"} : Step([t1 EXCEPT !.lookup = outcome])
  BY DEF LooksUp
<1>2. turn \in TurnTypes /\ turn.at = "lookup" /\ turn.shown = 0
  BY DEF LooksUp, At, CommandInv, TurnOK
<1>3. t1 \in TurnTypes
  BY <1>2, FieldsTyped DEF Stages, Goes
<1>4. t1.at = "choosing" /\ t1.cmd = turn.cmd /\ t1.replay = turn.replay /\ t1.shown = 0
  BY <1>2 DEF TurnTypes, Goes
<1> HIDE DEF t1
<1> DEFINE t2 == [t1 EXCEPT !.lookup = outcome]
<1>5. t2 \in TurnTypes
  BY <1>3, FieldsTyped
<1>6. t2.at = "choosing" /\ t2.cmd = turn.cmd /\ t2.replay = turn.replay /\ t2.shown = 0
  BY <1>3, <1>4 DEF TurnTypes
<1>7. Step(t2)
  BY <1>1
<1> HIDE DEF t2
<1> QED
  BY <1>2, <1>5, <1>6, <1>7, StoredStep DEF Stored

LEMMA ChoosesKeeps == ASSUME CommandInv, Chooses PROVE CommandInv'
<1> DEFINE c == turn.cmd
           entries == IF choices[c] = NoChoice THEN DefaultChoice(c)
                      ELSE {[e EXCEPT !.name = servers[e.id].name] : e \in {e \in choices[c] : e.id \in DOMAIN servers}}
           gone == IF choices[c] # NoChoice THEN {e.name : e \in {e \in choices[c] : e.id \notin DOMAIN servers}}
                   ELSE IF entries = {} THEN {DefaultServer[c]} ELSE {}
           t1 == Goes("connecting")
           t2 == [t1 EXCEPT !.chosen = entries]
           t3 == [t2 EXCEPT !.missing = gone]
<1>1. Step(t3)
  BY DEF Chooses
<1>2. turn \in TurnTypes /\ turn.at = "choosing" /\ turn.shown = 0 /\ c \in Commands /\ RowsTyped
  BY DEF Chooses, At, CommandInv, TurnOK
<1>3. entries \subseteq Entries
  <2>1. CASE choices[c] = NoChoice
    BY <1>2, <2>1, EntryTyped DEF DefaultChoice
  <2>2. CASE choices[c] # NoChoice
    <3>1. choices[c] \subseteq Entries
      BY <1>2, <2>2 DEF RowsTyped
    <3>2. \A e \in choices[c] : e.id \in DOMAIN servers => [e EXCEPT !.name = servers[e.id].name] \in Entries
      BY <1>2, <3>1 DEF RowsTyped, Entries
    <3> QED
      BY <2>2, <3>2
  <2> QED
    BY <2>1, <2>2
<1>4. gone \subseteq ServerLabels
  <2>1. CASE choices[c] = NoChoice
    BY <1>2, <2>1 DEF ServerLabels, DefaultServer, Commands
  <2>2. CASE choices[c] # NoChoice
    <3>1. choices[c] \subseteq Entries
      BY <1>2, <2>2 DEF RowsTyped
    <3> QED
      BY <2>2, <3>1 DEF Entries, ServerLabels
  <2> QED
    BY <2>1, <2>2
<1> HIDE DEF entries, gone, c
<1>5. t1 \in TurnTypes
  BY <1>2, FieldsTyped DEF Stages, Goes
<1>6. t1.at = "connecting" /\ t1.cmd = turn.cmd /\ t1.replay = turn.replay /\ t1.shown = 0
  BY <1>2 DEF TurnTypes, Goes
<1> HIDE DEF t1
<1>7. t2 \in TurnTypes
  BY <1>3, <1>5, FieldsTyped
<1>8. t2.at = "connecting" /\ t2.cmd = turn.cmd /\ t2.replay = turn.replay /\ t2.shown = 0
  BY <1>5, <1>6 DEF TurnTypes
<1> HIDE DEF t2
<1>9. t3 \in TurnTypes
  BY <1>4, <1>7, FieldsTyped
<1>10. t3.at = "connecting" /\ t3.cmd = turn.cmd /\ t3.replay = turn.replay /\ t3.shown = 0
  BY <1>7, <1>8 DEF TurnTypes
<1> HIDE DEF t3
<1> QED
  BY <1>1, <1>2, <1>9, <1>10, StoredStep DEF Stored

LEMMA ConnectsKeeps == ASSUME CommandInv, Connects PROVE CommandInv'
<1>1. PICK live \in SUBSET {i \in DOMAIN servers : servers[i].enabled /\ \E e \in turn.chosen : e.id = i} :
        Step([Goes("search") EXCEPT !.tools = {Entry(i) : i \in live}, !.warned = Unavailable(live)])
  BY DEF Connects
<1> DEFINE given == {Entry(i) : i \in live}
           named == Unavailable(live)
           t1 == Goes("search")
           t2 == [t1 EXCEPT !.tools = given]
           t3 == [t2 EXCEPT !.warned = named]
<1>2. Step(t3)
  BY <1>1
<1>3. turn \in TurnTypes /\ turn.at = "connecting" /\ turn.shown = 0 /\ RowsTyped
  BY DEF Connects, At, CommandInv, TurnOK
<1>4. turn.chosen \subseteq Entries /\ turn.missing \subseteq ServerLabels
  BY <1>3 DEF TurnTypes
<1>5. given \subseteq Entries
  BY <1>3, EntryTyped
<1>6. named \subseteq ServerLabels /\ turn.missing \subseteq named
  BY <1>4 DEF Unavailable, Names, Entries, ServerLabels
<1>7. \A e \in turn.chosen : e.name \in named \/ \E s \in given : s.id = e.id
  <2>1. ASSUME NEW e \in turn.chosen, e.id \in live PROVE \E s \in given : s.id = e.id
    BY <1>3, <2>1, EntryTyped
  <2> QED
    BY <2>1 DEF Unavailable, Names
<1>8. \A s \in given : \E e \in turn.chosen : e.id = s.id
  BY <1>3, EntryTyped
<1> HIDE DEF given, named
<1>9. t1 \in TurnTypes
  BY <1>3, FieldsTyped DEF Stages, Goes
<1>10. /\ t1.at = "search" /\ t1.cmd = turn.cmd /\ t1.replay = turn.replay /\ t1.shown = 0
       /\ t1.chosen = turn.chosen /\ t1.missing = turn.missing
  BY <1>3 DEF TurnTypes, Goes
<1> HIDE DEF t1
<1>11. t2 \in TurnTypes
  BY <1>5, <1>9, FieldsTyped
<1>12. /\ t2.at = "search" /\ t2.cmd = turn.cmd /\ t2.replay = turn.replay /\ t2.shown = 0
       /\ t2.chosen = turn.chosen /\ t2.missing = turn.missing /\ t2.tools = given
  BY <1>9, <1>10 DEF TurnTypes
<1> HIDE DEF t2
<1>13. t3 \in TurnTypes
  BY <1>6, <1>11, FieldsTyped
<1>14. /\ t3.at = "search" /\ t3.cmd = turn.cmd /\ t3.replay = turn.replay /\ t3.shown = 0
       /\ t3.chosen = turn.chosen /\ t3.missing = turn.missing /\ t3.tools = given /\ t3.warned = named
  BY <1>11, <1>12 DEF TurnTypes
<1> HIDE DEF t3
<1>15. Accounted(t3)
  BY <1>6, <1>7, <1>8, <1>14 DEF Accounted
<1> QED
  BY <1>2, <1>3, <1>13, <1>14, <1>15, StoredStep DEF Stored

LEMMA SearchKeeps == ASSUME CommandInv, SearchFinds \/ SearchFails PROVE CommandInv'
<1> DEFINE t1 == Goes("answering")
<1>1. turn \in TurnTypes /\ turn.at = "search" /\ turn.shown = 0 /\ Accounted(turn)
  BY DEF SearchFinds, SearchFails, At, CommandInv, TurnOK
<1>2. Merged = (IF turn.lookup = "ok" THEN 1 ELSE 0) /\ Merged \in Nat
  BY <1>1 DEF Merged
<1>3. t1 \in TurnTypes
  BY <1>1, FieldsTyped DEF Stages, Goes
<1>4. /\ t1.at = "answering" /\ t1.cmd = turn.cmd /\ t1.replay = turn.replay /\ t1.lookup = turn.lookup
      /\ t1.chosen = turn.chosen /\ t1.missing = turn.missing /\ t1.tools = turn.tools /\ t1.warned = turn.warned
  BY <1>1 DEF TurnTypes, Goes
<1>5. PICK t2 : /\ Step([t2 EXCEPT !.shown = Merged])
                /\ (\E x \in BOOLEAN : t2 = [t1 EXCEPT !.fragments = x]) \/ (\E x \in BOOLEAN : t2 = [t1 EXCEPT !.failed = x])
  BY DEF SearchFinds, SearchFails
<1> HIDE DEF t1
<1>6. t2 \in TurnTypes
  BY <1>3, <1>5, FieldsTyped
<1>7. /\ t2.at = "answering" /\ t2.cmd = turn.cmd /\ t2.replay = turn.replay /\ t2.lookup = turn.lookup
      /\ t2.chosen = turn.chosen /\ t2.missing = turn.missing /\ t2.tools = turn.tools /\ t2.warned = turn.warned
  BY <1>3, <1>4, <1>5 DEF TurnTypes
<1> DEFINE t4 == [t2 EXCEPT !.shown = Merged]
<1>8. t4 \in TurnTypes
  BY <1>2, <1>6, FieldsTyped
<1>9. /\ t4.at = "answering" /\ t4.cmd = turn.cmd /\ t4.replay = turn.replay /\ t4.lookup = turn.lookup
      /\ t4.chosen = turn.chosen /\ t4.missing = turn.missing /\ t4.tools = turn.tools /\ t4.warned = turn.warned
      /\ t4.shown = Merged
  BY <1>6, <1>7 DEF TurnTypes
<1>10. Step(t4)
  BY <1>5
<1> HIDE DEF t4
<1>11. Accounted(t4)
  BY <1>1, <1>9 DEF Accounted
<1> QED
  BY <1>1, <1>2, <1>8, <1>9, <1>10, <1>11, StoredStep DEF Stored

(* The pairs of a branch that ends in a new question are those before it. *)
LEMMA StoresKeeps == ASSUME CommandInv, StoresQuestion PROVE CommandInv'
<1> DEFINE n == Len(branch)
           t0 == NoTurn
           t1 == [t0 EXCEPT !.cmd = turn.cmd]
           t2 == [t1 EXCEPT !.ticket = turn.ticket]
           q == [role |-> "user", turn |-> t2]
           b == Append(branch, q)
           pairs == PairsUpTo(branch, n)
           g == Goes("lookup")
<1>1. /\ turn \in TurnTypes /\ turn.at = "storing" /\ turn.shown = 0 /\ turn.cmd \in Commands
      /\ branch \in Seq(Messages) /\ AllStand(branch) /\ n \in Nat
  BY DEF StoresQuestion, At, CommandInv, TurnOK
<1>2. turn.ticket \in BOOLEAN /\ turn.cmd \in {"plain", "help", "support"}
  BY <1>1 DEF TurnTypes
<1>3. PICK replay \in (IF turn.cmd = "support" THEN Trimmed(LastPairs(SupportPairs(branch))) ELSE {{}}) :
        turn' = [Goes("lookup") EXCEPT !.replay = replay]
  BY DEF StoresQuestion
<1>4. SupportPairs(branch) = pairs /\ pairs \in SUBSET (1..n)
  BY <1>1 DEF SupportPairs, PairsUpTo
<1>5. branch' = b /\ UNCHANGED <<settings, changes>> /\ turns' \in 0..MaxTurns
  BY DEF StoresQuestion, Question, CommandInv, RowsTyped
<1> HIDE DEF pairs
<1>6. ReplayOK(replay, pairs) /\ replay \in SUBSET Nat
  <2>1. CASE turn.cmd = "support"
    <3>1. replay \in Trimmed(LastPairs(pairs))
      BY <1>3, <1>4, <2>1
    <3> QED
      BY <1>1, <1>4, <3>1, TrimmedOK
  <2>2. CASE turn.cmd # "support"
    <3>1. replay = {} /\ Cardinality({}) = 0
      BY <1>3, <2>2, FS_EmptySet
    <3> QED
      BY <3>1, CommandAssumption DEF ReplayOK
  <2> QED
    BY <2>1, <2>2
<1>7. t0 \in TurnTypes
  BY NoTurnTyped
<1> HIDE DEF t0
<1>8. t1 \in TurnTypes
  BY <1>2, <1>7, FieldsTyped
<1>9. t1.cmd = turn.cmd
  BY <1>7 DEF TurnTypes
<1> HIDE DEF t1
<1>10. t2 \in TurnTypes
  BY <1>2, <1>8, FieldsTyped
<1>11. t2.cmd = turn.cmd
  BY <1>8, <1>9 DEF TurnTypes
<1> HIDE DEF t2
<1>12. q \in Messages /\ ~IsAnswer(q) /\ q.role = "user" /\ q.turn.cmd = turn.cmd
  BY <1>10, <1>11 DEF Messages, IsAnswer
<1> HIDE DEF q
<1>13. b \in Seq(Messages) /\ AllStand(b)
  BY <1>1, <1>12, AppendStands
<1>14. b # <<>> /\ Len(b) = n + 1 /\ b[n + 1] = q /\ Len(b) - 1 = n /\ \A k \in 1..n : branch[k] = b[k]
  BY <1>1, <1>12
<1>15. PairsUpTo(b, n) = pairs
  <2>1. n \in Int /\ \A k \in 1..n : branch[k] = b[k]
    BY <1>1, <1>14
  <2> HIDE DEF b, n
  <2>2. PairsUpTo(branch, n) = PairsUpTo(b, n)
    BY <2>1, PairsAgree
  <2> QED
    BY <2>2 DEF pairs
<1>16. g \in TurnTypes
  BY <1>1, FieldsTyped DEF Stages, Goes
<1>17. g.at = "lookup" /\ g.cmd = turn.cmd /\ g.shown = 0
  BY <1>1 DEF TurnTypes, Goes
<1>18. turn' = [g EXCEPT !.replay = replay]
  BY <1>3
<1> HIDE DEF g
<1> DEFINE t == [g EXCEPT !.replay = replay]
<1>19. t \in TurnTypes
  BY <1>6, <1>16, FieldsTyped
<1>20. t.at = "lookup" /\ t.cmd = turn.cmd /\ t.shown = 0 /\ t.replay = replay
  BY <1>16, <1>17 DEF TurnTypes
<1>21. turn' = t
  BY <1>18
<1> HIDE DEF t, b, n
<1>22. TurnOK'
  BY <1>1, <1>5, <1>6, <1>12, <1>14, <1>15, <1>19, <1>20, <1>21 DEF TurnOK, Stored
<1>23. RowsTyped'
  BY <1>5, StepKeeps
<1> QED
  BY <1>5, <1>13, <1>22, <1>23 DEF CommandInv

LEMMA FailsKeeps == ASSUME CommandInv, ModelFails PROVE CommandInv'
<1>1. branch # <<>> /\ branch \in Seq(Messages) /\ AllStand(branch)
  BY DEF ModelFails, At, CommandInv, TurnOK, Stored
<1>2. SubSeq(branch, 1, Len(branch) - 1) \in Seq(Messages) /\ AllStand(SubSeq(branch, 1, Len(branch) - 1))
  BY <1>1, FrontStands
<1>3. branch' = SubSeq(branch, 1, Len(branch) - 1) /\ UNCHANGED <<settings, changes>> /\ turns' \in 0..MaxTurns /\ TurnOK'
  BY TurnEnds DEF ModelFails, CommandInv, RowsTyped
<1> QED
  BY <1>2, <1>3, StepKeeps DEF CommandInv

LEMMA AnswersKeeps == ASSUME CommandInv, ModelAnswers PROVE CommandInv'
<1> DEFINE n == Len(branch)
<1>1. PICK quotes \in (IF turn.fragments THEN {"none", "picked", "written"} ELSE {"none"}), called \in BOOLEAN :
        branch' = Append(branch, Answer([turn EXCEPT !.quotes = Finalized(quotes, called \/ turn.lookup = "ok")]))
  BY DEF ModelAnswers
<1> DEFINE kept == Finalized(quotes, called \/ turn.lookup = "ok")
           t1 == [turn EXCEPT !.quotes = kept]
           t2 == [t1 EXCEPT !.at = "done"]
           a == [role |-> "assistant", turn |-> t2]
           b == Append(branch, a)
<1>2. /\ turn \in TurnTypes /\ turn.at = "answering" /\ turn.cmd \in Commands /\ Accounted(turn)
      /\ turn.shown = IF turn.lookup = "ok" THEN 1 ELSE 0
      /\ branch # <<>> /\ branch[n].role = "user" /\ branch[n].turn.cmd = turn.cmd
      /\ ReplayOK(turn.replay, PairsUpTo(branch, n - 1))
      /\ branch \in Seq(Messages) /\ AllStand(branch)
  BY DEF ModelAnswers, At, CommandInv, TurnOK, Stored
<1>3. kept \in {"none", "picked", "written"} /\ (kept = "picked" => turn.fragments /\ turn.lookup # "ok")
  BY <1>1 DEF Finalized
<1>4. branch' = b /\ UNCHANGED <<settings, changes>> /\ turns' \in 0..MaxTurns /\ turn' = NoTurn
  BY <1>1 DEF ModelAnswers, CommandInv, RowsTyped, Answer
<1> HIDE DEF kept
<1>5. t1 \in TurnTypes
  BY <1>2, <1>3, FieldsTyped
<1>6. /\ t1.cmd = turn.cmd /\ t1.replay = turn.replay /\ t1.lookup = turn.lookup /\ t1.shown = turn.shown
      /\ t1.fragments = turn.fragments /\ t1.quotes = kept
  BY <1>2 DEF TurnTypes
<1>7. t1.chosen = turn.chosen /\ t1.missing = turn.missing /\ t1.tools = turn.tools /\ t1.warned = turn.warned
  BY <1>2 DEF TurnTypes
<1> HIDE DEF t1
<1>8. t2 \in TurnTypes
  BY <1>5, FieldsTyped DEF Stages
<1>9. /\ t2.cmd = turn.cmd /\ t2.replay = turn.replay /\ t2.lookup = turn.lookup /\ t2.shown = turn.shown
      /\ t2.fragments = turn.fragments /\ t2.quotes = kept
  BY <1>5, <1>6 DEF TurnTypes
<1>10. t2.chosen = turn.chosen /\ t2.missing = turn.missing /\ t2.tools = turn.tools /\ t2.warned = turn.warned
  BY <1>5, <1>7 DEF TurnTypes
<1> HIDE DEF t2
<1>11. Accounted(t2)
  BY <1>2, <1>10 DEF Accounted
<1>12. a \in Messages /\ a.turn = t2
  BY <1>8 DEF Messages
<1> HIDE DEF a
<1>13. n \in Nat /\ n >= 1
  BY <1>2
<1>14. b[n + 1] = a /\ b[(n + 1) - 1] = branch[n] /\ \A k \in 1..n : branch[k] = b[k]
  BY <1>2, <1>12, <1>13
<1>15. n + 1 > 1 /\ (n + 1) - 2 = n - 1 /\ (n + 1) - 1 = n
  BY <1>13
<1>16. PairsUpTo(b, (n + 1) - 2) = PairsUpTo(branch, n - 1)
  <2>1. n - 1 \in Int /\ \A k \in 1..n - 1 : branch[k] = b[k]
    BY <1>13, <1>14
  <2>2. PairsUpTo(branch, n - 1) = PairsUpTo(b, n - 1)
    BY <2>1, PairsAgree
  <2> QED
    BY <1>15, <2>2
<1>17. Stands(b, n + 1)
  <2> DEFINE m == n + 1
  <2> HIDE DEF b
  <2>0. b[m - 1] = branch[n]
    BY <1>14, Zenon
  <2>1. m > 1 /\ b[m] = a /\ b[m].turn = t2 /\ b[m - 1] = branch[n]
    BY <1>12, <1>14, <1>15, <2>0, Zenon
  <2>2. PairsUpTo(b, m - 2) = PairsUpTo(branch, n - 1)
    BY <1>16
  <2> HIDE DEF m, n
  <2>3. b[m - 1].role = "user" /\ b[m - 1].turn.cmd = b[m].turn.cmd
    BY <1>2, <1>9, <2>1
  <2>4. Accounted(b[m].turn) /\ b[m].turn.shown = IF b[m].turn.lookup = "ok" THEN 1 ELSE 0
    BY <1>2, <1>9, <1>11, <2>1
  <2>5. b[m].turn.quotes = "picked" => b[m].turn.fragments /\ b[m].turn.lookup # "ok"
    BY <1>3, <1>9, <2>1
  <2>6. ReplayOK(b[m].turn.replay, PairsUpTo(b, m - 2))
    BY <1>2, <1>9, <2>1, <2>2
  <2>7. Stands(b, m)
    BY <2>1, <2>3, <2>4, <2>5, <2>6 DEF Stands
  <2> QED
    BY <2>7 DEF m
<1>18. b \in Seq(Messages) /\ AllStand(b)
  BY <1>2, <1>12, <1>17, AppendStands
<1>19. RowsTyped' /\ TurnOK'
  BY <1>4, StepKeeps, TurnEnds
<1> HIDE DEF b
<1> QED
  BY <1>4, <1>18, <1>19 DEF CommandInv

LEMMA CommandStarts == CommandInit => CommandInv
<1> SUFFICES ASSUME CommandInit PROVE CommandInv
  OBVIOUS
<1>1. branch \in Seq(Messages) /\ AllStand(branch)
  <2>1. branch = <<>> /\ <<>> \in Seq(Messages) /\ Len(<<>>) = 0
    BY DEF CommandInit
  <2> QED
    BY <2>1 DEF AllStand
<1>2. TurnOK
  BY NoTurnTyped DEF CommandInit, TurnOK, Stored
<1>3. RowsTyped
  <2>1. /\ DOMAIN servers \subseteq 1..1 /\ servers = [i \in DOMAIN servers |-> servers[i]]
        /\ \A i \in DOMAIN servers : servers[i] \in [name : ServerNames, enabled : BOOLEAN, made : Nat]
    <3>1. CASE servers = <<>>
      BY <3>1
    <3>2. ASSUME NEW n \in ServerNames, servers = <<[name |-> n, enabled |-> TRUE, made |-> 1]>> 
           PROVE  /\ DOMAIN servers \subseteq 1..1 /\ servers = [i \in DOMAIN servers |-> servers[i]]
                  /\ \A i \in DOMAIN servers : servers[i] \in [name : ServerNames, enabled : BOOLEAN, made : Nat]
      <4> DEFINE row == [name |-> n, enabled |-> TRUE, made |-> 1]
      <4>1. row \in [name : ServerNames, enabled : BOOLEAN, made : Nat]
        OBVIOUS
      <4>2. servers = <<row>>
        BY <3>2
      <4> HIDE DEF row
      <4>3. DOMAIN servers = 1..1 /\ servers[1] = row
        BY <4>2
      <4>4. servers = [i \in DOMAIN servers |-> servers[i]]
        BY <4>2
      <4> QED
        BY <4>1, <4>3, <4>4
    <3> QED
      BY <3>1, <3>2 DEF CommandInit
  <2>2. DOMAIN servers \subseteq Nat /\ IsFiniteSet(DOMAIN servers)
    BY <2>1, IndexesFinite
  <2> QED
    BY <2>1, <2>2, CommandAssumption DEF CommandInit, RowsTyped
<1> QED
  BY <1>1, <1>2, <1>3 DEF CommandInv

LEMMA CommandStutters == ASSUME CommandInv, UNCHANGED commandVars PROVE CommandInv'
BY DEF commandVars, CommandInv, RowsTyped, AllStand, Stands, TurnOK

LEMMA CommandStep == ASSUME CommandInv, [CommandNext]_commandVars PROVE CommandInv'
<1>1. CASE Settles
  BY <1>1, SettlesKeeps
<1>2. CASE PlainTurn
  BY <1>2, PlainKeeps
<1>3. CASE \E cmd \in Commands, asked \in BOOLEAN, ticket \in BOOLEAN, at \in {"socket", "locked"} : Sends(cmd, asked, ticket, at)
  BY <1>3, SendsKeep
<1>4. CASE SocketChecks \/ LockChecks \/ LoadsBase \/ SearchBreaks
  BY <1>4, ChecksKeep
<1>5. CASE StoresQuestion
  BY <1>5, StoresKeeps
<1>6. CASE LooksUp
  BY <1>6, LooksUpKeeps
<1>7. CASE Chooses
  BY <1>7, ChoosesKeeps
<1>8. CASE Connects
  BY <1>8, ConnectsKeeps
<1>9. CASE SearchFinds \/ SearchFails
  BY <1>9, SearchKeeps
<1>10. CASE ModelFails
  BY <1>10, FailsKeeps
<1>11. CASE ModelAnswers
  BY <1>11, AnswersKeeps
<1>12. CASE UNCHANGED commandVars
  BY <1>12, CommandStutters
<1> QED
  BY <1>1, <1>2, <1>3, <1>4, <1>5, <1>6, <1>7, <1>8, <1>9, <1>10, <1>11, <1>12 DEF CommandNext, Settles

(* The invariant is what the property says of every answer. *)
LEMMA CommandTyped == ASSUME CommandInv PROVE CommandTypeOK
<1>1. \A i \in DOMAIN servers : Entry(i) \in Entries /\ servers[i].enabled \in BOOLEAN
  BY EntryTyped DEF CommandInv, RowsTyped
<1>2. DOMAIN turn = DOMAIN NoTurn
  BY NoTurnTyped DEF CommandInv, TurnOK, TurnTypes
<1>3. \A k \in DOMAIN branch : branch[k] \in Messages
  BY DEF CommandInv
<1>4. \A m \in Messages : m.role \in {"user", "assistant"} /\ DOMAIN m.turn = DOMAIN NoTurn
  BY NoTurnTyped DEF Messages, TurnTypes
<1>5. RowsTyped
  BY DEF CommandInv
<1> QED
  BY <1>1, <1>2, <1>3, <1>4, <1>5 DEF CommandTypeOK, RowsTyped

LEMMA CommandHolds == ASSUME CommandInv PROVE CommandSound
<1>1. branch \in Seq(Messages) /\ Len(branch) \in Nat
  BY DEF CommandInv
<1>2. \A k \in Answers : k \in 1..Len(branch) /\ Stands(branch, k)
  BY <1>1 DEF CommandInv, AllStand, IsAnswer, Answers
<1>3. ReplayIsRecent
  <2> SUFFICES ASSUME NEW k \in Answers PROVE ReplayOK(branch[k].turn.replay, SupportPairs(SubSeq(branch, 1, k - 2)))
    BY DEF ReplayIsRecent, ReplayOK, AnswerOf
  <2>1. k \in 1..Len(branch) /\ k > 1 /\ ReplayOK(branch[k].turn.replay, PairsUpTo(branch, k - 2))
    BY <1>2 DEF Stands
  <2> DEFINE f == SubSeq(branch, 1, k - 2)
             n == k - 2
  <2>2. n \in Nat /\ n <= Len(branch)
    BY <1>1, <2>1
  <2>3. Len(f) = n /\ \A i \in 1..n : f[i] = branch[i]
    <3>1. \A i \in 1..n : branch[i] \in Messages
      BY <1>1, <2>2
    <3>2. /\ Len(f) = IF 1 <= n THEN n - 1 + 1 ELSE 0
          /\ \A i \in 1..n - 1 + 1 : f[i] = branch[1 + i - 1]
      BY <2>2, <3>1, SubSeqProperties
    <3> HIDE DEF f
    <3>3. Len(f) = n
      BY <2>2, <3>2
    <3>4. \A i \in 1..n : i \in 1..n - 1 + 1 /\ 1 + i - 1 = i
      BY <2>2
    <3> QED
      BY <3>2, <3>3, <3>4
  <2> HIDE DEF f, n
  <2>4. SupportPairs(f) = PairsUpTo(f, n)
    BY <2>3 DEF SupportPairs, PairsUpTo
  <2>5. PairsUpTo(f, n) = PairsUpTo(branch, n)
    BY <2>2, <2>3, PairsAgree
  <2> QED
    BY <2>1, <2>4, <2>5 DEF f, n
<1> QED
  BY <1>2, <1>3 DEF CommandSound, ServersAccounted, TicketReachesModel, QuotesEarned, AnsweredInPlace, Stands, AnswerOf

-----------------------------------------------------------------------------
(***************************************************************************)
(* SupportDesk                                                             *)
(***************************************************************************)
(* An order of the tickets of a set, the newest first.                     *)
Newest(order, tickets) ==
  /\ order \in [1..Cardinality(tickets) -> tickets]
  /\ \A t \in tickets : \E i \in DOMAIN order : order[i] = t
  /\ \A i, j \in DOMAIN order : i < j => order[i].updated >= order[j].updated

(* There is one: the oldest ticket goes behind an order of the others.     *)
LEMMA OldestLast ==
  ASSUME NEW T, IsFiniteSet(T), \A t \in T : t.updated \in Nat, NEW x \in T, \A t \in T : x.updated <= t.updated,
         NEW front, Newest(front, T \ {x})
  PROVE  \E order : Newest(order, T)
<1> DEFINE n == Cardinality(T)
           order == [i \in 1..n |-> IF i = n THEN x ELSE front[i]]
<1>1. n \in Nat /\ n >= 1 /\ Cardinality(T \ {x}) = n - 1
  <2>1. n \in Nat /\ Cardinality(T \ {x}) = n - 1
    BY FS_CardinalityType, FS_RemoveElement
  <2>2. Cardinality(T \ {x}) \in Nat
    BY FS_RemoveElement, FS_CardinalityType
  <2> QED
    BY <2>1, <2>2
<1> HIDE DEF n
<1>2. front \in [1..n - 1 -> T \ {x}]
  BY <1>1 DEF Newest
<1>3. DOMAIN order = 1..n /\ order[n] = x /\ \A i \in 1..n - 1 : i \in 1..n /\ i < n /\ order[i] = front[i]
  BY <1>1
<1>4. order \in [1..n -> T]
  <2>1. \A i \in 1..n : order[i] \in T
    BY <1>1, <1>2
  <2> QED
    BY <2>1
<1>5. ASSUME NEW t \in T PROVE \E i \in 1..n : order[i] = t
  <2>1. CASE t = x
    BY <1>1, <1>3, <2>1
  <2>2. CASE t # x
    <3>1. PICK i \in 1..n - 1 : front[i] = t
      BY <1>1, <1>2, <2>2 DEF Newest
    <3> QED
      BY <1>3, <3>1
  <2> QED
    BY <2>1, <2>2
<1>6. ASSUME NEW i \in 1..n, NEW j \in 1..n, i < j PROVE order[i].updated >= order[j].updated
  <2>1. i \in 1..n - 1 /\ order[i] = front[i] /\ front[i] \in T
    BY <1>1, <1>2, <1>3, <1>6
  <2>2. CASE j = n
    BY <1>3, <2>1, <2>2
  <2>3. CASE j # n
    <3>1. j \in 1..n - 1 /\ order[j] = front[j]
      BY <1>1, <1>3, <2>3
    <3> QED
      BY <1>2, <1>6, <2>1, <3>1 DEF Newest
  <2> QED
    BY <2>2, <2>3
<1> HIDE DEF order
<1>7. Newest(order, T)
  BY <1>3, <1>4, <1>5, <1>6 DEF Newest, n
<1> QED
  BY <1>7

LEMMA OldestExists ==
  ASSUME NEW T, T # {}, \A t \in T : t.updated \in Nat PROVE \E x \in T : \A t \in T : x.updated <= t.updated
<1> DEFINE times == {t.updated : t \in T}
<1>1. times \in SUBSET Nat /\ times # {}
  OBVIOUS
<1> HIDE DEF times
<1>2. PICK n \in times : \A m \in times : n <= m
  BY <1>1, LeastNat
<1>3. PICK x \in T : n = x.updated
  BY DEF times
<1> QED
  BY <1>2, <1>3 DEF times

(* A smallest set that cannot be put in order would have an oldest ticket, *)
(* and without it be one that can.                                         *)
LEMMA OrderExists ==
  ASSUME NEW S, IsFiniteSet(S), \A t \in S : t.updated \in Nat PROVE \E order : Newest(order, S)
<1> DEFINE Orderless(T) == ~ \E order : Newest(order, T)
           bad == {Cardinality(T) : T \in {T \in SUBSET S : Orderless(T)}}
<1> SUFFICES ASSUME Orderless(S) PROVE FALSE
  OBVIOUS
<1>1. \A T \in SUBSET S : IsFiniteSet(T) /\ Cardinality(T) \in Nat
  BY FS_Subset, FS_CardinalityType
<1>2. bad \in SUBSET Nat /\ bad # {}
  <2>1. \A m \in bad : m \in Nat
    BY <1>1
  <2>2. Cardinality(S) \in bad
    OBVIOUS
  <2> QED
    BY <2>1, <2>2
<1>3. PICK n \in bad : \A m \in bad : n <= m
  BY <1>2, LeastNat
<1>4. PICK T \in SUBSET S : Orderless(T) /\ n = Cardinality(T)
  OBVIOUS
<1>5. IsFiniteSet(T) /\ n \in Nat
  BY <1>1, <1>4
<1>6. CASE T = {}
  <2> DEFINE none == [i \in 1..0 |-> 0]
  <2>1. Cardinality(T) = 0 /\ 1..0 = {}
    BY <1>6, FS_EmptySet
  <2>2. none \in [1..0 -> T] /\ DOMAIN none = {}
    BY <2>1
  <2> HIDE DEF none
  <2>3. Newest(none, T)
    BY <1>6, <2>1, <2>2 DEF Newest
  <2> QED
    BY <1>4, <2>3
<1>7. CASE T # {}
  <2>1. PICK x \in T : \A t \in T : x.updated <= t.updated
    BY <1>4, <1>7, OldestExists
  <2>2. IsFiniteSet(T \ {x}) /\ Cardinality(T \ {x}) = n - 1 /\ T \ {x} \in SUBSET S
    BY <1>4, <1>5, FS_RemoveElement
  <2>3. ~ Orderless(T \ {x})
    <3>1. SUFFICES ASSUME Orderless(T \ {x}) PROVE FALSE
      OBVIOUS
    <3>2. n - 1 \in bad
      BY <2>2, <3>1
    <3>3. n <= n - 1
      BY <1>3, <3>2
    <3> QED
      BY <1>5, <3>3
  <2>4. PICK front : Newest(front, T \ {x})
    BY <2>3
  <2> HIDE DEF Orderless, bad
  <2>5. \E order : Newest(order, T)
    BY <1>4, <1>5, <2>1, <2>4, OldestLast
  <2> QED
    BY <1>4, <2>5 DEF Orderless
<1> QED
  BY <1>6, <1>7

LEMMA NewestFirstIs ==
  ASSUME NEW S, IsFiniteSet(S), \A t \in S : t.updated \in Nat PROVE Newest(NewestFirst(S), S)
<1>1. \E order \in [1..Cardinality(S) -> S] :
        /\ \A t \in S : \E i \in DOMAIN order : order[i] = t
        /\ \A i, j \in DOMAIN order : i < j => order[i].updated >= order[j].updated
  BY OrderExists DEF Newest
<1> QED
  BY <1>1 DEF NewestFirst, Newest

(* What is listed of the matches.                                          *)
LEMMA HitsOf ==
  ASSUME NEW S, IsFiniteSet(S), \A t \in S : t.updated \in Nat
  PROVE  /\ Len(NewestHits(S)) = IF Cardinality(S) < MaxHits THEN Cardinality(S) ELSE MaxHits
         /\ \A i \in DOMAIN NewestHits(S), t \in S :
              t.updated > NewestHits(S)[i].updated => \E j \in 1..i : NewestHits(S)[j] = t
<1> DEFINE order == NewestFirst(S)
           n == Cardinality(S)
           m == IF n < MaxHits THEN n ELSE MaxHits
           hits == SubSeq(order, 1, m)
<1>1. Newest(order, S)
  BY NewestFirstIs
<1>2. n \in Nat /\ m \in Nat /\ m <= n
  BY FS_CardinalityType, DeskAssumption
<1>3. NewestHits(S) = hits
  BY DEF NewestHits, FirstOf
<1> HIDE DEF order
<1>4. order \in [1..n -> S]
  BY <1>1 DEF Newest
<1> HIDE DEF n, m
<1>5. Len(hits) = m /\ DOMAIN hits = 1..m /\ \A i \in 1..m : hits[i] = order[i]
  <2>1. \A i \in 1..m : order[i] \in S
    BY <1>2, <1>4
  <2>2. /\ hits \in Seq(S)
        /\ Len(hits) = IF 1 <= m THEN m - 1 + 1 ELSE 0
        /\ \A i \in 1..m - 1 + 1 : hits[i] = order[1 + i - 1]
    BY <1>2, <2>1, SubSeqProperties
  <2> HIDE DEF hits
  <2>3. Len(hits) = m
    BY <1>2, <2>2
  <2>4. \A i \in 1..m : i \in 1..m - 1 + 1 /\ 1 + i - 1 = i
    BY <1>2
  <2> QED
    BY <2>2, <2>3, <2>4
<1> HIDE DEF hits
<1>6. ASSUME NEW i \in 1..m, NEW t \in S, t.updated > hits[i].updated PROVE \E j \in 1..i : hits[j] = t
  <2>1. PICK j \in 1..n : order[j] = t
    BY <1>1, <1>4 DEF Newest
  <2>2. i \in 1..n /\ hits[i] = order[i] /\ i \in Nat /\ j \in Nat
    BY <1>2, <1>5
  <2>3. order[i].updated \in Nat /\ t.updated \in Nat
    BY <1>4, <2>2
  <2>4. ~(i < j)
    <3>1. SUFFICES ASSUME i < j PROVE FALSE
      OBVIOUS
    <3>2. order[i].updated >= order[j].updated
      BY <1>1, <1>4, <2>2, <3>1 DEF Newest
    <3> QED
      BY <1>6, <2>1, <2>2, <2>3, <3>2
  <2>5. j \in 1..i /\ j \in 1..m
    BY <1>2, <2>1, <2>2, <2>4
  <2> QED
    BY <1>5, <2>1, <2>5
<1> QED
  BY <1>3, <1>5, <1>6 DEF m, n

SavedTexts == [key : Nat, state : {"valid", "broken", "missing"}, tickets : Tables \cup {{}}]
DeskTools == {"search", "user", "ticket"}

(* A call knows every key the file has had since it began; the text that   *)
(* is kept may be newer than the key it is kept under, never older.        *)
DeskCallOK ==
  /\ deskCall \in [pc : {"none", "stat", "read"}, tool : DeskTools \cup {"none"}, status : {"any"} \cup Statuses,
                   at : SUBSET SavedTexts, seen : SUBSET Nat]
  /\ deskCall.pc # "none" => deskCall.tool \in DeskTools /\ deskFile.key \in deskCall.seen
  /\ \A text \in deskCall.at : text.key <= deskFile.key

DeskInv ==
  /\ deskFile \in SavedTexts
  /\ deskCache \in [key : Nat, text : SavedTexts]
  /\ deskCache.key <= deskCache.text.key /\ deskCache.text.key <= deskFile.key
  /\ DeskCallOK /\ AnswersAreCurrent /\ HitsAreNewest

LEMMA TicketsTimed ==
  ASSUME NEW text \in SavedTexts, NEW S, S \subseteq text.tickets
  PROVE  IsFiniteSet(S) /\ \A t \in S : t.updated \in Nat
<1>1. text.tickets \in Tables \cup {{}}
  BY DEF SavedTexts
<1>2. IsFiniteSet(text.tickets) /\ \A t \in text.tickets : t.updated \in Nat
  BY <1>1, DeskAssumption, FS_EmptySet
<1> QED
  BY <1>2, FS_Subset

LEMMA NoCallTyped ==
  /\ NoCall \in [pc : {"none", "stat", "read"}, tool : DeskTools \cup {"none"}, status : {"any"} \cup Statuses,
                 at : SUBSET SavedTexts, seen : SUBSET Nat]
  /\ NoCall.pc = "none" /\ NoCall.at = {} /\ NoCall.seen = {}
BY DEF NoCall

LEMMA CallEnds == ASSUME deskCall' = NoCall PROVE DeskCallOK'
BY NoCallTyped DEF DeskCallOK

(* What an answer keeps of what a tool gave.                               *)
LEMMA ReplyTells ==
  ASSUME NEW text, NEW answer, Replies(text, answer)
  PROVE  /\ deskAnswer'.from = text.key /\ deskAnswer'.seen = deskCall.seen
         /\ "kind" \in DOMAIN answer => deskAnswer'.kind = answer.kind
         /\ "matches" \in DOMAIN answer => deskAnswer'.matches = answer.matches
         /\ "shown" \in DOMAIN answer => deskAnswer'.shown = answer.shown
<1>1. {"kind", "from", "seen", "matches", "shown"} \subseteq DOMAIN NoList
  BY DEF NoList
<1> QED
  BY <1>1 DEF Replies

LEMMA FailsKeep == ASSUME DeskInv, Fails, UNCHANGED deskFile PROVE DeskInv'
<1> DEFINE answer == [kind |-> "error"]
           none == [key |-> 0]
<1>1. Replies(none, answer) /\ UNCHANGED deskCache
  BY DEF Fails
<1>2. "kind" \in DOMAIN answer /\ answer.kind = "error"
  OBVIOUS
<1> HIDE DEF answer, none
<1>3. deskAnswer'.kind = "error"
  BY <1>1, <1>2, ReplyTells
<1>4. deskCall' = NoCall
  BY <1>1 DEF Replies
<1> QED
  BY <1>1, <1>3, <1>4, CallEnds DEF DeskInv, AnswersAreCurrent, HitsAreNewest

(* An answer from a text that the file had while the call ran.             *)
LEMMA AnswerStands ==
  ASSUME DeskInv, NEW text \in SavedTexts, text.key \in deskCall.seen, deskCall.tool \in DeskTools, AnswersFrom(text)
  PROVE  deskCall' = NoCall /\ AnswersAreCurrent' /\ HitsAreNewest'
<1>1. PICK answer \in ToolAnswers(deskCall.tool, text.tickets, deskCall.status) : Replies(text, answer)
  BY DEF AnswersFrom
<1>2. AnswersAreCurrent' /\ deskCall' = NoCall
  BY <1>1, ReplyTells DEF AnswersAreCurrent, Replies
<1>3. CASE deskCall.tool = "search"
  <2>1. PICK hits \in SUBSET TicketIds :
          answer = IF StatusKnown(text.tickets, deskCall.status)
                   THEN LET matches == {t \in OfStatus(text.tickets, deskCall.status) : t.id \in hits} IN
                        [kind |-> "search", status |-> deskCall.status, matches |-> matches, shown |-> NewestHits(matches)]
                   ELSE [kind |-> "error"]
    BY <1>1, <1>3 DEF ToolAnswers
  <2>2. CASE StatusKnown(text.tickets, deskCall.status)
    <3> DEFINE matches == {t \in OfStatus(text.tickets, deskCall.status) : t.id \in hits}
    <3>1. matches \subseteq text.tickets
      BY DEF OfStatus
    <3>2. answer = [kind |-> "search", status |-> deskCall.status, matches |-> matches, shown |-> NewestHits(matches)]
      BY <2>1, <2>2
    <3> HIDE DEF matches
    <3>3. "matches" \in DOMAIN answer /\ "shown" \in DOMAIN answer /\ answer.matches = matches /\ answer.shown = NewestHits(matches)
      BY <3>2
    <3>4. deskAnswer'.matches = matches /\ deskAnswer'.shown = NewestHits(matches)
      BY <1>1, <3>3, ReplyTells
    <3>5. IsFiniteSet(matches) /\ \A t \in matches : t.updated \in Nat
      BY <3>1, TicketsTimed
    <3> QED
      BY <1>2, <3>4, <3>5, HitsOf DEF HitsAreNewest
  <2>3. CASE ~StatusKnown(text.tickets, deskCall.status)
    <3>1. answer = [kind |-> "error"]
      BY <2>1, <2>3
    <3>2. "kind" \in DOMAIN answer /\ answer.kind = "error"
      BY <3>1
    <3>3. deskAnswer'.kind = "error"
      BY <1>1, <3>2, ReplyTells
    <3> QED
      BY <1>2, <3>3 DEF HitsAreNewest
  <2> QED
    BY <2>2, <2>3
<1>4. CASE deskCall.tool = "user"
  <2>1. PICK user \in Users : answer = OfUser(text.tickets, user)
    BY <1>1, <1>4 DEF ToolAnswers
  <2>2. "kind" \in DOMAIN answer /\ answer.kind = "user"
    BY <2>1 DEF OfUser
  <2>3. deskAnswer'.kind = "user"
    BY <1>1, <2>2, ReplyTells
  <2> QED
    BY <1>2, <2>3 DEF HitsAreNewest
<1>5. CASE deskCall.tool = "ticket"
  <2>1. answer = [kind |-> "ticket"] \/ answer = [kind |-> "error"]
    BY <1>1, <1>5 DEF ToolAnswers
  <2>2. "kind" \in DOMAIN answer /\ answer.kind \in {"ticket", "error"}
    BY <2>1
  <2>3. deskAnswer'.kind # "search"
    BY <1>1, <2>2, ReplyTells
  <2> QED
    BY <1>2, <2>3 DEF HitsAreNewest
<1> QED
  BY <1>3, <1>4, <1>5 DEF DeskTools

LEMMA BeginsKeeps == ASSUME DeskInv, CallBegins PROVE DeskInv'
<1>1. PICK tool \in DeskTools, status \in {"any"} \cup Statuses :
        deskCall' = [NoCall EXCEPT !.pc = "stat", !.tool = tool, !.status = status, !.seen = {deskFile.key}]
  BY DEF CallBegins, DeskTools
<1>2. deskCall' = [pc |-> "stat", tool |-> tool, status |-> status, at |-> {}, seen |-> {deskFile.key}]
  BY <1>1 DEF NoCall
<1>3. deskFile.key \in Nat
  BY DEF DeskInv, SavedTexts
<1>4. UNCHANGED <<deskFile, deskCache, deskAnswer>>
  BY DEF CallBegins
<1>5. DeskCallOK'
  BY <1>2, <1>3, <1>4 DEF DeskCallOK, DeskTools
<1> QED
  BY <1>4, <1>5 DEF DeskInv, AnswersAreCurrent, HitsAreNewest

LEMMA StatsKeeps == ASSUME DeskInv, StatsFile PROVE DeskInv'
<1>1. UNCHANGED deskFile /\ deskCall.pc = "stat" /\ deskCall.tool \in DeskTools /\ deskFile.key \in deskCall.seen
  BY DEF StatsFile, DeskInv, DeskCallOK
<1>2. CASE Fails
  BY <1>1, <1>2, FailsKeep
<1>3. CASE deskCache.key = deskFile.key /\ AnswersFrom(deskCache.text) /\ UNCHANGED deskCache
  <2>1. deskCache.text \in SavedTexts /\ deskCache.text.key = deskFile.key
    BY <1>3 DEF DeskInv, SavedTexts
  <2>2. deskCall' = NoCall /\ AnswersAreCurrent' /\ HitsAreNewest'
    BY <1>1, <1>3, <2>1, AnswerStands
  <2> QED
    BY <1>1, <1>3, <2>2, CallEnds DEF DeskInv
<1>4. CASE deskCall' = [deskCall EXCEPT !.pc = "read", !.at = {deskFile}] /\ UNCHANGED <<deskCache, deskAnswer>>
  <2>1. deskFile \in SavedTexts /\ deskFile.key \in Nat
    BY DEF DeskInv, SavedTexts
  <2>2. DeskCallOK'
    <3> DEFINE DeskCallTypes == [pc : {"none", "stat", "read"}, tool : DeskTools \cup {"none"}, status : {"any"} \cup Statuses,
                         at : SUBSET SavedTexts, seen : SUBSET Nat]
    <3>1. deskCall \in DeskCallTypes
      BY DEF DeskInv, DeskCallOK
    <3>2. deskCall' \in DeskCallTypes
      BY <1>4, <2>1, <3>1
    <3>3. deskCall'.tool = deskCall.tool /\ deskCall'.seen = deskCall.seen /\ deskCall'.at = {deskFile}
      BY <1>4, <3>1
    <3>4. \A text \in deskCall'.at : text.key <= deskFile.key
      BY <2>1, <3>3
    <3>5. deskFile' = deskFile
      BY <1>1
    <3> QED
      BY <1>1, <3>2, <3>3, <3>4, <3>5 DEF DeskCallOK
  <2> QED
    BY <1>1, <1>4, <2>2 DEF DeskInv, AnswersAreCurrent, HitsAreNewest
<1> QED
  BY <1>2, <1>3, <1>4 DEF StatsFile

LEMMA ReadsKeeps == ASSUME DeskInv, ReadsFile PROVE DeskInv'
<1>1. UNCHANGED deskFile /\ deskCall.pc = "read" /\ deskCall.tool \in DeskTools /\ deskFile.key \in deskCall.seen
  BY DEF ReadsFile, DeskInv, DeskCallOK
<1>2. CASE Fails
  BY <1>1, <1>2, FailsKeep
<1>3. CASE \E text \in deskCall.at : deskCache' = [key |-> text.key, text |-> deskFile] /\ AnswersFrom(deskFile)
  <2>1. PICK text \in deskCall.at : deskCache' = [key |-> text.key, text |-> deskFile] /\ AnswersFrom(deskFile)
    BY <1>3
  <2>2. deskFile \in SavedTexts /\ text \in SavedTexts /\ text.key <= deskFile.key
    BY DEF DeskInv, DeskCallOK
  <2>3. text.key \in Nat /\ deskFile.key \in Nat
    BY <2>2 DEF SavedTexts
  <2>4. deskCall' = NoCall /\ AnswersAreCurrent' /\ HitsAreNewest'
    BY <1>1, <2>1, <2>2, AnswerStands
  <2> QED
    BY <1>1, <2>1, <2>2, <2>3, <2>4, CallEnds DEF DeskInv
<1> QED
  BY <1>2, <1>3 DEF ReadsFile

LEMMA FileChangesKeeps == ASSUME DeskInv, FileChanges PROVE DeskInv'
<1>1. deskFile.key \in Nat /\ UNCHANGED <<deskCache, deskAnswer>>
  BY DEF FileChanges, DeskInv, SavedTexts
<1>2. deskFile' \in SavedTexts /\ deskFile'.key = deskFile.key + 1
  <2>1. \A text \in DeskTexts(deskFile.key + 1) : text \in SavedTexts /\ text.key = deskFile.key + 1
    BY <1>1 DEF DeskTexts, SavedTexts
  <2> QED
    BY <2>1 DEF FileChanges
<1>3. DeskCallOK'
  <2>1. CASE deskCall = NoCall
    BY <2>1, CallEnds DEF FileChanges
  <2>2. CASE deskCall # NoCall
    <3>1. deskCall' = [deskCall EXCEPT !.seen = deskCall.seen \cup {deskFile'.key}]
      BY <2>2 DEF FileChanges
    <3>2. \A text \in deskCall.at : text.key \in Nat /\ text.key <= deskFile.key
      BY DEF DeskInv, DeskCallOK, SavedTexts
    <3>3. \A text \in deskCall.at : text.key <= deskFile'.key
      BY <1>1, <1>2, <3>2
    <3>4. deskFile'.key \in Nat
      BY <1>1, <1>2
    <3> QED
      BY <3>1, <3>3, <3>4 DEF DeskInv, DeskCallOK
  <2> QED
    BY <2>1, <2>2
<1>4. deskCache.text.key \in Nat /\ deskCache.text.key <= deskFile'.key
  BY <1>1, <1>2 DEF DeskInv, SavedTexts
<1> QED
  BY <1>1, <1>2, <1>3, <1>4 DEF DeskInv, AnswersAreCurrent, HitsAreNewest

LEMMA DeskStarts == DeskInit => DeskInv
<1> SUFFICES ASSUME DeskInit PROVE DeskInv
  OBVIOUS
<1>1. deskFile \in SavedTexts /\ deskFile.key = 1
  BY DEF DeskInit, DeskTexts, SavedTexts
<1>2. deskCache = [key |-> 0, text |-> deskFile] /\ deskCall = NoCall /\ deskAnswer.kind = "none"
  BY DEF DeskInit, NoList
<1>3. DeskCallOK
  BY <1>2, NoCallTyped DEF DeskCallOK
<1> QED
  BY <1>1, <1>2, <1>3 DEF DeskInv, AnswersAreCurrent, HitsAreNewest

LEMMA DeskStep == ASSUME DeskInv, [DeskNext]_deskVars PROVE DeskInv'
<1>1. CASE UNCHANGED deskVars
  BY <1>1 DEF deskVars, DeskInv, DeskCallOK, AnswersAreCurrent, HitsAreNewest
<1>2. CASE DeskNext
  BY <1>2, BeginsKeeps, StatsKeeps, ReadsKeeps, FileChangesKeeps DEF DeskNext
<1> QED
  BY <1>1, <1>2

(* Every answer of /help and /support has the tools of the servers chosen  *)
(* for it or a warning, the data of a ticket that was found exactly once,  *)
(* the newest replay and no quotes it did not earn (command_turn.py); and  *)
(* the desk answers from a text its file had while the call ran, the       *)
(* newest tickets first (support_desk.py).                                 *)
THEOREM CommandsAreSound == TurnsSpec => []CommandsSound
<1> DEFINE Inv == /\ focus = "command" => CommandInv
                  /\ focus = "desk" => DeskInv
<1>1. TurnsInit => Inv
  BY CommandStarts, DeskStarts DEF TurnsInit
<1>2. Inv /\ [TurnsNext]_turnsVars => Inv'
  BY FocusMoves, CommandStep, DeskStep
<1>3. Inv => CommandsSound
  BY CommandTyped, CommandHolds DEF CommandsSound, DeskInv
<1> QED
  BY <1>1, <1>2, <1>3, PTL DEF TurnsSpec

-----------------------------------------------------------------------------
(***************************************************************************)
(* RetrievalTurn                                                           *)
(***************************************************************************)
(* A strict order of S, as a set of pairs. *)
Orders(R, S) ==
  /\ \A x \in S : <<x, x>> \notin R
  /\ \A x, y \in S : x # y => <<x, y>> \in R \/ <<y, x>> \in R
  /\ \A x, y, z \in S : <<x, y>> \in R /\ <<y, z>> \in R => <<x, z>> \in R

Sorted(s, S, R) ==
  /\ s \in [1..Cardinality(S) -> S]
  /\ \A i, j \in 1..Cardinality(S) : i < j => <<s[i], s[j]>> \in R

LEMMA FirstExists ==
  ASSUME NEW S, IsFiniteSet(S), S # {}, NEW R, Orders(R, S)
  PROVE  \E x \in S : \A y \in S \ {x} : <<x, y>> \in R
<1> DEFINE Before(x) == {y \in S : <<y, x>> \in R}
           Sizes == {Cardinality(Before(x)) : x \in S}
<1>1. \A x \in S : IsFiniteSet(Before(x)) /\ Cardinality(Before(x)) \in Nat
  BY FS_Subset, FS_CardinalityType
<1>2. Sizes \in SUBSET Nat /\ Sizes # {}
  BY <1>1
<1>3. PICK n \in Sizes : \A m \in Sizes : n <= m
  BY <1>2, LeastNat
<1>4. PICK x \in S : n = Cardinality(Before(x))
  OBVIOUS
<1>5. ASSUME NEW y \in S \ {x}, <<x, y>> \notin R PROVE FALSE
  <2>1. <<y, x>> \in R
    BY <1>5 DEF Orders
  <2>2. Before(y) \subseteq Before(x) /\ y \in Before(x) /\ y \notin Before(y)
    BY <2>1 DEF Orders
  <2>3. Cardinality(Before(y)) <= Cardinality(Before(x)) /\ Cardinality(Before(y)) # Cardinality(Before(x))
    BY <1>1, <2>2, FS_Subset
  <2>4. n <= Cardinality(Before(y)) /\ n \in Nat /\ Cardinality(Before(y)) \in Nat
    BY <1>1, <1>2, <1>3
  <2> QED
    BY <1>4, <2>3, <2>4
<1> QED
  BY <1>5

LEMMA FirstThenRest ==
  ASSUME NEW S, IsFiniteSet(S), NEW R, Orders(R, S), NEW x \in S, \A y \in S \ {x} : <<x, y>> \in R,
         NEW rest, Sorted(rest, S \ {x}, R)
  PROVE  \E s : Sorted(s, S, R)
<1> DEFINE n == Cardinality(S)
           s == [i \in 1..n |-> IF i = 1 THEN x ELSE rest[i - 1]]
<1>1. n \in Nat /\ Cardinality(S \ {x}) = n - 1
  BY FS_CardinalityType, FS_RemoveElement
<1>2. rest \in [1..n - 1 -> S \ {x}] /\ \A i, j \in 1..n - 1 : i < j => <<rest[i], rest[j]>> \in R
  BY <1>1 DEF Sorted
<1> HIDE DEF n
<1>3. \A i \in 1..n : i # 1 => i - 1 \in 1..n - 1
  BY <1>1
<1>4. \A i \in 1..n : s[i] = IF i = 1 THEN x ELSE rest[i - 1]
  OBVIOUS
<1>5. s \in [1..n -> S]
  BY <1>2, <1>3
<1> HIDE DEF s
<1>6. ASSUME NEW i \in 1..n, NEW j \in 1..n, i < j PROVE <<s[i], s[j]>> \in R
  <2>1. j # 1 /\ j - 1 \in 1..n - 1 /\ s[j] = rest[j - 1]
    BY <1>1, <1>3, <1>4, <1>6
  <2>2. CASE i = 1
    BY <1>2, <1>4, <2>1, <2>2
  <2>3. CASE i # 1
    <3>1. i - 1 \in 1..n - 1 /\ s[i] = rest[i - 1] /\ i - 1 < j - 1
      BY <1>1, <1>3, <1>4, <1>6, <2>3
    <3> QED
      BY <1>2, <2>1, <3>1
  <2> QED
    BY <2>2, <2>3
<1> QED
  BY <1>5, <1>6 DEF Sorted, n

LEMMA SortedExists ==
  ASSUME NEW S, IsFiniteSet(S), NEW R, Orders(R, S) PROVE \E s : Sorted(s, S, R)
<1> DEFINE Unsorted(T) == ~ \E s : Sorted(s, T, R)
           bad == {Cardinality(T) : T \in {T \in SUBSET S : Unsorted(T)}}
<1> SUFFICES ASSUME Unsorted(S) PROVE FALSE
  OBVIOUS
<1>1. \A T \in SUBSET S : IsFiniteSet(T) /\ Cardinality(T) \in Nat
  BY FS_Subset, FS_CardinalityType
<1>2. bad \in SUBSET Nat /\ bad # {}
  <2>1. \A m \in bad : m \in Nat
    BY <1>1
  <2>2. Cardinality(S) \in bad
    OBVIOUS
  <2> QED
    BY <2>1, <2>2
<1>3. PICK n \in bad : \A m \in bad : n <= m
  BY <1>2, LeastNat
<1>4. PICK T \in SUBSET S : Unsorted(T) /\ n = Cardinality(T)
  OBVIOUS
<1>5. IsFiniteSet(T) /\ n \in Nat /\ Orders(R, T)
  BY <1>1, <1>4 DEF Orders
<1>6. CASE T = {}
  <2> DEFINE none == [i \in 1..0 |-> 0]
  <2>1. Cardinality(T) = 0 /\ 1..0 = {}
    BY <1>6, FS_EmptySet
  <2>2. none \in [1..0 -> T]
    BY <2>1
  <2> HIDE DEF none
  <2>3. Sorted(none, T, R)
    BY <1>6, <2>1, <2>2 DEF Sorted
  <2> QED
    BY <1>4, <2>3
<1>7. CASE T # {}
  <2>1. PICK x \in T : \A y \in T \ {x} : <<x, y>> \in R
    BY <1>5, <1>7, FirstExists
  <2>2. IsFiniteSet(T \ {x}) /\ Cardinality(T \ {x}) = n - 1 /\ T \ {x} \in SUBSET S
    BY <1>4, <1>5, FS_RemoveElement
  <2>3. ~ Unsorted(T \ {x})
    <3>1. SUFFICES ASSUME Unsorted(T \ {x}) PROVE FALSE
      OBVIOUS
    <3>2. n - 1 \in bad
      BY <2>2, <3>1
    <3>3. n <= n - 1
      BY <1>3, <3>2
    <3> QED
      BY <1>5, <3>3
  <2>4. PICK rest : Sorted(rest, T \ {x}, R)
    BY <2>3
  <2> HIDE DEF Unsorted, bad
  <2>5. \E s : Sorted(s, T, R)
    BY <1>5, <2>1, <2>4, FirstThenRest
  <2> QED
    BY <1>4, <2>5 DEF Unsorted
<1> QED
  BY <1>6, <1>7

(* What is put in order is the set itself, each member once. *)
LEMMA InOrderIs ==
  ASSUME NEW S, IsFiniteSet(S), NEW R, Orders(R, S)
  PROVE  /\ InOrder(S, R) \in Seq(S) /\ Len(InOrder(S, R)) = Cardinality(S)
         /\ \A i, j \in 1..Len(InOrder(S, R)) : InOrder(S, R)[i] = InOrder(S, R)[j] => i = j
<1> DEFINE s == InOrder(S, R)
           n == Cardinality(S)
<1>1. \E q \in [1..n -> S] : \A i, j \in 1..n : i < j => <<q[i], q[j]>> \in R
  BY SortedExists DEF Sorted
<1>2. s \in [1..n -> S] /\ \A i, j \in 1..n : i < j => <<s[i], s[j]>> \in R
  BY <1>1 DEF InOrder
<1>3. n \in Nat
  BY FS_CardinalityType
<1> HIDE DEF s, n
<1>4. s \in Seq(S) /\ Len(s) = n
  BY <1>2, <1>3
<1>5. ASSUME NEW i \in 1..n, NEW j \in 1..n, s[i] = s[j] PROVE i = j
  <2>1. s[i] \in S /\ <<s[i], s[i]>> \notin R
    BY <1>2 DEF Orders
  <2>2. ~(i < j) /\ ~(j < i)
    BY <1>2, <1>5, <2>1
  <2> QED
    BY <1>3, <2>2
<1> QED
  BY <1>4, <1>5 DEF s, n

(* An order by one key falling and two rising. *)
ByKeys(S, k1, k2, k3) ==
  {p \in S \X S :
     \/ k1[p[1]] > k1[p[2]]
     \/ /\ k1[p[1]] = k1[p[2]]
        /\ k2[p[1]] < k2[p[2]] \/ (k2[p[1]] = k2[p[2]] /\ k3[p[1]] < k3[p[2]])}
Keys(S, k1, k2, k3) ==
  /\ k1 \in [S -> Int] /\ k2 \in [S -> Int] /\ k3 \in [S -> Int]
  /\ \A x, y \in S : k1[x] = k1[y] /\ k2[x] = k2[y] /\ k3[x] = k3[y] => x = y

LEMMA KeysOrder ==
  ASSUME NEW Domain, NEW k1, NEW k2, NEW k3, Keys(Domain, k1, k2, k3)
  PROVE  Orders(ByKeys(Domain, k1, k2, k3), Domain)
<1> DEFINE order == ByKeys(Domain, k1, k2, k3)
<1>0. \A x, y \in Domain : <<x, y>> \in order <=>
        \/ k1[x] > k1[y]
        \/ k1[x] = k1[y] /\ (k2[x] < k2[y] \/ (k2[x] = k2[y] /\ k3[x] < k3[y]))
  BY DEF ByKeys
<1> HIDE DEF order
<1>1. ASSUME NEW x \in Domain PROVE <<x, x>> \notin order
  <2>1. k1[x] \in Int /\ k2[x] \in Int /\ k3[x] \in Int
    BY DEF Keys
  <2> QED
    BY <1>0, <2>1
<1>2. ASSUME NEW x \in Domain, NEW y \in Domain, x # y PROVE <<x, y>> \in order \/ <<y, x>> \in order
  <2>1. k1[x] \in Int /\ k2[x] \in Int /\ k3[x] \in Int /\ k1[y] \in Int /\ k2[y] \in Int /\ k3[y] \in Int
    BY DEF Keys
  <2>2. ~(k1[x] = k1[y] /\ k2[x] = k2[y] /\ k3[x] = k3[y])
    BY <1>2 DEF Keys
  <2> QED
    BY <1>0, <2>1, <2>2
<1>3. ASSUME NEW x \in Domain, NEW y \in Domain, NEW z \in Domain, <<x, y>> \in order, <<y, z>> \in order PROVE <<x, z>> \in order
  <2>1. k1[x] \in Int /\ k2[x] \in Int /\ k3[x] \in Int /\ k1[y] \in Int /\ k2[y] \in Int /\ k3[y] \in Int
        /\ k1[z] \in Int /\ k2[z] \in Int /\ k3[z] \in Int
    BY DEF Keys
  <2> QED
    BY <1>0, <1>3, <2>1
<1> QED
  BY <1>1, <1>2, <1>3 DEF Orders, order

LEMMA OrdersSubset == ASSUME NEW S, NEW R, Orders(R, S), NEW T \in SUBSET S PROVE Orders(R, T)
BY DEF Orders

LEMMA ToSetFinite == ASSUME NEW S, NEW s \in Seq(S) PROVE IsFiniteSet(ToSet(s)) /\ ToSet(s) \subseteq S
<1>1. s \in Surjection(1..Len(s), ToSet(s)) /\ ToSet(s) \subseteq S
  BY DEF Surjection, ToSet
<1>2. IsFiniteSet(1..Len(s))
  BY FS_Interval
<1> QED
  BY <1>1, <1>2, FS_Surjection

LEMMA RankInIs ==
  ASSUME NEW S, NEW s \in Seq(S), NEW c
  PROVE  /\ RankIn(s, c) \in Nat
         /\ Contains(s, c) => RankIn(s, c) \in 1..Len(s) /\ s[RankIn(s, c)] = c
         /\ RankIn(s, c) # 0 => Contains(s, c)
<1>1. CASE Contains(s, c)
  <2>1. \E i \in 1..Len(s) : s[i] = c
    BY <1>1 DEF Contains
  <2> QED
    BY <1>1, <2>1 DEF RankIn
<1>2. CASE ~Contains(s, c)
  BY <1>2 DEF RankIn
<1> QED
  BY <1>1, <1>2

Distinct(s) == \A i, j \in 1..Len(s) : s[i] = s[j] => i = j
UniqueIds(s) == \A i, j \in 1..Len(s) : s[i].id = s[j].id => i = j

LEMMA WorldOK ==
  ASSUME world \in Worlds
  PROVE  /\ IsFiniteSet(RagFragments) /\ RagFragments \subseteq Nat
         /\ \A c \in RagFragments :
              /\ world[c] \in [original : Int, rewritten : Int, keyword : BOOLEAN, size : Nat]
              /\ world[c]["original"] \in Int /\ world[c]["rewritten"] \in Int
<1>1. /\ IsFiniteSet(RagFragments) /\ RagFragments \subseteq Nat
      /\ \A c \in RagFragments : world[c] \in [original : Int, rewritten : Int, keyword : BOOLEAN, size : Nat]
  BY RetrievalAssumption DEF RagFragments
<1> QED
  BY <1>1

LEMMA CloserOrders ==
  ASSUME world \in Worlds, NEW q \in {"original", "rewritten"} PROVE Orders(Closer(q), RagFragments)
<1> DEFINE k1 == [c \in RagFragments |-> world[c][q]]
           k2 == [c \in RagFragments |-> c]
<1>1. k1 \in [RagFragments -> Int] /\ k2 \in [RagFragments -> Int]
  BY WorldOK
<1>2. Closer(q) = ByKeys(RagFragments, k1, k2, k2)
  <2>1. \A c \in RagFragments : k1[c] = world[c][q] /\ k2[c] = c
    OBVIOUS
  <2>2. \A c \in RagFragments : k1[c] \in Int /\ k2[c] \in Int
    BY <1>1
  <2> HIDE DEF k1, k2
  <2> QED
    BY <2>1, <2>2 DEF Closer, ByKeys
<1>3. Keys(RagFragments, k1, k2, k2)
  BY <1>1 DEF Keys
<1> HIDE DEF k1, k2
<1> QED
  BY <1>2, <1>3, KeysOrder

LEMMA BestByOK ==
  ASSUME world \in Worlds, NEW q \in {"original", "rewritten"}
  PROVE  BestBy(q) \in Seq(RagFragments) /\ Distinct(BestBy(q))
<1> DEFINE ranked == InOrder(RagFragments, Closer(q))
           m == IF Len(ranked) < CandidateK THEN Len(ranked) ELSE CandidateK
<1>1. ranked \in Seq(RagFragments) /\ Distinct(ranked)
  BY WorldOK, CloserOrders, InOrderIs DEF Distinct
<1> HIDE DEF ranked
<1>2. Len(ranked) \in Nat /\ m \in Nat /\ m <= Len(ranked)
  BY <1>1, RetrievalAssumption
<1>3. BestBy(q) = SubSeq(ranked, 1, m)
  BY DEF BestBy, ranked
<1> HIDE DEF m
<1>4. SubSeq(ranked, 1, m) \in Seq(RagFragments) /\ Len(SubSeq(ranked, 1, m)) = m
      /\ \A i \in 1..m : SubSeq(ranked, 1, m)[i] = ranked[i]
  BY <1>1, <1>2
<1> QED
  BY <1>1, <1>2, <1>3, <1>4 DEF Distinct

LEMMA ByCosineOK ==
  ASSUME NEW E, NEW s \in Seq(E), UniqueIds(s), \A i \in 1..Len(s) : s[i].cos \in Int
  PROVE  ByCosine(s) \in Seq(ToSet(s)) /\ UniqueIds(ByCosine(s))
<1> DEFINE position(e) == CHOOSE i \in 1..Len(s) : s[i].id = e.id
           S == ToSet(s)
           R == {p \in S \X S :
                   p[1].cos > p[2].cos \/ (p[1].cos = p[2].cos /\ position(p[1]) < position(p[2]))}
           k1 == [e \in S |-> e.cos]
           k2 == [e \in S |-> position(e)]
<1>1. \A e \in S : \E i \in 1..Len(s) : s[i] = e
  BY DEF ToSet
<1>2. ASSUME NEW e \in S PROVE position(e) \in 1..Len(s) /\ s[position(e)].id = e.id /\ e.cos \in Int
  <2>1. \E i \in 1..Len(s) : s[i].id = e.id
    BY <1>1
  <2> QED
    BY <1>1, <2>1
<1>3. IsFiniteSet(S)
  BY ToSetFinite
<1>4. ByCosine(s) = InOrder(S, R)
  BY DEF ByCosine
<1>5. \A x, y \in S : x.id = y.id => x = y
  BY <1>1 DEF UniqueIds
<1> HIDE DEF S, position
<1>6. k1 \in [S -> Int] /\ k2 \in [S -> Int]
  BY <1>2
<1>7. R = ByKeys(S, k1, k2, k2)
  <2>1. \A x \in S : k1[x] = x.cos /\ k2[x] = position(x)
    OBVIOUS
  <2>2. \A x \in S : k1[x] \in Int /\ k2[x] \in Int
    BY <1>6
  <2> HIDE DEF k1, k2
  <2> QED
    BY <2>1, <2>2 DEF ByKeys
<1>8. Keys(S, k1, k2, k2)
  <2>1. \A x \in S : k2[x] = position(x)
    OBVIOUS
  <2> HIDE DEF k1, k2
  <2> QED
    BY <1>2, <1>5, <1>6, <2>1 DEF Keys
<1> HIDE DEF k1, k2, R
<1>9. Orders(R, S)
  BY <1>7, <1>8, KeysOrder
<1>10. InOrder(S, R) \in Seq(S)
       /\ \A i, j \in 1..Len(InOrder(S, R)) : InOrder(S, R)[i] = InOrder(S, R)[j] => i = j
  BY <1>3, <1>9, InOrderIs
<1>11. \A i \in 1..Len(InOrder(S, R)) : InOrder(S, R)[i] \in S
  BY <1>10
<1>12. UniqueIds(InOrder(S, R))
  BY <1>5, <1>10, <1>11 DEF UniqueIds
<1> QED
  BY <1>4, <1>10, <1>12 DEF S

LEMMA RrfType == ASSUME NEW k \in Nat PROVE Rrf(k) \in Nat
BY DEF Rrf

LEMMA RrfOrderOK ==
  ASSUME NEW F, NEW v \in Seq(F), NEW f \in Seq(F)
  PROVE  RrfOrder(v, f) \in Seq(ToSet(v) \cup ToSet(f)) /\ Distinct(RrfOrder(v, f))
<1> DEFINE S == ToSet(v) \cup ToSet(f)
           part(k) == IF k = 0 THEN 0 ELSE Rrf(k)
           score(c) == part(RankIn(v, c)) + part(RankIn(f, c))
           place(s, c) == IF Contains(s, c) THEN RankIn(s, c) ELSE Len(v) + Len(f) + 1
           R == {p \in S \X S :
                   \/ score(p[1]) > score(p[2])
                   \/ /\ score(p[1]) = score(p[2])
                      /\ \/ place(v, p[1]) < place(v, p[2])
                         \/ /\ place(v, p[1]) = place(v, p[2])
                            /\ place(f, p[1]) < place(f, p[2])}
           k1 == [c \in S |-> score(c)]
           k2 == [c \in S |-> place(v, c)]
           k3 == [c \in S |-> place(f, c)]
<1>1. IsFiniteSet(S)
  BY ToSetFinite, FS_Union
<1>2. RrfOrder(v, f) = InOrder(S, R)
  BY DEF RrfOrder
<1>3. \A c \in S : Contains(v, c) \/ Contains(f, c)
  BY DEF ToSet, Contains
<1>4. ASSUME NEW c \in S PROVE score(c) \in Int /\ place(v, c) \in Int /\ place(f, c) \in Int
  <2>1. RankIn(v, c) \in Nat /\ RankIn(f, c) \in Nat
    BY RankInIs
  <2>2. part(RankIn(v, c)) \in Nat /\ part(RankIn(f, c)) \in Nat
    BY <2>1, RrfType
  <2> HIDE DEF part
  <2> QED
    BY <2>1, <2>2
<1>5. ASSUME NEW x \in S, NEW y \in S, place(v, x) = place(v, y), place(f, x) = place(f, y) PROVE x = y
  <2>1. \A c : Contains(v, c) => RankIn(v, c) \in 1..Len(v) /\ v[RankIn(v, c)] = c
    BY RankInIs
  <2>2. \A c : Contains(f, c) => RankIn(f, c) \in 1..Len(f) /\ f[RankIn(f, c)] = c
    BY RankInIs
  <2>3. Len(v) \in Nat /\ Len(f) \in Nat
    OBVIOUS
  <2>4. CASE Contains(v, x)
    <3>1. Contains(v, y)
      BY <1>5, <2>1, <2>3, <2>4
    <3> QED
      BY <1>5, <2>1, <2>4, <3>1
  <2>5. CASE Contains(f, x)
    <3>1. Contains(f, y)
      BY <1>5, <2>2, <2>3, <2>5
    <3> QED
      BY <1>5, <2>2, <2>5, <3>1
  <2> QED
    BY <1>3, <2>4, <2>5
<1> HIDE DEF S, score, place
<1>6. k1 \in [S -> Int] /\ k2 \in [S -> Int] /\ k3 \in [S -> Int]
  BY <1>4
<1>7. R = ByKeys(S, k1, k2, k3)
  <2>1. \A x \in S : k1[x] = score(x) /\ k2[x] = place(v, x) /\ k3[x] = place(f, x)
    OBVIOUS
  <2> HIDE DEF k1, k2, k3
  <2> QED
    BY <2>1 DEF ByKeys
<1>8. Keys(S, k1, k2, k3)
  <2>1. \A x \in S : k2[x] = place(v, x) /\ k3[x] = place(f, x)
    OBVIOUS
  <2> HIDE DEF k1, k2, k3
  <2> QED
    BY <1>5, <1>6, <2>1 DEF Keys
<1> HIDE DEF R, k1, k2, k3
<1>9. Orders(R, S)
  BY <1>7, <1>8, KeysOrder
<1>10. InOrder(S, R) \in Seq(S) /\ Distinct(InOrder(S, R))
  BY <1>1, <1>9, InOrderIs DEF Distinct
<1> QED
  BY <1>2, <1>10 DEF S

(* The candidates of a pipeline: what a search found before the keywords   *)
(* and the cut had a say, and what holds of a candidate throughout.        *)
CandidateSet ==
  [id : RagFragments, cos : Int, by : {"original", "rewritten", "both"}, fts : Nat, exempt : BOOLEAN,
   after : Nat, status : {"outside_top_k", "below_threshold"}]

Rewritten == ragConfig.rewrite /\ "rewrite" \notin skipped
Hybridised == ragConfig.hybrid /\ "hybrid" \notin skipped

Found(e, two) ==
  /\ e.fts = 0 /\ ~e.exempt
  /\ e.cos = world[e.id].original \/ (two /\ e.cos = world[e.id].rewritten)
  /\ e.by # "original" => two

CandidateOK(e) ==
  /\ e.cos = world[e.id].original \/ (Rewritten /\ e.cos = world[e.id].rewritten)
  /\ e.by # "original" => Rewritten
  /\ e.fts # 0 => Hybridised
  /\ e.exempt => Hybridised

CandidatesOK ==
  /\ candidates \in Seq(CandidateSet) /\ UniqueIds(candidates)
  /\ \A i \in 1..Len(candidates) : CandidateOK(candidates[i])

LEMMA AsSeq == ASSUME NEW S, NEW n \in Nat, NEW f \in [1..n -> S] PROVE f \in Seq(S) /\ Len(f) = n
OBVIOUS

LEMMA CandidateIs ==
  ASSUME world \in Worlds, NEW c \in RagFragments, NEW b \in {"original", "rewritten"}
  PROVE  /\ Candidate(c, world[c].original, "original") \in CandidateSet
         /\ Candidate(c, world[c].rewritten, "rewritten") \in CandidateSet
         /\ \A x, y : Candidate(c, x, y).id = c
         /\ Found(Candidate(c, world[c].original, "original"), FALSE)
         /\ Found(Candidate(c, world[c].original, "original"), TRUE)
         /\ Found(Candidate(c, world[c].rewritten, "rewritten"), TRUE)
<1>1. world[c].original \in Int /\ world[c].rewritten \in Int
  BY WorldOK
<1> QED
  BY <1>1 DEF Candidate, CandidateSet, Found

LEMMA RetrievedOK ==
  ASSUME world \in Worlds,
         NEW s, s = [i \in 1..Len(BestBy("original")) |->
                       Candidate(BestBy("original")[i], world[BestBy("original")[i]].original, "original")]
  PROVE  /\ s \in Seq(CandidateSet) /\ UniqueIds(s) /\ \A i \in 1..Len(s) : Found(s[i], FALSE)
<1> DEFINE hits == BestBy("original")
<1>1. hits \in Seq(RagFragments) /\ Distinct(hits)
  BY BestByOK
<1> HIDE DEF hits
<1>2. Len(hits) \in Nat /\ \A i \in 1..Len(hits) : hits[i] \in RagFragments
  BY <1>1
<1>3. s = [i \in 1..Len(hits) |-> Candidate(hits[i], world[hits[i]].original, "original")]
  BY DEF hits
<1>4. ASSUME NEW i \in 1..Len(hits) PROVE s[i] \in CandidateSet /\ s[i].id = hits[i] /\ Found(s[i], FALSE)
  <2>1. s[i] = Candidate(hits[i], world[hits[i]].original, "original") /\ hits[i] \in RagFragments
    BY <1>2, <1>3
  <2>2. /\ Candidate(hits[i], world[hits[i]].original, "original") \in CandidateSet
        /\ Candidate(hits[i], world[hits[i]].original, "original").id = hits[i]
        /\ Found(Candidate(hits[i], world[hits[i]].original, "original"), FALSE)
    BY <2>1, CandidateIs
  <2> QED
    BY <2>1, <2>2
<1>5. s \in [1..Len(hits) -> CandidateSet]
  BY <1>3, <1>4
<1>6. s \in Seq(CandidateSet) /\ Len(s) = Len(hits)
  BY <1>2, <1>5, AsSeq
<1>7. UniqueIds(s)
  <2>1. ASSUME NEW i \in 1..Len(hits), NEW j \in 1..Len(hits), s[i].id = s[j].id PROVE i = j
    <3>1. hits[i] = hits[j]
      BY <1>4, <2>1
    <3> QED
      BY <1>1, <3>1 DEF Distinct
  <2> QED
    BY <1>6, <2>1 DEF UniqueIds
<1> QED
  BY <1>4, <1>6, <1>7

LEMMA MergedOK ==
  ASSUME world \in Worlds, NEW s \in Seq(CandidateSet), UniqueIds(s), \A i \in 1..Len(s) : Found(s[i], FALSE)
  PROVE  /\ RagMerged(s) \in Seq(CandidateSet) /\ UniqueIds(RagMerged(s))
         /\ \A i \in 1..Len(RagMerged(s)) : Found(RagMerged(s)[i], TRUE)
<1> DEFINE hits == BestBy("rewritten")
           known == [i \in 1..Len(s) |->
             IF Contains(hits, s[i].id)
             THEN [s[i] EXCEPT !.by = "both", !.cos = IF world[s[i].id].rewritten > @ THEN world[s[i].id].rewritten ELSE @]
             ELSE s[i]]
           fresh == ToSet(hits) \ Ids(s)
           new == InOrder(fresh, Closer("rewritten"))
           added == [i \in 1..Len(new) |-> Candidate(new[i], world[new[i]].rewritten, "rewritten")]
<1>1. RagMerged(s) = known \o added
  BY DEF RagMerged
<1>2. hits \in Seq(RagFragments)
  BY BestByOK
<1>3. IsFiniteSet(fresh) /\ fresh \subseteq RagFragments
  <2>1. IsFiniteSet(ToSet(hits)) /\ ToSet(hits) \subseteq RagFragments
    BY <1>2, ToSetFinite
  <2> QED
    BY <2>1, FS_Subset
<1>4. Len(s) \in Nat /\ \A i \in 1..Len(s) : s[i] \in CandidateSet
  OBVIOUS
<1>5. ASSUME NEW i \in 1..Len(s) PROVE known[i] \in CandidateSet /\ known[i].id = s[i].id /\ Found(known[i], TRUE)
  <2>1. s[i] \in CandidateSet /\ Found(s[i], FALSE) /\ s[i].id \in RagFragments
    BY <1>4 DEF CandidateSet
  <2>2. world[s[i].id].rewritten \in Int
    BY <2>1, WorldOK
  <2> DEFINE x == IF world[s[i].id].rewritten > s[i].cos THEN world[s[i].id].rewritten ELSE s[i].cos
             e == [s[i] EXCEPT !.by = "both", !.cos = x]
  <2>3. x \in Int /\ (x = world[s[i].id].original \/ x = world[s[i].id].rewritten)
    BY <2>1, <2>2 DEF Found, CandidateSet
  <2>4. known[i] = IF Contains(hits, s[i].id) THEN e ELSE s[i]
    BY <2>1 DEF CandidateSet
  <2> HIDE DEF x, known
  <2>5. e \in CandidateSet
    BY <2>1, <2>3 DEF CandidateSet
  <2>6. e.by = "both" /\ e.cos = x /\ e.id = s[i].id /\ e.fts = s[i].fts /\ e.exempt = s[i].exempt
    BY <2>1 DEF CandidateSet
  <2> HIDE DEF e
  <2>7. Found(e, TRUE) /\ Found(s[i], TRUE)
    BY <2>1, <2>3, <2>6 DEF Found
  <2> QED
    BY <2>1, <2>4, <2>5, <2>6, <2>7
<1>6. new \in Seq(fresh) /\ Distinct(new)
  <2>1. Orders(Closer("rewritten"), fresh)
    BY <1>3, CloserOrders, OrdersSubset
  <2> HIDE DEF fresh
  <2> QED
    BY <1>3, <2>1, InOrderIs DEF Distinct
<1>7. \A i \in 1..Len(s) : s[i].id \notin fresh
  BY DEF Ids
<1> HIDE DEF fresh
<1>8. Len(new) \in Nat /\ \A i \in 1..Len(new) : new[i] \in fresh /\ new[i] \in RagFragments
  BY <1>3, <1>6
<1> HIDE DEF new
<1>9. \A i \in 1..Len(new) : added[i] \in CandidateSet /\ added[i].id = new[i] /\ Found(added[i], TRUE)
  BY <1>8, CandidateIs
<1>10. known \in Seq(CandidateSet) /\ Len(known) = Len(s)
  <2>1. known \in [1..Len(s) -> CandidateSet]
    BY <1>5
  <2> HIDE DEF known
  <2> QED
    BY <1>4, <2>1, AsSeq
<1>11. added \in Seq(CandidateSet) /\ Len(added) = Len(new)
  <2>1. added \in [1..Len(new) -> CandidateSet]
    BY <1>9
  <2> HIDE DEF added
  <2> QED
    BY <1>8, <2>1, AsSeq
<1> HIDE DEF known, added
<1> DEFINE m == known \o added
<1>12. m \in Seq(CandidateSet) /\ Len(m) = Len(s) + Len(new)
  BY <1>10, <1>11
<1>13. ASSUME NEW i \in 1..Len(m)
       PROVE  \/ i \in 1..Len(s) /\ m[i] = known[i]
              \/ i - Len(s) \in 1..Len(new) /\ m[i] = added[i - Len(s)] /\ i \notin 1..Len(s)
  BY <1>4, <1>8, <1>10, <1>11, <1>12
<1>14. ASSUME NEW i \in 1..Len(m) PROVE Found(m[i], TRUE)
  BY <1>5, <1>9, <1>13
<1>15. ASSUME NEW i \in 1..Len(m), NEW j \in 1..Len(m), m[i].id = m[j].id PROVE i = j
  <2>1. CASE i \in 1..Len(s) /\ j \in 1..Len(s)
    BY <1>5, <1>13, <1>15, <2>1 DEF UniqueIds
  <2>2. CASE i \notin 1..Len(s) /\ j \notin 1..Len(s)
    <3>1. new[i - Len(s)] = new[j - Len(s)] /\ i - Len(s) \in 1..Len(new) /\ j - Len(s) \in 1..Len(new)
      BY <1>9, <1>13, <1>15, <2>2
    <3>2. i - Len(s) = j - Len(s)
      BY <1>6, <3>1 DEF Distinct
    <3> QED
      BY <1>4, <3>2
  <2>3. CASE i \in 1..Len(s) /\ j \notin 1..Len(s)
    <3>1. m[i].id = s[i].id
      BY <1>5, <1>13, <2>3
    <3>2. m[j].id = new[j - Len(s)] /\ new[j - Len(s)] \in fresh
      BY <1>8, <1>9, <1>13, <2>3
    <3> QED
      BY <1>7, <1>15, <2>3, <3>1, <3>2
  <2>4. CASE i \notin 1..Len(s) /\ j \in 1..Len(s)
    <3>1. m[j].id = s[j].id
      BY <1>5, <1>13, <2>4
    <3>2. m[i].id = new[i - Len(s)] /\ new[i - Len(s)] \in fresh
      BY <1>8, <1>9, <1>13, <2>4
    <3> QED
      BY <1>7, <1>15, <2>4, <3>1, <3>2
  <2> QED
    BY <2>1, <2>2, <2>3, <2>4
<1> QED
  BY <1>1, <1>12, <1>14, <1>15 DEF UniqueIds

(* The stages.                                                             *)

PassedCut(c) ==
  /\ c \in RagFragments
  /\ \/ world[c].original >= Threshold
     \/ world[c].rewritten >= Threshold /\ ragConfig.rewrite /\ "rewrite" \notin skipped
     \/ world[c].keyword /\ ragConfig.hybrid /\ "hybrid" \notin skipped

SurvivorsOK == survivors \in Seq(RagFragments) /\ \A i \in 1..Len(survivors) : PassedCut(survivors[i])

Early == {"start", "retrieving", "rewriting", "hybrid", "cutting", "lexical", "reranking", "picking"}

StageOK ==
  /\ ragPc \in Early \cup {"asking", "answered"}
  /\ ragPc \in {"start", "retrieving", "rewriting"} => skipped = {}
  /\ ragPc \in {"start", "retrieving"} => candidates = <<>>
  /\ ragPc = "rewriting" => \A i \in 1..Len(candidates) : Found(candidates[i], FALSE)
  /\ ragPc = "hybrid" => "hybrid" \notin skipped /\ \A i \in 1..Len(candidates) : Found(candidates[i], Rewritten)
  /\ ragPc = "cutting" => \A i \in 1..Len(candidates) : ~candidates[i].exempt
  /\ ragPc \in {"start", "retrieving", "rewriting", "hybrid", "cutting"} => survivors = <<>>

ConfigType ==
  [mode : {"off", "rag"}, base : BOOLEAN, strict : BOOLEAN, topK : TopKs, client : BOOLEAN,
   rewrite : BOOLEAN, hybrid : BOOLEAN, lexical : BOOLEAN, llm : BOOLEAN, used : UsedTokens,
   maxTokens : MaxTokens]

(* The payload: its trace explains its sources, which passed the cut.      *)
PayloadShape(p) ==
  p = [mode |-> p.mode, verdict |-> p.verdict, gated |-> p.gated, strict |-> p.strict,
       warning |-> p.warning, sources |-> p.sources, dropped |-> p.dropped, tokens |-> p.tokens,
       trace |-> p.trace, quotes |-> p.quotes, cited |-> p.cited, invalid |-> p.invalid,
       supported |-> p.supported, byModel |-> p.byModel]

Explains(trace, sources) ==
  \A i \in 1..Len(trace) :
    (trace[i].status = "in_answer") <=> \E n \in 1..Len(sources) : sources[n] = trace[i].id /\ trace[i].after = n
Explained(p) == Explains(p.trace, p.sources)

PayloadOK ==
  /\ PayloadShape(payload) /\ payload.sources \in Seq(RagFragments)
  /\ \A n \in 1..Len(payload.sources) : PassedCut(payload.sources[n])
  /\ Explained(payload)
  /\ ragPc \in Early => payload = NoPayload
  /\ ragPc = "asking" =>
       /\ payload.gated = FALSE /\ payload.byModel = FALSE /\ payload.quotes = <<>>
       /\ ragConfig.mode = "rag" /\ ragConfig.strict =>
            payload.warning \/ (payload.sources # <<>> /\ outbound = "block")
  /\ StrictIsGrounded /\ QuotesStand

RagInv ==
  /\ ragConfig \in ConfigType /\ world \in Worlds
  /\ CandidatesOK /\ SurvivorsOK /\ StageOK /\ PayloadOK

LEMMA NoPayloadOK ==
  /\ PayloadShape(NoPayload) /\ NoPayload.sources = <<>> /\ NoPayload.trace = <<>> /\ NoPayload.quotes = <<>>
  /\ NoPayload.gated = FALSE /\ NoPayload.byModel = FALSE /\ NoPayload.mode = "off" /\ NoPayload.warning = FALSE
BY DEF PayloadShape, NoPayload

(* A stage before the gate leaves the payload empty. *)
LEMMA EarlyPayload ==
  ASSUME payload' = NoPayload, ragPc' \in Early, ragConfig' \in ConfigType PROVE PayloadOK'
<1>1. <<>> \in Seq(RagFragments)' /\ Len(<<>>) = 0 /\ 1..0 = {}
  OBVIOUS
<1>2. ragPc' # "asking" /\ ragPc' # "answered"
  BY DEF Early
<1>3. payload'.sources = <<>> /\ payload'.trace = <<>> /\ payload'.quotes = <<>> /\ PayloadShape(payload')
  BY NoPayloadOK
<1>4. Explained(payload)' /\ QuotesStand'
  BY <1>1, <1>3 DEF Explained, Explains, QuotesStand
<1>5. StrictIsGrounded'
  BY <1>2 DEF StrictIsGrounded
<1>6. PayloadShape(payload)'
  BY <1>3 DEF PayloadShape
<1> QED
  BY <1>1, <1>2, <1>3, <1>4, <1>5, <1>6 DEF PayloadOK

LEMMA NothingFound ==
  ASSUME candidates = <<>>, survivors = <<>> PROVE CandidatesOK /\ SurvivorsOK
BY DEF CandidatesOK, SurvivorsOK, UniqueIds

LEMMA RagStart == RagInit => RagInv
<1> SUFFICES ASSUME RagInit PROVE RagInv
  OBVIOUS
<1>1. ragConfig \in ConfigType /\ world \in Worlds /\ ragPc = "start" /\ candidates = <<>> /\ survivors = <<>>
      /\ skipped = {} /\ payload = NoPayload
  BY DEF RagInit, ConfigType
<1>2. StageOK
  BY <1>1 DEF StageOK, Early
<1>3. CandidatesOK /\ SurvivorsOK
  BY <1>1, NothingFound
<1>4. PayloadOK
  <2>1. Len(<<>>) = 0 /\ 1..0 = {} /\ <<>> \in Seq(RagFragments)
    OBVIOUS
  <2> QED
    BY <1>1, <2>1, NoPayloadOK DEF PayloadOK, Explained, Explains, StrictIsGrounded, QuotesStand
<1> QED
  BY <1>1, <1>2, <1>3, <1>4 DEF RagInv

(* What the stages after the cut skip is of no account for candidates.     *)
LEMMA SameGrounds ==
  ASSUME UNCHANGED <<ragConfig, world>>, skipped' \in {skipped, skipped \cup {"lexical"}, skipped \cup {"llm"}}
  PROVE  /\ CandidateSet' = CandidateSet /\ RagFragments' = RagFragments /\ Rewritten' = Rewritten
         /\ Hybridised' = Hybridised
         /\ \A e : CandidateOK(e)' <=> CandidateOK(e)
         /\ \A e : Found(e, TRUE)' <=> Found(e, TRUE)
         /\ \A e : Found(e, FALSE)' <=> Found(e, FALSE)
         /\ \A c : PassedCut(c)' <=> PassedCut(c)
BY DEF CandidateSet, RagFragments, Rewritten, Hybridised, CandidateOK, Found, PassedCut

LEMMA SurvivorsStay ==
  ASSUME SurvivorsOK, UNCHANGED <<ragConfig, world, survivors>>,
         skipped' \in {skipped, skipped \cup {"lexical"}, skipped \cup {"llm"}}
  PROVE  SurvivorsOK'
BY SameGrounds DEF SurvivorsOK

LEMMA CandidatesStay ==
  ASSUME CandidatesOK, UNCHANGED <<ragConfig, world, candidates>>,
         skipped' \in {skipped, skipped \cup {"lexical"}, skipped \cup {"llm"}}
  PROVE  CandidatesOK'
BY SameGrounds DEF CandidatesOK, UniqueIds

LEMMA FoundOK ==
  ASSUME NEW e, NEW two \in BOOLEAN, Found(e, two), two => Rewritten PROVE CandidateOK(e)
BY DEF Found, CandidateOK

LEMMA RetrievesStep == ASSUME RagInv, Retrieves PROVE RagInv'
<1>1. ragPc = "retrieving" /\ ragPc' = "rewriting" /\ UNCHANGED <<ragConfig, world, skipped, survivors, payload>>
  BY DEF Retrieves, RagGoes
<1>2. /\ ragConfig \in ConfigType /\ world \in Worlds /\ skipped = {} /\ payload = NoPayload
      /\ SurvivorsOK /\ survivors = <<>>
  BY <1>1 DEF RagInv, StageOK, PayloadOK, Early
<1>3. candidates' = [i \in 1..Len(BestBy("original")) |->
                       Candidate(BestBy("original")[i], world[BestBy("original")[i]].original, "original")]
  BY DEF Retrieves
<1>4. /\ candidates' \in Seq(CandidateSet) /\ UniqueIds(candidates')
      /\ \A i \in 1..Len(candidates') : Found(candidates'[i], FALSE)
  BY <1>2, <1>3, RetrievedOK
<1>5. CandidatesOK'
  <2>1. \A i \in 1..Len(candidates') : CandidateOK(candidates'[i])
    BY <1>4, FoundOK
  <2> QED
    BY <1>1, <1>4, <2>1, SameGrounds DEF CandidatesOK, UniqueIds
<1>6. StageOK'
  BY <1>1, <1>2, <1>4, SameGrounds DEF StageOK, Early
<1>7. PayloadOK'
  BY <1>1, <1>2, EarlyPayload DEF Early
<1>8. SurvivorsOK'
  BY <1>1, <1>2, SurvivorsStay
<1> QED
  BY <1>1, <1>2, <1>5, <1>6, <1>7, <1>8 DEF RagInv

LEMMA StageStep ==
  ASSUME RagInv, UNCHANGED <<ragConfig, world, payload>>, ragPc \in Early, ragPc' \in Early,
         CandidatesOK', SurvivorsOK', StageOK'
  PROVE  RagInv'
<1>1. ragConfig' \in ConfigType /\ world' \in Worlds /\ payload' = NoPayload
  BY DEF RagInv, PayloadOK, ConfigType
<1> QED
  BY <1>1, EarlyPayload DEF RagInv, ConfigType

LEMMA EmptySurvivors == ASSUME survivors' = <<>> PROVE SurvivorsOK'
BY DEF SurvivorsOK

LEMMA RewritesStep == ASSUME RagInv, Rewrites PROVE RagInv'
<1>1. ragPc = "rewriting" /\ ragPc' = "hybrid" /\ UNCHANGED <<ragConfig, world, survivors, payload>>
  BY DEF Rewrites, RagGoes
<1>2. /\ world \in Worlds /\ skipped = {} /\ survivors = <<>> /\ CandidatesOK
      /\ \A i \in 1..Len(candidates) : Found(candidates[i], FALSE)
  BY <1>1 DEF RagInv, StageOK
<1>3. CASE UNCHANGED <<candidates, skipped>>
  <2>1. CandidatesOK'
    BY <1>1, <1>2, <1>3, CandidatesStay
  <2>2. (\A i \in 1..Len(candidates) : Found(candidates[i], Rewritten))'
    BY <1>1, <1>2, <1>3 DEF Found
  <2>3. StageOK'
    BY <1>1, <1>2, <1>3, <2>2 DEF StageOK, Early
  <2> QED
    BY <1>1, <1>2, <2>1, <2>3, EmptySurvivors, StageStep DEF Early
<1>4. CASE skipped' = skipped \cup {"rewrite"} /\ UNCHANGED candidates
  <2>1. (\A i \in 1..Len(candidates) : Found(candidates[i], Rewritten) /\ CandidateOK(candidates[i]))'
    BY <1>1, <1>2, <1>4 DEF Found, CandidateOK
  <2>2. CandidatesOK'
    BY <1>1, <1>2, <1>4, <2>1 DEF CandidatesOK, UniqueIds, CandidateSet, RagFragments
  <2>3. StageOK'
    BY <1>1, <1>2, <1>4, <2>1 DEF StageOK, Early
  <2> QED
    BY <1>1, <1>2, <2>2, <2>3, EmptySurvivors, StageStep DEF Early
<1>5. CASE ragConfig.rewrite /\ candidates' = ByCosine(RagMerged(candidates)) /\ UNCHANGED skipped
  <2> DEFINE m == RagMerged(candidates)
  <2>1. m \in Seq(CandidateSet) /\ UniqueIds(m) /\ \A i \in 1..Len(m) : Found(m[i], TRUE)
    BY <1>2, MergedOK DEF CandidatesOK
  <2> HIDE DEF m
  <2>2. candidates' = ByCosine(m)
    BY <1>5 DEF m
  <2>3. \A i \in 1..Len(m) : m[i] \in CandidateSet /\ m[i].cos \in Int
    <3>1. \A i \in 1..Len(m) : m[i] \in CandidateSet
      BY <2>1
    <3> QED
      BY <3>1 DEF CandidateSet
  <2>4. candidates' \in Seq(ToSet(m)) /\ UniqueIds(candidates')
    BY <2>1, <2>2, <2>3, ByCosineOK
  <2>5. \A e \in ToSet(m) : e \in CandidateSet /\ Found(e, TRUE)
    <3>1. \A e \in ToSet(m) : \E i \in 1..Len(m) : m[i] = e
      BY <2>1 DEF ToSet
    <3> QED
      BY <2>1, <2>3, <3>1
  <2> DEFINE T == ToSet(m)
  <2>6. \A i \in 1..Len(candidates') : candidates'[i] \in CandidateSet /\ Found(candidates'[i], TRUE)
    <3>1. candidates' \in Seq(T) /\ \A e \in T : e \in CandidateSet /\ Found(e, TRUE)
      BY <2>4, <2>5
    <3> HIDE DEF T
    <3>2. \A i \in 1..Len(candidates') : candidates'[i] \in T
      BY <3>1
    <3> QED
      BY <3>1, <3>2
  <2>7. candidates' \in Seq(CandidateSet)
    <3>1. candidates' \in Seq(T) /\ T \subseteq CandidateSet
      BY <2>4, <2>5
    <3> HIDE DEF T
    <3>2. Len(candidates') \in Nat /\ candidates' \in [1..Len(candidates') -> CandidateSet]
      BY <3>1
    <3> QED
      BY <3>2, AsSeq
  <2>8. Rewritten /\ Rewritten'
    BY <1>1, <1>2, <1>5 DEF Rewritten
  <2>9. (\A i \in 1..Len(candidates) : Found(candidates[i], Rewritten))'
    BY <1>1, <2>6, <2>8 DEF Found
  <2>12. \A i \in 1..Len(candidates') : CandidateOK(candidates'[i])
    BY <2>6, <2>8, FoundOK
  <2>10. CandidatesOK'
    BY <1>1, <1>5, <2>4, <2>7, <2>12, SameGrounds DEF CandidatesOK, UniqueIds
  <2>11. StageOK'
    BY <1>1, <1>2, <1>5, <2>9 DEF StageOK, Early
  <2> QED
    BY <1>1, <1>2, <2>10, <2>11, EmptySurvivors, StageStep DEF Early
<1> QED
  BY <1>3, <1>4, <1>5 DEF Rewrites

LEMMA NoHybridStep == ASSUME RagInv, NoHybrid PROVE RagInv'
<1>1. ragPc = "hybrid" /\ ragPc' = "cutting" /\ UNCHANGED <<ragConfig, world, candidates, survivors, skipped, payload>>
  BY DEF NoHybrid, RagGoes
<1>2. CandidatesOK /\ survivors = <<>> /\ \A i \in 1..Len(candidates) : Found(candidates[i], Rewritten)
  BY <1>1 DEF RagInv, StageOK
<1>3. CandidatesOK' /\ SurvivorsOK'
  BY <1>1, <1>2, CandidatesStay, EmptySurvivors
<1>4. StageOK'
  BY <1>1, <1>2 DEF StageOK, Early, Found
<1> QED
  BY <1>1, <1>3, <1>4, StageStep DEF Early

LEMMA FtsOnlyIs ==
  ASSUME world \in Worlds, CandidatesOK, NEW c \in RagFragments
  PROVE  FtsOnly(c) \in CandidateSet /\ FtsOnly(c).id = c /\ Found(FtsOnly(c), Rewritten)
<1>1. (\E i \in 1..Len(candidates) : candidates[i].by # "original") => Rewritten
  BY DEF CandidatesOK, CandidateOK
<1>2. /\ Candidate(c, world[c].original, "original") \in CandidateSet
      /\ Candidate(c, world[c].rewritten, "rewritten") \in CandidateSet
      /\ Found(Candidate(c, world[c].original, "original"), FALSE)
      /\ Found(Candidate(c, world[c].rewritten, "rewritten"), TRUE)
      /\ Candidate(c, world[c].original, "original").id = c
      /\ Candidate(c, world[c].rewritten, "rewritten").id = c
  BY CandidateIs
<1> DEFINE e1 == Candidate(c, world[c].original, "original")
           e2 == Candidate(c, world[c].rewritten, "rewritten")
<1>3. FtsOnly(c) = e1 \/ (FtsOnly(c) = e2 /\ Rewritten)
  BY <1>1 DEF FtsOnly
<1>4. Found(e1, Rewritten)
  BY <1>2 DEF Found
<1>5. CASE FtsOnly(c) = e1
  BY <1>2, <1>4, <1>5
<1>6. CASE FtsOnly(c) = e2 /\ Rewritten
  <2>1. Found(e2, Rewritten)
    BY <1>2, <1>6 DEF Found
  <2> QED
    BY <1>2, <1>6, <2>1
<1> QED
  BY <1>3, <1>5, <1>6

(* What the fusion makes of the candidates and the fragments the keywords  *)
(* found.                                                                  *)
Fused(fts, known, order) ==
  [i \in 1..Len(order) |-> [(CHOOSE e \in known : e.id = order[i]) EXCEPT !.fts = RankIn(fts, order[i])]]

LEMMA FusedOK ==
  ASSUME world \in Worlds, CandidatesOK, Hybridised, \A i \in 1..Len(candidates) : ~candidates[i].exempt,
         NEW hits \in SUBSET RagFragments, NEW fts \in SetToSeqs(hits),
         NEW known, known = ToSet(candidates) \cup {FtsOnly(c) : c \in hits \ Ids(candidates)},
         NEW order, order = RrfOrder([i \in 1..Len(candidates) |-> candidates[i].id], fts),
         NEW s, s = Fused(fts, known, order)
  PROVE  /\ s \in Seq(CandidateSet) /\ UniqueIds(s)
         /\ \A i \in 1..Len(s) : CandidateOK(s[i]) /\ ~s[i].exempt
<1> DEFINE ids == [i \in 1..Len(candidates) |-> candidates[i].id]
           entry(c) == CHOOSE e \in known : e.id = c
<1>1. Len(candidates) \in Nat /\ \A i \in 1..Len(candidates) : candidates[i] \in CandidateSet
  BY DEF CandidatesOK
<1>2. ids \in Seq(RagFragments)
  <2>1. ids \in [1..Len(candidates) -> RagFragments]
    BY <1>1 DEF CandidateSet
  <2> HIDE DEF ids
  <2> QED
    BY <1>1, <2>1, AsSeq
<1>3. fts \in Seq(RagFragments) /\ ToSet(fts) \subseteq hits
  <2>1. IsFiniteSet(hits)
    BY WorldOK, FS_Subset
  <2>2. Cardinality(hits) \in Nat
    BY <2>1, FS_CardinalityType
  <2>3. fts \in [1..Cardinality(hits) -> hits]
    BY DEF SetToSeqs
  <2>4. fts \in Seq(hits)
    BY <2>2, <2>3
  <2> QED
    BY <2>4, ToSetFinite
<1>4. ToSet(ids) = Ids(candidates)
  BY DEF ToSet, Ids
<1> HIDE DEF ids
<1>5. order \in Seq(ToSet(ids) \cup ToSet(fts)) /\ Distinct(order)
  <2>1. order = RrfOrder(ids, fts)
    BY DEF ids
  <2> QED
    BY <1>2, <1>3, <2>1, RrfOrderOK
<1>6. Len(order) \in Nat /\ \A i \in 1..Len(order) : order[i] \in Ids(candidates) \cup hits
  <2> DEFINE U == ToSet(ids) \cup ToSet(fts)
  <2>1. U \subseteq Ids(candidates) \cup hits
    BY <1>3, <1>4
  <2>2. order \in Seq(U)
    BY <1>5
  <2> HIDE DEF U
  <2>3. Len(order) \in Nat /\ \A i \in 1..Len(order) : order[i] \in U
    BY <2>2
  <2> QED
    BY <2>1, <2>3
<1>7. ASSUME NEW e \in known PROVE e \in CandidateSet /\ CandidateOK(e) /\ ~e.exempt
  <2>1. CASE e \in ToSet(candidates)
    <3>1. PICK i \in 1..Len(candidates) : e = candidates[i]
      BY <2>1 DEF ToSet, CandidatesOK
    <3> QED
      BY <1>1, <3>1 DEF CandidatesOK
  <2>2. CASE e \in {FtsOnly(c) : c \in hits \ Ids(candidates)}
    <3>1. PICK c \in hits : e = FtsOnly(c)
      BY <2>2
    <3>2. c \in RagFragments
      OBVIOUS
    <3>3. e \in CandidateSet /\ Found(e, Rewritten)
      BY <3>1, <3>2, FtsOnlyIs
    <3> QED
      BY <3>3 DEF Found, CandidateOK
  <2> QED
    BY <2>1, <2>2
<1>8. ASSUME NEW c \in Ids(candidates) \cup hits PROVE entry(c) \in known /\ entry(c).id = c
  <2>1. CASE c \in Ids(candidates)
    <3>1. PICK i \in 1..Len(candidates) : candidates[i].id = c
      BY <2>1 DEF Ids
    <3>2. candidates[i] \in known
      BY DEF ToSet, CandidatesOK
    <3> QED
      BY <3>1, <3>2
  <2>2. CASE c \notin Ids(candidates)
    <3>1. c \in hits \ Ids(candidates) /\ c \in RagFragments
      BY <2>2
    <3>2. FtsOnly(c) \in known /\ FtsOnly(c).id = c
      BY <3>1, FtsOnlyIs
    <3> QED
      BY <3>2
  <2> QED
    BY <2>1, <2>2
<1>9. s = [i \in 1..Len(order) |-> [entry(order[i]) EXCEPT !.fts = RankIn(fts, order[i])]]
  BY DEF Fused
<1> HIDE DEF entry
<1>10. ASSUME NEW i \in 1..Len(order)
       PROVE  s[i] \in CandidateSet /\ s[i].id = order[i] /\ CandidateOK(s[i]) /\ ~s[i].exempt
  <2> DEFINE e == entry(order[i])
             k == RankIn(fts, order[i])
             u == [e EXCEPT !.fts = k]
  <2>1. s[i] = u
    BY <1>9
  <2>2. e \in known /\ e.id = order[i]
    BY <1>6, <1>8
  <2>3. e \in CandidateSet /\ CandidateOK(e) /\ ~e.exempt
    BY <1>7, <2>2
  <2>4. k \in Nat
    BY <1>3, RankInIs
  <2> HIDE DEF e, k
  <2>5. u \in CandidateSet
    BY <2>3, <2>4 DEF CandidateSet
  <2>6. u.id = e.id /\ u.cos = e.cos /\ u.by = e.by /\ u.exempt = e.exempt
    BY <2>3 DEF CandidateSet
  <2> HIDE DEF u
  <2>7. CandidateOK(u)
    BY <2>3, <2>6 DEF CandidateOK
  <2> QED
    BY <2>1, <2>2, <2>3, <2>5, <2>6, <2>7
<1>11. s \in Seq(CandidateSet) /\ Len(s) = Len(order)
  <2>1. s \in [1..Len(order) -> CandidateSet]
    BY <1>9, <1>10
  <2> QED
    BY <1>6, <2>1, AsSeq
<1>12. ASSUME NEW i \in 1..Len(s), NEW j \in 1..Len(s), s[i].id = s[j].id PROVE i = j
  <2>1. i \in 1..Len(order) /\ j \in 1..Len(order)
    BY <1>11
  <2>2. order[i] = order[j]
    BY <1>10, <1>12, <2>1
  <2> QED
    BY <1>5, <2>1, <2>2 DEF Distinct
<1>13. UniqueIds(s)
  BY <1>12 DEF UniqueIds
<1> QED
  BY <1>10, <1>11, <1>13

LEMMA HybridStep == ASSUME RagInv, Hybrid PROVE RagInv'
<1>1. ragPc = "hybrid" /\ ragPc' = "cutting" /\ UNCHANGED <<ragConfig, world, survivors, payload>> /\ ragConfig.hybrid
  BY DEF Hybrid, RagGoes
<1>2. /\ world \in Worlds /\ CandidatesOK /\ survivors = <<>> /\ "hybrid" \notin skipped
      /\ \A i \in 1..Len(candidates) : Found(candidates[i], Rewritten)
  BY <1>1 DEF RagInv, StageOK
<1>3. CASE skipped' = skipped \cup {"hybrid"} /\ UNCHANGED candidates
  <2>1. Rewritten' = Rewritten
    BY <1>1, <1>3 DEF Rewritten
  <2>2. (\A i \in 1..Len(candidates) : CandidateOK(candidates[i]))'
    BY <1>1, <1>2, <1>3, <2>1 DEF Found, CandidateOK
  <2>3. CandidatesOK'
    BY <1>1, <1>2, <1>3, <2>2 DEF CandidatesOK, UniqueIds, CandidateSet, RagFragments
  <2>4. StageOK'
    BY <1>1, <1>2, <1>3 DEF StageOK, Early, Found
  <2> QED
    BY <1>1, <1>2, <2>3, <2>4, EmptySurvivors, StageStep DEF Early
<1>4. CASE ~(skipped' = skipped \cup {"hybrid"} /\ UNCHANGED candidates)
  <2>1. PICK hits \in SUBSET RagFragments :
          \E fts \in SetToSeqs(hits) :
            /\ Len(fts) <= CandidateK
            /\ LET known == ToSet(candidates) \cup {FtsOnly(c) : c \in hits \ Ids(candidates)}
                   order == RrfOrder([i \in 1..Len(candidates) |-> candidates[i].id], fts)
                   entry(c) == CHOOSE e \in known : e.id = c
               IN candidates' = [i \in 1..Len(order) |->
                    [entry(order[i]) EXCEPT !.fts = RankIn(fts, order[i])]]
            /\ UNCHANGED skipped
    BY <1>4 DEF Hybrid
  <2>2. PICK fts \in SetToSeqs(hits) :
            /\ LET known == ToSet(candidates) \cup {FtsOnly(c) : c \in hits \ Ids(candidates)}
                   order == RrfOrder([i \in 1..Len(candidates) |-> candidates[i].id], fts)
                   entry(c) == CHOOSE e \in known : e.id = c
               IN candidates' = [i \in 1..Len(order) |->
                    [entry(order[i]) EXCEPT !.fts = RankIn(fts, order[i])]]
            /\ UNCHANGED skipped
    BY <2>1
  <2> DEFINE known == ToSet(candidates) \cup {FtsOnly(c) : c \in hits \ Ids(candidates)}
             order == RrfOrder([i \in 1..Len(candidates) |-> candidates[i].id], fts)
  <2>3. candidates' = Fused(fts, known, order) /\ UNCHANGED skipped
    BY <2>2 DEF Fused
  <2>4. Hybridised /\ \A i \in 1..Len(candidates) : ~candidates[i].exempt
    BY <1>1, <1>2 DEF Hybridised, Found
  <2>5. /\ candidates' \in Seq(CandidateSet) /\ UniqueIds(candidates')
        /\ \A i \in 1..Len(candidates') : CandidateOK(candidates'[i]) /\ ~candidates'[i].exempt
    <3>1. known = ToSet(candidates) \cup {FtsOnly(c) : c \in hits \ Ids(candidates)}
          /\ order = RrfOrder([i \in 1..Len(candidates) |-> candidates[i].id], fts)
      OBVIOUS
    <3> HIDE DEF known, order
    <3> QED
      BY <1>2, <2>3, <2>4, <3>1, FusedOK
  <2> HIDE DEF known, order
  <2>6. CandidatesOK'
    BY <1>1, <2>3, <2>5, SameGrounds DEF CandidatesOK, UniqueIds
  <2>7. StageOK'
    BY <1>1, <1>2, <2>5 DEF StageOK, Early
  <2> QED
    BY <1>1, <1>2, <2>6, <2>7, EmptySurvivors, StageStep DEF Early
<1> QED
  BY <1>3, <1>4

(* The cut: what passes it has the cosine, or is a keyword hit.            *)
LEMMA PassesShown ==
  ASSUME world \in Worlds, NEW e \in CandidateSet, CandidateOK(e), Passes(e) PROVE PassedCut(e.id)
BY DEF CandidateSet, CandidateOK, Passes, PassedCut, Rewritten, Hybridised

LEMMA JudgedOK ==
  ASSUME NEW e \in CandidateSet, CandidateOK(e), ~e.exempt,
         NEW j, j = IF ~Passes(e) THEN [e EXCEPT !.status = "below_threshold"]
                    ELSE [e EXCEPT !.exempt = e.cos < Threshold]
  PROVE  j \in CandidateSet /\ j.id = e.id /\ CandidateOK(j)
<1>1. CASE ~Passes(e)
  <2> DEFINE u == [e EXCEPT !.status = "below_threshold"]
  <2>1. u \in CandidateSet
    BY DEF CandidateSet
  <2>2. u.id = e.id /\ u.cos = e.cos /\ u.by = e.by /\ u.fts = e.fts /\ u.exempt = e.exempt
    BY DEF CandidateSet
  <2>3. j = u
    BY <1>1
  <2> HIDE DEF u
  <2>4. CandidateOK(u)
    BY <2>2 DEF CandidateOK
  <2> QED
    BY <2>1, <2>2, <2>3, <2>4
<1>2. CASE Passes(e)
  <2> DEFINE x == e.cos < Threshold
             u == [e EXCEPT !.exempt = x]
  <2>1. x \in BOOLEAN /\ (x => Hybridised)
    BY <1>2, RetrievalAssumption DEF Passes, Hybridised, CandidateSet
  <2>2. j = u
    BY <1>2
  <2> HIDE DEF x
  <2>3. u \in CandidateSet
    BY <2>1 DEF CandidateSet
  <2>4. u.id = e.id /\ u.cos = e.cos /\ u.by = e.by /\ u.fts = e.fts /\ u.exempt = x
    BY DEF CandidateSet
  <2> HIDE DEF u
  <2>5. CandidateOK(u)
    BY <2>1, <2>4 DEF CandidateOK
  <2> QED
    BY <2>2, <2>3, <2>4, <2>5
<1> QED
  BY <1>1, <1>2

LEMMA CutOrders ==
  ASSUME NEW ids \in Seq(RagFragments), NEW passed, passed \subseteq ToSet(ids),
         NEW R, R = {p \in passed \X passed : RankIn(ids, p[1]) < RankIn(ids, p[2])}
  PROVE  Orders(R, passed)
<1> DEFINE k1 == [c \in passed |-> 0]
           k2 == [c \in passed |-> RankIn(ids, c)]
<1>1. \A c \in passed : RankIn(ids, c) \in 1..Len(ids) /\ ids[RankIn(ids, c)] = c
  <2>1. \A c \in passed : Contains(ids, c)
    BY DEF ToSet, Contains
  <2> QED
    BY <2>1, RankInIs
<1>2. k1 \in [passed -> Int] /\ k2 \in [passed -> Int]
  BY <1>1
<1>3. R = ByKeys(passed, k1, k2, k2)
  <2>1. \A x \in passed : k1[x] = 0 /\ k2[x] = RankIn(ids, x) /\ RankIn(ids, x) \in Int
    BY <1>1
  <2> HIDE DEF k1, k2
  <2> QED
    BY <2>1 DEF ByKeys
<1>4. Keys(passed, k1, k2, k2)
  <2>1. \A x \in passed : k2[x] = RankIn(ids, x)
    OBVIOUS
  <2> HIDE DEF k1, k2
  <2> QED
    BY <1>1, <1>2, <2>1 DEF Keys
<1> HIDE DEF k1, k2
<1> QED
  BY <1>3, <1>4, KeysOrder

LEMMA Retyped ==
  ASSUME NEW S, NEW T, NEW s \in Seq(T), T \subseteq S
  PROVE  Len(s) \in Nat /\ s \in [1..Len(s) -> S] /\ \A i \in 1..Len(s) : s[i] \in T
OBVIOUS

LEMMA CutOK ==
  ASSUME world \in Worlds, CandidatesOK, \A i \in 1..Len(candidates) : ~candidates[i].exempt,
         NEW judged, judged = [i \in 1..Len(candidates) |->
           IF ~Passes(candidates[i]) THEN [candidates[i] EXCEPT !.status = "below_threshold"]
           ELSE [candidates[i] EXCEPT !.exempt = candidates[i].cos < Threshold]],
         NEW ids, ids = [i \in 1..Len(candidates) |-> candidates[i].id],
         NEW passed, passed = {candidates[i].id : i \in {i \in 1..Len(candidates) : Passes(candidates[i])}},
         NEW s, s = InOrder(passed, {p \in passed \X passed : RankIn(ids, p[1]) < RankIn(ids, p[2])})
  PROVE  /\ judged \in Seq(CandidateSet) /\ UniqueIds(judged)
         /\ \A i \in 1..Len(judged) : CandidateOK(judged[i])
         /\ s \in Seq(RagFragments) /\ \A i \in 1..Len(s) : PassedCut(s[i])
<1>1. Len(candidates) \in Nat /\ \A i \in 1..Len(candidates) : candidates[i] \in CandidateSet /\ CandidateOK(candidates[i])
  BY DEF CandidatesOK
<1>2. ASSUME NEW i \in 1..Len(candidates)
      PROVE  judged[i] \in CandidateSet /\ judged[i].id = candidates[i].id /\ CandidateOK(judged[i])
  <2> DEFINE e == candidates[i]
             j == judged[i]
  <2>1. e \in CandidateSet /\ CandidateOK(e) /\ ~e.exempt
    BY <1>1
  <2>2. j = IF ~Passes(e) THEN [e EXCEPT !.status = "below_threshold"]
                    ELSE [e EXCEPT !.exempt = e.cos < Threshold]
    OBVIOUS
  <2> HIDE DEF e, j
  <2>3. j \in CandidateSet /\ j.id = e.id /\ CandidateOK(j)
    BY <2>1, <2>2, JudgedOK
  <2> QED
    BY <2>3 DEF e, j
<1>3. judged \in Seq(CandidateSet) /\ Len(judged) = Len(candidates)
  <2>1. judged \in [1..Len(candidates) -> CandidateSet]
    BY <1>2
  <2> QED
    BY <1>1, <2>1, AsSeq
<1>4. UniqueIds(judged)
  BY <1>2, <1>3 DEF UniqueIds, CandidatesOK
<1>5. ids \in Seq(RagFragments) /\ Len(ids) = Len(candidates)
  <2>1. ids \in [1..Len(candidates) -> RagFragments]
    BY <1>1 DEF CandidateSet
  <2> QED
    BY <1>1, <2>1, AsSeq
<1>6. passed \subseteq ToSet(ids)
  <2>1. \A i \in 1..Len(candidates) : ids[i] = candidates[i].id /\ i \in 1..Len(ids)
    BY <1>5
  <2> QED
    BY <2>1 DEF ToSet
<1>7. \A c \in passed : PassedCut(c)
  BY <1>1, PassesShown
<1> DEFINE R == {p \in passed \X passed : RankIn(ids, p[1]) < RankIn(ids, p[2])}
<1>8. Orders(R, passed)
  BY <1>5, <1>6, CutOrders
<1>9. IsFiniteSet(passed)
  <2>1. IsFiniteSet(ToSet(ids))
    BY <1>5, ToSetFinite
  <2> QED
    BY <1>6, <2>1, FS_Subset
<1>10. s = InOrder(passed, R)
  OBVIOUS
<1> HIDE DEF R
<1>11. s \in Seq(passed)
  <2>1. InOrder(passed, R) \in Seq(passed)
    BY <1>8, <1>9, InOrderIs
  <2> QED
    BY <1>10, <2>1
<1>12. passed \subseteq RagFragments
  BY <1>7 DEF PassedCut
<1>13. Len(s) \in Nat /\ s \in [1..Len(s) -> RagFragments] /\ \A i \in 1..Len(s) : PassedCut(s[i])
  BY <1>7, <1>11, <1>12, Retyped
<1>14. s \in Seq(RagFragments)
  BY <1>13, AsSeq
<1> QED
  BY <1>2, <1>3, <1>4, <1>13, <1>14

LEMMA CutsStep == ASSUME RagInv, Cuts PROVE RagInv'
<1>1. ragPc = "cutting" /\ ragPc' = "lexical" /\ UNCHANGED <<ragConfig, world, skipped, payload>>
  BY DEF Cuts, RagGoes
<1>2. world \in Worlds /\ CandidatesOK /\ \A i \in 1..Len(candidates) : ~candidates[i].exempt
  BY <1>1 DEF RagInv, StageOK
<1> DEFINE judged == [i \in 1..Len(candidates) |->
             IF ~Passes(candidates[i]) THEN [candidates[i] EXCEPT !.status = "below_threshold"]
             ELSE [candidates[i] EXCEPT !.exempt = candidates[i].cos < Threshold]]
           ids == [i \in 1..Len(candidates) |-> candidates[i].id]
           passed == {candidates[i].id : i \in {i \in 1..Len(candidates) : Passes(candidates[i])}}
           s == InOrder(passed, {p \in passed \X passed : RankIn(ids, p[1]) < RankIn(ids, p[2])})
<1>3. candidates' = judged /\ survivors' = s
  BY DEF Cuts
<1>4. /\ judged \in Seq(CandidateSet) /\ UniqueIds(judged)
      /\ \A i \in 1..Len(judged) : CandidateOK(judged[i])
      /\ s \in Seq(RagFragments) /\ \A i \in 1..Len(s) : PassedCut(s[i])
  BY <1>2, CutOK
<1> HIDE DEF judged, s
<1>5. CandidatesOK'
  BY <1>1, <1>3, <1>4, SameGrounds DEF CandidatesOK, UniqueIds
<1>6. SurvivorsOK'
  BY <1>1, <1>3, <1>4, SameGrounds DEF SurvivorsOK
<1>7. StageOK'
  BY <1>1 DEF StageOK, Early
<1> QED
  BY <1>1, <1>5, <1>6, <1>7, StageStep DEF Early

(* A new order of the survivors shows nothing new.                         *)
LEMMA Reordered ==
  ASSUME SurvivorsOK, UNCHANGED <<ragConfig, world>>,
         skipped' \in {skipped, skipped \cup {"lexical"}, skipped \cup {"llm"}},
         survivors' \in Seq(ToSet(survivors))
  PROVE  SurvivorsOK'
<1> DEFINE T == ToSet(survivors)
<1>1. \A c \in T : c \in RagFragments /\ PassedCut(c)
  BY DEF ToSet, SurvivorsOK, PassedCut
<1>2. survivors' \in Seq(T)
  OBVIOUS
<1> HIDE DEF T
<1>3. Len(survivors') \in Nat /\ survivors' \in [1..Len(survivors') -> RagFragments]
      /\ \A i \in 1..Len(survivors') : PassedCut(survivors'[i])
  BY <1>1, <1>2
<1>4. survivors' \in Seq(RagFragments)
  BY <1>3, AsSeq
<1> QED
  BY <1>3, <1>4, SameGrounds DEF SurvivorsOK

LEMMA SetToSeqsIs ==
  ASSUME NEW S, IsFiniteSet(S), NEW s \in SetToSeqs(S)
  PROVE  s \in Seq(S) /\ Len(s) = Cardinality(S) /\ Cardinality(S) \in Nat
<1>1. Cardinality(S) \in Nat
  BY FS_CardinalityType
<1>2. s \in [1..Cardinality(S) -> S]
  BY DEF SetToSeqs
<1> QED
  BY <1>1, <1>2

LEMMA LexicalStep == ASSUME RagInv, Lexical PROVE RagInv'
<1>1. /\ ragPc = "lexical" /\ ragPc' = "reranking" /\ UNCHANGED <<ragConfig, world, candidates, payload>>
      /\ skipped' \in {skipped, skipped \cup {"lexical"}, skipped \cup {"llm"}}
  BY DEF Lexical, RagGoes
<1>2. CandidatesOK /\ SurvivorsOK
  BY DEF RagInv
<1>3. CandidatesOK'
  BY <1>1, <1>2, CandidatesStay
<1>4. SurvivorsOK'
  <2>1. CASE survivors' \in SetToSeqs(ToSet(survivors))
    <3>1. IsFiniteSet(ToSet(survivors))
      BY <1>2, ToSetFinite DEF SurvivorsOK
    <3>2. survivors' \in Seq(ToSet(survivors))
      BY <2>1, <3>1, SetToSeqsIs
    <3> QED
      BY <1>1, <1>2, <3>2, Reordered
  <2>2. CASE UNCHANGED survivors
    BY <1>1, <1>2, <2>2, SurvivorsStay
  <2> QED
    BY <2>1, <2>2 DEF Lexical
<1>5. StageOK'
  BY <1>1 DEF StageOK, Early
<1> QED
  BY <1>1, <1>3, <1>4, <1>5, StageStep DEF Early

LEMMA ReranksStep == ASSUME RagInv, Reranks PROVE RagInv'
<1>1. /\ ragPc = "reranking" /\ ragPc' = "picking" /\ UNCHANGED <<ragConfig, world, candidates, payload>>
      /\ skipped' \in {skipped, skipped \cup {"lexical"}, skipped \cup {"llm"}}
  BY DEF Reranks, RagGoes
<1>2. CandidatesOK /\ SurvivorsOK
  BY DEF RagInv
<1>3. CandidatesOK'
  BY <1>1, <1>2, CandidatesStay
<1>4. SurvivorsOK'
  <2> DEFINE n == IF Len(survivors) < RerankTopN THEN Len(survivors) ELSE RerankTopN
             top == {survivors[i] : i \in 1..n}
             T == ToSet(survivors)
  <2>1. CASE \E batch \in SetToSeqs(top) :
                survivors' = batch \o SubSeq(survivors, n + 1, Len(survivors))
    <3>1. PICK batch \in SetToSeqs(top) : survivors' = batch \o SubSeq(survivors, n + 1, Len(survivors))
      BY <2>1
    <3>2. Len(survivors) \in Nat /\ n \in Nat /\ n <= Len(survivors) /\ survivors \in Seq(RagFragments)
      BY <1>2, RetrievalAssumption DEF SurvivorsOK
    <3> HIDE DEF n
    <3>3. top \subseteq T /\ \A i \in 1..Len(survivors) : survivors[i] \in T
      BY <3>2 DEF ToSet
    <3>4. IsFiniteSet(top)
      <4>1. IsFiniteSet(T)
        BY <1>2, ToSetFinite DEF SurvivorsOK
      <4> QED
        BY <3>3, <4>1, FS_Subset
    <3> HIDE DEF top, T
    <3>5. batch \in Seq(top)
      BY <3>4, SetToSeqsIs
    <3>6. batch \in Seq(T)
      <4>1. Len(batch) \in Nat /\ batch \in [1..Len(batch) -> T]
        BY <3>3, <3>5
      <4> QED
        BY <4>1, AsSeq
    <3>7. survivors \in Seq(T)
      <4>1. survivors \in [1..Len(survivors) -> T]
        BY <3>2, <3>3
      <4> QED
        BY <3>2, <4>1, AsSeq
    <3>8. SubSeq(survivors, n + 1, Len(survivors)) \in Seq(T)
      BY <3>2, <3>7
    <3>9. survivors' \in Seq(T)
      BY <3>1, <3>6, <3>8
    <3> QED
      BY <1>1, <1>2, <3>9, Reordered DEF T
  <2>2. CASE UNCHANGED survivors
    BY <1>1, <1>2, <2>2, SurvivorsStay
  <2> QED
    BY <2>1, <2>2 DEF Reranks
<1>5. StageOK'
  BY <1>1 DEF StageOK, Early
<1> QED
  BY <1>1, <1>3, <1>4, <1>5, StageStep DEF Early

LEMMA StartsStep == ASSUME RagInv, Starts PROVE RagInv'
<1>1. /\ ragPc = "start" /\ UNCHANGED <<ragConfig, world, candidates, survivors, skipped, outbound, payload>>
      /\ (ragPc' = "asking" /\ ragConfig.mode = "off") \/ ragPc' = "retrieving"
  BY DEF Starts, RagGoes
<1>2. CandidatesOK /\ SurvivorsOK /\ payload = NoPayload /\ ragConfig \in ConfigType /\ world \in Worlds
      /\ skipped = {} /\ survivors = <<>> /\ candidates = <<>>
  BY <1>1 DEF RagInv, PayloadOK, Early, StageOK
<1>3. CandidatesOK' /\ SurvivorsOK'
  BY <1>1, <1>2, CandidatesStay, SurvivorsStay
<1>4. StageOK'
  BY <1>1, <1>2 DEF StageOK, Early
<1>5. CASE ragPc' = "retrieving"
  BY <1>1, <1>3, <1>4, <1>5, StageStep DEF Early
<1>6. CASE ragPc' = "asking" /\ ragConfig.mode = "off"
  <2>1. PayloadOK'
    <3>1. Len(<<>>) = 0 /\ 1..0 = {} /\ <<>> \in Seq(RagFragments')
      OBVIOUS
    <3>2. payload' = NoPayload /\ ragConfig'.mode = "off"
      BY <1>1, <1>2, <1>6
    <3>3. Explained(payload)' /\ QuotesStand'
      BY <3>1, <3>2, NoPayloadOK DEF Explained, Explains, QuotesStand
    <3> QED
      BY <1>6, <3>1, <3>2, <3>3, NoPayloadOK DEF PayloadOK, StrictIsGrounded, Early, PayloadShape
  <2> QED
    BY <1>1, <1>2, <1>3, <1>4, <2>1 DEF RagInv
<1> QED
  BY <1>1, <1>5, <1>6

(* The gate and the merge. *)
LEMMA RagFinalIs ==
  ASSUME RagInv
  PROVE  /\ RagFinal \in Seq(RagFragments) /\ Len(RagFinal) \in Nat /\ Len(RagFinal) <= Len(survivors)
         /\ \A i \in 1..Len(RagFinal) : RagFinal[i] \in RagFragments /\ PassedCut(RagFinal[i])
         /\ survivors # <<>> => RagFinal # <<>>
         /\ survivors = <<>> => RagFinal = <<>>
<1> DEFINE m == IF Len(survivors) < ragConfig.topK THEN Len(survivors) ELSE ragConfig.topK
<1>1. ragConfig.topK \in Nat /\ ragConfig.topK >= 1
  <2>1. ragConfig.topK \in TopKs
    BY DEF RagInv, ConfigType
  <2>2. CandidateK \in Nat /\ ragConfig.topK \in 1..CandidateK
    BY <2>1, RetrievalAssumption, Zenon
  <2> QED
    BY <2>2
<1>2. survivors \in Seq(RagFragments) /\ \A i \in 1..Len(survivors) : PassedCut(survivors[i])
  BY DEF RagInv, SurvivorsOK
<1>3. Len(survivors) \in Nat /\ m \in Nat /\ m <= Len(survivors) /\ (Len(survivors) # 0 => m # 0)
  BY <1>1, <1>2
<1>4. RagFinal = SubSeq(survivors, 1, m)
  BY DEF RagFinal
<1> HIDE DEF m
<1>5. /\ SubSeq(survivors, 1, m) \in Seq(RagFragments) /\ Len(SubSeq(survivors, 1, m)) = m
      /\ \A i \in 1..m : SubSeq(survivors, 1, m)[i] = survivors[i]
  BY <1>2, <1>3
<1>6. survivors # <<>> => Len(survivors) # 0
  BY <1>2
<1>7. survivors = <<>> => Len(survivors) = 0
  OBVIOUS
<1>8. SubSeq(survivors, 1, m) = <<>> <=> m = 0
  BY <1>3, <1>5
<1>9. \A i \in 1..m : i \in 1..Len(survivors) /\ survivors[i] \in RagFragments
  BY <1>2, <1>3
<1> QED
  BY <1>2, <1>3, <1>4, <1>5, <1>6, <1>7, <1>8, <1>9

LEMMA ContainsIs ==
  ASSUME NEW S, NEW s \in Seq(S), NEW c
  PROVE  /\ Contains(s, c) <=> \E i \in 1..Len(s) : s[i] = c
         /\ Contains(s, c) => RankIn(s, c) \in 1..Len(s) /\ s[RankIn(s, c)] = c
BY RankInIs DEF Contains

LEMMA TracedIs ==
  ASSUME RagInv
  PROVE  /\ Len(Traced) = Len(candidates) /\ Len(candidates) \in Nat
         /\ \A i \in 1..Len(candidates) :
              IF Contains(RagFinal, candidates[i].id)
              THEN /\ Traced[i].status = "in_answer" /\ Traced[i].after = RankIn(RagFinal, candidates[i].id)
                   /\ Traced[i].id = candidates[i].id
                   /\ [Traced[i] EXCEPT !.status = "over_budget"].status = "over_budget"
                   /\ [Traced[i] EXCEPT !.status = "over_budget"].id = candidates[i].id
                   /\ [Traced[i] EXCEPT !.status = "over_budget"].after = Traced[i].after
              ELSE Traced[i].status # "in_answer" /\ Traced[i].id = candidates[i].id
<1>1. Len(candidates) \in Nat /\ \A i \in 1..Len(candidates) : candidates[i] \in CandidateSet
  BY DEF RagInv, CandidatesOK
<1>2. Len(Traced) = Len(candidates)
  BY <1>1 DEF Traced
<1>3. ASSUME NEW i \in 1..Len(candidates)
      PROVE  IF Contains(RagFinal, candidates[i].id)
              THEN /\ Traced[i].status = "in_answer" /\ Traced[i].after = RankIn(RagFinal, candidates[i].id)
                   /\ Traced[i].id = candidates[i].id
                   /\ [Traced[i] EXCEPT !.status = "over_budget"].status = "over_budget"
                   /\ [Traced[i] EXCEPT !.status = "over_budget"].id = candidates[i].id
                   /\ [Traced[i] EXCEPT !.status = "over_budget"].after = Traced[i].after
              ELSE Traced[i].status # "in_answer" /\ Traced[i].id = candidates[i].id
  <2> DEFINE e == candidates[i]
             k == RankIn(RagFinal, candidates[i].id)
             t == Traced[i]
  <2>1. t = IF Contains(RagFinal, e.id) THEN [e EXCEPT !.status = "in_answer", !.after = k] ELSE e
    BY DEF Traced
  <2>2. e \in CandidateSet
    BY <1>1
  <2> HIDE DEF e, k, t
  <2>3. CASE Contains(RagFinal, e.id)
    <3>1. t = [e EXCEPT !.status = "in_answer", !.after = k]
      BY <2>1, <2>3
    <3>2. /\ t.status = "in_answer" /\ t.after = k /\ t.id = e.id
          /\ [t EXCEPT !.status = "over_budget"].status = "over_budget"
          /\ [t EXCEPT !.status = "over_budget"].id = e.id
          /\ [t EXCEPT !.status = "over_budget"].after = t.after
      BY <2>2, <3>1 DEF CandidateSet
    <3> QED
      BY <2>3, <3>2 DEF e, k, t
  <2>4. CASE ~Contains(RagFinal, e.id)
    <3>1. t.status # "in_answer" /\ t.id = e.id
      BY <2>1, <2>2, <2>4 DEF CandidateSet
    <3> QED
      BY <2>4, <3>1 DEF e, k, t
  <2> QED
    BY <2>3, <2>4
<1> QED
  BY <1>1, <1>2, <1>3

(* Where nothing passed the cut, the trace names no answer.                *)
LEMMA NothingTraced ==
  ASSUME RagInv, survivors = <<>>
  PROVE  \A i \in 1..Len(Traced) : Traced[i].status # "in_answer"
<1>1. RagFinal = <<>> /\ \A c : ~Contains(<<>>, c)
  BY RagFinalIs DEF Contains
<1> QED
  BY <1>1, TracedIs

Blank(p, t) ==
  /\ PayloadShape(p) /\ p.sources = <<>> /\ p.trace = t /\ p.quotes = <<>>
  /\ p.gated = FALSE /\ p.byModel = FALSE /\ p.warning = FALSE
TracePayload(v, t) == [NoPayload EXCEPT !.mode = "rag", !.verdict = v, !.trace = t]

LEMMA TracePayloadIs ==
  ASSUME NEW v, NEW t, NEW p, p = TracePayload(v, t) PROVE Blank(p, t)
BY DEF PayloadShape, NoPayload, TracePayload, Blank

LEMMA PayloadIs ==
  ASSUME NEW verdict
  PROVE  /\ PayloadShape(RagPayload(verdict)) /\ RagPayload(verdict).sources = <<>>
         /\ RagPayload(verdict).trace = Traced /\ RagPayload(verdict).quotes = <<>>
         /\ RagPayload(verdict).gated = FALSE /\ RagPayload(verdict).byModel = FALSE
         /\ RagPayload(verdict).warning = FALSE
<1>1. RagPayload(verdict) = TracePayload(verdict, Traced)
  BY Zenon DEF RagPayload, TracePayload
<1>2. Blank(RagPayload(verdict), Traced)
  BY <1>1, TracePayloadIs
<1> QED
  BY <1>2, Zenon DEF Blank

(* A payload without quotes at the gate: what is left to show.             *)
LEMMA PayloadStep ==
  ASSUME RagInv, UNCHANGED <<ragConfig, world, candidates, survivors, skipped>>,
         PayloadShape(payload'), payload'.sources \in Seq(RagFragments), payload'.quotes = <<>>,
         \A n \in 1..Len(payload'.sources) : PassedCut(payload'.sources[n]),
         Explained(payload'),
         ragPc' \in {"asking", "answered"},
         ragPc' = "asking" =>
           /\ payload'.gated = FALSE /\ payload'.byModel = FALSE
           /\ ragConfig.mode = "rag" /\ ragConfig.strict =>
                payload'.warning \/ (payload'.sources # <<>> /\ outbound' = "block"),
         ragPc' = "answered" => payload'.gated = TRUE /\ payload'.byModel = FALSE
  PROVE  RagInv'
<1>1. UNCHANGED <<CandidateSet, RagFragments>> /\ \A c : PassedCut(c)' <=> PassedCut(c)
  BY SameGrounds
<1>2. CandidatesOK' /\ SurvivorsOK'
  BY CandidatesStay, SurvivorsStay DEF RagInv
<1>3. StageOK'
  BY DEF StageOK, Early
<1>4. QuotesStand' /\ StrictIsGrounded'
  <2>1. Len(<<>>) = 0 /\ 1..0 = {}
    OBVIOUS
  <2> QED
    BY <2>1 DEF QuotesStand, StrictIsGrounded
<1>5. PayloadShape(payload)' /\ Explained(payload)'
  BY DEF PayloadShape, Explained, Explains
<1>6. (\A n \in 1..Len(payload.sources) : PassedCut(payload.sources[n]))'
  BY <1>1
<1>7. (payload.sources \in Seq(RagFragments))'
  BY <1>1
<1>8. ragPc' \notin Early
  BY DEF Early
<1>9. PayloadOK'
  BY <1>4, <1>5, <1>6, <1>7, <1>8 DEF PayloadOK
<1>10. ragConfig' \in ConfigType' /\ world' \in Worlds
  BY DEF RagInv, ConfigType
<1> QED
  BY <1>2, <1>3, <1>9, <1>10 DEF RagInv

LEMMA UnexplainedOK ==
  ASSUME NEW p, p.sources = <<>>, \A i \in 1..Len(p.trace) : p.trace[i].status # "in_answer" PROVE Explained(p)
BY DEF Explained, Explains

LEMMA GatesStep == ASSUME RagInv, Gates PROVE RagInv'
<1>1. /\ ragPc' = "answered" /\ survivors = <<>>
      /\ UNCHANGED <<ragConfig, world, candidates, survivors, skipped, outbound>>
  BY DEF Gates, RagGoes, Gated
<1>2. PICK v : payload' = [RagPayload(v) EXCEPT !.gated = TRUE, !.strict = TRUE]
  BY DEF Gates
<1> DEFINE q == RagPayload(v)
<1>3. PayloadShape(q) /\ q.sources = <<>> /\ q.trace = Traced /\ q.quotes = <<>> /\ q.byModel = FALSE
  BY PayloadIs
<1>4. payload' = [q EXCEPT !.gated = TRUE, !.strict = TRUE]
  BY <1>2
<1> HIDE DEF q
<1>5. /\ PayloadShape(payload') /\ payload'.sources = <<>> /\ payload'.trace = Traced
      /\ payload'.quotes = <<>> /\ payload'.byModel = FALSE /\ payload'.gated = TRUE
  BY <1>3, <1>4 DEF PayloadShape
<1>6. <<>> \in Seq(RagFragments) /\ Len(<<>>) = 0 /\ 1..0 = {}
  OBVIOUS
<1>7. Explained(payload')
  BY <1>1, <1>5, NothingTraced, UnexplainedOK
<1> QED
  BY <1>1, <1>5, <1>6, <1>7, PayloadStep

LEMMA NotesNothingStep == ASSUME RagInv, NotesNothing PROVE RagInv'
<1>1. /\ ragPc' = "asking" /\ survivors = <<>> /\ ~ragConfig.strict
      /\ UNCHANGED <<ragConfig, world, candidates, survivors, skipped>>
  BY DEF NotesNothing, RagGoes, Gated
<1>2. /\ PayloadShape(payload') /\ payload'.sources = <<>> /\ payload'.trace = Traced
      /\ payload'.quotes = <<>> /\ payload'.byModel = FALSE /\ payload'.gated = FALSE
  BY PayloadIs DEF NotesNothing
<1>3. <<>> \in Seq(RagFragments) /\ Len(<<>>) = 0 /\ 1..0 = {}
  OBVIOUS
<1>4. Explained(payload')
  BY <1>1, <1>2, NothingTraced, UnexplainedOK
<1> QED
  BY <1>1, <1>2, <1>3, <1>4, PayloadStep

LEMMA RagFailsStep == ASSUME RagInv, RagFails PROVE RagInv'
<1>1. /\ ragPc' = "asking" /\ UNCHANGED <<ragConfig, world, candidates, survivors, skipped>>
      /\ payload' = [NoPayload EXCEPT !.mode = "rag", !.verdict = "kb_unavailable", !.warning = TRUE]
  BY DEF RagFails, RagWarns, RagGoes
<1>2. /\ PayloadShape(payload') /\ payload'.sources = <<>> /\ payload'.trace = <<>>
      /\ payload'.quotes = <<>> /\ payload'.byModel = FALSE /\ payload'.gated = FALSE /\ payload'.warning = TRUE
  BY <1>1 DEF PayloadShape, NoPayload
<1>3. <<>> \in Seq(RagFragments) /\ Len(<<>>) = 0 /\ 1..0 = {}
  OBVIOUS
<1>4. Explained(payload')
  BY <1>2, <1>3, UnexplainedOK
<1> QED
  BY <1>1, <1>2, <1>3, <1>4, PayloadStep

LEMMA KeptIs ==
  ASSUME RagInv PROVE Kept \in 0..Len(RagFinal)
<1> DEFINE fits(k) == 115 * BlockSize(k) <= 100 * rag_budget
           L == Len(RagFinal)
           T == {k \in 1..L : ~fits(k)}
<1>1. L \in Nat
  BY RagFinalIs
<1> HIDE DEF fits, L
<1>2. \E n \in 0..L : (\A k \in 1..n : fits(k)) /\ (n < L => ~fits(n + 1))
  <2>1. CASE T = {}
    <3>1. L \in 0..L /\ (\A k \in 1..L : fits(k)) /\ ~(L < L)
      BY <1>1, <2>1
    <3> QED
      BY <3>1
  <2>2. CASE T # {}
    <3>1. T \in SUBSET Nat
      BY <1>1
    <3>2. PICK m \in T : \A x \in T : m <= x
      BY <2>2, <3>1, LeastNat
    <3>3. m - 1 \in 0..L /\ (\A k \in 1..(m - 1) : k \notin T /\ k \in 1..L) /\ ~fits((m - 1) + 1)
      <4>1. m \in 1..L /\ ~fits(m) /\ (m - 1) + 1 = m
        BY <1>1
      <4>2. \A k \in 1..(m - 1) : k \in Nat /\ k < m /\ k \in 1..L
        BY <1>1, <4>1
      <4>3. \A k \in 1..(m - 1) : k \notin T
        BY <1>1, <3>1, <3>2, <4>1, <4>2
      <4> QED
        BY <1>1, <4>1, <4>2, <4>3
    <3> QED
      BY <3>3
  <2> QED
    BY <2>1, <2>2
<1>3. \E n \in 0..Len(RagFinal) :
        /\ \A k \in 1..n : 115 * BlockSize(k) <= 100 * rag_budget
        /\ n < Len(RagFinal) => ~(115 * BlockSize(n + 1) <= 100 * rag_budget)
  BY <1>2 DEF fits, L
<1> QED
  BY <1>3 DEF Kept

LEMMA MarkedExplained ==
  ASSUME RagInv, NEW n \in 0..Len(RagFinal), NEW p, p.trace = MarkedTrace(n), p.sources = SubSeq(RagFinal, 1, n)
  PROVE  Explained(p)
<1>1. RagFinal \in Seq(RagFragments) /\ Len(RagFinal) \in Nat
  BY RagFinalIs
<1>2. Len(p.sources) = n /\ n \in Nat /\ \A k \in 1..n : p.sources[k] = RagFinal[k]
  BY <1>1
<1>3. Len(p.trace) = Len(candidates) /\ Len(candidates) \in Nat
  BY TracedIs DEF MarkedTrace
<1>4. ASSUME NEW i \in 1..Len(candidates)
      PROVE  (p.trace[i].status = "in_answer") <=> \E k \in 1..n : RagFinal[k] = p.trace[i].id /\ p.trace[i].after = k
  <2> DEFINE t == Traced[i]
             c == candidates[i].id
             r == RankIn(RagFinal, c)
             x == p.trace[i]
  <2>1. x = IF t.status = "in_answer" /\ t.after > n THEN [t EXCEPT !.status = "over_budget"] ELSE t
    BY <1>3, TracedIs DEF MarkedTrace
  <2>2. IF Contains(RagFinal, c)
        THEN /\ t.status = "in_answer" /\ t.after = r /\ t.id = c
             /\ [t EXCEPT !.status = "over_budget"].status = "over_budget"
             /\ [t EXCEPT !.status = "over_budget"].id = c
             /\ [t EXCEPT !.status = "over_budget"].after = t.after
        ELSE t.status # "in_answer" /\ t.id = c
    BY TracedIs
  <2>3. /\ Contains(RagFinal, c) <=> \E k \in 1..Len(RagFinal) : RagFinal[k] = c
        /\ Contains(RagFinal, c) => r \in 1..Len(RagFinal) /\ RagFinal[r] = c
    BY <1>1, ContainsIs
  <2> HIDE DEF t, c, r, x
  <2>5. CASE ~Contains(RagFinal, c)
    <3>1. x.status # "in_answer" /\ x.id = c
      BY <2>1, <2>2, <2>5
    <3>2. ~ \E k \in 1..n : RagFinal[k] = c
      BY <1>1, <1>2, <2>3, <2>5
    <3> QED
      BY <3>1, <3>2 DEF x
  <2>6. CASE Contains(RagFinal, c) /\ r > n
    <3>1. x.status = "over_budget" /\ x.after = r
      BY <2>1, <2>2, <2>6
    <3>2. r \in Nat /\ r > n
      BY <1>1, <2>3, <2>6
    <3>3. ~ \E k \in 1..n : x.after = k
      BY <1>2, <3>1, <3>2
    <3> QED
      BY <3>1, <3>3 DEF x
  <2>7. CASE Contains(RagFinal, c) /\ ~(r > n)
    <3>1. x.status = "in_answer" /\ x.after = r /\ x.id = c
      BY <2>1, <2>2, <2>7
    <3>2. r \in 1..n /\ RagFinal[r] = c
      BY <1>1, <1>2, <2>3, <2>7
    <3> QED
      BY <3>1, <3>2 DEF x
  <2> QED
    BY <2>5, <2>6, <2>7
<1> QED
  BY <1>2, <1>3, <1>4 DEF Explained, Explains

LEMMA RagMergesStep == ASSUME RagInv, RagMerges PROVE RagInv'
<1> DEFINE k == Kept
           q == RagPayload("ok")
           sources == SubSeq(RagFinal, 1, k)
           tokens == IF k = 0 THEN 0 ELSE BlockSize(k)
           remarked == MarkedTrace(k)
           dropped == Len(RagFinal) - k
<1>1. /\ ragPc' = "asking" /\ UNCHANGED <<ragConfig, world, candidates, survivors, skipped>>
      /\ outbound' = (IF k = 0 THEN "plain" ELSE "block") /\ ~Gated /\ (RagFinal # <<>> => k > 0)
  BY DEF RagMerges, RagGoes
<1>2. payload' = [q EXCEPT !.sources = sources, !.dropped = dropped, !.tokens = tokens,
                           !.trace = remarked, !.strict = ragConfig.strict]
  BY DEF RagMerges
<1>3. PayloadShape(q) /\ q.gated = FALSE /\ q.byModel = FALSE /\ q.quotes = <<>>
  BY PayloadIs
<1>4. k \in 0..Len(RagFinal)
  BY KeptIs
<1>5. RagFinal \in Seq(RagFragments) /\ Len(RagFinal) \in Nat /\ \A i \in 1..Len(RagFinal) : PassedCut(RagFinal[i])
  BY RagFinalIs
<1>6. sources = SubSeq(RagFinal, 1, k) /\ remarked = MarkedTrace(k)
  OBVIOUS
<1> HIDE DEF q, k, tokens, remarked, dropped, sources
<1>7. /\ PayloadShape(payload') /\ payload'.sources = sources /\ payload'.trace = remarked
      /\ payload'.quotes = <<>> /\ payload'.byModel = FALSE /\ payload'.gated = FALSE
  BY <1>2, <1>3 DEF PayloadShape
<1>8. sources \in Seq(RagFragments) /\ Len(sources) = k /\ \A n \in 1..k : sources[n] = RagFinal[n]
  BY <1>4, <1>5, <1>6
<1>9. \A n \in 1..Len(payload'.sources) : PassedCut(payload'.sources[n])
  BY <1>4, <1>5, <1>7, <1>8
<1>10. Explained(payload')
  BY <1>4, <1>6, <1>7, MarkedExplained
<1>11. ragConfig.strict => payload'.sources # <<>> /\ outbound' = "block"
  <2>1. ragConfig.strict => RagFinal # <<>>
    BY <1>1, RagFinalIs DEF Gated
  <2>2. k > 0 => sources # <<>>
    BY <1>4, <1>8
  <2> QED
    BY <1>1, <1>4, <1>7, <2>1, <2>2
<1> QED
  BY <1>1, <1>7, <1>8, <1>9, <1>10, <1>11, PayloadStep

(* The answer. *)
LEMMA VerifiedIs ==
  ASSUME NEW n \in Nat, NEW quote, payload.sources \in Seq(RagFragments),
         NEW q, q = Verified(n, quote), q.state \in {"exact", "fuzzy"}
  PROVE  /\ q.rank \in 1..Len(payload.sources) /\ q.text[payload.sources[q.rank]] = q.state
         /\ q.rebound <=> q.rank # q.named
         /\ q.rebound /\ q.named \in 1..Len(payload.sources) => q.text[payload.sources[q.named]] = "unverified"
<1> DEFINE ranks == 1..Len(Sources)
           named == n \in ranks /\ MatchAt(quote, n) # "unverified"
           others(state) == {k \in ranks \ {n} : MatchAt(quote, k) = state}
           st == IF named THEN MatchAt(quote, n)
                    ELSE IF others("exact") # {} THEN "exact"
                    ELSE IF others("fuzzy") # {} THEN "fuzzy" ELSE "unverified"
           first(S) == CHOOSE k \in S : \A l \in S : k <= l
           rank == IF named \/ (st = "unverified" /\ n \in ranks) THEN n
                   ELSE IF st = "unverified" THEN 0 ELSE first(others(st))
           rebound == ~named /\ st # "unverified"
           bad == st = "unverified" /\ n \notin ranks
<1>1. q = [state |-> st, text |-> quote, named |-> n, rank |-> rank, rebound |-> rebound, badRef |-> bad]
  BY DEF Verified
<1> HIDE DEF rank, rebound, bad, st
<1>2. q.state = st /\ q.text = quote /\ q.named = n /\ q.rank = rank /\ q.rebound = rebound
  BY <1>1
<1>3. st \in {"exact", "fuzzy"}
  BY <1>2
<1>4. CASE named
  <2>1. rank = n /\ rebound = FALSE /\ st = MatchAt(quote, n) /\ n \in ranks
    BY <1>4 DEF rank, rebound, st
  <2> QED
    BY <1>2, <2>1 DEF MatchAt, Sources
<1>5. CASE ~named
  <2>1. rank = first(others(st)) /\ rebound = TRUE /\ others(st) # {}
    BY <1>3, <1>5 DEF rank, rebound, st
  <2>2. others(st) \in SUBSET Nat
    OBVIOUS
  <2>3. PICK k \in others(st) : \A l \in others(st) : k <= l
    BY <2>1, <2>2, LeastNat
  <2>4. rank \in others(st)
    BY <2>1, <2>3
  <2>5. rank \in 1..Len(payload.sources) /\ quote[payload.sources[rank]] = st /\ rank # n
    BY <2>4 DEF MatchAt, Sources
  <2>6. n \in 1..Len(payload.sources) => quote[payload.sources[n]] = "unverified"
    BY <1>5 DEF MatchAt, Sources
  <2> QED
    BY <1>2, <2>1, <2>5, <2>6
<1> QED
  BY <1>4, <1>5

(* What the check of an answer leaves in the payload. *)
Finished(p) ==
  /\ PayloadShape(p) /\ p.sources = payload.sources /\ p.trace = payload.trace /\ p.mode = payload.mode
  /\ p.gated = payload.gated /\ p.warning = payload.warning /\ p.byModel = TRUE

Standing(q) ==
  q.state \in {"exact", "fuzzy"} =>
      /\ q.rank \in 1..Len(payload.sources) /\ q.text[payload.sources[q.rank]] = q.state
      /\ q.rebound <=> q.rank # q.named
      /\ q.rebound /\ q.named \in 1..Len(payload.sources) => q.text[payload.sources[q.named]] = "unverified"

Untouched(r, p, quotes) ==
  /\ PayloadShape(r) /\ r.sources = p.sources /\ r.trace = p.trace /\ r.mode = p.mode
  /\ r.gated = p.gated /\ r.warning = p.warning /\ r.byModel = TRUE /\ r.quotes = quotes

LEMMA AnsweredPlain ==
  ASSUME NEW p, PayloadShape(p), NEW r, r = [p EXCEPT !.byModel = TRUE]
  PROVE  Untouched(r, p, p.quotes)
BY DEF PayloadShape, Untouched

Idk(p, refs) == [p EXCEPT !.byModel = TRUE, !.verdict = "model_idk", !.cited = refs]

LEMMA AnsweredIdk ==
  ASSUME NEW p, PayloadShape(p), NEW refs, NEW r, r = Idk(p, refs)
  PROVE  Untouched(r, p, p.quotes)
BY DEF PayloadShape, Idk, Untouched

Quoted(p, quotes, cited, invalid, supported) ==
  [p EXCEPT !.byModel = TRUE, !.quotes = quotes, !.cited = cited, !.invalid = invalid, !.supported = supported]

LEMMA AnsweredQuoted ==
  ASSUME NEW p, PayloadShape(p), NEW quotes, NEW cited, NEW invalid, NEW supported,
         NEW r, r = Quoted(p, quotes, cited, invalid, supported)
  PROVE  Untouched(r, p, quotes)
BY DEF PayloadShape, Quoted, Untouched

LEMMA ConcatIs ==
  ASSUME NEW S, NEW T, NEW a \in Seq(S), NEW b \in Seq(T), NEW c, c = a \o b
  PROVE  /\ Len(c) \in Nat
         /\ \A i \in 1..Len(c) :
              \/ i \in 1..Len(a) /\ c[i] = a[i]
              \/ i - Len(a) \in 1..Len(b) /\ c[i] = b[i - Len(a)]
<1> DEFINE U == S \cup T
<1>1. a \in Seq(U) /\ b \in Seq(U) /\ Len(a) \in Nat /\ Len(b) \in Nat
  <2>1. /\ Len(a) \in Nat /\ a \in [1..Len(a) -> S] /\ S \subseteq U
        /\ Len(b) \in Nat /\ b \in [1..Len(b) -> T] /\ T \subseteq U
    OBVIOUS
  <2> HIDE DEF U
  <2>2. a \in [1..Len(a) -> U] /\ b \in [1..Len(b) -> U]
    BY <2>1
  <2> QED
    BY <2>1, <2>2, AsSeq
<1> HIDE DEF U
<1>2. /\ Len(a \o b) = Len(a) + Len(b)
      /\ \A i \in 1..Len(a) + Len(b) : (a \o b)[i] = IF i <= Len(a) THEN a[i] ELSE b[i - Len(a)]
  BY <1>1
<1> QED
  BY <1>1, <1>2

LEMMA QuotedOK ==
  ASSUME payload.sources \in Seq(RagFragments), PayloadShape(payload), NEW refs, NEW section,
         NEW m \in Nat, NEW f, section \in [1..m -> f], \A x \in f : x.named \in Nat,
         NEW r, r = Processed(refs, section)
  PROVE  Finished(r) /\ Len(r.quotes) \in Nat /\ \A i \in 1..Len(r.quotes) : Standing(r.quotes[i])
<1> DEFINE body == refs \cap (1..Len(Sources))
           quotes == [i \in 1..Len(section) |-> Verified(section[i].named, section[i].quote)]
           verified == \E i \in 1..Len(quotes) : quotes[i].state # "unverified"
           Numbered == {p \in AutoRanks(body) \X AutoRanks(body) : p[1] < p[2]}
           auto == [k \in 1..Cardinality(AutoRanks(body)) |->
             [state |-> "auto", rank |-> InOrder(AutoRanks(body), Numbered)[k], text |-> [c \in RagFragments |-> "exact"],
              named |-> 0, rebound |-> FALSE, badRef |-> FALSE]]
           all == quotes \o (IF verified THEN <<>> ELSE auto)
           cited == body \cup {quotes[i].rank : i \in {i \in 1..Len(quotes) : quotes[i].rank # 0}}
           invalid == Cardinality(refs \ body) + Cardinality({i \in 1..Len(quotes) : quotes[i].badRef})
           supported == IF body # {} \/ verified THEN "yes" ELSE "no"
<1>1. r = Quoted(payload, all, cited, invalid, supported)
  BY Zenon DEF Processed, Quoted
<1>2. Len(section) = m /\ section \in Seq(f)
  BY AsSeq
<1>3. \A i \in 1..m : quotes[i] = Verified(section[i].named, section[i].quote) /\ section[i].named \in Nat
  BY <1>2
<1>4. quotes \in Seq({quotes[i] : i \in 1..m}) /\ Len(quotes) = m
  BY <1>2
<1>5. \A i \in 1..m : Standing(quotes[i])
  BY <1>3, VerifiedIs DEF Standing
<1>6. Cardinality(AutoRanks(body)) \in Nat
  <2>1. Len(Sources) \in Nat /\ body \subseteq 1..Len(Sources)
    BY DEF Sources
  <2>2. IsFiniteSet(1..Len(Sources)) /\ IsFiniteSet(1..MinOf(2, Len(Sources)))
    <3>1. MinOf(2, Len(Sources)) \in Int
      BY <2>1 DEF MinOf
    <3> QED
      BY <2>1, <3>1, FS_Interval
  <2>3. IsFiniteSet(AutoRanks(body))
    BY <2>1, <2>2, FS_Subset DEF AutoRanks
  <2> QED
    BY <2>3, FS_CardinalityType
<1> DEFINE n == Cardinality(AutoRanks(body))
<1>7. Len(auto) = n /\ \A k \in 1..n : auto[k].state = "auto"
  BY <1>6
<1>8. \A k \in 1..n : Standing(auto[k])
  BY <1>7 DEF Standing
<1>9. auto \in Seq({auto[k] : k \in 1..n})
  <2>1. auto = [k \in 1..n |-> auto[k]]
    OBVIOUS
  <2> HIDE DEF auto
  <2>2. auto \in [1..n -> {auto[k] : k \in 1..n}]
    BY <2>1
  <2> HIDE DEF n
  <2> QED
    BY <1>6, <2>2, AsSeq DEF n
<1> HIDE DEF quotes, auto, n, cited, invalid, supported, verified
<1>10. Len(all) \in Nat /\ \A i \in 1..Len(all) : Standing(all[i])
  <2>1. CASE verified
    <3>1. all = quotes
      BY <1>4, <2>1
    <3> QED
      BY <1>4, <1>5, <3>1
  <2>2. CASE ~verified
    <3>1. all = quotes \o auto
      BY <2>2
    <3> HIDE DEF all
    <3>2. Len(quotes) = m /\ Len(auto) = n /\ n \in Nat
      BY <1>4, <1>6, <1>7 DEF n
    <3>3. /\ Len(all) \in Nat
          /\ \A i \in 1..Len(all) :
               (i \in 1..m /\ all[i] = quotes[i]) \/ (i - m \in 1..n /\ all[i] = auto[i - m])
      BY <1>4, <1>9, <3>1, <3>2, ConcatIs
    <3> QED
      BY <1>5, <1>8, <3>2, <3>3
  <2> QED
    BY <2>1, <2>2
<1> HIDE DEF all
<1>11. Untouched(r, payload, all)
  BY <1>1, AnsweredQuoted
<1> QED
  BY <1>10, <1>11 DEF Finished, Untouched

LEMMA FinishedStep ==
  ASSUME RagInv, ragPc = "asking", UNCHANGED <<ragConfig, world, candidates, survivors, skipped, outbound>>,
         ragPc' = "answered", Finished(payload'),
         payload'.quotes = <<>> \/ \A i \in 1..Len(payload'.quotes) : Standing(payload'.quotes[i])
  PROVE  RagInv'
<1>1. /\ PayloadShape(payload') /\ payload'.sources = payload.sources /\ payload'.trace = payload.trace
      /\ payload'.mode = payload.mode /\ payload'.gated = payload.gated /\ payload'.warning = payload.warning
      /\ payload'.byModel = TRUE
  BY DEF Finished
<1>2. UNCHANGED <<CandidateSet, RagFragments>> /\ \A c : PassedCut(c)' <=> PassedCut(c)
  BY SameGrounds
<1>3. CandidatesOK' /\ SurvivorsOK'
  BY CandidatesStay, SurvivorsStay DEF RagInv
<1>4. StageOK'
  BY DEF StageOK, Early
<1>5. QuotesStand'
  <2>1. Len(<<>>) = 0 /\ 1..0 = {}
    OBVIOUS
  <2>2. \A i \in 1..Len(payload'.quotes) : Standing(payload'.quotes[i])
    BY <2>1
  <2> QED
    BY <1>1, <2>2 DEF QuotesStand, Standing
<1>6. payload.gated = FALSE /\ (ragConfig.mode = "rag" /\ ragConfig.strict =>
            payload.warning \/ (payload.sources # <<>> /\ outbound = "block"))
      /\ payload.sources \in Seq(RagFragments) /\ Explained(payload)
      /\ \A n \in 1..Len(payload.sources) : PassedCut(payload.sources[n])
  BY DEF RagInv, PayloadOK
<1>7. StrictIsGrounded'
  BY <1>1, <1>6 DEF StrictIsGrounded
<1>8. PayloadShape(payload)' /\ Explained(payload)'
  <2>1. Explained(payload')
    <3>1. payload'.trace = payload.trace /\ payload'.sources = payload.sources /\ Explained(payload)
      BY <1>1, <1>6
    <3> QED
      BY <3>1, Zenon DEF Explained
  <2> QED
    BY <1>1, <2>1 DEF PayloadShape, Explained, Explains
<1>9. (payload.sources \in Seq(RagFragments) /\ \A n \in 1..Len(payload.sources) : PassedCut(payload.sources[n]))'
  BY <1>1, <1>2, <1>6
<1>10. PayloadOK'
  BY <1>5, <1>7, <1>8, <1>9 DEF PayloadOK, Early
<1>11. ragConfig' \in ConfigType' /\ world' \in Worlds
  BY DEF RagInv, ConfigType
<1> QED
  BY <1>3, <1>4, <1>10, <1>11 DEF RagInv

LEMMA FinalizesStep == ASSUME RagInv, Finalizes PROVE RagInv'
<1>1. /\ ragPc = "asking" /\ ragPc' = "answered"
      /\ UNCHANGED <<ragConfig, world, candidates, survivors, skipped, outbound>>
  BY DEF Finalizes, RagGoes
<1>2. PayloadShape(payload) /\ payload.quotes = <<>> /\ payload.sources \in Seq(RagFragments)
  BY <1>1 DEF RagInv, PayloadOK
<1>3. CASE payload' = [payload EXCEPT !.byModel = TRUE]
  <2>1. Finished(payload') /\ payload'.quotes = <<>>
    BY <1>2, <1>3, AnsweredPlain DEF Finished, Untouched
  <2> QED
    BY <1>1, <2>1, FinishedStep
<1>4. CASE \E refs \in SUBSET (1..Len(Sources)) :
             payload' = [payload EXCEPT !.byModel = TRUE, !.verdict = "model_idk", !.cited = refs]
  <2>1. PICK refs : payload' = Idk(payload, refs)
    BY <1>4, Zenon DEF Idk
  <2>2. Finished(payload') /\ payload'.quotes = <<>>
    BY <1>2, <2>1, AnsweredIdk DEF Finished, Untouched
  <2> QED
    BY <1>1, <2>2, FinishedStep
<1>5. CASE \E refs \in SUBSET (1..Len(Sources) + 1), n \in 0..Len(Sources) + 1, quote \in Quotes :
             payload' \in {Processed(refs, <<>>), Processed(refs, <<[named |-> n, quote |-> quote]>>)}
  <2>1. PICK refs \in SUBSET (1..Len(Sources) + 1), n \in 0..Len(Sources) + 1, quote \in Quotes :
             payload' \in {Processed(refs, <<>>), Processed(refs, <<[named |-> n, quote |-> quote]>>)}
    BY <1>5
  <2> DEFINE line == [named |-> n, quote |-> quote]
             r == payload'
  <2>2. n \in Nat /\ line.named = n
    BY <1>2 DEF Sources
  <2> HIDE DEF line
  <2>3. CASE r = Processed(refs, <<>>)
    <3>1. <<>> \in [1..0 -> {line}] /\ 0 \in Nat /\ \A x \in {line} : x.named \in Nat
      BY <2>2
    <3>2. Finished(r) /\ \A i \in 1..Len(r.quotes) : Standing(r.quotes[i])
      BY <1>2, <2>3, <3>1, QuotedOK
    <3> QED
      BY <1>1, <3>2, FinishedStep
  <2>4. CASE r = Processed(refs, <<line>>)
    <3>1. <<line>> \in [1..1 -> {line}] /\ 1 \in Nat /\ \A x \in {line} : x.named \in Nat
      BY <2>2
    <3>2. Finished(r) /\ \A i \in 1..Len(r.quotes) : Standing(r.quotes[i])
      BY <1>2, <2>4, <3>1, QuotedOK
    <3> QED
      BY <1>1, <3>2, FinishedStep
  <2> QED
    BY <2>1, <2>3, <2>4 DEF line
<1> QED
  BY <1>3, <1>4, <1>5 DEF Finalizes

LEMMA RagStep == ASSUME RagInv, [RagNext]_ragVars PROVE RagInv'
<1>1. CASE UNCHANGED ragVars
  <2>1. /\ UNCHANGED <<ragConfig, world, candidates, survivors, skipped, ragPc, outbound, payload>>
        /\ skipped' \in {skipped, skipped \cup {"lexical"}, skipped \cup {"llm"}}
    BY <1>1 DEF ragVars
  <2>2. CandidatesOK' /\ SurvivorsOK'
    BY <2>1, CandidatesStay, SurvivorsStay DEF RagInv
  <2> QED
    BY <2>1, <2>2, SameGrounds
       DEF RagInv, StageOK, PayloadOK, Early, ConfigType, PayloadShape, Explained, Explains, StrictIsGrounded, QuotesStand, Found
<1> QED
  BY <1>1, StartsStep, RetrievesStep, RewritesStep, HybridStep, NoHybridStep, CutsStep, LexicalStep,
     ReranksStep, GatesStep, NotesNothingStep, RagMergesStep, RagFailsStep, FinalizesStep DEF RagNext

LEMMA RagInvSound == RagInv => RagSound
<1> SUFFICES ASSUME RagInv PROVE RagSound
  OBVIOUS
<1>1. StrictIsGrounded /\ QuotesStand
  BY DEF RagInv, PayloadOK
<1>2. TraceExplainsSources
  BY DEF RagInv, PayloadOK, Explained, Explains, TraceExplainsSources
<1>3. ShownPassedCut
  BY DEF RagInv, PayloadOK, PassedCut, ShownPassedCut
<1>4. SkippedLeavesNothing
  <2>1. ASSUME NEW i \in 1..Len(candidates)
        PROVE  /\ "hybrid" \in skipped => candidates[i].fts = 0 /\ ~candidates[i].exempt
               /\ "rewrite" \in skipped => candidates[i].by = "original"
    BY DEF RagInv, CandidatesOK, CandidateOK, Rewritten, Hybridised
  <2> QED
    BY <2>1 DEF SkippedLeavesNothing
<1> QED
  BY <1>1, <1>2, <1>3, <1>4 DEF RagSound

(* Whatever world, settings and failing stages a retrieval meets: a strict *)
(* answer rests on fragments or on a warning, the trace explains the       *)
(* sources, which passed the cut, a failed stage leaves nothing behind and *)
(* a verified quote stands where it is put (rag_turn.py, rag_pipeline.py,  *)
(* rag_cite.py).                                                           *)
THEOREM RetrievalIsSound == TurnsSpec => []RetrievalSound
<1> DEFINE Inv == focus = "rag" => RagInv
<1>1. TurnsInit => Inv
  BY RagStart DEF TurnsInit
<1>2. Inv /\ [TurnsNext]_turnsVars => Inv'
  BY FocusMoves, RagStep
<1>3. Inv => RetrievalSound
  BY RagInvSound DEF RetrievalSound
<1> QED
  BY <1>1, <1>2, <1>3, PTL DEF TurnsSpec

-----------------------------------------------------------------------------
(***************************************************************************)
(* LlmStream                                                               *)
(***************************************************************************)
Joins(c, a, b) == c = a \o b

LEMMA ConcatParts ==
  ASSUME NEW S, NEW a \in Seq(S), NEW b \in Seq(S), NEW c, Joins(c, a, b)
  PROVE  /\ c \in Seq(S) /\ Len(c) = Len(a) + Len(b)
         /\ \A k \in 1..Len(a) : k \in 1..Len(c) /\ c[k] = a[k]
         /\ \A k \in 1..Len(b) : Len(a) + k \in 1..Len(c) /\ c[Len(a) + k] = b[k]
<1>1. /\ c \in Seq(S) /\ Len(c) = Len(a) + Len(b) /\ Len(a) \in Nat /\ Len(b) \in Nat
      /\ \A k \in 1..Len(a) + Len(b) : c[k] = IF k <= Len(a) THEN a[k] ELSE b[k - Len(a)]
  BY DEF Joins
<1>2. ASSUME NEW k \in 1..Len(a) PROVE k \in 1..Len(c) /\ c[k] = a[k]
  <2>1. k \in 1..Len(a) + Len(b) /\ k <= Len(a)
    BY <1>1
  <2> QED
    BY <1>1, <2>1
<1>3. ASSUME NEW k \in 1..Len(b) PROVE Len(a) + k \in 1..Len(c) /\ c[Len(a) + k] = b[k]
  <2> DEFINE m == Len(a) + k
  <2>1. m \in 1..Len(a) + Len(b) /\ ~(m <= Len(a)) /\ m - Len(a) = k
    BY <1>1
  <2> HIDE DEF m
  <2>2. m \in 1..Len(c) /\ c[m] = b[k]
    BY <1>1, <2>1
  <2> QED
    BY <2>2 DEF m
<1> QED
  BY <1>1, <1>2, <1>3

(* A finite set put in a sequence, in whatever order, is all there. *)
LEMMA SetToSeqIs ==
  ASSUME NEW S, IsFiniteSet(S)
  PROVE  /\ SetToSeq(S) \in Seq(S)
         /\ \A x \in S : \E k \in 1..Len(SetToSeq(S)) : SetToSeq(S)[k] = x
<1> DEFINE n == Cardinality(S)
           s == SetToSeq(S)
<1>1. n \in Nat /\ IsFiniteSet(1..n) /\ Cardinality(1..n) = n
  BY FS_CardinalityType, FS_Interval
<1>2. \E f \in [1..n -> S] : IsInjective(f)
  <2>1. ExistsBijection(1..n, S)
    BY <1>1, FS_SameCardinalityBij
  <2>2. PICK f : f \in Bijection(1..n, S)
    BY <2>1 DEF ExistsBijection
  <2> QED
    BY <2>2 DEF Bijection, Injection
<1>3. s \in [1..n -> S] /\ IsInjective(s)
  BY <1>2 DEF SetToSeq
<1> HIDE DEF s
<1>4. s \in Surjection(1..n, S)
  <2>1. s \in Injection(1..n, S)
    BY <1>3 DEF Injection
  <2> QED
    BY <1>1, <2>1, FS_Injection
<1> HIDE DEF n
<1>5. s \in Seq(S) /\ Len(s) = n
  BY <1>1, <1>3, AsSeq
<1>6. \A x \in S : \E k \in 1..n : s[k] = x
  BY <1>4 DEF Surjection
<1> QED
  BY <1>5, <1>6 DEF s

CallSet == [index : CallIndexes, pieces : Seq(Nat)]

(* The calls put together so far are what was sent, and none is missing. *)
Mirrors(acc, pieced) ==
  /\ \A k \in 1..Len(acc) : acc[k].pieces = pieced[acc[k].index]
  /\ \A i \in CallIndexes : pieced[i] # <<>> => \E k \in 1..Len(acc) : acc[k].index = i

StreamInv ==
  /\ lines \in Nat /\ sentText \in Seq(Nat) /\ sentCalls \in [CallIndexes -> Seq(Nat)]
  /\ accumulated \in Seq(CallSet) /\ emitted \in BOOLEAN
  /\ gotText = sentText /\ Mirrors(accumulated, sentCalls)
  /\ streamState \in {"open", "finished", "ended", "failed", "cancelled"}
  /\ gotCalls \in {<<>>, <<accumulated>>}
  /\ streamState = "open" => gotCalls = <<>> /\ ~emitted
  /\ streamState = "finished" => (emitted <=> gotCalls # <<>>)
  /\ streamState = "ended" => accumulated = <<>> \/ gotCalls # <<>>

LEMMA StreamStarts == StreamInit => StreamInv
<1> SUFFICES ASSUME StreamInit PROVE StreamInv
  OBVIOUS
<1>1. Len(<<>>) = 0 /\ 1..0 = {} /\ <<>> \in Seq(Nat) /\ <<>> \in Seq(CallSet)
  OBVIOUS
<1>2. Mirrors(accumulated, sentCalls)
  BY <1>1 DEF StreamInit, Mirrors
<1> QED
  BY <1>1, <1>2 DEF StreamInit, StreamInv

(* One more line of pieces. *)
LEMMA AccumulatedIs ==
  ASSUME NEW acc \in Seq(CallSet), NEW pieced \in [CallIndexes -> Seq(Nat)], Mirrors(acc, pieced),
         NEW pieces \in SUBSET CallIndexes, NEW n \in Nat
  PROVE  /\ Accumulate(acc, pieces, n) \in Seq(CallSet)
         /\ Mirrors(Accumulate(acc, pieces, n),
                    [i \in CallIndexes |-> IF i \in pieces THEN Append(pieced[i], n) ELSE pieced[i]])
<1> DEFINE fresh == pieces \ {acc[k].index : k \in DOMAIN acc}
           new == SetToSeq(fresh)
           old == [k \in DOMAIN acc |-> IF acc[k].index \in pieces THEN [acc[k] EXCEPT !.pieces = Append(@, n)] ELSE acc[k]]
           added == [k \in DOMAIN new |-> [index |-> new[k], pieces |-> <<n>>]]
           later == [i \in CallIndexes |-> IF i \in pieces THEN Append(pieced[i], n) ELSE pieced[i]]
           r == old \o added
<1>1. Accumulate(acc, pieces, n) = r
  BY DEF Accumulate
<1>2. IsFiniteSet(fresh) /\ fresh \subseteq CallIndexes
  BY StreamAssumption, FS_Subset
<1>3. Len(acc) \in Nat /\ DOMAIN acc = 1..Len(acc) /\ \A k \in 1..Len(acc) : acc[k] \in CallSet
  OBVIOUS
<1>4. \A i \in fresh : i \in pieces /\ pieced[i] = <<>>
  BY <1>2, <1>3 DEF Mirrors
<1>5. \A i \in pieces : i \in fresh \/ \E k \in 1..Len(acc) : acc[k].index = i
  BY <1>3
<1> HIDE DEF fresh
<1>6. new \in Seq(fresh) /\ \A x \in fresh : \E k \in 1..Len(new) : new[k] = x
  BY <1>2, SetToSeqIs
<1> HIDE DEF new
<1>7. Len(new) \in Nat /\ DOMAIN new = 1..Len(new) /\ \A k \in 1..Len(new) : new[k] \in fresh
  BY <1>6
<1>8. \A i \in CallIndexes : later[i] = IF i \in pieces THEN Append(pieced[i], n) ELSE pieced[i]
  OBVIOUS
<1>9. ASSUME NEW k \in 1..Len(acc)
      PROVE  old[k] \in CallSet /\ old[k].index = acc[k].index /\ old[k].pieces = later[acc[k].index]
  <2> DEFINE c == acc[k]
             u == [c EXCEPT !.pieces = Append(@, n)]
  <2>1. old[k] = IF c.index \in pieces THEN u ELSE c
    BY <1>3
  <2>2. c \in CallSet /\ c.pieces = pieced[c.index]
    BY <1>3 DEF Mirrors
  <2> HIDE DEF c, old, later
  <2>3. c.index \in CallIndexes /\ c.pieces \in Seq(Nat)
    BY <2>2 DEF CallSet
  <2>4. u \in CallSet /\ u.index = c.index /\ u.pieces = Append(c.pieces, n)
    <3> DEFINE q == Append(c.pieces, n)
    <3>1. q \in Seq(Nat) /\ u = [c EXCEPT !.pieces = q]
      BY <2>3
    <3> HIDE DEF q, u
    <3>2. u \in CallSet /\ u.index = c.index /\ u.pieces = q
      BY <2>2, <3>1 DEF CallSet
    <3> QED
      BY <3>2 DEF q
  <2> HIDE DEF u
  <2>5. old[k] \in CallSet /\ old[k].index = c.index /\ old[k].pieces = later[c.index]
    BY <1>8, <2>1, <2>2, <2>3, <2>4
  <2> QED
    BY <2>5 DEF c
<1>10. ASSUME NEW k \in 1..Len(new)
       PROVE  added[k] \in CallSet /\ added[k].index = new[k] /\ added[k].pieces = later[new[k]]
  <2>1. added[k] = [index |-> new[k], pieces |-> <<n>>]
    BY <1>7
  <2>2. new[k] \in CallIndexes /\ new[k] \in pieces /\ pieced[new[k]] = <<>>
    BY <1>2, <1>4, <1>7
  <2>3. later[new[k]] = Append(<<>>, n)
    BY <1>8, <2>2
  <2>4. Append(<<>>, n) = <<n>> /\ <<n>> \in Seq(Nat)
    OBVIOUS
  <2> HIDE DEF later, added
  <2> QED
    BY <2>1, <2>2, <2>3, <2>4 DEF CallSet
<1> HIDE DEF later
<1>11. old \in Seq(CallSet) /\ Len(old) = Len(acc)
  <2>1. old \in [1..Len(acc) -> CallSet]
    BY <1>3, <1>9
  <2> HIDE DEF old
  <2> QED
    BY <1>3, <2>1, AsSeq
<1>12. added \in Seq(CallSet) /\ Len(added) = Len(new)
  <2>1. added \in [1..Len(new) -> CallSet]
    BY <1>7, <1>10
  <2> HIDE DEF added
  <2> QED
    BY <1>7, <2>1, AsSeq
<1> HIDE DEF old, added
<1>13. /\ r \in Seq(CallSet) /\ Len(r) = Len(acc) + Len(new)
       /\ \A k \in 1..Len(acc) : k \in 1..Len(r) /\ r[k] = old[k]
       /\ \A k \in 1..Len(new) : Len(acc) + k \in 1..Len(r) /\ r[Len(acc) + k] = added[k]
       /\ \A k \in 1..Len(r) :
            \/ k \in 1..Len(acc) /\ r[k] = old[k]
            \/ k - Len(acc) \in 1..Len(new) /\ r[k] = added[k - Len(acc)]
  <2>1. Joins(r, old, added) /\ r = old \o added
    BY DEF Joins
  <2> HIDE DEF r
  <2>2. /\ r \in Seq(CallSet) /\ Len(r) = Len(old) + Len(added)
        /\ \A k \in 1..Len(old) : k \in 1..Len(r) /\ r[k] = old[k]
        /\ \A k \in 1..Len(added) : Len(old) + k \in 1..Len(r) /\ r[Len(old) + k] = added[k]
    <3>1. old \in Seq(CallSet) /\ added \in Seq(CallSet) /\ Joins(r, old, added)
      BY <1>11, <1>12, <2>1
    <3> QED
      BY <3>1, ConcatParts, Zenon
  <2>3. \A k \in 1..Len(r) :
          \/ k \in 1..Len(old) /\ r[k] = old[k]
          \/ k - Len(old) \in 1..Len(added) /\ r[k] = added[k - Len(old)]
    BY <1>11, <1>12, <2>1, ConcatIs
  <2> QED
    BY <1>11, <1>12, <2>2, <2>3
<1> HIDE DEF r
<1>14. ASSUME NEW k \in 1..Len(r) PROVE r[k].pieces = later[r[k].index]
  <2>1. CASE k \in 1..Len(acc) /\ r[k] = old[k]
    BY <1>9, <2>1
  <2>2. CASE k - Len(acc) \in 1..Len(new) /\ r[k] = added[k - Len(acc)]
    BY <1>10, <2>2
  <2> QED
    BY <1>13, <2>1, <2>2
<1>15. ASSUME NEW i \in CallIndexes, later[i] # <<>> PROVE \E k \in 1..Len(r) : r[k].index = i
  <2>1. CASE \E k \in 1..Len(acc) : acc[k].index = i
    BY <1>9, <1>13, <2>1
  <2>2. CASE i \in fresh
    <3>1. PICK k \in 1..Len(new) : new[k] = i
      BY <1>6, <2>2
    <3>2. Len(acc) + k \in 1..Len(r) /\ r[Len(acc) + k] = added[k] /\ added[k].index = i
      BY <1>10, <1>13, <3>1
    <3> QED
      BY <3>2
  <2>3. pieced[i] # <<>> \/ i \in pieces
    BY <1>8, <1>15
  <2> QED
    BY <1>5, <2>1, <2>2, <2>3 DEF Mirrors
<1> QED
  BY <1>1, <1>13, <1>14, <1>15 DEF Mirrors, later

LEMMA StreamMoves == ASSUME StreamInv, [StreamNext]_streamVars PROVE StreamInv'
<1>1. CASE UNCHANGED streamVars
  BY <1>1 DEF streamVars, StreamInv, Mirrors
<1>2. ASSUME NEW text \in BOOLEAN, NEW pieces \in SUBSET CallIndexes,
             NEW finish \in {"none", "stop", "length", "tool_calls"}, Line(text, pieces, finish)
      PROVE  StreamInv'
  <2> DEFINE n == lines + 1
             acc == Accumulate(accumulated, pieces, n)
             pieced == [i \in CallIndexes |-> IF i \in pieces THEN Append(sentCalls[i], n) ELSE sentCalls[i]]
  <2>1. /\ streamState = "open" /\ lines' = n
        /\ sentText' = (IF text THEN Append(sentText, n) ELSE sentText)
        /\ gotText' = (IF text THEN Append(gotText, n) ELSE gotText)
        /\ sentCalls' = pieced /\ accumulated' = acc
        /\ IF finish = "tool_calls" THEN emitted' = TRUE /\ gotCalls' = Append(gotCalls, acc)
           ELSE UNCHANGED <<emitted, gotCalls>>
        /\ streamState' = IF finish = "none" THEN "open" ELSE "finished"
    BY <1>2 DEF Line
  <2>2. n \in Nat /\ gotCalls = <<>> /\ emitted = FALSE
    BY <2>1 DEF StreamInv
  <2>3. pieced \in [CallIndexes -> Seq(Nat)]
    BY <2>2 DEF StreamInv
  <2>4. acc \in Seq(CallSet) /\ Mirrors(acc, pieced)
    BY <2>2, AccumulatedIs DEF StreamInv
  <2> HIDE DEF n, acc, pieced
  <2>5. Append(<<>>, acc) = <<acc>> /\ <<acc>> # <<>>
    OBVIOUS
  <2>6. Mirrors(accumulated, sentCalls)'
    BY <2>1, <2>4 DEF Mirrors
  <2>7. sentText' \in Seq(Nat) /\ gotText' = sentText'
    BY <2>1, <2>2 DEF StreamInv
  <2> QED
    BY <2>1, <2>2, <2>3, <2>4, <2>5, <2>6, <2>7 DEF StreamInv, CallSet
<1>3. CASE StreamEnds
  <2>1. /\ streamState \in {"open", "finished"} /\ streamState' = "ended"
        /\ gotCalls' = IF accumulated # <<>> /\ ~emitted THEN Append(gotCalls, accumulated) ELSE gotCalls
        /\ UNCHANGED <<lines, sentText, sentCalls, accumulated, emitted, gotText>>
    BY <1>3 DEF StreamEnds
  <2>2. ~emitted => gotCalls = <<>>
    BY <2>1 DEF StreamInv
  <2>3. Append(<<>>, accumulated) = <<accumulated>> /\ <<accumulated>> # <<>>
    OBVIOUS
  <2>4. Mirrors(accumulated, sentCalls)'
    BY <2>1 DEF Mirrors, StreamInv
  <2> QED
    BY <2>1, <2>2, <2>3, <2>4 DEF StreamInv, CallSet
<1>4. CASE StreamFails
  BY <1>4 DEF StreamFails, StreamInv, Mirrors, CallSet
<1> QED
  BY <1>1, <1>2, <1>3, <1>4 DEF StreamNext, ServerSends

LEMMA StreamHolds == StreamInv => NothingLostInStream
<1> SUFFICES ASSUME StreamInv PROVE NothingLostInStream
  OBVIOUS
<1>1. /\ gotText = sentText /\ Mirrors(accumulated, sentCalls) /\ gotCalls \in {<<>>, <<accumulated>>}
      /\ streamState = "ended" => accumulated = <<>> \/ gotCalls # <<>>
      /\ accumulated \in Seq(CallSet)
  BY DEF StreamInv
<1>2. DOMAIN accumulated = 1..Len(accumulated)
  BY <1>1
<1>3. CASE gotCalls = <<>>
  <2>1. DOMAIN gotCalls = {} /\ Len(gotCalls) = 0
    BY <1>3
  <2>2. streamState = "ended" => \A i \in CallIndexes : sentCalls[i] = <<>>
    <3>1. streamState = "ended" => 1..Len(accumulated) = {}
      BY <1>1, <1>3
    <3> QED
      BY <1>1, <3>1 DEF Mirrors
  <2> QED
    BY <1>1, <2>1, <2>2 DEF NothingLostInStream
<1>4. CASE gotCalls = <<accumulated>>
  <2>1. DOMAIN gotCalls = {1} /\ Len(gotCalls) = 1 /\ gotCalls[1] = accumulated
    BY <1>4
  <2> QED
    BY <1>1, <1>2, <2>1 DEF NothingLostInStream, Mirrors
<1> QED
  BY <1>1, <1>3, <1>4

(* Whatever the server sends and however it ends, for any number of calls  *)
(* and of lines: the caller has the text as it was sent, each call at most *)
(* once and never before its last piece, and every call of an answer that  *)
(* came to its end (llm_client.py).                                        *)
THEOREM StreamIsWhole == TurnsSpec => [](focus = "stream" => NothingLostInStream)
<1> DEFINE Inv == focus = "stream" => StreamInv
<1>1. TurnsInit => Inv
  BY StreamStarts DEF TurnsInit
<1>2. Inv /\ [TurnsNext]_turnsVars => Inv'
  BY FocusMoves, StreamMoves
<1>3. Inv => (focus = "stream" => NothingLostInStream)
  BY StreamHolds
<1> QED
  BY <1>1, <1>2, <1>3, PTL DEF TurnsSpec

-----------------------------------------------------------------------------
(***************************************************************************)
(* ContextWindow.  FlattenSeq and FoldLeft are recursive functions, which  *)
(* exist: the least position where they would not is none.                 *)
(***************************************************************************)
(* The first k parts, put together. *)
PrefixesUpTo(f, seqs, k) == f = [i \in 1..k |-> IF i = 1 THEN seqs[i] ELSE f[i - 1] \o seqs[i]]

LEMMA PrefixesExist ==
  ASSUME NEW S, NEW seqs \in Seq(Seq(S)), NEW n \in Nat, n <= Len(seqs)
  PROVE  \E f \in [1..n -> Seq(S)] : PrefixesUpTo(f, seqs, n)
<1> DEFINE T == {k \in Nat : k <= n /\ ~ \E f \in [1..k -> Seq(S)] : PrefixesUpTo(f, seqs, k)}
<1>0. T = {} => \E f \in [1..n -> Seq(S)] : PrefixesUpTo(f, seqs, n)
  <2>1. n \in Nat /\ n <= n
    OBVIOUS
  <2> QED
    BY <2>1
<1> SUFFICES ASSUME T # {} PROVE FALSE
  BY <1>0
<1>1. PICK k \in T : \A m \in T : k <= m
  BY LeastNat
<1>2. k \in Nat /\ k <= n /\ ~ \E f \in [1..k -> Seq(S)] : PrefixesUpTo(f, seqs, k)
  BY <1>1
<1>3. CASE k = 0
  <2> DEFINE f == [i \in 1..0 |-> <<>>]
  <2>1. f \in [1..0 -> Seq(S)] /\ PrefixesUpTo(f, seqs, 0)
    BY DEF PrefixesUpTo
  <2> QED
    BY <1>2, <1>3, <2>1
<1>4. CASE k # 0
  <2>1. k - 1 \in Nat /\ k - 1 <= n /\ ~(k <= k - 1) /\ k \in 1..Len(seqs) /\ k \in 1..k
    BY <1>2, <1>4
  <2>2. PICK g \in [1..k - 1 -> Seq(S)] : PrefixesUpTo(g, seqs, k - 1)
    <3>1. k - 1 \notin T
      BY <1>1, <2>1
    <3> QED
      BY <2>1, <3>1
  <2> HIDE DEF T
  <2> DEFINE last == IF k = 1 THEN seqs[k] ELSE g[k - 1] \o seqs[k]
             f == [i \in 1..k |-> IF i = k THEN last ELSE g[i]]
  <2>3. last \in Seq(S)
    <3>1. seqs[k] \in Seq(S) /\ (k # 1 => g[k - 1] \in Seq(S))
      BY <2>1
    <3> HIDE DEF f
    <3> QED
      BY <3>1
  <2>4. \A i \in 1..k : i # k => i \in 1..k - 1 /\ (i # 1 => i - 1 \in 1..k - 1 /\ i - 1 # k /\ i - 1 \in 1..k)
    BY <2>1
  <2>5. f \in [1..k -> Seq(S)]
    <3> HIDE DEF last
    <3> QED
      BY <2>3, <2>4
  <2>6. ASSUME NEW i \in 1..k PROVE f[i] = IF i = 1 THEN seqs[i] ELSE f[i - 1] \o seqs[i]
    <3> DEFINE h == [j \in 1..k - 1 |-> IF j = 1 THEN seqs[j] ELSE g[j - 1] \o seqs[j]]
    <3>1. CASE i = k
      <4>1. f[k] = last /\ (k # 1 => f[k - 1] = g[k - 1])
        <5>1. k # 1 => k - 1 \in 1..k /\ k - 1 # k
          BY <2>1
        <5> HIDE DEF last
        <5> QED
          BY <2>1, <5>1
      <4> HIDE DEF f
      <4> QED
        BY <3>1, <4>1
    <3>2. CASE i # k
      <4>1. i \in 1..k - 1 /\ f[i] = g[i] /\ (i # 1 => f[i - 1] = g[i - 1])
        <5> HIDE DEF last
        <5> QED
          BY <2>4, <3>2
      <4>2. g = h
        BY <2>2 DEF PrefixesUpTo
      <4> HIDE DEF f
      <4>3. h[i] = IF i = 1 THEN seqs[i] ELSE g[i - 1] \o seqs[i]
        BY <4>1
      <4> HIDE DEF h
      <4> QED
        BY <4>1, <4>2, <4>3
    <3> QED
      BY <3>1, <3>2
  <2> HIDE DEF f
  <2>7. PrefixesUpTo(f, seqs, k)
    <3> DEFINE h == [i \in 1..k |-> IF i = 1 THEN seqs[i] ELSE f[i - 1] \o seqs[i]]
    <3>1. \A i \in 1..k : f[i] = h[i]
      BY <2>6
    <3>2. DOMAIN f = 1..k /\ DOMAIN h = 1..k
      BY <2>5
    <3>3. f = [i \in 1..k |-> f[i]] /\ h = [i \in 1..k |-> h[i]]
      BY <2>5
    <3> HIDE DEF h
    <3>4. f = h
      BY <3>1, <3>3, Zenon
    <3> QED
      BY <3>4 DEF PrefixesUpTo, h
  <2> QED
    BY <1>2, <2>5, <2>7
<1> QED
  BY <1>3, <1>4

LEMMA FlattenIs ==
  ASSUME NEW S, NEW seqs \in Seq(Seq(S)), Len(seqs) # 0
  PROVE  \E f \in [1..Len(seqs) -> Seq(S)] :
           /\ FlattenSeq(seqs) = f[Len(seqs)]
           /\ f[1] = seqs[1]
           /\ \A i \in 2..Len(seqs) : f[i] = f[i - 1] \o seqs[i]
<1> DEFINE n == Len(seqs)
           P(f) == f = [i \in 1..n |-> IF i = 1 THEN seqs[i] ELSE f[i - 1] \o seqs[i]]
           g == CHOOSE f : P(f)
<1>1. FlattenSeq(seqs) = g[n]
  BY DEF FlattenSeq
<1>2. n \in Nat /\ n <= Len(seqs) /\ n # 0
  OBVIOUS
<1>3. PICK e \in [1..n -> Seq(S)] : PrefixesUpTo(e, seqs, n)
  BY <1>2, PrefixesExist
<1>4. P(g)
  <2>1. P(e)
    BY <1>3 DEF PrefixesUpTo
  <2> HIDE DEF P
  <2> QED
    BY <2>1
<1> HIDE DEF g
<1>5. /\ 1 \in 1..n /\ \A i \in 2..n : i \in 1..n /\ i # 1
      /\ \A i \in 1..n : g[i] = IF i = 1 THEN seqs[i] ELSE g[i - 1] \o seqs[i]
      /\ DOMAIN g = 1..n
  <2> DEFINE h == [i \in 1..n |-> IF i = 1 THEN seqs[i] ELSE g[i - 1] \o seqs[i]]
  <2>1. g = h
    BY <1>4
  <2>2. DOMAIN h = 1..n /\ \A i \in 1..n : h[i] = IF i = 1 THEN seqs[i] ELSE g[i - 1] \o seqs[i]
    OBVIOUS
  <2> HIDE DEF h
  <2>3. 1 \in 1..n /\ \A i \in 2..n : i \in 1..n /\ i # 1
    BY <1>2
  <2> QED
    BY <2>1, <2>2, <2>3
<1>6. g \in [1..n -> Seq(S)]
  <2> DEFINE T == {k \in Nat : k \in 1..n /\ g[k] \notin Seq(S)}
  <2>1. ASSUME T # {} PROVE FALSE
    <3>1. PICK k \in T : \A m \in T : k <= m
      BY <2>1, LeastNat
    <3>2. k \in Nat /\ k \in 1..n /\ g[k] \notin Seq(S) /\ seqs[k] \in Seq(S)
      BY <3>1
    <3>3. k # 1 => k - 1 \in 1..n /\ ~(k <= k - 1) /\ k - 1 \in Nat
      BY <1>2, <3>2
    <3>4. k # 1 => g[k - 1] \in Seq(S)
      BY <3>1, <3>3
    <3> HIDE DEF T
    <3>5. g[k] = IF k = 1 THEN seqs[k] ELSE g[k - 1] \o seqs[k]
      BY <1>5, <3>2
    <3> QED
      BY <3>2, <3>4, <3>5
  <2>2. \A k \in 1..n : g[k] \in Seq(S)
    BY <1>2, <2>1
  <2>3. g = [k \in 1..n |-> g[k]]
    BY <1>4
  <2> QED
    BY <2>2, <2>3
<1> QED
  BY <1>1, <1>5, <1>6

(* Part a of the sequences lies behind at[a - 1] in what is put together. *)
PlacesOf(at, seqs) ==
  /\ at \in [0..Len(seqs) -> Nat] /\ at[0] = 0
  /\ \A a \in 1..Len(seqs) : at[a] = at[a - 1] + Len(seqs[a])
LiesAt(flat, seqs, at, n) ==
  /\ Len(flat) = at[n]
  /\ \A a \in 1..n : \A j \in 1..Len(seqs[a]) : at[a - 1] + j \in 1..Len(flat) /\ flat[at[a - 1] + j] = seqs[a][j]
  /\ \A k \in 1..Len(flat) : \E a \in 1..n : \E j \in 1..Len(seqs[a]) : k = at[a - 1] + j

LEMMA LiesOneMore ==
  ASSUME NEW S, NEW seqs \in Seq(Seq(S)), NEW at, PlacesOf(at, seqs), NEW n \in 1..Len(seqs),
         NEW flat \in Seq(S), LiesAt(flat, seqs, at, n - 1), NEW more, Joins(more, flat, seqs[n])
  PROVE  LiesAt(more, seqs, at, n)
<1>1. /\ n \in Nat /\ n - 1 \in 0..Len(seqs) /\ n \in 0..Len(seqs) /\ seqs[n] \in Seq(S) /\ Len(seqs) \in Nat
      /\ \A a \in 1..n : a \in 1..Len(seqs) /\ a - 1 \in 0..Len(seqs) /\ (a # n => a \in 1..n - 1)
      /\ \A a \in 1..n - 1 : a \in 1..n
  OBVIOUS
<1>2. /\ at[n] = at[n - 1] + Len(seqs[n]) /\ Len(flat) = at[n - 1]
      /\ at[n - 1] \in Nat /\ Len(seqs[n]) \in Nat
  BY <1>1 DEF PlacesOf, LiesAt
<1> DEFINE part == seqs[n]
<1>3. /\ more \in Seq(S) /\ Len(more) = Len(flat) + Len(part)
      /\ \A k \in 1..Len(flat) : k \in 1..Len(more) /\ more[k] = flat[k]
      /\ \A k \in 1..Len(part) : Len(flat) + k \in 1..Len(more) /\ more[Len(flat) + k] = part[k]
  <2>1. part \in Seq(S) /\ Joins(more, flat, part)
    BY <1>1
  <2> HIDE DEF part
  <2> QED
    BY <2>1, ConcatParts, Zenon
<1>4. \A a \in 1..n - 1 : \A j \in 1..Len(seqs[a]) : at[a - 1] + j \in 1..Len(flat) /\ flat[at[a - 1] + j] = seqs[a][j]
  BY DEF LiesAt
<1>5. \A k \in 1..Len(flat) : \E a \in 1..n - 1 : \E j \in 1..Len(seqs[a]) : k = at[a - 1] + j
  BY DEF LiesAt
<1>6. Len(more) = at[n]
  BY <1>2, <1>3
<1>7. ASSUME NEW a \in 1..n, NEW j \in 1..Len(seqs[a])
      PROVE  at[a - 1] + j \in 1..Len(more) /\ more[at[a - 1] + j] = seqs[a][j]
  <2>1. CASE a = n
    BY <1>2, <1>3, <2>1
  <2>2. CASE a # n
    BY <1>1, <1>3, <1>4, <2>2
  <2> QED
    BY <2>1, <2>2
<1>8. ASSUME NEW k \in 1..Len(more) PROVE \E a \in 1..n : \E j \in 1..Len(seqs[a]) : k = at[a - 1] + j
  <2>1. CASE k <= Len(flat)
    <3>1. k \in 1..Len(flat)
      BY <1>2, <1>3, <2>1
    <3> QED
      BY <1>1, <1>5, <3>1
  <2>2. CASE ~(k <= Len(flat))
    <3> DEFINE j == k - at[n - 1]
    <3>1. j \in 1..Len(seqs[n]) /\ k = at[n - 1] + j /\ n \in 1..n
      BY <1>1, <1>2, <1>3, <2>2
    <3> HIDE DEF j
    <3> QED
      BY <3>1
  <2> QED
    BY <2>1, <2>2
<1> QED
  BY <1>6, <1>7, <1>8 DEF LiesAt

LEMMA FlatPlaces ==
  ASSUME NEW S, NEW seqs \in Seq(Seq(S))
  PROVE  /\ FlattenSeq(seqs) \in Seq(S)
         /\ \E at : PlacesOf(at, seqs) /\ LiesAt(FlattenSeq(seqs), seqs, at, Len(seqs))
<1>1. CASE Len(seqs) = 0
  <2> DEFINE at == [i \in 0..0 |-> 0]
  <2>1. /\ FlattenSeq(seqs) = seqs /\ seqs = <<>> /\ <<>> \in Seq(S) /\ Len(<<>>) = 0
    BY <1>1 DEF FlattenSeq
  <2>2. PlacesOf(at, seqs)
    BY <1>1 DEF PlacesOf
  <2>3. at[0] = 0
    OBVIOUS
  <2> HIDE DEF at
  <2>4. LiesAt(FlattenSeq(seqs), seqs, at, Len(seqs))
    BY <1>1, <2>1, <2>3 DEF LiesAt
  <2> QED
    BY <2>1, <2>2, <2>4
<1>2. CASE Len(seqs) # 0
  <2> DEFINE n == Len(seqs)
  <2>1. PICK f \in [1..n -> Seq(S)] :
          /\ FlattenSeq(seqs) = f[n]
          /\ f[1] = seqs[1]
          /\ \A i \in 2..n : f[i] = f[i - 1] \o seqs[i]
    BY <1>2, FlattenIs
  <2> DEFINE at == [i \in 0..n |-> IF i = 0 THEN 0 ELSE Len(f[i])]
             T == {i \in Nat : i \in 1..n /\ ~LiesAt(f[i], seqs, at, i)}
  <2>2. n \in Nat /\ n \in 1..n /\ 1 \in 1..n
    BY <1>2
  <2>3. /\ at[0] = 0 /\ \A i \in 1..n : at[i] = Len(f[i]) /\ f[i] \in Seq(S) /\ seqs[i] \in Seq(S)
        /\ at \in [0..n -> Nat]
    <3>1. \A i \in 1..n : f[i] \in Seq(S) /\ Len(f[i]) \in Nat /\ seqs[i] \in Seq(S) /\ i \in 0..n /\ i # 0
      BY <2>2
    <3>2. \A i \in 0..n : i # 0 => i \in 1..n
      BY <2>2
    <3>3. 0 \in 0..n /\ 0 \in Nat
      BY <2>2
    <3> HIDE DEF n, T
    <3> QED
      BY <3>1, <3>2, <3>3
  <2> HIDE DEF at
  <2>4. \A a \in 1..n : at[a] = at[a - 1] + Len(seqs[a])
    <3> SUFFICES ASSUME NEW a \in 1..n PROVE at[a] = at[a - 1] + Len(seqs[a])
      OBVIOUS
    <3>1. CASE a = 1
      BY <2>1, <2>2, <2>3, <3>1
    <3>2. CASE a # 1
      <4>1. a \in 2..n /\ a - 1 \in 1..n
        BY <2>2, <3>2
      <4>2. f[a] = f[a - 1] \o seqs[a] /\ f[a - 1] \in Seq(S) /\ seqs[a] \in Seq(S)
        BY <2>1, <2>3, <4>1
      <4>3. Len(f[a]) = Len(f[a - 1]) + Len(seqs[a])
        BY <4>2
      <4> QED
        BY <2>3, <4>1, <4>3
    <3> QED
      BY <3>1, <3>2
  <2>5. PlacesOf(at, seqs)
    BY <2>3, <2>4 DEF PlacesOf
  <2>6. ASSUME T # {} PROVE FALSE
    <3>1. PICK k \in T : \A m \in T : k <= m
      BY <2>6, LeastNat
    <3>2. k \in Nat /\ k \in 1..n /\ ~LiesAt(f[k], seqs, at, k)
      BY <3>1
    <3>3. CASE k = 1
      <4>1. Joins(f[1], <<>>, seqs[1]) /\ <<>> \in Seq(S) /\ Len(<<>>) = 0
        BY <2>1, <2>2, <2>3 DEF Joins
      <4>2. LiesAt(<<>>, seqs, at, 0)
        BY <2>3, <4>1 DEF LiesAt
      <4>3. LiesAt(f[1], seqs, at, 1)
        <5>1. 1 \in 1..Len(seqs) /\ LiesAt(<<>>, seqs, at, 1 - 1)
          BY <2>2, <4>2
        <5> QED
          BY <2>5, <4>1, <5>1, LiesOneMore
      <4> QED
        BY <3>2, <3>3, <4>3
    <3>4. CASE k # 1
      <4>1. k \in 2..n /\ k - 1 \in 1..n /\ k - 1 \in Nat /\ ~(k <= k - 1)
        BY <2>2, <3>2, <3>4
      <4>2. LiesAt(f[k - 1], seqs, at, k - 1)
        BY <3>1, <4>1
      <4>3. Joins(f[k], f[k - 1], seqs[k]) /\ f[k - 1] \in Seq(S)
        BY <2>1, <2>3, <4>1 DEF Joins
      <4>4. LiesAt(f[k], seqs, at, k)
        BY <2>5, <3>2, <4>2, <4>3, LiesOneMore
      <4> QED
        BY <3>2, <4>4
    <3> QED
      BY <3>3, <3>4
  <2>7. LiesAt(f[n], seqs, at, n)
    BY <2>2, <2>6
  <2> QED
    BY <2>1, <2>2, <2>3, <2>5, <2>7
<1> QED
  BY <1>1, <1>2

(* The places go up. *)
LEMMA PlacesGrow ==
  ASSUME NEW S, NEW seqs \in Seq(Seq(S)), NEW at, PlacesOf(at, seqs)
  PROVE  \A a, b \in 0..Len(seqs) : a <= b => at[a] <= at[b]
<1> SUFFICES ASSUME NEW a \in 0..Len(seqs) PROVE \A b \in 0..Len(seqs) : a <= b => at[a] <= at[b]
  OBVIOUS
<1> DEFINE T == {b \in Nat : b \in 0..Len(seqs) /\ a <= b /\ ~(at[a] <= at[b])}
<1>1. /\ Len(seqs) \in Nat /\ at \in [0..Len(seqs) -> Nat]
      /\ \A i \in 1..Len(seqs) : at[i] = at[i - 1] + Len(seqs[i]) /\ Len(seqs[i]) \in Nat
  BY DEF PlacesOf
<1>2. ASSUME T # {} PROVE FALSE
  <2>1. PICK b \in T : \A m \in T : b <= m
    BY <1>2, LeastNat
  <2>2. b \in Nat /\ b \in 0..Len(seqs) /\ a <= b /\ ~(at[a] <= at[b]) /\ at[a] \in Nat
    BY <1>1, <2>1
  <2>3. b # a
    BY <2>2
  <2>4. b \in 1..Len(seqs) /\ b - 1 \in 0..Len(seqs) /\ a <= b - 1 /\ ~(b <= b - 1) /\ b - 1 \in Nat
    BY <1>1, <2>2, <2>3
  <2>5. at[a] <= at[b - 1]
    BY <2>1, <2>4
  <2>6. at[b - 1] \in Nat /\ at[b] = at[b - 1] + Len(seqs[b]) /\ Len(seqs[b]) \in Nat
    BY <1>1, <2>4
  <2> QED
    BY <2>2, <2>5, <2>6
<1>3. \A b \in 0..Len(seqs) : b \in Nat
  BY <1>1
<1> QED
  BY <1>2, <1>3

CtxMessages == [role : {"user", "assistant"}, text : Nat, calls : Nat, cost : Nat]
CtxItems == [kind : {"user", "assistant", "calls", "tool"}, of : Nat, call : Nat, tokens : Int]

CtxItem(kind, k, tokens, i) == [kind |-> kind, of |-> i, call |-> k, tokens |-> tokens]

(* What a message becomes: itself, or its calls, a result each, and its text. *)
ExpandedTo(b, m, i) ==
  /\ b \in Seq(CtxItems)
  /\ m.calls = 0 => Len(b) = 1 /\ b[1] = CtxItem(m.role, 0, m.text, i)
  /\ m.calls # 0 =>
       /\ Len(b) = m.calls + (IF m.text > 0 THEN 2 ELSE 1)
       /\ b[1] = CtxItem("calls", m.calls, m.calls * (m.cost \div 2), i)
       /\ \A k \in 1..m.calls : b[1 + k] = CtxItem("tool", k, m.cost - m.cost \div 2, i)
       /\ m.text > 0 => b[m.calls + 2] = CtxItem("assistant", 0,
            CtxTokens(m) - m.calls * (m.cost \div 2) - m.calls * (m.cost - m.cost \div 2), i)

LEMMA CtxItemIs ==
  ASSUME NEW kind \in {"user", "assistant", "calls", "tool"}, NEW k \in Nat, NEW tokens \in Int, NEW i \in Nat
  PROVE  CtxItem(kind, k, tokens, i) \in CtxItems
BY DEF CtxItem, CtxItems

LEMMA CtxItemHas ==
  ASSUME NEW kind, NEW k, NEW tokens, NEW i
  PROVE  LET x == CtxItem(kind, k, tokens, i) IN x.kind = kind /\ x.of = i /\ x.call = k /\ x.tokens = tokens
BY DEF CtxItem

LEMMA ExpandMessageIs ==
  ASSUME NEW m \in CtxMessages, NEW i \in Nat
  PROVE  ExpandedTo(ExpandMessage(m, i), m, i)
<1> DEFINE c == m.calls
           h == m.cost \div 2
           asked == c * h
           r == m.cost - h
           rest == CtxTokens(m) - asked - c * r
           head == <<CtxItem("calls", c, asked, i)>>
           tools == [k \in 1..c |-> CtxItem("tool", k, r, i)]
           tail == IF m.text > 0 THEN <<CtxItem("assistant", 0, rest, i)>> ELSE <<>>
           front == head \o tools
           b == front \o tail
<1>1. /\ c \in Nat /\ m.cost \in Nat /\ m.text \in Nat /\ m.role \in {"user", "assistant"}
      /\ CtxTokens(m) = m.text + c * m.cost
  BY DEF CtxMessages, CtxTokens
<1>2. h \in Nat
  BY <1>1
<1> HIDE DEF h
<1>3. asked \in Int /\ r \in Int /\ c * r \in Int /\ c * m.cost \in Int
  BY <1>1, <1>2
<1> HIDE DEF asked, r
<1>4. rest \in Int
  BY <1>1, <1>3
<1> HIDE DEF rest
<1>5. CASE c = 0
  <2>1. ExpandMessage(m, i) = <<CtxItem(m.role, 0, m.text, i)>>
    BY <1>5 DEF ExpandMessage, CtxItem
  <2>2. CtxItem(m.role, 0, m.text, i) \in CtxItems
    BY <1>1 DEF CtxItem, CtxItems
  <2> QED
    BY <1>5, <2>1, <2>2 DEF ExpandedTo
<1>6. CASE c # 0
  <2>1. ExpandMessage(m, i) = b
    BY <1>6 DEF ExpandMessage, CtxItem, h, r, asked, rest
  <2>2. head \in Seq(CtxItems) /\ Len(head) = 1 /\ head[1] = CtxItem("calls", c, asked, i)
    <3> DEFINE x == CtxItem("calls", c, asked, i)
    <3>1. x \in CtxItems
      BY <1>1, <1>3 DEF CtxItem, CtxItems
    <3> HIDE DEF x
    <3>2. <<x>> \in Seq(CtxItems) /\ Len(<<x>>) = 1 /\ <<x>>[1] = x
      BY <3>1
    <3> QED
      BY <3>2 DEF x
  <2>3. /\ tools \in Seq(CtxItems) /\ Len(tools) = c
        /\ \A k \in 1..c : tools[k] = CtxItem("tool", k, r, i)
    <3>1. \A k \in 1..c : CtxItem("tool", k, r, i) \in CtxItems
      BY <1>1, <1>3, CtxItemIs
    <3> QED
      BY <1>1, <3>1
  <2>4. /\ tail \in Seq(CtxItems) /\ Len(tail) = (IF m.text > 0 THEN 1 ELSE 0)
        /\ m.text > 0 => tail[1] = CtxItem("assistant", 0, rest, i)
    <3>1. CtxItem("assistant", 0, rest, i) \in CtxItems
      BY <1>4, CtxItemIs
    <3> QED
      BY <1>1, <3>1
  <2> HIDE DEF head, tools, tail
  <2>5. /\ front \in Seq(CtxItems) /\ Len(front) = 1 + c
        /\ front[1] = head[1] /\ \A k \in 1..c : 1 + k \in 1..Len(front) /\ front[1 + k] = tools[k]
    <3>1. Joins(front, head, tools)
      BY DEF Joins
    <3> HIDE DEF front
    <3>2. /\ front \in Seq(CtxItems) /\ Len(front) = Len(head) + Len(tools)
          /\ \A k \in 1..Len(head) : k \in 1..Len(front) /\ front[k] = head[k]
          /\ \A k \in 1..Len(tools) : Len(head) + k \in 1..Len(front) /\ front[Len(head) + k] = tools[k]
      <4>1. head \in Seq(CtxItems) /\ tools \in Seq(CtxItems)
        BY <2>2, <2>3
      <4> QED
        BY <3>1, <4>1, ConcatParts, Zenon
    <3> QED
      BY <2>2, <2>3, <3>2
  <2> HIDE DEF front
  <2>6. /\ b \in Seq(CtxItems) /\ Len(b) = Len(front) + Len(tail)
        /\ \A k \in 1..Len(front) : k \in 1..Len(b) /\ b[k] = front[k]
        /\ \A k \in 1..Len(tail) : Len(front) + k \in 1..Len(b) /\ b[Len(front) + k] = tail[k]
    <3>1. Joins(b, front, tail)
      BY DEF Joins
    <3> HIDE DEF b
    <3>2. front \in Seq(CtxItems) /\ tail \in Seq(CtxItems)
      BY <2>4, <2>5
    <3> QED
      BY <3>1, <3>2, ConcatParts, Zenon
  <2> HIDE DEF b
  <2>7. /\ Len(b) = c + (IF m.text > 0 THEN 2 ELSE 1)
        /\ b[1] = CtxItem("calls", c, asked, i)
        /\ \A k \in 1..c : b[1 + k] = CtxItem("tool", k, r, i)
        /\ m.text > 0 => b[c + 2] = CtxItem("assistant", 0, rest, i)
    <3>1. 1 \in 1..Len(front)
      BY <1>1, <2>5
    <3>2. m.text > 0 => 1 \in 1..Len(tail) /\ Len(front) + 1 = c + 2
      BY <1>1, <2>4, <2>5
    <3>3. Len(b) = c + (IF m.text > 0 THEN 2 ELSE 1)
      BY <1>1, <2>4, <2>5, <2>6
    <3>4. b[1] = CtxItem("calls", c, asked, i)
      BY <2>2, <2>5, <2>6, <3>1
    <3>5. \A k \in 1..c : b[1 + k] = CtxItem("tool", k, r, i)
      BY <2>3, <2>5, <2>6
    <3>6. m.text > 0 => b[c + 2] = CtxItem("assistant", 0, rest, i)
      BY <2>4, <2>6, <3>2
    <3> QED
      BY <3>3, <3>4, <3>5, <3>6
  <2> QED
    BY <1>6, <2>1, <2>6, <2>7 DEF ExpandedTo, asked, r, h, rest
<1> QED
  BY <1>5, <1>6

(* A block stands on its own: its calls are answered in it, in order. *)
AnsweredIn(s) ==
  \A k \in DOMAIN s :
    /\ s[k].kind = "calls" =>
         /\ k + s[k].call <= Len(s)
         /\ \A j \in 1 .. s[k].call :
              s[k + j].kind = "tool" /\ s[k + j].call = j /\ s[k + j].of = s[k].of
    /\ s[k].kind = "tool" =>
         /\ k > s[k].call
         /\ s[k - s[k].call].kind = "calls" /\ s[k - s[k].call].of = s[k].of
BlockOK(b, i) ==
  /\ b \in Seq(CtxItems)
  /\ \A k \in 1..Len(b) : b[k].of = i
  /\ AnsweredIn(b)
  /\ \A j, k \in 1..Len(b) : j < k => b[j].kind # b[k].kind \/ b[j].call < b[k].call

LEMMA ExpandedIsBlock ==
  ASSUME NEW m \in CtxMessages, NEW i \in Nat, NEW b, ExpandedTo(b, m, i)
  PROVE  BlockOK(b, i)
<1>1. m.calls \in Nat /\ b \in Seq(CtxItems) /\ DOMAIN b = 1..Len(b) /\ Len(b) \in Nat /\ m.role \in {"user", "assistant"}
  BY DEF ExpandedTo, CtxMessages
<1>2. CASE m.calls = 0
  <2>1. Len(b) = 1 /\ b[1].of = i /\ b[1].kind = m.role
    BY <1>2 DEF ExpandedTo, CtxItem
  <2>2. \A k \in 1..Len(b) : k = 1
    BY <2>1
  <2>3. b[1].kind # "calls" /\ b[1].kind # "tool"
    BY <1>1, <2>1
  <2>4. AnsweredIn(b)
    BY <1>1, <2>2, <2>3 DEF AnsweredIn
  <2>5. \A k \in 1..Len(b) : b[k].of = i
    BY <2>1, <2>2
  <2>6. \A j, k \in 1..Len(b) : ~(j < k)
    BY <2>1
  <2> QED
    BY <1>1, <2>4, <2>5, <2>6 DEF BlockOK
<1>3. CASE m.calls # 0
  <2> DEFINE c == m.calls
  <2>1. /\ Len(b) \in {c + 1, c + 2}
        /\ b[1].kind = "calls" /\ b[1].call = c /\ b[1].of = i
        /\ \A k \in 1..c : b[1 + k].kind = "tool" /\ b[1 + k].call = k /\ b[1 + k].of = i
        /\ Len(b) = c + 2 => b[c + 2].kind = "assistant" /\ b[c + 2].of = i
    <3>1. m.text \in Nat /\ c \in Nat /\ c # 0
      BY <1>1, <1>3 DEF CtxMessages
    <3>2. /\ Len(b) = c + (IF m.text > 0 THEN 2 ELSE 1)
          /\ b[1].kind = "calls" /\ b[1].call = c /\ b[1].of = i
          /\ \A k \in 1..c : b[1 + k].kind = "tool" /\ b[1 + k].call = k /\ b[1 + k].of = i
          /\ m.text > 0 => b[c + 2].kind = "assistant" /\ b[c + 2].of = i
      <4> DEFINE x == c * (m.cost \div 2)
                 y == m.cost - m.cost \div 2
                 z == CtxTokens(m) - c * (m.cost \div 2) - c * (m.cost - m.cost \div 2)
      <4>1. /\ Len(b) = c + (IF m.text > 0 THEN 2 ELSE 1)
            /\ b[1] = CtxItem("calls", c, x, i)
            /\ \A k \in 1..c : b[1 + k] = CtxItem("tool", k, y, i)
            /\ m.text > 0 => b[c + 2] = CtxItem("assistant", 0, z, i)
        BY <1>3, Zenon DEF ExpandedTo
      <4> HIDE DEF x, y, z, c
      <4>2. b[1].kind = "calls" /\ b[1].call = c /\ b[1].of = i
        BY <4>1, CtxItemHas
      <4>3. ASSUME NEW k \in 1..c PROVE b[1 + k].kind = "tool" /\ b[1 + k].call = k /\ b[1 + k].of = i
        BY <4>1, CtxItemHas
      <4>4. m.text > 0 => b[c + 2].kind = "assistant" /\ b[c + 2].of = i
        BY <4>1, CtxItemHas
      <4> QED
        BY <4>1, <4>2, <4>3, <4>4
    <3> HIDE DEF c
    <3>3. Len(b) = c + 2 <=> m.text > 0
      BY <3>1, <3>2
    <3> QED
      BY <3>1, <3>2, <3>3
  <2>2. c \in Nat /\ c # 0
    BY <1>1, <1>3
  <2> HIDE DEF c
  <2>3. ASSUME NEW k \in 1..Len(b)
        PROVE  \/ k = 1
               \/ k - 1 \in 1..c /\ b[k].kind = "tool" /\ b[k].call = k - 1 /\ b[k].of = i
               \/ k = c + 2 /\ b[k].kind = "assistant" /\ b[k].of = i
    <3>1. CASE k # 1 /\ k <= c + 1
      <4>1. k - 1 \in 1..c /\ 1 + (k - 1) = k
        BY <2>2, <3>1
      <4>2. b[1 + (k - 1)].kind = "tool" /\ b[1 + (k - 1)].call = k - 1 /\ b[1 + (k - 1)].of = i
        BY <2>1, <4>1
      <4> QED
        BY <4>1, <4>2
    <3>2. CASE k # 1 /\ ~(k <= c + 1)
      <4>1. k = c + 2 /\ Len(b) = c + 2
        BY <2>1, <2>2, <3>2
      <4> QED
        BY <2>1, <4>1
    <3> QED
      BY <3>1, <3>2
  <2>4. \A k \in 1..Len(b) : b[k].of = i
    BY <2>1, <2>3
  <2>5. ASSUME NEW k \in 1..Len(b), b[k].kind = "calls"
        PROVE  /\ k + b[k].call <= Len(b)
               /\ \A j \in 1 .. b[k].call : b[k + j].kind = "tool" /\ b[k + j].call = j /\ b[k + j].of = b[k].of
    <3>1. k = 1
      BY <2>3, <2>5
    <3> QED
      BY <2>1, <2>2, <3>1
  <2>6. ASSUME NEW k \in 1..Len(b), b[k].kind = "tool"
        PROVE  k > b[k].call /\ b[k - b[k].call].kind = "calls" /\ b[k - b[k].call].of = b[k].of
    <3>1. b[k].call = k - 1 /\ b[k].of = i
      BY <2>1, <2>3, <2>6
    <3>2. k - b[k].call = 1
      BY <3>1
    <3> QED
      BY <2>1, <3>1, <3>2
  <2>7. AnsweredIn(b)
    BY <1>1, <2>5, <2>6 DEF AnsweredIn
  <2>8. ASSUME NEW j \in 1..Len(b), NEW k \in 1..Len(b), j < k
        PROVE  b[j].kind # b[k].kind \/ b[j].call < b[k].call
    <3>1. CASE j = 1
      BY <2>1, <2>3, <2>8, <3>1
    <3>2. CASE j - 1 \in 1..c /\ b[j].kind = "tool" /\ b[j].call = j - 1
      BY <2>1, <2>3, <2>8, <3>2
    <3>3. j # c + 2
      BY <2>1, <2>2, <2>8
    <3> QED
      BY <2>3, <3>1, <3>2, <3>3
  <2> QED
    BY <1>1, <2>4, <2>7, <2>8 DEF BlockOK
<1> QED
  BY <1>2, <1>3

LEMMA BlocksAreSound ==
  ASSUME NEW seqs \in Seq(Seq(CtxItems)), \A i \in 1..Len(seqs) : BlockOK(seqs[i], i)
  PROVE  LET s == FlattenSeq(seqs)
         IN  /\ s \in Seq(CtxItems) /\ AnsweredIn(s)
             /\ \A k \in 1..Len(s) : s[k].of \in 1..Len(seqs)
             /\ \A j, k \in 1..Len(s) : j < k =>
                  \/ s[j].of < s[k].of
                  \/ s[j].of = s[k].of /\ s[j].kind # s[k].kind
                  \/ s[j].of = s[k].of /\ s[j].call < s[k].call
<1> DEFINE s == FlattenSeq(seqs)
           n == Len(seqs)
<1>1. PICK at : s \in Seq(CtxItems) /\ PlacesOf(at, seqs) /\ LiesAt(s, seqs, at, n)
  BY FlatPlaces
<1>2. \A a, b \in 0..n : a <= b => at[a] <= at[b]
  BY <1>1, PlacesGrow
<1> HIDE DEF s
<1>3. /\ Len(s) = at[n] /\ Len(s) \in Nat /\ DOMAIN s = 1..Len(s) /\ n \in Nat
      /\ \A a \in 1..n : \A j \in 1..Len(seqs[a]) : at[a - 1] + j \in 1..Len(s) /\ s[at[a - 1] + j] = seqs[a][j]
      /\ \A k \in 1..Len(s) : \E a \in 1..n : \E j \in 1..Len(seqs[a]) : k = at[a - 1] + j
  BY <1>1 DEF LiesAt
<1>4. ASSUME NEW a \in 1..n
      PROVE  /\ at[a - 1] \in Nat /\ Len(seqs[a]) \in Nat /\ at[a] = at[a - 1] + Len(seqs[a])
             /\ BlockOK(seqs[a], a) /\ DOMAIN seqs[a] = 1..Len(seqs[a])
             /\ \A k \in 1..Len(seqs[a]) : seqs[a][k].call \in Nat /\ seqs[a][k].of = a
  <2>1. a - 1 \in 0..n /\ a \in 0..n /\ seqs[a] \in Seq(CtxItems)
    BY <1>3
  <2>2. \A k \in 1..Len(seqs[a]) : seqs[a][k] \in CtxItems
    BY <2>1
  <2> QED
    <3>1. at[a - 1] \in Nat /\ at[a] = at[a - 1] + Len(seqs[a])
      BY <1>1, <2>1 DEF PlacesOf
    <3>2. BlockOK(seqs[a], a)
      OBVIOUS
    <3>3. \A k \in 1..Len(seqs[a]) : seqs[a][k].of = a
      BY <3>2 DEF BlockOK
    <3>4. \A k \in 1..Len(seqs[a]) : seqs[a][k].call \in Nat
      BY <2>2 DEF CtxItems
    <3>5. Len(seqs[a]) \in Nat /\ DOMAIN seqs[a] = 1..Len(seqs[a])
      BY <2>1
    <3> QED
      BY <3>1, <3>2, <3>3, <3>4, <3>5
<1>5. ASSUME NEW k \in 1..Len(s) PROVE s[k].of \in 1..n
  <2>1. PICK a \in 1..n : \E x \in 1..Len(seqs[a]) : k = at[a - 1] + x
    BY <1>3
  <2>2. PICK x \in 1..Len(seqs[a]) : k = at[a - 1] + x
    BY <2>1
  <2>3. s[k] = seqs[a][x]
    BY <1>3, <2>2
  <2>4. seqs[a][x].of = a
    BY <1>4
  <2> QED
    BY <2>3, <2>4
<1>6. AnsweredIn(s)
  <2> SUFFICES ASSUME NEW k \in 1..Len(s)
               PROVE  /\ s[k].kind = "calls" =>
                           /\ k + s[k].call <= Len(s)
                           /\ \A j \in 1 .. s[k].call :
                                s[k + j].kind = "tool" /\ s[k + j].call = j /\ s[k + j].of = s[k].of
                      /\ s[k].kind = "tool" =>
                           /\ k > s[k].call
                           /\ s[k - s[k].call].kind = "calls" /\ s[k - s[k].call].of = s[k].of
    BY <1>3 DEF AnsweredIn
  <2>1. PICK a \in 1..n : \E j \in 1..Len(seqs[a]) : k = at[a - 1] + j
    BY <1>3
  <2>2. PICK p \in 1..Len(seqs[a]) : k = at[a - 1] + p
    BY <2>1
  <2> DEFINE b == seqs[a]
             base == at[a - 1]
             q == b[p].call
  <2>0. s[k].call = q /\ b[p].call = q
    BY <1>3, <2>2
  <2>3. s[k] = b[p] /\ q \in Nat /\ base \in Nat /\ p \in 1..Len(b) /\ Len(b) \in Nat /\ k = base + p
    BY <1>3, <1>4, <2>2
  <2>4. \A j \in 1..Len(b) : base + j \in 1..Len(s) /\ s[base + j] = b[j]
    BY <1>3
  <2>5. AnsweredIn(b) /\ DOMAIN b = 1..Len(b)
    BY <1>4 DEF BlockOK
  <2>6. /\ b[p].kind = "calls" =>
             /\ p + q <= Len(b)
             /\ \A j \in 1 .. q : b[p + j].kind = "tool" /\ b[p + j].call = j /\ b[p + j].of = b[p].of
        /\ b[p].kind = "tool" => p > q /\ b[p - q].kind = "calls" /\ b[p - q].of = b[p].of
    BY <2>3, <2>5 DEF AnsweredIn
  <2>7. base + Len(b) <= Len(s)
    <3>1. a \in 0..n /\ n \in 0..n /\ a <= n /\ Len(s) = at[n]
      BY <1>3
    <3>2. at[a] <= at[n]
      BY <1>2, <3>1
    <3>3. at[a] = base + Len(b)
      BY <1>4
    <3> QED
      BY <3>1, <3>2, <3>3
  <2> HIDE DEF b, base, q
  <2>8. CASE s[k].kind = "calls"
    <3>1. k + q <= Len(s)
      <4>1. p + q <= Len(b)
        BY <2>3, <2>6, <2>8
      <4>2. q \in Nat /\ p \in Nat /\ base \in Nat /\ Len(b) \in Nat /\ k = base + p /\ Len(s) \in Nat
        BY <1>3, <2>3
      <4> QED
        BY <2>7, <4>1, <4>2
    <3>2. ASSUME NEW j \in 1..q PROVE s[k + j].kind = "tool" /\ s[k + j].call = j /\ s[k + j].of = s[k].of
      <4>1. p + j \in 1..Len(b) /\ k + j = base + (p + j)
        BY <2>3, <2>6, <2>8
      <4>2. s[base + (p + j)] = b[p + j]
        BY <2>4, <4>1
      <4> QED
        <5>1. b[p + j].kind = "tool" /\ b[p + j].call = j /\ b[p + j].of = b[p].of
          BY <2>3, <2>6, <2>8
        <5>2. s[k + j] = b[p + j] /\ s[k] = b[p]
          BY <2>3, <4>1, <4>2
        <5> QED
          BY <5>1, <5>2
    <3> QED
      BY <2>0, <2>3, <2>8, <3>1, <3>2
  <2>9. CASE s[k].kind = "tool"
    <3>1. p > q /\ b[p - q].kind = "calls" /\ b[p - q].of = b[p].of
      BY <2>3, <2>6, <2>9
    <3>2. p - q \in 1..Len(b) /\ k - q = base + (p - q) /\ k > q
      <4>1. p > q /\ q \in Nat /\ p \in Nat /\ p <= Len(b) /\ Len(b) \in Nat /\ base \in Nat /\ k = base + p
        BY <2>3, <3>1
      <4> QED
        BY <4>1
    <3>3. s[base + (p - q)] = b[p - q]
      BY <2>4, <3>2
    <3> QED
      BY <2>0, <2>3, <2>9, <3>1, <3>2, <3>3
  <2> QED
    BY <2>8, <2>9
<1>7. ASSUME NEW j \in 1..Len(s), NEW k \in 1..Len(s), j < k
      PROVE  \/ s[j].of < s[k].of
             \/ s[j].of = s[k].of /\ s[j].kind # s[k].kind
             \/ s[j].of = s[k].of /\ s[j].call < s[k].call
  <2>1. PICK a \in 1..n : \E x \in 1..Len(seqs[a]) : j = at[a - 1] + x
    BY <1>3
  <2>2. PICK p \in 1..Len(seqs[a]) : j = at[a - 1] + p
    BY <2>1
  <2>3. PICK c \in 1..n : \E x \in 1..Len(seqs[c]) : k = at[c - 1] + x
    BY <1>3
  <2>4. PICK q \in 1..Len(seqs[c]) : k = at[c - 1] + q
    BY <2>3
  <2>5. s[j] = seqs[a][p] /\ s[k] = seqs[c][q] /\ s[j].of = a /\ s[k].of = c
    <3>1. s[j] = seqs[a][p] /\ s[k] = seqs[c][q]
      BY <1>3, <2>2, <2>4
    <3>2. seqs[a][p].of = a /\ seqs[c][q].of = c
      BY <1>4
    <3> QED
      BY <3>1, <3>2
  <2>6. ~(c < a)
    <3> SUFFICES ASSUME c < a PROVE FALSE
      OBVIOUS
    <3>1. c \in 0..n /\ a - 1 \in 0..n /\ c <= a - 1
      BY <1>3
    <3>2. at[c] <= at[a - 1]
      BY <1>2, <3>1
    <3>3. /\ at[c] = at[c - 1] + Len(seqs[c]) /\ at[c - 1] \in Nat /\ Len(seqs[c]) \in Nat
          /\ at[a - 1] \in Nat /\ Len(seqs[a]) \in Nat
      BY <1>4
    <3> QED
      <4> DEFINE u == at[a - 1]
                 v == at[c - 1]
                 w == Len(seqs[c])
      <4>1. u \in Nat /\ v \in Nat /\ w \in Nat /\ v + w <= u
        BY <3>2, <3>3
      <4>2. j = u + p /\ k = v + q /\ p \in Nat /\ p > 0 /\ q \in Nat /\ q <= w /\ j < k
        BY <1>7, <2>2, <2>4, <3>3
      <4> HIDE DEF u, v, w
      <4> QED
        BY <4>1, <4>2
  <2>7. CASE a = c
    <3>1. p < q
      <4>1. at[a - 1] \in Nat /\ Len(seqs[a]) \in Nat
        BY <1>4
      <4> QED
        BY <1>7, <2>2, <2>4, <2>7, <4>1
    <3>2. seqs[a][p].kind # seqs[a][q].kind \/ seqs[a][p].call < seqs[a][q].call
      BY <1>4, <2>7, <3>1 DEF BlockOK
    <3> QED
      BY <2>5, <2>7, <3>2
  <2>8. CASE a < c
    BY <2>5, <2>8
  <2> QED
    BY <1>3, <2>6, <2>7, <2>8
<1> QED
  BY <1>1, <1>5, <1>6, <1>7 DEF s

(* The sum of the first i numbers is u[i]. *)
SumsOf(u, s) ==
  /\ u \in [0..Len(s) -> Int] /\ u[0] = 0
  /\ \A i \in 1..Len(s) : u[i] = u[i - 1] + s[i]

LEMMA MaxUpTo ==
  ASSUME NEW k \in Nat, NEW t \in SUBSET (1..k), t # {}
  PROVE  Max(t) \in t /\ \A y \in t : y <= Max(t)
<1>1. IsFiniteSet(1..k) /\ 1..k \subseteq Nat
  BY FS_Interval
<1>2. IsFiniteSet(t)
  BY <1>1, FS_Subset
<1>3. t \in SUBSET Nat
  BY <1>1
<1> QED
  BY <1>2, <1>3, MaxFits

(* The fold's function on sets of positions. *)
FoldsOn(g, s, n) ==
  g = [t \in SUBSET (1..n) |-> IF t = {} THEN 0 ELSE g[t \ {Max(t)}] + s[Max(t)]]

LEMMA FoldExists ==
  ASSUME NEW s \in Seq(Int), NEW n \in Nat, n <= Len(s)
  PROVE  \E g \in [SUBSET (1..n) -> Int] : FoldsOn(g, s, n)
<1> DEFINE T == {k \in Nat : k <= n /\ ~ \E g \in [SUBSET (1..k) -> Int] : FoldsOn(g, s, k)}
<1>0. T = {} => \E g \in [SUBSET (1..n) -> Int] : FoldsOn(g, s, n)
  <2>1. n \in Nat /\ n <= n
    OBVIOUS
  <2> QED
    BY <2>1
<1> SUFFICES ASSUME T # {} PROVE FALSE
  BY <1>0
<1>1. PICK k \in T : \A m \in T : k <= m
  BY LeastNat
<1>2. k \in Nat /\ k <= n /\ ~ \E g \in [SUBSET (1..k) -> Int] : FoldsOn(g, s, k)
  BY <1>1
<1>3. CASE k = 0
  <2> DEFINE g == [t \in SUBSET (1..0) |-> 0]
  <2>1. \A t \in SUBSET (1..0) : t = {}
    OBVIOUS
  <2>2. g = [t \in SUBSET (1..0) |-> IF t = {} THEN 0 ELSE g[t \ {Max(t)}] + s[Max(t)]]
    BY <2>1
  <2>3. g \in [SUBSET (1..0) -> Int]
    OBVIOUS
  <2> QED
    BY <1>2, <1>3, <2>2, <2>3 DEF FoldsOn
<1>4. CASE k # 0
  <2>1. k - 1 \in Nat /\ k - 1 <= n /\ ~(k <= k - 1) /\ k \in 1..Len(s) /\ s[k] \in Int
    BY <1>2, <1>4
  <2>2. PICK g \in [SUBSET (1..k - 1) -> Int] : FoldsOn(g, s, k - 1)
    <3>1. k - 1 \notin T
      BY <1>1, <2>1
    <3> QED
      BY <2>1, <3>1
  <2> HIDE DEF T
  <2> DEFINE f == [t \in SUBSET (1..k) |-> IF k \in t THEN g[t \ {k}] + s[k] ELSE g[t]]
  <2>3. ASSUME NEW t \in SUBSET (1..k)
        PROVE  t \ {k} \in SUBSET (1..k - 1) /\ (k \notin t => t \in SUBSET (1..k - 1)) /\ t \ {Max(t)} \in SUBSET (1..k)
    <3>1. \A x \in 1..k : x # k => x \in 1..k - 1
      BY <1>2
    <3>2. t \ {k} \in SUBSET (1..k - 1)
      BY <3>1
    <3>3. k \notin t => t = t \ {k}
      OBVIOUS
    <3> QED
      BY <3>2, <3>3
  <2>4. f \in [SUBSET (1..k) -> Int]
    BY <2>1, <2>3
  <2>5. ASSUME NEW t \in SUBSET (1..k)
        PROVE  f[t] = IF t = {} THEN 0 ELSE f[t \ {Max(t)}] + s[Max(t)]
    <3>0. \A x \in SUBSET (1..k - 1) : g[x] = IF x = {} THEN 0 ELSE g[x \ {Max(x)}] + s[Max(x)]
      <4> DEFINE h == [x \in SUBSET (1..k - 1) |-> IF x = {} THEN 0 ELSE g[x \ {Max(x)}] + s[Max(x)]]
      <4>1. g = h
        BY <2>2 DEF FoldsOn
      <4>2. \A x \in SUBSET (1..k - 1) : h[x] = IF x = {} THEN 0 ELSE g[x \ {Max(x)}] + s[Max(x)]
        OBVIOUS
      <4> HIDE DEF h
      <4> QED
        BY <4>1, <4>2
    <3>1. CASE k \in t
      <4>1. Max(t) \in t /\ \A y \in t : y <= Max(t)
        BY <1>2, <3>1, MaxUpTo
      <4>2. Max(t) = k
        <5> DEFINE m == Max(t)
        <5>1. m \in 1..k /\ k <= m /\ k \in Nat
          BY <1>2, <3>1, <4>1
        <5> HIDE DEF m
        <5>2. m = k
          BY <5>1
        <5> QED
          BY <5>2 DEF m
      <4>3. f[t] = g[t \ {k}] + s[k] /\ f[t \ {k}] = g[t \ {k}]
        BY <2>3, <3>1, <4>2
      <4> QED
        BY <3>1, <4>2, <4>3
    <3>2. CASE k \notin t
      <4>1. t \in SUBSET (1..k - 1) /\ t \ {Max(t)} \in SUBSET (1..k) /\ k \notin t \ {Max(t)}
        BY <2>3, <3>2
      <4>2. f[t] = g[t] /\ f[t \ {Max(t)}] = g[t \ {Max(t)}]
        BY <3>2, <4>1
      <4> QED
        BY <3>0, <4>1, <4>2
    <3> QED
      BY <3>1, <3>2
  <2> HIDE DEF f
  <2>6. f = [t \in SUBSET (1..k) |-> IF t = {} THEN 0 ELSE f[t \ {Max(t)}] + s[Max(t)]]
    <3> DEFINE h == [t \in SUBSET (1..k) |-> IF t = {} THEN 0 ELSE f[t \ {Max(t)}] + s[Max(t)]]
    <3>1. \A t \in SUBSET (1..k) : f[t] = h[t]
      BY <2>5
    <3>2. f = [t \in SUBSET (1..k) |-> f[t]] /\ h = [t \in SUBSET (1..k) |-> h[t]]
      BY <2>4
    <3> HIDE DEF h
    <3>3. f = h
      BY <3>1, <3>2, Zenon
    <3> QED
      BY <3>3 DEF h
  <2> QED
    BY <1>2, <2>4, <2>6 DEF FoldsOn
<1> QED
  BY <1>3, <1>4

LEMMA TokenSumIs ==
  ASSUME NEW s \in Seq(Int)
  PROVE  \E u : SumsOf(u, s) /\ TokenSum(s) = u[Len(s)]
<1> DEFINE n == Len(s)
           P(f) == f = [t \in SUBSET (DOMAIN s) |-> IF t = {} THEN 0 ELSE f[t \ {Max(t)}] + s[Max(t)]]
           g == CHOOSE f : P(f)
           u == [i \in 0..n |-> g[1..i]]
<1>1. TokenSum(s) = g[DOMAIN s]
  BY DEF TokenSum, FoldLeft, MapThenFoldSet
<1>2. n \in Nat /\ n <= Len(s) /\ DOMAIN s = 1..n
  OBVIOUS
<1>3. PICK e \in [SUBSET (1..n) -> Int] : FoldsOn(e, s, n)
  BY <1>2, FoldExists
<1>4. P(g)
  <2>1. P(e)
    BY <1>2, <1>3 DEF FoldsOn
  <2> HIDE DEF P
  <2> QED
    BY <2>1
<1> HIDE DEF g
<1>5. \A t \in SUBSET (1..n) : g[t] = IF t = {} THEN 0 ELSE g[t \ {Max(t)}] + s[Max(t)]
  <2> DEFINE h == [t \in SUBSET (DOMAIN s) |-> IF t = {} THEN 0 ELSE g[t \ {Max(t)}] + s[Max(t)]]
  <2>1. g = h
    BY <1>4
  <2>2. \A t \in SUBSET (DOMAIN s) : h[t] = IF t = {} THEN 0 ELSE g[t \ {Max(t)}] + s[Max(t)]
    OBVIOUS
  <2> HIDE DEF h
  <2> QED
    BY <1>2, <2>1, <2>2
<1> HIDE DEF P
<1>6. u[0] = 0 /\ u[n] = g[1..n]
  <2>1. {} \in SUBSET (1..n) /\ 1..0 = {} /\ 0 \in 0..n /\ n \in 0..n
    BY <1>2
  <2> QED
    BY <1>5, <2>1
<1>7. ASSUME NEW i \in 1..n PROVE u[i] = u[i - 1] + s[i] /\ s[i] \in Int
  <2>1. i \in Nat /\ 1..i \in SUBSET (1..n) /\ i \in 1..i /\ i \in 0..n /\ i - 1 \in 0..n
    BY <1>2
  <2>2. Max(1..i) \in 1..i /\ i <= Max(1..i)
    BY <2>1, MaxUpTo
  <2>3. Max(1..i) = i /\ (1..i) \ {i} = 1..i - 1
    BY <2>1, <2>2
  <2>4. g[1..i] = g[1..i - 1] + s[i]
    BY <1>5, <2>1, <2>3
  <2> QED
    BY <2>1, <2>4
<1>8. u \in [0..n -> Int]
  <2> DEFINE T == {k \in Nat : k \in 0..n /\ u[k] \notin Int}
  <2>0. DOMAIN u = 0..n /\ u = [k \in 0..n |-> u[k]]
    OBVIOUS
  <2> HIDE DEF u
  <2>1. ASSUME T # {} PROVE FALSE
    <3>1. PICK k \in T : \A m \in T : k <= m
      BY <2>1, LeastNat
    <3>2. k \in Nat /\ k \in 0..n /\ u[k] \notin Int
      BY <3>1
    <3>3. k # 0
      BY <1>6, <3>2
    <3>4. k \in 1..n /\ k - 1 \in 0..n /\ k - 1 \in Nat /\ ~(k <= k - 1)
      BY <1>2, <3>2, <3>3
    <3>5. u[k - 1] \in Int
      BY <3>1, <3>4
    <3>6. u[k] = u[k - 1] + s[k] /\ s[k] \in Int
      BY <1>7, <3>4
    <3> QED
      BY <3>2, <3>5, <3>6
  <2>2. \A k \in 0..n : u[k] \in Int
    BY <1>2, <2>1
  <2> QED
    BY <2>0, <2>2
<1> HIDE DEF u
<1> QED
  BY <1>1, <1>2, <1>6, <1>7, <1>8 DEF SumsOf

SameUpTo(n, s, t) == n <= Len(s) /\ n <= Len(t) /\ \A i \in 1..n : s[i] = t[i]

LEMMA SumsAgree ==
  ASSUME NEW s \in Seq(Int), NEW t \in Seq(Int), NEW u, NEW v, SumsOf(u, s), SumsOf(v, t),
         NEW n \in Nat, SameUpTo(n, s, t)
  PROVE  u[n] = v[n]
<1>0. n <= Len(s) /\ n <= Len(t) /\ \A i \in 1..n : s[i] = t[i]
  BY DEF SameUpTo
<1> DEFINE T == {i \in Nat : i <= n /\ u[i] # v[i]}
<1>1. ASSUME T # {} PROVE FALSE
  <2>1. PICK i \in T : \A m \in T : i <= m
    BY <1>1, LeastNat
  <2>2. i \in Nat /\ i <= n /\ u[i] # v[i] /\ Len(s) \in Nat /\ Len(t) \in Nat
    BY <2>1
  <2>3. i # 0
    BY <2>2 DEF SumsOf
  <2>4. i \in 1..Len(s) /\ i \in 1..Len(t) /\ i \in 1..n /\ i - 1 \in Nat /\ i - 1 <= n /\ ~(i <= i - 1)
    BY <1>0, <2>2, <2>3
  <2>5. u[i - 1] = v[i - 1]
    BY <2>1, <2>4
  <2>6. u[i] = u[i - 1] + s[i] /\ v[i] = v[i - 1] + t[i] /\ s[i] = t[i]
    BY <1>0, <2>4 DEF SumsOf
  <2> QED
    BY <2>2, <2>5, <2>6
<1>2. n \in Nat /\ n <= n
  OBVIOUS
<1> QED
  BY <1>1, <1>2

(* A sequence that is one behind another sums to both. *)
LEMMA SumJoined ==
  ASSUME NEW a \in Seq(Int), NEW b \in Seq(Int), NEW c \in Seq(Int), Len(c) = Len(a) + Len(b),
         \A k \in 1..Len(a) : c[k] = a[k], \A k \in 1..Len(b) : c[Len(a) + k] = b[k]
  PROVE  TokenSum(c) = TokenSum(a) + TokenSum(b)
<1>1. PICK u : SumsOf(u, a) /\ TokenSum(a) = u[Len(a)]
  BY TokenSumIs
<1>2. PICK v : SumsOf(v, b) /\ TokenSum(b) = v[Len(b)]
  BY TokenSumIs
<1>3. PICK w : SumsOf(w, c) /\ TokenSum(c) = w[Len(c)]
  BY TokenSumIs
<1> DEFINE n == Len(a)
           T == {i \in Nat : i <= Len(b) /\ w[n + i] # w[n] + v[i]}
<1>4. n \in Nat /\ Len(b) \in Nat /\ Len(c) = n + Len(b)
  OBVIOUS
<1>5. w[n] = u[n]
  <2>1. n \in Nat /\ SameUpTo(n, c, a)
    BY <1>4 DEF SameUpTo
  <2>2. SumsOf(w, c) /\ SumsOf(u, a)
    BY <1>1, <1>3
  <2> HIDE DEF n, T
  <2>3. c \in Seq(Int) /\ a \in Seq(Int)
    OBVIOUS
  <2> QED
    BY <2>1, <2>2, <2>3, SumsAgree
<1>6. w \in [0..Len(c) -> Int] /\ v \in [0..Len(b) -> Int] /\ v[0] = 0
  BY <1>2, <1>3 DEF SumsOf
<1>7. ASSUME NEW i \in 1..Len(b)
      PROVE  /\ w[n + i] = w[n + (i - 1)] + b[i] /\ v[i] = v[i - 1] + b[i] /\ b[i] \in Int
             /\ v[i - 1] \in Int /\ w[n] \in Int
  <2>1. n + i \in 1..Len(c) /\ (n + i) - 1 = n + (i - 1) /\ i - 1 \in 0..Len(b) /\ n \in 0..Len(c)
    BY <1>4
  <2>2. w[n + i] = w[(n + i) - 1] + c[n + i] /\ c[n + i] = b[i] /\ v[i] = v[i - 1] + b[i]
    BY <1>2, <1>3, <2>1 DEF SumsOf
  <2>3. b[i] \in Int
    OBVIOUS
  <2> QED
    BY <1>6, <2>1, <2>2, <2>3
<1> HIDE DEF n
<1>8. ASSUME T # {} PROVE FALSE
  <2>1. PICK i \in T : \A m \in T : i <= m
    BY <1>8, LeastNat
  <2>2. i \in Nat /\ i <= Len(b) /\ w[n + i] # w[n] + v[i]
    BY <2>1
  <2>3. i # 0
    <3>1. n \in 0..Len(c) /\ n + 0 = n
      BY <1>4
    <3>2. w[n] \in Int
      BY <1>6, <3>1
    <3> QED
      BY <1>6, <2>2, <3>1, <3>2
  <2>4. i \in 1..Len(b) /\ i - 1 \in Nat /\ i - 1 <= Len(b) /\ ~(i <= i - 1)
    BY <1>4, <2>2, <2>3
  <2>5. w[n + (i - 1)] = w[n] + v[i - 1]
    BY <2>1, <2>4
  <2>6. /\ w[n + i] = w[n + (i - 1)] + b[i] /\ v[i] = v[i - 1] + b[i] /\ b[i] \in Int
        /\ v[i - 1] \in Int /\ w[n] \in Int
    BY <1>7, <2>4
  <2> HIDE DEF T
  <2> QED
    BY <2>2, <2>5, <2>6
<1>9. Len(b) \in Nat /\ Len(b) <= Len(b)
  BY <1>4
<1>10. w[n + Len(b)] = w[n] + v[Len(b)]
  BY <1>8, <1>9
<1> QED
  BY <1>1, <1>2, <1>3, <1>4, <1>5, <1>10 DEF n

LEMMA SumOfSame ==
  ASSUME NEW x \in Int, NEW n \in Nat, NEW s \in Seq(Int), Len(s) = n, \A i \in 1..n : s[i] = x
  PROVE  TokenSum(s) = n * x
<1>1. PICK u : SumsOf(u, s) /\ TokenSum(s) = u[Len(s)]
  BY TokenSumIs
<1> DEFINE T == {i \in Nat : i <= n /\ u[i] # i * x}
<1>2. ASSUME T # {} PROVE FALSE
  <2>1. PICK i \in T : \A m \in T : i <= m
    BY <1>2, LeastNat
  <2>2. i \in Nat /\ i <= n /\ u[i] # i * x
    BY <2>1
  <2>3. i # 0
    BY <1>1, <2>2 DEF SumsOf
  <2>4. i \in 1..n /\ i - 1 \in Nat /\ i - 1 <= n /\ ~(i <= i - 1)
    BY <2>2, <2>3
  <2>5. u[i - 1] = (i - 1) * x
    BY <2>1, <2>4
  <2>6. u[i] = u[i - 1] + x
    BY <1>1, <2>4 DEF SumsOf
  <2>7. i * x = (i - 1) * x + x
    BY <2>2
  <2> QED
    BY <2>2, <2>5, <2>6, <2>7
<1>3. n \in Nat /\ n <= n
  OBVIOUS
<1> QED
  BY <1>1, <1>2, <1>3

(* Tokens of items. *)
TokensOf(items) == [k \in DOMAIN items |-> items[k].tokens]

LEMMA TokensOfIs ==
  ASSUME NEW b \in Seq(CtxItems)
  PROVE  /\ TokensOf(b) \in Seq(Int) /\ Len(TokensOf(b)) = Len(b)
         /\ \A k \in 1..Len(b) : TokensOf(b)[k] = b[k].tokens
         /\ Size(b) = TokenSum(TokensOf(b))
<1>1. Len(b) \in Nat /\ DOMAIN b = 1..Len(b) /\ \A k \in 1..Len(b) : b[k] \in CtxItems
  OBVIOUS
<1>2. \A k \in 1..Len(b) : b[k].tokens \in Int
  BY <1>1 DEF CtxItems
<1>3. TokensOf(b) = [k \in 1..Len(b) |-> b[k].tokens]
  BY <1>1 DEF TokensOf
<1>4. TokensOf(b) \in [1..Len(b) -> Int]
  BY <1>2, <1>3
<1>5. TokensOf(b) \in Seq(Int) /\ Len(TokensOf(b)) = Len(b)
  BY <1>1, <1>4, AsSeq
<1> QED
  BY <1>3, <1>5 DEF Size, TokensOf

LEMMA SizeJoined ==
  ASSUME NEW a \in Seq(CtxItems), NEW b \in Seq(CtxItems), NEW c, Joins(c, a, b)
  PROVE  c \in Seq(CtxItems) /\ Size(c) = Size(a) + Size(b)
<1>1. /\ c \in Seq(CtxItems) /\ Len(c) = Len(a) + Len(b)
      /\ \A k \in 1..Len(a) : k \in 1..Len(c) /\ c[k] = a[k]
      /\ \A k \in 1..Len(b) : Len(a) + k \in 1..Len(c) /\ c[Len(a) + k] = b[k]
  BY ConcatParts, Zenon
<1>2. /\ TokensOf(a) \in Seq(Int) /\ Len(TokensOf(a)) = Len(a)
      /\ \A k \in 1..Len(a) : TokensOf(a)[k] = a[k].tokens
      /\ Size(a) = TokenSum(TokensOf(a))
  BY TokensOfIs
<1>3. /\ TokensOf(b) \in Seq(Int) /\ Len(TokensOf(b)) = Len(b)
      /\ \A k \in 1..Len(b) : TokensOf(b)[k] = b[k].tokens
      /\ Size(b) = TokenSum(TokensOf(b))
  BY TokensOfIs
<1>4. /\ TokensOf(c) \in Seq(Int) /\ Len(TokensOf(c)) = Len(c)
      /\ \A k \in 1..Len(c) : TokensOf(c)[k] = c[k].tokens
      /\ Size(c) = TokenSum(TokensOf(c))
  BY <1>1, TokensOfIs
<1>5. /\ \A k \in 1..Len(TokensOf(a)) : TokensOf(c)[k] = TokensOf(a)[k]
      /\ \A k \in 1..Len(TokensOf(b)) : TokensOf(c)[Len(TokensOf(a)) + k] = TokensOf(b)[k]
  BY <1>1, <1>2, <1>3, <1>4
<1>6. TokenSum(TokensOf(c)) = TokenSum(TokensOf(a)) + TokenSum(TokensOf(b))
  <2>1. Len(TokensOf(c)) = Len(TokensOf(a)) + Len(TokensOf(b))
    BY <1>1, <1>2, <1>3, <1>4
  <2> QED
    BY <1>2, <1>3, <1>4, <1>5, <2>1, SumJoined
<1> QED
  BY <1>1, <1>2, <1>3, <1>4, <1>6

LEMMA SizeOne ==
  ASSUME NEW x \in CtxItems
  PROVE  Size(<<x>>) = x.tokens
<1>1. <<x>> \in Seq(CtxItems) /\ Len(<<x>>) = 1 /\ <<x>>[1] = x /\ x.tokens \in Int
  BY DEF CtxItems
<1> DEFINE b == <<x>>
<1> HIDE DEF b
<1>2. b \in Seq(CtxItems) /\ Len(b) = 1 /\ b[1] = x
  BY <1>1 DEF b
<1>3. /\ TokensOf(b) \in Seq(Int) /\ Len(TokensOf(b)) = 1 /\ TokensOf(b)[1] = x.tokens
      /\ Size(b) = TokenSum(TokensOf(b))
  BY <1>2, TokensOfIs
<1>4. \A i \in 1..1 : TokensOf(b)[i] = x.tokens
  BY <1>3
<1>5. TokenSum(TokensOf(b)) = 1 * x.tokens
  BY <1>1, <1>3, <1>4, SumOfSame
<1> QED
  BY <1>1, <1>3, <1>5 DEF b

LEMMA SizeNone == Size(<<>>) = 0
<1>1. <<>> \in Seq(CtxItems) /\ Len(<<>>) = 0
  OBVIOUS
<1> DEFINE b == TokensOf(<<>>)
<1>2. b \in Seq(Int) /\ Len(b) = 0 /\ Size(<<>>) = TokenSum(b)
  BY <1>1, TokensOfIs
<1> HIDE DEF b
<1>3. PICK u : SumsOf(u, b) /\ TokenSum(b) = u[Len(b)]
  BY <1>2, TokenSumIs
<1> QED
  BY <1>2, <1>3 DEF SumsOf

(* A flattened sequence measures what its parts measure. *)
LEMMA SizeFlat ==
  ASSUME NEW seqs \in Seq(Seq(CtxItems)), NEW sizes \in Seq(Int), Len(sizes) = Len(seqs),
         \A i \in 1..Len(seqs) : sizes[i] = Size(seqs[i])
  PROVE  Size(FlattenSeq(seqs)) = TokenSum(sizes)
<1>1. PICK u : SumsOf(u, sizes) /\ TokenSum(sizes) = u[Len(sizes)]
  BY TokenSumIs
<1>2. CASE Len(seqs) = 0
  <2>1. FlattenSeq(seqs) = <<>>
    BY <1>2 DEF FlattenSeq
  <2> QED
    BY <1>1, <1>2, <2>1, SizeNone DEF SumsOf
<1>3. CASE Len(seqs) # 0
  <2> DEFINE n == Len(seqs)
  <2>1. PICK f \in [1..n -> Seq(CtxItems)] :
          /\ FlattenSeq(seqs) = f[n]
          /\ f[1] = seqs[1]
          /\ \A i \in 2..n : f[i] = f[i - 1] \o seqs[i]
    BY <1>3, FlattenIs
  <2> DEFINE T == {i \in Nat : i \in 1..n /\ Size(f[i]) # u[i]}
  <2>2. n \in Nat /\ n \in 1..n /\ 1 \in 1..n
    BY <1>3
  <2>3. /\ u \in [0..n -> Int] /\ u[0] = 0
        /\ \A i \in 1..n : u[i] = u[i - 1] + sizes[i] /\ sizes[i] = Size(seqs[i]) /\ sizes[i] \in Int
    BY <1>1 DEF SumsOf
  <2>4. ASSUME T # {} PROVE FALSE
    <3>1. PICK i \in T : \A m \in T : i <= m
      BY <2>4, LeastNat
    <3>2. i \in Nat /\ i \in 1..n /\ Size(f[i]) # u[i] /\ f[i] \in Seq(CtxItems) /\ seqs[i] \in Seq(CtxItems)
      <4>1. i \in Nat /\ i \in 1..n /\ Size(f[i]) # u[i]
        BY <3>1
      <4>2. f[i] \in Seq(CtxItems)
        BY <4>1
      <4>3. seqs[i] \in Seq(CtxItems)
        BY <4>1
      <4> QED
        BY <4>1, <4>2, <4>3
    <3>3. i # 1
      <4>1. u[1] = 0 + Size(seqs[1]) /\ Size(seqs[1]) \in Int
        <5>1. 1 - 1 = 0
          OBVIOUS
        <5> QED
          BY <2>2, <2>3, <5>1
      <4> QED
        BY <2>1, <3>2, <4>1
    <3>4. i \in 2..n /\ i - 1 \in 1..n /\ i - 1 \in Nat /\ ~(i <= i - 1)
      BY <2>2, <3>2, <3>3
    <3>5. Size(f[i - 1]) = u[i - 1] /\ f[i - 1] \in Seq(CtxItems)
      BY <3>1, <3>4
    <3>6. Joins(f[i], f[i - 1], seqs[i])
      BY <2>1, <3>4 DEF Joins
    <3>7. Size(f[i]) = Size(f[i - 1]) + Size(seqs[i])
      BY <3>2, <3>5, <3>6, SizeJoined
    <3> QED
      BY <2>3, <3>2, <3>5, <3>7
  <2>5. Size(f[n]) = u[n]
    BY <2>2, <2>4
  <2> QED
    BY <1>1, <2>1, <2>5
<1> QED
  BY <1>2, <1>3

(* The calls, their results and the text of a reply measure what the reply does. *)
LEMMA SizeExpanded ==
  ASSUME NEW m \in CtxMessages, NEW i \in Nat, NEW b, ExpandedTo(b, m, i)
  PROVE  Size(b) = CtxTokens(m)
<1> DEFINE c == m.calls
           h == m.cost \div 2
           asked == c * h
           r == m.cost - h
           rest == CtxTokens(m) - asked - c * r
           t == TokensOf(b)
<1>1. /\ c \in Nat /\ m.cost \in Nat /\ m.text \in Nat
      /\ CtxTokens(m) = m.text + c * m.cost
  BY DEF CtxMessages, CtxTokens
<1>2. h \in Nat
  BY <1>1
<1>3. b \in Seq(CtxItems) /\ Len(b) \in Nat
  BY DEF ExpandedTo
<1>4. /\ t \in Seq(Int) /\ Len(t) = Len(b) /\ Size(b) = TokenSum(t)
      /\ \A k \in 1..Len(b) : t[k] = b[k].tokens
  BY <1>3, TokensOfIs
<1>5. PICK u : SumsOf(u, t) /\ TokenSum(t) = u[Len(t)]
  BY <1>4, TokenSumIs
<1>6. CASE c = 0
  <2>1. Len(b) = 1 /\ b[1].tokens = m.text
    BY <1>6, CtxItemHas DEF ExpandedTo
  <2>2. u[1] = u[0] + t[1] /\ u[0] = 0 /\ t[1] = m.text
    <3>1. 1 \in 1..Len(t) /\ 1 - 1 = 0
      BY <1>4, <2>1
    <3> QED
      BY <1>4, <1>5, <2>1, <3>1 DEF SumsOf
  <2>3. CtxTokens(m) = m.text
    BY <1>1, <1>6
  <2> QED
    BY <1>1, <1>4, <1>5, <2>1, <2>2, <2>3
<1>7. CASE c # 0
  <2>1. /\ Len(b) = c + (IF m.text > 0 THEN 2 ELSE 1)
        /\ b[1].tokens = asked
        /\ \A k \in 1..c : b[1 + k].tokens = r
        /\ m.text > 0 => b[c + 2].tokens = rest
    <3>1. /\ Len(b) = c + (IF m.text > 0 THEN 2 ELSE 1)
          /\ b[1] = CtxItem("calls", c, asked, i)
          /\ \A k \in 1..c : b[1 + k] = CtxItem("tool", k, r, i)
          /\ m.text > 0 => b[c + 2] = CtxItem("assistant", 0, rest, i)
      BY <1>7, Zenon DEF ExpandedTo
    <3> HIDE DEF asked, r, rest, c
    <3>2. b[1].tokens = asked
      BY <3>1, CtxItemHas
    <3>3. ASSUME NEW k \in 1..c PROVE b[1 + k].tokens = r
      BY <3>1, CtxItemHas
    <3>4. m.text > 0 => b[c + 2].tokens = rest
      BY <3>1, CtxItemHas
    <3> QED
      BY <3>1, <3>2, <3>3, <3>4
  <2>2. asked \in Int /\ r \in Int /\ c * r \in Int
    BY <1>1, <1>2
  <2>3. asked + c * r = c * m.cost
    <3> HIDE DEF c, h
    <3> QED
      BY <1>1, <1>2
  <2>4. m.text > 0 => rest = CtxTokens(m) - asked - c * r
    OBVIOUS
  <2>5. c \in Nat /\ c # 0
    BY <1>1, <1>7
  <2> HIDE DEF asked, r, rest, h, t, c
  <2>6. /\ u[0] = 0
        /\ \A k \in 1..Len(b) : u[k] = u[k - 1] + b[k].tokens
    BY <1>4, <1>5 DEF SumsOf
  <2> DEFINE T == {k \in Nat : k <= c /\ u[1 + k] # asked + k * r}
  <2>7. ASSUME T # {} PROVE FALSE
    <3>1. PICK k \in T : \A x \in T : k <= x
      BY <2>7, LeastNat
    <3>2. k \in Nat /\ k <= c /\ u[1 + k] # asked + k * r
      BY <3>1
    <3>3. k # 0
      <4>1. 1 \in 1..Len(b) /\ 1 - 1 = 0 /\ 1 + 0 = 1 /\ 0 * r = 0
        BY <2>1, <2>2, <2>5
      <4>2. u[1] = 0 + asked
        BY <2>1, <2>6, <4>1
      <4> QED
        BY <2>2, <3>2, <4>1, <4>2
    <3>4. /\ k \in 1..c /\ k - 1 \in Nat /\ k - 1 <= c /\ ~(k <= k - 1) /\ 1 + k \in 1..Len(b)
          /\ (1 + k) - 1 = 1 + (k - 1)
      <4>1. c + 1 <= Len(b)
        BY <2>1, <2>5
      <4> QED
        BY <1>3, <2>5, <3>2, <3>3, <4>1
    <3>5. u[1 + (k - 1)] = asked + (k - 1) * r
      BY <3>1, <3>4
    <3>6. u[1 + k] = u[1 + (k - 1)] + r
      BY <2>1, <2>6, <3>4
    <3>7. k * r = (k - 1) * r + r /\ (k - 1) * r \in Int
      BY <2>2, <3>2
    <3> QED
      BY <2>2, <3>2, <3>5, <3>6, <3>7
  <2>8. u[1 + c] = asked + c * r
    BY <2>5, <2>7
  <2>9. CASE m.text > 0
    <3>1. Len(b) = c + 2 /\ c + 2 \in 1..Len(b) /\ (c + 2) - 1 = 1 + c
      BY <2>1, <2>5, <2>9
    <3>2. u[c + 2] = u[1 + c] + rest
      BY <2>1, <2>6, <2>9, <3>1
    <3>3. CtxTokens(m) \in Int
      BY <1>1, <2>2, <2>3
    <3> QED
      BY <1>4, <1>5, <2>2, <2>4, <2>8, <2>9, <3>1, <3>2, <3>3
  <2>10. CASE ~(m.text > 0)
    <3>1. Len(b) = 1 + c /\ CtxTokens(m) = c * m.cost
      BY <1>1, <2>1, <2>2, <2>3, <2>5, <2>10 DEF c
    <3> QED
      BY <1>4, <1>5, <2>3, <2>8, <3>1
  <2> QED
    BY <2>9, <2>10
<1> QED
  BY <1>6, <1>7

(* Every block that is not empty is in what is put together, and the last *)
(* item of a block of one ends it.                                        *)
LEMMA BlocksThere ==
  ASSUME NEW seqs \in Seq(Seq(CtxItems)), \A i \in 1..Len(seqs) : BlockOK(seqs[i], i)
  PROVE  LET s == FlattenSeq(seqs)
         IN  /\ \A a \in 1..Len(seqs) : (\E k \in 1..Len(s) : s[k].of = a) <=> Len(seqs[a]) # 0
             /\ Len(seqs) # 0 /\ Len(seqs[Len(seqs)]) = 1 => Len(s) # 0 /\ s[Len(s)] = seqs[Len(seqs)][1]
<1> DEFINE s == FlattenSeq(seqs)
           n == Len(seqs)
<1>1. PICK at : s \in Seq(CtxItems) /\ PlacesOf(at, seqs) /\ LiesAt(s, seqs, at, n)
  BY FlatPlaces
<1> HIDE DEF s
<1>2. /\ Len(s) = at[n] /\ Len(s) \in Nat /\ n \in Nat
      /\ \A a \in 1..n : \A j \in 1..Len(seqs[a]) : at[a - 1] + j \in 1..Len(s) /\ s[at[a - 1] + j] = seqs[a][j]
      /\ \A k \in 1..Len(s) : \E a \in 1..n : \E j \in 1..Len(seqs[a]) : k = at[a - 1] + j
  BY <1>1 DEF LiesAt
<1>3. ASSUME NEW a \in 1..n
      PROVE  /\ Len(seqs[a]) \in Nat /\ at[a - 1] \in Nat /\ at[a] = at[a - 1] + Len(seqs[a])
             /\ \A k \in 1..Len(seqs[a]) : seqs[a][k].of = a
  <2>1. a - 1 \in 0..n /\ seqs[a] \in Seq(CtxItems) /\ BlockOK(seqs[a], a)
    BY <1>2
  <2>2. at[a - 1] \in Nat /\ at[a] = at[a - 1] + Len(seqs[a])
    BY <1>1, <2>1 DEF PlacesOf
  <2>3. \A k \in 1..Len(seqs[a]) : seqs[a][k].of = a
    BY <2>1 DEF BlockOK
  <2> QED
    BY <2>1, <2>2, <2>3
<1>4. ASSUME NEW a \in 1..n, Len(seqs[a]) # 0 PROVE \E k \in 1..Len(s) : s[k].of = a
  <2>1. 1 \in 1..Len(seqs[a])
    BY <1>3, <1>4
  <2>2. at[a - 1] + 1 \in 1..Len(s) /\ s[at[a - 1] + 1] = seqs[a][1]
    BY <1>2, <2>1
  <2> QED
    BY <1>3, <2>1, <2>2
<1>5. ASSUME NEW a \in 1..n, NEW k \in 1..Len(s), s[k].of = a PROVE Len(seqs[a]) # 0
  <2>1. PICK c \in 1..n : \E j \in 1..Len(seqs[c]) : k = at[c - 1] + j
    BY <1>2
  <2>2. PICK j \in 1..Len(seqs[c]) : k = at[c - 1] + j
    BY <2>1
  <2>3. s[k] = seqs[c][j]
    BY <1>2, <2>2
  <2>4. c = a
    BY <1>3, <1>5, <2>3
  <2> QED
    BY <1>3, <2>2, <2>4
<1>6. ASSUME n # 0, Len(seqs[n]) = 1 PROVE Len(s) # 0 /\ s[Len(s)] = seqs[n][1]
  <2>1. n \in 1..n /\ 1 \in 1..Len(seqs[n])
    BY <1>2, <1>6
  <2>2. s[at[n - 1] + 1] = seqs[n][1] /\ at[n] = at[n - 1] + 1 /\ at[n - 1] \in Nat
    BY <1>2, <1>3, <1>6, <2>1
  <2> QED
    BY <1>2, <2>2
<1> QED
  BY <1>4, <1>5, <1>6 DEF s

(* What a turn sends of the branch. *)
CountsSent(s, messages) ==
  [i \in DOMAIN messages |-> IF \E k \in DOMAIN s : s[k].of = i THEN CtxTokens(messages[i]) ELSE 0]
OrderedIn(s) ==
  s # <<>> =>
    /\ Last(s).kind = "user"
    /\ \A j, k \in DOMAIN s : j < k =>
         \/ s[j].of < s[k].of
         \/ s[j].of = s[k].of /\ s[j].kind # s[k].kind
         \/ s[j].of = s[k].of /\ s[j].call < s[k].call
SentOK(s, size, messages) ==
  /\ s \in Seq(CtxItems) /\ \A k \in 1..Len(s) : s[k].of \in 1..Len(messages)
  /\ AnsweredIn(s) /\ OrderedIn(s)
  /\ size = TokenSum(CountsSent(s, messages))

ContextInv == ctxBranch \in Seq(CtxMessages) /\ strategy \in Strategies /\ SentOK(sent, stats, ctxBranch)

LEMMA CtxTokensTyped == ASSUME NEW m \in CtxMessages PROVE CtxTokens(m) \in Int
<1>1. m.text \in Nat /\ m.calls \in Nat /\ m.cost \in Nat
  BY DEF CtxMessages
<1> QED
  BY <1>1 DEF CtxTokens

LEMMA CountedIs ==
  ASSUME NEW messages \in Seq(CtxMessages), NEW s
  PROVE  /\ CountsSent(s, messages) \in Seq(Int) /\ Len(CountsSent(s, messages)) = Len(messages)
         /\ \A i \in 1..Len(messages) :
              CountsSent(s, messages)[i] = IF \E k \in DOMAIN s : s[k].of = i THEN CtxTokens(messages[i]) ELSE 0
<1>1. Len(messages) \in Nat /\ DOMAIN messages = 1..Len(messages) /\ \A i \in 1..Len(messages) : messages[i] \in CtxMessages
  OBVIOUS
<1>2. \A i \in 1..Len(messages) : CtxTokens(messages[i]) \in Int
  BY <1>1, CtxTokensTyped
<1>3. CountsSent(s, messages) = [i \in 1..Len(messages) |-> IF \E k \in DOMAIN s : s[k].of = i THEN CtxTokens(messages[i]) ELSE 0]
  BY <1>1 DEF CountsSent
<1>4. CountsSent(s, messages) \in [1..Len(messages) -> Int]
  BY <1>2, <1>3
<1>5. CountsSent(s, messages) \in Seq(Int) /\ Len(CountsSent(s, messages)) = Len(messages)
  BY <1>1, <1>4, AsSeq
<1> QED
  BY <1>3, <1>5

LEMMA PickedIs ==
  ASSUME NEW messages \in Seq(CtxMessages), NEW how \in Strategies, Len(messages) # 0
  PROVE  Picked(messages, how) \subseteq 1..Len(messages) /\ Len(messages) \in Picked(messages, how)
<1> DEFINE n == Len(messages)
<1>1. n \in Nat /\ n # 0 /\ n \in 1..n
  OBVIOUS
<1>2. Latest(n) \subseteq 1..n /\ n \in Latest(n)
  BY <1>1, ContextAssumption DEF Latest
<1>3. CASE how = "no_compression" \/ CtxTotal(messages) <= Trigger \/ n <= Recent
  BY <1>1, <1>3 DEF Picked
<1>4. CASE ~(how = "no_compression" \/ CtxTotal(messages) <= Trigger \/ n <= Recent)
  <2>1. 1 \in 1..n /\ 2 \in 1..n
    BY <1>1, <1>4, ContextAssumption
  <2>2. how \in {"sliding", "sticky", "truncate_middle"}
    BY <1>4 DEF Strategies
  <2>3. Picked(messages, how) \in {Latest(n), {1} \cup Latest(n), {1, 2} \cup Latest(n)}
    BY <1>4, <2>2 DEF Picked
  <2> QED
    BY <1>2, <2>1, <2>3
<1> QED
  BY <1>3, <1>4

LEMMA BuildIs ==
  ASSUME NEW messages \in Seq(CtxMessages), NEW how \in Strategies, Len(messages) # 0,
         messages[Len(messages)].role = "user", messages[Len(messages)].calls = 0
  PROVE  SentOK(Build(messages, how), Size(Build(messages, how)), messages)
<1> DEFINE n == Len(messages)
           picked == Picked(messages, how)
           seqs == [i \in 1..n |-> IF i \in picked THEN ExpandMessage(messages[i], i) ELSE <<>>]
           s == FlattenSeq(seqs)
<1>1. /\ n \in Nat /\ n # 0 /\ n \in 1..n /\ DOMAIN messages = 1..n
      /\ \A i \in 1..n : i \in Nat /\ messages[i] \in CtxMessages
  OBVIOUS
<1>2. Build(messages, how) = s
  BY <1>1 DEF Build
<1>3. picked \subseteq 1..n /\ n \in picked
  BY <1>1, PickedIs
<1>4. \A i \in 1..n : seqs[i] = IF i \in picked THEN ExpandMessage(messages[i], i) ELSE <<>>
  OBVIOUS
<1>5. ASSUME NEW i \in 1..n
      PROVE  /\ seqs[i] \in Seq(CtxItems) /\ BlockOK(seqs[i], i)
             /\ Len(seqs[i]) # 0 <=> i \in picked
             /\ Size(seqs[i]) = IF i \in picked THEN CtxTokens(messages[i]) ELSE 0
  <2>1. CASE i \in picked
    <3> DEFINE b == ExpandMessage(messages[i], i)
    <3>1. ExpandedTo(b, messages[i], i) /\ seqs[i] = b
      BY <1>1, <1>4, <2>1, ExpandMessageIs
    <3> HIDE DEF b
    <3>2. BlockOK(b, i) /\ Size(b) = CtxTokens(messages[i])
      BY <1>1, <3>1, ExpandedIsBlock, SizeExpanded
    <3>3. Len(b) # 0 /\ b \in Seq(CtxItems)
      <4>1. messages[i].calls \in Nat
        BY <1>1 DEF CtxMessages
      <4> DEFINE c == messages[i].calls
                 z == messages[i].text > 0
      <4>2. (c = 0 => Len(b) = 1) /\ (c # 0 => Len(b) = c + (IF z THEN 2 ELSE 1)) /\ b \in Seq(CtxItems)
        BY <3>1, Zenon DEF ExpandedTo
      <4>3. c \in Nat
        BY <4>1
      <4>4. (c = 0 => Len(b) = 1) /\ (c # 0 => Len(b) = c + 2 \/ Len(b) = c + 1)
        BY <4>2, Zenon
      <4> HIDE DEF z, c
      <4>5. Len(b) # 0
        <5>1. \A x \in Nat : x + 2 # 0 /\ x + 1 # 0
          OBVIOUS
        <5>2. c + 2 # 0 /\ c + 1 # 0
          BY <4>3, <5>1, Zenon
        <5>3. 1 # 0
          OBVIOUS
        <5> QED
          BY <4>4, <5>2, <5>3, Zenon
      <4> QED
        BY <4>2, <4>5
    <3> QED
      BY <2>1, <3>1, <3>2, <3>3
  <2>2. CASE i \notin picked
    <3>1. seqs[i] = <<>> /\ <<>> \in Seq(CtxItems) /\ Len(<<>>) = 0 /\ DOMAIN <<>> = {} /\ 1..0 = {}
      BY <1>4, <2>2
    <3>2. BlockOK(<<>>, i)
      BY <3>1 DEF BlockOK, AnsweredIn
    <3> QED
      BY <2>2, <3>1, <3>2, SizeNone
  <2> QED
    BY <2>1, <2>2
<1>6. seqs \in [1..n -> Seq(CtxItems)]
  <2>1. seqs = [i \in 1..n |-> seqs[i]]
    OBVIOUS
  <2> HIDE DEF seqs
  <2> QED
    BY <1>5, <2>1
<1> HIDE DEF seqs, picked
<1>7. seqs \in Seq(Seq(CtxItems)) /\ Len(seqs) = n
  BY <1>1, <1>6, AsSeq
<1>8. \A i \in 1..Len(seqs) : BlockOK(seqs[i], i)
  BY <1>5, <1>7
<1>9. /\ s \in Seq(CtxItems) /\ AnsweredIn(s)
      /\ \A k \in 1..Len(s) : s[k].of \in 1..n
      /\ \A j, k \in 1..Len(s) : j < k =>
           \/ s[j].of < s[k].of
           \/ s[j].of = s[k].of /\ s[j].kind # s[k].kind
           \/ s[j].of = s[k].of /\ s[j].call < s[k].call
  BY <1>7, <1>8, BlocksAreSound
<1>10. /\ \A a \in 1..n : (\E k \in 1..Len(s) : s[k].of = a) <=> Len(seqs[a]) # 0
       /\ n # 0 /\ Len(seqs[n]) = 1 => Len(s) # 0 /\ s[Len(s)] = seqs[n][1]
  BY <1>7, <1>8, BlocksThere
<1>11. DOMAIN s = 1..Len(s)
  BY <1>9
<1>12. Len(seqs[n]) = 1 /\ seqs[n][1].kind = "user"
  <2>1. seqs[n] = ExpandMessage(messages[n], n)
    BY <1>1, <1>3, <1>4
  <2>2. ExpandedTo(seqs[n], messages[n], n)
    BY <1>1, <2>1, ExpandMessageIs
  <2>3. Len(seqs[n]) = 1 /\ seqs[n][1] = CtxItem("user", 0, messages[n].text, n)
    BY <2>2, Zenon DEF ExpandedTo
  <2> QED
    BY <2>3, CtxItemHas
<1>13. CountsSent(s, messages) \in Seq(Int) /\ Len(CountsSent(s, messages)) = n
  BY CountedIs
<1>14. ASSUME NEW i \in 1..n PROVE CountsSent(s, messages)[i] = Size(seqs[i])
  <2>1. CountsSent(s, messages)[i] = IF \E k \in DOMAIN s : s[k].of = i THEN CtxTokens(messages[i]) ELSE 0
    BY CountedIs
  <2>2. (\E k \in DOMAIN s : s[k].of = i) <=> i \in picked
    BY <1>5, <1>10, <1>11
  <2> QED
    BY <1>5, <2>1, <2>2
<1>15. Size(s) = TokenSum(CountsSent(s, messages))
  BY <1>7, <1>13, <1>14, SizeFlat
<1>16. OrderedIn(s)
  <2>1. Last(s).kind = "user"
    BY <1>1, <1>10, <1>12 DEF Last
  <2> QED
    BY <1>9, <1>11, <2>1 DEF OrderedIn
<1> HIDE DEF s
<1>17. SentOK(s, Size(s), messages)
  BY <1>9, <1>15, <1>16 DEF SentOK
<1> QED
  BY <1>2, <1>17

(* Nothing was sent. *)
LEMMA NothingSent == ASSUME NEW messages \in Seq(CtxMessages) PROVE SentOK(<<>>, 0, messages)
<1>1. <<>> \in Seq(CtxItems) /\ Len(<<>>) = 0 /\ DOMAIN <<>> = {} /\ 1..0 = {}
  OBVIOUS
<1> DEFINE c == CountsSent(<<>>, messages)
<1>2. /\ c \in Seq(Int) /\ Len(c) = Len(messages)
      /\ \A i \in 1..Len(messages) : c[i] = IF \E k \in DOMAIN <<>> : <<>>[k].of = i THEN CtxTokens(messages[i]) ELSE 0
  BY CountedIs
<1>3. \A i \in 1..Len(messages) : c[i] = 0
  BY <1>1, <1>2
<1> HIDE DEF c
<1> DEFINE n == Len(messages)
<1>4. n \in Nat /\ Len(c) = n /\ \A i \in 1..n : c[i] = 0
  BY <1>2, <1>3
<1> HIDE DEF n
<1>5. TokenSum(c) = n * 0 /\ n * 0 = 0
  BY <1>2, <1>4, SumOfSame
<1> QED
  BY <1>1, <1>5 DEF SentOK, AnsweredIn, OrderedIn, c

(* A message more, of which nothing was sent yet. *)
LEMMA SentStays ==
  ASSUME NEW messages \in Seq(CtxMessages), NEW m \in CtxMessages, NEW s, NEW size, SentOK(s, size, messages)
  PROVE  SentOK(s, size, Append(messages, m))
<1> DEFINE more == Append(messages, m)
           n == Len(messages)
           a == CountsSent(s, messages)
           c == CountsSent(s, more)
           b == <<0>>
<1>1. /\ more \in Seq(CtxMessages) /\ Len(more) = n + 1 /\ n \in Nat
      /\ \A i \in 1..n : i \in 1..Len(more) /\ more[i] = messages[i]
      /\ n + 1 \in 1..Len(more)
  OBVIOUS
<1> HIDE DEF more
<1>2. /\ a \in Seq(Int) /\ Len(a) = n
      /\ \A i \in 1..n : a[i] = IF \E k \in DOMAIN s : s[k].of = i THEN CtxTokens(messages[i]) ELSE 0
  BY CountedIs
<1>3. /\ c \in Seq(Int) /\ Len(c) = n + 1
      /\ \A i \in 1..Len(more) : c[i] = IF \E k \in DOMAIN s : s[k].of = i THEN CtxTokens(more[i]) ELSE 0
  BY <1>1, CountedIs
<1>4. s \in Seq(CtxItems) /\ DOMAIN s = 1..Len(s) /\ \A k \in 1..Len(s) : s[k].of \in 1..n
  BY DEF SentOK
<1> HIDE DEF a, c
<1>5. \A i \in 1..n : c[i] = a[i]
  BY <1>1, <1>2, <1>3
<1>6. c[n + 1] = 0
  <2>1. ~ \E k \in DOMAIN s : s[k].of = n + 1
    BY <1>1, <1>4
  <2> QED
    BY <1>1, <1>3, <2>1
<1>7. b \in Seq(Int) /\ Len(b) = 1 /\ b[1] = 0 /\ TokenSum(b) = 0
  <2>1. b \in Seq(Int) /\ Len(b) = 1 /\ \A i \in 1..1 : b[i] = 0
    OBVIOUS
  <2> HIDE DEF b
  <2>2. TokenSum(b) = 1 * 0
    BY <2>1, SumOfSame
  <2> QED
    BY <2>1, <2>2
<1> HIDE DEF b
<1>8. /\ Len(c) = Len(a) + Len(b) /\ \A k \in 1..Len(a) : c[k] = a[k]
      /\ \A k \in 1..Len(b) : c[Len(a) + k] = b[k]
  BY <1>2, <1>3, <1>5, <1>6, <1>7
<1>9. TokenSum(c) = TokenSum(a) + TokenSum(b)
  <2>1. a \in Seq(Int) /\ b \in Seq(Int) /\ c \in Seq(Int)
    BY <1>2, <1>3, <1>7
  <2> HIDE DEF n
  <2> QED
    BY <1>8, <2>1, SumJoined
<1>10. TokenSum(a) \in Int
  <2>1. PICK u : SumsOf(u, a) /\ TokenSum(a) = u[Len(a)]
    BY <1>2, TokenSumIs
  <2> QED
    BY <1>1, <1>2, <2>1 DEF SumsOf
<1>11. TokenSum(c) = TokenSum(a)
  BY <1>7, <1>9, <1>10
<1>12. \A k \in 1..Len(s) : s[k].of \in 1..Len(more)
  BY <1>1, <1>4
<1> QED
  BY <1>11, <1>12 DEF SentOK, a, c, more

LEMMA ContextStarts == ContextInit => ContextInv
<1> SUFFICES ASSUME ContextInit PROVE ContextInv
  OBVIOUS
<1>1. <<>> \in Seq(CtxMessages)
  OBVIOUS
<1>2. SentOK(<<>>, 0, <<>>)
  BY <1>1, NothingSent
<1> QED
  BY <1>1, <1>2 DEF ContextInit, ContextInv

LEMMA ContextMoves == ASSUME ContextInv, [ContextNext]_contextVars PROVE ContextInv'
<1>1. CASE UNCHANGED contextVars
  BY <1>1 DEF contextVars, ContextInv
<1>2. CASE Asks
  <2>1. PICK text \in 1..2 :
          LET question == [role |-> "user", text |-> text, calls |-> 0, cost |-> 0]
              messages == Append(ctxBranch, question)
          IN  /\ Len(messages) <= MaxLength
              /\ ctxBranch' = IF Overflows(messages, strategy) THEN ctxBranch ELSE messages
              /\ sent' = IF Overflows(messages, strategy) THEN <<>> ELSE Build(messages, strategy)
              /\ stats' = Size(sent')
              /\ UNCHANGED strategy
    BY <1>2 DEF Asks
  <2> DEFINE question == [role |-> "user", text |-> text, calls |-> 0, cost |-> 0]
             messages == Append(ctxBranch, question)
  <2>2. question \in CtxMessages /\ question.role = "user" /\ question.calls = 0
    BY DEF CtxMessages
  <2> HIDE DEF question
  <2>3. /\ messages \in Seq(CtxMessages) /\ Len(messages) # 0 /\ messages[Len(messages)] = question
        /\ ctxBranch \in Seq(CtxMessages) /\ strategy \in Strategies
    BY <2>2 DEF ContextInv
  <2>4. /\ ctxBranch' = IF Overflows(messages, strategy) THEN ctxBranch ELSE messages
        /\ sent' = IF Overflows(messages, strategy) THEN <<>> ELSE Build(messages, strategy)
        /\ stats' = Size(sent') /\ strategy' = strategy
    BY <2>1 DEF question
  <2> HIDE DEF messages
  <2>5. CASE Overflows(messages, strategy)
    BY <2>3, <2>4, <2>5, NothingSent, SizeNone DEF ContextInv
  <2>6. CASE ~Overflows(messages, strategy)
    <3>1. SentOK(Build(messages, strategy), Size(Build(messages, strategy)), messages)
      BY <2>2, <2>3, BuildIs
    <3> QED
      BY <2>3, <2>4, <2>6, <3>1 DEF ContextInv
  <2> QED
    BY <2>5, <2>6
<1>3. CASE CtxAnswers
  <2>1. PICK text \in 0..2, n \in 0..2 :
          ctxBranch' = Append(ctxBranch, [role |-> "assistant", text |-> text, calls |-> n, cost |-> 3])
    BY <1>3 DEF CtxAnswers
  <2> DEFINE replied == [role |-> "assistant", text |-> text, calls |-> n, cost |-> 3]
  <2>2. replied \in CtxMessages
    BY DEF CtxMessages
  <2>3. ctxBranch' = Append(ctxBranch, replied) /\ UNCHANGED <<strategy, sent, stats>>
    BY <1>3, <2>1 DEF CtxAnswers
  <2> HIDE DEF replied
  <2>4. /\ SentOK(sent, stats, ctxBranch) /\ ctxBranch \in Seq(CtxMessages) /\ strategy \in Strategies
    BY DEF ContextInv
  <2>5. SentOK(sent, stats, Append(ctxBranch, replied)) /\ Append(ctxBranch, replied) \in Seq(CtxMessages)
    BY <2>2, <2>4, SentStays
  <2> QED
    BY <2>3, <2>4, <2>5 DEF ContextInv
<1>4. CASE ChangesStrategy
  BY <1>4 DEF ChangesStrategy, ContextInv
<1> QED
  BY <1>1, <1>2, <1>3, <1>4 DEF ContextNext

LEMMA ContextHolds == ContextInv => ContextSound
BY DEF ContextInv, SentOK, ContextSound, CallsAnswered, QuestionLast, SizeIsTrue, AnsweredIn, OrderedIn, CountsSent

(* Whatever the strategy, its limits and the branch: the calls of a reply  *)
(* are sent with their results or not at all, the question comes last and  *)
(* no message twice, and the size shown is what the sent messages measure  *)
(* (context_engine.py).                                                    *)
THEOREM ContextIsWhole == TurnsSpec => [](focus = "context" => ContextSound)
<1> DEFINE Inv == focus = "context" => ContextInv
<1>1. TurnsInit => Inv
  BY ContextStarts DEF TurnsInit
<1>2. Inv /\ [TurnsNext]_turnsVars => Inv'
  BY FocusMoves, ContextMoves
<1>3. Inv => (focus = "context" => ContextSound)
  BY ContextHolds
<1> QED
  BY <1>1, <1>2, <1>3, PTL DEF TurnsSpec
=============================================================================
