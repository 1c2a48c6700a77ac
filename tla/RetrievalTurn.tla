---------------------------- MODULE RetrievalTurn ----------------------------
(***************************************************************************)
(* One chat turn over a knowledge base: the stages of the retrieval        *)
(* (agent/rag_pipeline.py, rag_rank.py, rag_llm.py, rag_fts.py), the gate  *)
(* and the merge of the fragments into the prompt (agent/rag_turn.py,      *)
(* rag.py), and the verification of the answer's quotes (agent/rag_cite.py)*)
(*                                                                         *)
(* A fragment is a number; World gives its cosines to the question and to  *)
(* the rewritten one, whether it earns the keyword exemption, and its size *)
(* in tokens.  Every optional stage may fail.                              *)
(***************************************************************************)
EXTENDS Integers, Sequences, FiniteSets, SequencesExt

CONSTANTS
  Worlds,         \* functions fragment -> [original, rewritten, keyword, size]
  Quotes,         \* quoted texts: functions fragment -> exact, fuzzy or unverified
  Threshold,      \* the cut on the cosine
  CandidateK,     \* how many fragments a search returns
  TopKs,          \* settings of top_k
  RerankTopN,     \* RERANK_TOP_N
  ContextLength,
  UsedTokens,     \* sizes of the prompt without fragments
  MaxTokens       \* settings of max_tokens

ASSUME RetrievalAssumption ==
  /\ Threshold \in Nat /\ CandidateK \in Nat \ {0} /\ RerankTopN \in Nat \ {0}
  /\ ContextLength \in Nat /\ TopKs \subseteq 1..CandidateK
  /\ UsedTokens \subseteq Nat /\ MaxTokens \subseteq Nat
  /\ \A w \in Worlds :
       /\ IsFiniteSet(DOMAIN w) /\ DOMAIN w \subseteq Nat
       /\ \A c \in DOMAIN w :
            w[c] \in [original : Int, rewritten : Int, keyword : BOOLEAN, size : Nat]

VARIABLES
  ragConfig,   \* row ChatRagConfig and the settings of the chat
  world,
  ragPc,
  candidates,  \* what the searches found, in the order of the pipeline
  survivors,   \* what passed the cut
  skipped,     \* stages that failed
  outbound,    \* what was merged into the question: plain, note or block
  payload      \* what is stored with the answer

ragVars == <<ragConfig, world, ragPc, candidates, survivors, skipped, outbound, payload>>

RagFragments == DOMAIN world
NoPayload ==
  [mode |-> "off", verdict |-> "off", gated |-> FALSE, strict |-> FALSE, warning |-> FALSE,
   sources |-> <<>>, dropped |-> 0, tokens |-> 0, trace |-> <<>>, quotes |-> <<>>, cited |-> {},
   invalid |-> 0, supported |-> "unknown", byModel |-> FALSE]

RagInit ==
  /\ ragConfig \in [mode : {"off", "rag"}, base : BOOLEAN, strict : BOOLEAN, topK : TopKs,
                    client : BOOLEAN, rewrite : BOOLEAN, hybrid : BOOLEAN, lexical : BOOLEAN,
                    llm : BOOLEAN, used : UsedTokens, maxTokens : MaxTokens]
  /\ ragConfig.mode = "off" =>
       /\ ~ragConfig.rewrite /\ ~ragConfig.hybrid /\ ~ragConfig.lexical /\ ~ragConfig.llm
       /\ ~ragConfig.strict
  /\ world \in Worlds
  /\ ragPc = "start" /\ candidates = <<>> /\ survivors = <<>> /\ skipped = {}
  /\ outbound = "plain" /\ payload = NoPayload

RagGoes(pc) == ragPc' = pc
Ids(s) == {s[i].id : i \in 1..Len(s)}

(* The members of S in a strict order, a set of pairs; and where one is.   *)
InOrder(S, before) ==
  CHOOSE s \in [1..Cardinality(S) -> S] :
    \A i, j \in 1..Cardinality(S) : i < j => <<s[i], s[j]>> \in before
RankIn(s, c) == IF Contains(s, c) THEN CHOOSE i \in 1..Len(s) : s[i] = c ELSE 0

(***************************************************************************)
(* The searches.                                                           *)
(***************************************************************************)
Candidate(c, cos, by) ==
  [id |-> c, cos |-> cos, by |-> by, fts |-> 0, exempt |-> FALSE, after |-> 0, status |-> "outside_top_k"]

(* The best K fragments for a question, as asked or as rewritten; ties in  *)
(* the order of the index.                                                 *)
Closer(question) ==
  {p \in RagFragments \X RagFragments :
     \/ world[p[1]][question] > world[p[2]][question]
     \/ world[p[1]][question] = world[p[2]][question] /\ p[1] < p[2]}

BestBy(question) ==
  LET ranked == InOrder(RagFragments, Closer(question))
  IN SubSeq(ranked, 1, IF Len(ranked) < CandidateK THEN Len(ranked) ELSE CandidateK)

ByCosine(s) ==
  LET position(e) == CHOOSE i \in 1..Len(s) : s[i].id = e.id
  IN InOrder(ToSet(s), {p \in ToSet(s) \X ToSet(s) :
       p[1].cos > p[2].cos \/ (p[1].cos = p[2].cos /\ position(p[1]) < position(p[2]))})

(* A failure ends the pre-step with a warning, and the turn goes on        *)
(* without fragments (the except branches of prepare_rag_turn).            *)
RagWarns ==
  /\ payload' = [NoPayload EXCEPT !.mode = "rag", !.verdict = "kb_unavailable", !.warning = TRUE]
  /\ RagGoes("asking")
  /\ UNCHANGED <<ragConfig, world, candidates, survivors, skipped, outbound>>

Starts ==
  /\ ragPc = "start"
  /\ IF ragConfig.mode = "off"
     THEN RagGoes("asking") /\ UNCHANGED payload
     ELSE RagGoes("retrieving") /\ UNCHANGED payload
  /\ UNCHANGED <<ragConfig, world, candidates, survivors, skipped, outbound>>

(* retrieve_vectors; a base that is gone, not ready or corrupt, or an      *)
(* embedder that does not answer, ends the pre-step (RagFails).            *)
Retrieves ==
  /\ ragPc = "retrieving" /\ ragConfig.base
  /\ LET hits == BestBy("original") IN
     candidates' = [i \in 1..Len(hits) |-> Candidate(hits[i], world[hits[i]].original, "original")]
  /\ RagGoes("rewriting")
  /\ UNCHANGED <<ragConfig, world, survivors, skipped, outbound, payload>>

(* The search of the rewritten question is merged: a fragment both found   *)
(* has the better cosine.                                                  *)
RagMerged(s) ==
  LET hits == BestBy("rewritten")
      known == [i \in 1..Len(s) |->
        IF Contains(hits, s[i].id)
        THEN [s[i] EXCEPT !.by = "both", !.cos = IF world[s[i].id].rewritten > @ THEN world[s[i].id].rewritten ELSE @]
        ELSE s[i]]
      new == InOrder(ToSet(hits) \ Ids(s), Closer("rewritten"))
  IN known \o [i \in 1..Len(new) |-> Candidate(new[i], world[new[i]].rewritten, "rewritten")]

(* _rewrite_stage: the model rewrites the question, or condenses it with   *)
(* the history; an answer equal to the question changes nothing.           *)
Rewrites ==
  /\ ragPc = "rewriting"
  /\ \/ ~ragConfig.rewrite /\ UNCHANGED <<candidates, skipped>>
     \/ ragConfig.rewrite /\ skipped' = skipped \cup {"rewrite"} /\ UNCHANGED candidates
     \/ ragConfig.rewrite /\ ragConfig.client /\ UNCHANGED <<candidates, skipped>>
     \/ /\ ragConfig.rewrite /\ ragConfig.client
        /\ candidates' = ByCosine(RagMerged(candidates)) /\ UNCHANGED skipped
  /\ RagGoes("hybrid")
  /\ UNCHANGED <<ragConfig, world, survivors, outbound, payload>>

(* rrf_order; the scores over the common denominator 61 * 62 * 63 * 64.    *)
Rrf(rank) == (61 * 62 * 63 * 64) \div (60 + rank)
RrfOrder(vectorIds, ftsIds) ==
  LET found == ToSet(vectorIds) \cup ToSet(ftsIds)
      part(k) == IF k = 0 THEN 0 ELSE Rrf(k)
      score(c) == part(RankIn(vectorIds, c)) + part(RankIn(ftsIds, c))
      place(s, c) == IF Contains(s, c) THEN RankIn(s, c) ELSE Len(vectorIds) + Len(ftsIds) + 1
  IN InOrder(found, {p \in found \X found :
       \/ score(p[1]) > score(p[2])
       \/ /\ score(p[1]) = score(p[2])
          /\ \/ place(vectorIds, p[1]) < place(vectorIds, p[2])
             \/ /\ place(vectorIds, p[1]) = place(vectorIds, p[2])
                /\ place(ftsIds, p[1]) < place(ftsIds, p[2])})

(* A hit of the keywords alone gets its cosine from the index, the better  *)
(* one when there were two searches.                                       *)
FtsOnly(c) ==
  LET two == \E i \in 1..Len(candidates) : candidates[i].by # "original" IN
  IF two /\ world[c].rewritten > world[c].original
  THEN Candidate(c, world[c].rewritten, "rewritten") ELSE Candidate(c, world[c].original, "original")

(* _hybrid_stage: what the keywords find joins the candidates, and the two *)
(* orders are fused.  Nothing changes unless all of it succeeds.           *)
Hybrid ==
  /\ ragPc = "hybrid" /\ ragConfig.hybrid
  /\ \/ skipped' = skipped \cup {"hybrid"} /\ UNCHANGED candidates
     \/ \E hits \in SUBSET RagFragments :
          \E fts \in SetToSeqs(hits) :
            /\ Len(fts) <= CandidateK
            /\ LET known == ToSet(candidates) \cup {FtsOnly(c) : c \in hits \ Ids(candidates)}
                   order == RrfOrder([i \in 1..Len(candidates) |-> candidates[i].id], fts)
                   entry(c) == CHOOSE e \in known : e.id = c
               IN candidates' = [i \in 1..Len(order) |->
                    [entry(order[i]) EXCEPT !.fts = RankIn(fts, order[i])]]
            /\ UNCHANGED skipped
  /\ RagGoes("cutting")
  /\ UNCHANGED <<ragConfig, world, survivors, outbound, payload>>

NoHybrid ==
  /\ ragPc = "hybrid" /\ ~ragConfig.hybrid
  /\ RagGoes("cutting")
  /\ UNCHANGED <<ragConfig, world, candidates, survivors, skipped, outbound, payload>>

(* _apply_threshold and _earns_fts_exemption; the survivors stay in order. *)
Passes(e) ==
  \/ e.cos >= Threshold
  \/ ragConfig.hybrid /\ "hybrid" \notin skipped /\ e.fts # 0 /\ world[e.id].keyword

Cuts ==
  /\ ragPc = "cutting"
  /\ LET judged == [i \in 1..Len(candidates) |->
           IF ~Passes(candidates[i]) THEN [candidates[i] EXCEPT !.status = "below_threshold"]
           ELSE [candidates[i] EXCEPT !.exempt = candidates[i].cos < Threshold]]
         ids == [i \in 1..Len(candidates) |-> candidates[i].id]
         passed == {candidates[i].id : i \in {i \in 1..Len(candidates) : Passes(candidates[i])}}
     IN /\ candidates' = judged
        /\ survivors' = InOrder(passed, {p \in passed \X passed : RankIn(ids, p[1]) < RankIn(ids, p[2])})
  /\ RagGoes("lexical")
  /\ UNCHANGED <<ragConfig, world, skipped, outbound, payload>>

(* _lexical_stage: any order may come out of the fused scores.             *)
Lexical ==
  /\ ragPc = "lexical"
  /\ IF ragConfig.lexical /\ survivors # <<>>
     THEN \/ survivors' \in SetToSeqs(ToSet(survivors)) /\ UNCHANGED skipped
          \/ skipped' = skipped \cup {"lexical"} /\ UNCHANGED survivors
     ELSE UNCHANGED <<survivors, skipped>>
  /\ RagGoes("reranking")
  /\ UNCHANGED <<ragConfig, world, candidates, outbound, payload>>

(* _llm_stage: the model orders the first RERANK_TOP_N anew.               *)
Reranks ==
  /\ ragPc = "reranking"
  /\ LET n == IF Len(survivors) < RerankTopN THEN Len(survivors) ELSE RerankTopN IN
     IF ragConfig.llm /\ survivors # <<>>
     THEN \/ /\ ragConfig.client
             /\ \E batch \in SetToSeqs({survivors[i] : i \in 1..n}) :
                  survivors' = batch \o SubSeq(survivors, n + 1, Len(survivors))
             /\ UNCHANGED skipped
          \/ skipped' = skipped \cup {"llm"} /\ UNCHANGED survivors
     ELSE UNCHANGED <<survivors, skipped>>
  /\ RagGoes("picking")
  /\ UNCHANGED <<ragConfig, world, candidates, outbound, payload>>

RagFinal == SubSeq(survivors, 1, IF Len(survivors) < ragConfig.topK THEN Len(survivors) ELSE ragConfig.topK)

(* The trace: a survivor is in the answer, with its rank, or outside it.   *)
Traced ==
  [i \in 1..Len(candidates) |->
     IF Contains(RagFinal, candidates[i].id)
     THEN [candidates[i] EXCEPT !.status = "in_answer",
                                !.after = RankIn(RagFinal, candidates[i].id)]
     ELSE candidates[i]]

(***************************************************************************)
(* The gate and the merge.                                                 *)
(***************************************************************************)
MinOf(m, n) == IF m < n THEN m ELSE n

(* rag_budget: int(context_length * 0.30), within the free space.          *)
rag_budget ==
  LET reserved == MinOf(ragConfig.maxTokens, ContextLength \div 2)
      free == IF ContextLength > ragConfig.used + reserved THEN ContextLength - ragConfig.used - reserved ELSE 0
  IN MinOf((3 * ContextLength) \div 10, free)

(* The block with the first n fragments: its frame is one token.           *)
BlockSize(n) == FoldLeft(LAMBDA sum, c : sum + world[c].size, 1, SubSeq(RagFinal, 1, n))

(* build_rag_block: the longest prefix that fits, with CYRILLIC_SAFETY.    *)
Kept ==
  CHOOSE n \in 0..Len(RagFinal) :
    /\ \A k \in 1..n : 115 * BlockSize(k) <= 100 * rag_budget
    /\ n < Len(RagFinal) => ~(115 * BlockSize(n + 1) <= 100 * rag_budget)

(* mark_over_budget.                                                       *)
MarkedTrace(kept) ==
  [i \in 1..Len(Traced) |->
     IF Traced[i].status = "in_answer" /\ Traced[i].after > kept
     THEN [Traced[i] EXCEPT !.status = "over_budget"] ELSE Traced[i]]

RagPayload(verdict) == [NoPayload EXCEPT !.mode = "rag", !.verdict = verdict, !.trace = Traced]

(* Mutant: only the cut closes the gate, not an empty base.                *)
GatedByCut == ragConfig.strict /\ survivors = <<>> /\ candidates # <<>>

Gated == ragConfig.strict /\ survivors = <<>>

Gates ==
  /\ ragPc = "picking" /\ Gated
  /\ payload' = [RagPayload(IF candidates = <<>> THEN "ok" ELSE "below_threshold")
                   EXCEPT !.gated = TRUE, !.strict = TRUE]
  /\ RagGoes("answered")
  /\ UNCHANGED <<ragConfig, world, candidates, survivors, skipped, outbound>>

(* Nothing passed the cut and the mode is not strict: the model is told.   *)
NotesNothing ==
  /\ ragPc = "picking" /\ ~Gated /\ survivors = <<>> /\ candidates # <<>>
  /\ payload' = RagPayload("below_threshold")
  /\ outbound' = "note" /\ RagGoes("asking")
  /\ UNCHANGED <<ragConfig, world, candidates, survivors, skipped>>

(* Fragments, but none that fits, is the failure context_full.             *)
RagMerges ==
  /\ ragPc = "picking" /\ ~Gated
  /\ survivors = <<>> => candidates = <<>>
  /\ RagFinal # <<>> => Kept > 0
  /\ payload' = [RagPayload("ok") EXCEPT
       !.sources = SubSeq(RagFinal, 1, Kept), !.dropped = Len(RagFinal) - Kept,
       !.tokens = IF Kept = 0 THEN 0 ELSE BlockSize(Kept),
       !.trace = MarkedTrace(Kept), !.strict = ragConfig.strict]
  /\ outbound' = IF Kept = 0 THEN "plain" ELSE "block"
  /\ RagGoes("asking")
  /\ UNCHANGED <<ragConfig, world, candidates, survivors, skipped>>

RagFails ==
  /\ \/ ragPc = "retrieving"
     \/ ragPc = "picking" /\ ~Gated /\ RagFinal # <<>> /\ Kept = 0
  /\ RagWarns

(***************************************************************************)
(* The answer of the model, and finalize_rag_turn.                         *)
(***************************************************************************)
Sources == payload.sources
MatchAt(quote, n) == quote[Sources[n]]

(* _verify_line: the named fragment, then an exact match elsewhere, then a *)
(* fuzzy one.                                                              *)
Verified(n, quote) ==
  LET ranks == 1..Len(Sources)
      named == n \in ranks /\ MatchAt(quote, n) # "unverified"
      others(state) == {k \in ranks \ {n} : MatchAt(quote, k) = state}
      state == IF named THEN MatchAt(quote, n)
               ELSE IF others("exact") # {} THEN "exact"
               ELSE IF others("fuzzy") # {} THEN "fuzzy" ELSE "unverified"
      first(S) == CHOOSE k \in S : \A l \in S : k <= l
  IN [state |-> state, text |-> quote, named |-> n,
      rank |-> IF named \/ (state = "unverified" /\ n \in ranks) THEN n
               ELSE IF state = "unverified" THEN 0 ELSE first(others(state)),
      rebound |-> ~named /\ state # "unverified",
      badRef |-> state = "unverified" /\ n \notin ranks]

(* Sentences the code picks when no quote of the model holds: from the     *)
(* fragments the body names, or from the first two.                        *)
AutoRanks(body) == IF body # {} THEN body ELSE 1..MinOf(2, Len(Sources))

(* process_answer: what the answer refers to in its body, and at most one  *)
(* line of its section of quotes.                                          *)
Processed(refs, lines) ==
  LET body == refs \cap (1..Len(Sources))
      quotes == [i \in 1..Len(lines) |-> Verified(lines[i].named, lines[i].quote)]
      verified == \E i \in 1..Len(quotes) : quotes[i].state # "unverified"
      Numbered == {p \in AutoRanks(body) \X AutoRanks(body) : p[1] < p[2]}
  IN [payload EXCEPT
       !.byModel = TRUE,
       !.quotes = quotes \o (IF verified THEN <<>> ELSE
          [k \in 1..Cardinality(AutoRanks(body)) |->
             [state |-> "auto", rank |-> InOrder(AutoRanks(body), Numbered)[k], text |-> [c \in RagFragments |-> "exact"],
              named |-> 0, rebound |-> FALSE, badRef |-> FALSE]]),
       !.cited = body \cup {quotes[i].rank : i \in {i \in 1..Len(quotes) : quotes[i].rank # 0}},
       !.invalid = Cardinality(refs \ body) + Cardinality({i \in 1..Len(quotes) : quotes[i].badRef}),
       !.supported = IF body # {} \/ verified THEN "yes" ELSE "no"]

(* Without verification the answer is stored as it came.                   *)
Finalizes ==
  /\ ragPc = "asking"
  /\ IF payload.strict /\ ~payload.warning /\ Sources # <<>>
     THEN \/ payload' = [payload EXCEPT !.byModel = TRUE]   \* empty, or the verification failed
          \/ \E refs \in SUBSET (1..Len(Sources)) :         \* the answer begins with "Не знаю"
               payload' = [payload EXCEPT !.byModel = TRUE, !.verdict = "model_idk", !.cited = refs]
          \/ \E refs \in SUBSET (1..Len(Sources) + 1), n \in 0..Len(Sources) + 1, quote \in Quotes :
               payload' \in {Processed(refs, <<>>), Processed(refs, <<[named |-> n, quote |-> quote]>>)}
     ELSE payload' = [payload EXCEPT !.byModel = TRUE]
  /\ RagGoes("answered")
  /\ UNCHANGED <<ragConfig, world, candidates, survivors, skipped, outbound>>

RagNext ==
  \/ Starts \/ Retrieves \/ Rewrites \/ Hybrid \/ NoHybrid \/ Cuts \/ Lexical \/ Reranks
  \/ Gates \/ NotesNothing \/ RagMerges \/ RagFails \/ Finalizes

RagSpec == RagInit /\ [][RagNext]_ragVars

(***************************************************************************)
(* Properties.                                                             *)
(***************************************************************************)
(* In strict mode the model answers from fragments, or a warning says that *)
(* it could not ("No LLM call is made" past the gate): no combination of   *)
(* failing stages leads to an answer without either.                       *)
StrictIsGrounded ==
  ragPc = "answered" /\ ragConfig.mode = "rag" /\ ragConfig.strict
    => payload.gated # payload.byModel
       /\ (payload.byModel => payload.warning \/ (payload.sources # <<>> /\ outbound = "block"))

(* The stored trace explains the sources: those marked in_answer are the   *)
(* sources, each at the rank its number in the prompt has.                 *)
TraceExplainsSources ==
  ragPc = "answered" /\ payload.mode = "rag" =>
    \A i \in 1..Len(payload.trace) :
      LET e == payload.trace[i] IN
      (e.status = "in_answer") <=> \E n \in 1..Len(payload.sources) : payload.sources[n] = e.id /\ e.after = n

(* What the model is shown passed the cut by the raw cosine of one of the  *)
(* two questions, or is a keyword hit of a stage that did not fail, that   *)
(* matches the question.                                                   *)
ShownPassedCut ==
  \A n \in 1..Len(payload.sources) :
    LET c == payload.sources[n] IN
    \/ world[c].original >= Threshold
    \/ world[c].rewritten >= Threshold /\ ragConfig.rewrite /\ "rewrite" \notin skipped
    \/ world[c].keyword /\ ragConfig.hybrid /\ "hybrid" \notin skipped

(* A stage that failed leaves no trace of itself.                          *)
SkippedLeavesNothing ==
  \A i \in 1..Len(candidates) :
    /\ "hybrid" \in skipped => candidates[i].fts = 0 /\ ~candidates[i].exempt
    /\ "rewrite" \in skipped => candidates[i].by = "original"

(* A quote shown as verified stands in the fragment it is attached to, and *)
(* is moved away from the fragment it names only when it is not there.     *)
QuotesStand ==
  \A i \in 1..Len(payload.quotes) :
    LET q == payload.quotes[i] IN
    q.state \in {"exact", "fuzzy"} =>
      /\ q.rank \in 1..Len(payload.sources) /\ q.text[payload.sources[q.rank]] = q.state
      /\ q.rebound <=> q.rank # q.named
      /\ q.rebound /\ q.named \in 1..Len(payload.sources) => q.text[payload.sources[q.named]] = "unverified"

RagSound ==
  /\ StrictIsGrounded /\ TraceExplainsSources /\ ShownPassedCut /\ SkippedLeavesNothing /\ QuotesStand
=============================================================================
