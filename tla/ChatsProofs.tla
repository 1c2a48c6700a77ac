----------------------------- MODULE ChatsProofs -----------------------------
(***************************************************************************)
(* Theorems about the commands that MCChats runs beside a chat, for every  *)
(* value of their constants.  The components do not meet: in each          *)
(* behaviour one of them moves, the one in focus, so each has an invariant *)
(* of its own, which matters only under its focus (FocusMoves).            *)
(*                                                                         *)
(* RelInv: a step of a release noted as done was done, a confirmation that *)
(* is at a step has those before it, and a version that a tool took for    *)
(* its commit belongs to one call and one plan.                            *)
(*                                                                         *)
(* CrInv: in the lock of its branch a refresh works on what it read there, *)
(* and every base above the cap is on the account of a creator that has    *)
(* still to evict.                                                         *)
(*                                                                         *)
(* MemInv: a turn of the task memory has the lock, its question is the     *)
(* newest message and has no snapshot, and the document is still the one   *)
(* the turn read; what one more message does to the path of a leaf is      *)
(* PathGrows.                                                              *)
(***************************************************************************)
EXTENDS MCChats, FiniteSetTheorems, WellFoundedInduction, TLAPS

(* Of the components only the one in focus moves. *)
LEMMA FocusMoves ==
  ASSUME [ChatsNext]_chatsVars
  PROVE  /\ focus' = focus
         /\ focus = "release" => [RelNext]_relVars
         /\ focus = "review" => [CrNext]_crVars
         /\ focus = "memory" => [MemNext]_memVars
<1>1. CASE UNCHANGED chatsVars
  BY <1>1 DEF chatsVars
<1>2. CASE ChatsNext
  BY <1>2 DEF ChatsNext, OnlyMoves
<1> QED
  BY <1>1, <1>2

----------------------------------------------------------------------------
(* Releases. *)

Lists(s, v) == \E i \in 1..Len(s) : s[i] = v
Drafted(v) == \E i \in 1..Len(drafts) : drafts[i].tag = v
OnOrigin(v, sha) == remote.tags[v] = sha /\ sha <= remote.head

(* Versions are compared with the greatest one that has a tag. *)
LastVersionOK ==
  \E v \in Tagged(repo.tags) : \A w \in Tagged(repo.tags) : v = w \/ Greater(v, w)

(* What a plan's steps say is so. *)
PlanOK(p) ==
  LET plan == plans[p]
      done(k) == plan.steps[k] = "done"
  IN
  /\ done("commit") =>
       /\ plan.version \in Versions /\ Lists(repo.file, plan.version)
       /\ plan.sha # 0 /\ Lists(repo.log[plan.sha], plan.version)
  /\ done("tag") => done("commit") /\ repo.tags[plan.version] = plan.sha
  /\ done("push") => done("tag") /\ OnOrigin(plan.version, plan.sha)
  /\ done("release") => done("push") /\ Drafted(plan.version)

(* What a call has done, and what the steps before it had. *)
ToolOK(r) ==
  LET v == tool[r].version
      sha == tool[r].sha
      at(S) == tool[r].stage \in S
  IN
  tool[r].stage # "idle" =>
    /\ v \in Versions
    /\ tool[r].key = "commit" =>
         /\ at({"called", "written", "committed", "ok", "error"})
         /\ at({"written", "committed", "ok"}) => Lists(repo.file, v)
         /\ at({"committed"}) => Lists(repo.log[Tip], v)
         /\ at({"ok"}) => sha # 0 /\ Lists(repo.log[sha], v)
    /\ tool[r].key # "commit" => sha # 0 /\ Lists(repo.log[sha], v)
    /\ tool[r].key = "tag" =>
         /\ at({"called", "ok", "error"})
         /\ at({"ok"}) => repo.tags[v] = sha
    /\ tool[r].key = "push" =>
         /\ at({"called", "ok", "error"})
         /\ repo.tags[v] = sha
         /\ at({"ok"}) => OnOrigin(v, sha)
    /\ tool[r].key = "release" =>
         /\ at({"called", "listed", "ok", "error", "unavailable"})
         /\ repo.tags[v] = sha /\ OnOrigin(v, sha)
         /\ at({"called", "listed"}) => relRequest[r].pc = "calling"
         /\ at({"listed"}) => ~Drafted(v)
         /\ at({"ok"}) => Drafted(v)

(* A confirmation works on its chat's plan alone, and at a step it has     *)
(* done those before it.                                                   *)
AtSteps == {"writing", "calling"}

MessageOK(r) ==
  LET q == relRequest[r]
      plan == plans[q.plan]
  IN
  /\ q.pc \in {"confirming", "checking"} \cup AtSteps =>
       q.plan \in 1..Len(plans) /\ plan.chat = q.chat
  /\ q.pc \in {"checking"} \cup AtSteps => RelLocked(r)
  /\ q.pc \in AtSteps =>
       /\ q.at \in 1..5 /\ plan.version \in Versions
       /\ \A i \in 1..4 : i < q.at => plan.steps[STEP_KEYS[i]] = "done"
  /\ q.pc = "calling" =>
       /\ q.at \in 1..4 /\ tool[r].key = STEP_KEYS[q.at] /\ tool[r].stage # "idle"
       /\ plan.steps[tool[r].key] # "done" /\ tool[r].version = plan.version
       /\ tool[r].key # "commit" => tool[r].sha = plan.sha

(* The version that a call wrote into the changelog, or a plan has there.  *)
CallClaims(r, v) ==
  tool[r].key = "commit" /\ tool[r].stage \in {"written", "committed", "ok"} /\ tool[r].version = v
PlanClaims(p, v) == plans[p].steps["commit"] = "done" /\ plans[p].version = v

(* The call's plan has noted the commit and not yet asked for the tag. *)
JustNoted(r, p) ==
  /\ relRequest[r].pc = "writing" /\ relRequest[r].at = 2
  /\ relRequest[r].plan = p /\ plans[p].steps["tag"] # "done"

ClaimsOK ==
  \A v \in Versions :
    /\ \A r, q \in ReleaseRequests : CallClaims(r, v) /\ CallClaims(q, v) => r = q
    /\ \A p, o \in 1..Len(plans) : PlanClaims(p, v) /\ PlanClaims(o, v) => p = o
    /\ \A r \in ReleaseRequests, p \in 1..Len(plans) :
         CallClaims(r, v) /\ PlanClaims(p, v) => JustNoted(r, p)

DraftsAreTagged == \A i \in 1..Len(drafts) : drafts[i].sha # 0

LatestOK == \A c \in ReleaseChats : latest[c] # 0 => plans[latest[c]].chat = c

RelInv ==
  /\ RelTypeOK /\ Len(repo.log) # 0
  /\ LastVersionOK /\ LatestOK /\ ClaimsOK /\ DraftsAreTagged
  /\ \A p \in 1..Len(plans) : PlanOK(p)
  /\ \A r \in ReleaseRequests : ToolOK(r) /\ MessageOK(r)
  /\ TagHasItsSection /\ DraftIsPushed /\ NothingTwice

(* What a message's step may do to its chat's queue, and to the plans.     *)
QueueMoves(r) ==
  \/ UNCHANGED waitline
  \/ \E c \in ReleaseChats : waitline' = [waitline EXCEPT ![c] = Append(@, r)]
  \/ RelLocked(r) /\ Unlocks(r)

PlansKept(r) ==
  /\ Len(plans) <= Len(plans')
  /\ \A p \in 1..Len(plans) :
       /\ plans'[p].chat = plans[p].chat
       /\ plans'[p] = plans[p] \/ (RelLocked(r) /\ plans[p].chat = relRequest[r].chat)

OthersWait(r) ==
  \A q \in ReleaseRequests \ {r} : relRequest'[q] = relRequest[q] /\ tool'[q] = tool[q]

(* A message that leaves the world alone moves only itself, its chat's     *)
(* queue and, while it holds the lock, its chat's plan.                    *)
HandlerMoves(r) ==
  /\ UNCHANGED <<repo, remote, drafts>>
  /\ QueueMoves(r) /\ PlansKept(r) /\ OthersWait(r)

LEMMA HolderStays ==
  ASSUME RelInv, NEW r \in ReleaseRequests, NEW q \in ReleaseRequests \ {r},
         QueueMoves(r), OthersWait(r), RelLocked(q)
  PROVE  RelLocked(q)'
<1>1. /\ waitline \in [ReleaseChats -> Seq(ReleaseRequests)]
      /\ relRequest[q].chat \in ReleaseChats /\ relRequest[r].chat \in ReleaseChats
  BY DEF RelInv, RelTypeOK, ReleaseRequestType
<1>2. relRequest'[q] = relRequest[q]
  BY DEF OthersWait
<1>3. CASE UNCHANGED waitline
  BY <1>2, <1>3 DEF RelLocked
<1>4. ASSUME NEW c \in ReleaseChats, waitline' = [waitline EXCEPT ![c] = Append(@, r)]
      PROVE  RelLocked(q)'
  <2>1. CASE relRequest[q].chat = c
    BY <1>1, <1>2, <1>4, <2>1 DEF RelLocked
  <2>2. CASE relRequest[q].chat # c
    BY <1>1, <1>2, <1>4, <2>2 DEF RelLocked
  <2> QED
    BY <2>1, <2>2
<1>5. CASE RelLocked(r) /\ Unlocks(r)
  BY <1>1, <1>2, <1>5 DEF RelLocked, Unlocks
<1> QED
  BY <1>3, <1>4, <1>5 DEF QueueMoves

(* The plan of another message at work is not touched. *)
LEMMA OtherPlanKept ==
  ASSUME RelInv, NEW r \in ReleaseRequests, NEW q \in ReleaseRequests \ {r}, PlansKept(r),
         relRequest[q].pc \in {"checking"} \cup AtSteps
  PROVE  relRequest[q].plan \in 1..Len(plans) /\ plans'[relRequest[q].plan] = plans[relRequest[q].plan]
<1>1. relRequest[q].plan \in 1..Len(plans) /\ plans[relRequest[q].plan].chat = relRequest[q].chat
      /\ RelLocked(q)
  BY DEF RelInv, MessageOK
<1> QED
  BY <1>1 DEF PlansKept, RelLocked

LEMMA OthersStay ==
  ASSUME RelInv, NEW r \in ReleaseRequests, HandlerMoves(r), NEW q \in ReleaseRequests \ {r}
  PROVE  ToolOK(q)' /\ MessageOK(q)'
<1>1. /\ relRequest'[q] = relRequest[q] /\ tool'[q] = tool[q]
      /\ repo' = repo /\ remote' = remote /\ drafts' = drafts
      /\ ToolOK(q) /\ MessageOK(q)
  BY DEF HandlerMoves, OthersWait, RelInv
<1>2. ToolOK(q)'
  BY <1>1 DEF ToolOK, OnOrigin, Drafted, Tip
<1>3. /\ RelLocked(q) => RelLocked(q)'
      /\ relRequest[q].pc \in {"checking"} \cup AtSteps =>
           relRequest[q].plan \in 1..Len(plans)
           /\ plans'[relRequest[q].plan] = plans[relRequest[q].plan]
  BY HolderStays, OtherPlanKept DEF HandlerMoves
<1>4. relRequest[q].pc \in {"confirming", "checking"} \cup AtSteps =>
        /\ relRequest[q].plan \in 1..Len(plans')
        /\ plans'[relRequest[q].plan].chat = relRequest[q].chat
  BY <1>1 DEF MessageOK, HandlerMoves, PlansKept, RelInv, RelTypeOK
<1>5. MessageOK(q)'
  BY <1>1, <1>3, <1>4 DEF MessageOK, AtSteps
<1> QED
  BY <1>2, <1>5

(* Claims that are only given up, or rest on what the step leaves alone.   *)
LEMMA ClaimsStay ==
  ASSUME RelInv, NEW r \in ReleaseRequests, PlansKept(r), OthersWait(r),
         \A v \in Versions : CallClaims(r, v)' => CallClaims(r, v),
         \A v \in Versions : \A p \in 1..Len(plans') :
           PlanClaims(p, v)' => p \in 1..Len(plans) /\ PlanClaims(p, v),
         \A p \in 1..Len(plans) :
           JustNoted(r, p) => JustNoted(r, p)' \/ \A v \in Versions : ~CallClaims(r, v)'
  PROVE  ClaimsOK'
<1>1. SUFFICES ASSUME NEW v \in Versions
               PROVE  /\ \A s, q \in ReleaseRequests :
                           CallClaims(s, v)' /\ CallClaims(q, v)' => s = q
                      /\ \A p, o \in 1..Len(plans') :
                           PlanClaims(p, v)' /\ PlanClaims(o, v)' => p = o
                      /\ \A q \in ReleaseRequests, p \in 1..Len(plans') :
                           CallClaims(q, v)' /\ PlanClaims(p, v)' => JustNoted(q, p)'
  BY DEF ClaimsOK
<1>2. \A q \in ReleaseRequests : CallClaims(q, v)' => CallClaims(q, v)
  BY DEF OthersWait, CallClaims
<1>3. ASSUME NEW q \in ReleaseRequests, NEW p \in 1..Len(plans'),
             CallClaims(q, v)', PlanClaims(p, v)'
      PROVE  JustNoted(q, p)'
  <2>1. p \in 1..Len(plans) /\ JustNoted(q, p)
    BY <1>2, <1>3 DEF RelInv, ClaimsOK
  <2>2. CASE q = r
    BY <1>3, <2>1, <2>2
  <2>3. CASE q # r
    <3>1. relRequest'[q] = relRequest[q] /\ plans'[p] = plans[p]
      BY <2>1, <2>3, OtherPlanKept DEF OthersWait, JustNoted, AtSteps
    <3> QED
      BY <2>1, <3>1 DEF JustNoted
  <2> QED
    BY <2>2, <2>3
<1> QED
  BY <1>2, <1>3 DEF RelInv, ClaimsOK

LEMMA HandlerKeeps ==
  ASSUME RelInv, NEW r \in ReleaseRequests, HandlerMoves(r),
         RelTypeOK', LatestOK', ClaimsOK', \A p \in 1..Len(plans') : PlanOK(p)',
         ToolOK(r)', MessageOK(r)'
  PROVE  RelInv'
<1>1. UNCHANGED <<repo, remote, drafts>>
  BY DEF HandlerMoves
<1>2. ASSUME NEW q \in ReleaseRequests PROVE (ToolOK(q) /\ MessageOK(q))'
  BY OthersStay
<1>3. /\ Len(repo'.log) # 0 /\ LastVersionOK' /\ DraftsAreTagged'
      /\ TagHasItsSection' /\ DraftIsPushed' /\ NothingTwice'
  BY <1>1 DEF RelInv, LastVersionOK, DraftsAreTagged, Tagged, TagHasItsSection, DraftIsPushed,
              NothingTwice
<1> QED
  BY <1>2, <1>3 DEF RelInv

LEMMA TypesStay ==
  ASSUME RelInv, NEW r \in ReleaseRequests, HandlerMoves(r), UNCHANGED foreign,
         plans' \in Seq(PlanType), latest' \in [ReleaseChats -> 0..Len(plans')],
         relRequest' \in [ReleaseRequests -> ReleaseRequestType],
         tool' \in [ReleaseRequests -> ToolType]
  PROVE  RelTypeOK'
<1>1. /\ repo' = repo /\ remote' = remote /\ drafts' = drafts
      /\ waitline \in [ReleaseChats -> Seq(ReleaseRequests)]
      /\ relRequest[r].chat \in ReleaseChats
  BY DEF HandlerMoves, RelInv, RelTypeOK, ReleaseRequestType
<1>2. waitline' \in [ReleaseChats -> Seq(ReleaseRequests)]
  <2>1. CASE UNCHANGED waitline
    BY <1>1, <2>1
  <2>2. ASSUME NEW c \in ReleaseChats, waitline' = [waitline EXCEPT ![c] = Append(@, r)]
        PROVE  waitline' \in [ReleaseChats -> Seq(ReleaseRequests)]
    BY <1>1, <2>2
  <2>3. CASE RelLocked(r) /\ Unlocks(r)
    <3>1. Tail(waitline[relRequest[r].chat]) \in Seq(ReleaseRequests)
      BY <1>1, <2>3 DEF RelLocked
    <3> QED
      BY <1>1, <2>3, <3>1 DEF Unlocks
  <2> QED
    BY <2>1, <2>2, <2>3 DEF HandlerMoves, QueueMoves
<1> QED
  BY <1>1, <1>2 DEF RelInv, RelTypeOK, PlanType, ToolType, Commits

(* A step that leaves all plans as they are. *)
LEMMA PlansStay ==
  ASSUME RelInv, UNCHANGED <<repo, remote, drafts, plans>>, NEW r \in ReleaseRequests
  PROVE  PlansKept(r) /\ \A p \in 1..Len(plans') : PlanOK(p)'
<1>1. PlansKept(r)
  BY DEF PlansKept, RelInv, RelTypeOK
<1> QED
  BY <1>1 DEF RelInv, PlanOK, OnOrigin, Drafted

(* A message whose tool is left alone, and what it does with its queue.    *)
LEMMA ArrivalKeeps ==
  ASSUME RelInv, NEW r \in ReleaseRequests, NEW c \in ReleaseChats, relRequest[r].pc = "new",
         NEW d \in ReleaseRequestType, relRequest' = [relRequest EXCEPT ![r] = d],
         waitline' = [waitline EXCEPT ![c] = Append(@, r)],
         UNCHANGED <<repo, remote, drafts, plans, latest, tool, foreign>>,
         d.pc = "planning" \/ (d.pc = "confirming" /\ latest[c] # 0 /\ d.plan = latest[c] /\ d.chat = c)
  PROVE  RelInv'
<1>1. relRequest \in [ReleaseRequests -> ReleaseRequestType] /\ latest[c] \in 0..Len(plans)
  BY DEF RelInv, RelTypeOK
<1>2. OthersWait(r) /\ relRequest'[r] = d /\ relRequest' \in [ReleaseRequests -> ReleaseRequestType]
  BY <1>1 DEF OthersWait
<1>3. HandlerMoves(r) /\ \A p \in 1..Len(plans') : PlanOK(p)'
  BY <1>2, PlansStay DEF HandlerMoves, QueueMoves
<1>4. RelTypeOK'
  BY <1>2, <1>3, TypesStay DEF RelInv, RelTypeOK
<1>5. LatestOK' /\ ToolOK(r)'
  BY DEF RelInv, LatestOK, ToolOK, OnOrigin, Drafted, Tip, MessageOK
<1>6. MessageOK(r)'
  BY <1>1, <1>2 DEF RelInv, LatestOK, MessageOK, AtSteps
<1>7. ClaimsOK'
  BY <1>2, <1>3, ClaimsStay DEF HandlerMoves, CallClaims, PlanClaims, JustNoted
<1> QED
  BY <1>3, <1>4, <1>5, <1>6, <1>7, HandlerKeeps

LEMMA ArrivesStep ==
  ASSUME RelInv, NEW r \in ReleaseRequests, NEW c \in ReleaseChats,
         PlanArrives(r, c) \/ \E v \in Versions \cup {NoVersion} : ConfirmArrives(r, c, v)
  PROVE  RelInv'
<1>1. relRequest[r] \in ReleaseRequestType /\ latest[c] \in 0..Len(plans)
      /\ Len(plans) \in Nat /\ relRequest \in [ReleaseRequests -> ReleaseRequestType]
  BY DEF RelInv, RelTypeOK
<1>2. CASE PlanArrives(r, c)
  <2> DEFINE d == [relRequest[r] EXCEPT !.chat = c, !.pc = "planning"]
  <2>1. d \in ReleaseRequestType /\ d.pc = "planning"
    BY <1>1 DEF ReleaseRequestType
  <2>2. relRequest' = [relRequest EXCEPT ![r] = d]
    BY <1>1, <1>2 DEF PlanArrives
  <2> QED
    BY <1>2, <2>1, <2>2, ArrivalKeeps DEF PlanArrives
<1>3. ASSUME NEW v \in Versions \cup {NoVersion}, ConfirmArrives(r, c, v)
      PROVE  RelInv'
  <2> DEFINE d == [relRequest[r] EXCEPT !.chat = c, !.version = v, !.plan = latest[c],
                                        !.pc = "confirming"]
  <2>1. latest[c] \in Nat
    BY <1>1
  <2>2. d \in ReleaseRequestType /\ d.pc = "confirming" /\ d.plan = latest[c] /\ d.chat = c
    BY <1>1, <2>1 DEF ReleaseRequestType
  <2>3. relRequest' = [relRequest EXCEPT ![r] = d]
    BY <1>1, <1>3 DEF ConfirmArrives
  <2> QED
    BY <1>3, <2>2, <2>3, ArrivalKeeps DEF ConfirmArrives
<1> QED
  BY <1>2, <1>3

(* What the invariant says of one message. *)
LEMMA MessageFacts ==
  ASSUME RelInv, NEW r \in ReleaseRequests
  PROVE  /\ relRequest \in [ReleaseRequests -> ReleaseRequestType]
         /\ relRequest[r] \in ReleaseRequestType /\ relRequest[r].chat \in ReleaseChats
         /\ plans \in Seq(PlanType) /\ Len(plans) \in Nat
         /\ latest \in [ReleaseChats -> 0..Len(plans)]
         /\ tool \in [ReleaseRequests -> ToolType]
         /\ MessageOK(r) /\ ToolOK(r)
<1>1. RelTypeOK /\ MessageOK(r) /\ ToolOK(r)
  BY DEF RelInv
<1> QED
  BY <1>1 DEF RelTypeOK, ReleaseRequestType

(* Only a message that calls it has a draft in the making. *)
LEMMA DraftIsAwaited ==
  ASSUME RelInv, NEW r \in ReleaseRequests, relRequest[r].pc # "calling", tool[r].key = "release"
  PROVE  tool[r].stage \notin {"called", "listed"}
BY MessageFacts DEF ToolOK

LEMMA LastVersionFits ==
  ASSUME RelInv PROVE last_version_tag(Tagged(repo.tags)) \in Versions
BY DEF RelInv, LastVersionOK, last_version_tag, Tagged

(* What becomes of a message that ends: it holds nothing and claims        *)
(* nothing of its plan.                                                    *)
LEMMA EndsShape ==
  ASSUME RelInv, NEW r \in ReleaseRequests, RelEnds(r)
  PROVE  /\ relRequest' \in [ReleaseRequests -> ReleaseRequestType]
         /\ \A q \in ReleaseRequests \ {r} : relRequest'[q] = relRequest[q]
         /\ relRequest'[r].pc = "done"
<1>1. relRequest \in [ReleaseRequests -> ReleaseRequestType]
  BY DEF RelInv, RelTypeOK
<1> DEFINE d == [relRequest[r] EXCEPT !.pc = "done"]
<1>2. d \in ReleaseRequestType /\ d.pc = "done" /\ relRequest' = [relRequest EXCEPT ![r] = d]
  BY <1>1 DEF RelEnds, RelGoes, ReleaseRequestType
<1> HIDE DEF d
<1> QED
  BY <1>1, <1>2

(* A message ends that noted nothing new of its tool's call.               *)
LEMMA EndsKeeps ==
  ASSUME RelInv, NEW r \in ReleaseRequests, RelEnds(r), RelLocked(r),
         UNCHANGED <<repo, remote, drafts, tool, foreign>>,
         plans' \in Seq(PlanType), PlansKept(r), latest' \in [ReleaseChats -> 0..Len(plans')],
         LatestOK', \A p \in 1..Len(plans') : PlanOK(p)',
         \A v \in Versions : \A p \in 1..Len(plans') :
           PlanClaims(p, v)' => p \in 1..Len(plans) /\ PlanClaims(p, v),
         relRequest[r].pc = "writing" => relRequest[r].at # 2,
         tool[r].key = "release" => tool[r].stage \notin {"called", "listed"}
  PROVE  RelInv'
<1>1. /\ relRequest' \in [ReleaseRequests -> ReleaseRequestType] /\ relRequest'[r].pc = "done"
      /\ HandlerMoves(r)
  BY EndsShape DEF HandlerMoves, OthersWait, QueueMoves, RelEnds
<1>2. RelTypeOK'
  BY <1>1, TypesStay DEF RelInv, RelTypeOK
<1>3. ToolOK(r)'
  BY <1>1 DEF RelInv, ToolOK, OnOrigin, Drafted, Tip
<1>4. MessageOK(r)'
  BY <1>1 DEF MessageOK, AtSteps
<1>5. ClaimsOK'
  <2>1. \A v \in Versions : CallClaims(r, v)' => CallClaims(r, v)
    BY DEF CallClaims
  <2>2. \A p \in 1..Len(plans) : ~JustNoted(r, p)
    BY DEF JustNoted
  <2> QED
    BY <1>1, <2>1, <2>2, ClaimsStay DEF HandlerMoves
<1> QED
  BY <1>1, <1>2, <1>3, <1>4, <1>5, HandlerKeeps

LEMMA PlansStep == ASSUME RelInv, NEW r \in ReleaseRequests, Plans(r) PROVE RelInv'
<1> DEFINE c == relRequest[r].chat
<1>1. /\ relRequest[r].pc = "planning" /\ RelLocked(r) /\ RelEnds(r)
      /\ UNCHANGED <<repo, remote, drafts, tool, foreign>>
      /\ c \in ReleaseChats /\ plans \in Seq(PlanType) /\ latest \in [ReleaseChats -> 0..Len(plans)]
      /\ tool[r].key = "release" => tool[r].stage \notin {"called", "listed"}
  BY DEF Plans, RelInv, RelTypeOK, ReleaseRequestType, ToolOK
<1>2. CASE UNCHANGED <<plans, latest>>
  BY <1>1, <1>2, PlansStay, EndsKeeps DEF RelInv, LatestOK, PlanClaims
<1>3. ASSUME NEW v \in Versions \cup {NoVersion}, NEW plan,
             plan = [chat |-> c, head |-> Tip, last |-> last_version_tag(Tagged(repo.tags)),
                     version |-> v, sha |-> 0,
                     steps |-> [k \in {"commit", "tag", "push", "release"} |-> "pending"]],
             plans' = Append(plans, plan), latest' = [latest EXCEPT ![c] = Len(plans')]
      PROVE  RelInv'
  <2>1. plan \in PlanType
    <3>1. Tip \in Commits /\ 0 \in Commits
      BY DEF Tip, Commits, RelInv, RelTypeOK
    <3> QED
      BY <1>1, <1>3, <3>1, LastVersionFits DEF PlanType
  <2>2. plan.chat = c /\ \A k \in {"commit", "tag", "push", "release"} : plan.steps[k] # "done"
    BY <1>3
  <2>3. /\ plans' \in Seq(PlanType) /\ Len(plans') = Len(plans) + 1 /\ Len(plans) \in Nat
        /\ plans'[Len(plans) + 1] = plan
        /\ \A p \in 1..Len(plans) : plans'[p] = plans[p]
    BY <1>1, <1>3, <2>1
  <2>4. latest' \in [ReleaseChats -> 0..Len(plans')] /\ LatestOK'
    BY <1>1, <1>3, <2>2, <2>3 DEF RelInv, LatestOK
  <2>5. PlansKept(r)
    BY <2>3 DEF PlansKept
  <2>6. ASSUME NEW p \in 1..Len(plans') PROVE PlanOK(p)'
    <3>1. CASE p \in 1..Len(plans)
      BY <1>1, <2>3, <3>1 DEF RelInv, PlanOK, OnOrigin, Drafted
    <3>2. CASE p = Len(plans) + 1
      BY <2>2, <2>3, <3>2 DEF PlanOK
    <3> QED
      BY <2>3, <3>1, <3>2
  <2>7. \A w \in Versions : \A p \in 1..Len(plans') :
          PlanClaims(p, w)' => p \in 1..Len(plans) /\ PlanClaims(p, w)
    BY <2>2, <2>3 DEF PlanClaims
  <2> QED
    BY <1>1, <2>3, <2>4, <2>5, <2>6, <2>7, EndsKeeps
<1> QED
  <2>1. ASSUME NEW reachable \in BOOLEAN,
               NEW v \in IF version_candidates(last_version_tag(Tagged(repo.tags)), Taken(reachable))
                            \cap Versions = {}
                         THEN {NoVersion}
                         ELSE version_candidates(last_version_tag(Tagged(repo.tags)), Taken(reachable))
                              \cap Versions
        PROVE  v \in Versions \cup {NoVersion}
    BY <2>1
  <2> QED
    BY <1>2, <1>3, <2>1, Zenon DEF Plans

(* The holder of the lock rewrites its plan, whose chat stays.             *)
LEMMA PlanRewritten ==
  ASSUME RelInv, UNCHANGED <<repo, remote, drafts, latest>>, NEW r \in ReleaseRequests,
         RelLocked(r), relRequest[r].plan \in 1..Len(plans),
         plans[relRequest[r].plan].chat = relRequest[r].chat,
         NEW d \in PlanType, d.chat = relRequest[r].chat,
         plans' = [plans EXCEPT ![relRequest[r].plan] = d]
  PROVE  /\ plans' \in Seq(PlanType) /\ Len(plans') = Len(plans)
         /\ plans'[relRequest[r].plan] = d
         /\ \A p \in 1..Len(plans) : p # relRequest[r].plan =>
              plans'[p] = plans[p] /\ PlanOK(p)'
         /\ PlansKept(r) /\ LatestOK' /\ latest' \in [ReleaseChats -> 0..Len(plans')]
<1> DEFINE P == relRequest[r].plan
<1>1. plans \in Seq(PlanType) /\ latest \in [ReleaseChats -> 0..Len(plans)]
  BY DEF RelInv, RelTypeOK
<1>2. /\ plans' \in Seq(PlanType) /\ Len(plans') = Len(plans) /\ plans'[P] = d
      /\ \A p \in 1..Len(plans) : p # P => plans'[p] = plans[p]
  BY <1>1
<1>3. ASSUME NEW p \in 1..Len(plans), p # P PROVE PlanOK(p)'
  BY <1>2, <1>3 DEF RelInv, PlanOK, OnOrigin, Drafted
<1>4. PlansKept(r)
  BY <1>1, <1>2 DEF PlansKept
<1>5. LatestOK' /\ latest' \in [ReleaseChats -> 0..Len(plans')]
  BY <1>1, <1>2, <1>4 DEF RelInv, LatestOK, PlansKept
<1> QED
  BY <1>2, <1>3, <1>4, <1>5

(* The holder of the lock goes on, without its tool. *)
LEMMA GoesOnKeeps ==
  ASSUME RelInv, NEW r \in ReleaseRequests,
         NEW d \in ReleaseRequestType, relRequest' = [relRequest EXCEPT ![r] = d],
         UNCHANGED <<repo, remote, drafts, tool, waitline, foreign>>,
         plans' \in Seq(PlanType), PlansKept(r), latest' \in [ReleaseChats -> 0..Len(plans')],
         LatestOK', \A p \in 1..Len(plans') : PlanOK(p)', MessageOK(r)',
         \A v \in Versions : \A p \in 1..Len(plans') :
           PlanClaims(p, v)' => p \in 1..Len(plans) /\ PlanClaims(p, v),
         \A p \in 1..Len(plans) : ~JustNoted(r, p),
         tool[r].key = "release" => tool[r].stage \notin {"called", "listed"}
  PROVE  RelInv'
<1>1. /\ relRequest' \in [ReleaseRequests -> ReleaseRequestType] /\ HandlerMoves(r)
  BY DEF HandlerMoves, OthersWait, QueueMoves, RelInv, RelTypeOK
<1>2. RelTypeOK'
  BY <1>1, TypesStay DEF RelInv, RelTypeOK
<1>3. ToolOK(r)'
  BY <1>1 DEF RelInv, ToolOK, OnOrigin, Drafted, Tip
<1>4. ClaimsOK'
  <2>1. \A v \in Versions : CallClaims(r, v)' => CallClaims(r, v)
    BY DEF CallClaims
  <2> QED
    BY <1>1, <2>1, ClaimsStay DEF HandlerMoves
<1> QED
  BY <1>1, <1>2, <1>3, <1>4, HandlerKeeps

LEMMA OverridesStep == ASSUME RelInv, NEW r \in ReleaseRequests, AppliesOverrides(r) PROVE RelInv'
<1> DEFINE P == relRequest[r].plan
           v == relRequest[r].version
           d == [plans[P] EXCEPT !.version = v]
           q == [relRequest[r] EXCEPT !.pc = "checking"]
<1>1. /\ relRequest[r].pc = "confirming" /\ RelLocked(r)
      /\ P \in 1..Len(plans) /\ plans[P].chat = relRequest[r].chat /\ plans[P] \in PlanType
      /\ plans \in Seq(PlanType) /\ relRequest \in [ReleaseRequests -> ReleaseRequestType]
      /\ tool[r].key = "release" => tool[r].stage \notin {"called", "listed"}
  <2>1. relRequest[r].pc = "confirming" /\ RelLocked(r)
    BY DEF AppliesOverrides
  <2>2. P \in 1..Len(plans) /\ plans[P].chat = relRequest[r].chat /\ plans[P] \in PlanType
    BY <2>1, MessageFacts DEF MessageOK
  <2> QED
    BY <2>1, <2>2, MessageFacts, DraftIsAwaited
<1>2. /\ q \in ReleaseRequestType /\ q.pc = "checking" /\ q.plan = P
      /\ q.chat = relRequest[r].chat /\ relRequest' = [relRequest EXCEPT ![r] = q]
  BY <1>1 DEF AppliesOverrides, RelGoes, ReleaseRequestType
<1> HIDE DEF q
<1>3. ASSUME PlansKept(r) PROVE MessageOK(r)'
  <2>1. P \in 1..Len(plans') /\ plans'[P].chat = plans[P].chat
    BY <1>1, <1>3 DEF AppliesOverrides, PlansKept, RelInv, RelTypeOK
  <2> QED
    BY <1>1, <1>2, <2>1 DEF AppliesOverrides, MessageOK, AtSteps, RelLocked, RelInv, RelTypeOK
<1>4. CASE v # NoVersion /\ plans[P].steps["commit"] # "done"
  <2>1. /\ d \in PlanType /\ d.chat = relRequest[r].chat /\ d.steps = plans[P].steps
        /\ plans' = [plans EXCEPT ![P] = d]
    <3>1. v \in Versions
      BY <1>1, <1>4 DEF ReleaseRequestType
    <3> QED
      BY <1>1, <1>4, <3>1 DEF AppliesOverrides, PlanType
  <2> HIDE DEF d
  <2>2. UNCHANGED <<repo, remote, drafts, latest>>
    BY DEF AppliesOverrides
  <2>3. /\ plans' \in Seq(PlanType) /\ Len(plans') = Len(plans) /\ plans'[P] = d
        /\ \A p \in 1..Len(plans) : p # P => plans'[p] = plans[p] /\ PlanOK(p)'
        /\ PlansKept(r) /\ LatestOK' /\ latest' \in [ReleaseChats -> 0..Len(plans')]
    BY <1>1, <2>1, <2>2, PlanRewritten
  <2>4. ASSUME NEW p \in 1..Len(plans), p = P PROVE PlanOK(p)'
    <3>1. PlanOK(p)
      BY DEF RelInv
    <3>2. \A k \in {"commit", "tag", "push", "release"} : plans[p].steps[k] # "done"
      BY <1>4, <2>4, <3>1 DEF PlanOK
    <3>3. plans'[p].steps = plans[p].steps
      BY <2>1, <2>3, <2>4
    <3> QED
      BY <3>2, <3>3 DEF PlanOK
  <2>5. \A w \in Versions : \A p \in 1..Len(plans') :
          PlanClaims(p, w)' => p \in 1..Len(plans) /\ PlanClaims(p, w)
    BY <1>4, <2>1, <2>3 DEF PlanClaims
  <2> QED
    BY <1>1, <1>2, <1>3, <2>3, <2>4, <2>5, GoesOnKeeps DEF AppliesOverrides, JustNoted
<1>5. CASE plans' = plans
  <2>1. /\ UNCHANGED <<repo, remote, drafts, plans, latest, tool, waitline, foreign>>
        /\ LatestOK' /\ latest' \in [ReleaseChats -> 0..Len(plans')]
    BY <1>5 DEF AppliesOverrides, RelInv, RelTypeOK, LatestOK
  <2> QED
    BY <1>1, <1>2, <1>3, <2>1, PlansStay, GoesOnKeeps DEF PlanClaims, JustNoted
<1> QED
  BY <1>4, <1>5 DEF AppliesOverrides

LEMMA RevalidatesStep == ASSUME RelInv, NEW r \in ReleaseRequests, Revalidates(r) PROVE RelInv'
<1> DEFINE q == [relRequest[r] EXCEPT !.pc = "writing", !.at = 1]
           plan == plans[relRequest[r].plan]
<1>1. /\ relRequest[r].pc = "checking" /\ RelLocked(r)
      /\ relRequest[r].plan \in 1..Len(plans) /\ plan.chat = relRequest[r].chat
      /\ plan \in PlanType
      /\ plans \in Seq(PlanType) /\ relRequest \in [ReleaseRequests -> ReleaseRequestType]
      /\ tool[r].key = "release" => tool[r].stage \notin {"called", "listed"}
      /\ UNCHANGED <<repo, remote, drafts, plans, latest, tool, foreign>>
      /\ LatestOK' /\ latest' \in [ReleaseChats -> 0..Len(plans')]
  <2>1. /\ relRequest[r].pc = "checking"
        /\ UNCHANGED <<repo, remote, drafts, plans, latest, tool, foreign>>
    BY DEF Revalidates
  <2>2. /\ RelLocked(r) /\ relRequest[r].plan \in 1..Len(plans)
        /\ plan.chat = relRequest[r].chat /\ plan \in PlanType
    BY <2>1, MessageFacts DEF MessageOK
  <2>3. LatestOK' /\ latest' \in [ReleaseChats -> 0..Len(plans')]
    BY <2>1 DEF RelInv, LatestOK, RelTypeOK
  <2> QED
    BY <2>1, <2>2, <2>3, MessageFacts, DraftIsAwaited
<1>2. PlansKept(r) /\ \A p \in 1..Len(plans') : PlanOK(p)'
  BY <1>1, PlansStay
<1>3. CASE RelEnds(r)
  BY <1>1, <1>2, <1>3, EndsKeeps DEF PlanClaims
<1>4. ASSUME NEW reachable \in BOOLEAN, StillFits(plan, reachable),
             relRequest' = [relRequest EXCEPT ![r].pc = "writing", ![r].at = 1], UNCHANGED waitline
      PROVE  RelInv'
  <2>1. /\ q \in ReleaseRequestType /\ q.pc = "writing" /\ q.plan = relRequest[r].plan /\ q.at = 1
        /\ q.chat = relRequest[r].chat /\ relRequest' = [relRequest EXCEPT ![r] = q]
    <3>1. relRequest[r] \in ReleaseRequestType /\ 1 \in 0..5
      BY <1>1
    <3>2. q \in ReleaseRequestType
      BY <3>1 DEF ReleaseRequestType
    <3>3. q.pc = "writing" /\ q.at = 1 /\ q.plan = relRequest[r].plan /\ q.chat = relRequest[r].chat
      BY <3>1 DEF ReleaseRequestType
    <3>4. relRequest' = [relRequest EXCEPT ![r] = q]
      BY <1>1, <1>4
    <3> QED
      BY <3>2, <3>3, <3>4
  <2> HIDE DEF q
  <2>2. plan.version \in Versions
    BY <1>1, <1>4 DEF StillFits, validate_version, PlanType, RelInv, PlanOK
  <2>3. MessageOK(r)'
    BY <1>1, <1>4, <2>1, <2>2 DEF MessageOK, AtSteps, RelLocked, STEP_KEYS
  <2> QED
    BY <1>1, <1>2, <1>4, <2>1, <2>3, GoesOnKeeps DEF PlanClaims, JustNoted
<1> QED
  BY <1>3, <1>4 DEF Revalidates

LEMMA WritesStep == ASSUME RelInv, NEW r \in ReleaseRequests, WritesNext(r) PROVE RelInv'
<1> DEFINE P == relRequest[r].plan
           c == relRequest[r].chat
           at == relRequest[r].at
           k == STEP_KEYS[at]
           plan == plans[P]
<1>1. /\ relRequest[r].pc = "writing" /\ RelLocked(r)
      /\ P \in 1..Len(plans) /\ plan.chat = c /\ plan \in PlanType /\ c \in ReleaseChats
      /\ at \in 1..5 /\ plan.version \in Versions
      /\ \A i \in 1..4 : i < at => plan.steps[STEP_KEYS[i]] = "done"
      /\ PlanOK(P)
      /\ UNCHANGED <<repo, remote, drafts, plans, foreign>>
  <2>1. relRequest[r].pc = "writing" /\ UNCHANGED <<repo, remote, drafts, plans, foreign>>
    BY DEF WritesNext
  <2>2. /\ RelLocked(r) /\ P \in 1..Len(plans) /\ plan.chat = c
        /\ at \in 1..5 /\ plan.version \in Versions
        /\ \A i \in 1..4 : i < at => plan.steps[STEP_KEYS[i]] = "done"
    BY <2>1, MessageFacts DEF MessageOK, AtSteps
  <2> QED
    BY <2>1, <2>2, MessageFacts DEF RelInv
<1>2. PlansKept(r) /\ \A p \in 1..Len(plans') : PlanOK(p)'
  BY <1>1, PlansStay
<1>3. CASE at = 5
  <2>1. /\ RelEnds(r) /\ UNCHANGED tool
        /\ latest' = IF latest[c] = P THEN [latest EXCEPT ![c] = 0] ELSE latest
    BY <1>3 DEF WritesNext, STEP_KEYS
  <2>2. latest' \in [ReleaseChats -> 0..Len(plans')] /\ LatestOK'
    BY <1>1, <2>1, MessageFacts DEF RelInv, LatestOK
  <2> QED
    BY <1>1, <1>2, <1>3, <2>1, <2>2, EndsKeeps, DraftIsAwaited, MessageFacts DEF PlanClaims
<1>4. CASE at # 5
  <2>1. /\ at \in 1..4 /\ k \in {"commit", "tag", "push", "release"}
        /\ UNCHANGED <<latest, waitline>>
        /\ IF plan.steps[k] = "done"
           THEN relRequest' = [relRequest EXCEPT ![r].at = @ + 1] /\ UNCHANGED tool
           ELSE /\ RelGoes(r, "calling")
                /\ tool' = [tool EXCEPT ![r] = [key |-> k, version |-> plan.version,
                                                sha |-> plan.sha, stage |-> "called"]]
    BY <1>1, <1>4 DEF WritesNext, STEP_KEYS
  <2>2. latest' \in [ReleaseChats -> 0..Len(plans')] /\ LatestOK'
    BY <1>1, <2>1, MessageFacts DEF RelInv, LatestOK
  <2>3. CASE plan.steps[k] = "done"
    <3> DEFINE q == [relRequest[r] EXCEPT !.at = @ + 1]
    <3>1. /\ q \in ReleaseRequestType /\ q.pc = "writing" /\ q.plan = P /\ q.chat = c
          /\ q.at = at + 1 /\ relRequest' = [relRequest EXCEPT ![r] = q]
      <4>1. relRequest[r] \in ReleaseRequestType /\ at + 1 \in 0..5
        BY <2>1, MessageFacts
      <4>2. q \in ReleaseRequestType
        BY <4>1 DEF ReleaseRequestType
      <4>3. q.pc = "writing" /\ q.plan = P /\ q.chat = c /\ q.at = at + 1
        BY <1>1, <4>1 DEF ReleaseRequestType
      <4>4. relRequest' = [relRequest EXCEPT ![r] = q]
        BY <2>1, <2>3, MessageFacts
      <4> QED
        BY <4>2, <4>3, <4>4
    <3> HIDE DEF q
    <3>2. relRequest'[r] = q
      BY <3>1, MessageFacts
    <3>3. \A i \in 1..4 : i < at + 1 => plan.steps[STEP_KEYS[i]] = "done"
      BY <1>1, <2>1, <2>3
    <3>4. MessageOK(r)'
      BY <1>1, <2>1, <3>1, <3>2, <3>3 DEF MessageOK, AtSteps, RelLocked
    <3>5. \A p \in 1..Len(plans) : ~JustNoted(r, p)
      BY <2>3 DEF JustNoted, STEP_KEYS
    <3> QED
      BY <1>1, <1>2, <2>1, <2>2, <2>3, <3>1, <3>4, <3>5, GoesOnKeeps, DraftIsAwaited, MessageFacts
      DEF PlanClaims
  <2>4. CASE plan.steps[k] # "done"
    <3> DEFINE q == [relRequest[r] EXCEPT !.pc = "calling"]
               t == [key |-> k, version |-> plan.version, sha |-> plan.sha, stage |-> "called"]
    <3>1. /\ q \in ReleaseRequestType /\ q.pc = "calling" /\ q.plan = P /\ q.chat = c
          /\ q.at = at /\ relRequest' = [relRequest EXCEPT ![r] = q]
      BY <2>1, <2>4, MessageFacts DEF ReleaseRequestType, RelGoes
    <3>2. /\ t \in ToolType /\ t.key = k /\ t.version = plan.version /\ t.sha = plan.sha
          /\ t.stage = "called" /\ tool' = [tool EXCEPT ![r] = t]
      BY <1>1, <2>1, <2>4 DEF ToolType, PlanType
    <3> HIDE DEF q, t
    <3>3. /\ relRequest' \in [ReleaseRequests -> ReleaseRequestType]
          /\ tool' \in [ReleaseRequests -> ToolType]
          /\ relRequest'[r] = q /\ tool'[r] = t
          /\ HandlerMoves(r)
      BY <1>1, <1>2, <2>1, <3>1, <3>2, MessageFacts DEF HandlerMoves, OthersWait, QueueMoves
    <3>4. RelTypeOK'
      BY <1>1, <2>2, <3>3, TypesStay, MessageFacts
    <3>5. MessageOK(r)'
      BY <1>1, <2>1, <2>4, <3>1, <3>2, <3>3 DEF MessageOK, AtSteps, RelLocked
    <3>6. /\ k # "commit" => plan.steps["commit"] = "done"
          /\ k \in {"push", "release"} => plan.steps["tag"] = "done"
          /\ k = "release" => plan.steps["push"] = "done"
      BY <1>1, <2>1 DEF STEP_KEYS
    <3>7. /\ k # "commit" => plan.sha # 0 /\ Lists(repo.log[plan.sha], plan.version)
          /\ k \in {"push", "release"} => repo.tags[plan.version] = plan.sha
          /\ k = "release" => OnOrigin(plan.version, plan.sha)
      BY <1>1, <3>6 DEF PlanOK
    <3>8. ToolOK(r)'
      BY <1>1, <2>1, <3>1, <3>2, <3>3, <3>7 DEF ToolOK, OnOrigin
    <3>9. ClaimsOK'
      <4>1. \A v \in Versions : ~CallClaims(r, v)'
        BY <3>2, <3>3 DEF CallClaims
      <4> QED
        BY <1>1, <3>3, <4>1, ClaimsStay DEF HandlerMoves, PlanClaims
    <3> QED
      BY <1>2, <2>2, <3>3, <3>4, <3>5, <3>8, <3>9, HandlerKeeps
  <2> QED
    BY <2>3, <2>4
<1> QED
  BY <1>3, <1>4

(* A step that is not done is marked as having failed. *)
LEMMA MarkedKeeps ==
  ASSUME RelInv, NEW r \in ReleaseRequests, relRequest[r].pc = "calling", RelEnds(r),
         NEW mark \in {"failed", "unavailable"},
         plans' = [plans EXCEPT ![relRequest[r].plan].steps[tool[r].key] = mark],
         UNCHANGED <<repo, remote, drafts, latest, tool, foreign>>,
         tool[r].key = "release" => tool[r].stage \notin {"called", "listed"}
  PROVE  RelInv'
<1> DEFINE P == relRequest[r].plan
           k == tool[r].key
           d == [plans[P] EXCEPT !.steps[k] = mark]
<1>1. /\ RelLocked(r) /\ P \in 1..Len(plans) /\ plans[P].chat = relRequest[r].chat
      /\ plans[P].steps[k] # "done" /\ plans[P] \in PlanType
      /\ k \in {"commit", "tag", "push", "release"}
  <2>1. /\ RelLocked(r) /\ P \in 1..Len(plans) /\ plans[P].chat = relRequest[r].chat
        /\ plans[P].steps[k] # "done"
    BY MessageFacts DEF MessageOK, AtSteps
  <2> QED
    BY <2>1, MessageFacts DEF ToolType
<1>2. /\ d \in PlanType /\ d.chat = relRequest[r].chat
      /\ d.version = plans[P].version /\ d.sha = plans[P].sha
      /\ \A i \in {"commit", "tag", "push", "release"} :
           d.steps[i] = IF i = k THEN mark ELSE plans[P].steps[i]
      /\ plans' = [plans EXCEPT ![P] = d]
  BY <1>1, MessageFacts DEF PlanType
<1> HIDE DEF d
<1>3. /\ plans' \in Seq(PlanType) /\ Len(plans') = Len(plans) /\ plans'[P] = d
      /\ \A p \in 1..Len(plans) : p # P => plans'[p] = plans[p] /\ PlanOK(p)'
      /\ PlansKept(r) /\ LatestOK' /\ latest' \in [ReleaseChats -> 0..Len(plans')]
  BY <1>1, <1>2, PlanRewritten
<1>4. ASSUME NEW p \in 1..Len(plans), p = P PROVE PlanOK(p)'
  <2>1. PlanOK(p) /\ plans[p].steps[k] # "done"
    BY <1>1, <1>4 DEF RelInv
  <2>2. /\ plans'[p].version = plans[p].version /\ plans'[p].sha = plans[p].sha
        /\ \A i \in {"commit", "tag", "push", "release"} :
             plans'[p].steps[i] = "done" <=> i # k /\ plans[p].steps[i] = "done"
    BY <1>1, <1>2, <1>3, <1>4
  <2> HIDE DEF k
  <2> QED
    BY <1>1, <2>1, <2>2 DEF PlanOK, OnOrigin, Drafted
<1>5. \A w \in Versions : \A p \in 1..Len(plans') :
        PlanClaims(p, w)' => p \in 1..Len(plans) /\ PlanClaims(p, w)
  BY <1>1, <1>2, <1>3 DEF PlanClaims
<1> QED
  BY <1>1, <1>3, <1>4, <1>5, EndsKeeps

(* The step that its tool has done is noted. *)
LEMMA NotesStep ==
  ASSUME RelInv, NEW r \in ReleaseRequests, Receives(r), tool[r].stage = "ok"
  PROVE  RelInv'
<1> DEFINE P == relRequest[r].plan
           k == tool[r].key
           v == tool[r].version
           sha == tool[r].sha
           d == [plans[P] EXCEPT !.steps[k] = "done", !.sha = IF k = "commit" THEN sha ELSE @]
           q == [relRequest[r] EXCEPT !.pc = "writing", !.at = @ + 1]
<1>1. /\ relRequest[r].pc = "calling"
      /\ plans' = [plans EXCEPT ![P].steps[k] = "done", ![P].sha = IF k = "commit" THEN sha ELSE @]
      /\ relRequest' = [relRequest EXCEPT ![r].pc = "writing", ![r].at = @ + 1]
      /\ UNCHANGED <<repo, remote, drafts, latest, tool, waitline, foreign>>
  BY DEF Receives
<1>2. /\ RelLocked(r) /\ P \in 1..Len(plans) /\ plans[P].chat = relRequest[r].chat
      /\ plans[P] \in PlanType /\ plans[P].steps[k] # "done"
      /\ k \in {"commit", "tag", "push", "release"} /\ sha \in Commits
      /\ relRequest[r].at \in 1..4 /\ k = STEP_KEYS[relRequest[r].at]
      /\ v = plans[P].version /\ v \in Versions
      /\ k # "commit" => sha = plans[P].sha
      /\ \A i \in 1..4 : i < relRequest[r].at => plans[P].steps[STEP_KEYS[i]] = "done"
  <2>1. /\ RelLocked(r) /\ P \in 1..Len(plans) /\ plans[P].chat = relRequest[r].chat
        /\ plans[P].steps[k] # "done"
        /\ relRequest[r].at \in 1..4 /\ k = STEP_KEYS[relRequest[r].at]
        /\ v = plans[P].version /\ v \in Versions
        /\ k # "commit" => sha = plans[P].sha
        /\ \A i \in 1..4 : i < relRequest[r].at => plans[P].steps[STEP_KEYS[i]] = "done"
    BY <1>1, MessageFacts DEF MessageOK, AtSteps
  <2> QED
    BY <2>1, MessageFacts DEF ToolType
<1>3. /\ k = "commit" => relRequest[r].at = 1
      /\ k = "tag" => plans[P].steps["commit"] = "done"
      /\ k = "push" => plans[P].steps["tag"] = "done"
      /\ k = "release" => plans[P].steps["push"] = "done"
  BY <1>2 DEF STEP_KEYS
<1>4. /\ d \in PlanType /\ d.chat = relRequest[r].chat /\ d.version = v
      /\ d.sha = IF k = "commit" THEN sha ELSE plans[P].sha
      /\ \A i \in {"commit", "tag", "push", "release"} :
           d.steps[i] = IF i = k THEN "done" ELSE plans[P].steps[i]
      /\ plans' = [plans EXCEPT ![P] = d]
  <2>1. d \in PlanType
    BY <1>2 DEF PlanType
  <2>2. /\ d.chat = relRequest[r].chat /\ d.version = v
        /\ d.sha = IF k = "commit" THEN sha ELSE plans[P].sha
    BY <1>2 DEF PlanType
  <2>3. \A i \in {"commit", "tag", "push", "release"} :
          d.steps[i] = IF i = k THEN "done" ELSE plans[P].steps[i]
    BY <1>2 DEF PlanType
  <2>4. plans' = [plans EXCEPT ![P] = d]
    BY <1>1, <1>2, MessageFacts DEF PlanType
  <2> QED
    BY <2>1, <2>2, <2>3, <2>4
<1>5. /\ q \in ReleaseRequestType /\ q.pc = "writing" /\ q.plan = P
      /\ q.chat = relRequest[r].chat /\ q.at = relRequest[r].at + 1
      /\ relRequest' = [relRequest EXCEPT ![r] = q]
  <2>1. relRequest[r] \in ReleaseRequestType /\ relRequest[r].at + 1 \in 0..5
    BY <1>2, MessageFacts
  <2>2. q \in ReleaseRequestType
    BY <2>1 DEF ReleaseRequestType
  <2>3. q.pc = "writing" /\ q.plan = P /\ q.chat = relRequest[r].chat
        /\ q.at = relRequest[r].at + 1
    BY <2>1 DEF ReleaseRequestType
  <2>4. relRequest' = [relRequest EXCEPT ![r] = q]
    BY <1>1, MessageFacts
  <2> QED
    BY <2>2, <2>3, <2>4
<1> HIDE DEF d, q
<1>6. /\ plans' \in Seq(PlanType) /\ Len(plans') = Len(plans) /\ plans'[P] = d
      /\ \A p \in 1..Len(plans) : p # P => plans'[p] = plans[p] /\ PlanOK(p)'
      /\ PlansKept(r) /\ LatestOK' /\ latest' \in [ReleaseChats -> 0..Len(plans')]
  BY <1>1, <1>2, <1>4, PlanRewritten
<1>7. /\ relRequest' \in [ReleaseRequests -> ReleaseRequestType] /\ relRequest'[r] = q
      /\ HandlerMoves(r)
  BY <1>1, <1>5, <1>6, MessageFacts DEF HandlerMoves, OthersWait, QueueMoves
<1>8. RelTypeOK'
  BY <1>1, <1>6, <1>7, TypesStay, MessageFacts
<1>9. ToolOK(r)'
  BY <1>1, MessageFacts DEF ToolOK, OnOrigin, Drafted, Tip
<1>10. ASSUME NEW p \in 1..Len(plans), p = P PROVE PlanOK(p)'
  <2>1. PlanOK(p) /\ ToolOK(r)
    BY <1>9, MessageFacts DEF RelInv
  <2>2. /\ plans'[p].version = v /\ plans'[p].sha = IF k = "commit" THEN sha ELSE plans[p].sha
        /\ \A i \in {"commit", "tag", "push", "release"} :
             plans'[p].steps[i] = "done" <=> i = k \/ plans[p].steps[i] = "done"
        /\ v = plans[p].version
    BY <1>2, <1>4, <1>6, <1>10
  <2>3. CASE k = "commit"
    <3>1. /\ sha # 0 /\ Lists(repo.file, v) /\ Lists(repo.log[sha], v)
          /\ \A i \in {"commit", "tag", "push", "release"} : plans[p].steps[i] # "done"
      BY <1>2, <1>10, <2>1, <2>3 DEF ToolOK, PlanOK
    <3> QED
      BY <1>1, <1>2, <2>2, <2>3, <3>1 DEF PlanOK
  <2>4. CASE k = "tag"
    <3>1. repo.tags[v] = sha /\ plans[p].steps["commit"] = "done" /\ sha = plans[p].sha
      BY <1>2, <1>3, <1>10, <2>1, <2>4 DEF ToolOK
    <3> QED
      BY <1>1, <2>1, <2>2, <2>4, <3>1 DEF PlanOK, OnOrigin, Drafted
  <2>5. CASE k = "push"
    <3>1. OnOrigin(v, sha) /\ plans[p].steps["tag"] = "done" /\ sha = plans[p].sha
      BY <1>2, <1>3, <1>10, <2>1, <2>5 DEF ToolOK
    <3> QED
      BY <1>1, <2>1, <2>2, <2>5, <3>1 DEF PlanOK, OnOrigin, Drafted
  <2>6. CASE k = "release"
    <3>1. Drafted(v) /\ plans[p].steps["push"] = "done"
      BY <1>2, <1>3, <1>10, <2>1, <2>6 DEF ToolOK
    <3> QED
      BY <1>1, <2>1, <2>2, <2>6, <3>1 DEF PlanOK, OnOrigin, Drafted
  <2> QED
    BY <1>2, <2>3, <2>4, <2>5, <2>6
<1>11. MessageOK(r)'
  <2>1. plans'[P].chat = relRequest[r].chat /\ plans'[P].version \in Versions
    BY <1>2, <1>4, <1>6
  <2>2. \A i \in 1..4 : i < q.at => plans'[P].steps[STEP_KEYS[i]] = "done"
    BY <1>2, <1>4, <1>5, <1>6 DEF STEP_KEYS
  <2>3. /\ relRequest'[r].pc = "writing" /\ relRequest'[r].plan = P
        /\ relRequest'[r].chat = relRequest[r].chat /\ relRequest'[r].at = q.at
        /\ q.at \in 1..5
    BY <1>2, <1>5, <1>7
  <2>4. RelLocked(r)' /\ P \in 1..Len(plans')
    BY <1>1, <1>2, <1>6, <2>3 DEF RelLocked
  <2> HIDE DEF P
  <2> QED
    BY <2>1, <2>2, <2>3, <2>4 DEF MessageOK, AtSteps
<1>12. ClaimsOK'
  <2>1. \A s \in ReleaseRequests, w \in Versions : CallClaims(s, w)' <=> CallClaims(s, w)
    BY <1>1 DEF CallClaims
  <2>2. \A p \in 1..Len(plans) : ~JustNoted(r, p)
    BY <1>1 DEF JustNoted
  <2>3. CASE k # "commit"
    <3>1. \A w \in Versions : \A p \in 1..Len(plans') :
            PlanClaims(p, w)' => p \in 1..Len(plans) /\ PlanClaims(p, w)
      BY <1>2, <1>4, <1>6, <2>3 DEF PlanClaims
    <3> QED
      BY <1>7, <2>1, <2>2, <3>1, ClaimsStay DEF HandlerMoves
  <2>4. CASE k = "commit"
    <3>1. CallClaims(r, v)
      BY <2>4 DEF CallClaims
    <3>2. \A p \in 1..Len(plans), w \in Versions :
            PlanClaims(p, w)' <=> PlanClaims(p, w) \/ (p = P /\ w = v)
      BY <1>2, <1>4, <1>6, <2>4 DEF PlanClaims
    <3>3. \A p \in 1..Len(plans) : ~PlanClaims(p, v)
      BY <1>2, <2>2, <3>1 DEF RelInv, ClaimsOK
    <3>4. ASSUME NEW p \in 1..Len(plans), p = P PROVE JustNoted(r, p)'
      <4>1. plans[p].steps["tag"] # "done"
        BY <1>2, <2>4, <3>4 DEF RelInv, PlanOK
      <4>2. plans'[p].steps["tag"] # "done"
        BY <1>2, <1>4, <1>6, <2>4, <3>4, <4>1
      <4> QED
        BY <1>3, <1>5, <1>7, <2>4, <3>4, <4>2 DEF JustNoted
    <3>5. ASSUME NEW s \in ReleaseRequests, NEW p \in 1..Len(plans), JustNoted(s, p)
          PROVE  JustNoted(s, p)'
      <4>1. s # r
        BY <2>2, <3>5
      <4>2. relRequest'[s] = relRequest[s] /\ plans'[p] = plans[p]
        BY <1>6, <1>7, <3>5, <4>1, OtherPlanKept DEF HandlerMoves, OthersWait, JustNoted, AtSteps
      <4> QED
        BY <3>5, <4>2 DEF JustNoted
    <3>6. SUFFICES ASSUME NEW w \in Versions
                   PROVE  /\ \A s, t \in ReleaseRequests :
                               CallClaims(s, w)' /\ CallClaims(t, w)' => s = t
                          /\ \A p, o \in 1..Len(plans) :
                               PlanClaims(p, w)' /\ PlanClaims(o, w)' => p = o
                          /\ \A s \in ReleaseRequests, p \in 1..Len(plans) :
                               CallClaims(s, w)' /\ PlanClaims(p, w)' => JustNoted(s, p)'
      BY <1>6 DEF ClaimsOK
    <3>7. CASE w # v
      BY <2>1, <3>2, <3>5, <3>7 DEF RelInv, ClaimsOK
    <3>8. CASE w = v
      BY <2>1, <3>1, <3>2, <3>3, <3>4, <3>8 DEF RelInv, ClaimsOK
    <3> QED
      BY <3>7, <3>8
  <2> QED
    BY <2>3, <2>4
<1> QED
  BY <1>6, <1>7, <1>8, <1>9, <1>10, <1>11, <1>12, HandlerKeeps

LEMMA CallsStep ==
  ASSUME RelInv, NEW r \in ReleaseRequests, Receives(r) \/ CallTimesOut(r) \/ PageGone(r)
  PROVE  RelInv'
<1>1. CASE Receives(r)
  <2>1. CASE tool[r].stage = "ok"
    BY <1>1, <2>1, NotesStep
  <2>2. CASE tool[r].stage = "error"
    BY <1>1, <2>2, MarkedKeeps DEF Receives
  <2>3. CASE tool[r].stage = "unavailable"
    BY <1>1, <2>3, MarkedKeeps DEF Receives
  <2> QED
    BY <1>1, <2>1, <2>2, <2>3 DEF Receives, ToolAnswered
<1>2. CASE CallTimesOut(r)
  BY <1>2, MarkedKeeps DEF CallTimesOut
<1>3. CASE PageGone(r)
  <2>1. /\ relRequest[r].pc = "calling" /\ RelEnds(r) /\ RelLocked(r)
        /\ UNCHANGED <<repo, remote, drafts, plans, latest, tool, foreign>>
        /\ tool[r].stage \notin {"called", "listed"}
    BY <1>3, MessageFacts DEF PageGone, ToolAnswered, MessageOK, AtSteps
  <2>2. PlansKept(r) /\ \A p \in 1..Len(plans') : PlanOK(p)'
    BY <2>1, PlansStay
  <2>3. LatestOK' /\ latest' \in [ReleaseChats -> 0..Len(plans')] /\ plans' \in Seq(PlanType)
    BY <2>1, MessageFacts DEF RelInv, LatestOK
  <2> QED
    BY <2>1, <2>2, <2>3, EndsKeeps DEF PlanClaims
<1> QED
  BY <1>1, <1>2, <1>3

(* What the tools make of the world only grows. *)
WorldGrows ==
  /\ Len(repo.log) <= Len(repo'.log)
  /\ \A i \in 1..Len(repo.log) : repo'.log[i] = repo.log[i]
  /\ remote.head <= remote'.head
  /\ \A v \in Versions :
       /\ Lists(repo.file, v) => Lists(repo'.file, v)
       /\ Lists(repo.file, v) /\ Lists(repo.log[Len(repo.log)], v) =>
            Lists(repo'.log[Len(repo'.log)], v)
       /\ repo.tags[v] # 0 => repo'.tags[v] = repo.tags[v]
       /\ remote.tags[v] # 0 => remote'.tags[v] = remote.tags[v]
       /\ Drafted(v) => Drafted(v)'

WorldTypes ==
  /\ repo \in [log : Seq(Seq(Versions)), file : Seq(Versions), tags : [Versions -> Commits]]
  /\ remote \in [head : Commits, tags : [Versions -> Commits]]
  /\ drafts \in Seq([tag : Versions, sha : Commits])
  /\ foreign \in 0..MaxForeign

WorldOK ==
  /\ WorldTypes /\ Len(repo.log) # 0 /\ LastVersionOK /\ DraftsAreTagged
  /\ TagHasItsSection /\ DraftIsPushed /\ NothingTwice

(* No draft appeared where one is about to be posted. *)
NoneDrafted(q) ==
  tool[q].key = "release" /\ tool[q].stage = "listed" =>
    \A i \in 1..Len(drafts') : drafts'[i].tag # tool[q].version

LEMMA CommitsGrow ==
  ASSUME RelInv, WorldGrows, WorldTypes'
  PROVE  Commits \subseteq Commits' /\ PlanType \subseteq PlanType' /\ ToolType \subseteq ToolType'
<1>1. Len(repo.log) \in Nat /\ Len(repo'.log) \in Nat /\ Len(repo.log) <= Len(repo'.log)
  BY DEF WorldGrows, WorldTypes, RelInv, RelTypeOK
<1>2. Commits \subseteq Commits'
  BY <1>1 DEF Commits
<1> QED
  BY <1>2 DEF PlanType, ToolType

LEMMA PlanSpared ==
  ASSUME RelInv, WorldGrows, WorldTypes', UNCHANGED plans, NEW p \in 1..Len(plans)
  PROVE  PlanOK(p)'
<1>1. PlanOK(p) /\ plans[p] \in PlanType /\ plans'[p] = plans[p]
      /\ remote.head \in Nat /\ remote'.head \in Nat /\ remote.head <= remote'.head
  BY DEF RelInv, RelTypeOK, WorldGrows, WorldTypes, Commits
<1> DEFINE v == plans[p].version
           sha == plans[p].sha
           done(k) == plans[p].steps[k] = "done"
<1>2. sha \in 0..Len(repo.log)
  BY <1>1 DEF PlanType, Commits
<1>3. done("commit") => v \in Versions /\ Lists(repo'.file, v) /\ sha # 0 /\ Lists(repo'.log[sha], v)
  BY <1>1, <1>2 DEF PlanOK, WorldGrows
<1>4. done("tag") => done("commit") /\ repo'.tags[v] = sha
  BY <1>1, <1>3 DEF PlanOK, WorldGrows
<1>5. done("push") => done("tag") /\ remote'.tags[v] = sha /\ sha <= remote'.head
  <2>1. done("push") => done("tag") /\ remote.tags[v] = sha /\ sha <= remote.head
    BY <1>1 DEF PlanOK, OnOrigin
  <2>2. done("push") => remote'.tags[v] = sha
    BY <1>3, <1>4, <2>1 DEF WorldGrows
  <2>3. done("push") => sha <= remote'.head
    BY <1>1, <1>2, <2>1
  <2> QED
    BY <2>1, <2>2, <2>3
<1>6. done("release") => done("push") /\ Drafted(v)'
  BY <1>1, <1>3, <1>4, <1>5 DEF PlanOK, WorldGrows
<1> QED
  BY <1>1, <1>3, <1>4, <1>5, <1>6 DEF PlanOK, OnOrigin

LEMMA ToolSpared ==
  ASSUME RelInv, WorldGrows, WorldTypes', NEW q \in ReleaseRequests,
         tool'[q] = tool[q], relRequest'[q] = relRequest[q], NoneDrafted(q)
  PROVE  ToolOK(q)'
<1> DEFINE v == tool[q].version
           sha == tool[q].sha
           at(S) == tool[q].stage \in S
           key == tool[q].key
<1>1. /\ ToolOK(q) /\ sha \in 0..Len(repo.log) /\ Tip = Len(repo.log) /\ Tip' = Len(repo'.log)
      /\ remote.head \in Nat /\ remote'.head \in Nat /\ remote.head <= remote'.head
      /\ key \in {"commit", "tag", "push", "release"}
  <2>1. ToolOK(q) /\ sha \in 0..Len(repo.log) /\ key \in {"commit", "tag", "push", "release"}
    BY MessageFacts DEF ToolType, Commits
  <2>2. remote.head \in Nat /\ remote'.head \in Nat /\ remote.head <= remote'.head
    BY DEF RelInv, RelTypeOK, WorldGrows, WorldTypes, Commits
  <2> QED
    BY <2>1, <2>2 DEF Tip
<1>2. CASE tool[q].stage = "idle"
  BY <1>2 DEF ToolOK
<1>3. CASE tool[q].stage # "idle"
  <2>1. v \in Versions
    BY <1>1, <1>3 DEF ToolOK
  <2>2. CASE key = "commit"
    <3>1. /\ at({"called", "written", "committed", "ok", "error"})
          /\ at({"written", "committed", "ok"}) => Lists(repo'.file, v)
          /\ at({"committed"}) => Lists(repo'.log[Len(repo'.log)], v)
          /\ at({"ok"}) => sha # 0 /\ Lists(repo'.log[sha], v)
      BY <1>1, <1>3, <2>1, <2>2 DEF ToolOK, WorldGrows
    <3> QED
      BY <1>1, <2>1, <2>2, <3>1 DEF ToolOK
  <2>3. CASE key # "commit"
    <3>1. sha # 0 /\ Lists(repo.log[sha], v)
      BY <1>1, <1>3, <2>3 DEF ToolOK
    <3>2. Lists(repo'.log[sha], v)
      BY <1>1, <3>1 DEF WorldGrows
    <3>3. /\ repo.tags[v] = sha => repo'.tags[v] = sha
          /\ OnOrigin(v, sha) => OnOrigin(v, sha)'
      BY <1>1, <2>1, <3>1 DEF WorldGrows, OnOrigin
    <3>4. /\ key = "release" /\ at({"listed"}) => ~Drafted(v)'
          /\ Drafted(v) => Drafted(v)'
      BY <2>1 DEF NoneDrafted, WorldGrows, Drafted
    <3>5. CASE key = "tag"
      <4>1. at({"called", "ok", "error"}) /\ (at({"ok"}) => repo.tags[v] = sha)
        BY <1>1, <1>3, <3>5 DEF ToolOK
      <4> QED
        BY <2>1, <3>1, <3>2, <3>3, <3>5, <4>1 DEF ToolOK
    <3>6. CASE key = "push"
      <4>1. /\ at({"called", "ok", "error"}) /\ repo.tags[v] = sha
            /\ at({"ok"}) => OnOrigin(v, sha)
        BY <1>1, <1>3, <3>6 DEF ToolOK
      <4> QED
        BY <2>1, <3>1, <3>2, <3>3, <3>6, <4>1 DEF ToolOK
    <3>7. CASE key = "release"
      <4>1. /\ at({"called", "listed", "ok", "error", "unavailable"})
            /\ repo.tags[v] = sha /\ OnOrigin(v, sha)
            /\ at({"called", "listed"}) => relRequest[q].pc = "calling"
            /\ at({"ok"}) => Drafted(v)
        BY <1>1, <1>3, <3>7 DEF ToolOK
      <4> QED
        BY <2>1, <3>1, <3>2, <3>3, <3>4, <3>7, <4>1 DEF ToolOK
    <3> QED
      BY <1>1, <2>3, <3>5, <3>6, <3>7
  <2> QED
    BY <2>2, <2>3
<1> QED
  BY <1>2, <1>3

(* A step of the world, and perhaps of one tool. *)
LEMMA WorldMoves ==
  ASSUME RelInv, WorldGrows, WorldOK', UNCHANGED <<plans, latest, waitline, relRequest>>,
         (tool \in [ReleaseRequests -> ToolType])',
         \A q \in ReleaseRequests : ToolOK(q)' /\ MessageOK(q)', ClaimsOK'
  PROVE  RelInv'
<1>1. RelTypeOK'
  <2>1. plans' \in Seq(PlanType)'
    BY CommitsGrow DEF RelInv, RelTypeOK, WorldOK
  <2> QED
    BY <2>1 DEF RelTypeOK, WorldOK, WorldTypes, RelInv
<1>2. LatestOK' /\ \A p \in 1..Len(plans') : PlanOK(p)'
  BY PlanSpared DEF RelInv, LatestOK, WorldOK
<1> QED
  BY <1>1, <1>2 DEF RelInv, WorldOK

(* A tool goes on with its call. *)
LEMMA ToolMoves ==
  ASSUME RelInv, WorldGrows, WorldOK', UNCHANGED <<plans, latest, waitline, relRequest>>,
         NEW r \in ReleaseRequests, tool[r].stage # "idle",
         NEW d, (d \in ToolType)', tool' = [tool EXCEPT ![r] = d],
         d.key = tool[r].key, d.version = tool[r].version, d.stage # "idle",
         d.key # "commit" => d.sha = tool[r].sha,
         \A q \in ReleaseRequests \ {r} : NoneDrafted(q),
         ToolOK(r)',
         \A v \in Versions : CallClaims(r, v)' => CallClaims(r, v) \/ ~Lists(repo.file, v)
  PROVE  RelInv'
<1>1. /\ tool \in [ReleaseRequests -> ToolType] /\ tool'[r] = d
      /\ \A q \in ReleaseRequests \ {r} : tool'[q] = tool[q]
  BY MessageFacts
<1>2. (tool \in [ReleaseRequests -> ToolType])'
  BY <1>1, CommitsGrow DEF WorldOK
<1>3. ASSUME NEW q \in ReleaseRequests PROVE (ToolOK(q) /\ MessageOK(q))'
  <2>1. ToolOK(q)'
    BY <1>1, ToolSpared DEF WorldOK
  <2>2. MessageOK(q) /\ tool'[q].key = tool[q].key /\ tool'[q].version = tool[q].version
    BY <1>1, MessageFacts
  <2>3. /\ tool'[q].stage = "idle" <=> tool[q].stage = "idle"
        /\ tool[q].key # "commit" => tool'[q].sha = tool[q].sha
    BY <1>1
  <2>4. MessageOK(q)'
    BY <2>2, <2>3 DEF MessageOK, RelLocked
  <2> QED
    BY <2>1, <2>4
<1>4. ClaimsOK'
  <2>1. SUFFICES ASSUME NEW v \in Versions
                 PROVE  /\ \A s, t \in ReleaseRequests :
                             CallClaims(s, v)' /\ CallClaims(t, v)' => s = t
                        /\ \A p, o \in 1..Len(plans) :
                             PlanClaims(p, v) /\ PlanClaims(o, v) => p = o
                        /\ \A s \in ReleaseRequests, p \in 1..Len(plans) :
                             CallClaims(s, v)' /\ PlanClaims(p, v) => JustNoted(s, p)
    BY DEF ClaimsOK, PlanClaims, JustNoted
  <2>2. \A q \in ReleaseRequests \ {r} : CallClaims(q, v)' => CallClaims(q, v)
    BY <1>1 DEF CallClaims
  <2>3. CASE CallClaims(r, v) \/ ~CallClaims(r, v)'
    BY <2>2, <2>3 DEF RelInv, ClaimsOK
  <2>4. CASE ~Lists(repo.file, v)
    <3>1. \A q \in ReleaseRequests : ~CallClaims(q, v)
      BY <2>4, MessageFacts DEF ToolOK, CallClaims
    <3>2. \A p \in 1..Len(plans) : ~PlanClaims(p, v)
      BY <2>4 DEF RelInv, PlanOK, PlanClaims
    <3> QED
      BY <2>2, <3>1, <3>2
  <2> QED
    BY <2>3, <2>4
<1> QED
  BY <1>2, <1>3, <1>4, WorldMoves

(* A step that leaves the world alone. *)
LEMMA QuietWorld ==
  ASSUME RelInv, UNCHANGED <<repo, remote, drafts, foreign>>
  PROVE  WorldGrows /\ WorldOK'
<1>1. Len(repo.log) \in Nat /\ remote.head \in Nat
  BY DEF RelInv, RelTypeOK, Commits
<1>2. WorldGrows
  BY <1>1 DEF WorldGrows, Drafted
<1>3. WorldOK
  BY DEF WorldOK, WorldTypes, RelInv, RelTypeOK
<1>4. WorldOK'
  BY <1>3 DEF WorldOK, WorldTypes, Commits, LastVersionOK, Tagged, DraftsAreTagged,
              TagHasItsSection, DraftIsPushed, NothingTwice
<1> QED
  BY <1>2, <1>4

LEMMA NoneIsDrafted ==
  ASSUME RelInv, UNCHANGED drafts, NEW q \in ReleaseRequests PROVE NoneDrafted(q)
BY MessageFacts DEF NoneDrafted, ToolOK, Drafted

(* A tool only comes to another stage. *)
LEMMA ReachesKeeps ==
  ASSUME RelInv, WorldGrows, WorldOK', UNCHANGED <<plans, latest, waitline, relRequest>>,
         NEW r \in ReleaseRequests, tool[r].stage # "idle",
         NEW stage \in {"written", "committed", "listed", "ok", "error", "unavailable"},
         Reaches(r, stage),
         \A q \in ReleaseRequests \ {r} : NoneDrafted(q),
         ASSUME tool'[r] = [tool[r] EXCEPT !.stage = stage] PROVE ToolOK(r)',
         \A v \in Versions : CallClaims(r, v)' => CallClaims(r, v) \/ ~Lists(repo.file, v)
  PROVE  RelInv'
<1> DEFINE d == [tool[r] EXCEPT !.stage = stage]
<1>1. tool[r] \in ToolType /\ tool \in [ReleaseRequests -> ToolType]
  BY MessageFacts
<1>2. /\ d \in ToolType /\ d.key = tool[r].key /\ d.version = tool[r].version
      /\ d.sha = tool[r].sha /\ d.stage = stage
  BY <1>1 DEF ToolType
<1>3. tool' = [tool EXCEPT ![r] = d] /\ tool'[r] = d
  BY <1>1 DEF Reaches
<1>4. ToolOK(r)'
  BY <1>3
<1>5. ToolType \subseteq ToolType'
  BY CommitsGrow DEF WorldOK
<1> HIDE DEF d
<1> QED
  BY <1>2, <1>3, <1>4, <1>5, ToolMoves

(* A tool reaches a stage where nothing is new, and the world is as it was.*)
LEMMA QuietReach ==
  ASSUME RelInv, UNCHANGED <<repo, remote, drafts, foreign, plans, latest, waitline, relRequest>>,
         NEW r \in ReleaseRequests, tool[r].stage # "idle",
         NEW stage \in {"written", "committed", "listed", "ok", "error", "unavailable"},
         Reaches(r, stage),
         ASSUME tool'[r] = [tool[r] EXCEPT !.stage = stage] PROVE ToolOK(r)',
         stage \notin {"written", "committed", "ok"} \/ tool[r].key # "commit"
  PROVE  RelInv'
<1>1. WorldGrows /\ WorldOK' /\ \A q \in ReleaseRequests : NoneDrafted(q)
  BY QuietWorld, NoneIsDrafted
<1>2. \A v \in Versions : CallClaims(r, v)' => CallClaims(r, v)
  BY MessageFacts DEF Reaches, CallClaims, ToolType
<1> QED
  BY <1>1, <1>2, ReachesKeeps

(* Every tool may fail. *)
LEMMA ToolFails ==
  ASSUME RelInv, UNCHANGED <<repo, remote, drafts, foreign, plans, latest, waitline, relRequest>>,
         NEW r \in ReleaseRequests, tool[r].stage # "idle",
         NEW stage \in {"error", "unavailable"}, stage = "unavailable" => tool[r].key = "release",
         Reaches(r, stage)
  PROVE  RelInv'
<1>1. ASSUME tool'[r] = [tool[r] EXCEPT !.stage = stage] PROVE ToolOK(r)'
  <2>1. tool[r] \in ToolType /\ ToolOK(r)
    BY MessageFacts
  <2>2. /\ tool'[r].key = tool[r].key /\ tool'[r].version = tool[r].version
        /\ tool'[r].sha = tool[r].sha /\ tool'[r].stage = stage
    BY <1>1, <2>1 DEF ToolType
  <2> QED
    BY <2>1, <2>2 DEF ToolOK, OnOrigin
<1> QED
  BY <1>1, QuietReach

LEMMA ToolRefusesStep == ASSUME RelInv, NEW r \in ReleaseRequests, ToolRefuses(r) PROVE RelInv'
<1>1. PICK stage \in {"error"} \cup (IF tool[r].key = "release" THEN {"unavailable"} ELSE {}) :
        Reaches(r, stage)
  BY DEF ToolRefuses
<1> QED
  BY <1>1, ToolFails DEF ToolRefuses

LEMMA ToolListsStep == ASSUME RelInv, NEW r \in ReleaseRequests, ToolLists(r) PROVE RelInv'
<1> DEFINE stage == IF Drafted(tool[r].version) THEN "ok" ELSE "listed"
<1>1. /\ tool[r].key = "release" /\ tool[r].stage = "called" /\ Reaches(r, stage)
      /\ UNCHANGED <<repo, remote, drafts, foreign, plans, latest, waitline, relRequest>>
  BY DEF ToolLists, Serves, Drafted
<1>2. ASSUME tool'[r] = [tool[r] EXCEPT !.stage = stage] PROVE ToolOK(r)'
  <2>1. tool[r] \in ToolType /\ ToolOK(r)
    BY MessageFacts
  <2>2. /\ tool'[r].key = "release" /\ tool'[r].version = tool[r].version
        /\ tool'[r].sha = tool[r].sha /\ tool'[r].stage = stage
    BY <1>1, <1>2, <2>1 DEF ToolType
  <2> QED
    BY <1>1, <2>1, <2>2 DEF ToolOK, OnOrigin, Drafted
<1> QED
  BY <1>1, <1>2, QuietReach

LEMMA ToolReadsHeadStep == ASSUME RelInv, NEW r \in ReleaseRequests, ToolReadsHead(r) PROVE RelInv'
<1> DEFINE d == [tool[r] EXCEPT !.stage = "ok", !.sha = Tip]
<1>1. /\ tool[r].key = "commit" /\ tool[r].stage = "committed"
      /\ UNCHANGED <<repo, remote, drafts, foreign, plans, latest, waitline, relRequest>>
  BY DEF ToolReadsHead, Serves
<1>2. tool[r] \in ToolType /\ tool \in [ReleaseRequests -> ToolType] /\ Tip \in Commits /\ Tip # 0
      /\ ToolOK(r)
  BY MessageFacts DEF RelInv, RelTypeOK, Tip, Commits
<1>3. d \in ToolType /\ d.key = "commit" /\ d.version = tool[r].version /\ d.sha = Tip
      /\ d.stage = "ok" /\ tool' = [tool EXCEPT ![r] = d] /\ tool'[r] = d
  BY <1>1, <1>2 DEF ToolType, ToolReadsHead
<1> HIDE DEF d
<1>4. d \in ToolType'
  BY <1>1, <1>3 DEF ToolType, Commits
<1>5. ToolOK(r)'
  BY <1>1, <1>2, <1>3 DEF ToolOK
<1>6. WorldGrows /\ WorldOK' /\ \A q \in ReleaseRequests : NoneDrafted(q)
  BY <1>1, QuietWorld, NoneIsDrafted
<1>7. \A v \in Versions : CallClaims(r, v)' => CallClaims(r, v)
  BY <1>1, <1>3 DEF CallClaims
<1>8. ASSUME NEW t, t = d PROVE RelInv'
  <2>1. t \in ToolType' /\ tool' = [tool EXCEPT ![r] = t]
    BY <1>3, <1>4, <1>8
  <2> QED
    BY <1>1, <1>3, <1>5, <1>6, <1>7, <1>8, <2>1, ToolMoves
<1> QED
  BY <1>8

LEMMA ElementFits == ASSUME NEW A, NEW s \in Seq(A), NEW i \in 1..Len(s) PROVE s[i] \in A
OBVIOUS

LEMMA SeqGrows == ASSUME NEW A, NEW B, A \subseteq B, NEW s \in Seq(A) PROVE s \in Seq(B)
OBVIOUS

(* The working copy changes: what else the world says stays so. *)
LEMMA RepoGrows ==
  ASSUME RelInv, UNCHANGED <<remote, drafts>>, foreign' \in 0..MaxForeign,
         (repo \in [log : Seq(Seq(Versions)), file : Seq(Versions), tags : [Versions -> Commits]])',
         Len(repo.log) <= Len(repo'.log),
         \A i \in 1..Len(repo.log) : repo'.log[i] = repo.log[i],
         \A v \in Versions :
           /\ Lists(repo.file, v) => Lists(repo'.file, v)
           /\ Lists(repo.file, v) /\ Lists(repo.log[Len(repo.log)], v) =>
                Lists(repo'.log[Len(repo'.log)], v)
           /\ repo.tags[v] # 0 => repo'.tags[v] = repo.tags[v]
           /\ repo'.tags[v] # repo.tags[v] => Lists(repo'.log[repo'.tags[v]], v),
         \A i, j \in 1..Len(repo'.file) : repo'.file[i] = repo'.file[j] => i = j,
         LastVersionOK'
  PROVE  WorldGrows /\ WorldOK'
<1>1. /\ Len(repo.log) \in Nat /\ Len(repo.log) # 0 /\ remote.head \in Nat
      /\ repo.tags \in [Versions -> Commits]
      /\ remote \in [head : Commits, tags : [Versions -> Commits]]
      /\ drafts \in Seq([tag : Versions, sha : Commits])
  BY DEF RelInv, RelTypeOK, Commits
<1>2. Len(repo'.log) \in Nat /\ Commits \subseteq Commits'
  BY <1>1 DEF Commits
<1>3. WorldGrows
  BY <1>1 DEF WorldGrows, Drafted
<1>4. WorldTypes'
  <2>1. remote' \in [head : Commits', tags : [Versions -> Commits']]
    BY <1>1, <1>2
  <2>2. drafts' \in Seq([tag : Versions, sha : Commits'])
    <3> DEFINE A == [tag : Versions, sha : Commits]
               B == [tag : Versions, sha : Commits']
    <3>1. A \subseteq B /\ drafts \in Seq(A) /\ drafts' = drafts
      BY <1>1, <1>2
    <3> HIDE DEF A, B
    <3>2. drafts' \in Seq(B)
      BY <3>1, SeqGrows
    <3> QED
      BY <3>2 DEF B
  <2> QED
    BY <2>1, <2>2 DEF WorldTypes
<1>5. TagHasItsSection'
  <2>1. ASSUME NEW v \in Versions, repo'.tags[v] # 0 PROVE Lists(repo'.log[repo'.tags[v]], v)
    <3>1. CASE repo'.tags[v] # repo.tags[v]
      BY <3>1
    <3>2. CASE repo'.tags[v] = repo.tags[v]
      <4>1. repo.tags[v] \in 1..Len(repo.log)
        BY <1>1, <2>1, <3>2 DEF Commits
      <4>2. TagHasItsSection /\ repo.tags[v] # 0
        BY <2>1, <3>2 DEF RelInv
      <4>3. Lists(repo.log[repo.tags[v]], v)
        BY <4>2 DEF TagHasItsSection, Lists
      <4> QED
        BY <3>2, <4>1, <4>3
    <3> QED
      BY <3>1, <3>2
  <2> QED
    BY <2>1 DEF TagHasItsSection, Lists
<1>6. DraftsAreTagged' /\ DraftIsPushed' /\ NothingTwice' /\ Len(repo'.log) # 0
  <2>1. DraftsAreTagged' /\ DraftIsPushed'
    BY DEF RelInv, DraftsAreTagged, DraftIsPushed
  <2>2. NothingTwice'
    BY DEF RelInv, NothingTwice
  <2> QED
    BY <1>1, <1>2, <2>1, <2>2
<1> QED
  BY <1>3, <1>4, <1>5, <1>6 DEF WorldOK

LEMMA ToolWritesFileStep == ASSUME RelInv, NEW r \in ReleaseRequests, ToolWritesFile(r) PROVE RelInv'
<1> DEFINE v == tool[r].version
           file == <<v>> \o repo.file
<1>1. /\ tool[r].key = "commit" /\ tool[r].stage = "called"
      /\ UNCHANGED <<remote, drafts, foreign, plans, latest, waitline, relRequest>>
  BY DEF ToolWritesFile, Serves
<1>2. /\ tool[r] \in ToolType /\ ToolOK(r) /\ v \in Versions
      /\ repo \in [log : Seq(Seq(Versions)), file : Seq(Versions), tags : [Versions -> Commits]]
      /\ foreign \in 0..MaxForeign
  BY <1>1, MessageFacts DEF ToolOK, RelInv, RelTypeOK
<1>3. CASE Lists(repo.file, v)
  BY <1>1, <1>3, ToolFails DEF ToolWritesFile, Lists
<1>4. CASE ~Lists(repo.file, v)
  <2>1. repo' = [repo EXCEPT !.file = file] /\ Reaches(r, "written")
    BY <1>4 DEF ToolWritesFile, Lists
  <2>2. /\ repo'.log = repo.log /\ repo'.tags = repo.tags /\ repo'.file = file
        /\ repo' \in [log : Seq(Seq(Versions)), file : Seq(Versions), tags : [Versions -> Commits]]
        /\ Len(repo.log) \in Nat
    <3>1. file \in Seq(Versions)
      BY <1>2
    <3> HIDE DEF file
    <3> QED
      BY <1>2, <2>1, <3>1
  <2>3. /\ Len(file) = Len(repo.file) + 1 /\ Len(repo.file) \in Nat /\ file[1] = v
        /\ \A i \in 1..Len(repo.file) : file[i + 1] = repo.file[i]
        /\ \A i \in 2..Len(file) : i - 1 \in 1..Len(repo.file) /\ file[i] = repo.file[i - 1]
    BY <1>2
  <2> HIDE DEF file
  <2>4. \A w \in Versions : Lists(file, w) <=> w = v \/ Lists(repo.file, w)
    <3>1. ASSUME NEW w \in Versions, Lists(repo.file, w) PROVE Lists(file, w)
      <4>1. PICK i \in 1..Len(repo.file) : repo.file[i] = w
        BY <3>1 DEF Lists
      <4>2. i + 1 \in 1..Len(file) /\ file[i + 1] = w
        BY <2>3, <4>1
      <4> QED
        BY <4>2 DEF Lists
    <3>2. ASSUME NEW w \in Versions, Lists(file, w) PROVE w = v \/ Lists(repo.file, w)
      <4>1. PICK i \in 1..Len(file) : file[i] = w
        BY <3>2 DEF Lists
      <4>2. CASE i = 1
        BY <2>3, <4>1, <4>2
      <4>3. CASE i # 1
        <5>1. i \in 2..Len(file)
          BY <2>3, <4>3
        <5> QED
          BY <2>3, <4>1, <5>1 DEF Lists
      <4> QED
        BY <4>2, <4>3
    <3>3. Lists(file, v)
      <4>1. 1 \in 1..Len(file)
        BY <2>3
      <4> QED
        BY <2>3, <4>1 DEF Lists
    <3> QED
      BY <3>1, <3>2, <3>3
  <2>5. \A i, j \in 1..Len(file) : file[i] = file[j] => i = j
    <3> SUFFICES ASSUME NEW i \in 1..Len(file), NEW j \in 1..Len(file), file[i] = file[j]
                 PROVE  i = j
      OBVIOUS
    <3>1. \A a, b \in 1..Len(repo.file) : repo.file[a] = repo.file[b] => a = b
      BY DEF RelInv, NothingTwice
    <3>2. \A a \in 1..Len(repo.file) : repo.file[a] # v
      BY <1>4 DEF Lists
    <3>3. CASE i = 1 \/ j = 1
      <4>1. i # 1 => i \in 2..Len(file)
        BY <2>3
      <4>2. j # 1 => j \in 2..Len(file)
        BY <2>3
      <4> QED
        BY <2>3, <3>2, <3>3, <4>1, <4>2
    <3>4. CASE i # 1 /\ j # 1
      <4>1. i \in 2..Len(file) /\ j \in 2..Len(file)
        BY <2>3, <3>4
      <4>2. /\ i - 1 \in 1..Len(repo.file) /\ file[i] = repo.file[i - 1]
            /\ j - 1 \in 1..Len(repo.file) /\ file[j] = repo.file[j - 1]
        BY <2>3, <4>1
      <4>3. i - 1 = j - 1
        BY <3>1, <4>2
      <4> QED
        BY <4>1, <4>3
    <3> QED
      BY <3>3, <3>4
  <2>6. WorldGrows /\ WorldOK'
    <3>1. (repo \in [log : Seq(Seq(Versions)), file : Seq(Versions), tags : [Versions -> Commits]])'
      BY <2>2 DEF Commits
    <3>2. LastVersionOK'
      BY <2>2 DEF RelInv, LastVersionOK, Tagged
    <3>3. foreign' \in 0..MaxForeign
      BY <1>1, <1>2
    <3>4. \A w \in Versions : Lists(repo.file, w) => Lists(repo'.file, w)
      BY <2>2, <2>4
    <3> QED
      BY <1>1, <2>2, <2>5, <3>1, <3>2, <3>3, <3>4, RepoGrows
  <2>7. ASSUME tool'[r] = [tool[r] EXCEPT !.stage = "written"] PROVE ToolOK(r)'
    <3>1. /\ tool'[r].key = "commit" /\ tool'[r].version = v /\ tool'[r].stage = "written"
      BY <1>1, <1>2, <2>7 DEF ToolType
    <3>2. Lists(repo'.file, v)
      BY <1>2, <2>2, <2>4
    <3> QED
      BY <1>2, <3>1, <3>2 DEF ToolOK
  <2>8. \A w \in Versions : CallClaims(r, w)' => CallClaims(r, w) \/ ~Lists(repo.file, w)
    BY <1>2, <1>4, <2>1, MessageFacts DEF Reaches, CallClaims, ToolType
  <2> QED
    BY <1>1, <2>1, <2>6, <2>7, <2>8, NoneIsDrafted, ReachesKeeps
<1> QED
  BY <1>3, <1>4

LEMMA CommitGrows ==
  ASSUME RelInv, repo' = [repo EXCEPT !.log = Append(@, repo.file)],
         UNCHANGED <<remote, drafts>>, foreign' \in 0..MaxForeign
  PROVE  /\ WorldGrows /\ WorldOK'
         /\ repo'.file = repo.file /\ repo'.log[Len(repo'.log)] = repo.file
<1>1. repo \in [log : Seq(Seq(Versions)), file : Seq(Versions), tags : [Versions -> Commits]]
  BY DEF RelInv, RelTypeOK
<1>2. /\ repo'.log = Append(repo.log, repo.file) /\ repo'.file = repo.file /\ repo'.tags = repo.tags
      /\ repo' \in [log : Seq(Seq(Versions)), file : Seq(Versions), tags : [Versions -> Commits]]
  <2> DEFINE log == Append(repo.log, repo.file)
  <2>1. log \in Seq(Seq(Versions)) /\ repo' = [repo EXCEPT !.log = log]
    BY <1>1
  <2> HIDE DEF log
  <2>2. /\ repo'.log = log /\ repo'.file = repo.file /\ repo'.tags = repo.tags
        /\ repo' \in [log : Seq(Seq(Versions)), file : Seq(Versions), tags : [Versions -> Commits]]
    BY <1>1, <2>1
  <2> QED
    BY <2>2 DEF log
<1>3. /\ Len(repo.log) \in Nat /\ Len(repo'.log) = Len(repo.log) + 1
      /\ repo'.log[Len(repo'.log)] = repo.file
      /\ \A i \in 1..Len(repo.log) : repo'.log[i] = repo.log[i]
  BY <1>1, <1>2
<1>4. (repo \in [log : Seq(Seq(Versions)), file : Seq(Versions), tags : [Versions -> Commits]])'
  <2>1. Commits \subseteq Commits'
    BY <1>3 DEF Commits
  <2> QED
    BY <1>2, <2>1
<1>5. LastVersionOK'
  BY <1>2 DEF RelInv, LastVersionOK, Tagged
<1>6. \A i, j \in 1..Len(repo'.file) : repo'.file[i] = repo'.file[j] => i = j
  BY <1>2 DEF RelInv, NothingTwice
<1> QED
  BY <1>2, <1>3, <1>4, <1>5, <1>6, RepoGrows

LEMMA ToolCommitsStep == ASSUME RelInv, NEW r \in ReleaseRequests, ToolCommits(r) PROVE RelInv'
<1> DEFINE v == tool[r].version
<1>1. /\ tool[r].key = "commit" /\ tool[r].stage = "written"
      /\ UNCHANGED <<remote, drafts, foreign, plans, latest, waitline, relRequest>>
  BY DEF ToolCommits, Serves
<1>2. /\ tool[r] \in ToolType /\ v \in Versions /\ Lists(repo.file, v)
      /\ foreign' \in 0..MaxForeign
  BY <1>1, MessageFacts DEF ToolOK, RelInv, RelTypeOK
<1>3. CASE Reaches(r, "error") /\ UNCHANGED repo
  BY <1>1, <1>3, ToolFails
<1>4. CASE repo' = [repo EXCEPT !.log = Append(@, repo.file)] /\ Reaches(r, "committed")
  <2>1. /\ WorldGrows /\ WorldOK'
        /\ repo'.file = repo.file /\ repo'.log[Len(repo'.log)] = repo.file
    BY <1>1, <1>2, <1>4, CommitGrows
  <2>2. ASSUME tool'[r] = [tool[r] EXCEPT !.stage = "committed"] PROVE ToolOK(r)'
    <3>1. /\ tool'[r].key = "commit" /\ tool'[r].version = v /\ tool'[r].stage = "committed"
      BY <1>1, <1>2, <2>2 DEF ToolType
    <3>2. Lists(repo'.file, v) /\ Lists(repo'.log[Tip'], v)
      BY <1>2, <2>1 DEF Tip
    <3> QED
      BY <1>2, <3>1, <3>2 DEF ToolOK
  <2>3. \A w \in Versions : CallClaims(r, w)' => CallClaims(r, w)
    BY <1>1, <1>2, <1>4, MessageFacts DEF Reaches, CallClaims, ToolType
  <2> QED
    BY <1>1, <1>4, <2>1, <2>2, <2>3, NoneIsDrafted, ReachesKeeps
<1> QED
  BY <1>3, <1>4 DEF ToolCommits

LEMMA ForeignStep == ASSUME RelInv, Foreign PROVE RelInv'
<1>1. /\ repo' = [repo EXCEPT !.log = Append(@, repo.file)] /\ foreign' = foreign + 1
      /\ foreign < MaxForeign
      /\ UNCHANGED <<remote, drafts, plans, latest, waitline, relRequest, tool>>
  BY DEF Foreign
<1>2. foreign' \in 0..MaxForeign
  BY <1>1, ReleaseAssumption DEF RelInv, RelTypeOK
<1>3. WorldGrows /\ WorldOK'
  BY <1>1, <1>2, CommitGrows
<1>4. (tool \in [ReleaseRequests -> ToolType])'
  <2>1. ToolType \subseteq ToolType' /\ tool \in [ReleaseRequests -> ToolType]
    BY <1>3, CommitsGrow DEF WorldOK, RelInv, RelTypeOK
  <2> QED
    BY <1>1, <2>1
<1>5. ASSUME NEW q \in ReleaseRequests PROVE (ToolOK(q) /\ MessageOK(q))'
  <2>1. ToolOK(q)'
    BY <1>1, <1>3, ToolSpared, NoneIsDrafted DEF WorldOK
  <2>2. MessageOK(q)'
    BY <1>1, MessageFacts DEF MessageOK, RelLocked
  <2> QED
    BY <2>1, <2>2
<1>6. ClaimsOK'
  BY <1>1 DEF RelInv, ClaimsOK, CallClaims, PlanClaims, JustNoted
<1> QED
  BY <1>1, <1>3, <1>4, <1>5, <1>6, WorldMoves

(* A new tag: one of it and the last version is the last version now. *)
LEMMA LastVersionStays ==
  ASSUME RelInv, NEW v \in Versions, NEW sha \in Commits, sha # 0,
         repo' = [repo EXCEPT !.tags[v] = sha]
  PROVE  LastVersionOK'
<1>1. repo \in [log : Seq(Seq(Versions)), file : Seq(Versions), tags : [Versions -> Commits]]
  BY DEF RelInv, RelTypeOK
<1>2. repo'.tags = [repo.tags EXCEPT ![v] = sha]
  BY <1>1
<1>3. Tagged(repo'.tags) = Tagged(repo.tags) \cup {v}
  BY <1>1, <1>2 DEF Tagged
<1>4. PICK m \in Tagged(repo.tags) : \A w \in Tagged(repo.tags) : m = w \/ Greater(m, w)
  BY DEF RelInv, LastVersionOK
<1>5. \A w \in Versions : w[1] \in Nat /\ w[2] \in Nat /\ w = <<w[1], w[2]>>
  BY ReleaseAssumption
<1>6. Tagged(repo.tags) \subseteq Versions
  BY DEF Tagged
<1>7. v = m \/ Greater(v, m) \/ Greater(m, v)
  BY <1>5, <1>6 DEF Greater
<1>8. CASE Greater(v, m)
  <2>1. \A w \in Tagged(repo.tags) : Greater(v, w)
    BY <1>4, <1>5, <1>6, <1>8 DEF Greater
  <2> QED
    BY <1>3, <2>1 DEF LastVersionOK
<1>9. CASE v = m \/ Greater(m, v)
  BY <1>3, <1>4, <1>9 DEF LastVersionOK
<1> QED
  BY <1>7, <1>8, <1>9

LEMMA ToolTagsStep == ASSUME RelInv, NEW r \in ReleaseRequests, ToolTags(r) PROVE RelInv'
<1> DEFINE v == tool[r].version
           sha == tool[r].sha
<1>1. /\ tool[r].key = "tag" /\ tool[r].stage = "called"
      /\ UNCHANGED <<remote, drafts, foreign, plans, latest, waitline, relRequest>>
  BY DEF ToolTags, Serves
<1>2. /\ tool[r] \in ToolType /\ v \in Versions /\ sha \in Commits
      /\ sha # 0 /\ Lists(repo.log[sha], v)
      /\ foreign' \in 0..MaxForeign
      /\ repo \in [log : Seq(Seq(Versions)), file : Seq(Versions), tags : [Versions -> Commits]]
  <2>1. tool[r] \in ToolType /\ ToolOK(r)
    BY MessageFacts
  <2>2. v \in Versions /\ sha # 0 /\ Lists(repo.log[sha], v)
    BY <1>1, <2>1 DEF ToolOK
  <2> QED
    BY <1>1, <2>1, <2>2 DEF ToolType, RelInv, RelTypeOK
<1>3. CASE repo.tags[v] # 0
  BY <1>1, <1>3, ToolFails DEF ToolTags
<1>4. CASE repo.tags[v] = 0
  <2>1. repo' = [repo EXCEPT !.tags[v] = sha] /\ Reaches(r, "ok")
    BY <1>4 DEF ToolTags
  <2>2. /\ repo'.log = repo.log /\ repo'.file = repo.file
        /\ repo'.tags = [repo.tags EXCEPT ![v] = sha]
        /\ repo' \in [log : Seq(Seq(Versions)), file : Seq(Versions), tags : [Versions -> Commits]]
        /\ Len(repo.log) \in Nat
    <3> DEFINE tags == [repo.tags EXCEPT ![v] = sha]
    <3>1. tags \in [Versions -> Commits] /\ repo' = [repo EXCEPT !.tags = tags]
      BY <1>2, <2>1
    <3> HIDE DEF tags
    <3>2. /\ repo'.log = repo.log /\ repo'.file = repo.file /\ repo'.tags = tags
          /\ repo' \in [log : Seq(Seq(Versions)), file : Seq(Versions), tags : [Versions -> Commits]]
      BY <1>2, <3>1
    <3> QED
      BY <1>2, <3>2 DEF tags
  <2>3. /\ repo'.tags[v] = sha
        /\ \A w \in Versions : w # v => repo'.tags[w] = repo.tags[w]
    BY <1>2, <2>2
  <2>4. (repo \in [log : Seq(Seq(Versions)), file : Seq(Versions), tags : [Versions -> Commits]])'
    BY <2>2 DEF Commits
  <2>5. LastVersionOK'
    BY <1>2, <2>1, LastVersionStays
  <2>6. \A i, j \in 1..Len(repo'.file) : repo'.file[i] = repo'.file[j] => i = j
    BY <2>2 DEF RelInv, NothingTwice
  <2>7. ASSUME NEW w \in Versions
        PROVE  /\ Lists(repo.file, w) => Lists(repo'.file, w)
               /\ Lists(repo.file, w) /\ Lists(repo.log[Len(repo.log)], w) =>
                    Lists(repo'.log[Len(repo'.log)], w)
               /\ repo.tags[w] # 0 => repo'.tags[w] = repo.tags[w]
               /\ repo'.tags[w] # repo.tags[w] => Lists(repo'.log[repo'.tags[w]], w)
    BY <1>2, <1>4, <2>2, <2>3
  <2>8. WorldGrows /\ WorldOK'
    <3>1. Len(repo.log) <= Len(repo'.log) /\ \A i \in 1..Len(repo.log) : repo'.log[i] = repo.log[i]
      BY <2>2
    <3>2. UNCHANGED <<remote, drafts>> /\ foreign' \in 0..MaxForeign
      BY <1>1, <1>2
    <3> QED
      BY <2>4, <2>5, <2>6, <2>7, <3>1, <3>2, RepoGrows
  <2>9. ASSUME tool'[r] = [tool[r] EXCEPT !.stage = "ok"] PROVE ToolOK(r)'
    <3>1. /\ tool'[r].key = "tag" /\ tool'[r].version = v /\ tool'[r].sha = sha
          /\ tool'[r].stage = "ok"
      BY <1>1, <1>2, <2>9 DEF ToolType
    <3> QED
      BY <1>2, <2>2, <2>3, <3>1 DEF ToolOK
  <2>10. \A w \in Versions : CallClaims(r, w)' => CallClaims(r, w)
    BY <1>1, <1>2, <2>1, MessageFacts DEF Reaches, CallClaims, ToolType
  <2> QED
    BY <1>1, <2>1, <2>8, <2>9, <2>10, NoneIsDrafted, ReachesKeeps
<1> QED
  BY <1>3, <1>4

(* Origin changes, and only grows. *)
LEMMA RemoteGrows ==
  ASSUME RelInv, UNCHANGED <<repo, drafts, foreign>>,
         remote' \in [head : Commits, tags : [Versions -> Commits]],
         remote.head <= remote'.head,
         \A v \in Versions : remote.tags[v] # 0 => remote'.tags[v] = remote.tags[v]
  PROVE  WorldGrows /\ WorldOK'
<1>1. /\ Len(repo.log) \in Nat /\ Len(repo.log) # 0 /\ remote.head \in Nat /\ remote'.head \in Nat
      /\ drafts \in Seq([tag : Versions, sha : Commits]) /\ Commits \subseteq Nat
  BY DEF RelInv, RelTypeOK, Commits
<1>2. WorldGrows
  BY <1>1 DEF WorldGrows, Drafted
<1>3. WorldTypes' /\ LastVersionOK' /\ DraftsAreTagged' /\ TagHasItsSection' /\ NothingTwice'
  BY DEF RelInv, RelTypeOK, WorldTypes, Commits, LastVersionOK, Tagged, DraftsAreTagged,
         TagHasItsSection, NothingTwice
<1>4. ASSUME NEW i \in 1..Len(drafts)
      PROVE  remote'.tags[drafts[i].tag] = drafts[i].sha /\ drafts[i].sha <= remote'.head
  <2>1. /\ drafts[i].tag \in Versions /\ drafts[i].sha \in Nat /\ drafts[i].sha # 0
        /\ remote.tags[drafts[i].tag] = drafts[i].sha /\ drafts[i].sha <= remote.head
    <3>1. drafts[i] \in [tag : Versions, sha : Commits]
      BY <1>1, ElementFits, Zenon
    <3>2. drafts[i].tag \in Versions /\ drafts[i].sha \in Nat
      BY <1>1, <3>1
    <3> QED
      BY <3>2 DEF RelInv, DraftsAreTagged, DraftIsPushed
  <2> QED
    BY <1>1, <2>1
<1>5. DraftIsPushed'
  BY <1>4 DEF DraftIsPushed
<1> QED
  BY <1>1, <1>2, <1>3, <1>5 DEF WorldOK

LEMMA ToolPushesStep == ASSUME RelInv, NEW r \in ReleaseRequests, ToolPushes(r) PROVE RelInv'
<1> DEFINE v == tool[r].version
           sha == tool[r].sha
<1>1. /\ tool[r].key = "push" /\ tool[r].stage = "called"
      /\ UNCHANGED <<repo, drafts, foreign, plans, latest, waitline, relRequest>>
  BY DEF ToolPushes, Serves
<1>2. /\ tool[r] \in ToolType /\ v \in Versions /\ sha \in Commits
      /\ sha # 0 /\ Lists(repo.log[sha], v) /\ repo.tags[v] = sha
      /\ remote \in [head : Commits, tags : [Versions -> Commits]]
      /\ Tip \in Commits /\ Commits \subseteq Nat /\ \A x \in Commits : x <= Tip
  <2>1. tool[r] \in ToolType /\ ToolOK(r)
    BY MessageFacts
  <2>2. v \in Versions /\ sha # 0 /\ Lists(repo.log[sha], v) /\ repo.tags[v] = sha
    BY <1>1, <2>1 DEF ToolOK
  <2>3. Tip \in Commits /\ Commits \subseteq Nat /\ \A x \in Commits : x <= Tip
    BY DEF Tip, Commits, RelInv, RelTypeOK
  <2> QED
    BY <2>1, <2>2, <2>3 DEF ToolType, RelInv, RelTypeOK
<1>3. PICK branch \in BOOLEAN, tag \in BOOLEAN :
        /\ tag => remote.tags[v] \in {0, repo.tags[v]} /\ repo.tags[v] # 0
        /\ remote' = [head |-> IF branch THEN Tip ELSE remote.head,
                      tags |-> IF tag THEN [remote.tags EXCEPT ![v] = repo.tags[v]] ELSE remote.tags]
        /\ Reaches(r, IF branch /\ tag THEN "ok" ELSE "error")
  BY DEF ToolPushes
<1>4. /\ remote' \in [head : Commits, tags : [Versions -> Commits]]
      /\ remote'.head = IF branch THEN Tip ELSE remote.head
      /\ tag => remote'.tags[v] = sha
      /\ \A w \in Versions : remote.tags[w] # 0 => remote'.tags[w] = remote.tags[w]
  BY <1>2, <1>3
<1>5. remote.head <= remote'.head
  <2>1. remote.head \in Commits /\ remote.head \in Nat
    BY <1>2
  <2> QED
    BY <1>2, <1>4, <2>1
<1>6. WorldGrows /\ WorldOK'
  BY <1>1, <1>4, <1>5, RemoteGrows
<1> DEFINE stage == IF branch /\ tag THEN "ok" ELSE "error"
<1>7. ASSUME tool'[r] = [tool[r] EXCEPT !.stage = stage] PROVE ToolOK(r)'
  <2>1. /\ tool'[r].key = "push" /\ tool'[r].version = v /\ tool'[r].sha = sha
        /\ tool'[r].stage = stage
    BY <1>1, <1>2, <1>7 DEF ToolType
  <2>2. stage = "ok" => remote'.tags[v] = sha /\ sha <= remote'.head
    BY <1>2, <1>4
  <2> HIDE DEF v, sha
  <2> QED
    BY <1>1, <1>2, <2>1, <2>2 DEF ToolOK, OnOrigin
<1>8. \A w \in Versions : CallClaims(r, w)' => CallClaims(r, w)
  BY <1>1, <1>2, <1>3, MessageFacts DEF Reaches, CallClaims, ToolType
<1>9. stage \in {"written", "committed", "listed", "ok", "error", "unavailable"} /\ Reaches(r, stage)
  BY <1>3
<1> HIDE DEF stage
<1> QED
  BY <1>1, <1>6, <1>7, <1>8, <1>9, NoneIsDrafted, ReachesKeeps

(* Of one version one draft is in the making. *)
LEMMA OneDrafts ==
  ASSUME RelInv, NEW r \in ReleaseRequests, NEW q \in ReleaseRequests,
         tool[r].key = "release", tool[r].stage = "listed",
         tool[q].key = "release", tool[q].stage = "listed", tool[q].version = tool[r].version
  PROVE  q = r
<1>1. ASSUME NEW s \in ReleaseRequests, tool[s].key = "release", tool[s].stage = "listed"
      PROVE  /\ RelLocked(s) /\ relRequest[s].plan \in 1..Len(plans)
             /\ plans[relRequest[s].plan].chat = relRequest[s].chat
             /\ PlanClaims(relRequest[s].plan, tool[s].version) /\ tool[s].version \in Versions
  <2>1. relRequest[s].pc = "calling" /\ tool[s].version \in Versions /\ MessageOK(s)
    BY <1>1, MessageFacts DEF ToolOK
  <2>2. /\ RelLocked(s) /\ relRequest[s].plan \in 1..Len(plans)
        /\ plans[relRequest[s].plan].chat = relRequest[s].chat
        /\ relRequest[s].at \in 1..4 /\ STEP_KEYS[relRequest[s].at] = "release"
        /\ tool[s].version = plans[relRequest[s].plan].version
        /\ \A i \in 1..4 : i < relRequest[s].at =>
             plans[relRequest[s].plan].steps[STEP_KEYS[i]] = "done"
    BY <1>1, <2>1 DEF MessageOK, AtSteps
  <2>3. plans[relRequest[s].plan].steps["commit"] = "done"
    BY <2>2 DEF STEP_KEYS
  <2> QED
    BY <2>1, <2>2, <2>3 DEF PlanClaims
<1>2. relRequest[r].plan = relRequest[q].plan
  BY <1>1 DEF RelInv, ClaimsOK
<1> QED
  BY <1>1, <1>2 DEF RelLocked

LEMMA ToolPostsStep == ASSUME RelInv, NEW r \in ReleaseRequests, ToolPosts(r) PROVE RelInv'
<1> DEFINE v == tool[r].version
           sha == tool[r].sha
           draft == [tag |-> v, sha |-> sha]
<1>1. /\ tool[r].key = "release" /\ tool[r].stage = "listed"
      /\ UNCHANGED <<repo, remote, foreign, plans, latest, waitline, relRequest>>
  BY DEF ToolPosts, Serves
<1>2. /\ tool[r] \in ToolType /\ v \in Versions /\ sha \in Commits
      /\ sha # 0 /\ Lists(repo.log[sha], v) /\ repo.tags[v] = sha /\ OnOrigin(v, sha)
      /\ ~Drafted(v) /\ drafts \in Seq([tag : Versions, sha : Commits])
  <2>1. tool[r] \in ToolType /\ ToolOK(r)
    BY MessageFacts
  <2>2. /\ v \in Versions /\ sha # 0 /\ Lists(repo.log[sha], v) /\ repo.tags[v] = sha
        /\ OnOrigin(v, sha) /\ ~Drafted(v)
    BY <1>1, <2>1 DEF ToolOK
  <2> QED
    BY <2>1, <2>2 DEF ToolType, RelInv, RelTypeOK
<1>3. ASSUME NEW stage \in {"error", "unavailable"}, Reaches(r, stage), UNCHANGED drafts
      PROVE  RelInv'
  BY <1>1, <1>3, ToolFails
<1>4. ASSUME NEW stage \in {"ok", "error"}, Reaches(r, stage), drafts' = Append(drafts, draft)
      PROVE  RelInv'
  <2>1. /\ draft \in [tag : Versions, sha : Commits] /\ draft.tag = v /\ draft.sha = sha
    BY <1>2
  <2> HIDE DEF draft
  <2>2. /\ drafts' \in Seq([tag : Versions, sha : Commits])
        /\ Len(drafts) \in Nat /\ Len(drafts') = Len(drafts) + 1
        /\ drafts'[Len(drafts) + 1] = draft
        /\ \A i \in 1..Len(drafts) : drafts'[i] = drafts[i]
    BY <1>2, <1>4, <2>1
  <2>3. ASSUME NEW w \in Versions
        PROVE  (\E i \in 1..Len(drafts') : drafts'[i].tag = w) <=> w = v \/ Drafted(w)
    BY <2>1, <2>2 DEF Drafted
  <2>4. WorldGrows
    <3>1. Len(repo.log) \in Nat /\ remote.head \in Nat
      BY DEF RelInv, RelTypeOK, Commits
    <3>2. \A w \in Versions : Drafted(w) => Drafted(w)'
      BY <2>3 DEF Drafted
    <3> QED
      BY <1>1, <3>1, <3>2 DEF WorldGrows
  <2>5. WorldOK'
    <3>1. WorldTypes'
      BY <1>1, <2>2 DEF RelInv, RelTypeOK, WorldTypes, Commits
    <3>2. Len(repo'.log) # 0 /\ LastVersionOK' /\ TagHasItsSection'
      BY <1>1 DEF RelInv, LastVersionOK, Tagged, TagHasItsSection
    <3>3. DraftsAreTagged'
      BY <1>2, <2>1, <2>2 DEF RelInv, DraftsAreTagged
    <3>4. DraftIsPushed'
      BY <1>1, <1>2, <2>1, <2>2 DEF RelInv, DraftIsPushed, OnOrigin
    <3>5. NothingTwice'
      <4>1. \A i, j \in 1..Len(drafts') : drafts'[i].tag = drafts'[j].tag => i = j
        BY <1>2, <2>1, <2>2 DEF RelInv, NothingTwice, Drafted
      <4> QED
        BY <1>1, <4>1 DEF RelInv, NothingTwice
    <3> QED
      BY <3>1, <3>2, <3>3, <3>4, <3>5 DEF WorldOK
  <2>6. ASSUME NEW q \in ReleaseRequests \ {r} PROVE NoneDrafted(q)
    <3> SUFFICES ASSUME tool[q].key = "release", tool[q].stage = "listed"
                 PROVE  \A i \in 1..Len(drafts') : drafts'[i].tag # tool[q].version
      BY DEF NoneDrafted
    <3>1. tool[q].version \in Versions /\ ~Drafted(tool[q].version)
      BY MessageFacts DEF ToolOK
    <3>2. tool[q].version # v
      BY <1>1, OneDrafts
    <3> QED
      BY <2>3, <3>1, <3>2
  <2>7. ASSUME tool'[r] = [tool[r] EXCEPT !.stage = stage] PROVE ToolOK(r)'
    <3>1. /\ tool'[r].key = "release" /\ tool'[r].version = v /\ tool'[r].sha = sha
          /\ tool'[r].stage = stage
      BY <1>1, <1>2, <2>7 DEF ToolType
    <3>2. \E i \in 1..Len(drafts') : drafts'[i].tag = v
      BY <1>2, <2>3
    <3> HIDE DEF v, sha
    <3> QED
      BY <1>1, <1>2, <1>4, <3>1, <3>2 DEF ToolOK, OnOrigin, Drafted
  <2>8. \A w \in Versions : CallClaims(r, w)' => CallClaims(r, w)
    BY <1>1, <1>2, <1>4, MessageFacts DEF Reaches, CallClaims, ToolType
  <2> QED
    BY <1>1, <1>4, <2>4, <2>5, <2>6, <2>7, <2>8, ReachesKeeps
<1> QED
  BY <1>3, <1>4 DEF ToolPosts

LEMMA RelStutters == ASSUME RelInv, UNCHANGED relVars PROVE RelInv'
<1>1. RelTypeOK' /\ LastVersionOK' /\ LatestOK' /\ DraftsAreTagged'
  BY DEF relVars, RelInv, RelTypeOK, Commits, PlanType, ToolType, LastVersionOK, Tagged, LatestOK,
         DraftsAreTagged
<1>2. ClaimsOK' /\ TagHasItsSection' /\ DraftIsPushed' /\ NothingTwice'
  BY DEF relVars, RelInv, ClaimsOK, CallClaims, PlanClaims, JustNoted, TagHasItsSection,
         DraftIsPushed, NothingTwice
<1>3. ASSUME NEW p \in 1..Len(plans) PROVE PlanOK(p)'
  BY DEF relVars, RelInv, PlanOK, OnOrigin, Drafted
<1>4. ASSUME NEW r \in ReleaseRequests PROVE ToolOK(r)' /\ MessageOK(r)'
  BY DEF relVars, RelInv, ToolOK, MessageOK, RelLocked, OnOrigin, Drafted, Tip
<1> QED
  BY <1>1, <1>2, <1>3, <1>4 DEF RelInv, relVars

LEMMA ReleaseStep == ASSUME RelInv, [RelNext]_relVars PROVE RelInv'
<1>1. ASSUME NEW r \in ReleaseRequests, NEW c \in ReleaseChats,
             PlanArrives(r, c) \/ \E v \in Versions \cup {NoVersion} : ConfirmArrives(r, c, v)
      PROVE  RelInv'
  BY <1>1, ArrivesStep
<1>2. ASSUME NEW r \in ReleaseRequests, RelStep(r) PROVE RelInv'
  BY <1>2, PlansStep, OverridesStep, RevalidatesStep, WritesStep, CallsStep DEF RelStep
<1>3. ASSUME NEW r \in ReleaseRequests, ToolStep(r) PROVE RelInv'
  BY <1>3, ToolWritesFileStep, ToolCommitsStep, ToolReadsHeadStep, ToolTagsStep, ToolPushesStep,
     ToolListsStep, ToolPostsStep, ToolRefusesStep DEF ToolStep
<1> QED
  BY <1>1, <1>2, <1>3, ForeignStep, RelStutters DEF RelNext

LEMMA ReleaseStart == ASSUME RelInit PROVE RelInv
<1>1. /\ repo = [log |-> <<<<FirstVersion>>>>, file |-> <<FirstVersion>>,
                 tags |-> [v \in Versions |-> IF v = FirstVersion THEN 1 ELSE 0]]
      /\ FirstVersion \in Versions
  BY ReleaseAssumption DEF RelInit
<1>2. /\ repo.log = <<<<FirstVersion>>>> /\ repo.file = <<FirstVersion>>
      /\ Len(repo.log) = 1 /\ repo.log[1] = <<FirstVersion>> /\ Len(repo.log[1]) = 1
      /\ repo.log[1][1] = FirstVersion
      /\ \A v \in Versions : repo.tags[v] = IF v = FirstVersion THEN 1 ELSE 0
      /\ Commits = 0..1
  BY <1>1 DEF Commits
<1>3. (CHOOSE c \in ReleaseChats : TRUE) \in ReleaseChats
  BY ReleaseAssumption
<1>4. /\ \A r \in ReleaseRequests : relRequest[r].pc = "new" /\ tool[r].stage = "idle"
      /\ plans = <<>> /\ drafts = <<>>
      /\ latest = [c \in ReleaseChats |-> 0]
  BY DEF RelInit
<1>5. RelTypeOK
  <2>1. repo \in [log : Seq(Seq(Versions)), file : Seq(Versions), tags : [Versions -> Commits]]
    <3>1. <<<<FirstVersion>>>> \in Seq(Seq(Versions)) /\ <<FirstVersion>> \in Seq(Versions)
      BY <1>1
    <3>2. [v \in Versions |-> IF v = FirstVersion THEN 1 ELSE 0] \in [Versions -> Commits]
      BY <1>2
    <3> QED
      BY <1>1, <3>1, <3>2
  <2>2. remote \in [head : Commits, tags : [Versions -> Commits]]
    BY <1>2, <2>1 DEF RelInit
  <2>3. drafts \in Seq([tag : Versions, sha : Commits]) /\ plans \in Seq(PlanType)
        /\ latest \in [ReleaseChats -> 0..Len(plans)]
        /\ waitline \in [ReleaseChats -> Seq(ReleaseRequests)] /\ foreign \in 0..MaxForeign
    BY <1>4, ReleaseAssumption DEF RelInit
  <2>4. relRequest \in [ReleaseRequests -> ReleaseRequestType]
    BY <1>3 DEF RelInit, ReleaseRequestType
  <2>5. tool \in [ReleaseRequests -> ToolType]
    BY <1>2 DEF RelInit, ToolType
  <2> QED
    BY <2>1, <2>2, <2>3, <2>4, <2>5 DEF RelTypeOK
<1>6. LastVersionOK
  BY <1>1, <1>2 DEF LastVersionOK, Tagged
<1>7. LatestOK /\ DraftsAreTagged /\ DraftIsPushed
  BY <1>4 DEF LatestOK, DraftsAreTagged, DraftIsPushed
<1>8. ClaimsOK /\ \A p \in 1..Len(plans) : PlanOK(p)
  BY <1>4 DEF ClaimsOK, CallClaims
<1>9. \A r \in ReleaseRequests : ToolOK(r) /\ MessageOK(r)
  BY <1>4 DEF ToolOK, MessageOK, AtSteps
<1>10. TagHasItsSection
  BY <1>1, <1>2 DEF TagHasItsSection
<1>11. NothingTwice
  BY <1>2, <1>4 DEF NothingTwice
<1> QED
  BY <1>2, <1>5, <1>6, <1>7, <1>8, <1>9, <1>10, <1>11 DEF RelInv

LEMMA RecordsAreReal == ASSUME RelInv PROVE RecordedIsReal
<1>1. SUFFICES ASSUME NEW p \in 1..Len(plans)
               PROVE  LET plan == plans[p] IN
                      /\ plan.steps["tag"] = "done" => repo.tags[plan.version] = plan.sha
                      /\ plan.steps["push"] = "done" =>
                           remote.tags[plan.version] = plan.sha /\ plan.sha <= remote.head
                      /\ plan.steps["release"] = "done" =>
                           \E i \in 1..Len(drafts) : drafts[i].tag = plan.version
  BY DEF RecordedIsReal
<1>2. PlanOK(p)
  BY DEF RelInv
<1> QED
  BY <1>2 DEF PlanOK, OnOrigin, Drafted

(* A release does what it notes, once and for the version it names: a tag  *)
(* is on a commit with its section of the changelog, a draft is for a tag  *)
(* that origin has, nothing is made twice, and a step noted as done was    *)
(* done, whatever was retried, given up on, changed in between or          *)
(* confirmed from another chat (release_executor.py, project_git.py).      *)
THEOREM ReleasesAreSound == ChatsSpec => []ReleaseSound
<1> DEFINE Inv == focus = "release" => RelInv
<1>1. ChatsInit => Inv
  BY ReleaseStart DEF ChatsInit
<1>2. Inv /\ [ChatsNext]_chatsVars => Inv'
  BY FocusMoves, ReleaseStep
<1>3. Inv => ReleaseSound
  BY RecordsAreReal DEF ReleaseSound, RelInv
<1> QED
  BY <1>1, <1>2, <1>3, PTL DEF ChatsSpec

----------------------------------------------------------------------------
(* Reviews and the code index.                                             *)
(*                                                                         *)
(* CrInv: in the lock of its branch a refresh has seen a tip no older than *)
(* the link's, and the base it loaded is still as it was loaded or is      *)
(* gone; a base is dropped after its link; ids are not given twice; and    *)
(* every base above the cap is owed by a creator still to evict.           *)

(* The base a refresh works on. *)
Own(r) == IF rev[r].old # 0 THEN rev[r].old ELSE rev[r].new

Uncommitted ==
  {"new", "settings", "checks", "waiting", "locked", "fetched", "diffed", "queued", "embedding"}
Rebuilding(r) == rev[r].pc = "dropping" /\ rev[r].new = 0
HasTip(r) == rev[r].pc \in {"fetched", "diffed", "queued", "embedding"} \/ Rebuilding(r)

ReviewOK(r) ==
  LET q == rev[r]
      b == q.branch
  IN
  /\ q.kind = "review" /\ q.pc \notin {"new", "done"} => prLock[q.pr] = r
  /\ q.pc \in Uncommitted => q.new = 0
  /\ HasTip(r) => q.commit \in 1..Len(origin[b]) /\ (link[b].kb # 0 => link[b].commit <= q.commit)
  /\ q.pc \in {"diffed", "queued", "embedding"} =>
       /\ link[b].kb \in {0, q.old}
       /\ q.old = 0 => q.docs = NoTree
       /\ q.old \in DOMAIN codeBase => q.docs = codeBase[q.old].docs
  /\ q.pc \in {"diffed", "queued", "embedding", "committed", "evicting"} =>
       \A c \in Branches \ {b} : link[c].kb # 0 => link[c].kb # Own(r)
  /\ q.pc = "committed" =>
       /\ Own(r) # 0 /\ (q.old = 0 \/ q.new = 0)
       /\ Own(r) \in DOMAIN codeBase \ unswapped => q.docs = codeBase[Own(r)].docs
  /\ q.pc \in {"evicting", "pruning"} => q.new # 0
  /\ q.pc \in {"evicting", "pruning", "dropping"} => q.old = 0
  /\ q.drop # 0 <=> q.pc = "dropping"
  /\ \A c \in Branches : link[c].kb # 0 => link[c].kb # q.drop
  /\ Rebuilding(r) => link[b].kb = 0 /\ q.old = 0 /\ q.docs = NoTree

LinkOK(b) ==
  LET l == link[b] IN
  l.kb # 0 =>
    /\ l.kb \in DOMAIN codeBase /\ l.commit \in 1..Len(origin[b])
    /\ codeBase[l.kb].docs = origin[b][l.commit]
    /\ \A c \in Branches : link[c].kb = l.kb => c = b

(* The ids that were ever given. *)
Given == 0..(NextId - 1)
FreshOK ==
  /\ DOMAIN codeBase \cup DOMAIN codeFile \cup unswapped \subseteq Given
  /\ \A b \in Branches : link[b].kb \in Given
  /\ \A r \in ReviewRequests :
       {rev[r].old, rev[r].new, rev[r].drop} \cup rev[r].rest \subseteq Given

LocksOK ==
  \A q, r \in ReviewRequests : q # r =>
    /\ rev[q].branch = rev[r].branch => rev[q].pc \notin InLock \/ rev[r].pc \notin InLock
    /\ rev[q].pc \in {"embedding", "committed"} => rev[r].pc \notin {"embedding", "committed"}

(* The creators that are still to evict, and the bases each will see off   *)
(* or, before it has chosen them, may never have existed.                  *)
Owing == {r \in ReviewRequests :
            rev[r].new # 0 /\ rev[r].pc \in {"committed", "evicting", "pruning", "dropping"}}
Excused(r) == IF rev[r].pc \in {"committed", "evicting"} THEN {rev[r].new} ELSE rev[r].rest
Left(home, T) ==
  {b \in Linked(home) : link[b].kb \notin unswapped /\ \A r \in T : link[b].kb \notin Excused(r)}

Paid(home, T) == Cardinality(Left(home, T)) <= MaxBaseRefs + Cardinality(Owing \ T)
AllPaid == \A home \in {RepoOf[b] : b \in Branches}, T \in SUBSET Owing : Paid(home, T)

CrInv ==
  /\ CrTypeOK /\ FreshOK /\ LocksOK
  /\ \A b \in Branches : LinkOK(b)
  /\ \A r \in ReviewRequests : ReviewOK(r)
  /\ IndexMatchesRows /\ NoStrayBase /\ AllPaid

----------------------------------------------------------------------------
(* A subset, and a set with one element more. *)
LEMMA SubsetCard ==
  ASSUME NEW T, IsFiniteSet(T), NEW S, S \subseteq T
  PROVE  /\ IsFiniteSet(S)
         /\ Cardinality(S) \in Nat /\ Cardinality(T) \in Nat
         /\ Cardinality(S) <= Cardinality(T)
BY FS_Subset, FS_CardinalityType

LEMMA OneMore ==
  ASSUME NEW S, IsFiniteSet(S), NEW x
  PROVE  /\ IsFiniteSet(S \cup {x})
         /\ Cardinality(S) \in Nat /\ Cardinality(S \cup {x}) \in Nat
         /\ Cardinality(S \cup {x}) <= Cardinality(S) + 1
         /\ x \notin S => Cardinality(S \cup {x}) = Cardinality(S) + 1
<1>1. Cardinality(S) \in Nat /\ IsFiniteSet(S \cup {x})
  BY FS_CardinalityType, FS_AddElement
<1>2. Cardinality(S \cup {x}) = IF x \in S THEN Cardinality(S) ELSE Cardinality(S) + 1
  BY FS_AddElement
<1> QED
  BY <1>1, <1>2

(* Trees, and what is patched together from them. *)
LEMMA TreesFit == \A t \in Trees \cup {NoTree} : t \in Patchwork
<1>1. ASSUME NEW t \in Trees PROVE t \in Patchwork
  <2>1. t = [f \in DOMAIN t |-> t[f]] /\ DOMAIN t \in SUBSET Files
        /\ \A f \in DOMAIN t : t[f] \in Blobs
    BY CodeReviewAssumption DEF Files, Blobs
  <2>2. t \in [DOMAIN t -> Blobs]
    BY <2>1
  <2> QED
    BY <2>1, <2>2 DEF Patchwork
<1>2. NoTree \in [{} -> Blobs] /\ {} \in SUBSET Files
  BY DEF NoTree
<1> QED
  BY <1>1, <1>2 DEF Patchwork

LEMMA PatchedIsTree ==
  ASSUME NEW r, TheTree(r) \in Trees
  PROVE  Patched(rev[r].docs, r) = TheTree(r)
<1> DEFINE docs == rev[r].docs
           files == TheTree(r)
           stale == {f \in DOMAIN docs : f \notin DOMAIN files \/ files[f] # docs[f]}
           added == {f \in DOMAIN files : f \notin DOMAIN docs \/ files[f] # docs[f]}
<1>1. files = [f \in DOMAIN files |-> files[f]]
  BY CodeReviewAssumption
<1>2. Patched(docs, r) = [f \in (DOMAIN docs \ stale) \cup added |-> IF f \in added THEN files[f] ELSE docs[f]]
  BY DEF Patched
<1> HIDE DEF docs, files
<1>3. (DOMAIN docs \ stale) \cup added = DOMAIN files
  OBVIOUS
<1>4. \A f \in DOMAIN files : (IF f \in added THEN files[f] ELSE docs[f]) = files[f]
  OBVIOUS
<1>5. Patched(docs, r) = [f \in DOMAIN files |-> files[f]]
  BY <1>2, <1>3, <1>4
<1> QED
  BY <1>1, <1>5 DEF docs, files

LEMMA PatchedFits ==
  ASSUME NEW r, TheTree(r) \in Trees, NEW has \in Patchwork
  PROVE  Patched(has, r) \in Patchwork
<1> DEFINE docs == rev[r].docs
           files == TheTree(r)
           stale == {f \in DOMAIN docs : f \notin DOMAIN files \/ files[f] # docs[f]}
           added == {f \in DOMAIN files : f \notin DOMAIN docs \/ files[f] # docs[f]}
           D == (DOMAIN has \ stale) \cup added
<1>1. files \in Patchwork
  BY TreesFit
<1>2. Patched(has, r) = [f \in D |-> IF f \in added THEN files[f] ELSE has[f]]
  BY DEF Patched
<1> HIDE DEF docs, files
<1>3. PICK F \in SUBSET Files : has \in [F -> Blobs]
  BY DEF Patchwork
<1>4. PICK G \in SUBSET Files : files \in [G -> Blobs]
  BY <1>1 DEF Patchwork
<1>5. D \in SUBSET Files /\ \A f \in D : (IF f \in added THEN files[f] ELSE has[f]) \in Blobs
  BY <1>3, <1>4
<1> HIDE DEF D, added, stale
<1>6. Patched(has, r) \in [D -> Blobs]
  BY <1>2, <1>5
<1> QED
  BY <1>5, <1>6 DEF Patchwork

LEMMA NoReviewFits ==
  /\ NoReview \in RevType /\ NoReview.kind = "review" /\ NoReview.pc = "new" /\ NoReview.new = 0
  /\ NoReview.old = 0 /\ NoReview.drop = 0 /\ NoReview.rest = {}
<1>1. (CHOOSE p \in PullRequests : TRUE) \in PullRequests
  BY CodeReviewAssumption
<1>2. (CHOOSE b \in Branches : TRUE) \in Branches
  BY CodeReviewAssumption
<1>3. (CHOOSE m \in Models : TRUE) \in Models
  BY CodeReviewAssumption
<1>4. NoTree \in Patchwork /\ 0 \in 0..(MaxPushes + 1) /\ {} \in SUBSET BaseIds
  BY TreesFit, CodeReviewAssumption
<1> QED
  BY <1>1, <1>2, <1>3, <1>4 DEF NoReview, RevType

(* Ids are numbers, and there is one left while somebody has none. *)
LEMMA IdsAreNumbers ==
  /\ IsFiniteSet(ReviewRequests) /\ Cardinality(ReviewRequests) \in Nat
  /\ BaseIds \subseteq Nat \ {0} /\ NextId \in Nat \ {0}
  /\ \A r \in ReviewRequests : rev[r].new = 0 => NextId \in BaseIds
<1> DEFINE creators == {q \in ReviewRequests : rev[q].new # 0}
<1>1. /\ IsFiniteSet(ReviewRequests) /\ Cardinality(ReviewRequests) \in Nat
      /\ Cardinality(creators) \in Nat
  BY CodeReviewAssumption, SubsetCard
<1>2. ASSUME NEW r \in ReviewRequests, rev[r].new = 0
      PROVE  Cardinality(creators) + 1 <= Cardinality(ReviewRequests)
  <2>1. IsFiniteSet(creators) /\ r \notin creators
    BY <1>1, <1>2, SubsetCard
  <2>2. Cardinality(creators \cup {r}) = Cardinality(creators) + 1
    BY <2>1, OneMore
  <2>3. Cardinality(creators \cup {r}) <= Cardinality(ReviewRequests)
    <3>1. creators \cup {r} \subseteq ReviewRequests
      OBVIOUS
    <3> HIDE DEF creators
    <3> QED
      BY <1>1, <3>1, SubsetCard
  <2> QED
    BY <2>2, <2>3
<1>3. NextId = 1 + Cardinality(creators)
  BY DEF NextId
<1> HIDE DEF creators
<1> QED
  BY <1>1, <1>2, <1>3 DEF BaseIds

(* Who has created keeps count of the ids. *)
LEMMA IdsStay ==
  ASSUME \A q \in ReviewRequests : rev'[q].new = rev[q].new
  PROVE  NextId' = NextId /\ Given' = Given
<1>1. {q \in ReviewRequests : rev'[q].new # 0} = {q \in ReviewRequests : rev[q].new # 0}
  OBVIOUS
<1> QED
  BY <1>1 DEF NextId, Given

----------------------------------------------------------------------------
(* What a step may do to the world of the reviews: links go, or are        *)
(* written by who is in the lock of their branch; bases go, come, or are   *)
(* rewritten by who is in the lock of the branch they are linked to.       *)
Untouched(r) == \A q \in ReviewRequests \ {r} : rev'[q] = rev[q]

IndexMoves(mine) ==
  /\ UNCHANGED origin /\ unswapped \subseteq unswapped'
  /\ \A b \in Branches :
       \/ link'[b] = link[b] \/ link'[b] = NoLink
       \/ b \in mine /\ link'[b].kb \in {link[b].kb, NextId}
  /\ \A kb \in DOMAIN codeBase' :
       \/ kb = NextId
       \/ kb \in DOMAIN codeBase /\ codeBase'[kb] = codeBase[kb]
       \/ kb \in DOMAIN codeBase /\ \E b \in mine : link[b].kb = kb

LocksKept(r) ==
  \A q \in ReviewRequests \ {r} :
    rev[q].kind = "review" /\ rev[q].pc \notin {"new", "done"} => prLock'[rev[q].pr] = q

LEMMA ReviewFacts ==
  ASSUME CrInv, NEW r \in ReviewRequests
  PROVE  /\ rev \in [ReviewRequests -> RevType] /\ rev[r] \in RevType /\ ReviewOK(r)
         /\ rev[r].branch \in Branches /\ rev[r].pr \in PullRequests /\ rev[r].model \in Models
         /\ {rev[r].old, rev[r].new, rev[r].drop} \cup rev[r].rest \subseteq Given
         /\ rev[r].old \in Nat /\ rev[r].new \in Nat /\ rev[r].drop \in Nat
         /\ rev[r].rest \subseteq BaseIds
         /\ NextId \in Nat \ {0} /\ NextId \notin Given /\ Given \subseteq Nat
         /\ prLock \in [PullRequests -> ReviewRequests \cup {Nobody}]
         /\ link[rev[r].branch].kb \in Given /\ LinkOK(rev[r].branch)
<1>1. rev \in [ReviewRequests -> RevType] /\ rev[r] \in RevType /\ ReviewOK(r)
  BY DEF CrInv, CrTypeOK
<1>2. /\ rev[r].branch \in Branches /\ rev[r].pr \in PullRequests /\ rev[r].model \in Models
      /\ rev[r].rest \subseteq BaseIds
      /\ rev[r].old \in {0} \cup BaseIds /\ rev[r].new \in {0} \cup BaseIds
      /\ rev[r].drop \in {0} \cup BaseIds
  BY <1>1 DEF RevType
<1>3. /\ NextId \in Nat \ {0} /\ BaseIds \subseteq Nat /\ NextId \notin Given /\ Given \subseteq Nat
  BY IdsAreNumbers DEF Given
<1> QED
  BY <1>1, <1>2, <1>3 DEF CrInv, FreshOK, CrTypeOK

LEMMA OtherStays ==
  ASSUME CrInv, NEW q \in ReviewRequests, rev'[q] = rev[q], NEW mine \in SUBSET Branches,
         IndexMoves(mine), rev[q].pc \in InLock => rev[q].branch \notin mine,
         rev[q].kind = "review" /\ rev[q].pc \notin {"new", "done"} => prLock'[rev[q].pr] = q
  PROVE  ReviewOK(q)'
<1> DEFINE b == rev[q].branch
<1>1. /\ ReviewOK(q) /\ b \in Branches /\ NextId \notin Given /\ 0 \in Given
      /\ rev[q].old \in Given /\ rev[q].new \in Given /\ rev[q].drop \in Given
      /\ origin' = origin /\ 0 \notin DOMAIN codeBase
  BY ReviewFacts DEF Given, IndexMoves, CrInv, CrTypeOK, BaseIds
<1>2. \A c \in Branches : link'[c].kb # 0 => link'[c].kb \in {link[c].kb, NextId}
  BY DEF IndexMoves, NoLink
<1>3. rev[q].pc \in InLock => link'[b] = link[b] \/ link'[b] = NoLink
  BY <1>1 DEF IndexMoves
<1>4. Own(q) \in Given /\ Own(q)' = Own(q)
  BY <1>1 DEF Own
<1>5. ASSUME NEW kb \in Given, kb \in DOMAIN codeBase',
             \A c \in Branches \ {b} : link[c].kb # 0 => link[c].kb # kb, b \notin mine
      PROVE  kb \in DOMAIN codeBase /\ codeBase'[kb] = codeBase[kb]
  BY <1>1, <1>5 DEF IndexMoves
<1>6. rev[q].pc \in {"fetched", "diffed", "queued", "embedding", "dropping"} => rev[q].pc \in InLock
  BY DEF InLock
<1>7. HasTip(q)' =>
        /\ rev'[q].commit \in 1..Len(origin'[b])
        /\ link'[b].kb # 0 => link'[b].commit <= rev'[q].commit
  BY <1>1, <1>3, <1>6 DEF HasTip, Rebuilding, ReviewOK, NoLink
<1>8. rev[q].pc \in {"diffed", "queued", "embedding"} =>
        /\ link'[b].kb \in {0, rev[q].old}
        /\ rev[q].old = 0 => rev[q].docs = NoTree
        /\ rev[q].old \in DOMAIN codeBase' => rev[q].docs = codeBase'[rev[q].old].docs
  <2> SUFFICES ASSUME rev[q].pc \in {"diffed", "queued", "embedding"}
               PROVE  /\ link'[b].kb \in {0, rev[q].old}
                      /\ rev[q].old = 0 => rev[q].docs = NoTree
                      /\ rev[q].old \in DOMAIN codeBase' => rev[q].docs = codeBase'[rev[q].old].docs
    OBVIOUS
  <2>1. link'[b].kb \in {0, rev[q].old} /\ (rev[q].old = 0 => rev[q].docs = NoTree)
    BY <1>1, <1>3, <1>6 DEF ReviewOK, NoLink
  <2>2. rev[q].old # 0 => \A c \in Branches \ {b} : link[c].kb # 0 => link[c].kb # rev[q].old
    BY <1>1 DEF ReviewOK, Own
  <2>3. ASSUME rev[q].old \in DOMAIN codeBase' PROVE rev[q].docs = codeBase'[rev[q].old].docs
    <3>1. CASE rev[q].old = 0
      BY <1>1, <2>3, <3>1, IdsAreNumbers DEF IndexMoves
    <3>2. CASE rev[q].old # 0
      BY <1>1, <1>5, <1>6, <2>2, <2>3, <3>2 DEF ReviewOK
    <3> QED
      BY <3>1, <3>2
  <2> QED
    BY <2>1, <2>3
<1>9. rev[q].pc \in {"diffed", "queued", "embedding", "committed", "evicting"} =>
        \A c \in Branches \ {b} : link'[c].kb # 0 => link'[c].kb # Own(q)
  BY <1>1, <1>2, <1>4 DEF ReviewOK
<1>10. rev[q].pc = "committed" =>
         /\ Own(q) # 0 /\ (rev[q].old = 0 \/ rev[q].new = 0)
         /\ Own(q) \in DOMAIN codeBase' \ unswapped' => rev[q].docs = codeBase'[Own(q)].docs
  <2> SUFFICES ASSUME rev[q].pc = "committed"
               PROVE  /\ Own(q) # 0 /\ (rev[q].old = 0 \/ rev[q].new = 0)
                      /\ Own(q) \in DOMAIN codeBase' \ unswapped' =>
                           rev[q].docs = codeBase'[Own(q)].docs
    OBVIOUS
  <2>1. rev[q].pc \in InLock
    BY DEF InLock
  <2>2. \A c \in Branches \ {b} : link[c].kb # 0 => link[c].kb # Own(q)
    BY <1>1 DEF ReviewOK
  <2>3. Own(q) \in DOMAIN codeBase' =>
          Own(q) \in DOMAIN codeBase /\ codeBase'[Own(q)] = codeBase[Own(q)]
    BY <1>4, <1>5, <2>1, <2>2
  <2> QED
    BY <1>1, <2>3 DEF ReviewOK, IndexMoves
<1>11. \A c \in Branches : link'[c].kb # 0 => link'[c].kb # rev[q].drop
  BY <1>1, <1>2 DEF ReviewOK
<1>12. Rebuilding(q)' => link'[b].kb = 0 /\ rev[q].old = 0 /\ rev[q].docs = NoTree
  BY <1>1, <1>3, <1>6 DEF ReviewOK, Rebuilding, NoLink
<1>13. /\ rev[q].kind = "review" /\ rev[q].pc \notin {"new", "done"} => prLock'[rev[q].pr] = q
       /\ rev[q].pc \in Uncommitted => rev[q].new = 0
       /\ rev[q].pc \in {"evicting", "pruning"} => rev[q].new # 0
       /\ rev[q].pc \in {"evicting", "pruning", "dropping"} => rev[q].old = 0
       /\ rev[q].drop # 0 <=> rev[q].pc = "dropping"
  BY <1>1 DEF ReviewOK
<1> QED
  BY <1>4, <1>7, <1>8, <1>9, <1>10, <1>11, <1>12, <1>13 DEF ReviewOK

(* Who is in a lock, or in the semaphore, stays alone in it. *)
LEMMA LocksStay ==
  ASSUME CrInv, NEW r \in ReviewRequests, Untouched(r),
         \/ rev'[r].pc \notin InLock
         \/ rev[r].pc \in InLock /\ rev'[r].branch = rev[r].branch
         \/ \A q \in ReviewRequests \ {r} : rev[q].branch = rev'[r].branch => rev[q].pc \notin InLock,
         \/ rev'[r].pc \notin {"embedding", "committed"}
         \/ rev[r].pc \in {"embedding", "committed"}
         \/ \A q \in ReviewRequests : rev[q].pc \notin {"embedding", "committed"}
  PROVE  LocksOK'
<1> SUFFICES ASSUME NEW p \in ReviewRequests, NEW q \in ReviewRequests, p # q
             PROVE  /\ rev'[p].branch = rev'[q].branch => rev'[p].pc \notin InLock \/ rev'[q].pc \notin InLock
                    /\ rev'[p].pc \in {"embedding", "committed"} =>
                         rev'[q].pc \notin {"embedding", "committed"}
  BY DEF LocksOK
<1>1. /\ rev[p].branch = rev[q].branch => rev[p].pc \notin InLock \/ rev[q].pc \notin InLock
      /\ rev[p].pc \in {"embedding", "committed"} => rev[q].pc \notin {"embedding", "committed"}
      /\ rev[q].pc \in {"embedding", "committed"} => rev[p].pc \notin {"embedding", "committed"}
  BY DEF CrInv, LocksOK
<1>2. CASE p = r
  BY <1>1, <1>2 DEF Untouched
<1>3. CASE q = r
  BY <1>1, <1>3 DEF Untouched
<1>4. CASE p # r /\ q # r
  BY <1>1, <1>4 DEF Untouched
<1> QED
  BY <1>2, <1>3, <1>4

(* Links and bases that only go: a base after its link. *)
Shrinks ==
  /\ UNCHANGED <<origin, unswapped>>
  /\ \A b \in Branches : link'[b] = link[b] \/ link'[b] = NoLink
  /\ link' \in [Branches -> [kb : {0} \cup BaseIds, commit : 0..MaxPushes + 1]]
  /\ DOMAIN codeBase' \subseteq DOMAIN codeBase /\ DOMAIN codeFile' \subseteq DOMAIN codeFile
  /\ \A kb \in DOMAIN codeBase' : codeBase'[kb] = codeBase[kb]
  /\ \A kb \in DOMAIN codeFile' : codeFile'[kb] = codeFile[kb]
  /\ \A b \in Branches : link'[b].kb # 0 =>
       /\ link'[b].kb \in DOMAIN codeBase'
       /\ link'[b].kb \in DOMAIN codeFile => link'[b].kb \in DOMAIN codeFile'

LEMMA ShrunkWorld ==
  ASSUME CrInv, Shrinks, \A q \in ReviewRequests : rev[q].pc = "committed" => rev'[q] = rev[q]
  PROVE  (\A b \in Branches : LinkOK(b)') /\ IndexMatchesRows'
<1>1. \A b \in Branches : LinkOK(b)
  BY DEF CrInv
<1>2. ASSUME NEW b \in Branches, link'[b].kb # 0
      PROVE  /\ link'[b] = link[b] /\ link[b].kb # 0
             /\ link[b].kb \in DOMAIN codeBase' /\ codeBase'[link[b].kb] = codeBase[link[b].kb]
             /\ link[b].kb \in DOMAIN codeFile =>
                  link[b].kb \in DOMAIN codeFile' /\ codeFile'[link[b].kb] = codeFile[link[b].kb]
  BY <1>2 DEF Shrinks, NoLink
<1>3. ASSUME NEW b \in Branches PROVE LinkOK(b)'
  <2> SUFFICES ASSUME link'[b].kb # 0 PROVE LinkOK(b)'
    BY DEF LinkOK
  <2>1. \A c \in Branches : link'[c].kb = link'[b].kb => c = b
    BY <1>1, <1>2 DEF LinkOK
  <2>2. /\ link[b].commit \in 1..Len(origin[b])
        /\ codeBase[link[b].kb].docs = origin[b][link[b].commit]
    BY <1>1, <1>2 DEF LinkOK
  <2> QED
    BY <1>2, <2>1, <2>2 DEF LinkOK, Shrinks
<1>4. IndexMatchesRows'
  <2> SUFFICES ASSUME NEW b \in Branches, link'[b].kb # 0, link'[b].kb \notin unswapped',
                      \A r \in ReviewRequests : rev'[r].pc = "committed" =>
                        link'[b].kb \notin {rev'[r].old, rev'[r].new}
               PROVE  link'[b].kb \in DOMAIN codeFile'
                      /\ codeFile'[link'[b].kb] = codeBase'[link'[b].kb].docs
    BY DEF IndexMatchesRows
  <2>1. link[b].kb \in DOMAIN codeFile /\ codeFile[link[b].kb] = codeBase[link[b].kb].docs
    BY <1>2 DEF CrInv, IndexMatchesRows, Shrinks
  <2> QED
    BY <1>2, <2>1
<1> QED
  BY <1>3, <1>4

----------------------------------------------------------------------------
(* The account of the bases. *)
LEMMA LeftIsFinite ==
  ASSUME NEW home, NEW T
  PROVE  IsFiniteSet(Left(home, T)) /\ Cardinality(Left(home, T)) \in Nat
<1>1. Left(home, T) \subseteq Branches /\ IsFiniteSet(Branches)
  BY CodeReviewAssumption DEF Left, Linked
<1> QED
  BY <1>1, SubsetCard

LEMMA OwingIsFinite ==
  ASSUME NEW T
  PROVE  IsFiniteSet(Owing \ T) /\ Cardinality(Owing \ T) \in Nat
<1>1. Owing \ T \subseteq ReviewRequests /\ IsFiniteSet(ReviewRequests)
  BY CodeReviewAssumption DEF Owing
<1> QED
  BY <1>1, SubsetCard

(* What is paid stays paid while the bases left become fewer and those who *)
(* owe do not.                                                             *)
LEMMA PaidStays ==
  ASSUME NEW home, NEW T, NEW S, Paid(home, T),
         Left(home, S)' \subseteq Left(home, T), Owing \ T \subseteq Owing' \ S
  PROVE  Cardinality(Left(home, S)') <= MaxBaseRefs + Cardinality(Owing' \ S)
<1> DEFINE L == Left(home, T)
           M == Left(home, S)'
           O == Owing \ T
           P == Owing' \ S
<1>1. Cardinality(M) <= Cardinality(L) /\ Cardinality(M) \in Nat /\ Cardinality(L) \in Nat
  <2>1. IsFiniteSet(L) /\ M \subseteq L
    BY LeftIsFinite
  <2> HIDE DEF L, M
  <2> QED
    BY <2>1, SubsetCard
<1>2. Cardinality(O) <= Cardinality(P) /\ Cardinality(O) \in Nat /\ Cardinality(P) \in Nat
  <2>1. P \subseteq ReviewRequests /\ IsFiniteSet(ReviewRequests) /\ O \subseteq P
    BY CodeReviewAssumption DEF Owing
  <2>2. IsFiniteSet(P)
    <3> HIDE DEF P
    <3> QED
      BY <2>1, SubsetCard
  <2> HIDE DEF O, P
  <2> QED
    BY <2>1, <2>2, SubsetCard
<1>3. Cardinality(L) <= MaxBaseRefs + Cardinality(O) /\ MaxBaseRefs \in Nat
  BY CodeReviewAssumption DEF Paid
<1> HIDE DEF L, M, O, P
<1>4. Cardinality(M) <= MaxBaseRefs + Cardinality(P)
  BY <1>1, <1>2, <1>3
<1> QED
  BY <1>4 DEF M, P

(* A step of a request that owes after it what it owed before: no base is  *)
(* left that it had excused.                                               *)
LEMMA DuesStay ==
  ASSUME CrInv, NEW r \in ReviewRequests, Untouched(r), unswapped \subseteq unswapped',
         \A b \in Branches : link'[b].kb \in {0, link[b].kb},
         r \in Owing' <=> r \in Owing,
         r \in Owing => \A b \in Branches :
           link'[b].kb \in Excused(r) /\ link'[b].kb # 0 => link'[b].kb \in Excused(r)'
  PROVE  AllPaid'
<1>1. Owing' = Owing
  BY DEF Owing, Untouched
<1>2. SUFFICES ASSUME NEW home \in {RepoOf[b] : b \in Branches}, NEW T \in SUBSET Owing
               PROVE  Cardinality(Left(home, T)') <= MaxBaseRefs + Cardinality(Owing' \ T)
  BY <1>1 DEF AllPaid, Paid
<1>3. Paid(home, T)
  BY DEF CrInv, AllPaid
<1>4. Left(home, T)' \subseteq Left(home, T)
  <2> SUFFICES ASSUME NEW b \in Branches, RepoOf[b] = home, link'[b].kb # 0,
                      link'[b].kb \notin unswapped', \A q \in T : link'[b].kb \notin Excused(q)'
               PROVE  b \in Left(home, T)
    BY DEF Left, Linked
  <2>1. link'[b].kb = link[b].kb
    OBVIOUS
  <2>2. ASSUME NEW q \in T PROVE link[b].kb \notin Excused(q)
    <3>1. CASE q = r
      BY <2>1, <3>1
    <3>2. CASE q # r
      BY <2>1, <3>2 DEF Excused, Untouched, Owing
    <3> QED
      BY <3>1, <3>2
  <2> QED
    BY <2>1, <2>2 DEF Left, Linked
<1> QED
  BY <1>1, <1>3, <1>4, PaidStays

(* Who stops owing has seen off what it had excused. *)
LEMMA DuesEnd ==
  ASSUME CrInv, NEW r \in ReviewRequests, Untouched(r), unswapped \subseteq unswapped',
         \A b \in Branches : link'[b].kb \in {0, link[b].kb},
         r \in Owing, r \notin Owing',
         \A b \in Branches : link'[b].kb \in Excused(r) => link'[b].kb \in {0} \cup unswapped'
  PROVE  AllPaid'
<1>1. Owing' = Owing \ {r}
  BY DEF Owing, Untouched
<1>2. SUFFICES ASSUME NEW home \in {RepoOf[b] : b \in Branches}, NEW T \in SUBSET (Owing \ {r})
               PROVE  Cardinality(Left(home, T)') <= MaxBaseRefs + Cardinality(Owing' \ T)
  BY <1>1 DEF AllPaid, Paid
<1> DEFINE S == T \cup {r}
<1>3. Paid(home, S) /\ Owing \ S \subseteq Owing' \ T
  BY <1>1 DEF CrInv, AllPaid
<1>4. Left(home, T)' \subseteq Left(home, S)
  <2> SUFFICES ASSUME NEW b \in Branches, RepoOf[b] = home, link'[b].kb # 0,
                      link'[b].kb \notin unswapped', \A q \in T : link'[b].kb \notin Excused(q)'
               PROVE  b \in Left(home, S)
    BY DEF Left, Linked
  <2>1. link'[b].kb = link[b].kb /\ link[b].kb \notin Excused(r)
    OBVIOUS
  <2>2. ASSUME NEW q \in T PROVE link[b].kb \notin Excused(q)
    BY <2>1 DEF Excused, Untouched, Owing
  <2> QED
    BY <2>1, <2>2 DEF Left, Linked
<1> HIDE DEF S
<1> QED
  BY <1>3, <1>4, PaidStays

----------------------------------------------------------------------------
(* A request's step that takes links and bases away at most.               *)
LEMMA TypesStayIn ==
  ASSUME CrInv, NEW r \in ReviewRequests, NEW d \in RevType, rev' = [rev EXCEPT ![r] = d]
  PROVE  /\ rev' \in [ReviewRequests -> RevType] /\ rev'[r] = d /\ Untouched(r)
BY DEF CrInv, CrTypeOK, Untouched

LEMMA ShrinkKeeps ==
  ASSUME CrInv, NEW r \in ReviewRequests, NEW d \in RevType, rev' = [rev EXCEPT ![r] = d],
         Shrinks, rev[r].pc # "committed", d.new = rev[r].new,
         {d.old, d.drop} \cup d.rest \subseteq Given,
         prLock' \in [PullRequests -> ReviewRequests \cup {Nobody}], LocksKept(r),
         refresher' \in ReviewRequests \cup {Nobody},
         \A kb \in DOMAIN codeBase' :
           kb = rev[r].drop \/ (\E b \in Branches : link[b].kb = kb /\ link'[b].kb # kb) => d.drop = kb,
         LocksOK', ReviewOK(r)', AllPaid'
  PROVE  CrInv'
<1>1. rev' \in [ReviewRequests -> RevType] /\ rev'[r] = d /\ Untouched(r)
  BY TypesStayIn
<1>2. CrTypeOK'
  BY <1>1 DEF CrInv, CrTypeOK, Shrinks
<1>3. NextId' = NextId /\ Given' = Given
  BY <1>1, IdsStay DEF Untouched
<1>4. FreshOK'
  <2>1. DOMAIN codeBase' \cup DOMAIN codeFile' \cup unswapped' \subseteq Given
    BY DEF CrInv, FreshOK, Shrinks
  <2>2. ASSUME NEW b \in Branches PROVE link'[b].kb \in Given
    BY IdsAreNumbers DEF CrInv, FreshOK, Shrinks, NoLink, Given
  <2>3. ASSUME NEW q \in ReviewRequests
        PROVE  {rev'[q].old, rev'[q].new, rev'[q].drop} \cup rev'[q].rest \subseteq Given
    <3>1. {rev[q].old, rev[q].new, rev[q].drop} \cup rev[q].rest \subseteq Given
      BY DEF CrInv, FreshOK
    <3>2. rev[r].new \in Given
      BY DEF CrInv, FreshOK
    <3>3. CASE q = r
      BY <1>1, <3>2, <3>3
    <3>4. CASE q # r
      BY <1>1, <3>1, <3>4 DEF Untouched
    <3> QED
      BY <3>3, <3>4
  <2> QED
    BY <1>3, <2>1, <2>2, <2>3 DEF FreshOK
<1>5. (\A b \in Branches : LinkOK(b)') /\ IndexMatchesRows'
  BY <1>1, ShrunkWorld DEF Untouched
<1>6. ASSUME NEW q \in ReviewRequests PROVE ReviewOK(q)'
  <2>1. CASE q = r
    BY <2>1
  <2>2. CASE q # r
    <3>1. IndexMoves({}) /\ rev'[q] = rev[q]
      BY <1>1, <2>2 DEF IndexMoves, Shrinks, Untouched
    <3> QED
      BY <2>2, <3>1, OtherStays DEF LocksKept
  <2> QED
    BY <2>1, <2>2
<1>7. NoStrayBase'
  <2> SUFFICES ASSUME NEW kb \in DOMAIN codeBase', \A b \in Branches : link'[b].kb # kb
               PROVE  \E q \in ReviewRequests : rev'[q].drop = kb
    BY DEF NoStrayBase
  <2>1. \/ \E b \in Branches : link[b].kb = kb
        \/ \E q \in ReviewRequests : rev[q].drop = kb
    BY DEF CrInv, NoStrayBase, Shrinks
  <2>2. CASE d.drop = kb
    BY <1>1, <2>2
  <2>3. ASSUME NEW q \in ReviewRequests \ {r}, rev[q].drop = kb PROVE rev'[q].drop = kb
    BY <1>1, <2>3 DEF Untouched
  <2> QED
    BY <2>1, <2>2, <2>3
<1> QED
  BY <1>2, <1>4, <1>5, <1>6, <1>7 DEF CrInv

LEMMA QuietKeeps ==
  ASSUME CrInv, NEW r \in ReviewRequests, NEW d \in RevType, rev' = [rev EXCEPT ![r] = d],
         UNCHANGED <<origin, link, codeBase, codeFile, unswapped>>,
         rev[r].pc # "committed", d.new = rev[r].new, d.drop = rev[r].drop,
         {d.old} \cup d.rest \subseteq Given,
         prLock' \in [PullRequests -> ReviewRequests \cup {Nobody}], LocksKept(r),
         refresher' \in ReviewRequests \cup {Nobody},
         \/ d.pc \notin InLock
         \/ rev[r].pc \in InLock /\ d.branch = rev[r].branch
         \/ \A q \in ReviewRequests \ {r} : rev[q].branch = d.branch => rev[q].pc \notin InLock,
         \/ d.pc \notin {"embedding", "committed"}
         \/ rev[r].pc \in {"embedding", "committed"}
         \/ \A q \in ReviewRequests : rev[q].pc \notin {"embedding", "committed"},
         ReviewOK(r)', AllPaid'
  PROVE  CrInv'
<1>1. Untouched(r) /\ rev'[r] = d
  BY TypesStayIn
<1>2. LocksOK'
  BY <1>1, LocksStay
<1>3. Shrinks
  <2>1. \A b \in Branches : link[b].kb # 0 => link[b].kb \in DOMAIN codeBase
    BY DEF CrInv, LinkOK
  <2> QED
    BY <2>1 DEF Shrinks, CrInv, CrTypeOK
<1>4. rev[r].drop \in Given
  BY ReviewFacts
<1> QED
  BY <1>2, <1>3, <1>4, ShrinkKeeps

Owes == {"committed", "evicting", "pruning", "dropping"}

(* ... of a request that owes nothing. *)
LEMMA IdleKeeps ==
  ASSUME CrInv, NEW r \in ReviewRequests, NEW d \in RevType, rev' = [rev EXCEPT ![r] = d],
         UNCHANGED <<origin, link, codeBase, codeFile, unswapped>>,
         rev[r].pc \notin Owes, d.pc \notin Owes, d.new = rev[r].new, d.drop = rev[r].drop,
         {d.old} \cup d.rest \subseteq Given,
         prLock' \in [PullRequests -> ReviewRequests \cup {Nobody}], LocksKept(r),
         refresher' \in ReviewRequests \cup {Nobody},
         \/ d.pc \notin InLock
         \/ rev[r].pc \in InLock /\ d.branch = rev[r].branch
         \/ \A q \in ReviewRequests \ {r} : rev[q].branch = d.branch => rev[q].pc \notin InLock,
         \/ d.pc # "embedding"
         \/ \A q \in ReviewRequests : rev[q].pc \notin {"embedding", "committed"},
         ReviewOK(r)'
  PROVE  CrInv'
<1>1. Untouched(r) /\ rev'[r] = d
  BY TypesStayIn
<1>2. AllPaid'
  BY <1>1, DuesStay DEF Owing, Owes
<1> QED
  BY <1>2, QuietKeeps DEF Owes

(* What the end of a request, or its way on to the review itself, leaves   *)
(* of it.                                                                  *)
LEMMA Leaves ==
  ASSUME CrInv, NEW r \in ReviewRequests, rev[r].pc \notin {"new", "done"}, rev[r].drop = 0,
         RevEnds(r, rev[r]) \/ Refreshed(r, rev[r])
  PROVE  /\ \E d \in RevType :
              /\ rev' = [rev EXCEPT ![r] = d] /\ d.pc \in {"done", "reviewing"}
              /\ d.new = rev[r].new /\ d.drop = 0 /\ {d.old} \cup d.rest \subseteq Given
         /\ prLock' \in [PullRequests -> ReviewRequests \cup {Nobody}] /\ LocksKept(r)
         /\ refresher' \in ReviewRequests \cup {Nobody}
         /\ ReviewOK(r)' /\ Untouched(r) /\ rev'[r].pc \in {"done", "reviewing"}
         /\ rev'[r].new = rev[r].new
<1>1. /\ rev \in [ReviewRequests -> RevType] /\ rev[r] \in RevType /\ ReviewOK(r)
      /\ rev[r].new \in {0} \cup BaseIds /\ rev[r].pr \in PullRequests
      /\ {rev[r].old} \cup rev[r].rest \subseteq Given /\ 0 \in Given
      /\ prLock \in [PullRequests -> ReviewRequests \cup {Nobody}]
      /\ refresher \in ReviewRequests \cup {Nobody}
  BY ReviewFacts, IdsAreNumbers DEF RevType, CrInv, CrTypeOK, Given
<1>2. \A q \in ReviewRequests \ {r} :
        rev[q].kind = "review" /\ rev[q].pc \notin {"new", "done"} => prLock[rev[q].pr] = q
  BY DEF CrInv, ReviewOK
<1>3. CASE RevEnds(r, rev[r])
  <2> DEFINE d == [NoReview EXCEPT !.new = rev[r].new, !.pc = "done"]
  <2>1. /\ d \in RevType /\ d.pc = "done" /\ d.new = rev[r].new /\ d.drop = 0 /\ d.old = 0
        /\ d.rest = {} /\ d.kind = "review"
    BY <1>1, NoReviewFits DEF RevType
  <2>2. rev' = [rev EXCEPT ![r] = d]
    BY <1>3 DEF RevEnds
  <2> HIDE DEF d
  <2>3. rev'[r] = d /\ Untouched(r)
    BY <2>1, <2>2, TypesStayIn
  <2>4. ReviewOK(r)'
    BY <2>1, <2>3 DEF ReviewOK, Uncommitted, HasTip, Rebuilding
  <2>5. /\ prLock' \in [PullRequests -> ReviewRequests \cup {Nobody}]
        /\ refresher' \in ReviewRequests \cup {Nobody}
    BY <1>1, <1>3 DEF RevEnds
  <2>6. LocksKept(r)
    <3> SUFFICES ASSUME NEW q \in ReviewRequests \ {r}, rev[q].kind = "review",
                        rev[q].pc \notin {"new", "done"}
                 PROVE  prLock'[rev[q].pr] = q
      BY DEF LocksKept
    <3>1. prLock[rev[q].pr] = q
      BY <1>2
    <3>2. CASE rev[r].kind = "review"
      <4>1. rev[q].pr \in PullRequests /\ prLock[rev[r].pr] = r
        BY <1>1, <3>2, ReviewFacts DEF ReviewOK
      <4> QED
        BY <1>1, <1>3, <3>1, <3>2, <4>1 DEF RevEnds
    <3>3. CASE rev[r].kind # "review"
      BY <1>3, <3>1, <3>3 DEF RevEnds
    <3> QED
      BY <3>2, <3>3
  <2> QED
    BY <1>1, <2>1, <2>2, <2>3, <2>4, <2>5, <2>6
<1>4. CASE ~RevEnds(r, rev[r])
  <2> DEFINE d == [rev[r] EXCEPT !.pc = "reviewing"]
  <2>1. /\ d \in RevType /\ d.pc = "reviewing" /\ d.new = rev[r].new /\ d.drop = 0
        /\ d.old = rev[r].old /\ d.rest = rev[r].rest /\ d.kind = rev[r].kind /\ d.pr = rev[r].pr
    BY <1>1 DEF RevType
  <2>2. rev' = [rev EXCEPT ![r] = d] /\ UNCHANGED <<prLock, refresher>>
    BY <1>4 DEF Refreshed
  <2> HIDE DEF d
  <2>3. rev'[r] = d /\ Untouched(r)
    BY <2>1, <2>2, TypesStayIn
  <2>4. ReviewOK(r)'
    BY <1>1, <2>1, <2>2, <2>3 DEF ReviewOK, Uncommitted, HasTip, Rebuilding
  <2>5. LocksKept(r)
    BY <1>2, <2>2 DEF LocksKept
  <2> QED
    BY <1>1, <2>1, <2>2, <2>3, <2>4, <2>5
<1> QED
  BY <1>3, <1>4

(* An end before anything was committed, or a review that is written.      *)
LEMMA LeavingKeeps ==
  ASSUME CrInv, NEW r \in ReviewRequests, rev[r].pc \notin {"new", "done"} \cup Owes,
         UNCHANGED <<origin, link, codeBase, codeFile, unswapped>>,
         RevEnds(r, rev[r]) \/ Refreshed(r, rev[r])
  PROVE  CrInv'
<1>1. rev[r].drop = 0
  BY ReviewFacts DEF ReviewOK, Owes
<1>2. PICK d \in RevType :
        /\ rev' = [rev EXCEPT ![r] = d] /\ d.pc \in {"done", "reviewing"}
        /\ d.new = rev[r].new /\ d.drop = 0 /\ {d.old} \cup d.rest \subseteq Given
  BY <1>1, Leaves
<1>3. /\ prLock' \in [PullRequests -> ReviewRequests \cup {Nobody}] /\ LocksKept(r)
      /\ refresher' \in ReviewRequests \cup {Nobody} /\ ReviewOK(r)'
  BY <1>1, Leaves
<1>4. d.pc \notin Owes /\ d.pc \notin InLock
  BY <1>2 DEF Owes, InLock
<1> QED
  BY <1>1, <1>2, <1>3, <1>4, IdleKeeps

LEMMA PostReviewStep == ASSUME CrInv, NEW r \in ReviewRequests, PostReview(r) PROVE CrInv'
<1>1. /\ rev[r].pc = "new" /\ rev[r] \in RevType /\ rev \in [ReviewRequests -> RevType]
      /\ ReviewOK(r) /\ rev[r].drop = 0 /\ rev[r].new = 0 /\ {rev[r].old} \cup rev[r].rest \subseteq Given
      /\ refresher \in ReviewRequests \cup {Nobody}
      /\ prLock \in [PullRequests -> ReviewRequests \cup {Nobody}]
  BY ReviewFacts DEF PostReview, ReviewOK, Uncommitted, CrInv, CrTypeOK
<1>2. PICK p \in PullRequests, b \in Branches, m \in Models :
        LET free == prLock[p] = Nobody IN
        /\ rev' = [rev EXCEPT ![r] =
             IF free THEN [@ EXCEPT !.kind = "review", !.pr = p, !.branch = b, !.model = m, !.pc = "settings"]
             ELSE [@ EXCEPT !.pc = "done"]]
        /\ prLock' = IF free THEN [prLock EXCEPT ![p] = r] ELSE prLock
  BY DEF PostReview
<1>3. UNCHANGED <<origin, link, codeBase, codeFile, refresher, unswapped>>
  BY DEF PostReview
<1>4. \A q \in ReviewRequests : rev[q].kind = "review" /\ rev[q].pc \notin {"new", "done"} =>
        prLock[rev[q].pr] = q /\ rev[q].pr \in PullRequests /\ q # Nobody
  BY ReviewFacts, CodeReviewAssumption DEF ReviewOK
<1>5. CASE prLock[p] = Nobody
  <2> DEFINE d == [rev[r] EXCEPT !.kind = "review", !.pr = p, !.branch = b, !.model = m, !.pc = "settings"]
  <2>1. /\ d \in RevType /\ d.kind = "review" /\ d.pr = p /\ d.pc = "settings" /\ d.new = 0 /\ d.drop = 0
        /\ d.old = rev[r].old /\ d.rest = rev[r].rest
    BY <1>1 DEF RevType
  <2>2. rev' = [rev EXCEPT ![r] = d] /\ prLock' = [prLock EXCEPT ![p] = r]
    BY <1>1, <1>2, <1>5
  <2> HIDE DEF d
  <2>3. rev'[r] = d
    BY <2>1, <2>2, TypesStayIn
  <2>4. LocksKept(r)
    BY <1>1, <1>4, <1>5, <2>2 DEF LocksKept
  <2>5. ReviewOK(r)'
    BY <1>1, <2>1, <2>2, <2>3 DEF ReviewOK, Uncommitted, HasTip, Rebuilding
  <2>6. prLock' \in [PullRequests -> ReviewRequests \cup {Nobody}]
    BY <1>1, <2>2
  <2> QED
    BY <1>1, <1>3, <2>1, <2>2, <2>4, <2>5, <2>6, IdleKeeps DEF Owes, InLock
<1>6. CASE prLock[p] # Nobody
  <2> DEFINE d == [rev[r] EXCEPT !.pc = "done"]
  <2>1. /\ d \in RevType /\ d.pc = "done" /\ d.new = 0 /\ d.drop = 0
        /\ d.old = rev[r].old /\ d.rest = rev[r].rest
    BY <1>1 DEF RevType
  <2>2. rev' = [rev EXCEPT ![r] = d] /\ prLock' = prLock
    BY <1>1, <1>2, <1>6
  <2> HIDE DEF d
  <2>3. rev'[r] = d
    BY <2>1, <2>2, TypesStayIn
  <2>4. LocksKept(r)
    BY <1>4, <2>2 DEF LocksKept
  <2>5. ReviewOK(r)'
    BY <2>1, <2>3 DEF ReviewOK, Uncommitted, HasTip, Rebuilding
  <2> QED
    BY <1>1, <1>3, <2>1, <2>2, <2>4, <2>5, IdleKeeps DEF Owes, InLock
<1> QED
  BY <1>5, <1>6

(* Steps that leave the lock of the Pull Request alone. *)
LEMMA MovesOn ==
  ASSUME CrInv, NEW r \in ReviewRequests, NEW d \in RevType, rev' = [rev EXCEPT ![r] = d],
         UNCHANGED <<origin, link, codeBase, codeFile, prLock, unswapped>>,
         refresher' \in ReviewRequests \cup {Nobody},
         rev[r].pc \in {"new", "settings", "checks", "waiting", "locked", "fetched", "diffed", "queued"},
         d.pc \notin Owes, d.new = rev[r].new, d.drop = rev[r].drop, d.rest = rev[r].rest,
         d.old \in Given,
         \/ d.pc \notin InLock
         \/ rev[r].pc \in InLock /\ d.branch = rev[r].branch
         \/ \A q \in ReviewRequests \ {r} : rev[q].branch = d.branch => rev[q].pc \notin InLock,
         \/ d.pc # "embedding"
         \/ \A q \in ReviewRequests : rev[q].pc \notin {"embedding", "committed"},
         ReviewOK(r)'
  PROVE  CrInv'
<1>1. /\ rev[r].rest \subseteq Given /\ prLock \in [PullRequests -> ReviewRequests \cup {Nobody}]
      /\ rev[r].pc \notin Owes
  BY ReviewFacts DEF Owes
<1>2. LocksKept(r)
  BY DEF LocksKept, CrInv, ReviewOK
<1> QED
  BY <1>1, <1>2, IdleKeeps

LEMMA PostRefreshStep == ASSUME CrInv, NEW r \in ReviewRequests, PostRefresh(r) PROVE CrInv'
<1>1. /\ rev[r].pc = "new" /\ rev[r] \in RevType /\ rev \in [ReviewRequests -> RevType]
      /\ ReviewOK(r) /\ rev[r].drop = 0 /\ rev[r].new = 0 /\ rev[r].old \in Given
      /\ refresher' \in ReviewRequests \cup {Nobody}
      /\ UNCHANGED <<origin, link, codeBase, codeFile, prLock, unswapped>>
  BY ReviewFacts DEF PostRefresh, ReviewOK, Uncommitted, CrInv, CrTypeOK
<1>2. PICK b \in Branches, m \in Models :
       rev' = [rev EXCEPT ![r] =
         IF refresher = Nobody THEN [@ EXCEPT !.kind = "refresh", !.branch = b, !.model = m, !.pc = "checks"]
         ELSE [@ EXCEPT !.pc = "done"]]
  BY DEF PostRefresh
<1> DEFINE job == [rev[r] EXCEPT !.kind = "refresh", !.branch = b, !.model = m, !.pc = "checks"]
           over == [rev[r] EXCEPT !.pc = "done"]
<1>3. ASSUME NEW d \in {job, over}, rev' = [rev EXCEPT ![r] = d] PROVE CrInv'
  <2>1. /\ d.kind = "refresh" \/ d.pc = "done"
        /\ d.pc \in {"checks", "done"} /\ d.new = 0 /\ d.drop = 0
        /\ d.old = rev[r].old /\ d.rest = rev[r].rest
    BY <1>1 DEF RevType
  <2>2. d \in RevType
    BY <1>1 DEF RevType
  <2> HIDE DEF job, over
  <2>3. rev'[r] = d
    BY <1>3, <2>2, TypesStayIn
  <2>4. ReviewOK(r)'
    BY <2>1, <2>3 DEF ReviewOK, Uncommitted, HasTip, Rebuilding
  <2> QED
    BY <1>1, <1>3, <2>1, <2>2, <2>4, MovesOn DEF Owes, InLock
<1>4. rev' = [rev EXCEPT ![r] = job] \/ rev' = [rev EXCEPT ![r] = over]
  BY <1>1, <1>2
<1> QED
  BY <1>3, <1>4

(* A step that changes the control point alone. *)
LEMMA GoesKeeps ==
  ASSUME CrInv, NEW r \in ReviewRequests,
         NEW p \in {"checks", "waiting", "locked", "queued", "embedding"}, RevGoes(r, p),
         UNCHANGED <<origin, link, codeBase, codeFile, prLock, refresher, unswapped>>,
         rev[r].pc \in {"settings", "checks", "waiting", "diffed", "queued"},
         p \in {"queued", "embedding"} => rev[r].pc \in {"diffed", "queued"},
         p = "locked" =>
           \A q \in ReviewRequests \ {r} : rev[q].branch = rev[r].branch => rev[q].pc \notin InLock,
         p = "embedding" => \A q \in ReviewRequests : rev[q].pc \notin {"embedding", "committed"}
  PROVE  CrInv'
<1> DEFINE d == [rev[r] EXCEPT !.pc = p]
<1>1. /\ rev[r] \in RevType /\ rev \in [ReviewRequests -> RevType] /\ ReviewOK(r)
      /\ rev[r].old \in Given /\ refresher \in ReviewRequests \cup {Nobody}
  BY ReviewFacts DEF CrInv, CrTypeOK
<1>2. /\ d \in RevType /\ d.pc = p /\ d.kind = rev[r].kind /\ d.pr = rev[r].pr /\ d.branch = rev[r].branch
      /\ d.commit = rev[r].commit /\ d.old = rev[r].old /\ d.new = rev[r].new /\ d.docs = rev[r].docs
      /\ d.drop = rev[r].drop /\ d.rest = rev[r].rest
  BY <1>1 DEF RevType
<1>3. rev' = [rev EXCEPT ![r] = d]
  BY <1>1 DEF RevGoes
<1> HIDE DEF d
<1>4. rev'[r] = d
  BY <1>2, <1>3, TypesStayIn
<1>5. ReviewOK(r)'
  BY <1>1, <1>2, <1>4 DEF ReviewOK, Uncommitted, HasTip, Rebuilding, Own
<1>6. \/ d.pc \notin InLock
      \/ rev[r].pc \in InLock /\ d.branch = rev[r].branch
      \/ \A q \in ReviewRequests \ {r} : rev[q].branch = d.branch => rev[q].pc \notin InLock
  BY <1>2 DEF InLock
<1> QED
  BY <1>1, <1>2, <1>3, <1>5, <1>6, MovesOn DEF Owes

LEMMA RevPreparesStep == ASSUME CrInv, NEW r \in ReviewRequests, RevPrepares(r) PROVE CrInv'
<1>1. CASE RevEnds(r, rev[r]) /\ rev[r].pc \in {"settings", "checks"}
  BY <1>1, LeavingKeeps DEF RevPrepares, Owes
<1>2. CASE \E p \in {"checks", "waiting"} : RevGoes(r, p) /\ rev[r].pc \in {"settings", "checks"}
                                        /\ UNCHANGED <<prLock, refresher>>
  BY <1>2, GoesKeeps DEF RevPrepares
<1> QED
  BY <1>1, <1>2 DEF RevPrepares

LEMMA EntersLockStep == ASSUME CrInv, NEW r \in ReviewRequests, EntersLock(r) PROVE CrInv'
BY GoesKeeps DEF EntersLock

LEMMA CrTakesSlotStep == ASSUME CrInv, NEW r \in ReviewRequests, CrTakesSlot(r) PROVE CrInv'
BY GoesKeeps DEF CrTakesSlot

LEMMA RefreshFailsStep == ASSUME CrInv, NEW r \in ReviewRequests, RefreshFails(r) PROVE CrInv'
BY LeavingKeeps DEF RefreshFails, Owes

LEMMA ReviewsStep == ASSUME CrInv, NEW r \in ReviewRequests, Reviews(r) PROVE CrInv'
BY LeavingKeeps DEF Reviews, Owes

LEMMA FetchesStep == ASSUME CrInv, NEW r \in ReviewRequests, Fetches(r) PROVE CrInv'
<1> DEFINE b == rev[r].branch
           d == [rev[r] EXCEPT !.commit = Len(origin[b]), !.pc = "fetched"]
<1>1. /\ rev[r].pc = "locked" /\ rev[r] \in RevType /\ rev \in [ReviewRequests -> RevType] /\ ReviewOK(r)
      /\ rev[r].old \in Given /\ refresher \in ReviewRequests \cup {Nobody} /\ b \in Branches
      /\ UNCHANGED <<origin, link, codeBase, codeFile, prLock, refresher, unswapped>>
  BY ReviewFacts DEF Fetches, CrInv, CrTypeOK
<1>2. /\ Len(origin[b]) \in 1..MaxPushes + 1 /\ Len(origin[b]) \in 0..MaxPushes + 1
      /\ Len(origin[b]) \in 1..Len(origin[b])
      /\ link[b].kb # 0 => link[b].commit <= Len(origin[b])
  <2>1. Len(origin[b]) \in 1..MaxPushes + 1 /\ Len(origin[b]) \in Nat
    BY <1>1, CodeReviewAssumption DEF CrInv, CrTypeOK
  <2>2. link[b].kb # 0 => link[b].commit <= Len(origin[b])
    BY <1>1, <2>1 DEF CrInv, LinkOK
  <2> QED
    BY <2>1, <2>2, CodeReviewAssumption
<1>3. /\ d \in RevType /\ d.pc = "fetched" /\ d.kind = rev[r].kind /\ d.pr = rev[r].pr
      /\ d.branch = b /\ d.commit = Len(origin[b]) /\ d.old = rev[r].old /\ d.new = rev[r].new
      /\ d.drop = rev[r].drop /\ d.rest = rev[r].rest
  BY <1>1, <1>2 DEF RevType
<1>4. rev' = [rev EXCEPT ![r] = d]
  BY <1>1 DEF Fetches
<1> HIDE DEF d
<1>5. rev'[r] = d
  BY <1>3, <1>4, TypesStayIn
<1>6. ReviewOK(r)'
  BY <1>1, <1>2, <1>3, <1>5 DEF ReviewOK, Uncommitted, HasTip, Rebuilding
<1> QED
  BY <1>1, <1>3, <1>4, <1>6, MovesOn DEF Owes, InLock

(* A base that is on its way out, or whose branch is in the hands of a     *)
(* refresh that lost it, is nobody else's.                                 *)
LEMMA LoadsExistingStep == ASSUME CrInv, NEW r \in ReviewRequests, LoadsExisting(r) PROVE CrInv'
<1> DEFINE b == rev[r].branch
           kb == link[b].kb
<1>1. /\ rev[r].pc = "fetched" /\ rev[r] \in RevType /\ rev \in [ReviewRequests -> RevType] /\ ReviewOK(r)
      /\ rev[r].new = 0 /\ rev[r].drop = 0 /\ rev[r].rest \subseteq Given /\ 0 \in Given
      /\ refresher \in ReviewRequests \cup {Nobody} /\ b \in Branches /\ kb \in Given
      /\ prLock \in [PullRequests -> ReviewRequests \cup {Nobody}]
      /\ link \in [Branches -> [kb : {0} \cup BaseIds, commit : 0..MaxPushes + 1]]
      /\ kb \in {0} \cup BaseIds /\ LinkOK(b)
      /\ UNCHANGED <<origin, codeBase, codeFile, prLock, refresher, unswapped>>
  BY ReviewFacts, IdsAreNumbers DEF LoadsExisting, CrInv, CrTypeOK, ReviewOK, Uncommitted, Given
<1>2. rev[r].commit \in 1..Len(origin[b]) /\ (kb # 0 => link[b].commit <= rev[r].commit)
  BY <1>1 DEF ReviewOK, HasTip
<1>3. \A c \in Branches : kb # 0 /\ link[c].kb = kb => c = b
  BY <1>1 DEF LinkOK
<1>4. CASE kb # 0 /\ codeBase[kb].model # rev[r].model
  <2> DEFINE d == [rev[r] EXCEPT !.old = 0, !.docs = NoTree, !.drop = kb, !.pc = "dropping"]
  <2>1. /\ d \in RevType /\ d.pc = "dropping" /\ d.kind = rev[r].kind /\ d.pr = rev[r].pr
        /\ d.branch = b /\ d.commit = rev[r].commit /\ d.old = 0 /\ d.new = 0 /\ d.docs = NoTree
        /\ d.drop = kb /\ d.rest = rev[r].rest
    BY <1>1, TreesFit DEF RevType
  <2>2. rev' = [rev EXCEPT ![r] = d] /\ link' = [link EXCEPT ![b] = NoLink]
    BY <1>1, <1>4 DEF LoadsExisting
  <2> HIDE DEF d
  <2>3. rev'[r] = d /\ Untouched(r)
    BY <2>1, <2>2, TypesStayIn
  <2>4. /\ link' \in [Branches -> [kb : {0} \cup BaseIds, commit : 0..MaxPushes + 1]]
        /\ link'[b].kb = 0 /\ \A c \in Branches \ {b} : link'[c] = link[c]
    BY <1>1, <2>2, CodeReviewAssumption DEF NoLink
  <2>5. ReviewOK(r)'
    BY <1>1, <1>2, <1>3, <1>4, <2>1, <2>3, <2>4 DEF ReviewOK, Uncommitted, HasTip, Rebuilding
  <2>6. Shrinks
    <3>1. \A c \in Branches : link[c].kb # 0 => link[c].kb \in DOMAIN codeBase
      BY DEF CrInv, LinkOK
    <3> QED
      BY <1>1, <2>2, <2>4, <3>1 DEF Shrinks
  <2>7. AllPaid'
    BY <1>1, <2>1, <2>3, <2>4, DuesStay DEF Owing
  <2>8. LocksOK'
    BY <1>1, <2>1, <2>3, LocksStay DEF InLock
  <2>9. LocksKept(r)
    BY <1>1 DEF LocksKept, CrInv, ReviewOK
  <2>10. \A k \in DOMAIN codeBase' :
           k = rev[r].drop \/ (\E c \in Branches : link[c].kb = k /\ link'[c].kb # k) => d.drop = k
    <3>1. 0 \notin DOMAIN codeBase
      BY IdsAreNumbers DEF CrInv, CrTypeOK
    <3> QED
      BY <1>1, <2>1, <2>4, <3>1
  <2> QED
    BY <1>1, <2>1, <2>2, <2>5, <2>6, <2>7, <2>8, <2>9, <2>10, ShrinkKeeps
<1>5. CASE ~(kb # 0 /\ codeBase[kb].model # rev[r].model)
  <2> DEFINE docs == IF kb = 0 THEN NoTree ELSE codeBase[kb].docs
             d == [rev[r] EXCEPT !.old = kb, !.pc = "diffed", !.docs = docs]
  <2>1. docs \in Patchwork
    <3>1. kb # 0 => codeBase[kb].docs \in Trees
      BY <1>1 DEF LinkOK, CrInv, CrTypeOK
    <3> QED
      BY <3>1, TreesFit
  <2>2. /\ rev' = [rev EXCEPT ![r] = d] /\ link' = link
    BY <1>1, <1>5 DEF LoadsExisting
  <2> HIDE DEF docs
  <2>3. /\ d \in RevType /\ d.pc = "diffed" /\ d.kind = rev[r].kind /\ d.pr = rev[r].pr
        /\ d.branch = b /\ d.commit = rev[r].commit /\ d.old = kb /\ d.new = 0 /\ d.docs = docs
        /\ d.drop = 0 /\ d.rest = rev[r].rest
    BY <1>1, <2>1 DEF RevType
  <2> HIDE DEF d
  <2>4. rev'[r] = d
    BY <2>2, <2>3, TypesStayIn
  <2>5. ReviewOK(r)'
    <3>1. kb \in DOMAIN codeBase => kb # 0
      BY DEF CrInv, CrTypeOK, BaseIds
    <3> QED
      BY <1>1, <1>2, <1>3, <2>2, <2>3, <2>4, <3>1
         DEF ReviewOK, Uncommitted, HasTip, Rebuilding, Own, docs
  <2> QED
    BY <1>1, <2>2, <2>3, <2>5, MovesOn DEF Owes, InLock
<1> QED
  BY <1>4, <1>5

(* Two maps without one of their keys. *)
LEMMA RemovedFacts ==
  ASSUME NEW f, NEW kb
  PROVE  /\ DOMAIN Removed(f, kb) = DOMAIN f \ {kb}
         /\ \A x \in DOMAIN f \ {kb} : Removed(f, kb)[x] = f[x]
BY DEF Removed

LEMMA DropsBaseStep == ASSUME CrInv, NEW r \in ReviewRequests, DropsBase(r) PROVE CrInv'
<1> DEFINE b == rev[r].branch
           kb == rev[r].drop
           pc == IF rev[r].new = 0 THEN "diffed" ELSE "pruning"
           d == [rev[r] EXCEPT !.drop = 0, !.pc = pc]
<1>1. /\ rev[r].pc = "dropping" /\ rev[r] \in RevType /\ rev \in [ReviewRequests -> RevType] /\ ReviewOK(r)
      /\ rev[r].old \in Given /\ rev[r].rest \subseteq Given /\ 0 \in Given
      /\ refresher \in ReviewRequests \cup {Nobody} /\ b \in Branches
      /\ prLock \in [PullRequests -> ReviewRequests \cup {Nobody}]
      /\ link \in [Branches -> [kb : {0} \cup BaseIds, commit : 0..MaxPushes + 1]]
      /\ UNCHANGED <<origin, link, prLock, refresher, unswapped>>
      /\ rev[r].new \in Nat /\ kb # 0 /\ rev[r].old = 0
  <2>1. rev[r].pc = "dropping" /\ UNCHANGED <<origin, link, prLock, refresher, unswapped>>
    BY DEF DropsBase
  <2>2. /\ refresher \in ReviewRequests \cup {Nobody}
        /\ link \in [Branches -> [kb : {0} \cup BaseIds, commit : 0..MaxPushes + 1]]
    BY DEF CrInv, CrTypeOK
  <2>3. kb # 0 /\ rev[r].old = 0
    BY <2>1, ReviewFacts DEF ReviewOK
  <2> QED
    BY <2>1, <2>2, <2>3, ReviewFacts
<1>2. /\ d \in RevType /\ d.pc = pc /\ d.kind = rev[r].kind /\ d.pr = rev[r].pr
      /\ d.branch = b /\ d.commit = rev[r].commit /\ d.old = rev[r].old /\ d.new = rev[r].new
      /\ d.docs = rev[r].docs /\ d.drop = 0 /\ d.rest = rev[r].rest
  BY <1>1 DEF RevType
<1>3. /\ rev' = [rev EXCEPT ![r] = d]
      /\ codeBase' = Removed(codeBase, kb) /\ codeFile' = Removed(codeFile, kb)
  BY <1>1 DEF DropsBase
<1> HIDE DEF d
<1>4. rev'[r] = d /\ Untouched(r)
  BY <1>2, <1>3, TypesStayIn
<1>5. /\ DOMAIN codeBase' = DOMAIN codeBase \ {kb} /\ DOMAIN codeFile' = DOMAIN codeFile \ {kb}
      /\ \A x \in DOMAIN codeBase \ {kb} : codeBase'[x] = codeBase[x]
      /\ \A x \in DOMAIN codeFile \ {kb} : codeFile'[x] = codeFile[x]
  BY <1>3, RemovedFacts
<1>6. \A c \in Branches : link[c].kb # 0 => link[c].kb # kb /\ link[c].kb \in DOMAIN codeBase
  BY <1>1 DEF CrInv, LinkOK, ReviewOK
<1>7. Shrinks
  BY <1>1, <1>5, <1>6 DEF Shrinks
<1>8. ReviewOK(r)'
  <2>1. CASE rev[r].new = 0
    <3>1. link[b].kb = 0 /\ rev[r].old = 0 /\ rev[r].docs = NoTree
      BY <1>1, <2>1 DEF ReviewOK, Rebuilding
    <3>2. 0 \notin DOMAIN codeBase'
      BY <1>5, IdsAreNumbers DEF CrInv, CrTypeOK
    <3>3. HasTip(r) /\ ~Rebuilding(r)' /\ Own(r)' = 0
      BY <1>1, <1>2, <1>4, <2>1, <3>1 DEF HasTip, Rebuilding, Own
    <3> QED
      BY <1>1, <1>2, <1>4, <2>1, <3>1, <3>2, <3>3 DEF ReviewOK, Uncommitted
  <2>2. CASE rev[r].new # 0
    <3>1. ~HasTip(r)' /\ ~Rebuilding(r)'
      BY <1>1, <1>2, <1>4, <2>2 DEF HasTip, Rebuilding
    <3> QED
      BY <1>1, <1>2, <1>4, <2>2, <3>1 DEF ReviewOK, Uncommitted
  <2> QED
    BY <2>1, <2>2
<1>9. AllPaid'
  <2>1. r \in Owing' <=> r \in Owing
    BY <1>1, <1>2, <1>4 DEF Owing
  <2>2. r \in Owing => Excused(r)' = Excused(r)
    BY <1>1, <1>2, <1>4 DEF Owing, Excused
  <2> QED
    BY <1>1, <1>4, <2>1, <2>2, DuesStay
<1>10. LocksOK'
  BY <1>1, <1>2, <1>4, LocksStay DEF InLock
<1>11. LocksKept(r)
  BY <1>1 DEF LocksKept, CrInv, ReviewOK
<1>12. \A k \in DOMAIN codeBase' :
         k = rev[r].drop \/ (\E c \in Branches : link[c].kb = k /\ link'[c].kb # k) => d.drop = k
  BY <1>1, <1>5
<1> QED
  BY <1>1, <1>2, <1>3, <1>7, <1>8, <1>9, <1>10, <1>11, <1>12, ShrinkKeeps

----------------------------------------------------------------------------
(* A step in the lock of a branch that writes its link, its base or its    *)
(* index.                                                                  *)
LEMMA InLockKeeps ==
  ASSUME CrInv, NEW r \in ReviewRequests, NEW d \in RevType, rev' = [rev EXCEPT ![r] = d],
         rev[r].pc \in InLock, IndexMoves({rev[r].branch}), LocksKept(r), CrTypeOK',
         Given \subseteq Given', {d.old, d.new, d.drop} \cup d.rest \subseteq Given',
         DOMAIN codeBase' \cup DOMAIN codeFile' \cup unswapped' \subseteq Given',
         \A b \in Branches : link'[b].kb \in Given',
         LocksOK', \A b \in Branches : LinkOK(b)', ReviewOK(r)',
         IndexMatchesRows', NoStrayBase', AllPaid'
  PROVE  CrInv'
<1>1. rev'[r] = d /\ Untouched(r)
  BY TypesStayIn
<1>2. ASSUME NEW q \in ReviewRequests PROVE ReviewOK(q)'
  <2>1. CASE q = r
    BY <2>1
  <2>2. CASE q # r
    <3>1. rev'[q] = rev[q] /\ rev[r].branch \in Branches
      BY <1>1, <2>2, ReviewFacts DEF Untouched
    <3>2. rev[q].pc \in InLock => rev[q].branch # rev[r].branch
      BY <2>2 DEF CrInv, LocksOK
    <3> QED
      BY <2>2, <3>1, <3>2, OtherStays DEF LocksKept
  <2> QED
    BY <2>1, <2>2
<1>3. FreshOK'
  <2>1. ASSUME NEW q \in ReviewRequests
        PROVE  {rev'[q].old, rev'[q].new, rev'[q].drop} \cup rev'[q].rest \subseteq Given'
    <3>1. {rev[q].old, rev[q].new, rev[q].drop} \cup rev[q].rest \subseteq Given
      BY DEF CrInv, FreshOK
    <3> QED
      BY <1>1, <3>1 DEF Untouched
  <2> QED
    BY <2>1 DEF FreshOK
<1> QED
  BY <1>2, <1>3 DEF CrInv

LEMMA TouchStep ==
  ASSUME CrInv, NEW r \in ReviewRequests, rev[r].pc = "diffed", rev[r].old # 0,
         TheTree(r) = rev[r].docs, link[rev[r].branch].kb # 0,
         link' = [link EXCEPT ![rev[r].branch].commit = rev[r].commit], Refreshed(r, rev[r]),
         UNCHANGED <<origin, codeBase, codeFile, unswapped>>
  PROVE  CrInv'
<1> DEFINE b == rev[r].branch
<1>1. /\ rev[r].drop = 0 /\ rev[r].new = 0 /\ b \in Branches /\ link[b].kb = rev[r].old
      /\ rev[r].commit \in 1..Len(origin[b]) /\ rev[r].commit \in 0..MaxPushes + 1
      /\ LinkOK(b) /\ origin[b][rev[r].commit] = rev[r].docs
      /\ link \in [Branches -> [kb : {0} \cup BaseIds, commit : 0..MaxPushes + 1]]
  <2>1. rev[r].drop = 0 /\ rev[r].new = 0 /\ link[b].kb \in {0, rev[r].old}
    BY ReviewFacts DEF ReviewOK, Uncommitted
  <2>2. rev[r].commit \in 1..Len(origin[b])
    BY ReviewFacts DEF ReviewOK, HasTip
  <2>3. rev[r].commit \in 0..MaxPushes + 1
    BY ReviewFacts DEF RevType
  <2> QED
    BY <2>1, <2>2, <2>3, ReviewFacts DEF CrInv, CrTypeOK, TheTree
<1>2. codeBase[link[b].kb].docs = rev[r].docs
  BY <1>1, ReviewFacts DEF ReviewOK, LinkOK
<1>3. PICK d \in RevType :
        /\ rev' = [rev EXCEPT ![r] = d] /\ d.pc \in {"done", "reviewing"}
        /\ d.new = rev[r].new /\ d.drop = 0 /\ {d.old} \cup d.rest \subseteq Given
  BY <1>1, Leaves
<1>4. /\ prLock' \in [PullRequests -> ReviewRequests \cup {Nobody}] /\ LocksKept(r)
      /\ refresher' \in ReviewRequests \cup {Nobody} /\ ReviewOK(r)' /\ Untouched(r)
  BY <1>1, Leaves
<1>5. /\ rev'[r] = d /\ rev' \in [ReviewRequests -> RevType]
      /\ NextId' = NextId /\ Given' = Given /\ 0 \in Given
  <2>1. rev'[r] = d /\ rev' \in [ReviewRequests -> RevType]
    BY <1>3, TypesStayIn
  <2>2. \A q \in ReviewRequests : rev'[q].new = rev[q].new
    BY <1>3, <1>4, <2>1 DEF Untouched
  <2> QED
    BY <2>1, <2>2, IdsStay, IdsAreNumbers DEF Given
<1>6. /\ link' \in [Branches -> [kb : {0} \cup BaseIds, commit : 0..MaxPushes + 1]]
      /\ link'[b].commit = rev[r].commit
      /\ \A c \in Branches : link'[c].kb = link[c].kb
      /\ \A c \in Branches \ {b} : link'[c] = link[c]
  BY <1>1
<1>7. CrTypeOK'
  BY <1>4, <1>5, <1>6 DEF CrInv, CrTypeOK
<1>8. ASSUME NEW c \in Branches PROVE LinkOK(c)'
  <2>1. LinkOK(c)
    BY DEF CrInv
  <2>2. CASE c = b
    BY <1>1, <1>2, <1>6, <2>1, <2>2 DEF LinkOK
  <2>3. CASE c # b
    BY <1>6, <2>1, <2>3 DEF LinkOK
  <2> QED
    BY <2>2, <2>3
<1>9. IndexMatchesRows'
  <2> SUFFICES ASSUME NEW c \in Branches, link'[c].kb # 0, link'[c].kb \notin unswapped,
                      \A q \in ReviewRequests : rev'[q].pc = "committed" =>
                        link'[c].kb \notin {rev'[q].old, rev'[q].new}
               PROVE  link'[c].kb \in DOMAIN codeFile /\ codeFile[link'[c].kb] = codeBase[link'[c].kb].docs
    BY DEF IndexMatchesRows
  <2>1. \A q \in ReviewRequests : rev[q].pc = "committed" => link[c].kb \notin {rev[q].old, rev[q].new}
    BY <1>4, <1>6 DEF Untouched
  <2> QED
    BY <1>6, <2>1 DEF CrInv, IndexMatchesRows
<1>10. NoStrayBase'
  <2> SUFFICES ASSUME NEW kb \in DOMAIN codeBase, \A c \in Branches : link'[c].kb # kb
               PROVE  \E q \in ReviewRequests : rev'[q].drop = kb
    BY DEF NoStrayBase
  <2>1. PICK q \in ReviewRequests : rev[q].drop = kb
    BY <1>6 DEF CrInv, NoStrayBase
  <2>2. kb # 0
    BY IdsAreNumbers DEF CrInv, CrTypeOK
  <2> QED
    BY <1>1, <1>4, <2>1, <2>2 DEF Untouched
<1>11. AllPaid'
  BY <1>1, <1>3, <1>4, <1>5, <1>6, DuesStay DEF Owing
<1>12. LocksOK'
  BY <1>3, <1>4, <1>5, LocksStay DEF InLock
<1>13. IndexMoves({b}) /\ rev[r].pc \in InLock
  BY <1>6 DEF IndexMoves, InLock
<1>14. /\ DOMAIN codeBase' \cup DOMAIN codeFile' \cup unswapped' \subseteq Given'
       /\ \A c \in Branches : link'[c].kb \in Given'
  BY <1>5, <1>6 DEF CrInv, FreshOK
<1>15. Given \subseteq Given' /\ {d.old, d.new, d.drop} \cup d.rest \subseteq Given'
  BY <1>1, <1>3, <1>5
<1>16. rev' = [rev EXCEPT ![r] = d] /\ LocksKept(r) /\ ReviewOK(r)'
  BY <1>3, <1>4
<1> QED
  BY <1>7, <1>8, <1>9, <1>10, <1>11, <1>12, <1>13, <1>14, <1>15, <1>16, InLockKeeps

LEMMA ComparesStep == ASSUME CrInv, NEW r \in ReviewRequests, Compares(r) PROVE CrInv'
<1>1. rev[r].pc = "diffed" /\ UNCHANGED <<origin, codeBase, codeFile, unswapped>>
  BY DEF Compares
<1>2. CASE UNCHANGED link /\ RevEnds(r, rev[r])
  BY <1>1, <1>2, LeavingKeeps DEF Owes
<1>3. CASE UNCHANGED <<link, prLock, refresher>> /\ RevGoes(r, "queued")
  BY <1>1, <1>3, GoesKeeps
<1>4. CASE /\ rev[r].old # 0 /\ TheTree(r) = rev[r].docs /\ link[rev[r].branch].kb # 0
           /\ link' = [link EXCEPT ![rev[r].branch].commit = rev[r].commit]
           /\ Refreshed(r, rev[r])
  BY <1>1, <1>4, TouchStep
<1> QED
  BY <1>2, <1>3, <1>4 DEF Compares

(* The swap of the index after the rows. *)
LEMMA PromotesStep == ASSUME CrInv, NEW r \in ReviewRequests, Promotes(r) PROVE CrInv'
<1> DEFINE b == rev[r].branch
           kb == Own(r)
<1>1. /\ rev[r].pc = "committed" /\ UNCHANGED <<origin, link, codeBase>> /\ b \in Branches
      /\ rev[r] \in RevType /\ rev[r].drop = 0 /\ 0 \in Given
      /\ kb # 0 /\ (rev[r].old = 0 \/ rev[r].new = 0) /\ kb \in Given /\ kb \in BaseIds
      /\ {rev[r].old, rev[r].new} \cup rev[r].rest \subseteq Given
      /\ rev[r].old \in Nat /\ rev[r].new \in Nat
      /\ kb \in DOMAIN codeBase \ unswapped => rev[r].docs = codeBase[kb].docs
      /\ \A c \in Branches \ {b} : link[c].kb # 0 => link[c].kb # kb
      /\ prLock \in [PullRequests -> ReviewRequests \cup {Nobody}]
      /\ refresher \in ReviewRequests \cup {Nobody}
  <2>1. rev[r].pc = "committed" /\ UNCHANGED <<origin, link, codeBase>>
    BY DEF Promotes
  <2>2. /\ rev[r].drop = 0 /\ kb # 0 /\ (rev[r].old = 0 \/ rev[r].new = 0)
        /\ kb \in DOMAIN codeBase \ unswapped => rev[r].docs = codeBase[kb].docs
        /\ \A c \in Branches \ {b} : link[c].kb # 0 => link[c].kb # kb
    BY <2>1, ReviewFacts DEF ReviewOK
  <2>3. kb \in Given /\ kb \in BaseIds
    <3>1. rev[r].old \in {0} \cup BaseIds /\ rev[r].new \in {0} \cup BaseIds
      BY ReviewFacts DEF RevType
    <3> QED
      BY <2>2, <3>1, ReviewFacts DEF Own
  <2>4. 0 \in Given
    BY IdsAreNumbers DEF Given
  <2> QED
    BY <2>1, <2>2, <2>3, <2>4, ReviewFacts DEF CrInv, CrTypeOK
<1>2. \A q \in ReviewRequests \ {r} : rev[q].pc # "committed"
  BY <1>1 DEF CrInv, LocksOK
<1>3. ASSUME NEW d \in RevType, rev' = [rev EXCEPT ![r] = d], d.pc \notin {"committed", "embedding"},
             d.pc \in InLock => d.branch = b, d.new = rev[r].new, d.drop = 0,
             {d.old} \cup d.rest \subseteq Given,
             prLock' \in [PullRequests -> ReviewRequests \cup {Nobody}], LocksKept(r),
             refresher' \in ReviewRequests \cup {Nobody}, ReviewOK(r)', AllPaid',
             \/ /\ kb \in DOMAIN codeBase /\ codeFile' = Put(codeFile, kb, rev[r].docs)
                /\ UNCHANGED unswapped
             \/ UNCHANGED codeFile /\ unswapped' = unswapped \cup {kb}
      PROVE  CrInv'
  <2>1. rev'[r] = d /\ rev' \in [ReviewRequests -> RevType] /\ Untouched(r)
    BY <1>3, TypesStayIn
  <2>2. Given' = Given
    <3>1. \A q \in ReviewRequests : rev'[q].new = rev[q].new
      BY <1>3, <2>1 DEF Untouched
    <3> QED
      BY <3>1, IdsStay
  <2>3. /\ DOMAIN codeFile' \subseteq DOMAIN codeFile \cup {kb}
        /\ \A x \in DOMAIN codeFile \ {kb} : x \in DOMAIN codeFile' /\ codeFile'[x] = codeFile[x]
        /\ kb \in DOMAIN codeFile' =>
             (kb \in DOMAIN codeFile /\ codeFile'[kb] = codeFile[kb]) \/ codeFile'[kb] = rev[r].docs
        /\ unswapped \subseteq unswapped' /\ unswapped' \subseteq unswapped \cup {kb}
        /\ kb \in unswapped' \/ (kb \in DOMAIN codeFile' /\ codeFile'[kb] = rev[r].docs)
    <3> HIDE DEF kb
    <3>1. CASE codeFile' = Put(codeFile, kb, rev[r].docs) /\ UNCHANGED unswapped
      <4>1. /\ DOMAIN codeFile' = DOMAIN codeFile \cup {kb} /\ codeFile'[kb] = rev[r].docs
            /\ \A x \in DOMAIN codeFile \ {kb} : codeFile'[x] = codeFile[x]
        BY <3>1 DEF Put
      <4> QED
        BY <3>1, <4>1
    <3>2. CASE UNCHANGED codeFile /\ unswapped' = unswapped \cup {kb}
      BY <3>2
    <3> QED
      BY <1>3, <3>1, <3>2
  <2>4. CrTypeOK'
    <3>1. rev[r].docs \in Patchwork
      BY <1>1 DEF RevType
    <3>2. \A x \in DOMAIN codeFile' : codeFile'[x] \in Patchwork
      BY <2>3, <3>1 DEF CrInv, CrTypeOK
    <3>3. DOMAIN codeFile' \subseteq BaseIds /\ unswapped' \subseteq BaseIds
      BY <1>1, <2>3 DEF CrInv, CrTypeOK
    <3> QED
      BY <1>1, <1>3, <2>1, <3>2, <3>3 DEF CrInv, CrTypeOK
  <2>5. IndexMatchesRows'
    <3> SUFFICES ASSUME NEW c \in Branches, link[c].kb # 0, link[c].kb \notin unswapped'
                 PROVE  link[c].kb \in DOMAIN codeFile' /\ codeFile'[link[c].kb] = codeBase[link[c].kb].docs
      BY <1>1 DEF IndexMatchesRows
    <3>1. link[c].kb \in DOMAIN codeBase
      BY DEF CrInv, LinkOK
    <3>2. CASE link[c].kb = kb
      BY <1>1, <2>3, <3>1, <3>2
    <3>3. CASE link[c].kb # kb
      <4>1. link[c].kb \notin {rev[r].old, rev[r].new}
        BY <1>1, <3>3 DEF Own
      <4>2. link[c].kb \in DOMAIN codeFile /\ codeFile[link[c].kb] = codeBase[link[c].kb].docs
        BY <1>2, <2>3, <4>1 DEF CrInv, IndexMatchesRows
      <4> QED
        BY <2>3, <3>3, <4>2
    <3> QED
      BY <3>2, <3>3
  <2>6. NoStrayBase'
    <3> SUFFICES ASSUME NEW x \in DOMAIN codeBase, \A c \in Branches : link[c].kb # x
                 PROVE  \E q \in ReviewRequests : rev'[q].drop = x
      BY <1>1 DEF NoStrayBase
    <3>1. PICK q \in ReviewRequests : rev[q].drop = x
      BY DEF CrInv, NoStrayBase
    <3>2. x # 0
      BY IdsAreNumbers DEF CrInv, CrTypeOK
    <3> QED
      BY <1>1, <2>1, <3>1, <3>2 DEF Untouched
  <2>7. LocksOK'
    BY <1>1, <1>3, <2>1, LocksStay DEF InLock
  <2>8. \A c \in Branches : LinkOK(c)'
    BY <1>1 DEF CrInv, LinkOK
  <2>9. IndexMoves({b}) /\ rev[r].pc \in InLock
    BY <1>1, <2>3 DEF IndexMoves, InLock
  <2>10. /\ DOMAIN codeBase' \cup DOMAIN codeFile' \cup unswapped' \subseteq Given'
         /\ \A c \in Branches : link'[c].kb \in Given'
    BY <1>1, <2>2, <2>3 DEF CrInv, FreshOK
  <2>11. Given \subseteq Given' /\ {d.old, d.new, d.drop} \cup d.rest \subseteq Given'
    BY <1>1, <1>3, <2>2
  <2> QED
    BY <1>3, <2>4, <2>5, <2>6, <2>7, <2>8, <2>9, <2>10, <2>11, InLockKeeps
<1>4. ASSUME RevEnds(r, rev[r]) \/ (rev[r].new = 0 /\ Refreshed(r, rev[r])),
             \/ /\ kb \in DOMAIN codeBase /\ codeFile' = Put(codeFile, kb, rev[r].docs)
                /\ UNCHANGED unswapped /\ rev[r].new = 0
             \/ UNCHANGED codeFile /\ unswapped' = unswapped \cup {kb}
      PROVE  CrInv'
  <2>1. PICK d \in RevType :
          /\ rev' = [rev EXCEPT ![r] = d] /\ d.pc \in {"done", "reviewing"}
          /\ d.new = rev[r].new /\ d.drop = 0 /\ {d.old} \cup d.rest \subseteq Given
    BY <1>1, <1>4, Leaves
  <2>2. /\ prLock' \in [PullRequests -> ReviewRequests \cup {Nobody}] /\ LocksKept(r)
        /\ refresher' \in ReviewRequests \cup {Nobody} /\ ReviewOK(r)' /\ Untouched(r)
    BY <1>1, <1>4, Leaves
  <2>3. rev'[r] = d
    BY <2>1, TypesStayIn
  <2>4. AllPaid'
    <3>1. unswapped \subseteq unswapped' /\ \A c \in Branches : link'[c].kb \in {0, link[c].kb}
      BY <1>1, <1>4
    <3>2. CASE rev[r].new = 0
      BY <2>1, <2>2, <2>3, <3>1, <3>2, DuesStay DEF Owing
    <3>3. CASE rev[r].new # 0
      <4>1. r \in Owing /\ r \notin Owing' /\ Excused(r) = {kb} /\ kb \in unswapped'
        BY <1>1, <1>4, <2>1, <2>3, <3>3 DEF Owing, Excused, Own
      <4> QED
        BY <2>2, <3>1, <4>1, DuesEnd
    <3> QED
      BY <3>2, <3>3
  <2>5. d.pc \notin {"committed", "embedding"} /\ d.pc \notin InLock
    BY <2>1 DEF InLock
  <2> QED
    BY <1>3, <1>4, <2>1, <2>2, <2>4, <2>5
<1>5. ASSUME kb \in DOMAIN codeBase, codeFile' = Put(codeFile, kb, rev[r].docs), UNCHANGED unswapped,
             rev[r].new # 0, RevGoes(r, "evicting"), UNCHANGED <<prLock, refresher>>
      PROVE  CrInv'
  <2> DEFINE d == [rev[r] EXCEPT !.pc = "evicting"]
  <2>1. /\ d \in RevType /\ d.pc = "evicting" /\ d.kind = rev[r].kind /\ d.pr = rev[r].pr
        /\ d.branch = b /\ d.old = rev[r].old /\ d.new = rev[r].new
        /\ d.drop = rev[r].drop /\ d.rest = rev[r].rest
    BY <1>1 DEF RevType
  <2>2. rev' = [rev EXCEPT ![r] = d]
    BY <1>5 DEF RevGoes
  <2> HIDE DEF d
  <2>3. rev'[r] = d /\ Untouched(r)
    BY <2>1, <2>2, TypesStayIn
  <2>4. ReviewOK(r)'
    <3>1. ReviewOK(r) /\ Own(r)' = Own(r)
      BY <2>1, <2>3, ReviewFacts DEF Own
    <3> QED
      BY <1>1, <1>5, <2>1, <2>3, <3>1 DEF ReviewOK, Uncommitted, HasTip, Rebuilding
  <2>5. AllPaid'
    <3>1. (r \in Owing' <=> r \in Owing) /\ Excused(r)' = Excused(r)
      BY <1>1, <1>5, <2>1, <2>3 DEF Owing, Excused
    <3> QED
      BY <1>1, <1>5, <2>3, <3>1, DuesStay
  <2>6. LocksKept(r)
    BY <1>5 DEF LocksKept, CrInv, ReviewOK
  <2> QED
    BY <1>1, <1>3, <1>5, <2>1, <2>2, <2>4, <2>5, <2>6
<1> QED
  BY <1>4, <1>5 DEF Promotes, Own

(* The commit of a refresh: the rows become the files of the tip it        *)
(* fetched, whether the base is new or patched, and so do the vectors      *)
(* unless an earlier swap had failed.                                      *)
LEMMA CommitKeeps ==
  ASSUME CrInv, NEW r \in ReviewRequests, rev[r].pc = "embedding",
         NEW kb \in BaseIds, NEW vectors \in Patchwork, NEW d \in RevType,
         d = [rev[r] EXCEPT !.docs = vectors, !.new = IF rev[r].old = 0 THEN kb ELSE 0, !.pc = "committed"],
         rev' = [rev EXCEPT ![r] = d],
         IF rev[r].old = 0 THEN kb = NextId ELSE kb = rev[r].old /\ link[rev[r].branch].kb = kb,
         kb \notin unswapped => vectors = TheTree(r),
         codeBase' = Put(codeBase, kb, [model |-> rev[r].model, docs |-> TheTree(r)]),
         link' = [link EXCEPT ![rev[r].branch] = [kb |-> kb, commit |-> rev[r].commit]],
         UNCHANGED <<origin, codeFile, unswapped, prLock, refresher>>
  PROVE  CrInv'
<1> DEFINE b == rev[r].branch
           files == TheTree(r)
           old == rev[r].old
<1>1. /\ rev[r] \in RevType /\ ReviewOK(r) /\ b \in Branches /\ rev[r].model \in Models
      /\ rev[r].new = 0 /\ rev[r].drop = 0 /\ rev[r].rest \subseteq Given /\ old \in Given
      /\ old \in Nat /\ NextId \in Nat \ {0} /\ NextId \notin Given /\ Given \subseteq Nat /\ 0 \in Given
      /\ link[b].kb \in {0, old} /\ kb # 0
      /\ \A c \in Branches \ {b} : link[c].kb # 0 => link[c].kb # old
  <2>1. rev[r].new = 0 /\ rev[r].drop = 0 /\ link[b].kb \in {0, old}
    BY ReviewFacts DEF ReviewOK, Uncommitted
  <2>2. old # 0 => \A c \in Branches \ {b} : link[c].kb # 0 => link[c].kb # old
    BY ReviewFacts DEF ReviewOK, Own
  <2>3. 0 \in Given /\ kb # 0
    BY IdsAreNumbers DEF Given
  <2> QED
    BY <2>1, <2>2, <2>3, ReviewFacts
<1>2. /\ rev[r].commit \in 1..Len(origin[b]) /\ rev[r].commit \in 0..MaxPushes + 1
      /\ files = origin[b][rev[r].commit] /\ files \in Trees
  <2>1. rev[r].commit \in 1..Len(origin[b])
    BY <1>1 DEF ReviewOK, HasTip
  <2>2. rev[r].commit \in 0..MaxPushes + 1
    BY <1>1 DEF RevType
  <2>3. origin[b] \in Seq(Trees)
    BY <1>1 DEF CrInv, CrTypeOK
  <2> QED
    BY <2>1, <2>2, <2>3 DEF TheTree
<1> HIDE DEF files
<1>3. /\ d.pc = "committed" /\ d.kind = rev[r].kind /\ d.pr = rev[r].pr /\ d.branch = b
      /\ d.old = old /\ d.new = (IF old = 0 THEN kb ELSE 0) /\ d.docs = vectors /\ d.drop = 0
      /\ d.rest = rev[r].rest
  BY <1>1 DEF RevType
<1>4. rev'[r] = d /\ Untouched(r) /\ rev' \in [ReviewRequests -> RevType]
  BY TypesStayIn
<1>5. /\ DOMAIN codeBase' = DOMAIN codeBase \cup {kb}
      /\ codeBase'[kb] = [model |-> rev[r].model, docs |-> files]
      /\ codeBase'[kb] \in [model : Models, docs : Trees] /\ codeBase'[kb].docs = files
      /\ \A x \in DOMAIN codeBase \ {kb} : codeBase'[x] = codeBase[x]
  <2>1. codeBase' = Put(codeBase, kb, [model |-> rev[r].model, docs |-> files])
    BY DEF files
  <2> QED
    BY <1>1, <1>2, <2>1 DEF Put
<1>6. /\ link' \in [Branches -> [kb : {0} \cup BaseIds, commit : 0..MaxPushes + 1]]
      /\ link'[b].kb = kb /\ link'[b].commit = rev[r].commit
      /\ \A c \in Branches \ {b} : link'[c] = link[c]
  BY <1>1, <1>2 DEF CrInv, CrTypeOK
<1>7. /\ \A c \in Branches \ {b} : link[c].kb # kb
      /\ link[b].kb \in {0, kb}
      /\ \A q \in ReviewRequests : rev[q].drop # kb
      /\ Given \subseteq Given' /\ kb \in Given' /\ kb \in {link[b].kb, NextId}
      /\ old = 0 => link[b].kb = 0 /\ kb = NextId
      /\ old # 0 => Given' = Given /\ kb = old
  <2>1. CASE old = 0
    <3>1. NextId' = NextId + 1
      <4> DEFINE before == {q \in ReviewRequests : rev[q].new # 0}
                 after == {q \in ReviewRequests : rev'[q].new # 0}
      <4>1. after = before \cup {r} /\ r \notin before
        BY <1>1, <1>3, <1>4, <2>1 DEF Untouched
      <4>2. IsFiniteSet(before)
        BY IdsAreNumbers, SubsetCard
      <4>3. Cardinality(after) = Cardinality(before) + 1 /\ Cardinality(before) \in Nat
        <5> HIDE DEF before, after
        <5> QED
          BY <4>1, <4>2, OneMore
      <4> QED
        BY <4>3 DEF NextId
    <3>2. Given \subseteq Given' /\ NextId \in Given'
      BY <1>1, <3>1 DEF Given
    <3>3. \A c \in Branches : link[c].kb # NextId
      BY <1>1 DEF CrInv, FreshOK
    <3>4. \A q \in ReviewRequests : rev[q].drop # NextId
      BY <1>1 DEF CrInv, FreshOK
    <3> QED
      BY <1>1, <2>1, <3>2, <3>3, <3>4
  <2>2. CASE old # 0
    <3>1. \A q \in ReviewRequests : rev'[q].new = rev[q].new
      BY <1>1, <1>3, <1>4, <2>2 DEF Untouched
    <3>2. Given' = Given
      BY <3>1, IdsStay
    <3>3. \A q \in ReviewRequests : rev[q].drop # kb
      BY <1>1, <2>2, ReviewFacts DEF ReviewOK
    <3> QED
      BY <1>1, <2>2, <3>2, <3>3
  <2> QED
    BY <2>1, <2>2
<1>8. CrTypeOK'
  <2>1. \A x \in DOMAIN codeBase' : codeBase'[x] \in [model : Models, docs : Trees]
    BY <1>5 DEF CrInv, CrTypeOK
  <2>2. DOMAIN codeBase' \subseteq BaseIds
    BY <1>5 DEF CrInv, CrTypeOK
  <2> QED
    BY <1>4, <1>6, <2>1, <2>2 DEF CrInv, CrTypeOK
<1>9. ASSUME NEW c \in Branches PROVE LinkOK(c)'
  <2>1. LinkOK(c)
    BY DEF CrInv
  <2>2. CASE c = b
    BY <1>2, <1>5, <1>6, <1>7, <2>2 DEF LinkOK
  <2>3. CASE c # b
    BY <1>5, <1>6, <1>7, <2>1, <2>3 DEF LinkOK
  <2> QED
    BY <2>2, <2>3
<1>10. \A q \in ReviewRequests : rev[q].pc # "committed"
  BY DEF CrInv, LocksOK
<1>11. IndexMatchesRows'
  <2> SUFFICES ASSUME NEW c \in Branches, link'[c].kb # 0, link'[c].kb \notin unswapped,
                      \A q \in ReviewRequests : rev'[q].pc = "committed" =>
                        link'[c].kb \notin {rev'[q].old, rev'[q].new}
               PROVE  link'[c].kb \in DOMAIN codeFile /\ codeFile[link'[c].kb] = codeBase'[link'[c].kb].docs
    BY DEF IndexMatchesRows
  <2>1. link'[c].kb \notin {d.old, d.new}
    BY <1>3, <1>4
  <2>2. c # b
    BY <1>3, <1>6, <1>7, <2>1
  <2>3. /\ link[c].kb \in DOMAIN codeFile /\ codeFile[link[c].kb] = codeBase[link[c].kb].docs
        /\ link[c].kb \in DOMAIN codeBase
    BY <1>6, <1>10, <2>2 DEF CrInv, IndexMatchesRows, LinkOK
  <2> QED
    BY <1>5, <1>6, <1>7, <2>2, <2>3
<1>12. NoStrayBase'
  <2> SUFFICES ASSUME NEW x \in DOMAIN codeBase', \A c \in Branches : link'[c].kb # x
               PROVE  \E q \in ReviewRequests : rev'[q].drop = x
    BY DEF NoStrayBase
  <2>1. x \in DOMAIN codeBase /\ x # 0 /\ \A c \in Branches : link[c].kb # x
    BY <1>1, <1>5, <1>6, <1>7, IdsAreNumbers DEF CrInv, CrTypeOK
  <2>2. PICK q \in ReviewRequests : rev[q].drop = x
    BY <2>1 DEF CrInv, NoStrayBase
  <2> QED
    BY <1>1, <1>4, <2>1, <2>2 DEF Untouched
<1>13. ReviewOK(r)'
  <2>1. Own(r)' = kb
    BY <1>3, <1>4, <1>7 DEF Own
  <2>2. kb \notin unswapped => vectors = files
    BY DEF files
  <2>3. ~HasTip(r)' /\ ~Rebuilding(r)'
    BY <1>3, <1>4 DEF HasTip, Rebuilding
  <2>4. \A c \in Branches \ {b} : link'[c].kb # kb
    BY <1>6, <1>7
  <2>5. rev[r].kind = "review" => prLock[rev[r].pr] = r
    BY <1>1 DEF ReviewOK
  <2>6. /\ rev'[r].pc = "committed" /\ rev'[r].kind = rev[r].kind /\ rev'[r].pr = rev[r].pr
        /\ rev'[r].branch = b /\ rev'[r].docs = vectors /\ rev'[r].drop = 0
        /\ rev'[r].old = 0 \/ rev'[r].new = 0
    BY <1>3, <1>4
  <2>7. codeBase'[kb].docs = files /\ kb # 0 /\ unswapped' = unswapped /\ prLock' = prLock
    BY <1>1, <1>5
  <2> HIDE DEF b
  <2> QED
    BY <2>1, <2>2, <2>3, <2>4, <2>5, <2>6, <2>7 DEF ReviewOK, Uncommitted
<1>14. AllPaid'
  <2>1. CASE old # 0
    <3>1. \A c \in Branches : link'[c].kb \in {0, link[c].kb}
      BY <1>1, <1>6, <1>7, <2>1
    <3> QED
      BY <1>1, <1>3, <1>4, <2>1, <3>1, DuesStay DEF Owing
  <2>2. CASE old = 0
    <3>1. Owing' = Owing \cup {r} /\ r \notin Owing /\ Excused(r)' = {kb}
      BY <1>1, <1>3, <1>4, <2>2 DEF Owing, Excused, Untouched
    <3>2. SUFFICES ASSUME NEW home \in {RepoOf[c] : c \in Branches}, NEW T \in SUBSET (Owing \cup {r})
                   PROVE  Cardinality(Left(home, T)') <= MaxBaseRefs + Cardinality(Owing' \ T)
      BY <3>1 DEF AllPaid, Paid
    <3> DEFINE S == T \ {r}
    <3>3. Paid(home, S) /\ S \subseteq Owing
      BY DEF CrInv, AllPaid
    <3>4. ASSUME NEW c \in Left(home, T)', c # b PROVE c \in Left(home, S)
      <4>1. /\ c \in Branches /\ RepoOf[c] = home /\ link[c].kb # 0 /\ link[c].kb \notin unswapped
            /\ \A q \in T : link[c].kb \notin Excused(q)'
        BY <1>6, <3>4 DEF Left, Linked
      <4>2. \A q \in S : Excused(q)' = Excused(q)
        BY <1>4, <3>3 DEF Excused, Untouched, Owing
      <4> QED
        BY <4>1, <4>2 DEF Left, Linked
    <3>5. CASE r \in T
      <4>1. b \notin Left(home, T)'
        BY <1>6, <3>1, <3>5 DEF Left
      <4>2. Left(home, T)' \subseteq Left(home, S) /\ Owing \ S \subseteq Owing' \ T
        BY <3>1, <3>4, <4>1
      <4> HIDE DEF S
      <4> QED
        BY <3>3, <4>2, PaidStays
    <3>6. CASE r \notin T
      <4> DEFINE L == Left(home, S)
                 M == Left(home, T)'
                 O == Owing \ S
      <4>1. M \subseteq L \cup {b} /\ Owing' \ T = O \cup {r} /\ r \notin O
        BY <3>1, <3>4, <3>6
      <4>2. IsFiniteSet(L) /\ IsFiniteSet(O) /\ Cardinality(L) <= MaxBaseRefs + Cardinality(O)
        BY <3>3, LeftIsFinite, OwingIsFinite DEF Paid
      <4> HIDE DEF L, M, O, S
      <4>3. /\ Cardinality(L \cup {b}) <= Cardinality(L) + 1 /\ IsFiniteSet(L \cup {b})
            /\ Cardinality(L) \in Nat /\ Cardinality(L \cup {b}) \in Nat
        BY <4>2, OneMore
      <4>4. Cardinality(O \cup {r}) = Cardinality(O) + 1 /\ Cardinality(O) \in Nat
        BY <4>1, <4>2, OneMore
      <4>5. Cardinality(M) <= Cardinality(L \cup {b}) /\ Cardinality(M) \in Nat
        BY <4>1, <4>3, SubsetCard
      <4>6. Cardinality(Owing' \ T) = Cardinality(O) + 1 /\ MaxBaseRefs \in Nat
        BY <4>1, <4>4, CodeReviewAssumption
      <4>7. Cardinality(M) <= MaxBaseRefs + Cardinality(Owing' \ T)
        BY <4>2, <4>3, <4>4, <4>5, <4>6
      <4> QED
        BY <4>7 DEF M
    <3> QED
      BY <3>5, <3>6
  <2> QED
    BY <2>1, <2>2
<1>15. LocksOK'
  BY <1>3, <1>4, LocksStay DEF InLock
<1>16. IndexMoves({b}) /\ rev[r].pc \in InLock /\ LocksKept(r)
  <2>1. \A c \in Branches : link'[c] = link[c] \/ (c = b /\ link'[c].kb \in {link[c].kb, NextId})
    BY <1>6, <1>7
  <2>2. \A x \in DOMAIN codeBase' :
          \/ x = NextId
          \/ x \in DOMAIN codeBase /\ codeBase'[x] = codeBase[x]
          \/ x \in DOMAIN codeBase /\ link[b].kb = x
    <3>1. \A c \in Branches : link[c].kb # 0 => link[c].kb \in DOMAIN codeBase
      BY DEF CrInv, LinkOK
    <3> QED
      BY <1>1, <1>5, <1>7, <3>1
  <2>3. LocksKept(r)
    BY DEF LocksKept, CrInv, ReviewOK
  <2> QED
    BY <2>1, <2>2, <2>3 DEF IndexMoves, InLock
<1>17. /\ {d.old, d.new, d.drop} \cup d.rest \subseteq Given'
       /\ DOMAIN codeBase' \cup DOMAIN codeFile' \cup unswapped' \subseteq Given'
       /\ \A c \in Branches : link'[c].kb \in Given'
  <2>1. {d.old, d.new, d.drop} \cup d.rest \subseteq Given'
    BY <1>1, <1>3, <1>7
  <2>2. /\ DOMAIN codeBase' \cup DOMAIN codeFile' \cup unswapped' \subseteq Given'
        /\ \A c \in Branches : link'[c].kb \in Given'
    BY <1>5, <1>6, <1>7 DEF CrInv, FreshOK
  <2> QED
    BY <2>1, <2>2
<1> QED
  BY <1>7, <1>8, <1>9, <1>11, <1>12, <1>13, <1>14, <1>15, <1>16, <1>17, InLockKeeps

LEMMA CommitsRowsStep == ASSUME CrInv, NEW r \in ReviewRequests, CommitsRows(r) PROVE CrInv'
<1> DEFINE b == rev[r].branch
           old == rev[r].old
           kb == IF old # 0 THEN old ELSE NextId
           rows == IF old # 0 THEN Patched(codeBase[old].docs, r) ELSE TheTree(r)
           vectors == IF old # 0 THEN Patched(codeFile[old], r) ELSE TheTree(r)
           d == [rev[r] EXCEPT !.docs = vectors, !.new = IF old = 0 THEN kb ELSE 0, !.pc = "committed"]
<1>1. /\ rev[r].pc = "embedding" /\ UNCHANGED <<origin, codeFile, unswapped>>
      /\ rev \in [ReviewRequests -> RevType] /\ rev[r] \in RevType /\ ReviewOK(r) /\ rev[r].new = 0
      /\ old \in {0} \cup BaseIds /\ b \in Branches
  BY ReviewFacts DEF CommitsRows, ReviewOK, Uncommitted, RevType
<1>2. CASE RevEnds(r, rev[r]) /\ UNCHANGED <<codeBase, link>>
  BY <1>1, <1>2, LeavingKeeps DEF Owes
<1>3. CASE /\ old # 0 => link[b].kb = old /\ old \in DOMAIN codeFile
           /\ codeBase' = Put(codeBase, kb, [model |-> rev[r].model, docs |-> rows])
           /\ link' = [link EXCEPT ![b] = [kb |-> kb, commit |-> rev[r].commit]]
           /\ rev' = [rev EXCEPT ![r].docs = vectors, ![r].new = IF old = 0 THEN kb ELSE 0,
                                 ![r].pc = "committed"]
           /\ UNCHANGED <<prLock, refresher>>
  <2>1. TheTree(r) \in Trees /\ TheTree(r) \in Patchwork
    <3>1. rev[r].commit \in 1..Len(origin[b]) /\ origin[b] \in Seq(Trees)
      BY <1>1 DEF ReviewOK, HasTip, CrInv, CrTypeOK
    <3>2. TheTree(r) \in Trees
      BY <3>1 DEF TheTree
    <3> QED
      BY <3>2, TreesFit
  <2>2. kb \in BaseIds
    BY <1>1, IdsAreNumbers
  <2>3. rows = TheTree(r)
    <3>1. CASE old # 0
      <4>1. old \in DOMAIN codeBase
        BY <1>1, <1>3, <3>1 DEF CrInv, LinkOK
      <4>2. codeBase[old].docs = rev[r].docs
        BY <1>1, <4>1 DEF ReviewOK
      <4> QED
        BY <2>1, <3>1, <4>2, PatchedIsTree
    <3>2. CASE old = 0
      BY <3>2
    <3> QED
      BY <3>1, <3>2
  <2>4. vectors \in Patchwork
    <3>1. old # 0 => codeFile[old] \in Patchwork
      BY <1>3 DEF CrInv, CrTypeOK
    <3> QED
      BY <2>1, <3>1, PatchedFits
  <2>5. kb \notin unswapped => vectors = TheTree(r)
    <3>1. CASE old # 0
      <4>1. \A q \in ReviewRequests : rev[q].pc # "committed"
        BY <1>1 DEF CrInv, LocksOK
      <4>2. old \notin unswapped => codeFile[old] = codeBase[old].docs
        BY <1>1, <1>3, <3>1, <4>1 DEF CrInv, IndexMatchesRows
      <4> QED
        BY <2>3, <3>1, <4>2
    <3>2. CASE old = 0
      BY <3>2
    <3> QED
      BY <3>1, <3>2
  <2>6. d \in RevType
    <3> HIDE DEF vectors, kb
    <3> QED
      BY <1>1, <2>2, <2>4 DEF RevType
  <2>7. rev' = [rev EXCEPT ![r] = d]
    <3> HIDE DEF vectors, kb
    <3> QED
      BY <1>1, <1>3
  <2>8. IF old = 0 THEN kb = NextId ELSE kb = old /\ link[b].kb = kb
    BY <1>3
  <2>9. /\ codeBase' = Put(codeBase, kb, [model |-> rev[r].model, docs |-> TheTree(r)])
        /\ link' = [link EXCEPT ![b] = [kb |-> kb, commit |-> rev[r].commit]]
        /\ UNCHANGED <<origin, codeFile, unswapped, prLock, refresher>>
    BY <1>1, <1>3, <2>3
  <2> HIDE DEF rows, vectors, kb
  <2> QED
    BY <1>1, <2>2, <2>4, <2>5, <2>6, <2>7, <2>8, <2>9, CommitKeeps
<1> QED
  BY <1>1, <1>2, <1>3 DEF CommitsRows

(* Without the chosen victims a repository is within its cap. *)
LEMMA VictimsSuffice ==
  ASSUME CrInv, NEW r \in ReviewRequests,
         NEW victims \in SUBSET {link[b].kb : b \in Linked(RepoOf[rev[r].branch])},
         Cardinality(victims) = Surplus(r)
  PROVE  LET kept == {b \in Linked(RepoOf[rev[r].branch]) : link[b].kb \notin victims}
         IN  IsFiniteSet(kept) /\ Cardinality(kept) \in Nat /\ Cardinality(kept) <= MaxBaseRefs
<1> DEFINE L == Linked(RepoOf[rev[r].branch])
           lost == {b \in L : link[b].kb \in victims}
           kept == {b \in L : link[b].kb \notin victims}
           f == [b \in lost |-> link[b].kb]
<1>1. IsFiniteSet(L) /\ Cardinality(L) \in Nat /\ L \subseteq Branches
  <2>1. L \subseteq Branches /\ IsFiniteSet(Branches)
    BY CodeReviewAssumption DEF Linked
  <2> QED
    BY <2>1, SubsetCard
<1>2. \A b, c \in L : link[b].kb = link[c].kb => b = c
  BY DEF Linked, CrInv, LinkOK
<1>3. Cardinality(victims) = IF Cardinality(L) > MaxBaseRefs THEN Cardinality(L) - MaxBaseRefs ELSE 0
  BY DEF Surplus
<1>4. \A v \in victims : \E b \in L : link[b].kb = v
  OBVIOUS
<1> HIDE DEF L
<1>5. f \in Bijection(lost, victims)
  BY <1>2, <1>4 DEF Bijection, Injection, Surjection, IsInjective
<1>6. IsFiniteSet(lost) /\ Cardinality(lost) \in Nat
  BY <1>1, SubsetCard
<1>7. Cardinality(victims) = Cardinality(lost)
  <2>1. ExistsBijection(lost, victims)
    BY <1>5 DEF ExistsBijection
  <2> HIDE DEF lost
  <2> QED
    BY <1>6, <2>1, FS_Bijection
<1>8. IsFiniteSet(kept) /\ Cardinality(kept) = Cardinality(L) - Cardinality(lost)
  <2>1. kept = L \ lost /\ L \cap lost = lost
    OBVIOUS
  <2> HIDE DEF lost, kept, f
  <2>2. IsFiniteSet(L \ lost) /\ Cardinality(L \ lost) = Cardinality(L) - Cardinality(L \cap lost)
    BY <1>1, FS_Difference
  <2> QED
    BY <2>1, <2>2
<1>9. Cardinality(kept) \in Nat
  BY <1>8, FS_CardinalityType
<1> HIDE DEF kept, lost
<1>10. Cardinality(kept) <= MaxBaseRefs
  BY <1>1, <1>3, <1>6, <1>7, <1>8, <1>9, CodeReviewAssumption
<1> QED
  BY <1>8, <1>9, <1>10 DEF kept, L

LEMMA EvictsStep == ASSUME CrInv, NEW r \in ReviewRequests, Evicts(r) PROVE CrInv'
<1> DEFINE b == rev[r].branch
<1>1. /\ rev[r].pc = "evicting" /\ rev[r] \in RevType /\ rev \in [ReviewRequests -> RevType] /\ ReviewOK(r)
      /\ rev[r].new # 0 /\ rev[r].old = 0 /\ rev[r].drop = 0 /\ 0 \in Given /\ b \in Branches
      /\ {rev[r].old, rev[r].new} \cup rev[r].rest \subseteq Given
      /\ prLock \in [PullRequests -> ReviewRequests \cup {Nobody}]
      /\ refresher \in ReviewRequests \cup {Nobody}
      /\ UNCHANGED <<origin, link, codeBase, codeFile, prLock, refresher, unswapped>>
  <2>1. rev[r].pc = "evicting" /\ UNCHANGED <<origin, link, codeBase, codeFile, prLock, refresher, unswapped>>
    BY DEF Evicts
  <2>2. rev[r].new # 0 /\ rev[r].old = 0 /\ rev[r].drop = 0
    BY <2>1, ReviewFacts DEF ReviewOK
  <2>3. refresher \in ReviewRequests \cup {Nobody} /\ 0 \in Given
    BY IdsAreNumbers DEF CrInv, CrTypeOK, Given
  <2> QED
    BY <2>1, <2>2, <2>3, ReviewFacts
<1>2. PICK victims \in SUBSET ({link[c].kb : c \in Linked(RepoOf[b])} \ {rev[r].new}) :
        /\ Cardinality(victims) = Surplus(r)
        /\ rev' = [rev EXCEPT ![r].rest = victims, ![r].pc = "pruning"]
  BY DEF Evicts
<1> DEFINE d == [rev[r] EXCEPT !.rest = victims, !.pc = "pruning"]
<1>3. victims \subseteq Given /\ victims \subseteq BaseIds
  <2>1. \A c \in Branches : link[c].kb \in Given /\ link[c].kb \in {0} \cup BaseIds
    BY DEF CrInv, FreshOK, CrTypeOK
  <2> QED
    BY <2>1 DEF Linked
<1>4. /\ d \in RevType /\ d.pc = "pruning" /\ d.kind = rev[r].kind /\ d.pr = rev[r].pr
      /\ d.branch = b /\ d.old = rev[r].old /\ d.new = rev[r].new /\ d.drop = rev[r].drop
      /\ d.rest = victims
  BY <1>1, <1>3 DEF RevType
<1>5. rev' = [rev EXCEPT ![r] = d]
  BY <1>1, <1>2
<1> HIDE DEF d
<1>6. rev'[r] = d /\ Untouched(r)
  BY <1>4, <1>5, TypesStayIn
<1>7. ReviewOK(r)'
  BY <1>1, <1>4, <1>6 DEF ReviewOK, Uncommitted, HasTip, Rebuilding
<1>8. LocksKept(r)
  BY <1>1 DEF LocksKept, CrInv, ReviewOK
<1>9. /\ Owing' = Owing /\ Excused(r)' = victims /\ Excused(r) = {rev[r].new}
      /\ \A q \in Owing \ {r} : Excused(q)' = Excused(q)
  BY <1>1, <1>4, <1>6 DEF Owing, Excused, Untouched
<1>10. AllPaid'
  <2> SUFFICES ASSUME NEW home \in {RepoOf[c] : c \in Branches}, NEW T \in SUBSET Owing
               PROVE  Cardinality(Left(home, T)') <= MaxBaseRefs + Cardinality(Owing' \ T)
    BY <1>9 DEF AllPaid, Paid
  <2>1. Paid(home, T)
    BY DEF CrInv, AllPaid
  <2>2. ASSUME r \notin T \/ home # RepoOf[b]
        PROVE  Left(home, T)' \subseteq Left(home, T)
    <3> SUFFICES ASSUME NEW c \in Branches, RepoOf[c] = home, link[c].kb # 0, link[c].kb \notin unswapped,
                        \A q \in T : link[c].kb \notin Excused(q)'
                 PROVE  \A q \in T : link[c].kb \notin Excused(q)
      BY <1>1 DEF Left, Linked
    <3>1. ASSUME r \in T PROVE link[c].kb \notin Excused(r)
      <4>1. c # b
        BY <2>2, <3>1
      <4> QED
        BY <1>1, <1>9, <4>1 DEF ReviewOK, Own
    <3> QED
      BY <1>9, <3>1
  <2>3. CASE r \notin T \/ home # RepoOf[b]
    BY <1>9, <2>1, <2>2, <2>3, PaidStays
  <2>4. CASE r \in T /\ home = RepoOf[b]
    <3> DEFINE kept == {c \in Linked(RepoOf[b]) : link[c].kb \notin victims}
               M == Left(home, T)'
               O == Owing' \ T
    <3>1. M \subseteq kept
      BY <1>1, <1>9, <2>4 DEF Left, Linked
    <3>2. IsFiniteSet(kept) /\ Cardinality(kept) \in Nat /\ Cardinality(kept) <= MaxBaseRefs
      BY <1>2, VictimsSuffice
    <3>3. Cardinality(O) \in Nat
      BY <1>9, OwingIsFinite
    <3> HIDE DEF kept, M, O
    <3>4. Cardinality(M) \in Nat /\ Cardinality(M) <= Cardinality(kept)
      BY <3>1, <3>2, SubsetCard
    <3>5. Cardinality(M) <= MaxBaseRefs + Cardinality(O)
      BY <3>2, <3>3, <3>4, CodeReviewAssumption
    <3> QED
      BY <3>5 DEF M, O
  <2> QED
    BY <2>3, <2>4
<1>11. {d.old} \cup d.rest \subseteq Given
  BY <1>1, <1>3, <1>4
<1>12. rev[r].pc \in InLock /\ d.branch = rev[r].branch
  BY <1>1, <1>4 DEF InLock
<1>13. d.pc \notin {"embedding", "committed"}
  BY <1>4
<1>14. UNCHANGED <<origin, link, codeBase, codeFile, unswapped>> /\ refresher' \in ReviewRequests \cup {Nobody}
       /\ prLock' \in [PullRequests -> ReviewRequests \cup {Nobody}]
  BY <1>1
<1> QED
  BY <1>1, <1>4, <1>5, <1>7, <1>8, <1>10, <1>11, <1>12, <1>13, <1>14, QuietKeeps

LEMMA PrunesStep == ASSUME CrInv, NEW r \in ReviewRequests, Prunes(r) PROVE CrInv'
<1> DEFINE b == rev[r].branch
<1>1. /\ rev[r].pc = "pruning" /\ rev[r] \in RevType /\ rev \in [ReviewRequests -> RevType] /\ ReviewOK(r)
      /\ rev[r].new # 0 /\ rev[r].old = 0 /\ rev[r].drop = 0 /\ b \in Branches
      /\ {rev[r].old, rev[r].new} \cup rev[r].rest \subseteq Given /\ 0 \notin rev[r].rest
      /\ prLock \in [PullRequests -> ReviewRequests \cup {Nobody}]
      /\ refresher \in ReviewRequests \cup {Nobody}
      /\ UNCHANGED <<origin, codeBase, codeFile, unswapped>>
      /\ r \in Owing /\ Excused(r) = rev[r].rest
  <2>1. rev[r].pc = "pruning" /\ UNCHANGED <<origin, codeBase, codeFile, unswapped>>
    BY DEF Prunes
  <2>2. rev[r].new # 0 /\ rev[r].old = 0 /\ rev[r].drop = 0
    BY <2>1, ReviewFacts DEF ReviewOK
  <2>3. refresher \in ReviewRequests \cup {Nobody} /\ 0 \notin rev[r].rest
    BY IdsAreNumbers, ReviewFacts DEF CrInv, CrTypeOK
  <2>4. r \in Owing /\ Excused(r) = rev[r].rest
    BY <2>1, <2>2 DEF Owing, Excused
  <2> QED
    BY <2>1, <2>2, <2>3, <2>4, ReviewFacts
<1>2. CASE rev[r].rest = {} /\ Refreshed(r, rev[r]) /\ UNCHANGED link
  <2>1. PICK d \in RevType :
          /\ rev' = [rev EXCEPT ![r] = d] /\ d.pc \in {"done", "reviewing"}
          /\ d.new = rev[r].new /\ d.drop = 0 /\ {d.old} \cup d.rest \subseteq Given
    BY <1>1, <1>2, Leaves
  <2>2. /\ prLock' \in [PullRequests -> ReviewRequests \cup {Nobody}] /\ LocksKept(r)
        /\ refresher' \in ReviewRequests \cup {Nobody} /\ ReviewOK(r)' /\ Untouched(r)
    BY <1>1, <1>2, Leaves
  <2>3. r \notin Owing'
    BY <2>1, TypesStayIn DEF Owing
  <2>4. \A c \in Branches : link'[c].kb \in {0, link[c].kb}
    BY <1>2
  <2>5. AllPaid'
    BY <1>1, <1>2, <2>2, <2>3, <2>4, DuesEnd
  <2>6. d.pc \notin InLock /\ d.pc \notin {"embedding", "committed"}
    BY <2>1 DEF InLock
  <2>7. UNCHANGED <<origin, link, codeBase, codeFile, unswapped>>
    BY <1>1, <1>2
  <2> QED
    BY <1>1, <2>1, <2>2, <2>5, <2>6, <2>7, QuietKeeps
<1>3. ASSUME NEW kb \in rev[r].rest,
             link' = [c \in Branches |-> IF link[c].kb = kb THEN NoLink ELSE link[c]],
             rev' = [rev EXCEPT ![r].rest = @ \ {kb}, ![r].drop = kb, ![r].pc = "dropping"],
             UNCHANGED <<prLock, refresher>>
      PROVE  CrInv'
  <2> DEFINE d == [rev[r] EXCEPT !.rest = @ \ {kb}, !.drop = kb, !.pc = "dropping"]
  <2>1. kb \in Given /\ kb \in BaseIds /\ kb # 0
    BY <1>1, ReviewFacts
  <2>2. /\ d \in RevType /\ d.pc = "dropping" /\ d.kind = rev[r].kind /\ d.pr = rev[r].pr
        /\ d.branch = b /\ d.old = rev[r].old /\ d.new = rev[r].new /\ d.drop = kb
        /\ d.rest = rev[r].rest \ {kb}
    BY <1>1, <2>1 DEF RevType
  <2>3. rev' = [rev EXCEPT ![r] = d]
    BY <1>1, <1>3
  <2> HIDE DEF d
  <2>4. rev'[r] = d /\ Untouched(r)
    BY <2>2, <2>3, TypesStayIn
  <2>5. /\ link' \in [Branches -> [kb : {0} \cup BaseIds, commit : 0..MaxPushes + 1]]
        /\ \A c \in Branches : link'[c] = (IF link[c].kb = kb THEN NoLink ELSE link[c])
        /\ \A c \in Branches : link'[c].kb # kb /\ link'[c].kb \in {0, link[c].kb}
        /\ \A c \in Branches : link[c].kb # link'[c].kb => link[c].kb = kb
    <3>1. NoLink \in [kb : {0} \cup BaseIds, commit : 0..MaxPushes + 1] /\ NoLink.kb = 0
      BY CodeReviewAssumption DEF NoLink
    <3>2. link \in [Branches -> [kb : {0} \cup BaseIds, commit : 0..MaxPushes + 1]]
      BY DEF CrInv, CrTypeOK
    <3> QED
      BY <1>3, <2>1, <3>1, <3>2
  <2>6. ReviewOK(r)'
    BY <1>1, <1>3, <2>1, <2>2, <2>4, <2>5 DEF ReviewOK, Uncommitted, HasTip, Rebuilding
  <2>7. Shrinks
    <3>1. \A c \in Branches : link[c].kb # 0 => link[c].kb \in DOMAIN codeBase
      BY DEF CrInv, LinkOK
    <3> QED
      BY <1>1, <2>5, <3>1 DEF Shrinks
  <2>8. AllPaid'
    <3>1. r \in Owing' /\ Excused(r)' = rev[r].rest \ {kb}
      BY <1>1, <2>2, <2>4 DEF Owing, Excused
    <3> QED
      BY <1>1, <2>4, <2>5, <3>1, DuesStay
  <2>9. LocksOK'
    BY <1>1, <2>2, <2>4, LocksStay DEF InLock
  <2>10. LocksKept(r)
    BY <1>3 DEF LocksKept, CrInv, ReviewOK
  <2>11. \A k \in DOMAIN codeBase' :
           k = rev[r].drop \/ (\E c \in Branches : link[c].kb = k /\ link'[c].kb # k) => d.drop = k
    <3>1. 0 \notin DOMAIN codeBase
      BY IdsAreNumbers DEF CrInv, CrTypeOK
    <3> QED
      BY <1>1, <2>2, <2>5, <3>1
  <2>12. {d.old, d.drop} \cup d.rest \subseteq Given
    BY <1>1, <2>1, <2>2
  <2>13. refresher' \in ReviewRequests \cup {Nobody} /\ prLock' \in [PullRequests -> ReviewRequests \cup {Nobody}]
    BY <1>1, <1>3
  <2> QED
    BY <1>1, <2>2, <2>3, <2>6, <2>7, <2>8, <2>9, <2>10, <2>11, <2>12, <2>13, ShrinkKeeps
<1> QED
  BY <1>2, <1>3 DEF Prunes

----------------------------------------------------------------------------
(* Steps of the world, while the requests stand still.                     *)
LEMMA DuesLapse ==
  ASSUME CrInv, UNCHANGED <<rev, unswapped>>, \A b \in Branches : link'[b].kb \in {0, link[b].kb}
  PROVE  AllPaid'
<1>1. Owing' = Owing /\ \A r \in Owing : Excused(r)' = Excused(r)
  BY DEF Owing, Excused
<1>2. SUFFICES ASSUME NEW home \in {RepoOf[b] : b \in Branches}, NEW T \in SUBSET Owing
               PROVE  Cardinality(Left(home, T)') <= MaxBaseRefs + Cardinality(Owing' \ T)
  BY <1>1 DEF AllPaid, Paid
<1>3. Paid(home, T)
  BY DEF CrInv, AllPaid
<1>4. Left(home, T)' \subseteq Left(home, T)
  <2> SUFFICES ASSUME NEW b \in Branches, RepoOf[b] = home, link'[b].kb # 0,
                      link'[b].kb \notin unswapped', \A q \in T : link'[b].kb \notin Excused(q)'
               PROVE  b \in Left(home, T)
    BY DEF Left, Linked
  <2>1. link'[b].kb = link[b].kb
    OBVIOUS
  <2> QED
    BY <1>1, <2>1 DEF Left, Linked
<1> QED
  BY <1>1, <1>3, <1>4, PaidStays

LEMMA StillKeeps == ASSUME CrInv, UNCHANGED crVars PROVE CrInv'
<1>1. UNCHANGED <<origin, link, codeBase, codeFile, prLock, refresher, rev, unswapped>>
  BY DEF crVars
<1>2. AllPaid'
  BY <1>1, DuesLapse
<1>3. CrTypeOK' /\ LocksOK' /\ IndexMatchesRows' /\ NoStrayBase'
  BY <1>1 DEF CrInv, CrTypeOK, LocksOK, IndexMatchesRows, NoStrayBase
<1>4. FreshOK'
  BY <1>1 DEF CrInv, FreshOK, Given, NextId
<1>5. \A b \in Branches : LinkOK(b)'
  BY <1>1 DEF CrInv, LinkOK
<1>6. \A r \in ReviewRequests : ReviewOK(r)'
  BY <1>1 DEF CrInv, ReviewOK, HasTip, Rebuilding, Own
<1> QED
  BY <1>2, <1>3, <1>4, <1>5, <1>6 DEF CrInv

LEMMA PushedStep == ASSUME CrInv, NEW b \in Branches, Pushed(b) PROVE CrInv'
<1>1. /\ UNCHANGED <<link, codeBase, codeFile, prLock, refresher, rev, unswapped>>
      /\ Len(origin[b]) <= MaxPushes
  BY DEF Pushed
<1>2. PICK t \in Trees : origin' = [origin EXCEPT ![b] = Append(@, t)]
  BY DEF Pushed
<1>3. ASSUME NEW c \in Branches
      PROVE  /\ origin'[c] \in Seq(Trees) /\ Len(origin'[c]) \in 1..MaxPushes + 1
             /\ 1..Len(origin[c]) \subseteq 1..Len(origin'[c])
             /\ \A i \in 1..Len(origin[c]) : origin'[c][i] = origin[c][i]
  <2>1. origin \in [Branches -> Seq(Trees)] /\ origin[c] \in Seq(Trees) /\ Len(origin[c]) \in 1..MaxPushes + 1
    BY DEF CrInv, CrTypeOK
  <2>2. CASE c # b
    BY <1>2, <2>1, <2>2
  <2>3. CASE c = b
    <3>1. origin'[b] = Append(origin[b], t)
      BY <1>2, <2>1
    <3>2. Len(origin[b]) \in Nat
      BY <2>1, <2>3
    <3> QED
      BY <1>1, <2>1, <2>3, <3>1, <3>2, CodeReviewAssumption
  <2> QED
    BY <2>2, <2>3
<1>4. CrTypeOK'
  <2>1. origin' \in [Branches -> Seq(Trees)]
    <3>1. origin' = [c \in Branches |-> origin'[c]]
      BY <1>2 DEF CrInv, CrTypeOK
    <3> QED
      BY <1>3, <3>1
  <2> QED
    BY <1>1, <1>3, <2>1 DEF CrInv, CrTypeOK
<1>5. LocksOK' /\ IndexMatchesRows' /\ NoStrayBase'
  BY <1>1 DEF CrInv, LocksOK, IndexMatchesRows, NoStrayBase
<1>6. FreshOK'
  BY <1>1 DEF CrInv, FreshOK, Given, NextId
<1>7. ASSUME NEW c \in Branches PROVE LinkOK(c)'
  <2>1. LinkOK(c)
    BY DEF CrInv
  <2> QED
    BY <1>1, <1>3, <2>1 DEF LinkOK
<1>8. ASSUME NEW r \in ReviewRequests PROVE ReviewOK(r)'
  <2>1. ReviewOK(r) /\ rev[r].branch \in Branches
    BY ReviewFacts
  <2>2. HasTip(r) => rev[r].commit \in 1..Len(origin'[rev[r].branch])
    BY <1>3, <2>1 DEF ReviewOK
  <2>3. (HasTip(r)' <=> HasTip(r)) /\ (Rebuilding(r)' <=> Rebuilding(r)) /\ Own(r)' = Own(r)
    BY <1>1 DEF HasTip, Rebuilding, Own
  <2> QED
    BY <1>1, <2>1, <2>2, <2>3 DEF ReviewOK
<1>9. AllPaid'
  BY <1>1, DuesLapse
<1> QED
  BY <1>4, <1>5, <1>6, <1>7, <1>8, <1>9 DEF CrInv

LEMMA OwnerDeletesStep == ASSUME CrInv, NEW b \in Branches, OwnerDeletes(b) PROVE CrInv'
<1> DEFINE kb == link[b].kb
<1>1. /\ kb # 0 /\ link' = [link EXCEPT ![b] = NoLink]
      /\ codeBase' = Removed(codeBase, kb) /\ codeFile' = Removed(codeFile, kb)
      /\ UNCHANGED <<origin, prLock, refresher, rev, unswapped>>
  BY DEF OwnerDeletes
<1>2. /\ DOMAIN codeBase' = DOMAIN codeBase \ {kb} /\ DOMAIN codeFile' = DOMAIN codeFile \ {kb}
      /\ \A x \in DOMAIN codeBase \ {kb} : codeBase'[x] = codeBase[x]
      /\ \A x \in DOMAIN codeFile \ {kb} : codeFile'[x] = codeFile[x]
  BY <1>1, RemovedFacts
<1>3. /\ link' \in [Branches -> [kb : {0} \cup BaseIds, commit : 0..MaxPushes + 1]]
      /\ link'[b] = NoLink /\ link'[b].kb = 0 /\ \A c \in Branches \ {b} : link'[c] = link[c]
  BY <1>1, CodeReviewAssumption DEF NoLink, CrInv, CrTypeOK
<1>4. \A c \in Branches : link[c].kb # 0 =>
        link[c].kb \in DOMAIN codeBase /\ (link[c].kb = kb => c = b)
  BY <1>1 DEF CrInv, LinkOK
<1> HIDE DEF kb
<1>5. Shrinks
  BY <1>1, <1>2, <1>3, <1>4 DEF Shrinks
<1>6. CrTypeOK'
  BY <1>1, <1>5 DEF CrInv, CrTypeOK, Shrinks
<1>7. LocksOK'
  BY <1>1 DEF CrInv, LocksOK
<1>8. FreshOK'
  <2>1. NextId' = NextId /\ Given' = Given /\ 0 \in Given
    BY <1>1, IdsStay, IdsAreNumbers DEF Given
  <2>2. \A c \in Branches : link'[c].kb \in Given
    BY <1>3, <2>1 DEF CrInv, FreshOK
  <2> QED
    BY <1>1, <1>2, <2>1, <2>2 DEF CrInv, FreshOK
<1>9. (\A c \in Branches : LinkOK(c)') /\ IndexMatchesRows'
  BY <1>1, <1>5, ShrunkWorld
<1>10. ASSUME NEW q \in ReviewRequests PROVE ReviewOK(q)'
  <2>1. IndexMoves({})
    BY <1>5 DEF IndexMoves, Shrinks
  <2>2. rev[q].kind = "review" /\ rev[q].pc \notin {"new", "done"} => prLock'[rev[q].pr] = q
    BY <1>1 DEF CrInv, ReviewOK
  <2>3. rev'[q] = rev[q]
    BY <1>1
  <2> QED
    BY <2>1, <2>2, <2>3, OtherStays
<1>11. NoStrayBase'
  <2> SUFFICES ASSUME NEW x \in DOMAIN codeBase', \A c \in Branches : link'[c].kb # x
               PROVE  \E q \in ReviewRequests : rev[q].drop = x
    BY <1>1 DEF NoStrayBase
  <2>1. x \in DOMAIN codeBase /\ \A c \in Branches : link[c].kb # x
    BY <1>2, <1>3 DEF kb
  <2> QED
    BY <2>1 DEF CrInv, NoStrayBase
<1>12. AllPaid'
  BY <1>1, <1>3, DuesLapse
<1> QED
  BY <1>6, <1>7, <1>8, <1>9, <1>10, <1>11, <1>12 DEF CrInv

----------------------------------------------------------------------------
LEMMA ReviewStart == CrInit => CrInv
<1> SUFFICES ASSUME CrInit PROVE CrInv
  OBVIOUS
<1>1. /\ \A b \in Branches : link[b] = NoLink /\ link[b].kb = 0
      /\ DOMAIN codeBase = {} /\ DOMAIN codeFile = {} /\ unswapped = {}
      /\ \A r \in ReviewRequests : rev[r] = NoReview
      /\ \A r \in ReviewRequests : rev[r].pc = "new" /\ rev[r].new = 0
  BY NoReviewFits DEF CrInit, NoLink, NoTree
<1>2. CrTypeOK
  <2>1. (CHOOSE t \in Trees : t # NoTree) \in Trees
    BY CodeReviewAssumption
  <2>2. /\ origin \in [Branches -> Seq(Trees)]
        /\ \A b \in Branches : Len(origin[b]) = 1
    <3> DEFINE first == CHOOSE t \in Trees : t # NoTree
    <3>1. origin = [b \in Branches |-> <<first>>] /\ first \in Trees
      BY <2>1 DEF CrInit
    <3> HIDE DEF first
    <3> QED
      BY <3>1
  <2>3. 1 \in 1..MaxPushes + 1
    BY CodeReviewAssumption
  <2>4. link \in [Branches -> [kb : {0} \cup BaseIds, commit : 0..MaxPushes + 1]]
    <3>1. NoLink \in [kb : {0} \cup BaseIds, commit : 0..MaxPushes + 1]
      BY CodeReviewAssumption DEF NoLink
    <3> QED
      BY <3>1 DEF CrInit
  <2>5. /\ prLock \in [PullRequests -> ReviewRequests \cup {Nobody}]
        /\ refresher \in ReviewRequests \cup {Nobody}
    BY DEF CrInit
  <2>6. rev \in [ReviewRequests -> RevType]
    BY NoReviewFits DEF CrInit
  <2> QED
    BY <1>1, <2>2, <2>3, <2>4, <2>5, <2>6 DEF CrTypeOK
<1>3. FreshOK
  <2>1. 0 \in Given
    BY IdsAreNumbers DEF Given
  <2> QED
    BY <1>1, <2>1, NoReviewFits DEF FreshOK
<1>4. LocksOK
  BY <1>1 DEF LocksOK, InLock
<1>5. \A b \in Branches : LinkOK(b)
  BY <1>1 DEF LinkOK
<1>6. \A r \in ReviewRequests : ReviewOK(r)
  BY <1>1, NoReviewFits DEF ReviewOK, HasTip, Rebuilding, Uncommitted
<1>7. IndexMatchesRows /\ NoStrayBase
  BY <1>1 DEF IndexMatchesRows, NoStrayBase
<1>8. AllPaid
  <2> SUFFICES ASSUME NEW home \in {RepoOf[b] : b \in Branches}, NEW T \in SUBSET Owing
               PROVE  Cardinality(Left(home, T)) <= MaxBaseRefs + Cardinality(Owing \ T)
    BY DEF AllPaid, Paid
  <2>1. Left(home, T) = {} /\ Owing \ T = {}
    BY <1>1 DEF Left, Linked, Owing
  <2>2. Cardinality({}) = 0 /\ MaxBaseRefs \in Nat
    BY FS_EmptySet, CodeReviewAssumption
  <2> QED
    BY <2>1, <2>2
<1> QED
  BY <1>2, <1>3, <1>4, <1>5, <1>6, <1>7, <1>8 DEF CrInv

LEMMA ReviewStep == CrInv /\ [CrNext]_crVars => CrInv'
<1> SUFFICES ASSUME CrInv, [CrNext]_crVars PROVE CrInv'
  OBVIOUS
<1>1. CASE UNCHANGED crVars
  BY <1>1, StillKeeps
<1>2. ASSUME NEW b \in Branches, Pushed(b) \/ OwnerDeletes(b) PROVE CrInv'
  BY <1>2, PushedStep, OwnerDeletesStep
<1>3. ASSUME NEW r \in ReviewRequests, PostReview(r) \/ PostRefresh(r) PROVE CrInv'
  BY <1>3, PostReviewStep, PostRefreshStep
<1>4. ASSUME NEW r \in ReviewRequests, RevStep(r) PROVE CrInv'
  <2>1. CASE RevPrepares(r) \/ EntersLock(r) \/ Fetches(r) \/ LoadsExisting(r) \/ DropsBase(r)
    BY <2>1, RevPreparesStep, EntersLockStep, FetchesStep, LoadsExistingStep, DropsBaseStep
  <2>2. CASE Compares(r) \/ CrTakesSlot(r) \/ RefreshFails(r) \/ CommitsRows(r) \/ Promotes(r)
    BY <2>2, ComparesStep, CrTakesSlotStep, RefreshFailsStep, CommitsRowsStep, PromotesStep
  <2>3. CASE Evicts(r) \/ Prunes(r) \/ Reviews(r)
    BY <2>3, EvictsStep, PrunesStep, ReviewsStep
  <2> QED
    BY <1>4, <2>1, <2>2, <2>3 DEF RevStep
<1> QED
  BY <1>1, <1>2, <1>3, <1>4 DEF CrNext

LEMMA DuesBoundBases == ASSUME CrInv PROVE BasesBounded
<1> SUFFICES ASSUME NEW home \in {RepoOf[b] : b \in Branches}
             PROVE  Cardinality({b \in Linked(home) : link[b].kb \notin unswapped})
                      <= MaxBaseRefs + Cardinality({r \in ReviewRequests :
                                         rev[r].pc \in {"committed", "evicting", "pruning", "dropping"}})
  BY DEF BasesBounded
<1> DEFINE busy == {r \in ReviewRequests :
                     rev[r].pc \in {"committed", "evicting", "pruning", "dropping"}}
<1>1. {b \in Linked(home) : link[b].kb \notin unswapped} = Left(home, {})
  BY DEF Left
<1>2. Cardinality(Left(home, {})) <= MaxBaseRefs + Cardinality(Owing \ {})
  BY DEF CrInv, AllPaid, Paid
<1>3. IsFiniteSet(busy) /\ Owing \ {} \subseteq busy
  <2>1. busy \subseteq ReviewRequests /\ IsFiniteSet(ReviewRequests)
    BY CodeReviewAssumption
  <2>2. IsFiniteSet(busy)
    <3> HIDE DEF busy
    <3> QED
      BY <2>1, SubsetCard
  <2> QED
    BY <2>2 DEF Owing
<1>4. Cardinality(Owing \ {}) <= Cardinality(busy)
      /\ Cardinality(Owing \ {}) \in Nat /\ Cardinality(busy) \in Nat
  <2> HIDE DEF busy
  <2> QED
    BY <1>3, SubsetCard
<1>5. Cardinality(Left(home, {})) \in Nat /\ MaxBaseRefs \in Nat
  BY LeftIsFinite, CodeReviewAssumption
<1> HIDE DEF busy
<1>6. Cardinality(Left(home, {})) <= MaxBaseRefs + Cardinality(busy)
  BY <1>2, <1>4, <1>5
<1> QED
  BY <1>1, <1>6 DEF busy

LEMMA TipsOnlyGrow == ASSUME CrInv, [CrNext]_crVars PROVE NewestTipWins
<1> SUFFICES ASSUME NEW b \in Branches, link[b].kb # 0, link'[b].kb # 0
             PROVE  link'[b].commit >= link[b].commit
  BY DEF NewestTipWins
<1>1. link[b].commit \in Nat /\ link \in [Branches -> [kb : {0} \cup BaseIds, commit : 0..MaxPushes + 1]]
  <2>1. link \in [Branches -> [kb : {0} \cup BaseIds, commit : 0..MaxPushes + 1]]
    BY DEF CrInv, CrTypeOK
  <2> QED
    BY <2>1
<1>2. CASE link'[b] = link[b] \/ link'[b] = NoLink
  BY <1>1, <1>2 DEF NoLink
<1>3. ASSUME NEW r \in ReviewRequests, rev[r].branch = b, HasTip(r), link'[b].commit = rev[r].commit
      PROVE  link'[b].commit >= link[b].commit
  <2>1. link[b].commit <= rev[r].commit /\ rev[r].commit \in Nat
    BY <1>3, ReviewFacts DEF ReviewOK
  <2> QED
    BY <1>1, <1>3, <2>1
<1>4. CASE UNCHANGED crVars
  BY <1>2, <1>4 DEF crVars
<1>5. ASSUME NEW c \in Branches, Pushed(c) \/ OwnerDeletes(c) PROVE link'[b].commit >= link[b].commit
  BY <1>1, <1>2, <1>5 DEF Pushed, OwnerDeletes
<1>6. ASSUME NEW r \in ReviewRequests, PostReview(r) \/ PostRefresh(r)
      PROVE  link'[b].commit >= link[b].commit
  BY <1>2, <1>6 DEF PostReview, PostRefresh
<1>7. ASSUME NEW r \in ReviewRequests, RevStep(r) PROVE link'[b].commit >= link[b].commit
  <2>1. CASE RevPrepares(r) \/ EntersLock(r) \/ Fetches(r) \/ DropsBase(r) \/ CrTakesSlot(r)
             \/ RefreshFails(r) \/ Promotes(r) \/ Evicts(r) \/ Reviews(r)
    <3>1. UNCHANGED link
      BY <2>1 DEF RevPrepares, EntersLock, Fetches, DropsBase, CrTakesSlot, RefreshFails, Promotes,
                  Evicts, Reviews
    <3> QED
      BY <1>2, <3>1
  <2>2. CASE LoadsExisting(r)
    <3>1. link' = link \/ link' = [link EXCEPT ![rev[r].branch] = NoLink]
      BY <2>2 DEF LoadsExisting
    <3> QED
      BY <1>1, <1>2, <3>1
  <2>3. CASE Prunes(r)
    <3>1. \/ link' = link
          \/ \E kb \in rev[r].rest : link' = [c \in Branches |-> IF link[c].kb = kb THEN NoLink ELSE link[c]]
      BY <2>3 DEF Prunes
    <3> QED
      BY <1>2, <3>1
  <2>4. CASE Compares(r)
    <3>1. \/ link' = link
          \/ link' = [link EXCEPT ![rev[r].branch].commit = rev[r].commit] /\ rev[r].pc = "diffed"
      BY <2>4 DEF Compares
    <3> QED
      BY <1>1, <1>2, <1>3, <3>1 DEF HasTip
  <2>5. CASE CommitsRows(r)
    <3>1. CASE link' = link
      BY <1>2, <3>1
    <3>2. ASSUME NEW kb, link' = [link EXCEPT ![rev[r].branch] = [kb |-> kb, commit |-> rev[r].commit]],
                 rev[r].pc = "embedding"
          PROVE  link'[b].commit >= link[b].commit
      <4>1. CASE rev[r].branch = b
        <5>1. link'[b].commit = rev[r].commit /\ HasTip(r)
          BY <1>1, <3>2, <4>1 DEF HasTip
        <5> QED
          BY <1>3, <4>1, <5>1
      <4>2. CASE rev[r].branch # b
        BY <1>1, <1>2, <3>2, <4>2
      <4> QED
        BY <4>1, <4>2
    <3> QED
      BY <2>5, <3>1, <3>2 DEF CommitsRows
  <2> QED
    BY <1>7, <2>1, <2>2, <2>3, <2>4, <2>5 DEF RevStep
<1> QED
  BY <1>4, <1>5, <1>6, <1>7 DEF CrNext

LEMMA ReviewInvariant == ChatsSpec => [](focus = "review" => CrInv)
<1> DEFINE Inv == focus = "review" => CrInv
<1>1. ChatsInit => Inv
  BY ReviewStart DEF ChatsInit
<1>2. Inv /\ [ChatsNext]_chatsVars => Inv'
  BY FocusMoves, ReviewStep
<1> QED
  BY <1>1, <1>2, PTL DEF ChatsSpec

(* The documents of a linked code base are the files of the commit its     *)
(* link names, its vectors are those of its documents unless the swap      *)
(* failed, no base is left over, a repository keeps to its cap but for the *)
(* creators still to evict, and a pull request is reviewed once at a time, *)
(* however refreshes, evictions, failures and deletions cross              *)
(* (code_index.py, review_api.py).                                         *)
THEOREM ReviewsAreSound == ChatsSpec => []ReviewsSound
<1>1. (focus = "review" => CrInv) => ReviewsSound
  <2> SUFFICES ASSUME CrInv
               PROVE  CrTypeOK /\ BaseIsItsCommit /\ IndexMatchesRows /\ NoStrayBase /\ BasesBounded
                      /\ ReviewsExclusive
    BY DEF ReviewsSound
  <2>1. BaseIsItsCommit
    BY DEF CrInv, LinkOK, BaseIsItsCommit
  <2>2. ReviewsExclusive
    BY DEF CrInv, ReviewOK, ReviewsExclusive
  <2> QED
    BY <2>1, <2>2, DuesBoundBases DEF CrInv
<1> QED
  BY <1>1, ReviewInvariant, PTL

(* An older tip of a branch never takes the place of a newer one, since    *)
(* the fetch sits inside the lock of the branch (code_index.py).           *)
THEOREM NewestTipsWin == ChatsSpec => NewerTipsStay
<1>1. (focus = "review" => CrInv) /\ [ChatsNext]_chatsVars => [focus = "review" => NewestTipWins]_crVars
  BY FocusMoves, TipsOnlyGrow
<1> QED
  BY <1>1, ReviewInvariant, PTL DEF ChatsSpec, NewerTipsStay

----------------------------------------------------------------------------
(* Task memory. *)

LEMMA LeastNat == ASSUME NEW T \in SUBSET Nat, T # {} PROVE \E n \in T : \A m \in T : n <= m
<1> DEFINE R == OpToRel(<, Nat)
<1>1. IsWellFoundedOn(R, Nat)
  BY NatLessThanWellFounded
<1>2. \A m, n \in Nat : m < n => <<m, n>> \in R
  BY DEF OpToRel
<1> HIDE DEF R
<1>3. PICK n \in T : \A m \in T : <<m, n>> \notin R
  BY <1>1, WFMin
<1>4. ASSUME NEW m \in T PROVE n <= m
  <2>1. m \in Nat /\ n \in Nat /\ <<m, n>> \notin R
    BY <1>3
  <2>2. ~(m < n)
    BY <1>2, <2>1, Zenon
  <2> QED
    BY <2>1, <2>2
<1> QED
  BY <1>4

(* A finite set of numbers has a largest one. *)
LEMMA MaxFits ==
  ASSUME NEW T \in SUBSET Nat, IsFiniteSet(T), T # {}
  PROVE  Max(T) \in T /\ \A m \in T : m <= Max(T)
<1> DEFINE Above(x) == {y \in T : y > x}
           Sizes == {Cardinality(Above(x)) : x \in T}
<1>1. \A x \in T : IsFiniteSet(Above(x)) /\ Cardinality(Above(x)) \in Nat
  BY FS_Subset, FS_CardinalityType
<1>2. Sizes \in SUBSET Nat /\ Sizes # {}
  BY <1>1
<1>3. PICK n \in Sizes : \A m \in Sizes : n <= m
  BY <1>2, LeastNat
<1>4. PICK x \in T : n = Cardinality(Above(x))
  OBVIOUS
<1>5. ASSUME NEW y \in T, y > x PROVE FALSE
  <2>0. x \in Nat /\ y \in Nat /\ \A z \in T : z \in Nat
    OBVIOUS
  <2>1. Above(y) \subseteq Above(x) /\ y \in Above(x) /\ y \notin Above(y)
    <3>1. \A z \in T : z > y => z > x
      BY <1>5, <2>0
    <3>2. y > x /\ ~(y > y)
      BY <1>5, <2>0
    <3> QED
      BY <3>1, <3>2
  <2>2. Cardinality(Above(y)) <= Cardinality(Above(x))
        /\ Cardinality(Above(y)) # Cardinality(Above(x))
    BY <1>1, <2>1, FS_Subset
  <2>3. n <= Cardinality(Above(y)) /\ n \in Nat /\ Cardinality(Above(y)) \in Nat
    BY <1>1, <1>2, <1>3
  <2> QED
    BY <1>4, <2>2, <2>3
<1>6. x \in T /\ \A y \in T : x >= y
  BY <1>5
<1>7. \E z \in T : \A y \in T : z >= y
  BY <1>6
<1>8. Max(T) \in T /\ \A y \in T : Max(T) >= y
  BY <1>7 DEF Max
<1> QED
  BY <1>8

(* PathTo and Restored for any tree t. *)
LeadsIn(t, S) == \A k \in S : t[k].parent \in S \cup {0}
PathIn(t, m) == {k \in DOMAIN t : \A S \in SUBSET DOMAIN t : {m} \ {0} \subseteq S /\ LeadsIn(t, S) => k \in S}
KeptIn(t, m) == {k \in PathIn(t, m) : t[k].snap.kept}
RestoredIn(t, m) ==
  IF KeptIn(t, m) = {} THEN EmptyDoc ELSE DocFromSnapshot(t[Max(KeptIn(t, m))].snap)

LEMMA RestoredHere == \A m : Restored(m) = RestoredIn(tree, m)
BY DEF Restored, PathTo, Leads, RestoredIn, KeptIn, PathIn, LeadsIn

LEMMA RestoredThere == \A m : Restored(m)' = RestoredIn(tree', m')
BY DEF Restored, PathTo, Leads, RestoredIn, KeptIn, PathIn, LeadsIn

(* The tree u is t and one message more, n, below p. *)
Grows(t, u, n, p) ==
  /\ IsFiniteSet(DOMAIN t) /\ DOMAIN t \subseteq Nat \ {0}
  /\ n \in Nat \ {0} /\ \A k \in DOMAIN t : k < n
  /\ DOMAIN u = DOMAIN t \cup {n} /\ u[n].parent = p /\ p \in DOMAIN t \cup {0}
  /\ \A k \in DOMAIN t : u[k] = t[k] /\ t[k].parent \in DOMAIN t \cup {0}

LEMMA PathGrows ==
  ASSUME NEW t, NEW u, NEW n, NEW p, Grows(t, u, n, p)
  PROVE  PathIn(u, n) = PathIn(t, p) \cup {n}
<1>1. n # 0 /\ n \notin DOMAIN t /\ p # n
  BY DEF Grows
<1>2. ASSUME NEW k \in PathIn(u, n), k # n PROVE k \in PathIn(t, p)
  <2>1. k \in DOMAIN t
    BY <1>2 DEF PathIn, Grows
  <2>2. ASSUME NEW S \in SUBSET DOMAIN t, {p} \ {0} \subseteq S, LeadsIn(t, S) PROVE k \in S
    <3>1. S \cup {n} \in SUBSET DOMAIN u /\ {n} \ {0} \subseteq S \cup {n}
      BY DEF Grows
    <3>2. LeadsIn(u, S \cup {n})
      BY <2>2 DEF Grows, LeadsIn
    <3> QED
      BY <1>2, <3>1, <3>2 DEF PathIn
  <2> QED
    BY <2>1, <2>2 DEF PathIn
<1>3. ASSUME NEW k \in PathIn(t, p) PROVE k \in PathIn(u, n)
  <2>1. k \in DOMAIN u
    BY DEF PathIn, Grows
  <2>2. ASSUME NEW S \in SUBSET DOMAIN u, {n} \ {0} \subseteq S, LeadsIn(u, S) PROVE k \in S
    <3>1. S \ {n} \in SUBSET DOMAIN t /\ n \in S
      BY <1>1, <2>2 DEF Grows
    <3>2. {p} \ {0} \subseteq S \ {n}
      BY <1>1, <2>2, <3>1 DEF Grows, LeadsIn
    <3>3. LeadsIn(t, S \ {n})
      BY <1>1, <2>2, <3>1 DEF Grows, LeadsIn
    <3> QED
      BY <3>1, <3>2, <3>3 DEF PathIn
  <2> QED
    BY <2>1, <2>2 DEF PathIn
<1>4. n \in PathIn(u, n)
  BY <1>1 DEF PathIn, Grows
<1> QED
  BY <1>2, <1>3, <1>4

LEMMA RestoredGrows ==
  ASSUME NEW t, NEW u, NEW n, NEW p, Grows(t, u, n, p)
  PROVE  /\ ~u[n].snap.kept => RestoredIn(u, n) = RestoredIn(t, p)
         /\ u[n].snap.kept => RestoredIn(u, n) = DocFromSnapshot(u[n].snap)
<1>1. PathIn(u, n) = PathIn(t, p) \cup {n} /\ PathIn(t, p) \subseteq DOMAIN t
  BY PathGrows DEF PathIn
<1>2. \A k \in PathIn(t, p) : u[k] = t[k]
  BY <1>1 DEF Grows
<1>3. ASSUME ~u[n].snap.kept PROVE RestoredIn(u, n) = RestoredIn(t, p)
  <2>1. KeptIn(u, n) = KeptIn(t, p)
    BY <1>1, <1>2, <1>3 DEF KeptIn
  <2>2. ASSUME KeptIn(t, p) # {} PROVE u[Max(KeptIn(t, p))] = t[Max(KeptIn(t, p))]
    <3>1. KeptIn(t, p) \subseteq DOMAIN t /\ KeptIn(t, p) \subseteq Nat
      BY <1>1 DEF KeptIn, Grows
    <3>2. IsFiniteSet(KeptIn(t, p))
      BY <3>1, FS_Subset DEF Grows
    <3>3. Max(KeptIn(t, p)) \in KeptIn(t, p)
      BY <2>2, <3>1, <3>2, MaxFits
    <3> QED
      BY <3>3, <1>2 DEF KeptIn
  <2> QED
    BY <2>1, <2>2 DEF RestoredIn
<1>4. ASSUME u[n].snap.kept PROVE RestoredIn(u, n) = DocFromSnapshot(u[n].snap)
  <2>1. n \in KeptIn(u, n) /\ KeptIn(u, n) \subseteq DOMAIN t \cup {n}
    BY <1>1, <1>4 DEF KeptIn
  <2>2. KeptIn(u, n) \subseteq Nat /\ \A k \in KeptIn(u, n) : k <= n
    BY <2>1 DEF Grows
  <2>3. IsFiniteSet(KeptIn(u, n))
    BY <2>1, FS_Subset, FS_AddElement DEF Grows
  <2>4. Max(KeptIn(u, n)) \in KeptIn(u, n) /\ n <= Max(KeptIn(u, n))
    BY <2>1, <2>2, <2>3, MaxFits
  <2>5. Max(KeptIn(u, n)) = n
    BY <2>2, <2>4 DEF Grows
  <2> QED
    BY <2>1, <2>5 DEF RestoredIn
<1> QED
  BY <1>3, <1>4

(* Documents and snapshots. *)

ItemsOK(items) ==
  /\ items \subseteq ItemType /\ IsFiniteSet(items)
  /\ \A i, j \in items : (i.id = j.id \/ i.text = j.text) => i = j
  /\ \A k \in Kinds : Cardinality({i \in items : i.kind = k}) <= ListCap

DocType == [goal : Texts \cup {NoText}, items : SUBSET ItemType, next : Nat]
SnapType == [goal : Texts \cup {NoText}, items : SUBSET ItemType, kept : BOOLEAN]

DocOK(d) == d \in DocType /\ ItemsOK(d.items) /\ \A i \in d.items : i.id < d.next
SnapOK(s) == s \in SnapType /\ ItemsOK(s.items)

TextsOf(d) == {i.text : i \in d.items} \cup ({d.goal} \ {NoText})

LEMMA NothingOK == DocOK(EmptyDoc) /\ SnapOK(NoSnapshot) /\ TextsOf(EmptyDoc) = {} /\ TextsOf(NoSnapshot) = {}
<1>1. ItemsOK({})
  <2>1. Cardinality({}) = 0 /\ IsFiniteSet({})
    BY FS_EmptySet
  <2>2. \A k \in Kinds : {i \in {} : i.kind = k} = {}
    OBVIOUS
  <2> QED
    BY <2>1, <2>2, MemoryAssumption DEF ItemsOK
<1> QED
  BY <1>1 DEF DocOK, SnapOK, TextsOf, EmptyDoc, NoSnapshot, DocType, SnapType

LEMMA SnapshotOK ==
  ASSUME NEW d, DocOK(d)
  PROVE  SnapOK(Snapshot(d)) /\ Snapshot(d).kept /\ TextsOf(Snapshot(d)) = TextsOf(d)
BY DEF DocOK, SnapOK, Snapshot, DocType, SnapType, TextsOf

LEMMA FromSnapshotOK ==
  ASSUME NEW s, SnapOK(s)
  PROVE  DocOK(DocFromSnapshot(s)) /\ TextsOf(DocFromSnapshot(s)) = TextsOf(s)
<1> DEFINE ids == {0} \cup {i.id : i \in s.items}
<1>1. s.items \subseteq ItemType /\ IsFiniteSet(s.items) /\ s.goal \in Texts \cup {NoText}
  BY DEF SnapOK, SnapType, ItemsOK
<1>2. IsFiniteSet({i.id : i \in s.items})
  <2> DEFINE all == {i.id : i \in s.items}
  <2>1. [i \in s.items |-> i.id] \in Surjection(s.items, all)
    BY DEF Surjection
  <2> HIDE DEF all
  <2>2. IsFiniteSet(all)
    BY <1>1, <2>1, FS_Surjection
  <2> QED
    BY <2>2 DEF all
<1>3. IsFiniteSet(ids) /\ ids \in SUBSET Nat /\ ids # {}
  <2>1. IsFiniteSet({i.id : i \in s.items} \cup {0})
    BY <1>2, FS_AddElement
  <2>2. ids = {i.id : i \in s.items} \cup {0}
    OBVIOUS
  <2>3. {i.id : i \in s.items} \subseteq Nat
    BY <1>1 DEF ItemType
  <2> QED
    BY <2>1, <2>2, <2>3
<1>4. Max(ids) \in Nat /\ \A m \in ids : m <= Max(ids)
  <2> HIDE DEF ids
  <2> QED
    BY <1>3, MaxFits
<1>5. \A i \in s.items : i.id \in Nat /\ i.id <= Max(ids)
  BY <1>1, <1>4 DEF ItemType
<1>6. DocFromSnapshot(s) = [goal |-> s.goal, items |-> s.items, next |-> 1 + Max(ids)]
  BY DEF DocFromSnapshot
<1> HIDE DEF ids
<1>7. \A i \in s.items : i.id < 1 + Max(ids)
  BY <1>4, <1>5
<1> QED
  BY <1>1, <1>4, <1>6, <1>7 DEF DocOK, DocType, SnapOK, TextsOf

LEMMA MergeGoalOK ==
  ASSUME NEW d, DocOK(d), NEW g \in Texts \cup {NoText}, NEW b \in BOOLEAN
  PROVE  DocOK(MergeGoal(d, g, b)) /\ TextsOf(MergeGoal(d, g, b)) \subseteq TextsOf(d) \cup ({g} \ {NoText})
<1>1. CASE g # NoText /\ (d.goal = NoText \/ b)
  <2>1. MergeGoal(d, g, b) = [d EXCEPT !.goal = g]
    BY <1>1 DEF MergeGoal
  <2>2. [d EXCEPT !.goal = g] \in DocType /\ [d EXCEPT !.goal = g].items = d.items
        /\ [d EXCEPT !.goal = g].next = d.next /\ [d EXCEPT !.goal = g].goal = g
    BY DEF DocOK, DocType
  <2> QED
    BY <2>1, <2>2 DEF DocOK, TextsOf
<1>2. CASE ~(g # NoText /\ (d.goal = NoText \/ b))
  BY <1>2 DEF MergeGoal
<1> QED
  BY <1>1, <1>2

LEMMA MergeItemOK ==
  ASSUME NEW d, DocOK(d), NEW k \in Kinds, NEW x \in Texts \cup {NoText}
  PROVE  DocOK(MergeItem(d, k, x)) /\ TextsOf(MergeItem(d, k, x)) \subseteq TextsOf(d) \cup ({x} \ {NoText})
<1> DEFINE new == [id |-> d.next, kind |-> k, text |-> x]
           u == [d EXCEPT !.items = @ \cup {new}, !.next = @ + 1]
           of(items, l) == {i \in items : i.kind = l}
<1>1. CASE x = NoText \/ (\E i \in d.items : i.text = x) \/ Cardinality(of(d.items, k)) >= ListCap
  BY <1>1 DEF MergeItem
<1>2. CASE ~(x = NoText \/ (\E i \in d.items : i.text = x) \/ Cardinality(of(d.items, k)) >= ListCap)
  <2>1. MergeItem(d, k, x) = u
    BY <1>2 DEF MergeItem
  <2>2. d \in DocType /\ d.items \subseteq ItemType /\ IsFiniteSet(d.items) /\ d.next \in Nat
    BY DEF DocOK, DocType, ItemsOK
  <2>3. new \in ItemType /\ new \notin d.items /\ \A i \in d.items : i.id # new.id /\ i.text # new.text
    BY <1>2, <2>2 DEF ItemType, DocOK
  <2>4. u \in DocType /\ u.items = d.items \cup {new} /\ u.next = d.next + 1 /\ u.goal = d.goal
    <3> HIDE DEF new
    <3>1. d.next + 1 \in Nat /\ d.items \cup {new} \in SUBSET ItemType
      BY <2>2, <2>3
    <3> QED
      BY <2>2, <3>1 DEF DocType
  <2>5. new.kind = k /\ new.id = d.next /\ new.text = x
    OBVIOUS
  <2> HIDE DEF u, new
  <2>6. \A i \in u.items : i.id < u.next
    BY <2>2, <2>4, <2>5 DEF DocOK, ItemType
  <2>7. IsFiniteSet(u.items)
    BY <2>2, <2>4, FS_AddElement
  <2>8. \A i, j \in u.items : (i.id = j.id \/ i.text = j.text) => i = j
    BY <2>3, <2>4 DEF DocOK, ItemsOK
  <2>9. ASSUME NEW l \in Kinds PROVE Cardinality(of(u.items, l)) <= ListCap
    <3>1. IsFiniteSet(of(d.items, l))
      BY <2>2, FS_Subset
    <3>2. CASE l = k
      <4>1. of(u.items, l) = of(d.items, l) \cup {new} /\ new \notin of(d.items, l)
        BY <2>3, <2>4, <2>5, <3>2
      <4>2. Cardinality(of(u.items, l)) = Cardinality(of(d.items, l)) + 1
        BY <3>1, <4>1, FS_AddElement
      <4>3. Cardinality(of(d.items, l)) \in Nat
        BY <3>1, FS_CardinalityType
      <4> HIDE DEF of
      <4>4. ~(Cardinality(of(d.items, l)) >= ListCap)
        BY <1>2, <3>2
      <4> QED
        BY <4>2, <4>3, <4>4, MemoryAssumption
    <3>3. CASE l # k
      <4>1. of(u.items, l) = of(d.items, l)
        BY <2>4, <2>5, <3>3
      <4> QED
        BY <4>1 DEF DocOK, ItemsOK
    <3> QED
      BY <3>2, <3>3
  <2>10. u.items \subseteq ItemType
    BY <2>2, <2>3, <2>4
  <2>11. DocOK(u)
    BY <2>4, <2>6, <2>7, <2>8, <2>9, <2>10 DEF DocOK, ItemsOK
  <2>12. TextsOf(u) \subseteq TextsOf(d) \cup ({x} \ {NoText})
    BY <1>2, <2>4, <2>5 DEF TextsOf
  <2> QED
    BY <2>1, <2>11, <2>12
<1> QED
  BY <1>1, <1>2

LEMMA MergeDeltaOK ==
  ASSUME NEW d, DocOK(d), NEW said \in SUBSET Texts, NEW delta \in Deltas
  PROVE  /\ DocOK(MergeDelta(d, UserStated(delta, said)))
         /\ TextsOf(MergeDelta(d, UserStated(delta, said))) \subseteq TextsOf(d) \cup said
<1> DEFINE s == UserStated(delta, said)
           d1 == MergeGoal(d, s.goal, s.changed)
           d2 == MergeItem(d1, "clarified", s.clarified)
           d3 == MergeItem(d2, "constraints", s.constraints)
<1>1. /\ s.goal \in Texts \cup {NoText} /\ {s.goal} \ {NoText} \subseteq said
      /\ s.clarified \in Texts \cup {NoText} /\ {s.clarified} \ {NoText} \subseteq said
      /\ s.constraints \in Texts \cup {NoText} /\ {s.constraints} \ {NoText} \subseteq said
      /\ s.changed \in BOOLEAN
  BY DEF UserStated, Deltas
<1> HIDE DEF s
<1>2. DocOK(d1) /\ TextsOf(d1) \subseteq TextsOf(d) \cup said
  <2>1. DocOK(d1) /\ TextsOf(d1) \subseteq TextsOf(d) \cup ({s.goal} \ {NoText})
    BY <1>1, MergeGoalOK, Zenon
  <2> QED
    BY <1>1, <2>1
<1> HIDE DEF d1
<1>3. DocOK(d2) /\ TextsOf(d2) \subseteq TextsOf(d1) \cup said
  BY <1>1, <1>2, MergeItemOK DEF Kinds
<1> HIDE DEF d2
<1>4. DocOK(d3) /\ TextsOf(d3) \subseteq TextsOf(d2) \cup said
  BY <1>1, <1>3, MergeItemOK DEF Kinds
<1>5. MergeDelta(d, s) = d3
  BY DEF MergeDelta, d1, d2
<1> HIDE DEF d3
<1> QED
  BY <1>2, <1>3, <1>4, <1>5 DEF s

(* The tree: a message is above its parent, and a snapshot holds what was  *)
(* stated.                                                                 *)
TreeOK ==
  /\ IsFiniteSet(DOMAIN tree) /\ DOMAIN tree \subseteq Nat \ {0} /\ leaf \in DOMAIN tree \cup {0}
  /\ \A m \in DOMAIN tree :
       /\ tree[m].parent \in DOMAIN tree \cup {0} /\ tree[m].parent < m
       /\ SnapOK(tree[m].snap) /\ TextsOf(tree[m].snap) \subseteq stated

EditType ==
  [op : {"turn", "goal", "reset", "remove", "mode", "branch"},
   pc : {"new", "queued", "asked", "extracting", "done"}, leaf : Nat, target : Nat,
   item : ItemType \cup {NoItem}, rag : BOOLEAN, doc : DocType, parent : Nat]

(* A turn under way has the lock, its question is the newest message, and  *)
(* the document is still the one it read.                                  *)
Answering(r) == edit[r].pc \in {"asked", "extracting"}

TurnOK(r) ==
  Answering(r) =>
    /\ Holds(r)
    /\ leaf \in DOMAIN tree /\ \A m \in DOMAIN tree : m <= leaf
    /\ ~tree[leaf].snap.kept /\ tree[leaf].parent = edit[r].parent
    /\ edit[r].pc = "extracting" => edit[r].doc = doc

MemInv ==
  /\ DocOK(doc) /\ TreeOK /\ rag \in BOOLEAN
  /\ memLock \in Seq(MemRequests) /\ edit \in [MemRequests -> EditType]
  /\ \A r \in MemRequests : TurnOK(r)
  /\ MemoryFollowsLeaf /\ MemoryIsStated

LEMMA IdleOK == Idle \in EditType
<1>1. EmptyDoc \in DocType
  BY NothingOK DEF DocOK
<1> QED
  BY <1>1 DEF Idle, EditType

(* What becomes of a request in one field, or in the queue. *)
LEMMA JoinsKeep ==
  ASSUME MemInv, NEW r \in MemRequests, edit[r].pc = "new", NEW x \in EditType, JoinsMemLock(r, x),
         UNCHANGED <<doc, rag, tree, leaf, byHand, stated>>
  PROVE  MemInv'
<1>1. memLock \in Seq(MemRequests) /\ edit \in [MemRequests -> EditType]
  BY DEF MemInv
<1>2. memLock' \in Seq(MemRequests) /\ (memLock # <<>> => memLock' # <<>> /\ Head(memLock') = Head(memLock))
  BY <1>1 DEF JoinsMemLock
<1>3. [x EXCEPT !.pc = "queued"] \in EditType /\ [x EXCEPT !.pc = "queued"].pc = "queued"
  BY DEF EditType
<1>4. edit' \in [MemRequests -> EditType]
  BY <1>1, <1>3 DEF JoinsMemLock
<1>5. ASSUME NEW q \in MemRequests PROVE TurnOK(q)'
  <2>1. CASE q = r
    BY <1>1, <1>3, <2>1 DEF JoinsMemLock, TurnOK, Answering
  <2>2. CASE q # r
    <3>1. edit'[q] = edit[q]
      BY <1>1, <2>2 DEF JoinsMemLock
    <3> QED
      BY <1>2, <3>1 DEF MemInv, TurnOK, Answering, Holds
  <2> QED
    BY <2>1, <2>2
<1>6. MemoryFollowsLeaf'
  BY RestoredHere, RestoredThere DEF MemInv, MemoryFollowsLeaf
<1> QED
  BY <1>2, <1>4, <1>5, <1>6 DEF MemInv, TreeOK, MemoryIsStated

LEMMA MemTurnArrivesStep == ASSUME MemInv, NEW r \in MemRequests, MemTurnArrives(r) PROVE MemInv'
BY IdleOK, JoinsKeep DEF MemTurnArrives

LEMMA EditArrivesStep == ASSUME MemInv, NEW r \in MemRequests, EditArrives(r) PROVE MemInv'
<1>1. CASE \E o \in {"goal", "reset"} : JoinsMemLock(r, [Idle EXCEPT !.op = o])
  <2>1. PICK o \in {"goal", "reset"} : JoinsMemLock(r, [Idle EXCEPT !.op = o])
    BY <1>1
  <2>2. [Idle EXCEPT !.op = o] \in EditType
    BY IdleOK DEF EditType
  <2> QED
    BY <2>1, <2>2, JoinsKeep DEF EditArrives
<1>2. CASE \E i \in doc.items : JoinsMemLock(r, [Idle EXCEPT !.op = "remove", !.item = i])
  <2>1. PICK i \in doc.items : JoinsMemLock(r, [Idle EXCEPT !.op = "remove", !.item = i])
    BY <1>2
  <2>2. i \in ItemType
    BY DEF MemInv, DocOK, ItemsOK
  <2>3. [Idle EXCEPT !.op = "remove", !.item = i] \in EditType
    BY <2>2, IdleOK DEF EditType
  <2> QED
    BY <2>1, <2>3, JoinsKeep DEF EditArrives
<1> QED
  BY <1>1, <1>2 DEF EditArrives

LEMMA SwitchArrivesStep == ASSUME MemInv, NEW r \in MemRequests, SwitchArrives(r) PROVE MemInv'
<1>1. PICK m \in DOMAIN tree : JoinsMemLock(r, [Idle EXCEPT !.op = "branch", !.leaf = leaf, !.target = m])
  BY DEF SwitchArrives
<1>2. m \in Nat /\ leaf \in Nat
  BY DEF MemInv, TreeOK
<1>3. [Idle EXCEPT !.op = "branch", !.leaf = leaf, !.target = m] \in EditType
  BY <1>2, IdleOK DEF EditType
<1> QED
  BY <1>1, <1>3, JoinsKeep DEF SwitchArrives

LEMMA PutsModeStep == ASSUME MemInv, NEW r \in MemRequests, PutsMode(r) PROVE MemInv'
<1>1. edit \in [MemRequests -> EditType]
  BY DEF MemInv
<1>2. [edit[r] EXCEPT !.op = "mode", !.pc = "done"] \in EditType
  BY <1>1 DEF EditType
<1>3. edit' = [edit EXCEPT ![r] = [edit[r] EXCEPT !.op = "mode", !.pc = "done"]]
  BY <1>1 DEF PutsMode
<1>4. edit' \in [MemRequests -> EditType] /\ edit'[r].pc = "done"
  BY <1>1, <1>2, <1>3 DEF EditType
<1>5. ASSUME NEW q \in MemRequests PROVE TurnOK(q)'
  <2>1. CASE q = r
    BY <1>4, <2>1 DEF TurnOK, Answering
  <2>2. CASE q # r
    <3>1. edit'[q] = edit[q]
      BY <1>1, <1>3, <2>2
    <3> QED
      BY <3>1 DEF MemInv, TurnOK, Answering, Holds, PutsMode
  <2> QED
    BY <2>1, <2>2
<1>6. MemoryFollowsLeaf'
  BY RestoredHere, RestoredThere DEF MemInv, MemoryFollowsLeaf, PutsMode
<1> QED
  BY <1>4, <1>5, <1>6 DEF MemInv, TreeOK, MemoryIsStated, PutsMode

(* Who has the lock is alone at work, and done when it leaves. *)
LEMMA HolderIsAlone ==
  ASSUME MemInv, NEW r \in MemRequests, Holds(r), NEW q \in MemRequests \ {r}
  PROVE  ~Answering(q)
BY DEF MemInv, TurnOK, Holds

LEMMA LeavesKeep ==
  ASSUME MemInv, NEW r \in MemRequests, Holds(r), LeavesMemLock(r)
  PROVE  /\ memLock' \in Seq(MemRequests) /\ edit' \in [MemRequests -> EditType]
         /\ \A q \in MemRequests : TurnOK(q)'
<1>1. memLock \in Seq(MemRequests) /\ edit \in [MemRequests -> EditType] /\ memLock # <<>>
  BY DEF MemInv, Holds
<1>2. memLock' \in Seq(MemRequests)
  BY <1>1 DEF LeavesMemLock
<1>3. [edit[r] EXCEPT !.pc = "done"] \in EditType /\ [edit[r] EXCEPT !.pc = "done"].pc = "done"
  BY <1>1 DEF EditType
<1>4. edit' = [edit EXCEPT ![r] = [edit[r] EXCEPT !.pc = "done"]]
  BY <1>1 DEF LeavesMemLock
<1>5. edit' \in [MemRequests -> EditType] /\ edit'[r].pc = "done"
  BY <1>1, <1>3, <1>4
<1>6. ASSUME NEW q \in MemRequests PROVE ~Answering(q)'
  <2>1. CASE q = r
    BY <1>5, <2>1 DEF Answering
  <2>2. CASE q # r
    <3>1. edit'[q] = edit[q]
      BY <1>1, <1>4, <2>2
    <3> QED
      BY <2>2, <3>1, HolderIsAlone DEF Answering
  <2> QED
    BY <2>1, <2>2
<1> QED
  BY <1>2, <1>5, <1>6 DEF TurnOK

(* The message a turn adds. *)
LEMMA StoresOK ==
  ASSUME MemInv, NEW x, SnapOK(x), TextsOf(x) \subseteq stated', StoresMessage(leaf, x), stated \subseteq stated'
  PROVE  /\ Grows(tree, tree', leaf', leaf) /\ tree'[leaf'].snap = x
         /\ \A m \in DOMAIN tree' : m <= leaf'
         /\ TreeOK'
<1> DEFINE n == leaf'
           ids == {0} \cup DOMAIN tree
<1>1. IsFiniteSet(DOMAIN tree) /\ DOMAIN tree \subseteq Nat \ {0} /\ leaf \in DOMAIN tree \cup {0}
  BY DEF MemInv, TreeOK
<1>2. IsFiniteSet(ids) /\ ids \in SUBSET Nat /\ ids # {}
  <2>1. IsFiniteSet(DOMAIN tree \cup {0}) /\ ids = DOMAIN tree \cup {0}
    BY <1>1, FS_AddElement
  <2> QED
    BY <1>1, <2>1
<1>3. n = 1 + Max(ids)
  BY DEF StoresMessage, NextMessage
<1>4. n \in Nat \ {0} /\ \A k \in DOMAIN tree : k < n
  <2>1. Max(ids) \in Nat /\ \A k \in ids : k <= Max(ids)
    <3> HIDE DEF ids
    <3> QED
      BY <1>2, MaxFits
  <2>2. \A k \in DOMAIN tree : k \in ids /\ k \in Nat
    BY <1>1
  <2> HIDE DEF ids
  <2> QED
    BY <1>3, <2>1, <2>2
<1>5. tree' = [m \in DOMAIN tree \cup {n} |-> IF m = n THEN [parent |-> leaf, snap |-> x] ELSE tree[m]]
  BY DEF StoresMessage
<1> HIDE DEF n, ids
<1>6. DOMAIN tree' = DOMAIN tree \cup {n} /\ tree'[n] = [parent |-> leaf, snap |-> x]
      /\ \A k \in DOMAIN tree : tree'[k] = tree[k]
  <2>1. \A k \in DOMAIN tree : k # n
    BY <1>1, <1>4
  <2> QED
    BY <1>5, <2>1
<1>7. Grows(tree, tree', n, leaf)
  BY <1>1, <1>4, <1>6 DEF Grows, MemInv, TreeOK
<1>8. IsFiniteSet(DOMAIN tree')
  BY <1>1, <1>6, FS_AddElement
<1>9. leaf < n /\ leaf \in Nat
  BY <1>1, <1>4
<1>10. ASSUME NEW m \in DOMAIN tree'
       PROVE  /\ tree'[m].parent \in DOMAIN tree' \cup {0} /\ tree'[m].parent < m
              /\ SnapOK(tree'[m].snap) /\ TextsOf(tree'[m].snap) \subseteq stated'
  <2>1. CASE m = n
    BY <1>1, <1>6, <1>9, <2>1
  <2>2. CASE m # n
    BY <1>6, <2>2 DEF MemInv, TreeOK
  <2> QED
    BY <2>1, <2>2
<1>11. \A m \in DOMAIN tree' : m <= n
  BY <1>1, <1>4, <1>6
<1>12. TreeOK'
  BY <1>1, <1>4, <1>6, <1>8, <1>10 DEF TreeOK, n
<1> QED
  BY <1>6, <1>7, <1>11, <1>12 DEF n

LEMMA MemInvFacts ==
  ASSUME MemInv
  PROVE  /\ DocOK(doc) /\ TreeOK /\ rag \in BOOLEAN
         /\ memLock \in Seq(MemRequests) /\ edit \in [MemRequests -> EditType]
         /\ \A r \in MemRequests : TurnOK(r)
         /\ ~byHand => Snapshot(doc) = Snapshot(RestoredIn(tree, leaf))
         /\ TextsOf(doc) \subseteq stated
<1>1. ~byHand => Snapshot(doc) = Snapshot(RestoredIn(tree, leaf))
  BY RestoredHere DEF MemInv, MemoryFollowsLeaf
<1> QED
  BY <1>1 DEF MemInv, MemoryIsStated, TextsOf

LEMMA MemInvAgain ==
  ASSUME DocOK(doc'), TreeOK', rag' \in BOOLEAN,
         memLock' \in Seq(MemRequests), edit' \in [MemRequests -> EditType],
         \A r \in MemRequests : TurnOK(r)',
         ~byHand' => Snapshot(doc') = Snapshot(RestoredIn(tree', leaf')),
         TextsOf(doc') \subseteq stated'
  PROVE  MemInv'
<1>1. MemoryFollowsLeaf'
  BY RestoredThere DEF MemoryFollowsLeaf
<1>2. MemoryIsStated' /\ DocOK(doc)'
  BY DEF MemoryIsStated, TextsOf, DocOK, ItemsOK
<1> QED
  BY <1>1, <1>2 DEF MemInv

LEMMA TurnAsksStep == ASSUME MemInv, NEW r \in MemRequests, TurnAsks(r) PROVE MemInv'
<1>1. Holds(r) /\ StoresMessage(leaf, NoSnapshot) /\ UNCHANGED <<doc, rag, memLock, byHand, stated>>
  BY DEF TurnAsks
<1>2. edit \in [MemRequests -> EditType] /\ leaf \in Nat /\ rag \in BOOLEAN /\ memLock \in Seq(MemRequests)
  BY MemInvFacts DEF TreeOK
<1>3. /\ Grows(tree, tree', leaf', leaf) /\ tree'[leaf'].snap = NoSnapshot
      /\ \A m \in DOMAIN tree' : m <= leaf'
      /\ TreeOK'
  BY <1>1, NothingOK, StoresOK
<1>4. DOMAIN tree' = DOMAIN tree \cup {leaf'} /\ tree'[leaf'].parent = leaf
  BY <1>3 DEF Grows
<1> DEFINE x == [edit[r] EXCEPT !.pc = "asked", !.parent = leaf, !.rag = rag]
<1>5. x \in EditType
  BY <1>2 DEF EditType
<1>6. x.pc = "asked" /\ x.parent = leaf
  BY <1>2 DEF EditType
<1>7. edit' = [edit EXCEPT ![r] = x]
  BY <1>2 DEF TurnAsks
<1> HIDE DEF x
<1>8. edit' \in [MemRequests -> EditType] /\ edit'[r] = x
  BY <1>2, <1>5, <1>7
<1>9. ASSUME NEW q \in MemRequests PROVE TurnOK(q)'
  <2>1. CASE q = r
    <3>1. Holds(r)'
      BY <1>1 DEF Holds
    <3>2. ~tree'[leaf'].snap.kept
      BY <1>3 DEF NoSnapshot
    <3> QED
      BY <1>3, <1>4, <1>6, <1>8, <2>1, <3>1, <3>2 DEF TurnOK
  <2>2. CASE q # r
    <3>1. edit'[q] = edit[q]
      BY <1>2, <1>7, <2>2
    <3> QED
      BY <1>1, <2>2, <3>1, HolderIsAlone DEF TurnOK, Answering
  <2> QED
    BY <2>1, <2>2
<1>10. RestoredIn(tree', leaf') = RestoredIn(tree, leaf)
  BY <1>3, RestoredGrows DEF NoSnapshot
<1> QED
  BY <1>1, <1>2, <1>3, <1>8, <1>9, <1>10, MemInvFacts, MemInvAgain

LEMMA TurnReadsStep == ASSUME MemInv, NEW r \in MemRequests, TurnReads(r) PROVE MemInv'
<1>1. UNCHANGED <<doc, rag, tree, leaf, memLock, byHand, stated>>
  BY DEF TurnReads
<1>2. edit \in [MemRequests -> EditType] /\ doc \in DocType /\ Answering(r)
  BY MemInvFacts DEF DocOK, TurnReads, Answering
<1> DEFINE x == [edit[r] EXCEPT !.pc = "extracting", !.doc = doc]
<1>3. x \in EditType
  BY <1>2 DEF EditType
<1>4. x.pc = "extracting" /\ x.doc = doc /\ x.parent = edit[r].parent
  BY <1>2 DEF EditType
<1>5. edit' = [edit EXCEPT ![r] = x]
  BY <1>2 DEF TurnReads
<1> HIDE DEF x
<1>6. edit' \in [MemRequests -> EditType] /\ edit'[r] = x
  BY <1>2, <1>3, <1>5
<1>7. ASSUME NEW q \in MemRequests PROVE TurnOK(q)'
  <2>1. CASE q = r
    BY <1>1, <1>2, <1>4, <1>6, <2>1, MemInvFacts DEF TurnOK, Holds
  <2>2. CASE q # r
    <3>1. edit'[q] = edit[q]
      BY <1>2, <1>5, <2>2
    <3> QED
      BY <1>1, <3>1, MemInvFacts DEF TurnOK, Answering, Holds
  <2> QED
    BY <2>1, <2>2
<1>8. TreeOK'
  BY <1>1, MemInvFacts DEF TreeOK
<1> QED
  BY <1>1, <1>6, <1>7, <1>8, MemInvFacts, MemInvAgain

(* An answer with a snapshot of the document as the answer leaves it. *)
LEMMA AnswerKeeps ==
  ASSUME MemInv, NEW r \in MemRequests, Answering(r), LeavesMemLock(r), UNCHANGED rag,
         DocOK(doc'), stated \subseteq stated', TextsOf(doc') \subseteq stated',
         StoresMessage(leaf, Snapshot(doc'))
  PROVE  MemInv'
<1>1. Holds(r)
  BY MemInvFacts DEF TurnOK
<1>2. SnapOK(Snapshot(doc')) /\ Snapshot(doc').kept /\ TextsOf(Snapshot(doc')) \subseteq stated'
  BY SnapshotOK
<1>3. Grows(tree, tree', leaf', leaf) /\ tree'[leaf'].snap = Snapshot(doc') /\ TreeOK'
  BY <1>2, StoresOK
<1>4. RestoredIn(tree', leaf') = DocFromSnapshot(Snapshot(doc'))
  BY <1>2, <1>3, RestoredGrows
<1>5. Snapshot(RestoredIn(tree', leaf')) = Snapshot(doc')
  BY <1>4 DEF DocFromSnapshot, Snapshot
<1> QED
  BY <1>1, <1>3, <1>5, LeavesKeep, MemInvFacts, MemInvAgain

LEMMA TurnRemembersStep == ASSUME MemInv, NEW r \in MemRequests, TurnRemembers(r) PROVE MemInv'
<1>1. Answering(r) /\ edit[r].doc = doc /\ DocOK(doc) /\ TextsOf(doc) \subseteq stated
  BY MemInvFacts DEF TurnRemembers, Answering, TurnOK
<1>2. PICK said \in SUBSET Texts, delta \in Deltas :
        LET merged == MergeDelta(edit[r].doc, UserStated(delta, said))
        IN /\ Cardinality(said) <= 1
           /\ doc' = IF merged # edit[r].doc THEN merged ELSE doc
           /\ StoresMessage(leaf, Snapshot(merged))
           /\ stated' = stated \cup said
  BY DEF TurnRemembers
<1> DEFINE merged == MergeDelta(doc, UserStated(delta, said))
<1>3. doc' = merged /\ StoresMessage(leaf, Snapshot(merged)) /\ stated' = stated \cup said
  BY <1>1, <1>2
<1>4. DocOK(merged) /\ TextsOf(merged) \subseteq TextsOf(doc) \cup said
  BY <1>1, MergeDeltaOK
<1> HIDE DEF merged
<1>5. DocOK(doc') /\ TextsOf(doc') \subseteq stated' /\ stated \subseteq stated'
  BY <1>1, <1>3, <1>4
<1>6. LeavesMemLock(r) /\ UNCHANGED rag
  BY DEF TurnRemembers
<1> QED
  BY <1>1, <1>3, <1>5, <1>6, AnswerKeeps

LEMMA TurnForgetsStep == ASSUME MemInv, NEW r \in MemRequests, TurnForgets(r) PROVE MemInv'
<1>1. Answering(r) /\ edit[r].doc = doc /\ DocOK(doc) /\ TextsOf(doc) \subseteq stated
  BY MemInvFacts DEF TurnForgets, Answering, TurnOK
<1>2. UNCHANGED <<doc, rag, stated>> /\ LeavesMemLock(r) /\ StoresMessage(leaf, Snapshot(doc'))
  BY <1>1 DEF TurnForgets
<1> QED
  BY <1>1, <1>2, AnswerKeeps

LEMMA TurnAnswersPlainStep == ASSUME MemInv, NEW r \in MemRequests, TurnAnswersPlain(r) PROVE MemInv'
<1>1. Answering(r) /\ LeavesMemLock(r) /\ UNCHANGED <<doc, rag, byHand, stated>> /\ StoresMessage(leaf, NoSnapshot)
  BY DEF TurnAnswersPlain, Answering
<1>2. Holds(r)
  BY <1>1, MemInvFacts DEF TurnOK
<1>3. Grows(tree, tree', leaf', leaf) /\ tree'[leaf'].snap = NoSnapshot /\ TreeOK'
  BY <1>1, NothingOK, StoresOK
<1>4. RestoredIn(tree', leaf') = RestoredIn(tree, leaf)
  BY <1>3, RestoredGrows DEF NoSnapshot
<1> QED
  BY <1>1, <1>2, <1>3, <1>4, LeavesKeep, MemInvFacts, MemInvAgain

LEMMA MemTurnFailsStep == ASSUME MemInv, NEW r \in MemRequests, MemTurnFails(r) PROVE MemInv'
<1> DEFINE p == edit[r].parent
<1>1. Answering(r) /\ LeavesMemLock(r) /\ UNCHANGED <<doc, rag, byHand, stated>>
      /\ leaf' = p /\ tree' = [m \in DOMAIN tree \ {leaf} |-> tree[m]]
  BY DEF MemTurnFails, Answering
<1>2. Holds(r) /\ leaf \in DOMAIN tree /\ (\A m \in DOMAIN tree : m <= leaf)
      /\ ~tree[leaf].snap.kept /\ tree[leaf].parent = p
  BY <1>1, MemInvFacts DEF TurnOK
<1> HIDE DEF p
<1>3. TreeOK
  BY MemInvFacts
<1>4. DOMAIN tree' = DOMAIN tree \ {leaf} /\ \A m \in DOMAIN tree' : tree'[m] = tree[m]
  BY <1>1
<1>5. IsFiniteSet(DOMAIN tree')
  BY <1>3, <1>4, FS_Subset DEF TreeOK
<1>6. \A m \in DOMAIN tree : m \in Nat /\ tree[m].parent # leaf
  <2>1. ASSUME NEW m \in DOMAIN tree, tree[m].parent = leaf PROVE FALSE
    <3>1. m \in Nat /\ leaf \in Nat /\ leaf < m /\ m <= leaf
      BY <1>2, <1>3, <2>1 DEF TreeOK
    <3> QED
      BY <3>1
  <2> QED
    BY <1>3, <2>1 DEF TreeOK
<1>7. p \in DOMAIN tree' \cup {0}
  BY <1>2, <1>3, <1>4, <1>6 DEF TreeOK
<1>8. \A m \in DOMAIN tree' : tree'[m].parent \in DOMAIN tree' \cup {0}
  BY <1>3, <1>4, <1>6 DEF TreeOK
<1>9. TreeOK'
  BY <1>1, <1>3, <1>4, <1>5, <1>7, <1>8 DEF TreeOK
<1>10. \A k \in DOMAIN tree' : k < leaf
  BY <1>2, <1>4, <1>6
<1>11. Grows(tree', tree, leaf, p)
  BY <1>2, <1>3, <1>4, <1>5, <1>7, <1>8, <1>10 DEF Grows, TreeOK
<1>12. RestoredIn(tree, leaf) = RestoredIn(tree', leaf')
  BY <1>1, <1>2, <1>11, RestoredGrows
<1> QED
  BY <1>1, <1>2, <1>9, <1>12, LeavesKeep, MemInvFacts, MemInvAgain

LEMMA PutsGoalStep == ASSUME MemInv, NEW r \in MemRequests, PutsGoal(r) PROVE MemInv'
<1>1. PICK g \in Texts \cup {NoText} : doc' = [doc EXCEPT !.goal = g] /\ stated' = stated \cup ({g} \ {NoText})
  BY DEF PutsGoal
<1>2. Holds(r) /\ LeavesMemLock(r) /\ UNCHANGED <<rag, tree, leaf>> /\ byHand' = TRUE
  BY DEF PutsGoal
<1>3. doc \in DocType /\ TextsOf(doc) \subseteq stated
  BY MemInvFacts DEF DocOK
<1>4. doc' \in DocType /\ doc'.items = doc.items /\ doc'.next = doc.next /\ doc'.goal = g
  BY <1>1, <1>3 DEF DocType
<1>5. DocOK(doc')
  BY <1>4, MemInvFacts DEF DocOK
<1>6. TextsOf(doc') \subseteq stated'
  BY <1>1, <1>3, <1>4 DEF TextsOf
<1>7. TreeOK'
  BY <1>1, <1>2, MemInvFacts DEF TreeOK
<1> QED
  BY <1>2, <1>5, <1>6, <1>7, LeavesKeep, MemInvFacts, MemInvAgain

LEMMA RemovesItemStep == ASSUME MemInv, NEW r \in MemRequests, RemovesItem(r) PROVE MemInv'
<1> DEFINE hit == {i \in doc.items : i.id = edit[r].item.id}
<1>1. doc' = [doc EXCEPT !.items = @ \ hit] /\ byHand' = (byHand \/ hit # {})
      /\ Holds(r) /\ LeavesMemLock(r) /\ UNCHANGED <<rag, tree, leaf, stated>>
  BY DEF RemovesItem
<1>2. DocOK(doc) /\ doc \in DocType /\ TextsOf(doc) \subseteq stated
  BY MemInvFacts DEF DocOK
<1> HIDE DEF hit
<1>3. doc' \in DocType /\ doc'.items = doc.items \ hit /\ doc'.next = doc.next /\ doc'.goal = doc.goal
  BY <1>1, <1>2 DEF DocType
<1>4. ItemsOK(doc.items \ hit)
  <2>1. ItemsOK(doc.items) /\ IsFiniteSet(doc.items \ hit)
    BY <1>2, FS_Subset DEF DocOK, ItemsOK
  <2>2. ASSUME NEW k \in Kinds PROVE Cardinality({i \in doc.items \ hit : i.kind = k}) <= ListCap
    <3> DEFINE of == {i \in doc.items : i.kind = k}
               less == {i \in doc.items \ hit : i.kind = k}
    <3>1. IsFiniteSet(of) /\ less \subseteq of
      BY <2>1, FS_Subset DEF ItemsOK
    <3>2. Cardinality(of) <= ListCap
      BY <2>1 DEF ItemsOK
    <3> HIDE DEF of, less
    <3>3. IsFiniteSet(less) /\ Cardinality(less) <= Cardinality(of)
      BY <3>1, FS_Subset
    <3>4. Cardinality(less) \in Nat /\ Cardinality(of) \in Nat
      BY <3>1, <3>3, FS_CardinalityType
    <3>5. Cardinality(less) <= ListCap
      BY <3>2, <3>3, <3>4, MemoryAssumption
    <3> QED
      BY <3>5 DEF less
  <2> QED
    BY <2>1, <2>2 DEF ItemsOK
<1>5. DocOK(doc')
  BY <1>2, <1>3, <1>4 DEF DocOK
<1>6. TextsOf(doc') \subseteq stated'
  BY <1>1, <1>2, <1>3 DEF TextsOf
<1>7. TreeOK'
  BY <1>1, MemInvFacts DEF TreeOK
<1>8. ~byHand' => doc' = doc
  <2> SUFFICES ASSUME ~byHand' PROVE doc' = doc
    OBVIOUS
  <2>1. hit = {}
    BY <1>1
  <2>2. doc' = [doc EXCEPT !.items = doc.items]
    BY <1>1, <2>1
  <2> QED
    BY <1>2, <2>2 DEF DocType
<1>9. ~byHand' => ~byHand
  BY <1>1
<1> QED
  BY <1>1, <1>5, <1>6, <1>7, <1>8, <1>9, LeavesKeep, MemInvFacts, MemInvAgain

LEMMA ResetsStep == ASSUME MemInv, NEW r \in MemRequests, Resets(r) PROVE MemInv'
<1>1. Holds(r) /\ doc' = EmptyDoc /\ byHand' = TRUE /\ LeavesMemLock(r) /\ UNCHANGED <<rag, tree, leaf, stated>>
  BY DEF Resets
<1>2. TreeOK'
  BY <1>1, MemInvFacts DEF TreeOK
<1> QED
  BY <1>1, <1>2, NothingOK, LeavesKeep, MemInvFacts, MemInvAgain

(* What a switch restores was stated, too. *)
LEMMA RestoredOK ==
  ASSUME MemInv, NEW m \in DOMAIN tree
  PROVE  DocOK(RestoredIn(tree, m)) /\ TextsOf(RestoredIn(tree, m)) \subseteq stated
<1> DEFINE K == KeptIn(tree, m)
<1>1. IsFiniteSet(DOMAIN tree) /\ DOMAIN tree \subseteq Nat /\ K \subseteq DOMAIN tree
  BY MemInvFacts DEF TreeOK, KeptIn, PathIn
<1>2. IsFiniteSet(K) /\ K \in SUBSET Nat
  BY <1>1, FS_Subset
<1>3. CASE K = {}
  BY <1>3, NothingOK DEF RestoredIn
<1>4. CASE K # {}
  <2> HIDE DEF K
  <2>1. Max(K) \in DOMAIN tree
    BY <1>1, <1>2, <1>4, MaxFits
  <2>2. SnapOK(tree[Max(K)].snap) /\ TextsOf(tree[Max(K)].snap) \subseteq stated
    BY <2>1, MemInvFacts DEF TreeOK
  <2>3. RestoredIn(tree, m) = DocFromSnapshot(tree[Max(K)].snap)
    BY <1>4 DEF RestoredIn, K
  <2> QED
    BY <2>2, <2>3, FromSnapshotOK
<1> QED
  BY <1>3, <1>4

LEMMA SwitchesStep == ASSUME MemInv, NEW r \in MemRequests, Switches(r) PROVE MemInv'
<1>1. Holds(r) /\ LeavesMemLock(r) /\ UNCHANGED <<rag, tree, stated>>
  BY DEF Switches
<1>2. CASE UNCHANGED <<leaf, doc, byHand>>
  <2>1. TreeOK'
    BY <1>1, <1>2, MemInvFacts DEF TreeOK
  <2> QED
    BY <1>1, <1>2, <2>1, LeavesKeep, MemInvFacts, MemInvAgain
<1>3. CASE /\ edit[r].target \in DOMAIN tree
           /\ leaf' = edit[r].target /\ doc' = Restored(edit[r].target) /\ byHand' = FALSE
  <2>1. doc' = RestoredIn(tree, leaf') /\ leaf' \in DOMAIN tree
    BY <1>3, RestoredHere
  <2>2. DocOK(doc') /\ TextsOf(doc') \subseteq stated
    BY <2>1, RestoredOK
  <2>3. TreeOK'
    BY <1>1, <2>1, MemInvFacts DEF TreeOK
  <2> QED
    BY <1>1, <2>1, <2>2, <2>3, LeavesKeep, MemInvFacts, MemInvAgain
<1> QED
  BY <1>2, <1>3 DEF Switches

LEMMA MemoryStart == MemInit => MemInv
<1> SUFFICES ASSUME MemInit PROVE MemInv
  OBVIOUS
<1>1. DOMAIN tree = {} /\ IsFiniteSet({}) /\ leaf = 0 /\ doc = EmptyDoc /\ stated = {}
  BY FS_EmptySet DEF MemInit
<1>2. TreeOK
  BY <1>1 DEF TreeOK
<1>3. edit \in [MemRequests -> EditType] /\ memLock \in Seq(MemRequests) /\ rag \in BOOLEAN
  BY IdleOK DEF MemInit
<1>4. \A r \in MemRequests : TurnOK(r)
  BY DEF MemInit, Idle, TurnOK, Answering
<1>5. MemoryFollowsLeaf
  <2>1. KeptIn(tree, leaf) = {}
    BY <1>1 DEF KeptIn, PathIn
  <2>2. Restored(leaf) = EmptyDoc
    BY <2>1, RestoredHere DEF RestoredIn
  <2> QED
    BY <1>1, <2>2 DEF MemoryFollowsLeaf
<1>6. MemoryIsStated
  BY <1>1 DEF MemoryIsStated, EmptyDoc
<1> QED
  BY <1>1, <1>2, <1>3, <1>4, <1>5, <1>6, NothingOK DEF MemInv

LEMMA MemoryStep == MemInv /\ [MemNext]_memVars => MemInv'
<1> SUFFICES ASSUME MemInv, [MemNext]_memVars PROVE MemInv'
  OBVIOUS
<1>1. CASE UNCHANGED memVars
  <2>1. TreeOK'
    BY <1>1, MemInvFacts DEF memVars, TreeOK
  <2>2. \A r \in MemRequests : TurnOK(r)'
    BY <1>1, MemInvFacts DEF memVars, TurnOK, Answering, Holds
  <2> QED
    BY <1>1, <2>1, <2>2, MemInvFacts, MemInvAgain DEF memVars
<1>2. CASE MemNext
  <2>1. PICK r \in MemRequests :
          MemTurnArrives(r) \/ EditArrives(r) \/ SwitchArrives(r) \/ PutsMode(r) \/ MemStep(r)
    BY <1>2 DEF MemNext
  <2>2. CASE MemTurnArrives(r) \/ EditArrives(r) \/ SwitchArrives(r) \/ PutsMode(r)
    BY <2>2, MemTurnArrivesStep, EditArrivesStep, SwitchArrivesStep, PutsModeStep
  <2>3. CASE MemStep(r)
    BY <2>3, TurnAsksStep, TurnReadsStep, TurnRemembersStep, TurnForgetsStep, TurnAnswersPlainStep,
       MemTurnFailsStep, PutsGoalStep, RemovesItemStep, ResetsStep, SwitchesStep DEF MemStep
  <2> QED
    BY <2>1, <2>2, <2>3
<1> QED
  BY <1>1, <1>2

LEMMA MemInvSound == ASSUME MemInv PROVE MemTypeOK /\ MemoryFollowsLeaf /\ MemoryIsStated
<1>1. DocOK(doc) /\ TreeOK
  BY MemInvFacts
<1>2. MemTypeOK
  BY <1>1 DEF MemTypeOK, DocOK, DocType, ItemsOK, TreeOK
<1> QED
  BY <1>2 DEF MemInv

LEMMA MemoryInvariant == ChatsSpec => [](focus = "memory" => MemInv)
<1> DEFINE Inv == focus = "memory" => MemInv
<1>1. ChatsInit => Inv
  BY MemoryStart DEF ChatsInit
<1>2. Inv /\ [ChatsNext]_chatsVars => Inv'
  BY FocusMoves, MemoryStep
<1> QED
  BY <1>1, <1>2, PTL DEF ChatsSpec

(* The document keeps to its schema and its caps, it is what the branch    *)
(* that is open remembers unless a user has edited it since, and nothing   *)
(* is in it that no user stated, whatever the order of turns, failures,    *)
(* edits and switches (task_memory.py, task_memory_api.py, main.py).       *)
THEOREM MemoryIsSound == ChatsSpec => []TaskMemorySound
<1>1. (focus = "memory" => MemInv) => TaskMemorySound
  BY MemInvSound DEF TaskMemorySound
<1> QED
  BY <1>1, MemoryInvariant, PTL
=============================================================================
