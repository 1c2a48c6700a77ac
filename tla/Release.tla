------------------------------- MODULE Release -------------------------------
(***************************************************************************)
(* The /release command: plans and confirmations of a chat                 *)
(* (agent/release_handler.py, release_planner.py, release_executor.py) and *)
(* the tools of the release MCP server they call (mcp_servers/             *)
(* project_git.py), which go on when the Agent gives up on their answer.   *)
(*                                                                         *)
(* The history of the branch is linear: a commit is its position, and all  *)
(* that counts of its content is the changelog, a sequence of versions.    *)
(***************************************************************************)
EXTENDS Naturals, Sequences

CONSTANTS
  ReleaseRequests,  \* /release messages and confirmations
  ReleaseChats,
  Versions,         \* pairs <<major, minor>>
  FirstVersion,     \* the last one released
  MaxForeign        \* bound: commits made by others

ASSUME ReleaseAssumption ==
  /\ FirstVersion \in Versions /\ Versions \subseteq Nat \X Nat
  /\ ReleaseChats # {} /\ MaxForeign \in Nat

VARIABLES
  repo,     \* the working copy: log, changelog file, tags
  remote,   \* origin: head of the branch, tags
  drafts,   \* draft releases on GitHub, in the order of their making
  plans,    \* the ReleasePlans ever made
  latest,   \* release_plans: a chat's plan, or 0
  waitline, \* chat_locks: holder first
  relRequest,  \* the messages
  tool,     \* the call of a message at the MCP server
  foreign   \* commits made by others

relVars == <<repo, remote, drafts, plans, latest, waitline, relRequest, tool, foreign>>

STEP_KEYS == <<"commit", "tag", "push", "release">>
NoVersion == <<>>
Commits == 0..Len(repo.log)  \* 0 is none
PlanType ==
  [chat : ReleaseChats, head : Commits, last : Versions, version : Versions \cup {NoVersion},
   steps : [{"commit", "tag", "push", "release"} -> {"pending", "done", "failed", "unavailable"}],
   sha : Commits]
ReleaseRequestType ==
  [chat : ReleaseChats, version : Versions \cup {NoVersion}, plan : Nat, at : 0..5,
   pc : {"new", "loading", "planning", "confirming", "checking", "writing", "calling", "done"}]
ToolType ==
  [key : {"commit", "tag", "push", "release"}, version : Versions \cup {NoVersion}, sha : Commits,
   stage : {"idle", "called", "written", "committed", "listed", "ok", "error", "unavailable"}]

RelTypeOK ==
  /\ repo \in [log : Seq(Seq(Versions)), file : Seq(Versions), tags : [Versions -> Commits]]
  /\ remote \in [head : Commits, tags : [Versions -> Commits]]
  /\ drafts \in Seq([tag : Versions, sha : Commits])
  /\ plans \in Seq(PlanType)
  /\ latest \in [ReleaseChats -> 0..Len(plans)]
  /\ waitline \in [ReleaseChats -> Seq(ReleaseRequests)]
  /\ relRequest \in [ReleaseRequests -> ReleaseRequestType]
  /\ tool \in [ReleaseRequests -> ToolType]
  /\ foreign \in 0..MaxForeign

RelInit ==
  /\ repo = [log |-> <<<<FirstVersion>>>>, file |-> <<FirstVersion>>,
             tags |-> [v \in Versions |-> IF v = FirstVersion THEN 1 ELSE 0]]
  /\ remote = [head |-> 1, tags |-> repo.tags]
  /\ drafts = <<>> /\ plans = <<>> /\ foreign = 0
  /\ latest = [c \in ReleaseChats |-> 0] /\ waitline = [c \in ReleaseChats |-> <<>>]
  /\ relRequest = [r \in ReleaseRequests |->
       [chat |-> CHOOSE c \in ReleaseChats : TRUE, version |-> NoVersion, plan |-> 0, at |-> 0,
        pc |-> "new"]]
  /\ tool = [r \in ReleaseRequests |->
       [key |-> "commit", version |-> NoVersion, sha |-> 0, stage |-> "idle"]]

(***************************************************************************)
(* Versions.                                                               *)
(***************************************************************************)
Greater(v, w) == v[1] > w[1] \/ (v[1] = w[1] /\ v[2] > w[2])

last_version_tag(tags) == CHOOSE v \in tags : \A w \in tags : v = w \/ Greater(v, w)

version_candidates(last, taken) ==
  {<<last[1] + 1, 0>>, <<last[1], last[2] + 1>>} \ taken

validate_version(v, last, taken) == v # NoVersion /\ Greater(v, last) /\ v \notin taken

(***************************************************************************)
(* release_context: the read tools see the working copy and, if it can be  *)
(* reached, origin.                                                        *)
(***************************************************************************)
Tip == Len(repo.log)
Dirty == repo.file # repo.log[Tip]
Tagged(tags) == {v \in Versions : tags[v] # 0}
Taken(reachable) == Tagged(repo.tags) \cup (IF reachable THEN Tagged(remote.tags) ELSE {})

(***************************************************************************)
(* The handler.  A chat's plans and confirmations take its lock in turn.   *)
(***************************************************************************)
RelGoes(r, pc) == relRequest' = [relRequest EXCEPT ![r].pc = pc]
RelLocked(r) == waitline[relRequest[r].chat] # <<>> /\ Head(waitline[relRequest[r].chat]) = r
Unlocks(r) == waitline' = [waitline EXCEPT ![relRequest[r].chat] = Tail(@)]
RelEnds(r) == RelGoes(r, "done") /\ Unlocks(r)

PlanArrives(r, c) ==
  /\ relRequest[r].pc = "new"
  /\ relRequest' = [relRequest EXCEPT ![r].chat = c, ![r].pc = "planning"]
  /\ waitline' = [waitline EXCEPT ![c] = Append(@, r)]
  /\ UNCHANGED <<repo, remote, drafts, plans, latest, tool, foreign>>

(* build_plan reads the repository and asks the model; the plan replaces   *)
(* the chat's previous one.  The model picks a candidate, or the rule does.*)
Plans(r) ==
  LET c == relRequest[r].chat
      last == last_version_tag(Tagged(repo.tags))
  IN
  /\ relRequest[r].pc = "planning" /\ RelLocked(r)
  /\ \/ UNCHANGED <<plans, latest>>  \* nothing to release, a read or the model failed
     \/ \E reachable \in BOOLEAN :
          LET candidates == version_candidates(last, Taken(reachable)) \cap Versions IN
          \E v \in IF candidates = {} THEN {NoVersion} ELSE candidates :
            /\ plans' = Append(plans,
                 [chat |-> c, head |-> Tip, last |-> last, version |-> v, sha |-> 0,
                  steps |-> [k \in {"commit", "tag", "push", "release"} |-> "pending"]])
            /\ latest' = [latest EXCEPT ![c] = Len(plans')]
  /\ RelEnds(r)
  /\ UNCHANGED <<repo, remote, drafts, tool, foreign>>

(* A confirmation takes the plan before it waits for the lock, and perhaps *)
(* a version the user typed.  One that names an older plan is refused.     *)
ConfirmArrives(r, c, v) ==
  /\ relRequest[r].pc = "new" /\ latest[c] # 0
  /\ relRequest' = [relRequest EXCEPT ![r].chat = c, ![r].version = v, ![r].plan = latest[c],
                                ![r].pc = "confirming"]
  /\ waitline' = [waitline EXCEPT ![c] = Append(@, r)]
  /\ UNCHANGED <<repo, remote, drafts, plans, latest, tool, foreign>>

(* Mutant: a retry may still change the version. *)
AppliesOverridesLate(r) ==
  LET p == relRequest[r].plan IN
  /\ relRequest[r].pc = "confirming" /\ RelLocked(r)
  /\ plans' = IF relRequest[r].version # NoVersion
              THEN [plans EXCEPT ![p].version = relRequest[r].version] ELSE plans
  /\ RelGoes(r, "checking")
  /\ UNCHANGED <<repo, remote, drafts, latest, waitline, tool, foreign>>

(* _apply_overrides: the version is locked once the changelog is committed.*)
AppliesOverrides(r) ==
  LET p == relRequest[r].plan IN
  /\ relRequest[r].pc = "confirming" /\ RelLocked(r)
  /\ plans' = IF relRequest[r].version # NoVersion /\ plans[p].steps["commit"] # "done"
              THEN [plans EXCEPT ![p].version = relRequest[r].version] ELSE plans
  /\ RelGoes(r, "checking")
  /\ UNCHANGED <<repo, remote, drafts, latest, waitline, tool, foreign>>

(* _revalidate: nothing is written unless the tree is clean, HEAD is where *)
(* the plan left it and the version is free.                               *)
StillFits(plan, reachable) ==
  /\ ~Dirty
  /\ Tip = IF plan.steps["commit"] = "done" THEN plan.sha ELSE plan.head
  /\ plan.steps["commit"] = "done" \/ validate_version(plan.version, plan.last, Taken(reachable))

Revalidates(r) ==
  /\ relRequest[r].pc = "checking"
  /\ \/ /\ \E reachable \in BOOLEAN : StillFits(plans[relRequest[r].plan], reachable)
        /\ relRequest' = [relRequest EXCEPT ![r].pc = "writing", ![r].at = 1] /\ UNCHANGED waitline
     \/ RelEnds(r)  \* blocked, or the call failed
  /\ UNCHANGED <<repo, remote, drafts, plans, latest, tool, foreign>>

(* _write_steps and confirm_plan: steps that are done are skipped; the     *)
(* plan of a finished release is dropped, unless it was replaced.          *)
WritesNext(r) ==
  LET p == relRequest[r].plan
      k == STEP_KEYS[relRequest[r].at]
      c == relRequest[r].chat
  IN
  /\ relRequest[r].pc = "writing"
  /\ IF relRequest[r].at > Len(STEP_KEYS)
     THEN /\ RelEnds(r) /\ UNCHANGED tool
          /\ latest' = IF latest[c] = p THEN [latest EXCEPT ![c] = 0] ELSE latest
     ELSE /\ IF plans[p].steps[k] = "done"
             THEN relRequest' = [relRequest EXCEPT ![r].at = @ + 1] /\ UNCHANGED tool
             ELSE /\ RelGoes(r, "calling")
                  /\ tool' = [tool EXCEPT ![r] = [key |-> k, version |-> plans[p].version,
                                                  sha |-> plans[p].sha, stage |-> "called"]]
          /\ UNCHANGED <<latest, waitline>>
  /\ UNCHANGED <<repo, remote, drafts, plans, foreign>>

(***************************************************************************)
(* The tools.  Between two git processes, or HTTP calls, other calls run.  *)
(***************************************************************************)
Serves(r, key, stage) == tool[r].key = key /\ tool[r].stage = stage
Reaches(r, stage) == tool' = [tool EXCEPT ![r].stage = stage]

(* release_commit_changelog: the check and the write of the file go        *)
(* together; git add and git commit follow.                                *)
ToolWritesFile(r) ==
  /\ Serves(r, "commit", "called")
  /\ IF \E i \in 1..Len(repo.file) : repo.file[i] = tool[r].version
     THEN Reaches(r, "error") /\ UNCHANGED repo
     ELSE /\ repo' = [repo EXCEPT !.file = <<tool[r].version>> \o @]
          /\ Reaches(r, "written")
  /\ UNCHANGED <<remote, drafts, plans, latest, waitline, relRequest, foreign>>

(* git commit: nothing to commit when another call's commit took the file. *)
ToolCommits(r) ==
  /\ Serves(r, "commit", "written")
  /\ \/ /\ Dirty
        /\ repo' = [repo EXCEPT !.log = Append(@, repo.file)]
        /\ Reaches(r, "committed")
     \/ Reaches(r, "error") /\ UNCHANGED repo  \* nothing to commit, or a hook refused it
  /\ UNCHANGED <<remote, drafts, plans, latest, waitline, relRequest, foreign>>

(* git rev-parse HEAD. *)
ToolReadsHead(r) ==
  /\ Serves(r, "commit", "committed")
  /\ tool' = [tool EXCEPT ![r].stage = "ok", ![r].sha = Tip]
  /\ UNCHANGED <<repo, remote, drafts, plans, latest, waitline, relRequest, foreign>>

(* release_create_tag: git refuses a tag that exists. *)
ToolTags(r) ==
  /\ Serves(r, "tag", "called")
  /\ IF repo.tags[tool[r].version] = 0
     THEN /\ repo' = [repo EXCEPT !.tags[tool[r].version] = tool[r].sha]
          /\ Reaches(r, "ok")
     ELSE Reaches(r, "error") /\ UNCHANGED repo
  /\ UNCHANGED <<remote, drafts, plans, latest, waitline, relRequest, foreign>>

(* release_push: the two refs are pushed without --atomic: either may be   *)
(* refused, and a tag of origin is never moved.                            *)
ToolPushes(r) ==
  LET v == tool[r].version
      tagFits == remote.tags[v] \in {0, repo.tags[v]}
  IN
  /\ Serves(r, "push", "called")
  /\ \E branch, tag \in BOOLEAN :
       /\ tag => tagFits /\ repo.tags[v] # 0
       /\ remote' = [head |-> IF branch THEN Tip ELSE remote.head,
                     tags |-> IF tag THEN [remote.tags EXCEPT ![v] = repo.tags[v]] ELSE remote.tags]
       /\ Reaches(r, IF branch /\ tag THEN "ok" ELSE "error")
  /\ UNCHANGED <<repo, drafts, plans, latest, waitline, relRequest, foreign>>

(* github_create_draft_release: the releases are listed, then the draft is *)
(* posted, unless there is one for the tag.  A POST may create the draft   *)
(* and fail all the same.                                                  *)
ToolLists(r) ==
  /\ Serves(r, "release", "called")
  /\ Reaches(r, IF \E i \in 1..Len(drafts) : drafts[i].tag = tool[r].version THEN "ok" ELSE "listed")
  /\ UNCHANGED <<repo, remote, drafts, plans, latest, waitline, relRequest, foreign>>

ToolPosts(r) ==
  /\ Serves(r, "release", "listed")
  /\ \/ /\ drafts' = Append(drafts, [tag |-> tool[r].version, sha |-> tool[r].sha])
        /\ \E stage \in {"ok", "error"} : Reaches(r, stage)
     \/ (\E stage \in {"error", "unavailable"} : Reaches(r, stage)) /\ UNCHANGED drafts
  /\ UNCHANGED <<repo, remote, plans, latest, waitline, relRequest, foreign>>

(* A call is refused before it does anything: a check of its arguments, a  *)
(* git process that fails, no token, no access, no branch, no repository.  *)
ToolRefuses(r) ==
  /\ tool[r].stage = "called"
  /\ \E stage \in {"error"} \cup (IF tool[r].key = "release" THEN {"unavailable"} ELSE {}) :
       Reaches(r, stage)
  /\ UNCHANGED <<repo, remote, drafts, plans, latest, waitline, relRequest, foreign>>

ToolStep(r) ==
  \/ ToolWritesFile(r) \/ ToolCommits(r) \/ ToolReadsHead(r) \/ ToolTags(r) \/ ToolPushes(r)
  \/ ToolLists(r) \/ ToolPosts(r) \/ ToolRefuses(r)

(***************************************************************************)
(* What becomes of the answer.                                             *)
(***************************************************************************)
ToolAnswered(r) == tool[r].stage \in {"ok", "error", "unavailable"}

(* _run_step and _read_result: the step's new state; the first step that   *)
(* is not done ends the confirmation.                                      *)
Receives(r) ==
  LET p == relRequest[r].plan
      k == tool[r].key
  IN
  /\ relRequest[r].pc = "calling" /\ ToolAnswered(r)
  /\ CASE tool[r].stage = "ok" ->
            /\ plans' = [plans EXCEPT ![p].steps[k] = "done",
                                      ![p].sha = IF k = "commit" THEN tool[r].sha ELSE @]
            /\ relRequest' = [relRequest EXCEPT ![r].pc = "writing", ![r].at = @ + 1]
            /\ UNCHANGED waitline
       [] tool[r].stage = "error" ->
            plans' = [plans EXCEPT ![p].steps[k] = "failed"] /\ RelEnds(r)
       [] tool[r].stage = "unavailable" ->
            plans' = [plans EXCEPT ![p].steps[k] = "unavailable"] /\ RelEnds(r)
  /\ UNCHANGED <<repo, remote, drafts, latest, tool, foreign>>

(* The call times out while the tool goes on.  A draft is not given up on: *)
(* GITHUB_TIMEOUT ends its two calls before RELEASE_LONG_TIMEOUT.          *)
CallTimesOut(r) ==
  /\ relRequest[r].pc = "calling" /\ ~ToolAnswered(r) /\ tool[r].key # "release"
  /\ plans' = [plans EXCEPT ![relRequest[r].plan].steps[tool[r].key] = "failed"]
  /\ RelEnds(r)
  /\ UNCHANGED <<repo, remote, drafts, latest, tool, foreign>>

(* The page is gone: the tool card cannot be sent, and the exception ends  *)
(* the confirmation before the step's state is noted.                      *)
PageGone(r) ==
  /\ relRequest[r].pc = "calling" /\ ToolAnswered(r)
  /\ RelEnds(r)
  /\ UNCHANGED <<repo, remote, drafts, plans, latest, tool, foreign>>

(* Others commit to the branch. *)
Foreign ==
  /\ foreign < MaxForeign /\ ~Dirty
  /\ repo' = [repo EXCEPT !.log = Append(@, repo.file)]
  /\ foreign' = foreign + 1
  /\ UNCHANGED <<remote, drafts, plans, latest, waitline, relRequest, tool>>

(***************************************************************************)
(* The specification.                                                      *)
(***************************************************************************)
RelStep(r) ==
  \/ Plans(r) \/ AppliesOverrides(r) \/ Revalidates(r) \/ WritesNext(r) \/ Receives(r)
  \/ CallTimesOut(r) \/ PageGone(r)

RelNext ==
  \/ \E r \in ReleaseRequests, c \in ReleaseChats :
       PlanArrives(r, c) \/ \E v \in Versions \cup {NoVersion} : ConfirmArrives(r, c, v)
  \/ \E r \in ReleaseRequests : RelStep(r) \/ ToolStep(r)
  \/ Foreign

RelSpec == RelInit /\ [][RelNext]_relVars

(* Calls and models have timeouts. *)
RelFairness == \A r \in ReleaseRequests : WF_relVars(RelStep(r)) /\ WF_relVars(ToolStep(r))

(***************************************************************************)
(* Properties.                                                             *)
(***************************************************************************)
(* A tag is on a commit whose changelog lists its version, however often   *)
(* the user changed the version between retries.                           *)
TagHasItsSection ==
  \A v \in Versions :
    repo.tags[v] # 0 => \E i \in 1..Len(repo.log[repo.tags[v]]) : repo.log[repo.tags[v]][i] = v

(* A draft release is for a tag that origin has on the same commit, and    *)
(* that origin's branch contains.                                          *)
DraftIsPushed ==
  \A i \in 1..Len(drafts) :
    remote.tags[drafts[i].tag] = drafts[i].sha /\ drafts[i].sha <= remote.head

(* A version has one section and one draft, whatever was retried and       *)
(* whichever chats confirmed it ("a draft that already exists for the tag  *)
(* is returned instead of a duplicate").                                   *)
NothingTwice ==
  /\ \A i, j \in 1..Len(repo.file) : repo.file[i] = repo.file[j] => i = j
  /\ \A i, j \in 1..Len(drafts) : drafts[i].tag = drafts[j].tag => i = j

(* A step noted as done was done, and still is when the next one rests on  *)
(* it: a retry skips it rightly, whatever the user changed in between.     *)
RecordedIsReal ==
  \A p \in 1..Len(plans) :
    LET plan == plans[p] IN
    /\ plan.steps["tag"] = "done" => repo.tags[plan.version] = plan.sha
    /\ plan.steps["push"] = "done" => remote.tags[plan.version] = plan.sha /\ plan.sha <= remote.head
    /\ plan.steps["release"] = "done" => \E i \in 1..Len(drafts) : drafts[i].tag = plan.version

RelRequestsEnd == \A r \in ReleaseRequests : relRequest[r].pc # "new" ~> relRequest[r].pc = "done"
=============================================================================
