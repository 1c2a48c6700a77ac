----------------------------- MODULE CodeReview -----------------------------
(***************************************************************************)
(* Reviews of pull requests and the code index they rest on: the routes    *)
(* (agent/review_api.py), the chain of one review (agent/review_service.py)*)
(* and the incremental index of a base branch (agent/code_index.py), fed   *)
(* from the tip of the branch on origin (agent/code_git.py).               *)
(*                                                                         *)
(* One user.  A tree maps the indexable files to their blobs; a base's     *)
(* documents are such a map, and the vectors of the index file another     *)
(* one.  An id of a base is not used twice: one with a larger id exists.   *)
(***************************************************************************)
EXTENDS Naturals, Sequences, FiniteSets

CONSTANTS
  ReviewRequests,  \* posted reviews and refresh jobs
  PullRequests,
  Branches,        \* base branches, of all repositories
  RepoOf,          \* Branches -> repositories
  Trees,           \* what a branch may hold
  Models,          \* embedding models
  MaxBaseRefs,     \* MAX_BASE_REFS
  MaxPushes        \* bound: pushes to a branch on origin

Nobody == "nobody"
NoTree == [f \in {} |-> f]

ASSUME CodeReviewAssumption ==
  /\ IsFiniteSet(ReviewRequests) /\ Nobody \notin ReviewRequests
  /\ PullRequests # {} /\ Models # {} /\ Branches # {} /\ IsFiniteSet(Branches)
  /\ \A b \in Branches : b \in DOMAIN RepoOf
  /\ \A t \in Trees : t = [f \in DOMAIN t |-> t[f]]
  /\ \E t \in Trees : t # NoTree
  /\ MaxBaseRefs \in Nat \ {0} /\ MaxPushes \in Nat

VARIABLES
  origin,    \* the trees a branch had on origin, the newest last
  link,      \* table ReviewCodeIndex: id of the base and indexed commit
  codeBase,  \* the code bases: id -> embedding model and documents
  codeFile,  \* their index files: id -> what has a vector
  prLock,    \* _review_locks: who reviews a pull request
  refresher, \* _progress.running: the request whose job runs
  rev,       \* the requests
  unswapped  \* history: bases whose index was not swapped after a commit

crVars == <<origin, link, codeBase, codeFile, prLock, refresher, rev, unswapped>>

BaseIds == 1..Cardinality(ReviewRequests)
NoLink == [kb |-> 0, commit |-> 0]

(* What a tree may have been patched into. *)
Files == UNION {DOMAIN t : t \in Trees}
Blobs == UNION {{t[f] : f \in DOMAIN t} : t \in Trees}
Patchwork == UNION {[F -> Blobs] : F \in SUBSET Files}

(* settings, checks: before the lock of the branch; locked .. dropping: in *)
(* it; embedding and committed: in the semaphore too; pruning: eviction    *)
(* has chosen its victims.                                                 *)
RevType ==
  [kind : {"review", "refresh"}, pr : PullRequests, branch : Branches, model : Models,
   commit : 0..MaxPushes + 1, old : {0} \cup BaseIds, new : {0} \cup BaseIds,
   docs : Patchwork, drop : {0} \cup BaseIds, rest : SUBSET BaseIds,
   pc : {"new", "settings", "checks", "waiting", "locked", "fetched", "diffed", "queued",
         "embedding", "committed", "evicting", "pruning", "dropping", "reviewing", "done"}]

CrTypeOK ==
  /\ origin \in [Branches -> Seq(Trees)] /\ \A b \in Branches : Len(origin[b]) \in 1..MaxPushes + 1
  /\ link \in [Branches -> [kb : {0} \cup BaseIds, commit : 0..MaxPushes + 1]]
  /\ DOMAIN codeBase \subseteq BaseIds /\ DOMAIN codeFile \subseteq BaseIds
  /\ \A kb \in DOMAIN codeBase : codeBase[kb] \in [model : Models, docs : Trees]
  /\ \A kb \in DOMAIN codeFile : codeFile[kb] \in Patchwork
  /\ prLock \in [PullRequests -> ReviewRequests \cup {Nobody}]
  /\ refresher \in ReviewRequests \cup {Nobody}
  /\ rev \in [ReviewRequests -> RevType]
  /\ unswapped \subseteq BaseIds

NoReview ==
  [kind |-> "review", pr |-> CHOOSE p \in PullRequests : TRUE,
   branch |-> CHOOSE b \in Branches : TRUE, model |-> CHOOSE m \in Models : TRUE,
   commit |-> 0, old |-> 0, new |-> 0, docs |-> NoTree, drop |-> 0, rest |-> {}, pc |-> "new"]

CrInit ==
  /\ origin = [b \in Branches |-> <<CHOOSE t \in Trees : t # NoTree>>]
  /\ link = [b \in Branches |-> NoLink]
  /\ codeBase = NoTree /\ codeFile = NoTree /\ unswapped = {}
  /\ prLock = [p \in PullRequests |-> Nobody] /\ refresher = Nobody
  /\ rev = [r \in ReviewRequests |-> NoReview]

RevGoes(r, pc) == rev' = [rev EXCEPT ![r].pc = pc]
TheTree(r) == origin[rev[r].branch][rev[r].commit]
Removed(f, kb) == [x \in DOMAIN f \ {kb} |-> f[x]]
Put(f, kb, v) == [x \in DOMAIN f \cup {kb} |-> IF x = kb THEN v ELSE f[x]]

(* The end of a request lets go of all it holds: _run_review and _run_job  *)
(* in their finally, the locks with their blocks.  The id of its new base  *)
(* stays used up.                                                          *)
RevEnds(r, record) ==
  /\ rev' = [rev EXCEPT ![r] = [NoReview EXCEPT !.new = record.new, !.pc = "done"]]
  /\ prLock' = IF record.kind = "review" THEN [prLock EXCEPT ![record.pr] = Nobody] ELSE prLock
  /\ refresher' = IF record.kind = "refresh" THEN Nobody ELSE refresher

(* After the refresh a job is done, and a review goes on.                  *)
Refreshed(r, record) ==
  IF record.kind = "refresh" THEN RevEnds(r, record)
  ELSE rev' = [rev EXCEPT ![r] = [record EXCEPT !.pc = "reviewing"]] /\ UNCHANGED <<prLock, refresher>>

(***************************************************************************)
(* The world: pushes to origin, and the owner who deletes a base.          *)
(***************************************************************************)
Pushed(b) ==
  /\ Len(origin[b]) <= MaxPushes
  /\ \E t \in Trees : origin' = [origin EXCEPT ![b] = Append(@, t)]
  /\ UNCHANGED <<link, codeBase, codeFile, prLock, refresher, rev, unswapped>>

(* delete_kb_route; the link goes with its base (ON DELETE CASCADE).       *)
OwnerDeletes(b) ==
  /\ link[b].kb # 0
  /\ link' = [link EXCEPT ![b] = NoLink]
  /\ codeBase' = Removed(codeBase, link[b].kb) /\ codeFile' = Removed(codeFile, link[b].kb)
  /\ UNCHANGED <<origin, prLock, refresher, rev, unswapped>>

(* post_review: the review is a task of its own, which a client that goes  *)
(* away does not end.                                                      *)
PostReview(r) ==
  /\ rev[r].pc = "new"
  /\ \E p \in PullRequests, b \in Branches, m \in Models :
       LET free == prLock[p] = Nobody IN
       /\ rev' = [rev EXCEPT ![r] =
            IF free THEN [@ EXCEPT !.kind = "review", !.pr = p, !.branch = b, !.model = m, !.pc = "settings"]
            ELSE [@ EXCEPT !.pc = "done"]]
       /\ prLock' = IF free THEN [prLock EXCEPT ![p] = r] ELSE prLock
  /\ UNCHANGED <<origin, link, codeBase, codeFile, refresher, unswapped>>

(* post_code_index_refresh and spawn_refresh_job.                          *)
PostRefresh(r) ==
  /\ rev[r].pc = "new"
  /\ \E b \in Branches, m \in Models :
       rev' = [rev EXCEPT ![r] =
         IF refresher = Nobody THEN [@ EXCEPT !.kind = "refresh", !.branch = b, !.model = m, !.pc = "checks"]
         ELSE [@ EXCEPT !.pc = "done"]]
  /\ refresher' = IF refresher = Nobody THEN r ELSE refresher
  /\ UNCHANGED <<origin, link, codeBase, codeFile, prLock, unswapped>>

(* resolve_review_settings and fetch_pull_request; then validate_repo_path *)
(* and the comparison of the repositories.  Each may end the request.      *)
RevPrepares(r) ==
  /\ \/ rev[r].pc = "settings" /\ RevGoes(r, "checks") /\ UNCHANGED <<prLock, refresher>>
     \/ rev[r].pc = "checks" /\ RevGoes(r, "waiting") /\ UNCHANGED <<prLock, refresher>>
     \/ rev[r].pc \in {"settings", "checks"} /\ RevEnds(r, rev[r])
  /\ UNCHANGED <<origin, link, codeBase, codeFile, unswapped>>

(***************************************************************************)
(* refresh_code_index and _refresh_locked                                  *)
(***************************************************************************)
(* Mutant: the lock is taken after the fetch and the comparison.           *)
InLateLock == {"queued", "embedding", "committed", "evicting", "pruning", "dropping"}

(* The lock of the branch covers the fetch as well.                        *)
InLock ==
  {"locked", "fetched", "diffed", "queued", "embedding", "committed", "evicting", "pruning", "dropping"}

EntersLock(r) ==
  /\ rev[r].pc = "waiting"
  /\ \A q \in ReviewRequests \ {r} : rev[q].branch = rev[r].branch => rev[q].pc \notin InLock
  /\ RevGoes(r, "locked")
  /\ UNCHANGED <<origin, link, codeBase, codeFile, prLock, refresher, unswapped>>

Fetches(r) ==
  /\ rev[r].pc = "locked"
  /\ rev' = [rev EXCEPT ![r].commit = Len(origin[rev[r].branch]), ![r].pc = "fetched"]
  /\ UNCHANGED <<origin, link, codeBase, codeFile, prLock, refresher, unswapped>>

(* _load_existing: the base of the branch, whose link is deleted when the  *)
(* base was built with another model.                                      *)
LoadsExisting(r) ==
  LET b == rev[r].branch
      kb == link[b].kb
  IN
  /\ rev[r].pc = "fetched"
  /\ IF kb # 0 /\ codeBase[kb].model # rev[r].model
     THEN /\ link' = [link EXCEPT ![b] = NoLink]
          /\ rev' = [rev EXCEPT ![r].old = 0, ![r].docs = NoTree, ![r].drop = kb, ![r].pc = "dropping"]
     ELSE /\ rev' = [rev EXCEPT ![r].old = kb, ![r].pc = "diffed",
                                ![r].docs = IF kb = 0 THEN NoTree ELSE codeBase[kb].docs]
          /\ UNCHANGED link
  /\ UNCHANGED <<origin, codeBase, codeFile, prLock, refresher, unswapped>>

(* The second half of _drop_base: delete_kb.                               *)
DropsBase(r) ==
  /\ rev[r].pc = "dropping"
  /\ codeBase' = Removed(codeBase, rev[r].drop) /\ codeFile' = Removed(codeFile, rev[r].drop)
  /\ rev' = [rev EXCEPT ![r].drop = 0, ![r].pc = IF rev[r].new = 0 THEN "diffed" ELSE "pruning"]
  /\ UNCHANGED <<origin, link, prLock, refresher, unswapped>>

(* Nothing changed: _touch.  Nothing to index is an error.                 *)
Compares(r) ==
  LET b == rev[r].branch IN
  /\ rev[r].pc = "diffed"
  /\ \/ /\ rev[r].old # 0 /\ TheTree(r) = rev[r].docs
        /\ IF link[b].kb # 0
           THEN /\ link' = [link EXCEPT ![b].commit = rev[r].commit]
                /\ Refreshed(r, rev[r])
           ELSE RevEnds(r, rev[r]) /\ UNCHANGED link
     \/ /\ rev[r].old = 0 /\ TheTree(r) = NoTree
        /\ RevEnds(r, rev[r]) /\ UNCHANGED link
     \/ /\ TheTree(r) # rev[r].docs
        /\ RevGoes(r, "queued") /\ UNCHANGED <<link, prLock, refresher>>
  /\ UNCHANGED <<origin, codeBase, codeFile, unswapped>>

CrTakesSlot(r) ==
  /\ rev[r].pc = "queued" /\ \A q \in ReviewRequests : rev[q].pc \notin {"embedding", "committed"}
  /\ RevGoes(r, "embedding")
  /\ UNCHANGED <<origin, link, codeBase, codeFile, prLock, refresher, unswapped>>

(* What has the documents docs, with those changed or removed since the    *)
(* comparison exchanged for the new ones.                                  *)
Patched(has, r) ==
  LET stale == {f \in DOMAIN rev[r].docs : f \notin DOMAIN TheTree(r) \/ TheTree(r)[f] # rev[r].docs[f]}
      added == {f \in DOMAIN TheTree(r) : f \notin DOMAIN rev[r].docs \/ TheTree(r)[f] # rev[r].docs[f]}
  IN [f \in (DOMAIN has \ stale) \cup added |-> IF f \in added THEN TheTree(r)[f] ELSE has[f]]

NextId == 1 + Cardinality({q \in ReviewRequests : rev[q].new # 0})

(* Mutant: the index is patched in place before the rows are committed.    *)
RefreshFailsInPlace(r) ==
  /\ rev[r].pc \in {"locked", "fetched", "queued", "embedding"}
  /\ codeFile' = IF rev[r].pc = "embedding" /\ rev[r].old \in DOMAIN codeFile
                 THEN [codeFile EXCEPT ![rev[r].old] = Patched(@, r)] ELSE codeFile
  /\ RevEnds(r, rev[r])
  /\ UNCHANGED <<origin, link, codeBase, unswapped>>

(* Git, the embedder or the database fails: what was there is kept.        *)
RefreshFails(r) ==
  /\ rev[r].pc \in {"locked", "fetched", "queued", "embedding"}
  /\ RevEnds(r, rev[r])
  /\ UNCHANGED <<origin, link, codeBase, codeFile, unswapped>>

(* _commit: one transaction over the rows and the link, while the new      *)
(* index waits beside the old one.  It is undone when the base or its file *)
(* is gone, or when the index has not the size of the rows.                *)
CommitsRows(r) ==
  LET b == rev[r].branch
      old == rev[r].old
      kb == IF old # 0 THEN old ELSE NextId
      rows == IF old # 0 THEN Patched(codeBase[old].docs, r) ELSE TheTree(r)
      vectors == IF old # 0 THEN Patched(codeFile[old], r) ELSE TheTree(r)
  IN
  /\ rev[r].pc = "embedding"
  /\ IF old # 0 => /\ link[b].kb = old /\ old \in DOMAIN codeFile
                   /\ Cardinality(DOMAIN rows) = Cardinality(DOMAIN vectors)
     THEN /\ codeBase' = Put(codeBase, kb, [model |-> rev[r].model, docs |-> rows])
          /\ link' = [link EXCEPT ![b] = [kb |-> kb, commit |-> rev[r].commit]]
          /\ rev' = [rev EXCEPT ![r].docs = vectors, ![r].new = IF old = 0 THEN kb ELSE 0, ![r].pc = "committed"]
          /\ UNCHANGED <<prLock, refresher>>
     ELSE RevEnds(r, rev[r]) /\ UNCHANGED <<codeBase, link>>
  /\ UNCHANGED <<origin, codeFile, unswapped>>

(* promote_index, and the swap of the cache; a failure leaves the old      *)
(* index beside the new rows.  A base deleted meanwhile takes its folder.  *)
Promotes(r) ==
  LET kb == IF rev[r].old # 0 THEN rev[r].old ELSE rev[r].new IN
  /\ rev[r].pc = "committed"
  /\ \/ /\ kb \in DOMAIN codeBase
        /\ codeFile' = Put(codeFile, kb, rev[r].docs)
        /\ IF rev[r].new = 0 THEN Refreshed(r, rev[r])
           ELSE RevGoes(r, "evicting") /\ UNCHANGED <<prLock, refresher>>
        /\ UNCHANGED unswapped
     \/ /\ RevEnds(r, rev[r])
        /\ unswapped' = unswapped \cup {kb} /\ UNCHANGED codeFile
  /\ UNCHANGED <<origin, link, codeBase>>

Linked(repo) == {b \in Branches : RepoOf[b] = repo /\ link[b].kb # 0}

Surplus(r) ==
  LET n == Cardinality(Linked(RepoOf[rev[r].branch])) IN IF n > MaxBaseRefs THEN n - MaxBaseRefs ELSE 0

(* _evict_old reads the links of the repository once and chooses the       *)
(* surplus (which links are the stalest is left open), outside the locks   *)
(* of their branches.                                                      *)
Evicts(r) ==
  /\ rev[r].pc = "evicting"
  /\ \E victims \in SUBSET ({link[b].kb : b \in Linked(RepoOf[rev[r].branch])} \ {rev[r].new}) :
       /\ Cardinality(victims) = Surplus(r)
       /\ rev' = [rev EXCEPT ![r].rest = victims, ![r].pc = "pruning"]
  /\ UNCHANGED <<origin, link, codeBase, codeFile, prLock, refresher, unswapped>>

(* Its loop: the first half of _drop_base, by the link and the base that   *)
(* were read; either may be gone.                                          *)
Prunes(r) ==
  /\ rev[r].pc = "pruning"
  /\ \/ rev[r].rest = {} /\ Refreshed(r, rev[r]) /\ UNCHANGED link
     \/ \E kb \in rev[r].rest :
          /\ link' = [b \in Branches |-> IF link[b].kb = kb THEN NoLink ELSE link[b]]
          /\ rev' = [rev EXCEPT ![r].rest = @ \ {kb}, ![r].drop = kb, ![r].pc = "dropping"]
          /\ UNCHANGED <<prLock, refresher>>
  /\ UNCHANGED <<origin, codeBase, codeFile, unswapped>>

(* run_review and the final look at the head, or an error of either.       *)
Reviews(r) ==
  /\ rev[r].pc = "reviewing"
  /\ RevEnds(r, rev[r])
  /\ UNCHANGED <<origin, link, codeBase, codeFile, unswapped>>

(***************************************************************************)
(* The specification.                                                      *)
(***************************************************************************)
RevStep(r) ==
  \/ RevPrepares(r) \/ EntersLock(r) \/ Fetches(r) \/ LoadsExisting(r) \/ DropsBase(r) \/ Compares(r)
  \/ CrTakesSlot(r) \/ RefreshFails(r) \/ CommitsRows(r) \/ Promotes(r) \/ Evicts(r) \/ Prunes(r)
  \/ Reviews(r)

CrNext ==
  \/ \E b \in Branches : Pushed(b) \/ OwnerDeletes(b)
  \/ \E r \in ReviewRequests : PostReview(r) \/ PostRefresh(r) \/ RevStep(r)

CrSpec == CrInit /\ [][CrNext]_crVars

(* Git, GitHub, the embedder and the model are called with timeouts.       *)
CrFairness == \A r \in ReviewRequests : WF_crVars(RevStep(r))

(***************************************************************************)
(* Properties.                                                             *)
(***************************************************************************)
(* An older tip never overwrites a newer one (the comment in               *)
(* refresh_code_index on why the fetch sits inside the lock).              *)
NewestTipWins ==
  \A b \in Branches : link[b].kb # 0 /\ link'[b].kb # 0 => link'[b].commit >= link[b].commit

(* The documents of a linked base are the files of the commit the link     *)
(* names, however often refreshes, evictions and deletions crossed.        *)
BaseIsItsCommit ==
  \A b \in Branches : link[b].kb # 0 => codeBase[link[b].kb].docs = origin[b][link[b].commit]

(* The index file of a linked base has the vectors of its documents once   *)
(* the swap has followed the commit: a failed refresh keeps both as they   *)
(* were (ARCHITECTURE, "Atomic swap").                                     *)
IndexMatchesRows ==
  \A b \in Branches :
    LET kb == link[b].kb IN
    kb # 0 /\ kb \notin unswapped
      /\ (\A r \in ReviewRequests : rev[r].pc = "committed" => kb \notin {rev[r].old, rev[r].new})
    => kb \in DOMAIN codeFile /\ codeFile[kb] = codeBase[kb].docs

(* A base without a link is on its way out: nothing is left over.          *)
NoStrayBase ==
  \A kb \in DOMAIN codeBase :
    (\E b \in Branches : link[b].kb = kb) \/ \E r \in ReviewRequests : rev[r].drop = kb

(* A repository has no more than MAX_BASE_REFS bases, those excepted whose *)
(* creators are still to evict for.  A creation that fails after its       *)
(* commit never does.                                                      *)
BasesBounded ==
  \A repo \in {RepoOf[b] : b \in Branches} :
    Cardinality({b \in Linked(repo) : link[b].kb \notin unswapped})
      <= MaxBaseRefs + Cardinality({r \in ReviewRequests :
                                    rev[r].pc \in {"committed", "evicting", "pruning", "dropping"}})

(* A pull request is reviewed once at a time.                              *)
ReviewsExclusive ==
  \A q, r \in ReviewRequests :
    /\ q # r /\ rev[q].kind = "review" /\ rev[r].kind = "review" /\ rev[q].pr = rev[r].pr
    => rev[q].pc \in {"new", "done"} \/ rev[r].pc \in {"new", "done"}

(* Every review and every job ends: neither the locks of the branches nor  *)
(* the semaphore inside them can be waited for in a circle.                *)
CrRequestsEnd == \A r \in ReviewRequests : rev[r].pc # "new" ~> rev[r].pc = "done"
=============================================================================
