----------------------------- MODULE Providers ------------------------------
(***************************************************************************)
(* The LLM providers of one user: agent/providers.py, providers_api.py and *)
(* the scheduled jobs that name one.  The default providers are inserted   *)
(* once, each with a marker; a check of a provider asks its server for the *)
(* models and keeps the result in memory under the row's id.               *)
(*                                                                         *)
(* A row carries two things the code does not: which provider it is (ids   *)
(* are used again by SQLite) and which edit of it.                         *)
(***************************************************************************)
EXTENDS Naturals, FiniteSets

CONSTANTS
  ProvRequests,
  Jobs,           \* scheduled jobs that name a provider
  MaxProviders,   \* bound: rows ever inserted
  MaxProvEdits,   \* bound: edits
  MaxRestarts     \* bound: restarts of the agent

ASSUME ProvAssumption == MaxProviders \in Nat

Seeds == {"LM Studio", "DeepSeek"}
ProviderNames == Seeds \cup {"Own"}
ProvIds == 1..MaxProviders
NoProvider == [row |-> 0, name |-> "none", edit |-> 0, enabled |-> FALSE]

VARIABLES
  llmproviders,   \* llmprovider: id -> the row, or NoProvider
  inserted,       \* rows inserted so far
  edits,
  seedMarks,      \* llmproviderseed: the seeds done
  seededRows,     \* seed -> how often its row was inserted
  seededUsers,    \* _seeded_users and _deepseek_pending hold the user
  deepseekPending,
  seedLock,       \* the request that holds the user's seed lock, or "free"
  deepseekKey,    \* .env names a DeepSeek key
  modelCache,     \* MODEL_CACHE: id -> the row that was checked, or NoProvider
  provReqs,       \* request -> what it does and where it stands
  ranBy,          \* job -> the row it was created for, with its id; or NoJob
  jobRun,         \* job -> the row its last run used, "failed" as row 0
  restarts

provVars == <<llmproviders, inserted, edits, seedMarks, seededRows, seededUsers, deepseekPending, seedLock,
              deepseekKey, modelCache, provReqs, ranBy, jobRun, restarts>>
provDb == <<llmproviders, inserted, edits, seedMarks, seededRows>>
provMemory == <<seededUsers, deepseekPending, seedLock, modelCache>>
provJobs == <<ranBy, jobRun>>
provWorld == <<deepseekKey, restarts>>

NoReq == [op |-> "none", pc |-> "idle", id |-> 0, copy |-> NoProvider, done |-> {}, raced |-> FALSE]
Finished == [NoReq EXCEPT !.pc = "answered"]
NoJob == [id |-> 0, row |-> 0]
NotChecked == [of |-> NoProvider, raced |-> FALSE]

ProvInit ==
  /\ llmproviders = [i \in ProvIds |-> NoProvider] /\ inserted = 0 /\ edits = 0
  /\ seedMarks = {} /\ seededRows = [s \in Seeds |-> 0]
  /\ seededUsers = FALSE /\ deepseekPending = FALSE /\ seedLock = "free"
  /\ deepseekKey \in BOOLEAN /\ modelCache = [i \in ProvIds |-> NotChecked]
  /\ provReqs = [r \in ProvRequests |-> NoReq]
  /\ ranBy = [j \in Jobs |-> NoJob] /\ jobRun = [j \in Jobs |-> NoJob] /\ restarts = 0

ProvLive(i) == i \in ProvIds /\ llmproviders[i] # NoProvider
Taken(name) == \E i \in ProvIds : llmproviders[i].name = name
(* INTEGER PRIMARY KEY: one more than the largest id in use.               *)
ProvNewId == CHOOSE i \in 1..MaxProviders + 1 : ~ProvLive(i) /\ (\A j \in ProvIds : j >= i => ~ProvLive(j)) /\ (i = 1 \/ ProvLive(i - 1))
ProvRow(name) == [row |-> inserted + 1, name |-> name, edit |-> 0, enabled |-> TRUE]
ProvGoes(r, pc) == provReqs' = [provReqs EXCEPT ![r].pc = pc]
ProvEnds(r) == provReqs' = [provReqs EXCEPT ![r] = Finished]

(***************************************************************************)
(* Seeding: ensure_seeded comes first in a list of providers, in a list of *)
(* models and in every turn or run that needs a provider.                  *)
(***************************************************************************)
AsksForList(r) ==
  /\ provReqs[r] = NoReq
  /\ \E op \in {"list", "models"} :
       provReqs' = [provReqs EXCEPT ![r].op = op,
         ![r].pc = IF seededUsers /\ (~deepseekPending \/ ~deepseekKey) THEN "listing" ELSE "waiting"]
  /\ UNCHANGED <<provDb, provMemory, provJobs, provWorld>>

(* The lock of the user, then the markers as they are now.                 *)
SeedLocks(r) ==
  /\ provReqs[r].pc = "waiting" /\ seedLock = "free"
  /\ seedLock' = r
  /\ provReqs' = [provReqs EXCEPT ![r].pc = "seeding", ![r].done = seedMarks]
  /\ UNCHANGED <<provDb, seededUsers, deepseekPending, modelCache, provJobs, provWorld>>

WantsSeed(r, seed) ==
  /\ provReqs[r].pc = "seeding" /\ seed \notin provReqs[r].done
  /\ seed = "DeepSeek" => deepseekKey /\ "LM Studio" \in provReqs[r].done

(* Mutant: a seed whose name is taken leaves no marker.                    *)
InsertsSeedAlone(r, seed) ==
  /\ WantsSeed(r, seed)
  /\ IF Taken(seed) \/ seed \in seedMarks
     THEN UNCHANGED provDb
     ELSE /\ inserted < MaxProviders /\ inserted' = inserted + 1
          /\ llmproviders' = [llmproviders EXCEPT ![ProvNewId] = ProvRow(seed)]
          /\ seededRows' = [seededRows EXCEPT ![seed] = @ + 1]
          /\ UNCHANGED <<seedMarks, edits>>
  /\ provReqs' = [provReqs EXCEPT ![r].done = @ \cup {seed}]
  /\ UNCHANGED <<provMemory, provJobs, provWorld>>

(* _insert_seed: row and marker in one commit, or, when the name is taken  *)
(* or the marker is there, the marker alone.                               *)
InsertsSeed(r, seed) ==
  /\ WantsSeed(r, seed)
  /\ seedMarks' = seedMarks \cup {seed}
  /\ IF Taken(seed) \/ seed \in seedMarks
     THEN UNCHANGED <<llmproviders, inserted, seededRows>>
     ELSE /\ inserted < MaxProviders /\ inserted' = inserted + 1
          /\ llmproviders' = [llmproviders EXCEPT ![ProvNewId] = ProvRow(seed)]
          /\ seededRows' = [seededRows EXCEPT ![seed] = @ + 1]
  /\ provReqs' = [provReqs EXCEPT ![r].done = @ \cup {seed}]
  /\ UNCHANGED <<edits, provMemory, provJobs, provWorld>>

SeedUnlocks(r) ==
  /\ provReqs[r].pc = "seeding"
  /\ \A seed \in Seeds : ~WantsSeed(r, seed)
  /\ seedLock' = "free" /\ seededUsers' = TRUE
  /\ deepseekPending' = ("DeepSeek" \notin provReqs[r].done)
  /\ ProvGoes(r, "listing")
  /\ UNCHANGED <<provDb, modelCache, provJobs, provWorld>>

(***************************************************************************)
(* Lists and checks.                                                       *)
(***************************************************************************)
(* list_llm_providers ends here; list_model_groups checks an enabled row   *)
(* that has no result (one of them stands for the others, which do not     *)
(* touch the same entry).                                                  *)
Lists(r) ==
  /\ provReqs[r].pc = "listing"
  /\ \/ ProvEnds(r)
     \/ /\ provReqs[r].op = "models"
        /\ \E i \in ProvIds : /\ ProvLive(i) /\ llmproviders[i].enabled
                          /\ provReqs' = [provReqs EXCEPT ![r].pc = "fetching", ![r].id = i, ![r].copy = llmproviders[i]]
  /\ UNCHANGED <<provDb, provMemory, provJobs, provWorld>>

AsksForCheck(r) ==
  /\ provReqs[r] = NoReq
  /\ \E i \in ProvIds :
       IF ProvLive(i)
       THEN provReqs' = [provReqs EXCEPT ![r].op = "check", ![r].pc = "fetching", ![r].id = i, ![r].copy = llmproviders[i]]
       ELSE ProvEnds(r)
  /\ UNCHANGED <<provDb, provMemory, provJobs, provWorld>>

(* check_provider: whatever the server answers, the result is of the row   *)
(* that was read before the request, and is kept under its id.             *)
CheckEnds(r) ==
  /\ provReqs[r].pc = "fetching"
  /\ modelCache' = [modelCache EXCEPT ![provReqs[r].id] = [of |-> provReqs[r].copy, raced |-> provReqs[r].raced]]
  /\ ProvEnds(r)
  /\ UNCHANGED <<provDb, seededUsers, deepseekPending, seedLock, provJobs, provWorld>>

(* Another request changes or removes row i while some wait for its check. *)
Overtaken(reqs, i) == [k \in ProvRequests |->
  IF reqs[k].pc = "fetching" /\ reqs[k].id = i THEN [reqs[k] EXCEPT !.raced = TRUE] ELSE reqs[k]]

(***************************************************************************)
(* Rows.                                                                   *)
(***************************************************************************)
CreatesProvider(r) ==
  /\ provReqs[r] = NoReq
  /\ \E name \in ProviderNames :
       IF Taken(name) THEN UNCHANGED provDb
       ELSE /\ inserted < MaxProviders /\ inserted' = inserted + 1
            /\ llmproviders' = [llmproviders EXCEPT ![ProvNewId] = ProvRow(name)]
            /\ UNCHANGED <<edits, seedMarks, seededRows>>
  /\ ProvEnds(r)
  /\ UNCHANGED <<provMemory, provJobs, provWorld>>

(* _get_or_404 reads the row that an edit or a delete is about.            *)
ReadsRow(r) ==
  /\ provReqs[r] = NoReq
  /\ \E op \in {"edit", "delete"}, i \in ProvIds :
       IF ProvLive(i)
       THEN provReqs' = [provReqs EXCEPT ![r].op = op, ![r].pc = "read", ![r].id = i, ![r].copy = llmproviders[i]]
       ELSE ProvEnds(r)
  /\ UNCHANGED <<provDb, provMemory, provJobs, provWorld>>

(* update_provider's commit.  A row that is gone, or a name that is taken, *)
(* fails the request with nothing changed.                                 *)
Edits(r) ==
  /\ provReqs[r].pc = "read" /\ provReqs[r].op = "edit"
  /\ LET i == provReqs[r].id IN
     \/ /\ ProvLive(i) /\ edits < MaxProvEdits /\ edits' = edits + 1
        /\ \E enabled \in BOOLEAN :
             llmproviders' = [llmproviders EXCEPT ![i].edit = edits + 1, ![i].enabled = enabled]
        /\ provReqs' = Overtaken([provReqs EXCEPT ![r].pc = "committed"], i)
     \/ ProvEnds(r) /\ UNCHANGED <<llmproviders, edits>>
  /\ UNCHANGED <<inserted, seedMarks, seededRows, provMemory, provJobs, provWorld>>

(* delete_provider's commit; a row that is gone already is no error.       *)
ProvDeletes(r) ==
  /\ provReqs[r].pc = "read" /\ provReqs[r].op = "delete"
  /\ LET i == provReqs[r].id IN
     /\ llmproviders' = [llmproviders EXCEPT ![i] = NoProvider]
     /\ provReqs' = Overtaken([provReqs EXCEPT ![r].pc = "committed"], i)
  /\ UNCHANGED <<inserted, edits, seedMarks, seededRows, provMemory, provJobs, provWorld>>

(* After the commit, and the refresh of an edited row, comes the cache.    *)
DropsCheck(r) ==
  /\ provReqs[r].pc = "committed"
  /\ modelCache' = [modelCache EXCEPT ![provReqs[r].id] = NotChecked]
  /\ ProvEnds(r)
  /\ UNCHANGED <<provDb, seededUsers, deepseekPending, seedLock, provJobs, provWorld>>

(***************************************************************************)
(* Jobs, the key file and restarts.                                        *)
(***************************************************************************)
(* create_scheduled_task keeps the id of a provider that exists.           *)
CreatesJob(j) ==
  /\ ranBy[j] = NoJob
  /\ \E i \in ProvIds : ProvLive(i) /\ ranBy' = [ranBy EXCEPT ![j] = [id |-> i, row |-> llmproviders[i].row]]
  /\ UNCHANGED <<provDb, provMemory, jobRun, provReqs, provWorld>>

(* get_provider_row of a run: the enabled row with that id, or a failure.  *)
JobRuns(j) ==
  /\ ranBy[j] # NoJob
  /\ LET row == llmproviders[ranBy[j].id] IN
     jobRun' = [jobRun EXCEPT ![j] = IF row # NoProvider /\ row.enabled THEN [id |-> ranBy[j].id, row |-> row.row] ELSE NoJob]
  /\ UNCHANGED <<provDb, provMemory, ranBy, provReqs, provWorld>>

KeyChanges ==
  /\ deepseekKey' = ~deepseekKey
  /\ UNCHANGED <<provDb, provMemory, provReqs, provJobs, restarts>>

AgentRestarts ==
  /\ restarts < MaxRestarts /\ restarts' = restarts + 1
  /\ seededUsers' = FALSE /\ deepseekPending' = FALSE /\ seedLock' = "free"
  /\ modelCache' = [i \in ProvIds |-> NotChecked]
  /\ provReqs' = [r \in ProvRequests |-> IF provReqs[r] = NoReq THEN NoReq ELSE Finished]
  /\ UNCHANGED <<provDb, provJobs, deepseekKey>>

ProvNext ==
  \/ KeyChanges \/ AgentRestarts
  \/ \E j \in Jobs : CreatesJob(j) \/ JobRuns(j)
  \/ \E r \in ProvRequests :
       \/ AsksForList(r) \/ SeedLocks(r) \/ SeedUnlocks(r) \/ Lists(r)
       \/ \E seed \in Seeds : InsertsSeed(r, seed)
       \/ AsksForCheck(r) \/ CheckEnds(r) \/ CreatesProvider(r) \/ ReadsRow(r) \/ Edits(r) \/ ProvDeletes(r) \/ DropsCheck(r)

ProvSpec == ProvInit /\ [][ProvNext]_provVars

(***************************************************************************)
(* Properties.                                                             *)
(***************************************************************************)
(* API_SPEC, Seeding: a default provider that the user deleted or replaced *)
(* does not come back, whatever lists run at once, whatever restarts; and  *)
(* the memory never says "seeded" of what the markers do not hold.         *)
SeededOnce ==
  /\ \A s \in Seeds : seededRows[s] <= 1 /\ (seededRows[s] = 1 => s \in seedMarks)
  /\ seededUsers => "LM Studio" \in seedMarks
  /\ seededUsers /\ ~deepseekPending => "DeepSeek" \in seedMarks

(* The result that the lists show is of the row as it is, unless the check *)
(* was overtaken by an edit, or the editor has not come to the cache yet.  *)
EditDropsCheck ==
  \A i \in ProvIds :
    \/ modelCache[i].of = NoProvider
    \/ modelCache[i].raced
    \/ modelCache[i].of = llmproviders[i]
    \/ \E r \in ProvRequests : provReqs[r].pc = "committed" /\ provReqs[r].id = i

ProvidersSound == SeededOnce /\ EditDropsCheck

(* API_SPEC, Scheduler: "a run uses that provider and fails with a         *)
(* recorded error when it was deleted or disabled".                        *)
RunUsesItsProvider == \A j \in Jobs : jobRun[j].row \in {0, ranBy[j].row}
=============================================================================
