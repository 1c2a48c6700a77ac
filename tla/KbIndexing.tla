----------------------------- MODULE KbIndexing -----------------------------
(***************************************************************************)
(* A knowledge base: its creation and additions (agent/kb_api.py), the     *)
(* background jobs that index it, its deletion and the recovery after a    *)
(* restart (agent/kb_indexer.py), the files on disk (shared/kb_storage.py) *)
(* and the searches with their index cache (agent/kb_search.py).           *)
(*                                                                         *)
(* A document has one chunk, and chunk and document share their id.  What  *)
(* a chunk says is a number, new with every upload.  A step is what a      *)
(* coroutine or a worker thread does between two suspensions; a commit and *)
(* what the coroutine does after it are two steps.                         *)
(***************************************************************************)
EXTENDS Naturals, Sequences, FiniteSets

CONSTANTS
  KbRequests,  \* the requests that come
  Sources,     \* names of the files that are uploaded
  KbCrashes    \* bound: how often the Agent is killed

NoKbJob == "none"

ASSUME KbAssumption ==
  /\ IsFiniteSet(KbRequests) /\ NoKbJob \notin KbRequests
  /\ Sources # {} /\ KbCrashes \in Nat

VARIABLES
  base,      \* the row of table KnowledgeBase
  chunks,    \* tables KbDocument and KbChunk: id -> source and text
  index,     \* index.faiss: id -> source and text, or NoIndex
  uploads,   \* texts whose file is in uploads/
  cache,     \* kb_index_cache of the base, or NoIndex
  kbCall,    \* the requests
  job,       \* the jobs, under the request that spawned them
  jobOf,     \* kb_jobs of the base: the request whose job it is, or NoJob
  late,      \* an index that the thread of a cancelled job still writes, or NoIndex
  stopping,  \* the Agent shuts down: shutdown_kb_jobs has begun
  crashes,
  torn       \* history: the swap of the index failed to follow its commit

kbVars == <<base, chunks, index, uploads, cache, kbCall, job, jobOf, late, stopping, crashes, torn>>

NoIndex == [id \in {0} |-> [source |-> "none", text |-> 0]]  \* no file
NoChunks == [id \in {} |-> id]
MaxId == Cardinality(KbRequests) + 1
KbIds == 1..MaxId

KbEntry == [source : Sources, text : KbIds]
Entries == UNION {[ids -> KbEntry] : ids \in SUBSET KbIds}
BaseType == [there : BOOLEAN, status : {"queued", "indexing", "ready", "failed"},
             adding : BOOLEAN, count : 0..MaxId]
(* adding: phase is not NULL on a ready base.  A job of a creation goes    *)
(* waiting, started, stored, writing, written; one of an addition waiting, *)
(* embedded, moved, committed, promoted.                                   *)
JobType == [kind : {"index", "add"}, replaces : SUBSET KbIds, entry : [source : Sources, text : 0..MaxId],
            index : Entries, cancelled : BOOLEAN, kept : BOOLEAN,
            pc : {"absent", "waiting", "started", "stored", "writing", "written", "embedded",
                  "moved", "committed", "promoted", "failing", "done"}]
KbCallType == [source : Sources, copy : BaseType, view : Entries \cup {NoIndex},
               replaces : SUBSET KbIds, awaits : KbRequests \cup {NoKbJob},
               pc : {"new", "staged", "classified", "claimed", "queued", "waiting", "erased",
                     "loading", "loaded", "searching", "done"}]

KbTypeOK ==
  /\ base \in BaseType /\ chunks \in Entries
  /\ index \in Entries \cup {NoIndex} /\ cache \in Entries \cup {NoIndex}
  /\ uploads \in SUBSET KbIds
  /\ kbCall \in [KbRequests -> KbCallType] /\ job \in [KbRequests -> JobType]
  /\ jobOf \in KbRequests \cup {NoKbJob}
  /\ late \in Entries \cup {NoIndex}
  /\ stopping \in BOOLEAN /\ crashes \in 0..KbCrashes /\ torn \in BOOLEAN

NoBase == [there |-> FALSE, status |-> "queued", adding |-> FALSE, count |-> 0]

(* Either there is no base yet, or one that is ready with one document.    *)
KbInit ==
  /\ \E f \in Sources, there \in BOOLEAN :
       LET one == IF there THEN [id \in {1} |-> [source |-> f, text |-> 1]] ELSE NoChunks IN
       /\ base = IF there THEN [NoBase EXCEPT !.there = TRUE, !.status = "ready", !.count = 1]
                 ELSE NoBase
       /\ chunks = one /\ index = IF there THEN one ELSE NoIndex
       /\ uploads = DOMAIN one /\ cache \in {NoIndex, index}
  /\ kbCall = [r \in KbRequests |->
       [source |-> CHOOSE f \in Sources : TRUE, copy |-> NoBase, view |-> NoIndex,
        replaces |-> {}, awaits |-> NoKbJob, pc |-> "new"]]
  /\ job = [r \in KbRequests |->
       [kind |-> "index", replaces |-> {}, entry |-> [source |-> CHOOSE f \in Sources : TRUE, text |-> 0],
        index |-> NoChunks, cancelled |-> FALSE, kept |-> FALSE, pc |-> "absent"]]
  /\ jobOf = NoKbJob /\ late = NoIndex /\ stopping = FALSE /\ crashes = 0 /\ torn = FALSE

(* SQLite gives a new row the largest id plus one.                         *)
FreshId == IF DOMAIN chunks = {} THEN 1 ELSE 1 + CHOOSE m \in DOMAIN chunks : \A n \in DOMAIN chunks : n <= m
(* The text of an upload is the number of the requests that stored one.    *)
FreshText == CHOOSE n \in KbIds : n \notin uploads /\ \A r \in KbRequests : job[r].entry.text # n
KbWithout(f, ids) == [id \in DOMAIN f \ ids |-> f[id]]
With(f, id, e) == [x \in DOMAIN f \cup {id} |-> IF x = id THEN e ELSE f[x]]

KbGoes(r, pc) == kbCall' = [kbCall EXCEPT ![r].pc = pc]
JobGoes(j, pc) == job' = [job EXCEPT ![j].pc = pc]
AtWork(j) == job[j].pc \notin {"absent", "done"}

(***************************************************************************)
(* create_kb                                                               *)
(***************************************************************************)
(* The files are stored and the rows committed, or all of it is undone     *)
(* (_store_all, UploadRejectedError).  An id is not used again: a base     *)
(* with a larger id exists.  So the new base has a folder and a place in   *)
(* the cache of its own.                                                   *)
CreateStores(r) ==
  /\ kbCall[r].pc = "new" /\ ~stopping
  /\ \/ /\ base = NoBase
        /\ \A q \in KbRequests : job[q].pc = "absent" /\ kbCall[q].pc \in {"new", "done"}
        /\ base' = [NoBase EXCEPT !.there = TRUE]
        /\ uploads' = {FreshText} /\ index' = NoIndex /\ cache' = NoIndex
        /\ \E f \in Sources : job' = [job EXCEPT ![r].entry = [source |-> f, text |-> FreshText]]
        /\ KbGoes(r, "queued")
     \/ KbGoes(r, "done") /\ UNCHANGED <<base, index, uploads, cache, job>>
  /\ UNCHANGED <<chunks, jobOf, late, stopping, crashes, torn>>

(* The job is spawned once the row has been read back.                     *)
CreateSpawns(r) ==
  /\ kbCall[r].pc = "queued"
  /\ IF base.there
     THEN /\ job' = [job EXCEPT ![r].kind = "index", ![r].pc = "waiting"]
          /\ jobOf' = r
     ELSE UNCHANGED <<job, jobOf>>
  /\ KbGoes(r, "done")
  /\ UNCHANGED <<base, chunks, index, uploads, cache, late, stopping, crashes, torn>>

(***************************************************************************)
(* add_files_route                                                         *)
(***************************************************************************)
AddArrives(r) ==
  /\ kbCall[r].pc = "new" /\ ~stopping
  /\ \E f \in Sources :
       kbCall' = [kbCall EXCEPT ![r].source = f,
         ![r].pc = IF base.there /\ base.status = "ready" /\ ~base.adding THEN "staged" ELSE "done"]
  /\ UNCHANGED <<base, chunks, index, uploads, cache, job, jobOf, late, stopping, crashes, torn>>

(* _store_all into a staging directory, then _classify_additions: which    *)
(* documents the file replaces is read here, before the base is claimed.   *)
AddClassifies(r) ==
  /\ kbCall[r].pc = "staged"
  /\ \/ kbCall' = [kbCall EXCEPT ![r].pc = "classified",
                     ![r].replaces = {id \in DOMAIN chunks : chunks[id].source = kbCall[r].source}]
     \/ KbGoes(r, "done")   \* refused by an upload rule
  /\ UNCHANGED <<base, chunks, index, uploads, cache, job, jobOf, late, stopping, crashes, torn>>

(* _claim_kb_for_add: one conditional UPDATE.                              *)
AddClaims(r) ==
  /\ kbCall[r].pc = "classified"
  /\ IF base.there /\ base.status = "ready" /\ ~base.adding
     THEN base' = [base EXCEPT !.adding = TRUE] /\ KbGoes(r, "claimed")
     ELSE KbGoes(r, "done") /\ UNCHANGED base
  /\ UNCHANGED <<chunks, index, uploads, cache, job, jobOf, late, stopping, crashes, torn>>

AddSpawns(r) ==
  /\ kbCall[r].pc = "claimed" /\ base.there
  /\ job' = [job EXCEPT ![r] =
       [@ EXCEPT !.kind = "add", !.pc = "waiting", !.replaces = kbCall[r].replaces,
                 !.entry = [source |-> kbCall[r].source, text |-> FreshText], !.index = chunks]]
  /\ jobOf' = r
  /\ KbGoes(r, "done")
  /\ UNCHANGED <<base, chunks, index, uploads, cache, late, stopping, crashes, torn>>

(* A claimed request that cannot start its job (_release_add_claim), or    *)
(* whose files turn out to be stored already (_finish_without_new_files).  *)
AddReleases(r) ==
  /\ kbCall[r].pc = "claimed"
  /\ base' = IF base.there THEN [base EXCEPT !.adding = FALSE] ELSE base
  /\ KbGoes(r, "done")
  /\ UNCHANGED <<chunks, index, uploads, cache, job, jobOf, late, stopping, crashes, torn>>

(***************************************************************************)
(* run_index_job                                                           *)
(***************************************************************************)
Holding == {"started", "stored", "writing", "written", "embedded", "moved", "committed"}
(* Holder of the semaphore; a cancelled addition has let go of it.         *)
HoldsSlot(j) == IF job[j].kind = "index" THEN job[j].pc \in Holding \cup {"failing"}
                ELSE job[j].pc \in Holding /\ ~job[j].cancelled
SlotIsFree == \A j \in KbRequests : ~HoldsSlot(j)

IndexStarts(j) ==
  /\ job[j].kind = "index" /\ job[j].pc = "waiting" /\ ~job[j].cancelled /\ SlotIsFree
  /\ IF base.there
     THEN base' = [base EXCEPT !.status = "indexing"] /\ JobGoes(j, "started")
     ELSE JobGoes(j, "done") /\ UNCHANGED base
  /\ UNCHANGED <<chunks, index, uploads, cache, kbCall, jobOf, late, stopping, crashes, torn>>

(* _parse_documents and _insert_chunks.  Rows of a base that is gone are   *)
(* refused by their foreign key.                                           *)
IndexStores(j) ==
  /\ job[j].pc = "started" /\ ~job[j].cancelled
  /\ IF base.there
     THEN /\ chunks' = With(chunks, FreshId, job[j].entry)
          /\ job' = [job EXCEPT ![j].pc = "stored", ![j].index = With(NoChunks, FreshId, job[j].entry)]
     ELSE JobGoes(j, "failing") /\ UNCHANGED chunks
  /\ UNCHANGED <<base, index, uploads, cache, kbCall, jobOf, late, stopping, crashes, torn>>

(* _embed_all, and the thread of _build_and_write_index begins.            *)
IndexEmbeds(j) ==
  /\ job[j].pc = "stored" /\ ~job[j].cancelled
  /\ JobGoes(j, "writing")
  /\ UNCHANGED <<base, chunks, index, uploads, cache, kbCall, jobOf, late, stopping, crashes, torn>>

IndexWritten(j) ==
  /\ job[j].pc = "writing"
  /\ index' = job[j].index
  /\ JobGoes(j, "written")
  /\ UNCHANGED <<base, chunks, uploads, cache, kbCall, jobOf, late, stopping, crashes, torn>>

IndexReady(j) ==
  /\ job[j].pc = "written" /\ ~job[j].cancelled
  /\ base' = IF base.there
             THEN [base EXCEPT !.status = "ready", !.adding = FALSE, !.count = Cardinality(DOMAIN job[j].index)]
             ELSE base
  /\ JobGoes(j, "done")
  /\ UNCHANGED <<chunks, index, uploads, cache, kbCall, jobOf, late, stopping, crashes, torn>>

(* An error of a file, the embedder, the database or the disk; or the      *)
(* cancellation is delivered.  A thread that writes the index goes on.     *)
IndexFails(j) ==
  /\ job[j].kind = "index" /\ job[j].pc \in {"started", "stored", "writing", "written"}
  /\ late' = IF job[j].pc = "writing" /\ job[j].cancelled THEN job[j].index ELSE late
  /\ job[j].pc = "writing" => job[j].cancelled
  /\ JobGoes(j, "failing")
  /\ UNCHANGED <<base, chunks, index, uploads, cache, kbCall, jobOf, stopping, crashes, torn>>

LateWrite ==
  /\ late # NoIndex
  /\ index' = late /\ late' = NoIndex
  /\ UNCHANGED <<base, chunks, uploads, cache, kbCall, job, jobOf, stopping, crashes, torn>>

(* _fail: nothing of the base's chunks and no index is left.               *)
IndexRecordsFailure(j) ==
  /\ job[j].kind = "index" /\ job[j].pc = "failing"
  /\ IF base.there
     THEN /\ base' = [base EXCEPT !.status = "failed", !.adding = FALSE, !.count = 0]
          /\ chunks' = NoChunks /\ index' = NoIndex
     ELSE UNCHANGED <<base, chunks, index>>
  /\ JobGoes(j, "done")
  /\ UNCHANGED <<uploads, cache, kbCall, jobOf, late, stopping, crashes, torn>>
(***************************************************************************)
(* run_add_job                                                             *)
(***************************************************************************)
(* _chunk_document and _embed_all work on the staged file.                 *)
AddEmbeds(j) ==
  /\ job[j].kind = "add" /\ job[j].pc = "waiting" /\ ~job[j].cancelled /\ SlotIsFree
  /\ JobGoes(j, "embedded")
  /\ UNCHANGED <<base, chunks, index, uploads, cache, kbCall, jobOf, late, stopping, crashes, torn>>

(* _move_staged is a thread and waited for even by a cancelled job.        *)
AddMoves(j) ==
  /\ job[j].pc = "embedded"
  /\ IF base.there
     THEN /\ uploads' = uploads \cup {job[j].entry.text}
          /\ job' = [job EXCEPT ![j].kept = TRUE, ![j].pc = IF job[j].cancelled THEN "failing" ELSE "moved"]
     ELSE JobGoes(j, "failing") /\ UNCHANGED uploads
  /\ UNCHANGED <<base, chunks, index, cache, kbCall, jobOf, late, stopping, crashes, torn>>

(* A file, the embedder or a vector is refused, or the job is cancelled.   *)
AddFails(j) ==
  /\ job[j].kind = "add" /\ job[j].pc \in {"waiting", "embedded"}
  /\ job[j].pc = "embedded" => ~job[j].cancelled
  /\ JobGoes(j, "failing")
  /\ UNCHANGED <<base, chunks, index, uploads, cache, kbCall, jobOf, late, stopping, crashes, torn>>

(* Inserts come first, so that the new id exceeds every existing one.      *)
AddedRows(id, j) == id = FreshId

(* _commit_addition up to its commit, shielded from the cancellation of    *)
(* the job: rows and counts change at once, or nothing does.  The patched  *)
(* index waits beside the live one.                                        *)
AddCommits(j) ==
  /\ job[j].pc = "moved"
  /\ \/ /\ base.there /\ index # NoIndex
        /\ \E id \in KbIds :
             /\ AddedRows(id, j)
             /\ LET rows == With(KbWithout(chunks, job[j].replaces), id, job[j].entry)
                    patched == With(KbWithout(index, job[j].replaces \cap DOMAIN chunks), id, job[j].entry)
                IN /\ Cardinality(DOMAIN patched) = Cardinality(DOMAIN rows)
                   /\ chunks' = rows
                   /\ job' = [job EXCEPT ![j].pc = "committed", ![j].index = patched]
                   /\ base' = [base EXCEPT !.adding = FALSE, !.count = Cardinality(DOMAIN rows)]
                   /\ torn' = (torn \/ \E q \in KbRequests : job[q].pc = "committed")
     \/ JobGoes(j, "failing") /\ UNCHANGED <<base, chunks, torn>>
  /\ UNCHANGED <<index, uploads, cache, kbCall, jobOf, late, stopping, crashes>>

(* Mutant: the cache is swapped and the file is not.                       *)
AddPromotesCacheOnly(j) ==
  /\ job[j].pc = "committed"
  /\ cache' = IF base.there THEN job[j].index ELSE NoIndex
  /\ JobGoes(j, "promoted")
  /\ UNCHANGED <<base, chunks, index, uploads, kbCall, jobOf, late, stopping, crashes, torn>>

(* promote_index and the swap of the cache, with no await between them.  A *)
(* failure of the rename keeps the moved files and drops the cache.        *)
AddPromotes(j) ==
  /\ job[j].pc = "committed"
  /\ \/ /\ index' = IF base.there THEN job[j].index ELSE index
        /\ cache' = IF base.there THEN job[j].index ELSE NoIndex
        /\ JobGoes(j, "promoted")
        /\ UNCHANGED torn
     \/ /\ cache' = NoIndex
        /\ job' = [job EXCEPT ![j].kept = FALSE, ![j].pc = "failing"]
        /\ torn' = TRUE /\ UNCHANGED index
  /\ UNCHANGED <<base, chunks, uploads, kbCall, jobOf, late, stopping, crashes>>

(* _finish_addition: the files of the superseded documents go.             *)
AddFinishes(j) ==
  /\ job[j].pc = "promoted"
  /\ uploads' = uploads \cap ({chunks[id].text : id \in DOMAIN chunks}
                               \cup {job[q].entry.text : q \in {q \in KbRequests \ {j} : AtWork(q)}})
  /\ JobGoes(j, "done")
  /\ UNCHANGED <<base, chunks, index, cache, kbCall, jobOf, late, stopping, crashes, torn>>

(* _fail_add: only files that no row refers to are removed.                *)
AddRecordsFailure(j) ==
  /\ job[j].kind = "add" /\ job[j].pc = "failing"
  /\ uploads' = IF job[j].kept THEN uploads \ {job[j].entry.text} ELSE uploads
  /\ base' = IF base.there THEN [base EXCEPT !.adding = FALSE] ELSE base
  /\ JobGoes(j, "done")
  /\ UNCHANGED <<chunks, index, cache, kbCall, jobOf, late, stopping, crashes, torn>>

(* A job cancelled before it has begun leaves the base to the next start.  *)
JobEndsUnbegun(j) ==
  /\ job[j].pc = "waiting" /\ job[j].cancelled
  /\ JobGoes(j, "done")
  /\ UNCHANGED <<base, chunks, index, uploads, cache, kbCall, jobOf, late, stopping, crashes, torn>>

(***************************************************************************)
(* delete_kb                                                               *)
(***************************************************************************)
(* cleanup_kb_caches: the cache and the job are forgotten, and the job is  *)
(* cancelled; a second deletion finds no job to wait for.                  *)
DeleteArrives(r) ==
  /\ kbCall[r].pc = "new" /\ ~stopping
  /\ IF base.there
     THEN /\ cache' = NoIndex
          /\ kbCall' = [kbCall EXCEPT ![r].awaits = jobOf, ![r].pc = "waiting"]
          /\ jobOf' = NoKbJob
          /\ job' = IF jobOf = NoKbJob \/ ~AtWork(jobOf) THEN job
                    ELSE [job EXCEPT ![jobOf].cancelled = TRUE]
     ELSE KbGoes(r, "done") /\ UNCHANGED <<cache, jobOf, job>>
  /\ UNCHANGED <<base, chunks, index, uploads, late, stopping, crashes, torn>>

(* The job does not end in time (DELETE_JOB_TIMEOUT_SECONDS): it is        *)
(* cancelled once more, and neither settles nor cleans up.                 *)
DeleteTimesOut(r) ==
  LET j == kbCall[r].awaits IN
  /\ kbCall[r].pc = "waiting" /\ j # NoKbJob /\ AtWork(j)
  /\ job[j].pc # "writing"
  /\ JobGoes(j, "done")
  /\ torn' = (torn \/ job[j].pc = "committed")
  /\ UNCHANGED <<base, chunks, index, uploads, cache, kbCall, jobOf, late, stopping, crashes>>

DeleteErases(r) ==
  /\ kbCall[r].pc = "waiting" /\ (kbCall[r].awaits # NoKbJob => ~AtWork(kbCall[r].awaits))
  /\ base' = NoBase /\ chunks' = NoChunks
  /\ KbGoes(r, "erased")
  /\ UNCHANGED <<index, uploads, cache, job, jobOf, late, stopping, crashes, torn>>

DeleteRemoves(r) ==
  /\ kbCall[r].pc = "erased"
  /\ index' = NoIndex /\ uploads' = {}
  /\ KbGoes(r, "done")
  /\ UNCHANGED <<base, chunks, cache, job, jobOf, late, stopping, crashes, torn>>

(***************************************************************************)
(* search_kb_vectors and load_index_cached                                 *)
(***************************************************************************)
SearchStarts(r) ==
  /\ kbCall[r].pc = "new" /\ ~stopping
  /\ kbCall' = [kbCall EXCEPT ![r].copy = base, ![r].view = cache,
       ![r].pc = IF ~base.there \/ base.status # "ready" THEN "done"
                 ELSE IF cache = NoIndex THEN "loading" ELSE "searching"]
  /\ UNCHANGED <<base, chunks, index, uploads, cache, job, jobOf, late, stopping, crashes, torn>>

(* The file is read in a thread.                                           *)
SearchLoads(r) ==
  /\ kbCall[r].pc = "loading"
  /\ kbCall' = [kbCall EXCEPT ![r].view = index, ![r].pc = IF index = NoIndex THEN "done" ELSE "loaded"]
  /\ UNCHANGED <<base, chunks, index, uploads, cache, job, jobOf, late, stopping, crashes, torn>>

SearchCaches(r) ==
  /\ kbCall[r].pc = "loaded"
  /\ IF Cardinality(DOMAIN kbCall[r].view) = kbCall[r].copy.count
     THEN cache' = kbCall[r].view /\ KbGoes(r, "searching")
     ELSE KbGoes(r, "done") /\ UNCHANGED cache
  /\ UNCHANGED <<base, chunks, index, uploads, job, jobOf, late, stopping, crashes, torn>>

(* Ids the index ranks are looked up among the rows of the base.           *)
SearchAnswers(r) ==
  /\ kbCall[r].pc = "searching"
  /\ KbGoes(r, "done")
  /\ UNCHANGED <<base, chunks, index, uploads, cache, job, jobOf, late, stopping, crashes, torn>>

(***************************************************************************)
(* shutdown_kb_jobs and recover_orphaned_kb_jobs                           *)
(***************************************************************************)
(* Requests have ended when the Agent shuts down.                          *)
KbShutdown ==
  /\ ~stopping /\ \A r \in KbRequests : kbCall[r].pc \in {"new", "done"}
  /\ stopping' = TRUE /\ jobOf' = NoKbJob
  /\ job' = [j \in KbRequests |-> IF AtWork(j) THEN [job[j] EXCEPT !.cancelled = TRUE] ELSE job[j]]
  /\ UNCHANGED <<base, chunks, index, uploads, cache, kbCall, late, crashes, torn>>

(* Mutant: an addition that was cut off keeps its claim.                   *)
RecoveredFailedOnly ==
  IF base.status \in {"queued", "indexing"}
  THEN [base EXCEPT !.status = "failed", !.adding = FALSE, !.count = 0] ELSE base

(* What the next start makes of the row.                                   *)
Recovered ==
  IF base.status \in {"queued", "indexing"}
  THEN [base EXCEPT !.status = "failed", !.adding = FALSE, !.count = 0]
  ELSE [base EXCEPT !.adding = FALSE]

(* The Agent ends, by a kill or after a shutdown, and starts again.        *)
KbRestart ==
  /\ crashes < KbCrashes
  /\ crashes' = crashes + 1 /\ stopping' = FALSE
  /\ torn' = (torn \/ \E j \in KbRequests : job[j].pc = "committed")
  /\ kbCall' = [r \in KbRequests |-> IF kbCall[r].pc = "new" THEN kbCall[r] ELSE [kbCall[r] EXCEPT !.pc = "done"]]
  /\ job' = [j \in KbRequests |-> IF AtWork(j) THEN [job[j] EXCEPT !.pc = "done"] ELSE job[j]]
  /\ jobOf' = NoKbJob /\ cache' = NoIndex
  /\ late' = NoIndex
  /\ IF base.there
     THEN /\ base' = Recovered
          /\ LET unindexed == base.status \in {"queued", "indexing"} IN
             /\ chunks' = IF unindexed THEN NoChunks ELSE chunks
             /\ index' = IF unindexed THEN NoIndex ELSE index
             /\ uploads' = IF base.adding /\ ~unindexed
                           THEN uploads \cap {chunks[id].text : id \in DOMAIN chunks} ELSE uploads
     ELSE UNCHANGED <<base, chunks, index, uploads>>

(***************************************************************************)
(* The specification.                                                      *)
(***************************************************************************)
JobStep(j) ==
  \/ IndexStarts(j) \/ IndexStores(j) \/ IndexEmbeds(j) \/ IndexWritten(j) \/ IndexReady(j)
  \/ IndexFails(j) \/ IndexRecordsFailure(j)
  \/ AddEmbeds(j) \/ AddMoves(j) \/ AddFails(j) \/ AddCommits(j) \/ AddPromotes(j)
  \/ AddFinishes(j) \/ AddRecordsFailure(j) \/ JobEndsUnbegun(j)

KbCallStep(r) ==
  \/ CreateSpawns(r) \/ AddClassifies(r) \/ AddClaims(r) \/ AddSpawns(r) \/ AddReleases(r)
  \/ DeleteErases(r) \/ DeleteRemoves(r) \/ SearchLoads(r) \/ SearchCaches(r) \/ SearchAnswers(r)

KbNext ==
  \/ \E r \in KbRequests :
       \/ CreateStores(r) \/ AddArrives(r) \/ DeleteArrives(r) \/ SearchStarts(r)
       \/ KbCallStep(r) \/ DeleteTimesOut(r) \/ JobStep(r)
  \/ LateWrite \/ KbShutdown \/ KbRestart

KbSpec == KbInit /\ [][KbNext]_kbVars

(* Requests and jobs go on: the embedder's calls have timeouts and the     *)
(* semaphore is passed on.                                                 *)
KbFairness == \A r \in KbRequests : WF_kbVars(KbCallStep(r)) /\ WF_kbVars(JobStep(r))

(***************************************************************************)
(* Properties.                                                             *)
(***************************************************************************)
(* A base that is ready has an index with exactly its chunks, whenever no  *)
(* commit is about to be followed by its swap, and no job was cut off      *)
(* between the two, failed there or, let go by a deletion, was overtaken.  *)
ReadyIsWhole ==
  base.there /\ base.status = "ready" /\ ~torn
    /\ (\A j \in KbRequests : job[j].pc # "committed")
  => index = chunks

(* A creation that failed or was interrupted leaves no chunks (run_index_  *)
(* job: "any failure leaves it failed with no chunks").                    *)
FailedIsEmpty == base.there /\ base.status = "failed" => chunks = NoChunks

(* An addition works on the base it was accepted for: until its commit, or *)
(* its failure, nothing else changes the documents (run_add_job: "any      *)
(* failure leaves the base exactly as it was").  Only an addition whose    *)
(* swap failed after its commit takes the claim of the next one away.      *)
AdditionIsolated ==
  \A j \in KbRequests :
    job[j].kind = "add" /\ job[j].pc \in {"waiting", "embedded", "moved"} /\ ~job[j].cancelled
      /\ base.there /\ ~torn
      => base.adding /\ chunks = job[j].index

(* Every document of a ready base has its file, after failed, interrupted  *)
(* and killed additions too.                                               *)
DocumentsHaveFiles ==
  base.there /\ base.status = "ready" => \A id \in DOMAIN chunks : chunks[id].text \in uploads

(* A search returns what was ranked: a hit whose row is there has the text *)
(* its vector stands for, however old the index is that the search uses.   *)
SearchTruthful ==
  \A r \in KbRequests :
    kbCall[r].pc = "searching" =>
      \A id \in DOMAIN kbCall[r].view \cap DOMAIN chunks : chunks[id] = kbCall[r].view[id]

(* A base does not stay queued, indexing or claimed by an addition, unless *)
(* the Agent stops.                                                        *)
KbSettles ==
  base.there /\ (base.status \in {"queued", "indexing"} \/ base.adding)
    ~> \/ ~base.there \/ stopping
       \/ base.status \in {"ready", "failed"} /\ ~base.adding
=============================================================================
