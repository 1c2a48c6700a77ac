----------------------------- MODULE Scheduler -----------------------------
(***************************************************************************)
(* The background jobs: SchedulerService of agent/scheduler.py and the     *)
(* user's operations of agent/scheduler_ops.py.                            *)
(*                                                                         *)
(* A committed SQL statement is one step; whatever is read before an await *)
(* and used after it is a copy.  The poll loop, each user request and each *)
(* run task is a process; the tables Job and Row survive a crash, the      *)
(* processes do not.  A time is a slot number: a slot may become due at    *)
(* any moment, and a slot computed later is a larger number.               *)
(***************************************************************************)
EXTENDS Naturals, Sequences, FiniteSets

CONSTANTS
  Jobs,        \* rows of table ScheduledTask
  OnceJobs,    \* the jobs whose schedule_type is once
  MaxRuns,     \* max_runs of the other jobs, 0 for none
  Requests,    \* user requests (REST or tool), each made once
  Ops,         \* the operations users ask for
  MaxParallel, \* SCHEDULER_MAX_CONCURRENT_RUNS
  MaxSlot,     \* bound: slots of one job
  MaxRows,     \* bound: run rows of one job
  MaxCrashes   \* bound: stops and kills of the Agent

ASSUME SchedulerAssumption ==
  /\ OnceJobs \subseteq Jobs
  /\ MaxRuns \in Nat
  /\ Ops \subseteq {"pause", "resume", "cancel", "delete", "run"}
  /\ MaxParallel \in Nat \ {0}
  /\ MaxSlot \in Nat \ {0} /\ MaxRows \in Nat /\ MaxCrashes \in Nat

NoSlot == 0  \* next_run_at IS NULL, and scheduled_for of a manual run

LiveStatuses == {"active", "paused"}
FinalStatuses == {"completed", "cancelled"}

VARIABLES
  job,      \* ScheduledTask: status (deleted: no row), next_run_at, run_count
  rows,     \* TaskRun rows of each job, oldest first
  phase,    \* the run task of each row: none, spawned, ..., ended
  claim,    \* what the poll loop is doing, with the copies it has read
  request,  \* the user requests, with the copies they have read
  agent,    \* the Agent process: down, recovering, up, stopping
  crashes   \* how often it went down

vars == <<job, rows, phase, claim, request, agent, crashes>>

RunIds == Jobs \X (1..MaxRows)

Phases == {"none", "spawned", "waiting", "working", "success", "failed",
           "interrupted", "finalizing", "ended"}

(* A task that the loop still runs. *)
InFlight(r) == phase[r] \notin {"none", "ended"}

NoClaim(j) == [pc |-> "idle", job |-> j, old |-> NoSlot, count |-> 0,
               overlap |-> FALSE, run |-> 0]
NewRequest(op, j) == [pc |-> "new", op |-> op, job |-> j, next |-> NoSlot,
                      run |-> 0, awaited |-> {}]

Init ==
  /\ job = [j \in Jobs |-> [status |-> "active", next |-> 1, count |-> 0]]
  /\ rows = [j \in Jobs |-> <<>>]
  /\ phase = [r \in RunIds |-> "none"]
  /\ claim \in {NoClaim(j) : j \in Jobs}
  /\ request \in [Requests -> {NewRequest(op, j) : op \in Ops, j \in Jobs}]
  /\ agent = "up"
  /\ crashes = 0

Exists(j) == job[j].status # "deleted"
HasRunning(j) == \E i \in DOMAIN rows[j] : rows[j][i].status = "running"
Rows == [status : {"running", "success", "failed", "skipped"},
         trigger : {"schedule", "manual"}, slot : 0..MaxSlot]
NewRow(status, trigger, slot) == [status |-> status, trigger |-> trigger, slot |-> slot]

(* next_run_after_claim and next_run_on_resume *)
NextAfterClaim(j, old) == IF j \in OnceJobs THEN NoSlot ELSE old + 1
NextOnResume(j, next) == IF j \in OnceJobs THEN next ELSE next + 1

(* finalize_task: one guarded UPDATE. *)
Finalized(j) ==
  IF job[j].status \in LiveStatuses /\ job[j].next = NoSlot /\ ~HasRunning(j)
  THEN [job EXCEPT ![j].status = "completed"]
  ELSE job

----------------------------------------------------------------------------
(* The poll loop. *)

(* tick: the job is in the list of due ones. *)
TickPicks(j) ==
  /\ agent = "up"
  /\ claim.pc = "idle"
  /\ job[j].status = "active" /\ job[j].next # NoSlot
  /\ claim' = [NoClaim(j) EXCEPT !.pc = "picked"]
  /\ UNCHANGED <<job, rows, phase, request, agent, crashes>>

(* _claim_and_announce loads the job. *)
ClaimLoads ==
  LET j == claim.job
  IN /\ agent = "up"
     /\ claim.pc = "picked"
     /\ claim' = IF ~Exists(j) \/ job[j].next = NoSlot THEN NoClaim(j)
                 ELSE [claim EXCEPT !.pc = "loaded", !.old = job[j].next,
                                    !.count = job[j].count]
     /\ UNCHANGED <<job, rows, phase, request, agent, crashes>>

(* claim_slot looks for a run in progress. *)
ClaimChecks ==
  /\ agent = "up"
  /\ claim.pc = "loaded"
  /\ claim' = [claim EXCEPT !.pc = "checked", !.overlap = HasRunning(claim.job)]
  /\ UNCHANGED <<job, rows, phase, request, agent, crashes>>

(* Mutant: the slot that is skipped stays due. *)
ClaimNextSame == IF claim.overlap THEN claim.old ELSE NextAfterClaim(claim.job, claim.old)

(* The slot claim_slot stores, from the copies. *)
ClaimNext ==
  IF ~claim.overlap /\ claim.job \notin OnceJobs /\ MaxRuns # 0
     /\ claim.count + 1 >= MaxRuns
  THEN NoSlot
  ELSE NextAfterClaim(claim.job, claim.old)

ClaimLost(j) == job[j].status # "active" \/ job[j].next # claim.old

(* Mutant: a skipped slot counts as a run. *)
ClaimCommitsCounting ==
  LET j == claim.job
      status == IF claim.overlap THEN "skipped" ELSE "running"
  IN /\ agent = "up"
     /\ claim.pc = "checked"
     /\ ~ClaimLost(j) /\ (~claim.overlap => ~HasRunning(j))
     /\ Len(rows[j]) < MaxRows /\ ClaimNext <= MaxSlot
     /\ job' = [job EXCEPT ![j].next = ClaimNext, ![j].count = @ + 1]
     /\ rows' = [rows EXCEPT ![j] = Append(@, NewRow(status, "schedule", claim.old))]
     /\ claim' = [claim EXCEPT !.pc = status, !.run = Len(rows[j]) + 1]
     /\ UNCHANGED <<phase, request, agent, crashes>>

(* The guarded UPDATE and the INSERT of the run in one commit; the unique  *)
(* index on running rows rolls both back.                                  *)
ClaimCommits ==
  LET j == claim.job
      status == IF claim.overlap THEN "skipped" ELSE "running"
  IN /\ agent = "up"
     /\ claim.pc = "checked"
     /\ IF ClaimLost(j) \/ (~claim.overlap /\ HasRunning(j))
        THEN /\ claim' = NoClaim(j)
             /\ UNCHANGED <<job, rows>>
        ELSE /\ Len(rows[j]) < MaxRows /\ ClaimNext <= MaxSlot
             /\ job' = [job EXCEPT ![j].next = ClaimNext,
                                   ![j].count = IF claim.overlap THEN @ ELSE @ + 1]
             /\ rows' = [rows EXCEPT ![j] = Append(@, NewRow(status, "schedule", claim.old))]
             /\ claim' = [claim EXCEPT !.pc = status, !.run = Len(rows[j]) + 1]
     /\ UNCHANGED <<phase, request, agent, crashes>>

(* Mutant: the start is announced first, and the announcement may fail. *)
ClaimAnnouncesFirst ==
  /\ agent = "up"
  /\ claim.pc = "running"
  /\ \/ phase' = [phase EXCEPT ![<<claim.job, claim.run>>] = "spawned"]
     \/ UNCHANGED phase
  /\ claim' = NoClaim(claim.job)
  /\ UNCHANGED <<job, rows, request, agent, crashes>>

(* The commit has returned: spawn_run before any further await. *)
ClaimSpawns ==
  /\ agent = "up"
  /\ claim.pc = "running"
  /\ phase' = [phase EXCEPT ![<<claim.job, claim.run>>] = "spawned"]
  /\ claim' = NoClaim(claim.job)
  /\ UNCHANGED <<job, rows, request, agent, crashes>>

(* A skipped slot may have been the last one. *)
ClaimFinalizes ==
  /\ agent = "up"
  /\ claim.pc = "skipped"
  /\ job' = Finalized(claim.job)
  /\ claim' = NoClaim(claim.job)
  /\ UNCHANGED <<rows, phase, request, agent, crashes>>

ClaimStep == ClaimLoads \/ ClaimChecks \/ ClaimCommits \/ ClaimSpawns \/ ClaimFinalizes

----------------------------------------------------------------------------
(* execute_run: the task of one run row. *)

Alive == agent \in {"up", "stopping"}

Moves(r, to) ==
  /\ phase' = [phase EXCEPT ![r] = to]
  /\ UNCHANGED <<claim, request, agent, crashes>>

RowThere(r) == r[2] \in DOMAIN rows[r[1]]

(* It loads its row and its job, or has nothing to do. *)
RunStarts(r) ==
  /\ Alive
  /\ phase[r] = "spawned"
  /\ Moves(r, IF RowThere(r) THEN "waiting" ELSE "ended")
  /\ UNCHANGED <<job, rows>>

(* The semaphore is outside the deadline. *)
RunWorks(r) ==
  /\ Alive
  /\ phase[r] = "waiting"
  /\ Cardinality({s \in RunIds : phase[s] = "working"}) < MaxParallel
  /\ Moves(r, "working")
  /\ UNCHANGED <<job, rows>>

(* run_headless_turn returns, fails, or meets SCHEDULER_RUN_TIMEOUT. *)
RunReturns(r) ==
  /\ Alive
  /\ phase[r] = "working"
  /\ \E outcome \in {"success", "failed"} : Moves(r, outcome)
  /\ UNCHANGED <<job, rows>>

(* _finish_run: the outcome, unless the row is gone or already closed. *)
RunRecords(r) ==
  /\ Alive
  /\ phase[r] \in {"success", "failed", "interrupted"}
  /\ IF RowThere(r) /\ rows[r[1]][r[2]].status = "running"
     THEN /\ rows' = [rows EXCEPT ![r[1]][r[2]].status =
                        IF phase[r] = "success" THEN "success" ELSE "failed"]
          /\ Moves(r, "finalizing")
     ELSE /\ Moves(r, "ended")
          /\ UNCHANGED rows
  /\ UNCHANGED job

RunFinalizes(r) ==
  /\ Alive
  /\ phase[r] = "finalizing"
  /\ job' = Finalized(r[1])
  /\ Moves(r, "ended")
  /\ UNCHANGED rows

RunStep(r) == RunStarts(r) \/ RunWorks(r) \/ RunReturns(r) \/ RunRecords(r)
              \/ RunFinalizes(r)

(* Task.cancel: a task that has not entered its try block just ends, one   *)
(* that waits or works goes on to record the interruption, one that is     *)
(* already recording ends where it is.                                     *)
AfterCancel(p) ==
  CASE p \in {"none", "ended"} -> p
    [] p \in {"waiting", "working"} -> "interrupted"
    [] OTHER -> "ended"

Cancelled(ids) == [r \in RunIds |-> IF r \in ids THEN AfterCancel(phase[r]) ELSE phase[r]]

----------------------------------------------------------------------------
(* The user's operations. *)

Goes(q, pc) == request' = [request EXCEPT ![q].pc = pc]
OnlyRequests == UNCHANGED <<claim, agent, crashes>>

(* get_owned_task and the checks on the loaded row. *)
RequestLoads(q) ==
  LET j == request[q].job
      op == request[q].op
      allowed == \/ op = "delete"
                 \/ op \in {"cancel", "run"} /\ job[j].status \in LiveStatuses
                 \/ op = "pause" /\ job[j].status = "active" /\ job[j].next # NoSlot
                 \/ op = "resume" /\ job[j].status = "paused" /\ job[j].next # NoSlot
  IN /\ agent = "up"
     /\ request[q].pc = "new"
     /\ request' = [request EXCEPT ![q].pc = IF Exists(j) /\ allowed THEN "loaded" ELSE "refused",
                                   ![q].next = job[j].next]
     /\ UNCHANGED <<job, rows, phase, claim, agent, crashes>>

Loaded(q, op) == agent = "up" /\ request[q].pc = "loaded" /\ request[q].op = op

(* _guarded_transition *)
GuardedTransition(q, expected, new) ==
  LET j == request[q].job
  IN /\ IF job[j].status = expected /\ job[j].next # NoSlot
        THEN job' = [job EXCEPT ![j] = new] /\ Goes(q, "ok")
        ELSE Goes(q, "refused") /\ UNCHANGED job
     /\ UNCHANGED <<rows, phase>>
     /\ OnlyRequests

(* Mutant: pause checks the loaded row only. *)
PauseTaskUnguarded(q) ==
  LET j == request[q].job
  IN /\ Loaded(q, "pause")
     /\ Exists(j)
     /\ job' = [job EXCEPT ![j].status = "paused"]
     /\ Goes(q, "ok")
     /\ UNCHANGED <<rows, phase>>
     /\ OnlyRequests

PauseTask(q) ==
  /\ Loaded(q, "pause")
  /\ GuardedTransition(q, "active", [job[request[q].job] EXCEPT !.status = "paused"])

ResumeTask(q) ==
  LET j == request[q].job
      next == NextOnResume(j, request[q].next)
  IN /\ Loaded(q, "resume")
     /\ next <= MaxSlot
     /\ GuardedTransition(q, "paused", [job[j] EXCEPT !.status = "active", !.next = next])

(* cancel_task writes the row it loaded; a row deleted meanwhile is an     *)
(* error.                                                                  *)
CancelTask(q) ==
  LET j == request[q].job
  IN /\ Loaded(q, "cancel")
     /\ IF Exists(j)
        THEN /\ job' = [job EXCEPT ![j].status = "cancelled",
                                   ![j].next = IF request[q].next = NoSlot THEN @ ELSE NoSlot]
             /\ Goes(q, "ok")
        ELSE Goes(q, "failed") /\ UNCHANGED job
     /\ UNCHANGED <<rows, phase>>
     /\ OnlyRequests

(* start_manual_run: whether the run exhausts the job is decided on the    *)
(* row being updated.                                                      *)
ManualCommits(q) ==
  LET j == request[q].job
      exhausts == j \in OnceJobs \/ (MaxRuns # 0 /\ job[j].count + 1 >= MaxRuns)
  IN /\ Loaded(q, "run")
     /\ IF job[j].status \notin LiveStatuses \/ HasRunning(j)
        THEN Goes(q, "refused") /\ UNCHANGED <<job, rows>>
        ELSE /\ Len(rows[j]) < MaxRows
             /\ job' = [job EXCEPT ![j].count = @ + 1,
                                   ![j].next = IF exhausts THEN NoSlot ELSE @]
             /\ rows' = [rows EXCEPT ![j] = Append(@, NewRow("running", "manual", NoSlot))]
             /\ request' = [request EXCEPT ![q].pc = "committed", ![q].run = Len(rows[j]) + 1]
     /\ UNCHANGED phase
     /\ OnlyRequests

ManualSpawns(q) ==
  /\ agent = "up"
  /\ request[q].pc = "committed"
  /\ phase' = [phase EXCEPT ![<<request[q].job, request[q].run>>] = "spawned"]
  /\ Goes(q, "ok")
  /\ UNCHANGED <<job, rows>>
  /\ OnlyRequests

(* delete_task takes the job out of scheduling first, ... *)
DeleteUnschedules(q) ==
  LET j == request[q].job
  IN /\ Loaded(q, "delete")
     /\ job' = IF Exists(j) THEN [job EXCEPT ![j].status = "cancelled", ![j].next = NoSlot]
               ELSE job
     /\ Goes(q, "unscheduled")
     /\ UNCHANGED <<rows, phase>>
     /\ OnlyRequests

(* ... aborts its runs (abort_task_runs, before and after the DELETE), ... *)
DeleteAborts(q) ==
  LET ids == {r \in RunIds : r[1] = request[q].job /\ InFlight(r)}
  IN /\ agent = "up"
     /\ request[q].pc \in {"unscheduled", "deleted"}
     /\ phase' = Cancelled(ids)
     /\ request' = [request EXCEPT ![q].pc = IF @ = "deleted" THEN "aborting" ELSE "emptying",
                                   ![q].awaited = ids]
     /\ UNCHANGED <<job, rows>>
     /\ OnlyRequests

(* Mutant: the runs are not aborted a second time after the DELETE. *)
DeleteRowAtOnce(q) ==
  LET j == request[q].job
  IN /\ agent = "up"
     /\ request[q].pc = "emptying"
     /\ \A r \in request[q].awaited : ~InFlight(r)
     /\ job' = [job EXCEPT ![j].status = "deleted"]
     /\ rows' = [rows EXCEPT ![j] = <<>>]
     /\ Goes(q, "ok")
     /\ UNCHANGED phase
     /\ OnlyRequests

(* ... waits for them and deletes the row with its runs (ON DELETE         *)
(* CASCADE).                                                               *)
DeleteRow(q) ==
  LET j == request[q].job
  IN /\ agent = "up"
     /\ request[q].pc = "emptying"
     /\ \A r \in request[q].awaited : ~InFlight(r)
     /\ job' = [job EXCEPT ![j].status = "deleted"]
     /\ rows' = [rows EXCEPT ![j] = <<>>]
     /\ Goes(q, "deleted")
     /\ UNCHANGED phase
     /\ OnlyRequests

DeleteAnswers(q) ==
  /\ agent = "up"
  /\ request[q].pc = "aborting"
  /\ \A r \in request[q].awaited : ~InFlight(r)
  /\ Goes(q, "ok")
  /\ UNCHANGED <<job, rows, phase>>
  /\ OnlyRequests

RequestStep(q) == PauseTask(q) \/ ResumeTask(q) \/ CancelTask(q) \/ ManualCommits(q)
                  \/ ManualSpawns(q) \/ DeleteUnschedules(q) \/ DeleteAborts(q)
                  \/ DeleteRow(q) \/ DeleteAnswers(q)

----------------------------------------------------------------------------
(* The process. *)

(* stop: the loop ends at the await it is in, the run tasks are cancelled. *)
Stop ==
  /\ agent = "up"
  /\ crashes < MaxCrashes
  /\ agent' = "stopping"
  /\ claim' = NoClaim(claim.job)
  /\ phase' = Cancelled(RunIds)
  /\ UNCHANGED <<job, rows, request, crashes>>

(* The process is killed, or exits after stop. *)
Crash ==
  /\ \/ agent = "stopping"
     \/ agent \in {"up", "recovering"} /\ crashes < MaxCrashes
  /\ agent' = "down"
  /\ crashes' = IF crashes < MaxCrashes THEN crashes + 1 ELSE crashes
  /\ claim' = NoClaim(claim.job)
  /\ phase' = [r \in RunIds |-> IF phase[r] = "none" THEN "none" ELSE "ended"]
  /\ request' = [q \in Requests |->
       IF request[q].pc \in {"new", "ok", "refused", "failed"} THEN request[q]
       ELSE [request[q] EXCEPT !.pc = "failed"]]
  /\ UNCHANGED <<job, rows>>

(* recover_orphaned_runs at the start, before anything is served: first    *)
(* the rows, ...                                                           *)
RecoverRuns ==
  /\ agent = "down"
  /\ agent' = "recovering"
  /\ rows' = [j \in Jobs |-> [i \in DOMAIN rows[j] |->
       IF rows[j][i].status = "running" THEN [rows[j][i] EXCEPT !.status = "failed"]
       ELSE rows[j][i]]]
  /\ UNCHANGED <<job, phase, claim, request, crashes>>

(* ... then the jobs that have no next slot. *)
RecoverJobs ==
  /\ agent = "recovering"
  /\ agent' = "up"
  /\ job' = [j \in Jobs |-> Finalized(j)[j]]
  /\ UNCHANGED <<rows, phase, claim, request, crashes>>

----------------------------------------------------------------------------
Next ==
  \/ \E j \in Jobs : TickPicks(j)
  \/ ClaimStep
  \/ \E r \in RunIds : RunStep(r)
  \/ \E q \in Requests : RequestLoads(q) \/ RequestStep(q)
  \/ Stop \/ Crash \/ RecoverRuns \/ RecoverJobs

(* The event loop runs what is ready, a run has its deadline, and the      *)
(* supervisor starts an Agent that went down.                              *)
Fairness ==
  /\ WF_vars(ClaimStep)
  /\ \A r \in RunIds : WF_vars(RunStep(r))
  /\ \A q \in Requests : WF_vars(RequestStep(q))
  /\ WF_vars(agent = "stopping" /\ Crash)
  /\ WF_vars(RecoverRuns) /\ WF_vars(RecoverJobs)

Spec == Init /\ [][Next]_vars
FairSpec == Spec /\ Fairness

----------------------------------------------------------------------------
JobRows == [status : LiveStatuses \cup FinalStatuses \cup {"deleted"},
            next : 0..MaxSlot, count : Nat]
Claims == [pc : {"idle", "picked", "loaded", "checked", "running", "skipped"},
           job : Jobs, old : 0..MaxSlot, count : Nat, overlap : BOOLEAN,
           run : 0..MaxRows]
UserRequests == [pc : {"new", "loaded", "committed", "unscheduled", "emptying",
                       "deleted", "aborting", "ok", "refused", "failed"},
                 op : Ops, job : Jobs, next : 0..MaxSlot, run : 0..MaxRows,
                 awaited : SUBSET RunIds]

(* Every variable has its type. *)
TypeOK ==
  /\ job \in [Jobs -> JobRows]
  /\ rows \in [Jobs -> Seq(Rows)]
  /\ \A j \in Jobs : Len(rows[j]) <= MaxRows
  /\ phase \in [RunIds -> Phases]
  /\ claim \in Claims
  /\ request \in [Requests -> UserRequests]
  /\ agent \in {"down", "recovering", "up", "stopping"}
  /\ crashes \in 0..MaxCrashes

(* "a committed RUNNING row must never be left without a task": while the  *)
(* Agent serves, whoever committed the row is about to spawn its task, or  *)
(* the task is there and has not recorded the outcome, or the job is being *)
(* deleted with its rows.                                                  *)
RunningIsTended ==
  agent = "up" =>
    \A j \in Jobs : \A i \in DOMAIN rows[j] :
      rows[j][i].status = "running" =>
        \/ claim.pc = "running" /\ claim.job = j /\ claim.run = i
        \/ \E q \in Requests : request[q].pc = "committed"
                               /\ request[q].job = j /\ request[q].run = i
        \/ phase[<<j, i>>] \in {"spawned", "waiting", "working", "success", "failed",
                                "interrupted"}
        \/ \E q \in Requests : request[q].job = j /\ request[q].pc = "emptying"

(* run_count counts the runs of the job that were not skipped, whether a   *)
(* claim or a user started them and whatever crash came between.           *)
CountMatchesRuns ==
  \A j \in Jobs : Exists(j) =>
    job[j].count = Cardinality({i \in DOMAIN rows[j] : rows[j][i].status # "skipped"})

(* "Claims due jobs exactly once per slot": no two runs are of one slot.   *)
(* It needs a resume that does not outlast another pause and resume of the *)
(* job (four requests), which would store a slot of the past: README.      *)
SlotClaimedOnce ==
  \A j \in Jobs : \A i, k \in DOMAIN rows[j] :
    rows[j][i].slot = rows[j][k].slot /\ rows[j][i].slot # NoSlot => i = k

(* A job that is over stays over: it never becomes live again, has no slot *)
(* and starts no run, whatever claim or request still works on an old copy.*)
OverIsOver ==
  [][\A j \in Jobs : job[j].status \in FinalStatuses =>
       /\ job'[j].status \notin LiveStatuses
       /\ job'[j].next = NoSlot
       /\ DOMAIN rows'[j] \subseteq DOMAIN rows[j]]_vars

(* "delete aborts in-flight runs first": once a deletion is answered no    *)
(* run of the job works or will.                                           *)
DeletedIsQuiet ==
  \A q \in Requests :
    request[q].op = "delete" /\ request[q].pc = "ok" =>
      \A r \in RunIds : r[1] = request[q].job => phase[r] \notin {"waiting", "working"}

(* A run that was started ends: done, failed, timed out, aborted with its  *)
(* job, or failed by the recovery after a crash.                           *)
RunningEnds ==
  \A j \in Jobs : HasRunning(j) ~> ~HasRunning(j)

(* A job without a next slot ends up completed (or cancelled or deleted),  *)
(* even if the Agent dies between its last run and finalize_task.          *)
ExhaustedCompletes ==
  \A j \in Jobs :
    job[j].status \in LiveStatuses /\ job[j].next = NoSlot
      ~> job[j].status \notin LiveStatuses

(* docs/ARCHITECTURE.md: a claim that would reach max_runs sets next_run_at *)
(* to NULL, so a job that has had its runs has no slot.                    *)
ExhaustedHasNoSlot ==
  \A j \in Jobs \ OnceJobs :
    MaxRuns # 0 /\ job[j].count >= MaxRuns => job[j].next = NoSlot
=============================================================================
