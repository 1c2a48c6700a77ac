---------------------------- MODULE AgentProofs ----------------------------
(***************************************************************************)
(* Proofs about the components of MCAgent, for any instance.               *)
(*                                                                         *)
(* The scheduler: the types of its variables, that a job that is over      *)
(* stays over, that run_count is the number of runs, that a running row    *)
(* has somebody who closes it, and that a deleted job is quiet.  The next  *)
(* time of a job, whenever the clocks change.  The start: a served file    *)
(* has the whole schema and lost nothing, and one Agent serves.  The       *)
(* browser tab and its lists, with answers and frames in any order.        *)
(***************************************************************************)
EXTENDS MCAgent, FiniteSetTheorems, SequenceTheorems, WellFoundedInduction, TLAPS

(* A job that is over has no slot. *)
FinalNoSlot == \A j \in Jobs : job[j].status \in FinalStatuses => job[j].next = NoSlot

(* A slot that is gone does not come back, so a copy without a slot is     *)
(* never out of date.                                                      *)
LoadedNull ==
  \A q \in Requests : request[q].pc = "loaded" /\ request[q].next = NoSlot
                        => job[request[q].job].next = NoSlot

(* The loop works on a slot it has read. *)
ClaimOld == claim.pc \in {"loaded", "checked"} => claim.old # NoSlot

IInv == TypeOK /\ FinalNoSlot /\ LoadedNull /\ ClaimOld

(* What a step may not do to a job that is over. *)
Stays(j) ==
  /\ job'[j].status \notin LiveStatuses
  /\ job'[j].next = NoSlot
  /\ DOMAIN rows'[j] \subseteq DOMAIN rows[j]

(* What every step does: no slot appears on a job that has none, and a job *)
(* becomes over only without a slot.                                       *)
JobsKept ==
  \A j \in Jobs :
    /\ job[j].next = NoSlot => job'[j].next = NoSlot
    /\ job[j].status \in FinalStatuses => Stays(j)
    /\ job'[j].status \in FinalStatuses => job'[j].next = NoSlot

LEMMA HasRunningType == ASSUME NEW j PROVE HasRunning(j) \in BOOLEAN
BY Zenon DEF HasRunning

LEMMA NoClaimType == ASSUME NEW j \in Jobs PROVE NoClaim(j) \in Claims
BY SchedulerAssumption DEF NoClaim, Claims, NoSlot

LEMMA CancelledType ==
  ASSUME phase \in [RunIds -> Phases], NEW ids PROVE Cancelled(ids) \in [RunIds -> Phases]
BY DEF Cancelled, AfterCancel, Phases

LEMMA FinalizedType ==
  ASSUME job \in [Jobs -> JobRows], NEW j \in Jobs
  PROVE  Finalized(j) \in [Jobs -> JobRows]
BY DEF Finalized, JobRows, FinalStatuses, LiveStatuses

LEMMA CancelledRow ==
  ASSUME NEW row \in JobRows, NEW next \in 0..MaxSlot
  PROVE  [row EXCEPT !.status = "cancelled", !.next = next] \in JobRows
BY DEF JobRows, FinalStatuses, LiveStatuses

LEMMA AppendType ==
  ASSUME TypeOK, NEW j \in Jobs, NEW row \in Rows, Len(rows[j]) < MaxRows,
         rows' = [rows EXCEPT ![j] = Append(@, row)]
  PROVE  /\ rows' \in [Jobs -> Seq(Rows)]
         /\ \A i \in Jobs : Len(rows'[i]) <= MaxRows
         /\ Len(rows[j]) + 1 \in 0..MaxRows
<1>1. rows[j] \in Seq(Rows) /\ Len(rows[j]) \in Nat /\ MaxRows \in Nat
  BY SchedulerAssumption, LenProperties DEF TypeOK
<1>2. /\ Append(rows[j], row) \in Seq(Rows)
      /\ Len(Append(rows[j], row)) = Len(rows[j]) + 1
  BY <1>1, AppendProperties
<1>3. Len(rows[j]) + 1 \in 0..MaxRows
  BY <1>1
<1>4. rows' \in [Jobs -> Seq(Rows)]
  BY <1>2 DEF TypeOK
<1>5. \A i \in Jobs : Len(rows'[i]) <= MaxRows
  BY <1>1, <1>2, <1>3 DEF TypeOK
<1> QED
  BY <1>3, <1>4, <1>5

LEMMA InitIInv == ASSUME Init PROVE IInv
<1>1. MaxSlot \in Nat \ {0} /\ MaxRows \in Nat /\ MaxCrashes \in Nat
  BY SchedulerAssumption
<1>2. rows \in [Jobs -> Seq(Rows)] /\ \A j \in Jobs : Len(rows[j]) <= MaxRows
  BY <1>1, EmptySeq DEF Init
<1>3. claim \in Claims
  BY NoClaimType DEF Init
<1>4. \A op \in Ops, j \in Jobs : NewRequest(op, j) \in UserRequests
  BY <1>1 DEF NewRequest, UserRequests, NoSlot
<1>5. request \in [Requests -> UserRequests]
  BY <1>4 DEF Init
<1>6. TypeOK
  BY <1>1, <1>2, <1>3, <1>5 DEF Init, TypeOK, JobRows, LiveStatuses, Phases
<1>7. FinalNoSlot
  BY DEF Init, FinalNoSlot, FinalStatuses
<1>8. LoadedNull
  <2>1. \A q \in Requests : request[q].pc = "new"
    BY DEF Init, NewRequest
  <2> QED
    BY <2>1 DEF LoadedNull
<1>9. ClaimOld
  BY DEF Init, NoClaim, ClaimOld
<1> QED
  BY <1>6, <1>7, <1>8, <1>9 DEF IInv

----------------------------------------------------------------------------
(* Types: the poll loop. *)

LEMMA TickPicksType == ASSUME TypeOK, NEW j \in Jobs, TickPicks(j) PROVE TypeOK'
<1>1. claim' \in Claims
  BY NoClaimType DEF TickPicks, Claims
<1> QED
  BY <1>1 DEF TypeOK, TickPicks

LEMMA ClaimLoadsType == ASSUME TypeOK, ClaimLoads PROVE TypeOK'
<1>1. claim.job \in Jobs /\ job[claim.job] \in JobRows
  BY DEF TypeOK, Claims
<1>2. claim' \in Claims
  BY <1>1, NoClaimType DEF ClaimLoads, TypeOK, Claims, JobRows
<1> QED
  BY <1>2 DEF TypeOK, ClaimLoads

LEMMA ClaimChecksType == ASSUME TypeOK, ClaimChecks PROVE TypeOK'
<1>1. claim' \in Claims
  BY HasRunningType DEF ClaimChecks, TypeOK, Claims
<1> QED
  BY <1>1 DEF TypeOK, ClaimChecks

LEMMA ClaimCommitsType == ASSUME TypeOK, ClaimCommits PROVE TypeOK'
<1> DEFINE j == claim.job
           status == IF claim.overlap THEN "skipped" ELSE "running"
           row == NewRow(status, "schedule", claim.old)
<1>1. j \in Jobs /\ claim.old \in 0..MaxSlot /\ MaxSlot \in Nat
  BY SchedulerAssumption DEF TypeOK, Claims
<1>2. CASE claim' = NoClaim(j) /\ UNCHANGED <<job, rows>>
  BY <1>1, <1>2, NoClaimType DEF TypeOK, ClaimCommits
<1>3. CASE /\ Len(rows[j]) < MaxRows /\ ClaimNext <= MaxSlot
           /\ job' = [job EXCEPT ![j].next = ClaimNext,
                                 ![j].count = IF claim.overlap THEN @ ELSE @ + 1]
           /\ rows' = [rows EXCEPT ![j] = Append(@, row)]
           /\ claim' = [claim EXCEPT !.pc = status, !.run = Len(rows[j]) + 1]
  <2>1. row \in Rows
    BY <1>1 DEF NewRow, Rows
  <2>2. /\ rows' \in [Jobs -> Seq(Rows)]
        /\ \A i \in Jobs : Len(rows'[i]) <= MaxRows
        /\ Len(rows[j]) + 1 \in 0..MaxRows
    BY <1>1, <1>3, <2>1, AppendType
  <2>3. ClaimNext \in 0..MaxSlot
    BY <1>1, <1>3 DEF ClaimNext, NextAfterClaim, NoSlot
  <2>4. job' \in [Jobs -> JobRows]
    <3> DEFINE count == IF claim.overlap THEN job[j].count ELSE job[j].count + 1
    <3>1. job[j] \in JobRows
      BY <1>1 DEF TypeOK
    <3>2. job[j].count \in Nat
      BY <3>1 DEF JobRows
    <3>3. count \in Nat
      BY <3>2
    <3> HIDE DEF count
    <3>4. [job[j] EXCEPT !.next = ClaimNext, !.count = count] \in JobRows
      BY <3>1, <3>3, <2>3 DEF JobRows
    <3>5. job' = [job EXCEPT ![j] = [job[j] EXCEPT !.next = ClaimNext, !.count = count]]
      BY <1>3 DEF count
    <3> QED
      BY <1>1, <3>4, <3>5 DEF TypeOK
  <2>5. claim' \in Claims
    BY <1>3, <2>2 DEF TypeOK, Claims
  <2> QED
    BY <2>2, <2>4, <2>5 DEF TypeOK, ClaimCommits
<1> QED
  BY <1>2, <1>3 DEF ClaimCommits

LEMMA ClaimSpawnsType == ASSUME TypeOK, ClaimSpawns PROVE TypeOK'
<1>1. claim' \in Claims
  BY NoClaimType DEF ClaimSpawns, TypeOK, Claims
<1>2. phase' \in [RunIds -> Phases]
  BY DEF ClaimSpawns, TypeOK, Phases
<1> QED
  BY <1>1, <1>2 DEF TypeOK, ClaimSpawns

LEMMA ClaimFinalizesType == ASSUME TypeOK, ClaimFinalizes PROVE TypeOK'
<1>1. claim.job \in Jobs
  BY DEF TypeOK, Claims
<1>2. claim' \in Claims /\ job' \in [Jobs -> JobRows]
  BY <1>1, NoClaimType, FinalizedType DEF ClaimFinalizes, TypeOK
<1> QED
  BY <1>2 DEF TypeOK, ClaimFinalizes

----------------------------------------------------------------------------
(* Types: the run tasks. *)

LEMMA RunRecordsType == ASSUME TypeOK, NEW r \in RunIds, RunRecords(r) PROVE TypeOK'
<1>1. phase' \in [RunIds -> Phases]
  BY DEF RunRecords, Moves, TypeOK, Phases
<1>2. rows' \in [Jobs -> Seq(Rows)] /\ \A j \in Jobs : Len(rows'[j]) <= MaxRows
  <2>1. CASE UNCHANGED rows
    BY <2>1 DEF TypeOK
  <2>2. CASE /\ RowThere(r)
             /\ rows' = [rows EXCEPT ![r[1]][r[2]].status =
                           IF phase[r] = "success" THEN "success" ELSE "failed"]
    <3> DEFINE j == r[1]
               row == [rows[j][r[2]] EXCEPT !.status =
                         IF phase[r] = "success" THEN "success" ELSE "failed"]
    <3>1. j \in Jobs /\ rows[j] \in Seq(Rows)
      BY DEF RunIds, TypeOK
    <3>2. r[2] \in 1..Len(rows[j])
      BY <2>2, <3>1, LenProperties DEF RowThere
    <3>3. rows[j][r[2]] \in Rows
      BY <3>1, <3>2, ElementOfSeq
    <3>4. row \in Rows
      BY <3>3 DEF Rows
    <3>5. /\ [rows[j] EXCEPT ![r[2]] = row] \in Seq(Rows)
          /\ Len([rows[j] EXCEPT ![r[2]] = row]) = Len(rows[j])
      BY <3>1, <3>2, <3>4, ExceptSeq
    <3>6. rows' = [rows EXCEPT ![j] = [rows[j] EXCEPT ![r[2]] = row]]
      BY <2>2
    <3> QED
      BY <3>1, <3>5, <3>6 DEF TypeOK
  <2> QED
    BY <2>1, <2>2 DEF RunRecords
<1> QED
  BY <1>1, <1>2 DEF TypeOK, RunRecords, Moves

LEMMA RunType == ASSUME TypeOK, NEW r \in RunIds, RunStep(r) PROVE TypeOK'
<1>1. CASE RunStarts(r)
  <2>1. phase' \in [RunIds -> Phases]
    BY <1>1 DEF RunStarts, Moves, TypeOK, Phases
  <2> QED
    BY <1>1, <2>1 DEF RunStarts, Moves, TypeOK
<1>2. CASE RunWorks(r)
  <2>1. phase' \in [RunIds -> Phases]
    BY <1>2 DEF RunWorks, Moves, TypeOK, Phases
  <2> QED
    BY <1>2, <2>1 DEF RunWorks, Moves, TypeOK
<1>3. CASE RunReturns(r)
  <2>1. phase' \in [RunIds -> Phases]
    BY <1>3 DEF RunReturns, Moves, TypeOK, Phases
  <2> QED
    BY <1>3, <2>1 DEF RunReturns, Moves, TypeOK
<1>4. CASE RunRecords(r)
  BY <1>4, RunRecordsType
<1>5. CASE RunFinalizes(r)
  <2>1. phase' \in [RunIds -> Phases]
    BY <1>5 DEF RunFinalizes, Moves, TypeOK, Phases
  <2>2. r[1] \in Jobs
    BY DEF RunIds
  <2>3. job' \in [Jobs -> JobRows]
    BY <1>5, <2>2, FinalizedType DEF RunFinalizes, TypeOK
  <2> QED
    BY <1>5, <2>1, <2>3 DEF RunFinalizes, Moves, TypeOK
<1> QED
  BY <1>1, <1>2, <1>3, <1>4, <1>5 DEF RunStep

----------------------------------------------------------------------------
(* Types: the requests and the process. *)

LEMMA GoesType ==
  ASSUME TypeOK, NEW q \in Requests, NEW pc, Goes(q, pc),
         pc \in {"ok", "refused", "failed", "unscheduled", "deleted"}
  PROVE  request' \in [Requests -> UserRequests]
BY DEF TypeOK, Goes, UserRequests

LEMMA RequestLoadsType == ASSUME TypeOK, NEW q \in Requests, RequestLoads(q) PROVE TypeOK'
<1>1. PICK pc \in {"loaded", "refused"} :
        request' = [request EXCEPT ![q].pc = pc, ![q].next = job[request[q].job].next]
  BY DEF RequestLoads
<1>2. job[request[q].job].next \in 0..MaxSlot
  BY DEF TypeOK, UserRequests, JobRows
<1>3. request' \in [Requests -> UserRequests]
  BY <1>1, <1>2 DEF TypeOK, UserRequests
<1> QED
  BY <1>3 DEF TypeOK, RequestLoads

LEMMA GuardedType ==
  ASSUME TypeOK, NEW q \in Requests, NEW expected, NEW new \in JobRows,
         GuardedTransition(q, expected, new)
  PROVE  TypeOK'
<1>1. request' \in [Requests -> UserRequests]
  BY GoesType DEF GuardedTransition
<1>2. job' \in [Jobs -> JobRows]
  BY DEF GuardedTransition, TypeOK
<1> QED
  BY <1>1, <1>2 DEF TypeOK, GuardedTransition, OnlyRequests

LEMMA UserType == ASSUME TypeOK, NEW q \in Requests, RequestStep(q) PROVE TypeOK'
<1> DEFINE j == request[q].job
<1>j. j \in Jobs /\ request[q].next \in 0..MaxSlot /\ job[j] \in JobRows /\ MaxSlot \in Nat
  BY SchedulerAssumption DEF TypeOK, UserRequests
<1>n. NoSlot \in 0..MaxSlot
  BY <1>j DEF NoSlot
<1>1. CASE PauseTask(q)
  <2>1. [job[j] EXCEPT !.status = "paused"] \in JobRows
    BY <1>j DEF JobRows, LiveStatuses
  <2> QED
    BY <1>1, <2>1, GuardedType DEF PauseTask
<1>2. CASE ResumeTask(q)
  <2> DEFINE next == NextOnResume(j, request[q].next)
  <2>1. next \in 0..MaxSlot
    BY <1>2, <1>j DEF ResumeTask, NextOnResume
  <2>2. [job[j] EXCEPT !.status = "active", !.next = next] \in JobRows
    BY <1>j, <2>1 DEF JobRows, LiveStatuses
  <2> QED
    BY <1>2, <2>2, GuardedType DEF ResumeTask
<1>3. CASE CancelTask(q)
  <2>1. request' \in [Requests -> UserRequests]
    BY <1>3, GoesType DEF CancelTask
  <2>2. \A next \in {job[j].next, NoSlot} :
          [job[j] EXCEPT !.status = "cancelled", !.next = next] \in JobRows
    <3>1. job[j].next \in 0..MaxSlot
      BY <1>j DEF JobRows
    <3> QED
      BY <1>j, <1>n, <3>1, CancelledRow
  <2>3. \/ UNCHANGED job
        \/ \E next \in {job[j].next, NoSlot} :
             job' = [job EXCEPT ![j] = [job[j] EXCEPT !.status = "cancelled", !.next = next]]
    BY <1>3 DEF CancelTask
  <2>4. job' \in [Jobs -> JobRows]
    BY <1>j, <2>2, <2>3 DEF TypeOK
  <2> QED
    BY <1>3, <2>1, <2>4 DEF CancelTask, TypeOK, OnlyRequests
<1>4. CASE ManualCommits(q)
  <2>1. CASE Goes(q, "refused") /\ UNCHANGED <<job, rows>>
    <3>1. request' \in [Requests -> UserRequests]
      BY <2>1, GoesType
    <3> QED
      BY <1>4, <2>1, <3>1 DEF ManualCommits, TypeOK, OnlyRequests
  <2>2. CASE ~(Goes(q, "refused") /\ UNCHANGED <<job, rows>>)
    <3> DEFINE exhausts == j \in OnceJobs \/ (MaxRuns # 0 /\ job[j].count + 1 >= MaxRuns)
               next == IF exhausts THEN NoSlot ELSE job[j].next
               row == NewRow("running", "manual", NoSlot)
    <3>1. /\ Len(rows[j]) < MaxRows
          /\ job' = [job EXCEPT ![j].count = @ + 1, ![j].next = IF exhausts THEN NoSlot ELSE @]
          /\ rows' = [rows EXCEPT ![j] = Append(@, row)]
          /\ request' = [request EXCEPT ![q].pc = "committed", ![q].run = Len(rows[j]) + 1]
      BY <1>4, <2>2 DEF ManualCommits
    <3>2. row \in Rows
      BY <1>j DEF NewRow, Rows, NoSlot
    <3>3. /\ rows' \in [Jobs -> Seq(Rows)]
          /\ \A i \in Jobs : Len(rows'[i]) <= MaxRows
          /\ Len(rows[j]) + 1 \in 0..MaxRows
      BY <1>j, <3>1, <3>2, AppendType
    <3>4. next \in 0..MaxSlot /\ job[j].count + 1 \in Nat
      BY <1>j DEF JobRows, NoSlot
    <3> HIDE DEF exhausts
    <3>5. [job[j] EXCEPT !.count = job[j].count + 1, !.next = next] \in JobRows
      BY <1>j, <3>4 DEF JobRows
    <3>6. job' = [job EXCEPT ![j] = [job[j] EXCEPT !.count = job[j].count + 1, !.next = next]]
      BY <3>1
    <3>7. job' \in [Jobs -> JobRows]
      BY <1>j, <3>5, <3>6 DEF TypeOK
    <3>8. request' \in [Requests -> UserRequests]
      <4> DEFINE run == Len(rows[j]) + 1
      <4>1. request' = [request EXCEPT ![q] = [request[q] EXCEPT !.pc = "committed", !.run = run]]
        BY <3>1
      <4>2. run \in 0..MaxRows
        BY <3>3
      <4> HIDE DEF run
      <4>3. [request[q] EXCEPT !.pc = "committed", !.run = run] \in UserRequests
        BY <4>2 DEF TypeOK, UserRequests
      <4> QED
        BY <4>1, <4>3 DEF TypeOK
    <3> QED
      BY <1>4, <3>3, <3>7, <3>8 DEF ManualCommits, TypeOK, OnlyRequests
  <2> QED
    BY <2>1, <2>2
<1>5. CASE ManualSpawns(q)
  <2>1. request' \in [Requests -> UserRequests] /\ phase' \in [RunIds -> Phases]
    BY <1>5, GoesType DEF ManualSpawns, TypeOK, Phases
  <2> QED
    BY <1>5, <2>1 DEF ManualSpawns, TypeOK, OnlyRequests
<1>6. CASE DeleteUnschedules(q)
  <2>1. request' \in [Requests -> UserRequests]
    BY <1>6, GoesType DEF DeleteUnschedules
  <2>2. job' \in [Jobs -> JobRows]
    <3>1. [job[j] EXCEPT !.status = "cancelled", !.next = NoSlot] \in JobRows
      BY <1>j, <1>n, CancelledRow
    <3>2. \/ UNCHANGED job
          \/ job' = [job EXCEPT ![j] = [job[j] EXCEPT !.status = "cancelled", !.next = NoSlot]]
      BY <1>6 DEF DeleteUnschedules
    <3> QED
      BY <1>j, <3>1, <3>2 DEF TypeOK
  <2> QED
    BY <1>6, <2>1, <2>2 DEF DeleteUnschedules, TypeOK, OnlyRequests
<1>7. CASE DeleteAborts(q)
  <2> DEFINE ids == {r \in RunIds : r[1] = request[q].job /\ InFlight(r)}
  <2>1. phase' \in [RunIds -> Phases]
    BY <1>7, CancelledType DEF DeleteAborts, TypeOK
  <2>2. PICK pc \in {"aborting", "emptying"} :
          request' = [request EXCEPT ![q].pc = pc, ![q].awaited = ids]
    BY <1>7 DEF DeleteAborts
  <2>3. ids \in SUBSET RunIds
    OBVIOUS
  <2> HIDE DEF ids
  <2>4. request' \in [Requests -> UserRequests]
    BY <2>2, <2>3 DEF TypeOK, UserRequests
  <2> QED
    BY <1>7, <2>1, <2>4 DEF DeleteAborts, TypeOK, OnlyRequests
<1>8. CASE DeleteRow(q)
  <2>1. request' \in [Requests -> UserRequests]
    BY <1>8, GoesType DEF DeleteRow
  <2>2. job' \in [Jobs -> JobRows]
    BY <1>8, <1>j DEF DeleteRow, TypeOK, JobRows
  <2>3. rows' \in [Jobs -> Seq(Rows)] /\ \A i \in Jobs : Len(rows'[i]) <= MaxRows
    <3>1. rows' = [rows EXCEPT ![j] = <<>>] /\ MaxRows \in Nat
      BY <1>8, SchedulerAssumption DEF DeleteRow
    <3>2. <<>> \in Seq(Rows) /\ Len(<<>>) = 0
      BY EmptySeq
    <3>3. rows' \in [Jobs -> Seq(Rows)]
      BY <3>1, <3>2 DEF TypeOK
    <3>4. \A i \in Jobs : rows'[i] = IF i = j THEN <<>> ELSE rows[i]
      BY <1>j, <3>1 DEF TypeOK
    <3>5. \A i \in Jobs : Len(rows'[i]) <= MaxRows
      BY <3>1, <3>2, <3>4 DEF TypeOK
    <3> QED
      BY <3>3, <3>5
  <2> QED
    BY <1>8, <2>1, <2>2, <2>3 DEF DeleteRow, TypeOK, OnlyRequests
<1>9. CASE DeleteAnswers(q)
  <2>1. request' \in [Requests -> UserRequests]
    BY <1>9, GoesType DEF DeleteAnswers
  <2> QED
    BY <1>9, <2>1 DEF DeleteAnswers, TypeOK, OnlyRequests
<1> QED
  BY <1>1, <1>2, <1>3, <1>4, <1>5, <1>6, <1>7, <1>8, <1>9 DEF RequestStep

LEMMA ProcessType == ASSUME TypeOK, Stop \/ Crash \/ RecoverRuns \/ RecoverJobs PROVE TypeOK'
<1>c. NoClaim(claim.job) \in Claims
  BY NoClaimType DEF TypeOK, Claims
<1>1. CASE Stop
  <2>1. phase' \in [RunIds -> Phases]
    BY <1>1, CancelledType DEF Stop, TypeOK
  <2> QED
    BY <1>1, <1>c, <2>1 DEF Stop, TypeOK
<1>2. CASE Crash
  <2>1. phase' \in [RunIds -> Phases]
    BY <1>2 DEF Crash, Phases
  <2>2. \A q \in Requests : [request[q] EXCEPT !.pc = "failed"] \in UserRequests
    BY DEF TypeOK, UserRequests
  <2>3. request' \in [Requests -> UserRequests]
    BY <1>2, <2>2 DEF Crash, TypeOK
  <2>4. crashes' \in 0..MaxCrashes
    BY <1>2, SchedulerAssumption DEF Crash, TypeOK
  <2> QED
    BY <1>2, <1>c, <2>1, <2>3, <2>4 DEF Crash, TypeOK
<1>3. CASE RecoverRuns
  <2> DEFINE Fails(row) == IF row.status = "running" THEN [row EXCEPT !.status = "failed"]
                           ELSE row
             Failed(j) == [i \in DOMAIN rows[j] |-> Fails(rows[j][i])]
  <2>1. \A row \in Rows : Fails(row) \in Rows
    BY DEF Rows
  <2>2. \A j \in Jobs : Failed(j) \in Seq(Rows) /\ Len(Failed(j)) = Len(rows[j])
    <3> SUFFICES ASSUME NEW j \in Jobs PROVE Failed(j) \in Seq(Rows) /\ Len(Failed(j)) = Len(rows[j])
      OBVIOUS
    <3>1. rows[j] \in Seq(Rows)
      BY DEF TypeOK
    <3>2. Len(rows[j]) \in Nat /\ DOMAIN rows[j] = 1..Len(rows[j])
      BY <3>1, LenProperties
    <3>3. \A i \in 1..Len(rows[j]) : Fails(rows[j][i]) \in Rows
      BY <3>1, <2>1, ElementOfSeq
    <3> HIDE DEF Fails
    <3>4. Failed(j) \in [1..Len(rows[j]) -> Rows]
      BY <3>2, <3>3
    <3> QED
      BY <3>2, <3>4
  <2>3. rows' \in [Jobs -> Seq(Rows)] /\ \A j \in Jobs : Len(rows'[j]) <= MaxRows
    <3>1. rows' = [j \in Jobs |-> Failed(j)]
      BY <1>3 DEF RecoverRuns
    <3> HIDE DEF Failed
    <3> QED
      BY <2>2, <3>1 DEF TypeOK
  <2> QED
    BY <1>3, <2>3 DEF RecoverRuns, TypeOK
<1>4. CASE RecoverJobs
  <2>1. \A j \in Jobs : Finalized(j)[j] \in JobRows
    BY FinalizedType DEF TypeOK
  <2>2. job' \in [Jobs -> JobRows]
    BY <1>4, <2>1 DEF RecoverJobs
  <2> QED
    BY <1>4, <2>2 DEF RecoverJobs, TypeOK
<1> QED
  BY <1>1, <1>2, <1>3, <1>4

LEMMA TypeStep == ASSUME TypeOK, [Next]_vars PROVE TypeOK'
<1>1. CASE ClaimStep
  BY <1>1, ClaimLoadsType, ClaimChecksType, ClaimCommitsType, ClaimSpawnsType,
     ClaimFinalizesType DEF ClaimStep
<1>2. CASE UNCHANGED vars
  BY <1>2 DEF vars, TypeOK
<1> QED
  BY <1>1, <1>2, TickPicksType, RunType, RequestLoadsType, UserType, ProcessType DEF Next

----------------------------------------------------------------------------
(* Jobs that are over stay over. *)

LEMMA IdleJobs == ASSUME IInv, UNCHANGED <<job, rows>> PROVE JobsKept
BY DEF IInv, FinalNoSlot, JobsKept, Stays, LiveStatuses, FinalStatuses

LEMMA FinalizedKeeps ==
  ASSUME IInv, NEW k \in Jobs, NEW j \in Jobs
  PROVE  /\ Finalized(k)[j].next = job[j].next
         /\ Finalized(k)[j].status \in {job[j].status, "completed"}
         /\ job[j].status \in FinalStatuses => Finalized(k)[j] = job[j]
         /\ Finalized(k)[j].status # job[j].status => job[j].next = NoSlot
BY DEF Finalized, IInv, TypeOK, JobRows, LiveStatuses, FinalStatuses

LEMMA OneFinalizes ==
  ASSUME IInv, NEW k \in Jobs, job' = Finalized(k), UNCHANGED rows
  PROVE  JobsKept
<1> SUFFICES ASSUME NEW j \in Jobs
             PROVE  /\ job[j].next = NoSlot => job'[j].next = NoSlot
                    /\ job[j].status \in FinalStatuses => Stays(j)
                    /\ job'[j].status \in FinalStatuses => job'[j].next = NoSlot
  BY DEF JobsKept
<1> QED
  BY FinalizedKeeps DEF IInv, FinalNoSlot, Stays, LiveStatuses, FinalStatuses

(* Only one job changes, and that one is not over. *)
LEMMA LiveChanges ==
  ASSUME IInv, NEW k \in Jobs, NEW new \in JobRows,
         job' = [job EXCEPT ![k] = new],
         \A j \in Jobs \ {k} : rows'[j] = rows[j],
         job[k].status \notin FinalStatuses,
         job[k].next = NoSlot => new.next = NoSlot,
         new.status \in FinalStatuses => new.next = NoSlot
  PROVE  JobsKept
<1>1. \A j \in Jobs : job'[j] = IF j = k THEN new ELSE job[j]
  BY DEF IInv, TypeOK
<1> QED
  BY <1>1 DEF IInv, FinalNoSlot, JobsKept, Stays, LiveStatuses, FinalStatuses

(* A job loses its slot and stays or becomes over. *)
LEMMA OverChanges ==
  ASSUME IInv, NEW k \in Jobs, NEW new \in JobRows,
         job' = [job EXCEPT ![k] = new],
         \A j \in Jobs \ {k} : rows'[j] = rows[j],
         DOMAIN rows'[k] \subseteq DOMAIN rows[k],
         new.status \notin LiveStatuses,
         job[k].next = NoSlot \/ job[k].status \in FinalStatuses \/ new.status \in FinalStatuses
           => new.next = NoSlot
  PROVE  JobsKept
<1>1. \A j \in Jobs : job'[j] = IF j = k THEN new ELSE job[j]
  BY DEF IInv, TypeOK
<1> QED
  BY <1>1 DEF IInv, FinalNoSlot, JobsKept, Stays, LiveStatuses, FinalStatuses

LEMMA ClaimKeeps == ASSUME IInv, ClaimCommits PROVE JobsKept
<1> DEFINE k == claim.job
           count == IF claim.overlap THEN job[k].count ELSE job[k].count + 1
           new == [job[k] EXCEPT !.next = ClaimNext, !.count = count]
<1>1. CASE UNCHANGED <<job, rows>>
  BY <1>1, IdleJobs
<1>2. CASE ~UNCHANGED <<job, rows>>
  <2>1. /\ claim.pc = "checked" /\ ~ClaimLost(k)
        /\ job' = [job EXCEPT ![k] = new]
        /\ \E row : rows' = [rows EXCEPT ![k] = Append(@, row)]
    BY <1>2 DEF ClaimCommits
  <2>2. k \in Jobs /\ job[k] \in JobRows /\ job' \in [Jobs -> JobRows]
    <3>1. k \in Jobs /\ job[k] \in JobRows
      BY DEF IInv, TypeOK, Claims
    <3>2. TypeOK'
      BY ClaimCommitsType DEF IInv
    <3> QED
      BY <3>1, <3>2 DEF TypeOK
  <2>3. job'[k] = new
    BY <2>1, <2>2 DEF IInv, TypeOK
  <2>4. new \in JobRows
    BY <2>2, <2>3
  <2>5. job[k].status = "active" /\ job[k].next # NoSlot
    BY <2>1 DEF ClaimLost, IInv, ClaimOld
  <2>6. new.status = "active"
    BY <2>2, <2>5 DEF JobRows
  <2>7. \A j \in Jobs \ {k} : rows'[j] = rows[j]
    BY <2>1, <2>2 DEF IInv, TypeOK
  <2> HIDE DEF new
  <2> QED
    BY <2>1, <2>2, <2>4, <2>5, <2>6, <2>7, LiveChanges DEF FinalStatuses
<1> QED
  BY <1>1, <1>2

LEMMA RunKeeps == ASSUME IInv, NEW r \in RunIds, RunStep(r) PROVE JobsKept
<1>1. CASE RunRecords(r)
  <2>1. \A j \in Jobs : DOMAIN rows'[j] = DOMAIN rows[j]
    BY <1>1 DEF RunRecords, IInv, TypeOK
  <2> QED
    BY <1>1, <2>1 DEF RunRecords, IInv, FinalNoSlot, JobsKept, Stays, LiveStatuses, FinalStatuses
<1>2. CASE RunFinalizes(r)
  <2>1. r[1] \in Jobs
    BY DEF RunIds
  <2> QED
    BY <1>2, <2>1, OneFinalizes DEF RunFinalizes
<1>3. CASE RunStarts(r) \/ RunWorks(r) \/ RunReturns(r)
  BY <1>3, IdleJobs DEF RunStarts, RunWorks, RunReturns
<1> QED
  BY <1>1, <1>2, <1>3 DEF RunStep

LEMMA UserKeeps == ASSUME IInv, NEW q \in Requests, RequestStep(q) PROVE JobsKept
<1> DEFINE k == request[q].job
<1>k. k \in Jobs /\ job[k] \in JobRows
  BY DEF IInv, TypeOK, UserRequests
<1>t. TypeOK'
  BY UserType DEF IInv
<1>n. \A new : job' = [job EXCEPT ![k] = new] => new \in JobRows
  BY <1>k, <1>t DEF IInv, TypeOK
<1>i. CASE UNCHANGED <<job, rows>>
  BY <1>i, IdleJobs
<1>1. CASE PauseTask(q) /\ job' # job
  <2> DEFINE new == [job[k] EXCEPT !.status = "paused"]
  <2>1. /\ job' = [job EXCEPT ![k] = new] /\ UNCHANGED rows
        /\ job[k].status = "active"
    BY <1>1 DEF PauseTask, GuardedTransition
  <2>2. new.status = "paused" /\ new.next = job[k].next
    BY <1>k DEF JobRows
  <2>3. new \in JobRows
    BY <1>n, <2>1
  <2> HIDE DEF new
  <2> QED
    BY <1>k, <2>1, <2>2, <2>3, LiveChanges DEF FinalStatuses
<1>2. CASE ResumeTask(q) /\ job' # job
  <2> DEFINE new == [job[k] EXCEPT !.status = "active", !.next = NextOnResume(k, request[q].next)]
  <2>1. /\ job' = [job EXCEPT ![k] = new] /\ UNCHANGED rows
        /\ job[k].status = "paused" /\ job[k].next # NoSlot
    BY <1>2 DEF ResumeTask, GuardedTransition
  <2>2. new.status = "active"
    BY <1>k DEF JobRows
  <2>3. new \in JobRows
    BY <1>n, <2>1
  <2> HIDE DEF new
  <2> QED
    BY <1>k, <2>1, <2>2, <2>3, LiveChanges DEF FinalStatuses
<1>3. CASE CancelTask(q) /\ job' # job
  <2> DEFINE next == IF request[q].next = NoSlot THEN job[k].next ELSE NoSlot
             new == [job[k] EXCEPT !.status = "cancelled", !.next = next]
  <2>1. job' = [job EXCEPT ![k] = new] /\ UNCHANGED rows /\ request[q].pc = "loaded"
    BY <1>3 DEF CancelTask, Loaded
  <2>2. new.status = "cancelled" /\ new.next = next
    BY <1>k DEF JobRows
  <2>3. next = NoSlot
    BY <2>1 DEF IInv, LoadedNull
  <2>4. new \in JobRows
    BY <1>n, <2>1
  <2> HIDE DEF new
  <2> QED
    BY <1>k, <2>1, <2>2, <2>3, <2>4, OverChanges DEF LiveStatuses
<1>4. CASE ManualCommits(q) /\ ~UNCHANGED <<job, rows>>
  <2> DEFINE exhausts == k \in OnceJobs \/ (MaxRuns # 0 /\ job[k].count + 1 >= MaxRuns)
             next == IF exhausts THEN NoSlot ELSE job[k].next
             new == [job[k] EXCEPT !.count = job[k].count + 1, !.next = next]
  <2>1. /\ job' = [job EXCEPT ![k].count = @ + 1, ![k].next = IF exhausts THEN NoSlot ELSE @]
        /\ \E row : rows' = [rows EXCEPT ![k] = Append(@, row)]
        /\ job[k].status \in LiveStatuses
    BY <1>4 DEF ManualCommits
  <2> HIDE DEF exhausts
  <2>2. job' = [job EXCEPT ![k] = new]
    BY <2>1
  <2>3. new.status = job[k].status /\ new.next = next
    BY <1>k DEF JobRows
  <2>4. new \in JobRows
    BY <1>n, <2>2
  <2>5. \A j \in Jobs \ {k} : rows'[j] = rows[j]
    BY <1>k, <2>1 DEF IInv, TypeOK
  <2> HIDE DEF new
  <2> QED
    BY <1>k, <2>1, <2>2, <2>3, <2>4, <2>5, LiveChanges DEF LiveStatuses, FinalStatuses
<1>5. CASE DeleteUnschedules(q) /\ job' # job
  <2> DEFINE new == [job[k] EXCEPT !.status = "cancelled", !.next = NoSlot]
  <2>1. job' = [job EXCEPT ![k] = new] /\ UNCHANGED rows
    BY <1>5 DEF DeleteUnschedules
  <2>2. new.status = "cancelled" /\ new.next = NoSlot
    BY <1>k DEF JobRows
  <2>3. new \in JobRows
    BY <1>n, <2>1
  <2> HIDE DEF new
  <2> QED
    BY <1>k, <2>1, <2>2, <2>3, OverChanges DEF LiveStatuses
<1>6. CASE DeleteRow(q)
  <2> DEFINE new == [job[k] EXCEPT !.status = "deleted"]
  <2>1. job' = [job EXCEPT ![k] = new] /\ rows' = [rows EXCEPT ![k] = <<>>]
    BY <1>6 DEF DeleteRow
  <2>2. new.status = "deleted" /\ new.next = job[k].next
    BY <1>k DEF JobRows
  <2>3. new \in JobRows
    BY <1>n, <2>1
  <2>4. /\ \A j \in Jobs \ {k} : rows'[j] = rows[j]
        /\ rows'[k] = <<>>
    BY <1>k, <2>1 DEF IInv, TypeOK
  <2>5. DOMAIN rows'[k] \subseteq DOMAIN rows[k]
    BY <2>4
  <2>6. job[k].status \in FinalStatuses => job[k].next = NoSlot
    BY <1>k DEF IInv, FinalNoSlot
  <2> HIDE DEF new
  <2> QED
    BY <1>k, <2>1, <2>2, <2>3, <2>4, <2>5, <2>6, OverChanges DEF LiveStatuses, FinalStatuses
<1>7. CASE ManualSpawns(q) \/ DeleteAborts(q) \/ DeleteAnswers(q)
  BY <1>7, IdleJobs DEF ManualSpawns, DeleteAborts, DeleteAnswers
<1> QED
  BY <1>i, <1>1, <1>2, <1>3, <1>4, <1>5, <1>6, <1>7 DEF RequestStep, PauseTask, ResumeTask,
     GuardedTransition, CancelTask, DeleteUnschedules

LEMMA ProcessKeeps ==
  ASSUME IInv, Stop \/ Crash \/ RecoverRuns \/ RecoverJobs
  PROVE  JobsKept
<1>1. CASE Stop \/ Crash
  BY <1>1, IdleJobs DEF Stop, Crash
<1>2. CASE RecoverRuns
  <2>1. \A j \in Jobs : DOMAIN rows'[j] = DOMAIN rows[j]
    BY <1>2 DEF RecoverRuns
  <2> QED
    BY <1>2, <2>1 DEF RecoverRuns, IInv, FinalNoSlot, JobsKept, Stays, LiveStatuses, FinalStatuses
<1>3. CASE RecoverJobs
  <2> SUFFICES ASSUME NEW j \in Jobs
               PROVE  /\ job[j].next = NoSlot => job'[j].next = NoSlot
                      /\ job[j].status \in FinalStatuses => Stays(j)
                      /\ job'[j].status \in FinalStatuses => job'[j].next = NoSlot
    BY DEF JobsKept
  <2>1. job'[j] = Finalized(j)[j] /\ UNCHANGED rows
    BY <1>3 DEF RecoverJobs
  <2> QED
    BY <2>1, FinalizedKeeps DEF IInv, FinalNoSlot, Stays, LiveStatuses, FinalStatuses
<1> QED
  BY <1>1, <1>2, <1>3

LEMMA KeepsStep == ASSUME IInv, [Next]_vars PROVE JobsKept
<1>1. CASE ClaimStep
  <2>1. CASE ClaimLoads \/ ClaimChecks \/ ClaimSpawns
    BY <2>1, IdleJobs DEF ClaimLoads, ClaimChecks, ClaimSpawns
  <2>2. CASE ClaimFinalizes
    <3>1. claim.job \in Jobs
      BY DEF IInv, TypeOK, Claims
    <3> QED
      BY <2>2, <3>1, OneFinalizes DEF ClaimFinalizes
  <2> QED
    BY <1>1, <2>1, <2>2, ClaimKeeps DEF ClaimStep
<1>2. CASE \E j \in Jobs : TickPicks(j)
  BY <1>2, IdleJobs DEF TickPicks
<1>3. CASE \E q \in Requests : RequestLoads(q)
  BY <1>3, IdleJobs DEF RequestLoads
<1>4. CASE UNCHANGED vars
  BY <1>4, IdleJobs DEF vars
<1> QED
  BY <1>1, <1>2, <1>3, <1>4, RunKeeps, UserKeeps, ProcessKeeps DEF Next

----------------------------------------------------------------------------
(* The copies. *)

(* A request that is loaded was so before, or is loaded by this step. *)
LEMMA LoadedStep ==
  ASSUME IInv, [Next]_vars, NEW q \in Requests, request'[q].pc = "loaded"
  PROVE  /\ request'[q].job = request[q].job
         /\ \/ request'[q] = request[q]
            \/ request'[q].next = job[request[q].job].next /\ UNCHANGED job
<1>t. request \in [Requests -> UserRequests]
  BY DEF IInv, TypeOK
<1>1. CASE UNCHANGED request
  BY <1>1
<1>2. ASSUME NEW p \in Requests, RequestLoads(p)
      PROVE  /\ request'[q].job = request[q].job
             /\ \/ request'[q] = request[q]
                \/ request'[q].next = job[request[q].job].next /\ UNCHANGED job
  BY <1>t, <1>2 DEF RequestLoads, UserRequests
<1>3. ASSUME NEW p \in Requests, RequestStep(p), ~UNCHANGED request
      PROVE  request'[q] = request[q]
  <2>1. ASSUME NEW pc, Goes(p, pc), pc # "loaded"
        PROVE  request'[q] = request[q]
    BY <1>t, <2>1 DEF Goes, UserRequests
  <2>2. CASE PauseTask(p) \/ ResumeTask(p)
    BY <2>1, <2>2 DEF PauseTask, ResumeTask, GuardedTransition
  <2>3. CASE CancelTask(p) \/ ManualSpawns(p) \/ DeleteUnschedules(p)
    BY <2>1, <2>3 DEF CancelTask, ManualSpawns, DeleteUnschedules
  <2>4. CASE DeleteRow(p) \/ DeleteAnswers(p)
    BY <2>1, <2>4 DEF DeleteRow, DeleteAnswers
  <2>5. CASE ManualCommits(p)
    <3>1. CASE Goes(p, "refused")
      BY <2>1, <3>1
    <3>2. CASE \E run : request' = [request EXCEPT ![p].pc = "committed", ![p].run = run]
      BY <1>t, <3>2 DEF UserRequests
    <3> QED
      BY <2>5, <3>1, <3>2 DEF ManualCommits
  <2>6. CASE DeleteAborts(p)
    <3>1. \E pc \in {"aborting", "emptying"} : \E ids :
            request' = [request EXCEPT ![p].pc = pc, ![p].awaited = ids]
      BY <2>6 DEF DeleteAborts
    <3> QED
      BY <1>t, <3>1 DEF UserRequests
  <2> QED
    BY <1>3, <2>2, <2>3, <2>4, <2>5, <2>6 DEF RequestStep
<1>4. CASE Crash
  <2>1. request'[q] = IF request[q].pc \in {"new", "ok", "refused", "failed"} THEN request[q]
                      ELSE [request[q] EXCEPT !.pc = "failed"]
    BY <1>4 DEF Crash
  <2> QED
    BY <1>t, <2>1 DEF UserRequests
<1>5. CASE ClaimStep \/ \E j \in Jobs : TickPicks(j)
  BY <1>1, <1>5 DEF ClaimStep, ClaimLoads, ClaimChecks, ClaimCommits, ClaimSpawns,
     ClaimFinalizes, TickPicks
<1>6. CASE \E r \in RunIds : RunStep(r)
  BY <1>1, <1>6 DEF RunStep, RunStarts, RunWorks, RunReturns, RunRecords, RunFinalizes, Moves
<1>7. CASE Stop \/ RecoverRuns \/ RecoverJobs
  BY <1>1, <1>7 DEF Stop, RecoverRuns, RecoverJobs
<1>8. CASE UNCHANGED vars
  BY <1>1, <1>8 DEF vars
<1> QED
  BY <1>1, <1>2, <1>3, <1>4, <1>5, <1>6, <1>7, <1>8 DEF Next

LEMMA LoadedNullStep == ASSUME IInv, [Next]_vars PROVE LoadedNull'
<1> SUFFICES ASSUME NEW q \in Requests, request'[q].pc = "loaded", request'[q].next = NoSlot
             PROVE  job'[request'[q].job].next = NoSlot
  BY DEF LoadedNull
<1>1. request[q].job \in Jobs
  BY DEF IInv, TypeOK, UserRequests
<1>2. request'[q].job = request[q].job
  BY LoadedStep
<1>3. job[request[q].job].next = NoSlot
  BY LoadedStep DEF IInv, LoadedNull
<1> QED
  BY <1>1, <1>2, <1>3, KeepsStep DEF JobsKept

LEMMA ClaimOldStep == ASSUME IInv, [Next]_vars PROVE ClaimOld'
<1>t. claim \in Claims
  BY DEF IInv, TypeOK
<1>0. \A j : NoClaim(j).pc = "idle"
  BY DEF NoClaim
<1>1. CASE UNCHANGED claim
  BY <1>1 DEF IInv, ClaimOld
<1>2. ASSUME NEW j \in Jobs, TickPicks(j) PROVE ClaimOld'
  BY <1>2 DEF TickPicks, NoClaim, ClaimOld
<1>3. CASE ClaimLoads
  <2>1. CASE claim' = NoClaim(claim.job)
    BY <1>0, <2>1 DEF ClaimOld
  <2>2. CASE claim' # NoClaim(claim.job)
    BY <1>t, <1>3, <2>2 DEF ClaimLoads, ClaimOld, Claims
  <2> QED
    BY <2>1, <2>2
<1>4. CASE ClaimChecks
  <2>1. \E b : claim' = [claim EXCEPT !.pc = "checked", !.overlap = b]
    BY <1>4 DEF ClaimChecks
  <2>2. claim'.old = claim.old /\ claim.pc = "loaded"
    BY <1>t, <1>4, <2>1 DEF Claims, ClaimChecks
  <2> QED
    BY <2>2 DEF IInv, ClaimOld
<1>5. CASE ClaimCommits
  <2>1. \/ claim' = NoClaim(claim.job)
        \/ \E pc \in {"skipped", "running"} : \E run :
             claim' = [claim EXCEPT !.pc = pc, !.run = run]
    BY <1>5 DEF ClaimCommits
  <2>2. claim'.pc \notin {"loaded", "checked"}
    BY <1>0, <1>t, <2>1 DEF Claims
  <2> QED
    BY <2>2 DEF ClaimOld
<1>6. CASE claim' = NoClaim(claim.job)
  BY <1>0, <1>6 DEF ClaimOld
<1>7. CASE ClaimSpawns \/ ClaimFinalizes \/ Stop \/ Crash
  BY <1>6, <1>7 DEF ClaimSpawns, ClaimFinalizes, Stop, Crash
<1>8. CASE \E r \in RunIds : RunStep(r)
  BY <1>1, <1>8 DEF RunStep, RunStarts, RunWorks, RunReturns, RunRecords, RunFinalizes, Moves
<1>9. CASE \E q \in Requests : RequestLoads(q) \/ RequestStep(q)
  BY <1>1, <1>9 DEF RequestLoads, RequestStep, PauseTask, ResumeTask, GuardedTransition,
     CancelTask, ManualCommits, ManualSpawns, DeleteUnschedules, DeleteAborts, DeleteRow,
     DeleteAnswers, OnlyRequests
<1>10. CASE RecoverRuns \/ RecoverJobs \/ UNCHANGED vars
  BY <1>1, <1>10 DEF RecoverRuns, RecoverJobs, vars
<1> QED
  BY <1>2, <1>3, <1>4, <1>5, <1>7, <1>8, <1>9, <1>10 DEF Next, ClaimStep

----------------------------------------------------------------------------
(* The invariant the theorems rest on. *)
THEOREM SpecIInv == Spec => []IInv
<1>1. ASSUME IInv, [Next]_vars PROVE IInv'
  <2>1. FinalNoSlot'
    BY <1>1, KeepsStep DEF JobsKept, FinalNoSlot
  <2> QED
    BY <1>1, <2>1, TypeStep, LoadedNullStep, ClaimOldStep DEF IInv
<1> QED
  BY InitIInv, <1>1, PTL DEF Spec

(* Every variable of the scheduler has its type: the tables hold rows of   *)
(* their schema and no copy, index or counter leaves its range.            *)
THEOREM TypeCorrect == Spec => []TypeOK
<1>1. IInv => TypeOK
  BY DEF IInv
<1> QED
  BY <1>1, SpecIInv, PTL

(* A completed or cancelled job never becomes live again, gets no slot and *)
(* starts no run, whichever request or claim works on an old copy of it.   *)
THEOREM OverStaysOver == Spec => OverIsOver
<1>1. ASSUME IInv, [Next]_vars
      PROVE  [\A j \in Jobs : job[j].status \in FinalStatuses =>
                /\ job'[j].status \notin LiveStatuses
                /\ job'[j].next = NoSlot
                /\ DOMAIN rows'[j] \subseteq DOMAIN rows[j]]_vars
  BY <1>1, KeepsStep DEF JobsKept, Stays
<1> QED
  BY <1>1, SpecIInv, PTL DEF Spec, OverIsOver

----------------------------------------------------------------------------
(* The rows of a job and its run_count. *)

(* The rows run_count counts. *)
CountedRows(j) == {i \in DOMAIN rows[j] : rows[j][i].status # "skipped"}

(* Nothing of job j that the count or the deletion looks at changes. *)
RowsKept(j) ==
  /\ DOMAIN rows'[j] = DOMAIN rows[j]
  /\ job'[j].count = job[j].count
  /\ job'[j].status = "deleted" <=> job[j].status = "deleted"
  /\ \A i \in DOMAIN rows[j] :
       rows'[j][i].status = "skipped" <=> rows[j][i].status = "skipped"

(* A row is added to a job that exists, and counted unless it is skipped. *)
RowAdded(j) ==
  /\ job[j].status # "deleted" /\ job'[j].status # "deleted"
  /\ \E row \in Rows :
       /\ rows'[j] = Append(rows[j], row)
       /\ job'[j].count = IF row.status = "skipped" THEN job[j].count ELSE job[j].count + 1

RowsGone(j) == job'[j].status = "deleted" /\ rows'[j] = <<>>

(* What any step does to the rows of a job. *)
RowsChange == \A j \in Jobs : RowsKept(j) \/ RowAdded(j) \/ RowsGone(j)

LEMMA SameRows == ASSUME UNCHANGED <<job, rows>> PROVE RowsChange
BY DEF RowsChange, RowsKept

LEMMA FinalizedRows ==
  ASSUME TypeOK, NEW k \in Jobs, NEW j \in Jobs
  PROVE  /\ Finalized(k)[j].count = job[j].count
         /\ Finalized(k)[j].status = "deleted" <=> job[j].status = "deleted"
BY DEF Finalized, TypeOK, JobRows, LiveStatuses, FinalStatuses

(* One job changes, and neither its count nor its rows. *)
LEMMA OneJobChanges ==
  ASSUME TypeOK, NEW k \in Jobs, NEW new, job' = [job EXCEPT ![k] = new], UNCHANGED rows,
         new.count = job[k].count, new.status # "deleted", job[k].status # "deleted"
  PROVE  RowsChange
<1>1. \A j \in Jobs : job'[j] = IF j = k THEN new ELSE job[j]
  BY DEF TypeOK
<1> QED
  BY <1>1 DEF RowsChange, RowsKept

LEMMA ClaimRows == ASSUME IInv, ClaimCommits PROVE RowsChange
<1> DEFINE k == claim.job
           status == IF claim.overlap THEN "skipped" ELSE "running"
           row == NewRow(status, "schedule", claim.old)
           count == IF claim.overlap THEN job[k].count ELSE job[k].count + 1
           new == [job[k] EXCEPT !.next = ClaimNext, !.count = count]
<1>1. CASE UNCHANGED <<job, rows>>
  BY <1>1, SameRows
<1>2. CASE ~UNCHANGED <<job, rows>>
  <2>1. /\ ~ClaimLost(k)
        /\ job' = [job EXCEPT ![k] = new]
        /\ rows' = [rows EXCEPT ![k] = Append(@, row)]
    BY <1>2 DEF ClaimCommits
  <2>2. k \in Jobs /\ job[k] \in JobRows /\ claim.old \in 0..MaxSlot
    BY DEF IInv, TypeOK, Claims
  <2>3. row \in Rows /\ row.status = status
    BY <2>2 DEF NewRow, Rows
  <2>4. new.count = count /\ new.status = "active" /\ job[k].status = "active"
    BY <2>1, <2>2 DEF ClaimLost, JobRows
  <2>5. /\ job'[k] = new /\ rows'[k] = Append(rows[k], row)
        /\ \A j \in Jobs \ {k} : job'[j] = job[j] /\ rows'[j] = rows[j]
    BY <2>1, <2>2 DEF IInv, TypeOK
  <2> HIDE DEF new, row
  <2>6. RowAdded(k)
    BY <2>3, <2>4, <2>5 DEF RowAdded
  <2> QED
    BY <2>5, <2>6 DEF RowsChange, RowsKept
<1> QED
  BY <1>1, <1>2

LEMMA RunRows == ASSUME IInv, NEW r \in RunIds, RunStep(r) PROVE RowsChange
<1>1. CASE RunRecords(r)
  <2>1. CASE UNCHANGED rows
    BY <1>1, <2>1, SameRows DEF RunRecords
  <2>2. CASE ~UNCHANGED rows
    <3> DEFINE k == r[1]
               new == IF phase[r] = "success" THEN "success" ELSE "failed"
    <3>1. /\ k \in Jobs /\ rows[k] \in Seq(Rows) /\ rows \in [Jobs -> Seq(Rows)]
      BY DEF RunIds, IInv, TypeOK
    <3>2. /\ rows' = [rows EXCEPT ![k][r[2]].status = new]
          /\ r[2] \in DOMAIN rows[k] /\ rows[k][r[2]].status = "running" /\ UNCHANGED job
      BY <1>1, <2>2 DEF RunRecords, RowThere
    <3>3. r[2] \in 1..Len(rows[k]) /\ DOMAIN rows[k] = 1..Len(rows[k])
      BY <3>1, <3>2, LenProperties
    <3>4. rows[k][r[2]] \in Rows
      BY <3>1, <3>3, ElementOfSeq
    <3>5. /\ rows'[k] = [rows[k] EXCEPT ![r[2]] = [rows[k][r[2]] EXCEPT !.status = new]]
          /\ \A j \in Jobs \ {k} : rows'[j] = rows[j]
      BY <3>1, <3>2
    <3>6. DOMAIN rows'[k] = DOMAIN rows[k]
      BY <3>5
    <3>7. \A i \in DOMAIN rows[k] :
             rows'[k][i].status = IF i = r[2] THEN new ELSE rows[k][i].status
      BY <3>4, <3>5 DEF Rows
    <3>8. RowsKept(k)
      BY <3>2, <3>6, <3>7 DEF RowsKept
    <3> QED
      BY <3>2, <3>5, <3>8 DEF RowsChange, RowsKept
  <2> QED
    BY <2>1, <2>2
<1>2. CASE RunFinalizes(r)
  <2>1. r[1] \in Jobs /\ job' = Finalized(r[1]) /\ UNCHANGED rows
    BY <1>2 DEF RunIds, RunFinalizes
  <2> QED
    BY <2>1, FinalizedRows DEF RowsChange, RowsKept, IInv
<1>3. CASE RunStarts(r) \/ RunWorks(r) \/ RunReturns(r)
  BY <1>3, SameRows DEF RunStarts, RunWorks, RunReturns
<1> QED
  BY <1>1, <1>2, <1>3 DEF RunStep

LEMMA UserRows == ASSUME IInv, NEW q \in Requests, RequestStep(q) PROVE RowsChange
<1> DEFINE k == request[q].job
<1>k. k \in Jobs /\ job[k] \in JobRows
  BY DEF IInv, TypeOK, UserRequests
<1>i. CASE UNCHANGED <<job, rows>>
  BY <1>i, SameRows
<1>1. CASE PauseTask(q) /\ job' # job
  <2> DEFINE new == [job[k] EXCEPT !.status = "paused"]
  <2>1. job' = [job EXCEPT ![k] = new] /\ UNCHANGED rows /\ job[k].status = "active"
    BY <1>1 DEF PauseTask, GuardedTransition
  <2>2. new.status = "paused" /\ new.count = job[k].count
    BY <1>k DEF JobRows
  <2> HIDE DEF new
  <2> QED
    BY <1>k, <2>1, <2>2, OneJobChanges DEF IInv
<1>2. CASE ResumeTask(q) /\ job' # job
  <2> DEFINE new == [job[k] EXCEPT !.status = "active", !.next = NextOnResume(k, request[q].next)]
  <2>1. job' = [job EXCEPT ![k] = new] /\ UNCHANGED rows /\ job[k].status = "paused"
    BY <1>2 DEF ResumeTask, GuardedTransition
  <2>2. new.status = "active" /\ new.count = job[k].count
    BY <1>k DEF JobRows
  <2> HIDE DEF new
  <2> QED
    BY <1>k, <2>1, <2>2, OneJobChanges DEF IInv
<1>3. CASE CancelTask(q) /\ job' # job
  <2> DEFINE next == IF request[q].next = NoSlot THEN job[k].next ELSE NoSlot
             new == [job[k] EXCEPT !.status = "cancelled", !.next = next]
  <2>1. job' = [job EXCEPT ![k] = new] /\ UNCHANGED rows /\ job[k].status # "deleted"
    BY <1>3 DEF CancelTask, Exists
  <2>2. new.status = "cancelled" /\ new.count = job[k].count
    BY <1>k DEF JobRows
  <2> HIDE DEF new
  <2> QED
    BY <1>k, <2>1, <2>2, OneJobChanges DEF IInv
<1>4. CASE ManualCommits(q) /\ ~UNCHANGED <<job, rows>>
  <2> DEFINE exhausts == k \in OnceJobs \/ (MaxRuns # 0 /\ job[k].count + 1 >= MaxRuns)
             next == IF exhausts THEN NoSlot ELSE job[k].next
             row == NewRow("running", "manual", NoSlot)
             new == [job[k] EXCEPT !.count = job[k].count + 1, !.next = next]
  <2>1. /\ job' = [job EXCEPT ![k].count = @ + 1, ![k].next = IF exhausts THEN NoSlot ELSE @]
        /\ rows' = [rows EXCEPT ![k] = Append(@, row)]
        /\ job[k].status \in LiveStatuses
    BY <1>4 DEF ManualCommits
  <2> HIDE DEF exhausts
  <2>2. job' = [job EXCEPT ![k] = new]
    BY <2>1
  <2>3. new.status = job[k].status /\ new.count = job[k].count + 1
    BY <1>k DEF JobRows
  <2>4. row \in Rows /\ row.status = "running"
    BY SchedulerAssumption DEF NewRow, Rows, NoSlot
  <2>5. /\ job'[k] = new /\ rows'[k] = Append(rows[k], row)
        /\ \A j \in Jobs \ {k} : job'[j] = job[j] /\ rows'[j] = rows[j]
    BY <1>k, <2>1, <2>2 DEF IInv, TypeOK
  <2> HIDE DEF new, row
  <2>6. RowAdded(k)
    BY <2>1, <2>3, <2>4, <2>5 DEF RowAdded, LiveStatuses
  <2> QED
    BY <2>5, <2>6 DEF RowsChange, RowsKept
<1>5. CASE DeleteUnschedules(q) /\ job' # job
  <2> DEFINE new == [job[k] EXCEPT !.status = "cancelled", !.next = NoSlot]
  <2>1. job' = [job EXCEPT ![k] = new] /\ UNCHANGED rows /\ job[k].status # "deleted"
    BY <1>5 DEF DeleteUnschedules, Exists
  <2>2. new.status = "cancelled" /\ new.count = job[k].count
    BY <1>k DEF JobRows
  <2> HIDE DEF new
  <2> QED
    BY <1>k, <2>1, <2>2, OneJobChanges DEF IInv
<1>6. CASE DeleteRow(q)
  <2>1. /\ job' = [job EXCEPT ![k].status = "deleted"]
        /\ rows' = [rows EXCEPT ![k] = <<>>]
    BY <1>6 DEF DeleteRow
  <2>2. /\ job'[k].status = "deleted" /\ rows'[k] = <<>>
        /\ \A j \in Jobs \ {k} : job'[j] = job[j] /\ rows'[j] = rows[j]
    BY <1>k, <2>1 DEF IInv, TypeOK, JobRows
  <2> QED
    BY <2>2 DEF RowsChange, RowsKept, RowsGone
<1>7. CASE ManualSpawns(q) \/ DeleteAborts(q) \/ DeleteAnswers(q)
  BY <1>7, SameRows DEF ManualSpawns, DeleteAborts, DeleteAnswers
<1> QED
  BY <1>i, <1>1, <1>2, <1>3, <1>4, <1>5, <1>6, <1>7 DEF RequestStep, PauseTask, ResumeTask,
     GuardedTransition, CancelTask, DeleteUnschedules

LEMMA ProcessRows ==
  ASSUME IInv, Stop \/ Crash \/ RecoverRuns \/ RecoverJobs
  PROVE  RowsChange
<1>1. CASE Stop \/ Crash
  BY <1>1, SameRows DEF Stop, Crash
<1>2. CASE RecoverRuns
  <2> SUFFICES ASSUME NEW j \in Jobs PROVE RowsKept(j)
    BY DEF RowsChange
  <2>1. \A i \in DOMAIN rows[j] : rows[j][i] \in Rows
    <3>1. rows[j] \in Seq(Rows)
      BY DEF IInv, TypeOK
    <3> QED
      BY <3>1, LenProperties, ElementOfSeq
  <2>2. /\ DOMAIN rows'[j] = DOMAIN rows[j] /\ UNCHANGED job
        /\ \A i \in DOMAIN rows[j] :
             rows'[j][i] = IF rows[j][i].status = "running"
                           THEN [rows[j][i] EXCEPT !.status = "failed"] ELSE rows[j][i]
    BY <1>2 DEF RecoverRuns
  <2>3. \A i \in DOMAIN rows[j] :
          rows'[j][i].status = IF rows[j][i].status = "running" THEN "failed"
                               ELSE rows[j][i].status
    BY <2>1, <2>2 DEF Rows
  <2> QED
    BY <2>2, <2>3 DEF RowsKept
<1>3. CASE RecoverJobs
  <2>1. \A j \in Jobs : job'[j] = Finalized(j)[j]
    BY <1>3 DEF RecoverJobs
  <2> QED
    BY <1>3, <2>1, FinalizedRows DEF RecoverJobs, RowsChange, RowsKept, IInv
<1> QED
  BY <1>1, <1>2, <1>3

LEMMA RowsStep == ASSUME IInv, [Next]_vars PROVE RowsChange
<1>1. CASE ClaimStep
  <2>1. CASE ClaimLoads \/ ClaimChecks \/ ClaimSpawns
    BY <2>1, SameRows DEF ClaimLoads, ClaimChecks, ClaimSpawns
  <2>2. CASE ClaimFinalizes
    <3>1. claim.job \in Jobs /\ job' = Finalized(claim.job) /\ UNCHANGED rows
      BY <2>2 DEF IInv, TypeOK, Claims, ClaimFinalizes
    <3> QED
      BY <3>1, FinalizedRows DEF RowsChange, RowsKept, IInv
  <2> QED
    BY <1>1, <2>1, <2>2, ClaimRows DEF ClaimStep
<1>2. CASE \E j \in Jobs : TickPicks(j)
  BY <1>2, SameRows DEF TickPicks
<1>3. CASE \E q \in Requests : RequestLoads(q)
  BY <1>3, SameRows DEF RequestLoads
<1>4. CASE UNCHANGED vars
  BY <1>4, SameRows DEF vars
<1> QED
  BY <1>1, <1>2, <1>3, <1>4, RunRows, UserRows, ProcessRows DEF Next

LEMMA CountStep == ASSUME IInv, CountMatchesRuns, [Next]_vars PROVE CountMatchesRuns'
<1> SUFFICES ASSUME NEW j \in Jobs, job'[j].status # "deleted"
             PROVE  job'[j].count
                      = Cardinality({i \in DOMAIN rows'[j] : rows'[j][i].status # "skipped"})
  BY DEF CountMatchesRuns, Exists
<1> DEFINE counted == CountedRows(j)
           after == {i \in DOMAIN rows'[j] : rows'[j][i].status # "skipped"}
<1>1. RowsKept(j) \/ RowAdded(j)
  BY RowsStep DEF RowsChange, RowsGone
<1>2. job[j].count = Cardinality(counted)
  BY <1>1 DEF CountMatchesRuns, Exists, CountedRows, RowsKept, RowAdded
<1>3. CASE RowsKept(j)
  <2>1. after = counted
    BY <1>3 DEF RowsKept, CountedRows
  <2> QED
    BY <1>2, <1>3, <2>1 DEF RowsKept
<1>4. CASE RowAdded(j)
  <2>1. PICK row \in Rows :
          /\ rows'[j] = Append(rows[j], row)
          /\ job'[j].count = IF row.status = "skipped" THEN job[j].count ELSE job[j].count + 1
    BY <1>4 DEF RowAdded
  <2> DEFINE n == Len(rows[j])
  <2>2. rows[j] \in Seq(Rows) /\ n \in Nat /\ DOMAIN rows[j] = 1..n
    BY LenProperties DEF IInv, TypeOK
  <2>3. /\ DOMAIN rows'[j] = 1..n + 1
        /\ \A i \in 1..n : rows'[j][i] = rows[j][i]
        /\ rows'[j][n + 1] = row
    BY <2>1, <2>2, AppendProperties, LenProperties
  <2>4. IsFiniteSet(counted) /\ n + 1 \notin counted
    <3>1. IsFiniteSet(1..n) /\ counted \in SUBSET (1..n)
      BY <2>2, FS_Interval DEF CountedRows
    <3> QED
      BY <2>2, <3>1, FS_Subset
  <2>5. CASE row.status = "skipped"
    <3>1. after = counted
      BY <2>2, <2>3, <2>5 DEF CountedRows
    <3> QED
      BY <1>2, <2>1, <2>5, <3>1
  <2>6. CASE row.status # "skipped"
    <3>1. after = counted \cup {n + 1}
      BY <2>2, <2>3, <2>6 DEF CountedRows
    <3>2. Cardinality(counted \cup {n + 1}) = Cardinality(counted) + 1
      BY <2>4, FS_AddElement
    <3> QED
      BY <1>2, <2>1, <2>6, <3>1, <3>2
  <2> QED
    BY <2>5, <2>6
<1> QED
  BY <1>1, <1>3, <1>4

(* run_count counts the runs of the job that were not skipped, whatever    *)
(* claim, user, crash or deletion comes between.                           *)
THEOREM CountIsRight == Spec => []CountMatchesRuns
<1>1. ASSUME Init PROVE CountMatchesRuns
  <2>1. \A j \in Jobs : job[j].count = 0 /\ rows[j] = <<>>
    BY <1>1 DEF Init
  <2>2. \A j \in Jobs : {i \in DOMAIN rows[j] : rows[j][i].status # "skipped"} = {}
    BY <2>1
  <2> QED
    BY <2>1, <2>2, FS_EmptySet DEF CountMatchesRuns
<1> QED
  BY <1>1, SpecIInv, CountStep, PTL DEF Spec

----------------------------------------------------------------------------
(* The deletion. *)

Answered(q) == request[q].op = "delete" /\ request[q].pc = "ok"

(* A job without its row has no runs, and stays so. *)
GoneIsEmpty == \A j \in Jobs : job[j].status = "deleted" => rows[j] = <<>>

(* After the DELETE the job is gone, ... *)
DeletedIsGone ==
  \A q \in Requests : request[q].pc \in {"deleted", "aborting"} \/ Answered(q)
                        => job[request[q].job].status = "deleted"

(* ... and after the second abort its runs neither wait nor work. *)
AbortedQuiet ==
  \A q \in Requests : request[q].pc = "aborting" \/ Answered(q)
     => \A r \in RunIds : r[1] = request[q].job => phase[r] \notin {"waiting", "working"}

CommittedRuns == \A q \in Requests : request[q].pc = "committed" => request[q].op = "run"

DeleteInv == GoneIsEmpty /\ DeletedIsGone /\ AbortedQuiet /\ CommittedRuns

LEMMA GoneStep ==
  ASSUME IInv, GoneIsEmpty, [Next]_vars
  PROVE  /\ GoneIsEmpty'
         /\ \A j \in Jobs : job[j].status = "deleted" => job'[j].status = "deleted"
<1> SUFFICES ASSUME NEW j \in Jobs
             PROVE  /\ job'[j].status = "deleted" => rows'[j] = <<>>
                    /\ job[j].status = "deleted" => job'[j].status = "deleted"
  BY DEF GoneIsEmpty
<1>1. CASE RowsKept(j)
  <2>1. rows'[j] \in Seq(Rows) /\ rows[j] \in Seq(Rows)
    BY TypeStep DEF IInv, TypeOK
  <2>2. job[j].status = "deleted" => DOMAIN rows'[j] = {}
    BY <1>1 DEF RowsKept, GoneIsEmpty
  <2>3. Len(rows'[j]) \in Nat /\ DOMAIN rows'[j] = 1..Len(rows'[j])
    BY <2>1, LenProperties
  <2>4. Len(rows'[j]) # 0 => 1 \in DOMAIN rows'[j]
    BY <2>3
  <2>5. job[j].status = "deleted" => rows'[j] = <<>>
    BY <2>1, <2>2, <2>4, EmptySeq
  <2> QED
    BY <1>1, <2>5 DEF RowsKept
<1>2. CASE RowAdded(j)
  BY <1>2 DEF RowAdded
<1>3. CASE RowsGone(j)
  BY <1>3 DEF RowsGone
<1> QED
  BY <1>1, <1>2, <1>3, RowsStep DEF RowsChange

(* How a request moves: what it is about never changes, and these are the  *)
(* ways from one state of it to another.                                   *)
RequestMoves(q) ==
  LET before == request[q]
      after == request'[q]
      r == <<before.job, before.run>>
  IN /\ after.job = before.job /\ after.op = before.op
     /\ \/ after = before
        \/ before.pc = "new" /\ after.pc \in {"loaded", "refused"}
        \/ before.pc = "loaded" /\ after.pc \in {"refused", "failed", "unscheduled"}
        \/ before.pc = "loaded" /\ after.pc = "ok" /\ before.op \in {"pause", "resume", "cancel"}
        \/ before.pc = "loaded" /\ after.pc = "committed" /\ before.op = "run"
        \/ /\ before.pc = "committed" /\ after.pc = "ok"
           /\ r \in RunIds => phase'[r] = "spawned"
        \/ before.pc = "unscheduled" /\ after.pc = "emptying"
        \/ /\ before.pc = "emptying" /\ after.pc = "deleted"
           /\ job'[before.job].status = "deleted" /\ rows'[before.job] = <<>>
        \/ /\ before.pc = "deleted" /\ after.pc = "aborting"
           /\ \A s \in RunIds : s[1] = before.job => phase'[s] \notin {"waiting", "working"}
        \/ before.pc = "aborting" /\ after.pc = "ok"
        \/ after.pc = "failed" /\ agent' = "down"

LEMMA CancelledQuiet ==
  ASSUME phase \in [RunIds -> Phases], NEW ids, NEW r \in RunIds,
         phase[r] \in {"waiting", "working"} => r \in ids
  PROVE  Cancelled(ids)[r] \notin {"waiting", "working"}
BY DEF Cancelled, AfterCancel, Phases

LEMMA RequestMove ==
  ASSUME IInv, [Next]_vars, NEW q \in Requests
  PROVE  RequestMoves(q)
<1>t. request \in [Requests -> UserRequests] /\ request[q] \in UserRequests
  BY DEF IInv, TypeOK
<1>1. CASE UNCHANGED request
  BY <1>1 DEF RequestMoves
<1>2. ASSUME NEW p \in Requests, RequestLoads(p) PROVE RequestMoves(q)
  <2>1. PICK pc \in {"loaded", "refused"} :
          request' = [request EXCEPT ![p].pc = pc, ![p].next = job[request[p].job].next]
    BY <1>2 DEF RequestLoads
  <2>2. request[p].pc = "new"
    BY <1>2 DEF RequestLoads
  <2> QED
    BY <1>t, <2>1, <2>2 DEF RequestMoves, UserRequests
<1>3. ASSUME NEW p \in Requests, RequestStep(p), ~UNCHANGED request PROVE RequestMoves(q)
  <2>0. ASSUME NEW pc, Goes(p, pc)
        PROVE  /\ q # p => request'[q] = request[q]
               /\ request'[q].job = request[q].job /\ request'[q].op = request[q].op
               /\ q = p => request'[q].pc = pc
    BY <1>t, <2>0 DEF Goes, UserRequests
  <2>1. CASE PauseTask(p) \/ ResumeTask(p)
    <3>1. /\ request[p].pc = "loaded" /\ request[p].op \in {"pause", "resume"}
          /\ Goes(p, "ok") \/ Goes(p, "refused")
      BY <2>1 DEF PauseTask, ResumeTask, GuardedTransition, Loaded
    <3> QED
      BY <2>0, <3>1 DEF RequestMoves
  <2>2. CASE CancelTask(p)
    <3>1. /\ request[p].pc = "loaded" /\ request[p].op = "cancel"
          /\ Goes(p, "ok") \/ Goes(p, "failed")
      BY <2>2 DEF CancelTask, Loaded
    <3> QED
      BY <2>0, <3>1 DEF RequestMoves
  <2>3. CASE ManualCommits(p)
    <3>1. request[p].pc = "loaded" /\ request[p].op = "run"
      BY <2>3 DEF ManualCommits, Loaded
    <3>2. CASE Goes(p, "refused")
      BY <2>0, <3>1, <3>2 DEF RequestMoves
    <3>3. CASE \E run : request' = [request EXCEPT ![p].pc = "committed", ![p].run = run]
      BY <1>t, <3>1, <3>3 DEF RequestMoves, UserRequests
    <3> QED
      BY <2>3, <3>2, <3>3 DEF ManualCommits
  <2>4. CASE ManualSpawns(p)
    <3> DEFINE r == <<request[p].job, request[p].run>>
    <3>1. /\ request[p].pc = "committed" /\ Goes(p, "ok")
          /\ phase' = [phase EXCEPT ![r] = "spawned"]
      BY <2>4 DEF ManualSpawns
    <3>2. r \in RunIds => phase'[r] = "spawned"
      BY <3>1 DEF IInv, TypeOK
    <3> QED
      BY <2>0, <3>1, <3>2 DEF RequestMoves
  <2>5. CASE DeleteUnschedules(p)
    <3>1. request[p].pc = "loaded" /\ Goes(p, "unscheduled")
      BY <2>5 DEF DeleteUnschedules, Loaded
    <3> QED
      BY <2>0, <3>1 DEF RequestMoves
  <2>6. CASE DeleteAborts(p)
    <3> DEFINE ids == {r \in RunIds : r[1] = request[p].job /\ InFlight(r)}
               pc == IF request[p].pc = "deleted" THEN "aborting" ELSE "emptying"
    <3>1. /\ request[p].pc \in {"unscheduled", "deleted"} /\ phase' = Cancelled(ids)
          /\ request' = [request EXCEPT ![p].pc = pc, ![p].awaited = ids]
      BY <2>6 DEF DeleteAborts
    <3>2. \A r \in RunIds : r[1] = request[p].job => phase'[r] \notin {"waiting", "working"}
      BY <3>1, CancelledQuiet DEF IInv, TypeOK, InFlight
    <3> HIDE DEF ids
    <3>3. /\ q # p => request'[q] = request[q]
          /\ request'[q].job = request[q].job /\ request'[q].op = request[q].op
          /\ q = p => request'[q].pc = pc
      BY <1>t, <3>1 DEF UserRequests
    <3> QED
      BY <3>1, <3>2, <3>3 DEF RequestMoves
  <2>7. CASE DeleteRow(p)
    <3>1. /\ request[p].pc = "emptying" /\ Goes(p, "deleted")
          /\ job' = [job EXCEPT ![request[p].job].status = "deleted"]
          /\ rows' = [rows EXCEPT ![request[p].job] = <<>>]
      BY <2>7 DEF DeleteRow
    <3>2. job'[request[p].job].status = "deleted" /\ rows'[request[p].job] = <<>>
      BY <3>1 DEF IInv, TypeOK, UserRequests, JobRows
    <3> QED
      BY <2>0, <3>1, <3>2 DEF RequestMoves
  <2>8. CASE DeleteAnswers(p)
    <3>1. request[p].pc = "aborting" /\ Goes(p, "ok")
      BY <2>8 DEF DeleteAnswers
    <3> QED
      BY <2>0, <3>1 DEF RequestMoves
  <2> QED
    BY <1>3, <2>1, <2>2, <2>3, <2>4, <2>5, <2>6, <2>7, <2>8 DEF RequestStep
<1>4. CASE Crash
  <2>1. /\ agent' = "down"
        /\ request'[q] = IF request[q].pc \in {"new", "ok", "refused", "failed"} THEN request[q]
                         ELSE [request[q] EXCEPT !.pc = "failed"]
    BY <1>4 DEF Crash
  <2> QED
    BY <1>t, <2>1 DEF RequestMoves, UserRequests
<1>5. CASE ClaimStep \/ \E j \in Jobs : TickPicks(j)
  BY <1>1, <1>5 DEF ClaimStep, ClaimLoads, ClaimChecks, ClaimCommits, ClaimSpawns,
     ClaimFinalizes, TickPicks
<1>6. CASE \E r \in RunIds : RunStep(r)
  BY <1>1, <1>6 DEF RunStep, RunStarts, RunWorks, RunReturns, RunRecords, RunFinalizes, Moves
<1>7. CASE Stop \/ RecoverRuns \/ RecoverJobs \/ UNCHANGED vars
  BY <1>1, <1>7 DEF Stop, RecoverRuns, RecoverJobs, vars
<1> QED
  BY <1>1, <1>2, <1>3, <1>4, <1>5, <1>6, <1>7 DEF Next

(* A run waits or works only if it did, or if its row is there. *)
LEMMA RunAwakes ==
  ASSUME IInv, [Next]_vars, NEW r \in RunIds, phase'[r] \in {"waiting", "working"}
  PROVE  phase[r] \in {"waiting", "working"} \/ RowThere(r)
<1>t. phase \in [RunIds -> Phases]
  BY DEF IInv, TypeOK
<1>1. CASE UNCHANGED phase
  BY <1>1
<1>2. ASSUME NEW s \in RunIds, RunStep(s)
      PROVE  phase[r] \in {"waiting", "working"} \/ RowThere(r)
  <2>1. CASE r # s
    BY <1>t, <1>2, <2>1 DEF RunStep, RunStarts, RunWorks, RunReturns, RunRecords,
       RunFinalizes, Moves
  <2>2. CASE r = s
    BY <1>t, <1>2, <2>2 DEF RunStep, RunStarts, RunWorks, RunReturns, RunRecords,
       RunFinalizes, Moves
  <2> QED
    BY <2>1, <2>2
<1>3. ASSUME NEW ids, phase' = Cancelled(ids) PROVE phase[r] \in {"waiting", "working"}
  BY <1>t, <1>3 DEF Cancelled, AfterCancel, Phases
<1>4. ASSUME NEW s, phase' = [phase EXCEPT ![s] = "spawned"]
      PROVE  phase[r] \in {"waiting", "working"}
  BY <1>t, <1>4
<1>5. CASE ClaimStep \/ \E j \in Jobs : TickPicks(j)
  BY <1>1, <1>4, <1>5 DEF ClaimStep, ClaimLoads, ClaimChecks, ClaimCommits, ClaimSpawns,
     ClaimFinalizes, TickPicks
<1>6. CASE \E q \in Requests : RequestLoads(q) \/ RequestStep(q)
  BY <1>1, <1>3, <1>4, <1>6 DEF RequestLoads, RequestStep, PauseTask, ResumeTask,
     GuardedTransition, CancelTask, ManualCommits, ManualSpawns, DeleteUnschedules,
     DeleteAborts, DeleteRow, DeleteAnswers
<1>7. CASE Stop \/ RecoverRuns \/ RecoverJobs \/ UNCHANGED vars
  BY <1>1, <1>3, <1>7 DEF Stop, RecoverRuns, RecoverJobs, vars
<1>8. CASE Crash
  BY <1>8 DEF Crash
<1> QED
  BY <1>2, <1>5, <1>6, <1>7, <1>8 DEF Next

LEMMA DeleteStep == ASSUME IInv, DeleteInv, [Next]_vars PROVE DeleteInv'
<1>1. GoneIsEmpty' /\ \A j \in Jobs : job[j].status = "deleted" => job'[j].status = "deleted"
  BY GoneStep DEF DeleteInv
<1>2. ASSUME NEW q \in Requests PROVE RequestMoves(q) /\ request[q].job \in Jobs
  BY RequestMove DEF IInv, TypeOK, UserRequests
<1>3. CommittedRuns'
  BY <1>2 DEF RequestMoves, CommittedRuns, DeleteInv
<1>4. DeletedIsGone'
  <2> SUFFICES ASSUME NEW q \in Requests,
                      \/ request'[q].pc \in {"deleted", "aborting"}
                      \/ request'[q].op = "delete" /\ request'[q].pc = "ok"
               PROVE  job'[request'[q].job].status = "deleted"
    BY DEF DeletedIsGone, Answered
  <2> QED
    BY <1>1, <1>2 DEF RequestMoves, DeleteInv, DeletedIsGone, CommittedRuns, Answered
<1>5. AbortedQuiet'
  <2> SUFFICES ASSUME NEW q \in Requests, NEW r \in RunIds, r[1] = request'[q].job,
                      \/ request'[q].pc = "aborting"
                      \/ request'[q].op = "delete" /\ request'[q].pc = "ok",
                      phase'[r] \in {"waiting", "working"}
               PROVE  FALSE
    BY DEF AbortedQuiet, Answered
  <2>1. RequestMoves(q)
    BY <1>2
  <2>2. request[q].pc = "aborting" \/ Answered(q)
    BY <2>1 DEF RequestMoves, DeleteInv, CommittedRuns, Answered
  <2>3. r[1] = request[q].job /\ job[r[1]].status = "deleted"
    BY <2>1, <2>2 DEF RequestMoves, DeleteInv, DeletedIsGone
  <2>4. ~RowThere(r) /\ phase[r] \notin {"waiting", "working"}
    BY <1>2, <2>2, <2>3 DEF DeleteInv, AbortedQuiet, GoneIsEmpty, RowThere
  <2> QED
    BY <2>4, RunAwakes
<1> QED
  BY <1>1, <1>3, <1>4, <1>5 DEF DeleteInv

(* A deleted job has no rows, and from the second abort of its deletion on *)
(* no run of it waits or works.                                            *)
THEOREM DeletionInv == Spec => []DeleteInv
<1>1. ASSUME Init PROVE DeleteInv
  <2>1. \A q \in Requests : request[q].pc = "new"
    BY <1>1 DEF Init, NewRequest
  <2>2. \A j \in Jobs : job[j].status = "active"
    BY <1>1 DEF Init
  <2> QED
    BY <2>1, <2>2 DEF DeleteInv, GoneIsEmpty, DeletedIsGone, AbortedQuiet, CommittedRuns,
       Answered
<1> QED
  BY <1>1, SpecIInv, DeleteStep, PTL DEF Spec

(* Once a deletion is answered no run of the job works or will work: none  *)
(* that was waiting, and none committed while the job was being deleted.   *)
THEOREM DeletionIsQuiet == Spec => []DeletedIsQuiet
<1>1. DeleteInv => DeletedIsQuiet
  BY DEF DeleteInv, AbortedQuiet, Answered, DeletedIsQuiet
<1> QED
  BY <1>1, DeletionInv, PTL

----------------------------------------------------------------------------
(* Runs are tended. *)

(* After the start's first step no row is running until the Agent serves. *)
NoneYet == agent = "recovering" => \A j \in Jobs : ~HasRunning(j)

Running(j, i) == i \in DOMAIN rows[j] /\ rows[j][i].status = "running"
ClaimHolds(j, i) == claim.pc = "running" /\ claim.job = j /\ claim.run = i
UserHolds(j, i) ==
  \E q \in Requests : request[q].pc = "committed" /\ request[q].job = j /\ request[q].run = i
TaskHolds(j, i) == phase[<<j, i>>] \in {"spawned", "waiting", "working", "success", "failed",
                                        "interrupted"}
DeletionHolds(j) == \E q \in Requests : request[q].job = j /\ request[q].pc = "emptying"
Tended(j, i) == ClaimHolds(j, i) \/ UserHolds(j, i) \/ TaskHolds(j, i) \/ DeletionHolds(j)

LEMMA RunningRow ==
  ASSUME TypeOK, NEW j \in Jobs, NEW i, Running(j, i)
  PROVE  i \in 1..MaxRows /\ <<j, i>> \in RunIds /\ rows[j][i] \in Rows
<1>1. rows[j] \in Seq(Rows) /\ Len(rows[j]) <= MaxRows /\ MaxRows \in Nat
  BY SchedulerAssumption DEF TypeOK
<1>2. Len(rows[j]) \in Nat /\ i \in 1..Len(rows[j])
  BY <1>1, LenProperties DEF Running
<1>3. i \in 1..MaxRows
  BY <1>1, <1>2
<1> QED
  BY <1>1, <1>2, <1>3, ElementOfSeq DEF RunIds

LEMMA ClaimHeld ==
  ASSUME IInv, [Next]_vars, agent' = "up", NEW j \in Jobs, NEW i, <<j, i>> \in RunIds,
         ClaimHolds(j, i)
  PROVE  claim' = claim \/ phase'[<<j, i>>] = "spawned"
<1>1. CASE ClaimStep \/ \E k \in Jobs : TickPicks(k)
  BY <1>1 DEF ClaimHolds, ClaimStep, ClaimLoads, ClaimChecks, ClaimCommits, ClaimSpawns,
     ClaimFinalizes, TickPicks, IInv, TypeOK
<1>2. CASE \E r \in RunIds : RunStep(r)
  BY <1>2 DEF RunStep, RunStarts, RunWorks, RunReturns, RunRecords, RunFinalizes, Moves
<1>3. CASE \E q \in Requests : RequestLoads(q) \/ RequestStep(q)
  BY <1>3 DEF RequestLoads, RequestStep, PauseTask, ResumeTask, GuardedTransition,
     CancelTask, ManualCommits, ManualSpawns, DeleteUnschedules, DeleteAborts, DeleteRow,
     DeleteAnswers, OnlyRequests
<1>4. CASE Stop \/ Crash
  BY <1>4 DEF Stop, Crash
<1>5. CASE RecoverRuns \/ RecoverJobs \/ UNCHANGED vars
  BY <1>5 DEF RecoverRuns, RecoverJobs, vars
<1> QED
  BY <1>1, <1>2, <1>3, <1>4, <1>5 DEF Next

LEMMA UserHeld ==
  ASSUME IInv, [Next]_vars, agent' = "up", NEW j \in Jobs, NEW i, <<j, i>> \in RunIds,
         UserHolds(j, i)
  PROVE  UserHolds(j, i)' \/ phase'[<<j, i>>] = "spawned"
<1>1. PICK q \in Requests : request[q].pc = "committed" /\ request[q].job = j
                            /\ request[q].run = i
  BY DEF UserHolds
<1>2. RequestMoves(q)
  BY RequestMove
<1> QED
  BY <1>1, <1>2 DEF RequestMoves, UserHolds

LEMMA DeletionHeld ==
  ASSUME IInv, [Next]_vars, agent' = "up", NEW j \in Jobs, DeletionHolds(j)
  PROVE  DeletionHolds(j)' \/ rows'[j] = <<>>
<1>1. PICK q \in Requests : request[q].job = j /\ request[q].pc = "emptying"
  BY DEF DeletionHolds
<1>2. RequestMoves(q)
  BY RequestMove
<1> QED
  BY <1>1, <1>2 DEF RequestMoves, DeletionHolds

(* The task of a running row goes on until it has closed the row; it is    *)
(* cancelled by the deletion of its job or by the end of the Agent.        *)
LEMMA TaskHeld ==
  ASSUME IInv, DeleteInv, [Next]_vars, agent' = "up", NEW j \in Jobs, NEW i,
         <<j, i>> \in RunIds, Running(j, i), Running(j, i)', TaskHolds(j, i)
  PROVE  TaskHolds(j, i)' \/ DeletionHolds(j)'
<1> DEFINE r == <<j, i>>
<1>t. phase \in [RunIds -> Phases] /\ rows \in [Jobs -> Seq(Rows)] /\ r \in RunIds
  BY DEF IInv, TypeOK
<1>1. CASE UNCHANGED phase
  BY <1>1 DEF TaskHolds
<1>2. ASSUME NEW s, phase' = [phase EXCEPT ![s] = "spawned"] PROVE TaskHolds(j, i)'
  BY <1>t, <1>2 DEF TaskHolds
<1>3. ASSUME NEW s \in RunIds, RunStep(s) PROVE TaskHolds(j, i)'
  <2>1. CASE s # r
    BY <1>t, <1>3, <2>1 DEF RunStep, RunStarts, RunWorks, RunReturns, RunRecords,
       RunFinalizes, Moves, TaskHolds
  <2>2. CASE s = r
    <3>1. r[1] = j /\ r[2] = i /\ RowThere(r) /\ rows[j][i].status = "running"
      BY DEF Running, RowThere
    <3>2. CASE RunStarts(r) \/ RunWorks(r) \/ RunReturns(r)
      BY <1>t, <3>1, <3>2 DEF RunStarts, RunWorks, RunReturns, Moves, TaskHolds
    <3>3. CASE RunRecords(r)
      <4> DEFINE new == IF phase[r] = "success" THEN "success" ELSE "failed"
      <4>1. rows' = [rows EXCEPT ![j][i].status = new]
        BY <3>1, <3>3 DEF RunRecords
      <4>2. rows[j][i] \in Rows
        BY RunningRow DEF IInv
      <4>3. rows'[j][i].status = new
        BY <1>t, <4>1, <4>2 DEF Rows, Running
      <4> QED
        BY <4>3 DEF Running
    <3>4. CASE RunFinalizes(r)
      BY <3>4 DEF RunFinalizes, TaskHolds
    <3> QED
      BY <1>3, <2>2, <3>2, <3>3, <3>4 DEF RunStep
  <2> QED
    BY <2>1, <2>2
<1>4. ASSUME NEW q \in Requests, DeleteAborts(q) PROVE TaskHolds(j, i)' \/ DeletionHolds(j)'
  <2>1. CASE request[q].job # j
    <3>1. phase'[r] = phase[r]
      BY <1>t, <1>4, <2>1 DEF DeleteAborts, Cancelled
    <3> QED
      BY <3>1 DEF TaskHolds
  <2>2. CASE request[q].job = j
    <3>1. request[q].pc # "deleted"
      BY <2>2 DEF DeleteInv, DeletedIsGone, GoneIsEmpty, Running
    <3>2. request[q].pc = "unscheduled" /\ request'[q].pc = "emptying"
      BY <1>4, <3>1 DEF DeleteAborts, IInv, TypeOK, UserRequests
    <3>3. request'[q].job = j
      BY <2>2, RequestMove DEF RequestMoves
    <3> QED
      BY <3>2, <3>3 DEF DeletionHolds
  <2> QED
    BY <2>1, <2>2
<1>5. CASE ClaimStep \/ \E k \in Jobs : TickPicks(k)
  BY <1>1, <1>2, <1>5 DEF ClaimStep, ClaimLoads, ClaimChecks, ClaimCommits, ClaimSpawns,
     ClaimFinalizes, TickPicks
<1>6. CASE \E q \in Requests : RequestLoads(q) \/ RequestStep(q)
  BY <1>1, <1>2, <1>4, <1>6 DEF RequestLoads, RequestStep, PauseTask, ResumeTask,
     GuardedTransition, CancelTask, ManualCommits, ManualSpawns, DeleteUnschedules,
     DeleteRow, DeleteAnswers
<1>7. CASE Stop \/ Crash
  BY <1>7 DEF Stop, Crash
<1>8. CASE RecoverRuns \/ RecoverJobs \/ UNCHANGED vars
  BY <1>1, <1>8 DEF RecoverRuns, RecoverJobs, vars
<1> QED
  BY <1>3, <1>5, <1>6, <1>7, <1>8 DEF Next

(* Whoever commits a running row holds it. *)
LEMMA NewRunHeld ==
  ASSUME IInv, [Next]_vars, NEW j \in Jobs, NEW i, Running(j, i)', ~Running(j, i)
  PROVE  ClaimHolds(j, i)' \/ UserHolds(j, i)'
<1>t. /\ rows \in [Jobs -> Seq(Rows)] /\ rows[j] \in Seq(Rows) /\ claim \in Claims
      /\ request \in [Requests -> UserRequests]
  BY DEF IInv, TypeOK
<1>0. rows' # rows
  BY DEF Running
<1>1. ASSUME NEW row, NEW k \in Jobs, rows' = [rows EXCEPT ![k] = Append(@, row)]
      PROVE  k = j /\ i = Len(rows[j]) + 1 /\ row.status = "running"
  <2>1. k = j
    BY <1>t, <1>1 DEF Running
  <2>2. rows'[j] = Append(rows[j], row)
    BY <1>t, <1>1, <2>1
  <2>3. /\ Len(rows[j]) \in Nat /\ DOMAIN rows[j] = 1..Len(rows[j])
        /\ DOMAIN rows'[j] = 1..Len(rows[j]) + 1
        /\ \A n \in 1..Len(rows[j]) : rows'[j][n] = rows[j][n]
        /\ rows'[j][Len(rows[j]) + 1] = row
    BY <1>t, <2>2, LenProperties
  <2>4. i = Len(rows[j]) + 1
    BY <2>3 DEF Running
  <2> QED
    BY <2>1, <2>3, <2>4 DEF Running
<1>2. CASE ClaimCommits
  <2> DEFINE status == IF claim.overlap THEN "skipped" ELSE "running"
             row == NewRow(status, "schedule", claim.old)
  <2>1. /\ rows' = [rows EXCEPT ![claim.job] = Append(@, row)]
        /\ claim' = [claim EXCEPT !.pc = status, !.run = Len(rows[claim.job]) + 1]
    BY <1>0, <1>2 DEF ClaimCommits
  <2>2. claim.job \in Jobs /\ row.status = status
    BY <1>t DEF Claims, NewRow
  <2>3. claim.job = j /\ i = Len(rows[j]) + 1 /\ status = "running"
    BY <1>1, <2>1, <2>2
  <2> QED
    BY <1>t, <2>1, <2>3 DEF ClaimHolds, Claims
<1>3. ASSUME NEW q \in Requests, ManualCommits(q) PROVE UserHolds(j, i)'
  <2> DEFINE k == request[q].job
             row == NewRow("running", "manual", NoSlot)
  <2>1. /\ rows' = [rows EXCEPT ![k] = Append(@, row)]
        /\ request' = [request EXCEPT ![q].pc = "committed", ![q].run = Len(rows[k]) + 1]
    BY <1>0, <1>3 DEF ManualCommits
  <2>2. k \in Jobs
    BY <1>t DEF UserRequests
  <2>3. k = j /\ i = Len(rows[j]) + 1
    BY <1>1, <2>1, <2>2
  <2>4. request'[q].pc = "committed" /\ request'[q].job = j /\ request'[q].run = i
    BY <1>t, <2>1, <2>3 DEF UserRequests
  <2> QED
    BY <2>4 DEF UserHolds
<1>4. ASSUME NEW q \in Requests, DeleteRow(q) PROVE FALSE
  BY <1>t, <1>4 DEF DeleteRow, Running
<1>5. ASSUME NEW r \in RunIds, RunStep(r) PROVE FALSE
  <2>1. /\ r[1] \in Jobs /\ rows[r[1]] \in Seq(Rows) /\ r[2] \in DOMAIN rows[r[1]]
        /\ rows' = [rows EXCEPT ![r[1]][r[2]].status =
                      IF phase[r] = "success" THEN "success" ELSE "failed"]
    BY <1>0, <1>t, <1>5 DEF RunIds, RunStep, RunStarts, RunWorks, RunReturns, RunRecords,
       RunFinalizes, RowThere
  <2>2. rows[r[1]][r[2]] \in Rows
    <3>1. r[2] \in 1..Len(rows[r[1]])
      BY <2>1, LenProperties
    <3> QED
      BY <2>1, <3>1, ElementOfSeq
  <2> QED
    BY <1>t, <2>1, <2>2 DEF Running, Rows
<1>6. CASE RecoverRuns
  <2>1. /\ DOMAIN rows'[j] = DOMAIN rows[j] /\ i \in DOMAIN rows[j]
        /\ rows'[j][i] = IF rows[j][i].status = "running"
                         THEN [rows[j][i] EXCEPT !.status = "failed"] ELSE rows[j][i]
    BY <1>6 DEF RecoverRuns, Running
  <2> QED
    BY <2>1 DEF Running
<1>7. CASE ClaimLoads \/ ClaimChecks \/ ClaimSpawns \/ ClaimFinalizes \/ \E k \in Jobs : TickPicks(k)
  BY <1>0, <1>7 DEF ClaimLoads, ClaimChecks, ClaimSpawns, ClaimFinalizes, TickPicks
<1>8. ASSUME NEW q \in Requests, RequestLoads(q) \/ RequestStep(q), ~ManualCommits(q), ~DeleteRow(q)
      PROVE  FALSE
  BY <1>0, <1>8 DEF RequestLoads, RequestStep, PauseTask, ResumeTask, GuardedTransition,
     CancelTask, ManualSpawns, DeleteUnschedules, DeleteAborts, DeleteAnswers
<1>9. CASE Stop \/ Crash \/ RecoverJobs \/ UNCHANGED vars
  BY <1>0, <1>9 DEF Stop, Crash, RecoverJobs, vars
<1> QED
  BY <1>2, <1>3, <1>4, <1>5, <1>6, <1>7, <1>8, <1>9 DEF Next, ClaimStep

LEMMA NoneYetStep == ASSUME IInv, NoneYet, [Next]_vars PROVE NoneYet'
<1> SUFFICES ASSUME agent' = "recovering", NEW j \in Jobs, NEW i, Running(j, i)'
             PROVE  FALSE
  BY DEF NoneYet, HasRunning, Running
<1>1. CASE RecoverRuns
  <2>1. /\ i \in DOMAIN rows[j]
        /\ rows'[j][i] = IF rows[j][i].status = "running"
                         THEN [rows[j][i] EXCEPT !.status = "failed"] ELSE rows[j][i]
    BY <1>1 DEF RecoverRuns, Running
  <2>2. Running(j, i)
    BY <2>1 DEF Running
  <2>3. rows[j][i] \in Rows
    BY <2>2, RunningRow DEF IInv
  <2> QED
    BY <2>1, <2>3 DEF Running, Rows
<1>2. CASE ~RecoverRuns
  <2>1. agent = "recovering" /\ UNCHANGED rows
    BY <1>2 DEF Next, vars, TickPicks, ClaimStep, ClaimLoads, ClaimChecks, ClaimCommits,
       ClaimSpawns, ClaimFinalizes, RunStep, RunStarts, RunWorks, RunReturns, RunRecords,
       RunFinalizes, Moves, Alive, RequestLoads, RequestStep, PauseTask, ResumeTask,
       GuardedTransition, CancelTask, ManualCommits, ManualSpawns, DeleteUnschedules,
       DeleteAborts, DeleteRow, DeleteAnswers, Loaded, OnlyRequests, Stop, Crash, RecoverJobs
  <2> QED
    BY <2>1 DEF NoneYet, HasRunning, Running
<1> QED
  BY <1>1, <1>2

(* Only the recovery leads to a serving Agent. *)
LEMMA ServesAgain ==
  ASSUME [Next]_vars, agent' = "up", agent # "up"
  PROVE  agent = "recovering" /\ UNCHANGED rows
BY DEF Next, vars, TickPicks, ClaimStep, ClaimLoads, ClaimChecks, ClaimCommits,
   ClaimSpawns, ClaimFinalizes, RunStep, RunStarts, RunWorks, RunReturns, RunRecords,
   RunFinalizes, Moves, RequestLoads, RequestStep, PauseTask, ResumeTask, GuardedTransition,
   CancelTask, ManualCommits, ManualSpawns, DeleteUnschedules, DeleteAborts,
   DeleteRow, DeleteAnswers, Loaded, OnlyRequests, Stop, Crash, RecoverRuns, RecoverJobs

LEMMA TendedStep ==
  ASSUME IInv, DeleteInv, NoneYet, RunningIsTended, [Next]_vars
  PROVE  RunningIsTended'
<1> SUFFICES ASSUME agent' = "up", NEW j \in Jobs, NEW i, Running(j, i)'
             PROVE  Tended(j, i)'
  BY DEF RunningIsTended, Running, Tended, ClaimHolds, UserHolds, TaskHolds, DeletionHolds
<1>1. <<j, i>> \in RunIds
  <2>1. TypeOK'
    BY TypeStep DEF IInv
  <2>2. i \in DOMAIN rows'[j] /\ rows'[j] \in Seq(Rows) /\ Len(rows'[j]) <= MaxRows /\ MaxRows \in Nat
    BY <2>1, SchedulerAssumption DEF TypeOK, Running
  <2>3. Len(rows'[j]) \in Nat /\ i \in 1..Len(rows'[j])
    BY <2>2, LenProperties
  <2> QED
    BY <2>2, <2>3 DEF RunIds
<1>2. CASE ~Running(j, i)
  BY <1>2, NewRunHeld DEF Tended
<1>3. CASE Running(j, i)
  <2>1. agent = "up"
    BY <1>3, ServesAgain DEF NoneYet, HasRunning, Running
  <2>2. Tended(j, i)
    BY <1>3, <2>1 DEF RunningIsTended, Running, Tended, ClaimHolds, UserHolds, TaskHolds,
       DeletionHolds
  <2>3. phase'[<<j, i>>] = "spawned" => TaskHolds(j, i)'
    BY DEF TaskHolds
  <2>4. CASE ClaimHolds(j, i)
    BY <1>1, <2>3, <2>4, ClaimHeld DEF Tended, ClaimHolds
  <2>5. CASE UserHolds(j, i)
    BY <1>1, <2>3, <2>5, UserHeld DEF Tended
  <2>6. CASE TaskHolds(j, i)
    BY <1>1, <1>3, <2>6, TaskHeld DEF Tended
  <2>7. CASE DeletionHolds(j)
    BY <2>7, DeletionHeld DEF Tended, Running
  <2> QED
    BY <2>2, <2>4, <2>5, <2>6, <2>7 DEF Tended
<1> QED
  BY <1>2, <1>3

(* While the Agent serves, a running row always has somebody that will     *)
(* close it: whoever committed it and spawns its task next, the task, or   *)
(* the deletion of its job.                                                *)
THEOREM RunsAreTended == Spec => []RunningIsTended
<1>1. ASSUME Init PROVE NoneYet /\ RunningIsTended
  <2>1. agent = "up" /\ \A j \in Jobs : rows[j] = <<>>
    BY <1>1 DEF Init
  <2> QED
    BY <2>1 DEF NoneYet, RunningIsTended
<1> QED
  BY <1>1, SpecIInv, DeletionInv, NoneYetStep, TendedStep, PTL DEF Spec

----------------------------------------------------------------------------
(* The components of MCAgent beside the scheduler.  Only the one in focus  *)
(* moves.                                                                  *)
LEMMA FocusMoves ==
  ASSUME [AgentNext]_agentVars
  PROVE  /\ focus' = focus
         /\ focus = "times" => [TimesNext]_timeVars
         /\ focus = "tab" => [TabNext]_tabVars
         /\ focus = "panel" => [PanelNext]_panelVars
         /\ focus = "startUp" => [StartNext]_startVars
         /\ focus = "supervisor" => [SupNext]_supVars
<1>1. CASE UNCHANGED agentVars
  BY <1>1 DEF agentVars
<1>2. CASE AgentNext
  BY <1>2 DEF AgentNext, OnlyMoves
<1> QED
  BY <1>1, <1>2

----------------------------------------------------------------------------
(* The supervisor.                                                         *)

SupStages == {"off", "clearing", "launching", "waiting", "ending", "watching", "stopped"}
ProcessStates == {"gone", "starting", "up", "hung"}

(* An orphan that listened when its UI died is alive only until the next   *)
(* supervisor clears the port, and until then that one has no Agent.       *)
SupInv ==
  /\ own \in ProcessStates /\ stray \in ProcessStates /\ early \in BOOLEAN
  /\ sup \in [at : SupStages, cycle : Nat, looping : BOOLEAN]
  /\ sup.at = "off" => own = "gone"
  /\ stray = "starting" => early
  /\ Lives(stray) /\ ~early => sup.at = "off"
  /\ sup.at = "stopped" => ~Lives(own)

LEMMA SupStarts == SupInit => SupInv
<1> SUFFICES ASSUME SupInit PROVE SupInv
  OBVIOUS
<1>1. sup \in [at : SupStages, cycle : Nat, looping : BOOLEAN] /\ sup.at = "off"
  BY DEF SupInit, SupStages
<1>2. own = "gone" /\ stray \in {"gone", "up", "hung"} /\ early \in BOOLEAN
  BY DEF SupInit
<1> QED
  BY <1>1, <1>2 DEF SupInv, ProcessStates, Lives

LEMMA SupStep == ASSUME SupInv, [SupNext]_supVars PROVE SupInv'
<1> USE DEF SupInv, SupStages, ProcessStates, Lives, Listens, Answers, SupAt
<1>1. CASE Clears
  BY <1>1 DEF Clears, Cleared
<1>2. CASE Launches
  <2>1. sup' \in [at : SupStages, cycle : Nat, looping : BOOLEAN] /\ sup'.at \in {"waiting", "watching"}
    <3> DEFINE waits == [sup EXCEPT !.at = "waiting"]
    <3>1. waits \in [at : SupStages, cycle : Nat, looping : BOOLEAN] /\ waits.at = "waiting"
      OBVIOUS
    <3>2. \/ sup' = [waits EXCEPT !.cycle = @ + 1]
          \/ sup' = [at |-> "watching", cycle |-> 0, looping |-> TRUE]
      BY <1>2 DEF Launches
    <3> HIDE DEF waits
    <3>3. waits.cycle + 1 \in Nat
      BY <3>1
    <3>4. CASE sup' = [waits EXCEPT !.cycle = @ + 1]
      BY <3>1, <3>3, <3>4
    <3>5. CASE sup' = [at |-> "watching", cycle |-> 0, looping |-> TRUE]
      BY <3>5
    <3> QED
      BY <3>2, <3>4, <3>5
  <2> QED
    BY <1>2, <2>1 DEF Launches
<1>3. CASE FindsReady
  BY <1>3 DEF FindsReady
<1>4. CASE CycleFails
  BY <1>4 DEF CycleFails
<1>5. CASE SupEnds
  BY <1>5 DEF SupEnds
<1>6. CASE SeesTrouble
  BY <1>6 DEF SeesTrouble
<1>7. CASE LosesPatience
  BY <1>7 DEF LosesPatience
<1>8. CASE Stops
  BY <1>8 DEF Stops
<1>9. CASE UiDies
  BY <1>9 DEF UiDies
<1>10. CASE OwnBinds
  BY <1>10 DEF OwnBinds
<1>11. CASE StrayBinds
  BY <1>11 DEF StrayBinds
<1>12. CASE SupFails
  BY <1>12 DEF SupFails
<1>13. CASE UNCHANGED supVars
  BY <1>13 DEF supVars
<1> QED
  BY <1>1, <1>2, <1>3, <1>4, <1>5, <1>6, <1>7, <1>8, <1>9, <1>10, <1>11, <1>12, <1>13
     DEF SupNext, Supervises

LEMMA SupIsSound == SupInv => SupervisorSound
BY DEF SupInv, SupervisorSound, OneAgent, StopLeavesNone, Lives

----------------------------------------------------------------------------
(* The start of the processes on one database file.                        *)

BeforeRebuilt == {"down", "looks", "rebuilds"}
Complete == {"mirrors", "accounts", "owners", "prints", "serves"}
PastColumns == {"tables", "creates"} \cup Complete
StartStages == BeforeRebuilt \cup {"columns", "adds"} \cup PastColumns

FileType ==
  [tables : SUBSET Tables, columns : SUBSET Columns, unique : BOOLEAN,
   chunks : SUBSET Nat, mirror : [rows : SUBSET Nat, there : BOOLEAN],
   users : SUBSET {"admin"}, ownerless : BOOLEAN]

FileOK ==
  /\ file \in FileType
  /\ IsFiniteSet(file.chunks) /\ written = file.chunks
  /\ file.unique => "kbdocument" \in file.tables
  /\ file.mirror.rows = IF file.mirror.there THEN file.chunks ELSE {}

(* What a process has done or seen done of the file stays done.            *)
StageOK(p) ==
  LET at == procs[p].at IN
  /\ at \notin BeforeRebuilt => ~file.unique
  /\ at \in {"looks", "rebuilds"} => procs[p].column = 1
  /\ at \in {"columns", "adds"} => 1..(procs[p].column - 1) \subseteq file.columns
  /\ at = "adds" => procs[p].column <= MaxColumns
  /\ at \in PastColumns /\ "settings" \in file.tables => file.columns = Columns
  /\ at = "creates" => procs[p].saw \subseteq file.tables
  /\ at \in Complete => file.tables = Tables

StageType == [at : StartStages, column : Nat \ {0}, saw : SUBSET (Tables \cup Columns \cup {"admin"})]

StartUpInv ==
  /\ FileOK
  /\ procs \in [Procs -> StageType]
  /\ \A p \in Procs : StageOK(p)
  /\ procs["ui"].at \in {"prints", "serves"} => ~file.ownerless

LEMMA StartUpStarts == StartInit => StartUpInv
<1> SUFFICES ASSUME StartInit PROVE StartUpInv
  OBVIOUS
<1> USE DEF Tables, BeforeRebuilt, Complete, PastColumns, StartStages
<1>1. PICK columns \in SUBSET Columns, old \in BOOLEAN, frags \in SUBSET {1}, fresh \in BOOLEAN :
         file = IF fresh
                THEN [tables |-> {}, columns |-> {}, unique |-> FALSE, chunks |-> {},
                      mirror |-> NoMirror, users |-> {}, ownerless |-> FALSE]
                ELSE [tables |-> Tables, columns |-> columns, unique |-> old, chunks |-> frags,
                      mirror |-> NoMirror, users |-> {}, ownerless |-> TRUE]
  BY DEF StartInit
<1>2. IsFiniteSet({}) /\ IsFiniteSet(frags)
  BY FS_EmptySet, FS_Singleton, FS_Subset
<1>3. file \in FileType
  BY <1>1 DEF FileType, NoMirror
<1>4. FileOK
  BY <1>1, <1>2, <1>3 DEF FileOK, NoMirror, StartInit
<1>5. \A p \in Procs : procs[p] = [at |-> "down", column |-> 1, saw |-> {}]
  BY DEF StartInit
<1>6. procs \in [Procs -> StageType]
  BY DEF StartInit, StageType
<1>7. \A p \in Procs : StageOK(p)
  BY <1>5 DEF StageOK
<1> QED
  BY <1>4, <1>5, <1>6, <1>7 DEF StartUpInv, Procs

(* What a step of p does to the file is nothing that the others had seen   *)
(* there already and count on.                                             *)
LEMMA OthersStages ==
  ASSUME StartUpInv, file' \in FileType, NEW p \in Procs,
         \A q \in Procs \ {p} : procs'[q] = procs[q],
         file.tables \subseteq file'.tables, file.columns \subseteq file'.columns,
         ~file.unique => ~file'.unique,
         "settings" \in file'.tables /\ "settings" \notin file.tables => file'.columns = Columns
  PROVE  \A q \in Procs \ {p} : StageOK(q)'
<1> TAKE q \in Procs \ {p}
<1>1. StageOK(q) /\ procs'[q] = procs[q] /\ procs[q] \in StageType
  BY DEF StartUpInv
<1>2. file \in FileType
  BY DEF StartUpInv, FileOK
<1> QED
  BY <1>1, <1>2 DEF StageOK, FileType, BeforeRebuilt, Complete, PastColumns

LEMMA StartUpStep == ASSUME StartUpInv, [StartNext]_startVars PROVE StartUpInv'
<1> USE StartAssumption
<1>0. /\ FileOK /\ file \in FileType /\ procs \in [Procs -> StageType] /\ "ui" \in Procs
      /\ \A p \in Procs : StageOK(p) /\ procs[p] \in StageType
  BY DEF StartUpInv, FileOK, Procs
<1>1. ASSUME NEW p \in Procs, NEW one \in StageType, procs' = [procs EXCEPT ![p] = one],
             FileOK', StageOK(p)',
             file.tables \subseteq file'.tables, file.columns \subseteq file'.columns,
             ~file.unique => ~file'.unique,
             "settings" \in file'.tables /\ "settings" \notin file.tables => file'.columns = Columns,
             ~file.ownerless => ~file'.ownerless,
             p = "ui" /\ one.at \in {"prints", "serves"} => ~file'.ownerless
      PROVE  StartUpInv'
  <2>1. \A q \in Procs \ {p} : StageOK(q)'
    BY <1>0, <1>1, OthersStages DEF FileOK
  <2>2. \A q \in Procs : StageOK(q)'
    BY <1>1, <2>1
  <2>3. procs' \in [Procs -> StageType]
    BY <1>0, <1>1
  <2>4. procs'["ui"].at \in {"prints", "serves"} => ~file'.ownerless
    BY <1>0, <1>1 DEF StartUpInv
  <2> QED
    BY <1>1, <2>2, <2>3, <2>4 DEF StartUpInv
\* A step that leaves the file alone.
<1>2. ASSUME NEW p \in Procs, NEW one \in StageType, procs' = [procs EXCEPT ![p] = one],
             UNCHANGED <<file, written>>, StageOK(p)',
             p = "ui" /\ one.at \in {"prints", "serves"} => ~file.ownerless
      PROVE  StartUpInv'
  <2>1. FileOK'
    BY <1>0, <1>2 DEF FileOK
  <2> QED
    BY <1>0, <1>1, <1>2, <2>1
<1>3. ASSUME NEW p \in Procs, NEW at \in StartStages, ProcAt(p, at),
             UNCHANGED <<file, written>>, at \notin BeforeRebuilt => ~file.unique,
             at \notin {"looks", "rebuilds"} \/ procs[p].column = 1,
             at \in {"columns", "adds"} => 1..(procs[p].column - 1) \subseteq file.columns,
             at # "adds" /\ at # "creates",
             at \in PastColumns /\ "settings" \in file.tables => file.columns = Columns,
             at \in Complete => file.tables = Tables,
             p = "ui" /\ at \in {"prints", "serves"} => ~file.ownerless
      PROVE  StartUpInv'
  <2> DEFINE one == [procs[p] EXCEPT !.at = at]
  <2>1. one \in StageType /\ one.at = at /\ one.column = procs[p].column
    BY <1>0 DEF StageType
  <2>2. procs' = [procs EXCEPT ![p] = one]
    BY <1>0, <1>3 DEF ProcAt
  <2> HIDE DEF one
  <2>3. procs'[p] = one
    BY <1>0, <2>2
  <2>4. StageOK(p)'
    BY <1>3, <2>1, <2>3 DEF StageOK
  <2> QED
    BY <1>2, <1>3, <2>1, <2>2, <2>4
<1>4. ASSUME NEW p \in Procs, Exits(p), UNCHANGED <<file, written>> PROVE StartUpInv'
  BY <1>0, <1>3, <1>4 DEF Exits, BeforeRebuilt, StartStages, PastColumns, Complete
<1>5. ASSUME NEW p \in Procs, Starts(p) PROVE StartUpInv'
  <2> DEFINE one == [at |-> "looks", column |-> 1, saw |-> {}]
  <2>1. one \in StageType
    BY DEF StageType, StartStages, BeforeRebuilt
  <2>2. procs' = [procs EXCEPT ![p] = one] /\ procs'[p] = one
    BY <1>0, <1>5 DEF Starts
  <2>3. StageOK(p)'
    BY <2>2 DEF StageOK, BeforeRebuilt, PastColumns, Complete
  <2> QED
    BY <1>2, <1>5, <2>1, <2>2, <2>3 DEF Starts
<1>6. ASSUME NEW p \in Procs, LooksAtDocuments(p) PROVE StartUpInv'
  BY <1>0, <1>3, <1>6
     DEF LooksAtDocuments, FileOK, FileType, StageOK, BeforeRebuilt, StartStages, PastColumns, Complete
<1>7. ASSUME NEW p \in Procs, Rebuilds(p) PROVE StartUpInv'
  <2> DEFINE one == [procs[p] EXCEPT !.at = "columns"]
  <2>1. one \in StageType /\ one.at = "columns" /\ one.column = procs[p].column
    BY <1>0 DEF StageType, StartStages
  <2>2. procs' = [procs EXCEPT ![p] = one]
    BY <1>7 DEF Rebuilds, ProcAt
  <2> HIDE DEF one
  <2>3. procs'[p] = one
    BY <1>0, <2>2
  <2>4. /\ file' \in FileType /\ ~file'.unique /\ file'.tables = file.tables
        /\ file'.columns = file.columns /\ file'.ownerless = file.ownerless
        /\ file'.chunks = file.chunks /\ file'.mirror = file.mirror /\ written' = written
    BY <1>0, <1>7 DEF Rebuilds, FileType
  <2>5. FileOK'
    BY <1>0, <2>4 DEF FileOK
  <2>6. StageOK(p)'
    BY <1>0, <1>7, <2>1, <2>3, <2>4 DEF Rebuilds, StageOK, BeforeRebuilt, PastColumns, Complete
  <2> QED
    BY <1>1, <2>1, <2>2, <2>4, <2>5, <2>6
<1>8. ASSUME NEW p \in Procs, ReadsColumns(p) PROVE StartUpInv'
  <2>1. CASE "settings" \notin file.tables \/ procs[p].column > MaxColumns
    <3>1. procs[p].column > MaxColumns => Columns \subseteq 1..(procs[p].column - 1)
      BY <1>0 DEF StageType, Columns
    <3>2. "settings" \in file.tables => file.columns = Columns
      BY <1>0, <1>8, <2>1, <3>1 DEF ReadsColumns, StageOK, FileType
    <3> QED
      BY <1>0, <1>3, <1>8, <2>1, <3>2
         DEF ReadsColumns, StageOK, BeforeRebuilt, StartStages, PastColumns, Complete
  <2>2. CASE ~("settings" \notin file.tables \/ procs[p].column > MaxColumns)
    <3> DEFINE one == [procs[p] EXCEPT !.at = "adds", !.saw = file.columns]
    <3>1. one \in StageType /\ one.at = "adds" /\ one.column = procs[p].column
      BY <1>0 DEF StageType, StartStages, FileType
    <3>2. procs' = [procs EXCEPT ![p] = one]
      BY <1>0, <1>8, <2>2 DEF ReadsColumns, StageType
    <3> HIDE DEF one
    <3>3. procs'[p] = one
      BY <1>0, <3>2
    <3>4. procs[p].column <= MaxColumns
      BY <1>0, <2>2 DEF StageType
    <3>5. StageOK(p)'
      BY <1>0, <1>8, <3>1, <3>3, <3>4
         DEF ReadsColumns, StageOK, BeforeRebuilt, PastColumns, Complete
    <3> QED
      BY <1>2, <1>8, <3>1, <3>2, <3>5 DEF ReadsColumns
  <2> QED
    BY <2>1, <2>2
<1>9. ASSUME NEW p \in Procs, AddsColumn(p) PROVE StartUpInv'
  <2> DEFINE k == procs[p].column
             one == [procs[p] EXCEPT !.at = "columns", !.column = k + 1]
  <2>1. CASE ~(k \in procs[p].saw \/ k \notin file.columns)
    BY <1>4, <1>9, <2>1 DEF AddsColumn
  <2>2. CASE k \in procs[p].saw \/ k \notin file.columns
    <3>0. k \in Nat \ {0} /\ k <= MaxColumns /\ 1..(k - 1) \subseteq file.columns /\ ~file.unique
      BY <1>0, <1>9 DEF AddsColumn, StageOK, StageType, BeforeRebuilt
    <3>a. k + 1 \in Nat \ {0} /\ "columns" \in StartStages
      BY <3>0 DEF StartStages
    <3>1. one \in StageType /\ one.at = "columns" /\ one.column = k + 1
      BY <1>0, <3>a DEF StageType
    <3>2. procs' = [procs EXCEPT ![p] = one] /\ file' = [file EXCEPT !.columns = @ \cup {k}]
      BY <1>9, <2>2 DEF AddsColumn
    <3>3. k \in Columns
      BY <3>0 DEF Columns
    <3> HIDE DEF one
    <3>4. procs'[p] = one
      BY <1>0, <3>2
    <3>5. /\ file' \in FileType /\ file'.unique = file.unique /\ file'.tables = file.tables
          /\ file'.columns = file.columns \cup {k} /\ file'.ownerless = file.ownerless
          /\ file'.chunks = file.chunks /\ file'.mirror = file.mirror /\ written' = written
      BY <1>0, <1>9, <3>2, <3>3 DEF AddsColumn, FileType
    <3>6. FileOK'
      BY <1>0, <3>5 DEF FileOK
    <3>7. 1..k \subseteq file'.columns
      BY <3>0, <3>5
    <3>8. (k + 1) - 1 = k
      BY <3>0
    <3>9. StageOK(p)'
      BY <3>0, <3>1, <3>4, <3>5, <3>7, <3>8 DEF StageOK, BeforeRebuilt, PastColumns, Complete
    <3>10. p = "ui" /\ one.at \in {"prints", "serves"} => ~file'.ownerless
      BY <3>1
    <3> HIDE DEF k
    <3> QED
      BY <1>1, <3>1, <3>2, <3>5, <3>6, <3>9, <3>10
  <2> QED
    BY <2>1, <2>2
<1>10. ASSUME NEW p \in Procs, ChecksTables(p) PROVE StartUpInv'
  <2> DEFINE one == [procs[p] EXCEPT !.at = "creates", !.saw = file.tables]
  <2>1. one \in StageType /\ one.at = "creates" /\ one.saw = file.tables
    BY <1>0 DEF StageType, StartStages, FileType, PastColumns
  <2>2. procs' = [procs EXCEPT ![p] = one]
    BY <1>10 DEF ChecksTables
  <2> HIDE DEF one
  <2>3. procs'[p] = one
    BY <1>0, <2>2
  <2>4. StageOK(p)'
    BY <1>0, <1>10, <2>1, <2>3 DEF ChecksTables, StageOK, BeforeRebuilt, PastColumns, Complete
  <2> QED
    BY <1>2, <1>10, <2>1, <2>2, <2>4 DEF ChecksTables
<1>11. ASSUME NEW p \in Procs, CreatesTable(p) PROVE StartUpInv'
  <2>0. /\ procs[p].at = "creates" /\ procs[p].saw \subseteq file.tables /\ ~file.unique
        /\ "settings" \in file.tables => file.columns = Columns
        /\ file.tables \subseteq Tables
    BY <1>0, <1>11 DEF CreatesTable, StageOK, BeforeRebuilt, PastColumns, FileType
  <2>1. CASE procs[p].saw = Tables
    <3>1. file.tables = Tables /\ file.columns = Columns
      BY <2>0, <2>1 DEF Tables
    <3> QED
      BY <1>0, <1>3, <1>11, <2>0, <2>1, <3>1
         DEF CreatesTable, StageOK, BeforeRebuilt, StartStages, PastColumns, Complete
  <2>2. CASE procs[p].saw # Tables
    <3>1. PICK t \in Tables \ procs[p].saw :
            IF t \in file.tables THEN Exits(p) /\ UNCHANGED file
            ELSE /\ file' = [file EXCEPT !.tables = @ \cup {t},
                                         !.columns = IF t = "settings" THEN Columns ELSE @]
                 /\ procs' = [procs EXCEPT ![p].saw = @ \cup {t}]
      BY <1>11, <2>2 DEF CreatesTable
    <3>2. CASE t \in file.tables
      BY <1>4, <1>11, <3>1, <3>2 DEF CreatesTable
    <3>3. CASE t \notin file.tables
      <4> DEFINE one == [procs[p] EXCEPT !.saw = @ \cup {t}]
      <4>1. one \in StageType /\ one.at = "creates" /\ one.saw = procs[p].saw \cup {t}
        BY <1>0, <2>0 DEF StageType
      <4>2. procs' = [procs EXCEPT ![p] = one]
        BY <3>1, <3>3
      <4> HIDE DEF one
      <4>3. procs'[p] = one
        BY <1>0, <4>2
      <4>4. /\ file' \in FileType /\ file'.unique = file.unique /\ file'.tables = file.tables \cup {t}
            /\ file'.columns = IF t = "settings" THEN Columns ELSE file.columns
            /\ file'.ownerless = file.ownerless
            /\ file'.chunks = file.chunks /\ file'.mirror = file.mirror /\ written' = written
        <5> DEFINE tabs == file.tables \cup {t}
                   cols == IF t = "settings" THEN Columns ELSE file.columns
        <5>1. tabs \in SUBSET Tables /\ cols \in SUBSET Columns
          BY <1>0, <2>0 DEF FileType
        <5>2. file' = [file EXCEPT !.tables = tabs, !.columns = cols] /\ written' = written
          BY <1>11, <3>1, <3>3 DEF CreatesTable
        <5> HIDE DEF tabs, cols
        <5>3. /\ file' \in FileType /\ file'.unique = file.unique /\ file'.tables = tabs
              /\ file'.columns = cols /\ file'.ownerless = file.ownerless
              /\ file'.chunks = file.chunks /\ file'.mirror = file.mirror
          BY <1>0, <5>1, <5>2 DEF FileType
        <5> QED
          BY <5>2, <5>3 DEF tabs, cols
      <4>5. FileOK'
        BY <1>0, <4>4 DEF FileOK
      <4>6. "settings" \in file'.tables => file'.columns = Columns
        BY <2>0, <4>4
      <4>7. StageOK(p)'
        BY <2>0, <4>1, <4>3, <4>4, <4>6 DEF StageOK, BeforeRebuilt, PastColumns, Complete
      <4>8. file.columns \subseteq file'.columns
        BY <1>0, <4>4 DEF FileType
      <4> QED
        BY <1>1, <4>1, <4>2, <4>4, <4>5, <4>6, <4>7, <4>8
    <3> QED
      BY <3>2, <3>3
  <2> QED
    BY <2>1, <2>2
<1>12. ASSUME NEW p \in Procs, Mirrors(p) PROVE StartUpInv'
  <2> DEFINE one == [procs[p] EXCEPT !.at = Ready(p)]
  <2>1. one \in StageType /\ one.at = Ready(p) /\ one.at \in {"accounts", "serves"}
    BY <1>0 DEF StageType, StartStages, Ready, PastColumns, Complete
  <2>2. procs' = [procs EXCEPT ![p] = one]
    BY <1>12 DEF Mirrors, ProcAt
  <2> HIDE DEF one
  <2>3. procs'[p] = one
    BY <1>0, <2>2
  <2> DEFINE kept == IF Cardinality(file.chunks) = Cardinality(file.mirror.rows)
                     THEN file.mirror.rows ELSE file.chunks
  <2>4. kept = file.chunks
    <3>1. CASE file.mirror.there
      BY <1>0, <3>1 DEF FileOK
    <3>2. CASE ~file.mirror.there
      <4>1. file.mirror.rows = {} /\ Cardinality({}) = 0
        BY <1>0, <3>2, FS_EmptySet DEF FileOK
      <4>2. Cardinality(file.chunks) = 0 => file.chunks = {}
        BY <1>0, FS_EmptySet DEF FileOK
      <4> QED
        BY <4>1, <4>2
    <3> QED
      BY <3>1, <3>2
  <2> HIDE DEF kept
  <2>5. file' = [file EXCEPT !.mirror = [there |-> TRUE, rows |-> kept]]
    BY <1>12 DEF Mirrors, kept
  <2>6. /\ file' \in FileType /\ file'.unique = file.unique /\ file'.tables = file.tables
        /\ file'.columns = file.columns /\ file'.ownerless = file.ownerless
        /\ file'.chunks = file.chunks /\ file'.mirror = [there |-> TRUE, rows |-> kept]
        /\ written' = written
    <3> DEFINE new == [there |-> TRUE, rows |-> kept]
    <3>1. new \in [rows : SUBSET Nat, there : BOOLEAN]
      BY <1>0, <2>4 DEF FileType
    <3>2. file' = [file EXCEPT !.mirror = new] /\ written' = written
      BY <1>12, <2>5 DEF Mirrors
    <3> HIDE DEF new
    <3>3. /\ file' \in FileType /\ file'.unique = file.unique /\ file'.tables = file.tables
          /\ file'.columns = file.columns /\ file'.ownerless = file.ownerless
          /\ file'.chunks = file.chunks /\ file'.mirror = new
      BY <1>0, <3>1, <3>2 DEF FileType
    <3> QED
      BY <3>2, <3>3 DEF new
  <2>7. FileOK'
    BY <1>0, <2>4, <2>6 DEF FileOK
  <2>8. StageOK(p)'
    BY <1>0, <1>12, <2>1, <2>3, <2>6 DEF Mirrors, StageOK, BeforeRebuilt, PastColumns, Complete
  <2>9. p = "ui" => one.at = "accounts"
    BY <2>1 DEF Ready
  <2> QED
    BY <1>1, <2>1, <2>2, <2>6, <2>7, <2>8, <2>9
<1>13. ASSUME NEW p \in Procs, SkipsMirror(p) PROVE StartUpInv'
  BY <1>0, <1>3, <1>13
     DEF SkipsMirror, Ready, StageOK, BeforeRebuilt, StartStages, PastColumns, Complete
<1>14. CASE MakesAdmin
  <2> DEFINE one == [procs["ui"] EXCEPT !.at = "owners", !.saw = IF file.users = {} THEN {"admin"} ELSE {}]
  <2>1. one \in StageType /\ one.at = "owners"
    BY <1>0 DEF StageType, StartStages, PastColumns, Complete
  <2>2. procs' = [procs EXCEPT !["ui"] = one]
    BY <1>0, <1>14 DEF MakesAdmin, StageType
  <2> HIDE DEF one
  <2>3. procs'["ui"] = one
    BY <1>0, <2>2
  <2>4. /\ file' \in FileType /\ file'.unique = file.unique /\ file'.tables = file.tables
        /\ file'.columns = file.columns /\ file'.ownerless = file.ownerless
        /\ file'.chunks = file.chunks /\ file'.mirror = file.mirror /\ written' = written
    BY <1>0, <1>14 DEF MakesAdmin, FileType
  <2>5. FileOK'
    BY <1>0, <2>4 DEF FileOK
  <2>6. StageOK("ui")'
    BY <1>0, <1>14, <2>1, <2>3, <2>4 DEF MakesAdmin, StageOK, BeforeRebuilt, PastColumns, Complete
  <2> QED
    BY <1>0, <1>1, <2>1, <2>2, <2>4, <2>5, <2>6
<1>15. CASE GivesOwners
  <2> DEFINE one == [procs["ui"] EXCEPT !.at = "prints"]
  <2>1. one \in StageType /\ one.at = "prints"
    BY <1>0 DEF StageType, StartStages, PastColumns, Complete
  <2>2. procs' = [procs EXCEPT !["ui"] = one]
    BY <1>15 DEF GivesOwners, ProcAt
  <2> HIDE DEF one
  <2>3. procs'["ui"] = one
    BY <1>0, <2>2
  <2>4. /\ file' \in FileType /\ file'.unique = file.unique /\ file'.tables = file.tables
        /\ file'.columns = file.columns /\ ~file'.ownerless
        /\ file'.chunks = file.chunks /\ file'.mirror = file.mirror /\ written' = written
    BY <1>0, <1>15 DEF GivesOwners, FileType
  <2>5. FileOK'
    BY <1>0, <2>4 DEF FileOK
  <2>6. StageOK("ui")'
    BY <1>0, <1>15, <2>1, <2>3, <2>4 DEF GivesOwners, StageOK, BeforeRebuilt, PastColumns, Complete
  <2> QED
    BY <1>0, <1>1, <2>1, <2>2, <2>4, <2>5, <2>6
<1>16. CASE PrintsBanner
  <2>1. ~file.ownerless /\ procs["ui"].at = "prints"
    BY <1>16 DEF PrintsBanner, StartUpInv
  <2> QED
    BY <1>0, <1>3, <1>16, <2>1
       DEF PrintsBanner, StageOK, BeforeRebuilt, StartStages, PastColumns, Complete
<1>17. ASSUME NEW p \in Procs, Breaks(p) PROVE StartUpInv'
  BY <1>4, <1>17 DEF Breaks
<1>18. ASSUME NEW p \in Procs, Indexes(p) PROVE StartUpInv'
  <2>1. PICK kept \in SUBSET (1..MaxFragments) :
          file' = [file EXCEPT !.chunks = kept, !.mirror = Follow(kept)] /\ written' = kept
    BY <1>18 DEF Indexes
  <2>2. IsFiniteSet(kept)
    <3>1. MaxFragments \in Int /\ 1 \in Int
      BY DEF StartAssumption
    <3> QED
      BY <3>1, FS_Interval, FS_Subset
  <2>3. /\ file' \in FileType /\ file'.unique = file.unique /\ file'.tables = file.tables
        /\ file'.columns = file.columns /\ file'.ownerless = file.ownerless
        /\ file'.chunks = kept /\ file'.mirror = Follow(kept) /\ procs' = procs
    <3> DEFINE new == Follow(kept)
    <3>1. new \in [rows : SUBSET Nat, there : BOOLEAN] /\ kept \in SUBSET Nat
      BY <1>0, <2>1 DEF FileType, Follow
    <3>2. file' = [file EXCEPT !.chunks = kept, !.mirror = new] /\ procs' = procs
      BY <1>18, <2>1 DEF Indexes
    <3> HIDE DEF new
    <3>3. /\ file' \in FileType /\ file'.unique = file.unique /\ file'.tables = file.tables
          /\ file'.columns = file.columns /\ file'.ownerless = file.ownerless
          /\ file'.chunks = kept /\ file'.mirror = new
      BY <1>0, <3>1, <3>2 DEF FileType
    <3> QED
      BY <3>2, <3>3 DEF new
  <2>4. FileOK'
    BY <1>0, <2>1, <2>2, <2>3 DEF FileOK, Follow
  <2>5. \A q \in Procs : StageOK(q)'
    BY <1>0, <2>3 DEF StageOK
  <2> QED
    BY <2>3, <2>4, <2>5 DEF StartUpInv
<1>19. CASE UNCHANGED startVars
  BY <1>19 DEF startVars, StartUpInv, FileOK, StageOK
<1> QED
  BY <1>5, <1>6, <1>7, <1>8, <1>9, <1>10, <1>11, <1>12, <1>13, <1>14, <1>15, <1>16, <1>17, <1>18, <1>19
     DEF StartNext, Prepares

LEMMA StartUpIsSound == StartUpInv => StartUpSound
BY DEF StartUpInv, FileOK, FileType, StageOK, StartUpSound, ServesWholeSchema, FragmentsKept,
       MirrorIsExact, RowsOwned, BeforeRebuilt, PastColumns, Complete, Procs, Tables

(* Whatever is broken off, and wherever: a process serves only a file with *)
(* today's schema, no fragment is lost, the mirror has the fragments       *)
(* (database.py), and two Agents live only when a UI died while its Agent  *)
(* was starting (supervisor.py).                                           *)
THEOREM StartIsSound == AgentSpec => []StartSound
<1>1. AgentInit => ((focus = "startUp" => StartUpInv) /\ (focus = "supervisor" => SupInv))
  BY StartUpStarts, SupStarts DEF AgentInit
<1>2. ASSUME (focus = "startUp" => StartUpInv) /\ (focus = "supervisor" => SupInv), [AgentNext]_agentVars
      PROVE  ((focus = "startUp" => StartUpInv) /\ (focus = "supervisor" => SupInv))'
  BY <1>2, FocusMoves, StartUpStep, SupStep
<1>3. ((focus = "startUp" => StartUpInv) /\ (focus = "supervisor" => SupInv)) => StartSound
  BY StartUpIsSound, SupIsSound DEF StartSound
<1> QED
  BY <1>1, <1>2, <1>3, PTL DEF AgentSpec

----------------------------------------------------------------------------
(* The browser tab.                                                        *)

SocketType == [chat : TabChats \cup {NoChat}, phase : {"none", "connecting", "open"}, busy : BOOLEAN]

Typed ==
  /\ DOMAIN stored \subseteq TabChats /\ \A c \in DOMAIN stored : stored[c] \in 0..MaxExchanges
  /\ cur \in TabChats \cup {NoChat} /\ deferred \in TabChats \cup {NoChat}
  /\ streaming \in BOOLEAN /\ typed \in BOOLEAN /\ model \in BOOLEAN
  /\ reconnects \in BOOLEAN /\ polling \in BOOLEAN
  /\ shown.chat \in TabChats \cup {NoChat} /\ shown.count \in 0..MaxExchanges
  /\ statsOf \in TabChats \cup {NoChat} /\ timer \in TabChats \cup {NoChat}
  /\ events \in {"connecting", "open", "waiting", "stopped"}
  /\ jobs \subseteq JobType

LEMMA TabTypes == Typed => TabTypeOK
BY DEF Typed, TabTypeOK

(* There is one socket, the one that is known, or none; a reconnect that is*)
(* due, the statistics shown and a refresh that waits are of the open chat.*)
TabInv ==
  /\ Typed
  /\ ws \in SocketType
  /\ ws = NoSocket \/ (ws.phase # "none" /\ ws.chat # NoChat)
  /\ sockets = IF ws = NoSocket THEN {} ELSE {ws}
  /\ timer # NoChat => timer = cur /\ ws = NoSocket
  /\ StatsOfOpenChat /\ RefreshWaitsForAnswer

LEMMA TabIsSound == TabInv => TabTypeOK /\ TabSound
<1> SUFFICES ASSUME TabInv PROVE Cardinality(sockets) <= 1
  BY TabTypes DEF TabInv, TabSound, OneSocket
<1>1. sockets = {} \/ sockets = {ws}
  BY DEF TabInv
<1>2. Cardinality({}) = 0 /\ Cardinality({ws}) = 1
  BY FS_EmptySet, FS_Singleton
<1> QED
  BY <1>1, <1>2

LEMMA TabStarts == TabInit => TabInv
<1> SUFFICES ASSUME TabInit PROVE TabInv
  OBVIOUS
<1>1. {Job("select", cur, "tree")} \subseteq JobType
  BY TabAssumption DEF TabInit, Job, JobType
<1>0. shown = [chat |-> NoChat, count |-> 0] /\ 0 \in 0..MaxExchanges
  BY TabAssumption DEF TabInit
<1>3. \A c \in DOMAIN stored : stored[c] \in 0..MaxExchanges
  BY <1>0 DEF TabInit
<1>4. DOMAIN stored \subseteq TabChats /\ jobs \subseteq JobType
  BY <1>1 DEF TabInit
<1>5. cur \in TabChats \cup {NoChat} /\ deferred \in TabChats \cup {NoChat}
  BY DEF TabInit
<1>6. streaming \in BOOLEAN /\ typed \in BOOLEAN /\ model \in BOOLEAN /\ reconnects \in BOOLEAN /\ polling \in BOOLEAN
  BY DEF TabInit
<1>7. shown.chat \in TabChats \cup {NoChat} /\ shown.count \in 0..MaxExchanges
  BY <1>0
<1>8. statsOf \in TabChats \cup {NoChat} /\ timer \in TabChats \cup {NoChat}
      /\ events \in {"connecting", "open", "waiting", "stopped"}
  BY DEF TabInit
<1>2. Typed
  BY <1>3, <1>4, <1>5, <1>6, <1>7, <1>8 DEF Typed
<1> QED
  BY <1>2 DEF TabInit, TabInv, SocketType, NoSocket, StatsOfOpenChat, RefreshWaitsForAnswer

(* What the functions that wait are made into.                             *)
LEMMA JobsTyped ==
  ASSUME NEW js \in SUBSET JobType
  PROVE  /\ \A j \in JobType : AsksStats(js, j) \subseteq JobType
         /\ \A j \in JobType : AfterStats(j) \subseteq JobType
         /\ \A k \in {"select", "refresh", "done", "stats", "event", "delete"}, c \in TabChats,
               at \in {"tree", "stats", "list", "asked"} : Job(k, c, at) \in JobType
         /\ \A c \in TabChats : Refreshed(js, c) \subseteq JobType
<1> USE TabAssumption
<1>1. \A j \in JobType : AfterStats(j) \subseteq JobType
  BY DEF JobType, AfterStats
<1>2. Aborted(js) \subseteq JobType
  BY <1>1 DEF Aborted
<1>0. 0 \in 0..MaxExchanges
  OBVIOUS
<1>3. \A j \in JobType : [j EXCEPT !.at = "stats", !.got = 0] \in JobType
  <2> TAKE j \in JobType
  <2> DEFINE k == [j EXCEPT !.at = "stats"]
  <2>1. k \in JobType
    BY DEF JobType
  <2>2. [j EXCEPT !.at = "stats", !.got = 0] = [k EXCEPT !.got = 0]
    OBVIOUS
  <2> HIDE DEF k
  <2> QED
    BY <1>0, <2>1, <2>2 DEF JobType
<1>4. \A k \in {"select", "refresh", "done", "stats", "event", "delete"}, c \in TabChats,
               at \in {"tree", "stats", "list", "asked"} : Job(k, c, at) \in JobType
  BY DEF JobType, Job
<1>5. \A c \in TabChats : Refreshed(js, c) \subseteq JobType
  BY <1>4 DEF Refreshed
<1> QED
  BY <1>1, <1>2, <1>3, <1>4, <1>5 DEF AsksStats

(* The shapes of what happens to the sockets.                              *)
LEMMA Disconnected ==
  ASSUME TabInv, NEW allow \in BOOLEAN, DisconnectWs(allow)
  PROVE  ws' = NoSocket /\ sockets' = {} /\ timer' = NoChat /\ reconnects' = allow
BY DEF TabInv, DisconnectWs

LEMMA Connected ==
  ASSUME TabInv, NEW c \in TabChats, ConnectWs(c)
  PROVE  /\ ws' \in SocketType /\ ws'.phase = "connecting" /\ ws'.chat = c
         /\ sockets' = {ws'} /\ timer' = NoChat /\ reconnects' = TRUE
BY DEF TabInv, ConnectWs, SocketType

LEMMA BecomesOther ==
  ASSUME TabInv, NEW new, Becomes(ws, new)
  PROVE  ws' = new /\ sockets' = IF new = NoSocket THEN {} ELSE {new}
BY DEF TabInv, Becomes

(* A socket is never mistaken for none.                                    *)
LEMMA SocketKept ==
  ASSUME NEW s \in SocketType, s.phase # "none"
  PROVE  s # NoSocket
BY DEF NoSocket, SocketType

LEMMA TabStep == ASSUME TabInv, [TabNext]_tabVars PROVE TabInv'
<1> USE TabAssumption
<1>0. Typed /\ jobs \in SUBSET JobType /\ ws \in SocketType
  BY DEF TabInv, Typed
\* Nothing about the sockets.
<1>1. ASSUME UNCHANGED chatSocket, UNCHANGED cur, Typed', StatsOfOpenChat', RefreshWaitsForAnswer'
      PROVE  TabInv'
  BY <1>1 DEF TabInv, chatSocket
\* The socket becomes another, while no reconnect is due.
<1>2. ASSUME NEW new \in SocketType, Becomes(ws, new), new.phase # "none" /\ new.chat # NoChat,
             ws # NoSocket, UNCHANGED cur, UNCHANGED timer,
             Typed', StatsOfOpenChat', RefreshWaitsForAnswer'
      PROVE  TabInv'
  <2>1. ws' = new /\ sockets' = {new} /\ new # NoSocket
    BY <1>2, BecomesOther, SocketKept
  <2>2. timer' = NoChat
    BY <1>2 DEF TabInv
  <2> QED
    BY <1>2, <2>1, <2>2 DEF TabInv
<1>3. ASSUME NEW c \in TabChats, ConnectWs(c), Typed', StatsOfOpenChat', RefreshWaitsForAnswer'
      PROVE  TabInv'
  <2>1. ws' # NoSocket
    BY <1>3, Connected, SocketKept
  <2> QED
    BY <1>3, <2>1, Connected DEF TabInv
<1>4. ASSUME NEW allow \in BOOLEAN, DisconnectWs(allow), Typed', StatsOfOpenChat', RefreshWaitsForAnswer'
      PROVE  TabInv'
  <2>1. NoSocket \in SocketType
    BY DEF SocketType, NoSocket
  <2>2. ws' = NoSocket /\ sockets' = {} /\ timer' = NoChat
    BY <1>4, Disconnected
  <2> QED
    BY <1>4, <2>1, <2>2 DEF TabInv
<1>5. ws # NoSocket => ws.phase # "none" /\ ws.chat \in TabChats /\ timer = NoChat
  BY DEF TabInv, SocketType
<1>6. ws.phase # "none" \/ ws.busy => ws # NoSocket
  BY DEF NoSocket
<1>7. CASE WsOpens
  <2>1. ws.phase = "connecting" /\ ws # NoSocket /\ ws.chat \in TabChats
    BY <1>5, <1>6, <1>7 DEF WsOpens
  <2>2. jobs' \subseteq JobType
    <3>1. CASE cur = ws.chat
      <4>1. Job("stats", cur, "stats") \in JobType
        BY <1>0, <2>1, <3>1, JobsTyped
      <4> QED
        BY <1>0, <1>7, <3>1, <4>1, JobsTyped DEF WsOpens
    <3> QED
      BY <1>0, <1>7, <3>1 DEF WsOpens
  <2>3. \E new \in SocketType : Becomes(ws, new) /\ new.phase = "open" /\ new.chat = ws.chat
    <3>1. CASE typed /\ cur # NoChat /\ ~streaming /\ model
      <4> DEFINE new == [ws EXCEPT !.phase = "open", !.busy = TRUE]
      <4>1. new \in SocketType /\ new.phase = "open" /\ new.chat = ws.chat
        BY <1>0 DEF SocketType
      <4> QED
        BY <1>7, <3>1, <4>1 DEF WsOpens, Sends
    <3>2. CASE ~(typed /\ cur # NoChat /\ ~streaming /\ model)
      <4> DEFINE new == [ws EXCEPT !.phase = "open"]
      <4>1. new \in SocketType /\ new.phase = "open" /\ new.chat = ws.chat
        BY <1>0 DEF SocketType
      <4> QED
        BY <1>7, <3>2, <4>1 DEF WsOpens
    <3> QED
      BY <3>1, <3>2
  <2>4. streaming' \in BOOLEAN /\ typed' \in BOOLEAN /\ (streaming => streaming')
    BY <1>0, <1>7 DEF WsOpens, Sends, Typed
  <2>5. Typed' /\ StatsOfOpenChat' /\ RefreshWaitsForAnswer'
    BY <1>0, <1>7, <2>2, <2>4
       DEF WsOpens, TabInv, Typed, StatsOfOpenChat, RefreshWaitsForAnswer, loaded, eventSide
  <2>6. UNCHANGED cur /\ UNCHANGED timer
    BY <1>7 DEF WsOpens
  <2> QED
    BY <1>2, <2>1, <2>3, <2>5, <2>6, TabAssumption
<1>8. CASE WsCloses
  <2>1. ws' = NoSocket /\ sockets' = {} /\ NoSocket \in SocketType
    BY <1>8, BecomesOther DEF WsCloses, SocketType, NoSocket
  <2>2. reconnects' \in BOOLEAN /\ timer' \in {timer, ws.chat} /\ timer' \in TabChats \cup {NoChat}
    BY <1>0, <1>8 DEF WsCloses, Typed, SocketType
  <2>3. timer' # NoChat => timer' = cur
    BY <1>8 DEF WsCloses, TabInv
  <2>4. Typed' /\ StatsOfOpenChat' /\ RefreshWaitsForAnswer'
    BY <1>0, <1>8, <2>2
       DEF WsCloses, TabInv, Typed, StatsOfOpenChat, RefreshWaitsForAnswer, loaded, eventSide
  <2>5. cur' = cur
    BY <1>8 DEF WsCloses
  <2> QED
    BY <2>1, <2>3, <2>4, <2>5 DEF TabInv
<1>9. CASE TimerFires
  <2>1. timer \in TabChats /\ ConnectWs(timer)
    BY <1>0, <1>9 DEF TimerFires, Typed
  <2>2. timer' = NoChat /\ reconnects' = TRUE
    BY <2>1, Connected
  <2>3. Typed' /\ StatsOfOpenChat' /\ RefreshWaitsForAnswer'
    BY <1>0, <1>9, <2>2
       DEF TimerFires, TabInv, Typed, StatsOfOpenChat, RefreshWaitsForAnswer, loaded, eventSide
  <2> QED
    BY <1>3, <2>1, <2>3
\* A chat is opened.
<1>10. ASSUME NEW c \in TabChats, NEW js \in SUBSET JobType, SelectChat(c, js),
              DOMAIN stored' \subseteq TabChats, \A d \in DOMAIN stored' : stored'[d] \in 0..MaxExchanges,
              UNCHANGED <<streaming, typed, model, shown, eventSide>>
       PROVE  TabInv'
  <2>1. DisconnectWs(FALSE) /\ timer' = NoChat /\ reconnects' = FALSE
    BY <1>10, Disconnected DEF SelectChat
  <2>2. Job("select", c, "tree") \in JobType
    BY JobsTyped
  <2>3. jobs' \subseteq JobType
    BY <1>10, <2>2 DEF SelectChat
  <2>4. Typed'
    BY <1>0, <1>10, <2>1, <2>3 DEF SelectChat, Typed, eventSide
  <2>5. StatsOfOpenChat' /\ RefreshWaitsForAnswer'
    BY <1>10 DEF SelectChat, StatsOfOpenChat, RefreshWaitsForAnswer
  <2> QED
    BY <1>4, <2>1, <2>4, <2>5
<1>11. CASE UserSelects
  <2>1. PICK c \in DOMAIN stored : SelectChat(c, jobs)
    BY <1>11 DEF UserSelects
  <2>2. c \in TabChats /\ stored' = stored
    BY <1>0, <1>11 DEF UserSelects, Typed
  <2> QED
    BY <1>0, <1>10, <1>11, <2>1, <2>2 DEF UserSelects, Typed
<1>12. CASE UserSends
  <2>0. cur \in TabChats /\ cur' = cur /\ ~streaming
    BY <1>0, <1>12 DEF UserSends, Typed
  <2>1. deferred = NoChat
    BY <2>0 DEF TabInv, RefreshWaitsForAnswer
  <2>2. StatsOfOpenChat' /\ RefreshWaitsForAnswer'
    BY <1>12, <2>1 DEF UserSends, TabInv, StatsOfOpenChat, RefreshWaitsForAnswer, loaded
  <2>3. CASE ~model
    <3>1. Typed' /\ UNCHANGED chatSocket
      BY <1>0, <1>12, <2>3 DEF UserSends, Typed, loaded, eventSide, chatSocket
    <3> QED
      BY <1>1, <2>0, <2>2, <3>1
  <2>4. CASE model /\ ws.phase # "open"
    <3>1. ConnectWs(cur) /\ typed' = TRUE /\ streaming' = streaming
      BY <1>12, <2>4 DEF UserSends
    <3>2. timer' = NoChat /\ reconnects' = TRUE
      BY <2>0, <3>1, Connected
    <3>3. Typed'
      BY <1>0, <1>12, <2>0, <3>1, <3>2 DEF UserSends, Typed, loaded, eventSide
    <3> QED
      BY <1>3, <2>0, <2>2, <3>1, <3>3
  <2>5. CASE model /\ ws.phase = "open"
    <3> DEFINE new == [ws EXCEPT !.busy = TRUE]
    <3>1. new \in SocketType /\ new.phase = ws.phase /\ new.chat = ws.chat
      BY <1>0 DEF SocketType
    <3>2. Becomes(ws, new) /\ streaming' = TRUE /\ UNCHANGED <<typed, timer, reconnects>>
      BY <1>12, <2>5 DEF UserSends
    <3>3. Typed'
      BY <1>0, <1>12, <2>0, <3>2 DEF UserSends, Typed, loaded, eventSide
    <3>4. ws # NoSocket /\ new.phase # "none" /\ new.chat # NoChat
      BY <1>5, <1>6, <2>5, <3>1
    <3> HIDE DEF new
    <3> QED
      BY <1>2, <2>0, <2>2, <3>1, <3>2, <3>3, <3>4
  <2> QED
    BY <1>0, <2>3, <2>4, <2>5 DEF Typed
<1>13. CASE ModelsLoaded
  <2>0. model' \in BOOLEAN /\ cur' = cur
    BY <1>13 DEF ModelsLoaded
  <2>1. CASE UNCHANGED <<streaming, typed, chatSocket>>
    <3>1. Typed' /\ StatsOfOpenChat' /\ RefreshWaitsForAnswer' /\ UNCHANGED chatSocket
      BY <1>0, <1>13, <2>0, <2>1
         DEF ModelsLoaded, TabInv, Typed, StatsOfOpenChat, RefreshWaitsForAnswer, loaded, eventSide, chatSocket
    <3> QED
      BY <1>1, <2>0, <3>1
  <2>2. CASE ~UNCHANGED <<streaming, typed, chatSocket>>
    <3> DEFINE new == [ws EXCEPT !.phase = "open", !.busy = TRUE]
    <3>1. new \in SocketType /\ new.phase = "open" /\ new.chat = ws.chat
      BY <1>0 DEF SocketType
    <3>2. Becomes(ws, new) /\ streaming' = TRUE /\ typed' = FALSE /\ UNCHANGED <<timer, reconnects>>
          /\ ws.phase = "open"
      BY <1>13, <2>2 DEF ModelsLoaded, Sends
    <3>3. ws # NoSocket /\ new.chat # NoChat
      BY <1>5, <1>6, <3>1, <3>2
    <3> HIDE DEF new
    <3>4. Typed' /\ StatsOfOpenChat' /\ RefreshWaitsForAnswer'
      BY <1>0, <1>13, <2>0, <3>2
         DEF ModelsLoaded, TabInv, Typed, StatsOfOpenChat, RefreshWaitsForAnswer, loaded, eventSide
    <3> QED
      BY <1>2, <2>0, <3>1, <3>2, <3>3, <3>4
  <2> QED
    BY <2>1, <2>2
<1>14. CASE UserDeletes
  <2>1. PICK c \in DOMAIN stored :
          /\ stored' = [d \in DOMAIN stored \ {c} |-> stored[d]]
          /\ jobs' = jobs \cup {Job("delete", c, "asked")}
    BY <1>14 DEF UserDeletes
  <2>2. c \in TabChats /\ jobs' \subseteq JobType
    BY <1>0, <2>1, JobsTyped DEF Typed
  <2>3. Typed' /\ StatsOfOpenChat' /\ RefreshWaitsForAnswer' /\ UNCHANGED chatSocket /\ UNCHANGED cur
    BY <1>0, <1>14, <2>1, <2>2
       DEF UserDeletes, TabInv, Typed, StatsOfOpenChat, RefreshWaitsForAnswer, loaded, eventSide, chatSocket
  <2> QED
    BY <1>1, <2>3
\* An answer of the model has ended.
<1>15. ASSUME NEW js \in SUBSET JobType, StopsStreaming(js)
       PROVE  streaming' = FALSE /\ deferred' = NoChat /\ jobs' \subseteq JobType
  BY <1>0, <1>15, JobsTyped DEF StopsStreaming, Typed
<1>16. ASSUME ws.busy
       PROVE  LET new == [ws EXCEPT !.busy = FALSE] IN
              new \in SocketType /\ new.phase # "none" /\ new.chat # NoChat
  BY <1>0, <1>5, <1>6, <1>16 DEF SocketType
<1>17. CASE FrameDone
  <2> DEFINE js == IF cur = NoChat THEN jobs ELSE jobs \cup {Job("done", cur, "tree")}
             new == [ws EXCEPT !.busy = FALSE]
  <2>1. js \in SUBSET JobType
    BY <1>0, JobsTyped DEF Typed
  <2>2. StopsStreaming(js) /\ Becomes(ws, new) /\ UNCHANGED <<cur, timer>> /\ ws.busy
    BY <1>17 DEF FrameDone
  <2> HIDE DEF js
  <2>3. streaming' = FALSE /\ deferred' = NoChat /\ jobs' \subseteq JobType
    BY <1>15, <2>1, <2>2
  <2>4. DOMAIN stored' \subseteq TabChats /\ \A c \in DOMAIN stored' : stored'[c] \in 0..MaxExchanges
    <3>1. stored' = [stored EXCEPT ![ws.chat] = @ + 1] /\ ws.chat \in DOMAIN stored /\ stored[ws.chat] < MaxExchanges
      BY <1>17 DEF FrameDone
    <3>2. DOMAIN stored' = DOMAIN stored
      BY <3>1
    <3>3. \A c \in DOMAIN stored' : stored'[c] = IF c = ws.chat THEN stored[c] + 1 ELSE stored[c]
      BY <3>1
    <3> QED
      BY <1>0, <3>1, <3>2, <3>3 DEF Typed
  <2>5. statsOf' \in TabChats \cup {NoChat} /\ (statsOf' = statsOf \/ statsOf' = cur)
    BY <1>0, <1>17 DEF FrameDone, Typed
  <2>6. Typed' /\ StatsOfOpenChat' /\ RefreshWaitsForAnswer'
    BY <1>0, <1>17, <2>3, <2>4, <2>5
       DEF FrameDone, TabInv, Typed, StatsOfOpenChat, RefreshWaitsForAnswer, eventSide
  <2>7. new \in SocketType /\ new.phase # "none" /\ new.chat # NoChat /\ ws # NoSocket
    BY <1>6, <1>16, <2>2
  <2> HIDE DEF new
  <2> QED
    BY <1>2, <2>2, <2>6, <2>7
<1>18. CASE FrameError
  <2> DEFINE new == [ws EXCEPT !.busy = FALSE]
  <2>2. StopsStreaming(jobs) /\ Becomes(ws, new) /\ UNCHANGED <<cur, timer>> /\ ws.busy
    BY <1>18 DEF FrameError
  <2>3. streaming' = FALSE /\ deferred' = NoChat /\ jobs' \subseteq JobType
    BY <1>0, <1>15, <2>2
  <2>6. Typed' /\ StatsOfOpenChat' /\ RefreshWaitsForAnswer'
    BY <1>0, <1>18, <2>3
       DEF FrameError, TabInv, Typed, StatsOfOpenChat, RefreshWaitsForAnswer, eventSide, loaded
  <2>7. new \in SocketType /\ new.phase # "none" /\ new.chat # NoChat /\ ws # NoSocket
    BY <1>6, <1>16, <2>2
  <2> HIDE DEF new
  <2> QED
    BY <1>2, <2>2, <2>6, <2>7
<1>19. CASE HttpExchange
  <2>1. PICK c \in DOMAIN stored :
          /\ stored[c] < MaxExchanges
          /\ stored' = [stored EXCEPT ![c] = @ + 1]
          /\ IF events = "open"
             THEN jobs' = jobs \cup {Job("event", c, "list")}
             ELSE UNCHANGED jobs
    BY <1>19 DEF HttpExchange
  <2>2. c \in TabChats /\ jobs' \subseteq JobType
    BY <1>0, <2>1, JobsTyped DEF Typed
  <2>3. DOMAIN stored' \subseteq TabChats /\ \A d \in DOMAIN stored' : stored'[d] \in 0..MaxExchanges
    <3>1. DOMAIN stored' = DOMAIN stored
      BY <2>1
    <3>2. \A d \in DOMAIN stored' : stored'[d] = IF d = c THEN stored[d] + 1 ELSE stored[d]
      BY <2>1
    <3> QED
      BY <1>0, <2>1, <3>1, <3>2 DEF Typed
  <2>4. Typed' /\ StatsOfOpenChat' /\ RefreshWaitsForAnswer' /\ UNCHANGED chatSocket /\ UNCHANGED cur
    BY <1>0, <1>19, <2>2, <2>3
       DEF HttpExchange, TabInv, Typed, StatsOfOpenChat, RefreshWaitsForAnswer, loaded, eventSide, chatSocket
  <2> QED
    BY <1>1, <2>4
<1>20. CASE EventsOpen \/ EventsClose \/ EventsTimer
  <2>1. Typed' /\ StatsOfOpenChat' /\ RefreshWaitsForAnswer' /\ UNCHANGED chatSocket /\ UNCHANGED cur
    BY <1>0, <1>20
       DEF EventsOpen, EventsClose, EventsTimer, TabInv, Typed, StatsOfOpenChat, RefreshWaitsForAnswer,
           loaded, chatSocket
  <2> QED
    BY <1>1, <2>1
<1>21. ASSUME NEW j \in jobs, TreeServed(j) \/ TreeFails(j) PROVE TabInv'
  <2>1. jobs' \subseteq JobType
    <3>1. CASE TreeFails(j)
      BY <1>0, <3>1 DEF TreeFails
    <3>2. CASE TreeServed(j)
      <4>1. j \in JobType /\ stored[j.chat] \in 0..MaxExchanges
        BY <1>0, <3>2 DEF TreeServed, Typed
      <4>2. [j EXCEPT !.at = "arriving", !.got = stored[j.chat]] \in JobType
        BY <4>1 DEF JobType
      <4> QED
        BY <1>0, <3>2, <4>2 DEF TreeServed
    <3> QED
      BY <1>21, <3>1, <3>2
  <2>2. Typed' /\ StatsOfOpenChat' /\ RefreshWaitsForAnswer' /\ UNCHANGED chatSocket /\ UNCHANGED cur
    BY <1>0, <1>21, <2>1
       DEF TreeServed, TreeFails, TabInv, Typed, StatsOfOpenChat, RefreshWaitsForAnswer, loaded, eventSide, chatSocket
  <2> QED
    BY <1>1, <2>2
<1>22. ASSUME NEW j \in jobs, TreeArrives(j) PROVE TabInv'
  <2>1. j \in JobType /\ jobs \ {j} \in SUBSET JobType
    BY <1>0
  <2>2. jobs' \subseteq JobType
    BY <1>22, <2>1, JobsTyped DEF TreeArrives
  <2>3. shown'.chat \in TabChats /\ shown'.count \in 0..MaxExchanges
    BY <1>22, <2>1 DEF TreeArrives, JobType
  <2>4. Typed' /\ StatsOfOpenChat' /\ RefreshWaitsForAnswer' /\ UNCHANGED chatSocket /\ UNCHANGED cur
    BY <1>0, <1>22, <2>2, <2>3
       DEF TreeArrives, TabInv, Typed, StatsOfOpenChat, RefreshWaitsForAnswer, eventSide, chatSocket
  <2> QED
    BY <1>1, <2>4
<1>23. ASSUME NEW j \in jobs, StatsArrive(j) PROVE TabInv'
  <2>1. j \in JobType /\ jobs \ {j} \in SUBSET JobType /\ j.chat \in TabChats
    BY <1>0 DEF JobType
  <2>2. jobs' \subseteq JobType
    BY <1>23, <2>1, JobsTyped DEF StatsArrive
  <2>3. statsOf' \in {statsOf, NoChat} \/ statsOf' = cur
    BY <1>23 DEF StatsArrive, UpdateStats
  <2>4. Typed' /\ StatsOfOpenChat' /\ RefreshWaitsForAnswer' /\ UNCHANGED chatSocket /\ UNCHANGED cur
    BY <1>0, <1>23, <2>2, <2>3
       DEF StatsArrive, TabInv, Typed, StatsOfOpenChat, RefreshWaitsForAnswer, eventSide, chatSocket
  <2> QED
    BY <1>1, <2>4
<1>24. ASSUME NEW j \in jobs, SelectEnds(j) PROVE TabInv'
  <2>1. j.chat \in TabChats /\ ConnectWs(j.chat)
    BY <1>0, <1>24 DEF SelectEnds, JobType
  <2>2. timer' = NoChat /\ reconnects' = TRUE
    BY <2>1, Connected
  <2>3. Typed' /\ StatsOfOpenChat' /\ RefreshWaitsForAnswer'
    BY <1>0, <1>24, <2>2
       DEF SelectEnds, TabInv, Typed, StatsOfOpenChat, RefreshWaitsForAnswer, loaded, eventSide
  <2> QED
    BY <1>3, <2>1, <2>3
<1>25. ASSUME NEW j \in jobs, ListArrives(j) PROVE TabInv'
  <2>1. j.chat \in TabChats /\ jobs \ {j} \in SUBSET JobType
    BY <1>0 DEF JobType
  <2>0. Refreshed(jobs \ {j}, j.chat) \subseteq JobType
    BY <2>1, JobsTyped
  <2>5. jobs' \subseteq JobType
    BY <1>25, <2>0, <2>1 DEF ListArrives
  <2>6. deferred' \in {deferred, j.chat}
    BY <1>25 DEF ListArrives
  <2>2. jobs' \subseteq JobType /\ deferred' \in TabChats \cup {NoChat}
    BY <1>0, <2>1, <2>5, <2>6 DEF Typed
  <2>3. RefreshWaitsForAnswer'
    BY <1>25 DEF ListArrives, TabInv, RefreshWaitsForAnswer
  <2>4. Typed' /\ StatsOfOpenChat' /\ UNCHANGED chatSocket /\ UNCHANGED cur
    BY <1>0, <1>25, <2>2
       DEF ListArrives, TabInv, Typed, StatsOfOpenChat, loaded, eventSide, chatSocket
  <2> QED
    BY <1>1, <2>3, <2>4
<1>26. ASSUME NEW j \in jobs, DeleteArrives(j) PROVE TabInv'
  <2>1. j \in JobType /\ j.chat \in TabChats
    BY <1>0 DEF JobType
  <2>2. jobs' \subseteq JobType
    <3>1. 0 \in 0..MaxExchanges
      OBVIOUS
    <3>2. [j EXCEPT !.at = "list", !.got = 0] \in JobType
      BY <2>1, <3>1 DEF JobType
    <3> QED
      BY <1>0, <1>26, <3>2 DEF DeleteArrives, TabGoes
  <2>3. CASE cur = j.chat
    <3>1. cur' = NoChat /\ DisconnectWs(FALSE) /\ shown' = [chat |-> NoChat, count |-> 0]
      BY <1>26, <2>3 DEF DeleteArrives
    <3>2. timer' = NoChat /\ reconnects' = FALSE
      BY <3>1, Disconnected
    <3>3. shown'.chat = NoChat /\ shown'.count \in 0..MaxExchanges
      BY <3>1
    <3>4. Typed' /\ StatsOfOpenChat' /\ RefreshWaitsForAnswer'
      BY <1>0, <1>26, <2>2, <3>1, <3>2, <3>3
         DEF DeleteArrives, TabInv, Typed, StatsOfOpenChat, RefreshWaitsForAnswer, eventSide
    <3> QED
      BY <1>4, <3>1, <3>4
  <2>4. CASE cur # j.chat
    <3>1. Typed' /\ StatsOfOpenChat' /\ RefreshWaitsForAnswer' /\ UNCHANGED chatSocket /\ UNCHANGED cur
      BY <1>0, <1>26, <2>2, <2>4
         DEF DeleteArrives, TabInv, Typed, StatsOfOpenChat, RefreshWaitsForAnswer, eventSide, chatSocket
    <3> QED
      BY <1>1, <3>1
  <2> QED
    BY <2>3, <2>4
<1>27. ASSUME NEW j \in jobs, DeleteEnds(j) PROVE TabInv'
  <2>1. jobs \ {j} \in SUBSET JobType
    BY <1>0
  <2>2. CASE cur = NoChat /\ stored # <<>>
    <3>1. PICK c \in DOMAIN stored : SelectChat(c, jobs \ {j})
      BY <1>27, <2>2 DEF DeleteEnds
    <3>2. c \in TabChats /\ stored' = stored
      BY <1>0, <1>27 DEF DeleteEnds, Typed
    <3> QED
      BY <1>0, <1>10, <1>27, <2>1, <3>1, <3>2 DEF DeleteEnds, Typed
  <2>3. CASE ~(cur = NoChat /\ stored # <<>>)
    <3>1. Typed' /\ StatsOfOpenChat' /\ RefreshWaitsForAnswer' /\ UNCHANGED chatSocket /\ UNCHANGED cur
      BY <1>0, <1>27, <2>1, <2>3
         DEF DeleteEnds, TabInv, Typed, StatsOfOpenChat, RefreshWaitsForAnswer, eventSide, chatSocket
    <3> QED
      BY <1>1, <3>1
  <2> QED
    BY <2>2, <2>3
<1>28. CASE UNCHANGED tabVars
  <2>1. Typed' /\ StatsOfOpenChat' /\ RefreshWaitsForAnswer' /\ UNCHANGED chatSocket /\ UNCHANGED cur
    BY <1>0, <1>28 DEF tabVars, TabInv, Typed, StatsOfOpenChat, RefreshWaitsForAnswer, chatSocket
  <2> QED
    BY <1>1, <2>1
<1> QED
  BY <1>7, <1>8, <1>9, <1>11, <1>12, <1>13, <1>14, <1>17, <1>18, <1>19, <1>20, <1>21, <1>22, <1>23,
     <1>24, <1>25, <1>26, <1>27, <1>28 DEF TabNext, TabAnswers

----------------------------------------------------------------------------
(* A list that is kept current.                                            *)

(* The list asked for, and an answer to it.                                *)
Rowings == [PanelItems -> 0..MaxItemChanges]
LoadType == [id : Nat, got : Rowings \cup {Asked}, current : BOOLEAN]
ActionType == [item : PanelItems, change : 1..Gone, current : BOOLEAN]

PanelTyped ==
  /\ panelOf \in {"scheduler", "kb"} /\ link \in BOOLEAN /\ polls \in BOOLEAN /\ slipped \in BOOLEAN
  /\ panelRows \in [PanelItems -> 0..Gone]
  /\ panel \in Rowings \cup {NotLoaded}
  /\ wire \in Seq(Frame) /\ Len(wire) <= EventsQueue
  /\ loads \subseteq LoadType /\ actions \subseteq ActionType
  /\ loadsMade \in 0..MaxLoads /\ actionsMade \in 0..MaxItemActions

(* An item is shown as the Agent has it, or a frame about it is on its way.*)
ShownOrOnWire(view, i) == view[i] = Current[i] \/ i \in ItemsOf(wire)
Shows(view) == \A i \in PanelItems : ShownOrOnWire(view, i)

(* The last frame about an item says what the Agent has.                   *)
LastTrue(frames, held) ==
  \A k \in DOMAIN frames :
    (\A m \in DOMAIN frames : m > k => frames[m].item # frames[k].item)
      => frames[k].change = held[frames[k].item]
LastFrameTrue == LastTrue(wire, panelRows)

PanelShows == link /\ ~slipped /\ panel # NotLoaded => Shows(panel) \/ loads # {}
LoadsShow ==
  link => \A l \in loads : l.current /\ l.got # Asked => Shows(l.got) \/ \E k \in loads : k.id > l.id
ActionsShow ==
  link /\ ~slipped => \A a \in actions : a.current => a.item \in ItemsOf(wire) \/ loads # {}

PanelInv ==
  /\ PanelTyped
  /\ ~link => wire = <<>>
  /\ \A l \in loads : l.id < loadsMade
  /\ panel = NotLoaded => actions = {}
  /\ LastFrameTrue /\ PanelShows /\ LoadsShow /\ ActionsShow

LEMMA PanelTypes == PanelTyped => PanelTypeOK
<1> SUFFICES ASSUME PanelTyped PROVE PanelTypeOK
  OBVIOUS
<1>1. \A l \in loads : l.got \in Rowings \cup {Asked} /\ l.current \in BOOLEAN
  BY DEF PanelTyped, LoadType
<1>2. \A a \in actions : [item |-> a.item, change |-> a.change] \in Frame /\ a.current \in BOOLEAN
  BY DEF PanelTyped, ActionType, Frame
<1>3. loadsMade <= MaxLoads /\ actionsMade <= MaxItemActions
  BY PanelAssumption DEF PanelTyped
<1> QED
  BY <1>1, <1>2, <1>3 DEF PanelTyped, PanelTypeOK, Rowings

LEMMA PanelIsSound == PanelInv => PanelTypeOK /\ PanelSound
<1> SUFFICES ASSUME PanelInv, panel # NotLoaded, link, wire = <<>>, loads = {}, ~slipped
             PROVE panel = Current
  BY PanelTypes DEF PanelInv, PanelSound
<1>1. \A i \in PanelItems : panel[i] = Current[i]
  BY DEF PanelInv, PanelShows, Shows, ShownOrOnWire, ItemsOf
<1>2. panel \in [PanelItems -> 0..MaxItemChanges]
  BY DEF PanelInv, PanelTyped, Rowings
<1>3. Current = [i \in PanelItems |-> Current[i]] /\ panel = [i \in PanelItems |-> panel[i]]
  BY <1>2 DEF Current
<1> QED
  BY <1>1, <1>3

LEMMA PanelStarts == PanelInit => PanelInv
<1> SUFFICES ASSUME PanelInit PROVE PanelInv
  OBVIOUS
<1> USE PanelAssumption
<1>0. 0 \in 0..Gone /\ 1 \in 0..Gone /\ 0 \in 0..MaxLoads /\ 0 \in 0..MaxItemActions
  BY DEF Gone
<1>1. panelRows \in [PanelItems -> 0..Gone]
  BY <1>0 DEF PanelInit
<1>2. wire = <<>> /\ wire \in Seq(Frame) /\ Len(wire) <= EventsQueue
  BY DEF PanelInit
<1>3. loads \subseteq LoadType /\ actions \subseteq ActionType /\ panel \in Rowings \cup {NotLoaded}
  BY DEF PanelInit
<1>4. PanelTyped
  BY <1>0, <1>1, <1>2, <1>3 DEF PanelInit, PanelTyped
<1>5. LastFrameTrue
  BY <1>2 DEF LastFrameTrue, LastTrue
<1> QED
  BY <1>2, <1>4, <1>5 DEF PanelInit, PanelInv, PanelShows, LoadsShow, ActionsShow

(* A frame more and a frame less on the wire.                              *)
LEMMA FrameAppended ==
  ASSUME NEW w \in Seq(Frame), NEW f \in Frame
  PROVE  /\ Append(w, f) \in Seq(Frame) /\ Len(Append(w, f)) = Len(w) + 1
         /\ ItemsOf(Append(w, f)) = ItemsOf(w) \cup {f.item}
         /\ \A held \in [PanelItems -> 0..Gone] :
              LastTrue(w, held) => LastTrue(Append(w, f), [held EXCEPT ![f.item] = f.change])
<1> DEFINE v == Append(w, f)
<1>1. v \in Seq(Frame) /\ Len(v) = Len(w) + 1 /\ DOMAIN v = 1..(Len(w) + 1) /\ DOMAIN w = 1..Len(w) /\ Len(w) \in Nat
  OBVIOUS
<1>2. \A k \in 1..Len(w) : v[k] = w[k]
  OBVIOUS
<1>3. v[Len(w) + 1] = f
  OBVIOUS
<1> HIDE DEF v
<1>4. ItemsOf(v) = ItemsOf(w) \cup {f.item}
  <2>1. \A k \in DOMAIN v : v[k].item \in ItemsOf(w) \cup {f.item}
    <3> SUFFICES ASSUME NEW k \in DOMAIN v PROVE v[k].item \in ItemsOf(w) \cup {f.item}
      OBVIOUS
    <3>1. CASE k = Len(w) + 1
      BY <3>1, <1>3
    <3>2. CASE k # Len(w) + 1
      <4>1. k \in 1..Len(w)
        BY <3>2, <1>1
      <4> QED
        BY <4>1, <1>1, <1>2 DEF ItemsOf
    <3> QED
      BY <3>1, <3>2
  <2>2. \A k \in DOMAIN w : k \in DOMAIN v /\ v[k] = w[k]
    BY <1>1, <1>2
  <2>3. Len(w) + 1 \in DOMAIN v
    BY <1>1
  <2> QED
    BY <2>1, <2>2, <2>3, <1>3 DEF ItemsOf
<1>5. ASSUME NEW held \in [PanelItems -> 0..Gone], LastTrue(w, held)
      PROVE LastTrue(v, [held EXCEPT ![f.item] = f.change])
  <2> SUFFICES ASSUME NEW k \in DOMAIN v, \A m \in DOMAIN v : m > k => v[m].item # v[k].item
               PROVE v[k].change = [held EXCEPT ![f.item] = f.change][v[k].item]
    BY DEF LastTrue
  <2>0. f.item \in PanelItems
    BY DEF Frame
  <2>1. CASE k = Len(w) + 1
    BY <2>0, <2>1, <1>3
  <2>2. CASE k # Len(w) + 1
    <3>1. k \in DOMAIN w /\ v[k] = w[k] /\ Len(w) + 1 \in DOMAIN v /\ Len(w) + 1 > k
      BY <2>2, <1>1, <1>2
    <3>2. f.item # w[k].item
      BY <3>1, <1>3
    <3>3. \A m \in DOMAIN w : m > k => w[m].item # w[k].item
      BY <3>1, <1>1, <1>2
    <3>4. w[k].change = held[w[k].item]
      BY <3>1, <3>3, <1>5 DEF LastTrue
    <3>5. w[k] \in Frame
      BY <3>1, <1>1
    <3>6. w[k].item \in PanelItems
      BY <3>5 DEF Frame
    <3> QED
      BY <3>1, <3>2, <3>4, <3>6
  <2> QED
    BY <2>1, <2>2
<1> QED
  BY <1>1, <1>4, <1>5 DEF v

LEMMA FrameTaken ==
  ASSUME NEW w \in Seq(Frame), w # <<>>
  PROVE  /\ Tail(w) \in Seq(Frame) /\ Len(Tail(w)) = Len(w) - 1 /\ Head(w) \in Frame
         /\ ItemsOf(w) = ItemsOf(Tail(w)) \cup {Head(w).item}
         /\ \A held \in [PanelItems -> 0..Gone] : LastTrue(w, held) =>
              /\ LastTrue(Tail(w), held)
              /\ Head(w).item \in ItemsOf(Tail(w)) \/ Head(w).change = held[Head(w).item]
<1> DEFINE v == Tail(w)
<1>1. /\ v \in Seq(Frame) /\ Len(v) = Len(w) - 1 /\ DOMAIN v = 1..(Len(w) - 1) /\ DOMAIN w = 1..Len(w)
      /\ Len(w) \in Nat /\ Len(w) > 0
  OBVIOUS
<1>2. \A k \in 1..(Len(w) - 1) : v[k] = w[k + 1]
  OBVIOUS
<1>3. Head(w) = w[1] /\ w[1] \in Frame
  BY <1>1
<1> HIDE DEF v
<1>0. \A k \in DOMAIN w : k = 1 \/ (k - 1 \in DOMAIN v /\ v[k - 1] = w[k])
  <2> SUFFICES ASSUME NEW k \in DOMAIN w, k # 1 PROVE k - 1 \in DOMAIN v /\ v[k - 1] = w[k]
    OBVIOUS
  <2>1. k - 1 \in 1..(Len(w) - 1) /\ (k - 1) + 1 = k
    BY <1>1
  <2> QED
    BY <2>1, <1>1, <1>2
<1>4. ItemsOf(w) = ItemsOf(v) \cup {w[1].item}
  <2>1. \A k \in DOMAIN v : k + 1 \in DOMAIN w /\ v[k] = w[k + 1]
    BY <1>1, <1>2
  <2>2. 1 \in DOMAIN w
    BY <1>1
  <2> QED
    BY <2>1, <2>2, <1>0 DEF ItemsOf
<1>5. ASSUME NEW held \in [PanelItems -> 0..Gone], LastTrue(w, held)
      PROVE LastTrue(v, held) /\ (w[1].item \in ItemsOf(v) \/ w[1].change = held[w[1].item])
  <2>1. LastTrue(v, held)
    <3> SUFFICES ASSUME NEW k \in DOMAIN v, \A m \in DOMAIN v : m > k => v[m].item # v[k].item
                 PROVE v[k].change = held[v[k].item]
      BY DEF LastTrue
    <3>1. k + 1 \in DOMAIN w /\ w[k + 1] = v[k] /\ k \in Nat /\ k >= 1
      BY <1>1, <1>2
    <3>2. ASSUME NEW m \in DOMAIN w, m > k + 1 PROVE w[m].item # w[k + 1].item
      <4>1. m # 1 /\ m - 1 > k
        BY <3>1, <3>2, <1>1
      <4> QED
        BY <4>1, <3>1, <1>0
    <3> QED
      BY <3>1, <3>2, <1>5 DEF LastTrue
  <2>2. ASSUME w[1].item \notin ItemsOf(v) PROVE w[1].change = held[w[1].item]
    <3>1. ASSUME NEW m \in DOMAIN w, m > 1 PROVE w[m].item # w[1].item
      <4>1. m # 1
        BY <3>1
      <4> QED
        BY <4>1, <2>2, <1>0 DEF ItemsOf
    <3>2. 1 \in DOMAIN w
      BY <1>1
    <3> QED
      BY <3>1, <3>2, <1>5 DEF LastTrue
  <2> QED
    BY <2>1, <2>2
<1> QED
  BY <1>1, <1>3, <1>4, <1>5 DEF v

(* What is overtaken is no longer current, and is otherwise as it was.     *)
LEMMA OvertakenLoads ==
  ASSUME NEW S \in SUBSET LoadType
  PROVE  /\ Overtaken(S) \subseteq LoadType
         /\ \A m \in Overtaken(S) : ~m.current /\ \E l \in S : m.id = l.id
         /\ S # {} => Overtaken(S) # {}
BY DEF Overtaken, LoadType

LEMMA OvertakenActions ==
  ASSUME NEW S \in SUBSET ActionType
  PROVE  /\ Overtaken(S) \subseteq ActionType /\ \A m \in Overtaken(S) : ~m.current
         /\ S = {} => Overtaken(S) = {}
BY DEF Overtaken, ActionType

(* A change that the Agent publishes.                                      *)
LEMMA ChangeIsShown ==
  ASSUME PanelInv, NEW i \in PanelItems, NEW c \in NextChanges(i), Changes(i, c),
         UNCHANGED <<panelOf, panel, link, polls, loadsMade>>
  PROVE  /\ panelRows' \in [PanelItems -> 0..Gone] /\ c \in 1..Gone
         /\ wire' \in Seq(Frame) /\ Len(wire') <= EventsQueue /\ (~link => wire' = <<>>)
         /\ loads' \subseteq LoadType /\ (\A l \in loads' : l.id < loadsMade)
         /\ slipped' \in BOOLEAN
         /\ LastFrameTrue' /\ PanelShows' /\ LoadsShow'
         /\ link => i \in ItemsOf(wire')
         /\ link /\ ~slipped' =>
              \A a \in actions : a.current => a.item \in ItemsOf(wire') \/ loads' # {}
<1> USE PanelAssumption
<1>0. PanelTyped /\ wire \in Seq(Frame) /\ panelRows \in [PanelItems -> 0..Gone] /\ link \in BOOLEAN
  BY DEF PanelInv, PanelTyped
<1>1. c \in 1..Gone /\ c \in 0..Gone
  BY DEF NextChanges, Gone
<1>2. panelRows' = [panelRows EXCEPT ![i] = c] /\ panelRows' \in [PanelItems -> 0..Gone]
  BY <1>0, <1>1 DEF Changes
<1>3. \A x \in PanelItems : x # i => Current'[x] = Current[x]
  BY <1>0, <1>2 DEF Current
<1>4. CASE ~link
  <2>1. wire' = <<>> /\ slipped' = slipped /\ loads' = loads /\ ~link'
    BY <1>4 DEF Changes, PanelInv
  <2>2. LastFrameTrue'
    BY <2>1 DEF LastFrameTrue, LastTrue
  <2> QED
    BY <1>0, <1>1, <1>2, <1>4, <2>1, <2>2 DEF PanelInv, PanelTyped, PanelShows, LoadsShow
<1>5. CASE link
  <2> DEFINE f == [item |-> i, change |-> c]
             full == Len(wire) = EventsQueue
             rest == IF full THEN Tail(wire) ELSE wire
             kept == Append(rest, f)
             lost == full /\ Head(wire).item \notin ItemsOf(kept)
  <2>1. /\ wire' = kept /\ slipped' = (slipped \/ lost) /\ loads' = IF lost THEN Overtaken(loads) ELSE loads
    BY <1>5 DEF Changes
  <2>2. f \in Frame /\ f.item = i /\ f.change = c
    BY <1>1 DEF Frame
  <2>3. /\ rest \in Seq(Frame) /\ Len(rest) < EventsQueue
        /\ LastTrue(rest, panelRows)
        /\ \A x \in ItemsOf(wire) : x \in ItemsOf(rest) \/ (full /\ x = Head(wire).item)
    <3>1. CASE full
      <4>1. wire # <<>>
        BY <1>0, <3>1
      <4> QED
        BY <1>0, <3>1, <4>1, FrameTaken DEF PanelInv, LastFrameTrue, PanelTyped
    <3>2. CASE ~full
      <4>1. Len(wire) < EventsQueue
        BY <1>0, <3>2 DEF PanelTyped
      <4> QED
        BY <1>0, <3>2, <4>1 DEF PanelInv, LastFrameTrue
    <3> QED
      BY <3>1, <3>2
  <2> HIDE DEF rest, f
  <2>4. /\ kept \in Seq(Frame) /\ Len(kept) = Len(rest) + 1 /\ ItemsOf(kept) = ItemsOf(rest) \cup {i}
        /\ LastTrue(kept, [panelRows EXCEPT ![i] = c])
    <3> HIDE DEF kept
    <3>1. /\ Append(rest, f) \in Seq(Frame) /\ Len(Append(rest, f)) = Len(rest) + 1
          /\ ItemsOf(Append(rest, f)) = ItemsOf(rest) \cup {f.item}
          /\ LastTrue(rest, panelRows) => LastTrue(Append(rest, f), [panelRows EXCEPT ![f.item] = f.change])
      BY <1>0, <2>2, <2>3, FrameAppended
    <3> QED
      BY <2>2, <2>3, <3>1 DEF kept
  <2>5. Len(kept) <= EventsQueue
    BY <2>3, <2>4
  <2> HIDE DEF kept
  <2>6. \A x \in ItemsOf(wire) : lost \/ x \in ItemsOf(kept)
    BY <2>3, <2>4
  <2>7. lost \in BOOLEAN
    OBVIOUS
  <2> HIDE DEF lost
  <2>8. LastFrameTrue'
    BY <1>2, <2>1, <2>4 DEF LastFrameTrue
  <2>9. i \in ItemsOf(wire') /\ link' = link
    BY <2>1, <2>4
  <2>10. ASSUME NEW view, ~lost, Shows(view) PROVE Shows(view)'
    BY <1>3, <2>1, <2>6, <2>9, <2>10 DEF Shows, ShownOrOnWire
  <2>11. loads \in SUBSET LoadType
    BY <1>0 DEF PanelTyped
  <2>12. loads' \subseteq LoadType /\ (\A l \in loads' : l.id < loadsMade) /\ slipped' \in BOOLEAN /\ (loads # {} => loads' # {})
    <3>1. \A l \in loads : l.id < loadsMade
      BY DEF PanelInv
    <3> QED
      BY <1>0, <2>1, <2>7, <2>11, <3>1, OvertakenLoads DEF PanelTyped
  <2>13. PanelShows'
    <3> SUFFICES ASSUME ~slipped', panel # NotLoaded, loads' = {} PROVE Shows(panel)'
      BY DEF PanelShows, NotLoaded, Gone
    <3>1. ~lost /\ ~slipped
      BY <2>1
    <3>2. loads = {}
      BY <2>12
    <3> QED
      BY <1>5, <2>10, <3>1, <3>2 DEF PanelInv, PanelShows, Shows, ShownOrOnWire
  <2>14. LoadsShow'
    <3>1. CASE lost
      BY <2>1, <2>11, <3>1, OvertakenLoads DEF LoadsShow
    <3>2. CASE ~lost
      <4>1. loads' = loads
        BY <2>1, <3>2
      <4> QED
        BY <1>5, <2>10, <3>2, <4>1 DEF PanelInv, LoadsShow, Shows, ShownOrOnWire, Asked, NotLoaded, Gone
    <3> QED
      BY <3>1, <3>2
  <2>15. ~slipped' => \A a \in actions : a.current => a.item \in ItemsOf(wire') \/ loads' # {}
    BY <1>5, <2>1, <2>6, <2>12 DEF PanelInv, ActionsShow
  <2> QED
    BY <1>1, <1>2, <1>5, <2>1, <2>4, <2>5, <2>8, <2>9, <2>12, <2>13, <2>14, <2>15
<1> QED
  BY <1>0, <1>4, <1>5
(* A request for the list has an id above those of the others.             *)
LEMMA ListAskedFor ==
  ASSUME PanelTyped, NEW S \in SUBSET LoadType, \A l \in S : l.id < loadsMade, Loads(S)
  PROVE  /\ loads' \subseteq LoadType /\ loadsMade' \in 0..MaxLoads /\ loads' # {}
         /\ \A l \in loads' : l.id < loadsMade'
         /\ \A l \in loads' : l.got # Asked => l \in S /\ \E k \in loads' : k.id > l.id
<1> USE PanelAssumption
<1> DEFINE new == [id |-> loadsMade, got |-> Asked, current |-> TRUE]
<1>1. loadsMade \in Nat /\ loadsMade' = loadsMade + 1 /\ loadsMade' \in 0..MaxLoads /\ loads' = S \cup {new}
  BY DEF PanelTyped, Loads
<1>2. new \in LoadType /\ new.id = loadsMade /\ new.got = Asked
  BY <1>1 DEF LoadType
<1> HIDE DEF new
<1>3. \A l \in S : l.id \in Nat
  BY DEF LoadType
<1> QED
  BY <1>1, <1>2, <1>3

(* What the Agent does to the list, while nothing arrives.                 *)
LEMMA PanelStep == PanelInv /\ [PanelNext]_panelVars => PanelInv'
<1> SUFFICES ASSUME PanelInv, [PanelNext]_panelVars PROVE PanelInv'
  OBVIOUS
<1> USE PanelAssumption
<1>0. /\ PanelTyped /\ wire \in Seq(Frame) /\ panelRows \in [PanelItems -> 0..Gone] /\ link \in BOOLEAN
      /\ loads \in SUBSET LoadType /\ actions \in SUBSET ActionType /\ slipped \in BOOLEAN
      /\ (\A l \in loads : l.id < loadsMade) /\ loadsMade \in Nat
  BY DEF PanelInv, PanelTyped
<1>c. Rowings' = Rowings /\ NotLoaded' = NotLoaded /\ Asked' = Asked /\ LoadType' = LoadType /\ ActionType' = ActionType
      /\ Frame' = Frame
  BY DEF Rowings, NotLoaded, Asked, Gone, LoadType, ActionType, Frame
<1>r. ASSUME panelRows' = panelRows PROVE Current' = Current
  BY <1>r DEF Current, Gone
<1>1. ASSUME PanelEventsOpen PROVE PanelInv'
  <2>1. Loads(loads) /\ wire' = <<>> /\ link' = TRUE
    BY <1>1 DEF PanelEventsOpen
  <2>2. /\ loads' \subseteq LoadType /\ loadsMade' \in 0..MaxLoads /\ loads' # {}
        /\ \A l \in loads' : l.id < loadsMade'
        /\ \A l \in loads' : l.got # Asked => l \in loads /\ \E k \in loads' : k.id > l.id
    BY <1>0, <2>1, ListAskedFor
  <2>7. wire' \in Seq(Frame) /\ Len(wire') <= EventsQueue
    BY <2>1
  <2>3. PanelTyped'
    BY <1>0, <1>1, <1>c, <2>2, <2>7 DEF PanelEventsOpen, PanelTyped, Gone
  <2>4. LastFrameTrue' /\ PanelShows' /\ ActionsShow'
    BY <2>1, <2>2 DEF LastFrameTrue, LastTrue, PanelShows, ActionsShow
  <2>5. LoadsShow'
    BY <1>c, <2>2 DEF LoadsShow
  <2>6. panel' = panel /\ actions' = actions
    BY <1>1 DEF PanelEventsOpen
  <2> QED
    BY <1>c, <2>1, <2>2, <2>3, <2>4, <2>5, <2>6 DEF PanelInv
<1>2. ASSUME EventsDrop PROVE PanelInv'
  <2>1. ~link' /\ wire' = <<>>
    BY <1>2 DEF EventsDrop
  <2>4. wire' \in Seq(Frame) /\ Len(wire') <= EventsQueue
    BY <2>1
  <2>2. PanelTyped'
    BY <1>0, <1>2, <1>c, <2>4 DEF EventsDrop, PanelTyped, Gone
  <2>3. LastFrameTrue' /\ PanelShows' /\ ActionsShow' /\ LoadsShow'
    BY <2>1 DEF LastFrameTrue, LastTrue, PanelShows, ActionsShow, LoadsShow
  <2> QED
    BY <1>2, <1>c, <2>1, <2>2, <2>3 DEF EventsDrop, PanelInv
<1>3. ASSUME Polls PROVE PanelInv'
  <2>1. Loads(loads) /\ UNCHANGED <<panelOf, panelRows, panel, link, wire, polls, actions, actionsMade, slipped>>
    BY <1>3 DEF Polls
  <2>2. /\ loads' \subseteq LoadType /\ loadsMade' \in 0..MaxLoads /\ loads' # {}
        /\ \A l \in loads' : l.id < loadsMade'
        /\ \A l \in loads' : l.got # Asked => l \in loads /\ \E k \in loads' : k.id > l.id
    BY <1>0, <2>1, ListAskedFor
  <2>3. PanelTyped'
    BY <1>0, <1>c, <2>1, <2>2 DEF PanelTyped
  <2>4. LastFrameTrue' /\ PanelShows' /\ ActionsShow' /\ LoadsShow'
    BY <1>c, <2>1, <2>2 DEF PanelInv, LastFrameTrue, LastTrue, PanelShows, ActionsShow, LoadsShow
  <2> QED
    BY <1>c, <2>1, <2>2, <2>3, <2>4 DEF PanelInv
<1>4. ASSUME FrameArrives PROVE PanelInv'
  <2> DEFINE i == Head(wire).item
             c == Head(wire).change
  <2>1. /\ wire # <<>> /\ wire' = Tail(wire)
        /\ UNCHANGED <<panelOf, panelRows, link, polls, actionsMade, slipped>>
    BY <1>4 DEF FrameArrives
  <2>2. /\ wire' \in Seq(Frame) /\ Len(wire') = Len(wire) - 1 /\ Head(wire) \in Frame
        /\ ItemsOf(wire) = ItemsOf(wire') \cup {i}
        /\ LastFrameTrue' /\ (i \in ItemsOf(wire') \/ c = panelRows[i])
    BY <1>0, <2>1, FrameTaken DEF PanelInv, LastFrameTrue
  <2>3. link /\ Len(wire') <= EventsQueue
    BY <1>0, <2>1, <2>2 DEF PanelInv, PanelTyped
  <2>4. /\ Overtaken(loads) \in SUBSET LoadType /\ \A m \in Overtaken(loads) : ~m.current /\ m.id < loadsMade
        /\ loads # {} => Overtaken(loads) # {}
    BY <1>0, OvertakenLoads
  <2>5. CASE panel = NotLoaded
    <3>1. /\ UNCHANGED <<panel, actions>>
          /\ \/ loads' = Overtaken(loads) /\ UNCHANGED loadsMade
             \/ Loads(Overtaken(loads))
      BY <1>4, <2>5 DEF FrameArrives
    <3>2. CASE loads' = Overtaken(loads) /\ UNCHANGED loadsMade
      <4>1. PanelTyped'
        BY <1>0, <1>c, <2>1, <2>2, <2>3, <2>4, <3>1, <3>2 DEF PanelTyped
      <4>2. LoadsShow' /\ PanelShows' /\ ActionsShow'
        BY <1>c, <2>4, <2>5, <3>1, <3>2 DEF PanelInv, LoadsShow, PanelShows, ActionsShow
      <4> QED
        BY <1>c, <2>1, <2>2, <2>3, <2>4, <2>5, <3>1, <3>2, <4>1, <4>2 DEF PanelInv
    <3>3. CASE Loads(Overtaken(loads))
      <4>1. /\ loads' \subseteq LoadType /\ loadsMade' \in 0..MaxLoads /\ loads' # {}
            /\ \A l \in loads' : l.id < loadsMade'
            /\ \A l \in loads' : l.got # Asked => l \in Overtaken(loads) /\ \E k \in loads' : k.id > l.id
        BY <1>0, <2>4, <3>3, ListAskedFor
      <4>2. PanelTyped'
        BY <1>0, <1>c, <2>1, <2>2, <2>3, <3>1, <4>1 DEF PanelTyped
      <4>3. LoadsShow' /\ PanelShows' /\ ActionsShow'
        BY <1>c, <4>1 DEF LoadsShow, PanelShows, ActionsShow
      <4> QED
        BY <1>c, <2>1, <2>2, <2>3, <2>5, <3>1, <4>1, <4>2, <4>3 DEF PanelInv
    <3> QED
      BY <3>1, <3>2, <3>3
  <2>6. CASE panel # NotLoaded
    <3>1. /\ panel' = [panel EXCEPT ![i] = IF c = Gone THEN 0 ELSE c]
          /\ loads' = Overtaken(loads) /\ actions' = Overtaken(actions) /\ UNCHANGED loadsMade
      BY <1>4, <2>6 DEF FrameArrives, WithItem
    <3>2. i \in PanelItems /\ c \in 1..Gone
      BY <2>2 DEF Frame
    <3>3. panel \in Rowings
      BY <1>0, <2>6 DEF PanelTyped
    <3>4. panel' \in Rowings
      BY <3>1, <3>2, <3>3 DEF Rowings, Gone
    <3>5. panel' # NotLoaded
      BY <3>2, <3>4 DEF Rowings, NotLoaded, Gone
    <3>6. Overtaken(actions) \in SUBSET ActionType /\ \A m \in Overtaken(actions) : ~m.current
      BY <1>0, OvertakenActions
    <3>7. PanelTyped'
      BY <1>0, <1>c, <2>1, <2>2, <2>3, <2>4, <3>1, <3>4, <3>6 DEF PanelTyped
    <3>8. LoadsShow' /\ ActionsShow'
      BY <2>4, <3>1, <3>6 DEF LoadsShow, ActionsShow
    <3>9. PanelShows'
      <4> SUFFICES ASSUME ~slipped, loads' = {} PROVE Shows(panel)'
        BY <2>1 DEF PanelShows
      <4>1. Shows(panel)
        BY <2>3, <2>4, <2>6, <3>1 DEF PanelInv, PanelShows
      <4>2. SUFFICES ASSUME NEW x \in PanelItems PROVE panel'[x] = Current[x] \/ x \in ItemsOf(wire')
        BY <1>r, <2>1 DEF Shows, ShownOrOnWire
      <4>3. CASE x = i
        <5>1. ASSUME c = panelRows[i] PROVE panel'[x] = Current[x]
          BY <3>1, <3>2, <3>3, <4>3, <5>1 DEF Current, Rowings
        <5> QED
          BY <2>2, <4>3, <5>1
      <4>4. CASE x # i
        <5>1. panel'[x] = panel[x]
          BY <3>1, <3>3, <4>4 DEF Rowings
        <5> QED
          BY <2>2, <4>1, <4>4, <5>1 DEF Shows, ShownOrOnWire
      <4> QED
        BY <4>3, <4>4
    <3> QED
      BY <1>c, <2>1, <2>2, <2>3, <2>4, <3>1, <3>5, <3>7, <3>8, <3>9 DEF PanelInv
  <2> QED
    BY <2>5, <2>6
<1>5. ASSUME NEW i \in PanelItems, AgentChanges(i) PROVE PanelInv'
  <2>1. PICK c \in NextChanges(i) : Changes(i, c)
    BY <1>5 DEF AgentChanges
  <2>2. UNCHANGED <<panelOf, panel, link, polls, actions, loadsMade, actionsMade>>
    BY <1>5 DEF AgentChanges
  <2>3. /\ panelRows' \in [PanelItems -> 0..Gone]
        /\ wire' \in Seq(Frame) /\ Len(wire') <= EventsQueue /\ (~link => wire' = <<>>)
        /\ loads' \subseteq LoadType /\ (\A l \in loads' : l.id < loadsMade)
        /\ slipped' \in BOOLEAN
        /\ LastFrameTrue' /\ PanelShows' /\ LoadsShow'
        /\ link /\ ~slipped' =>
             \A a \in actions : a.current => a.item \in ItemsOf(wire') \/ loads' # {}
    BY <2>1, <2>2, ChangeIsShown
  <2>4. PanelTyped'
    BY <1>0, <1>c, <2>2, <2>3 DEF PanelTyped, Gone
  <2>5. ActionsShow'
    BY <2>2, <2>3 DEF ActionsShow
  <2> QED
    BY <1>c, <2>2, <2>3, <2>4, <2>5 DEF PanelInv
<1>6. ASSUME NEW i \in PanelItems, UserActs(i) PROVE PanelInv'
  <2>1. PICK c \in NextChanges(i) :
          /\ Changes(i, c)
          /\ actions' = actions \cup {[item |-> i, change |-> c, current |-> TRUE]}
    BY <1>6 DEF UserActs
  <2>2. /\ UNCHANGED <<panelOf, panel, link, polls, loadsMade>>
        /\ panel # NotLoaded /\ actionsMade < MaxItemActions /\ actionsMade' = actionsMade + 1
    BY <1>6 DEF UserActs
  <2>3. /\ panelRows' \in [PanelItems -> 0..Gone] /\ c \in 1..Gone
        /\ wire' \in Seq(Frame) /\ Len(wire') <= EventsQueue /\ (~link => wire' = <<>>)
        /\ loads' \subseteq LoadType /\ (\A l \in loads' : l.id < loadsMade)
        /\ slipped' \in BOOLEAN
        /\ LastFrameTrue' /\ PanelShows' /\ LoadsShow'
        /\ link => i \in ItemsOf(wire')
        /\ link /\ ~slipped' =>
             \A a \in actions : a.current => a.item \in ItemsOf(wire') \/ loads' # {}
    BY <2>1, <2>2, ChangeIsShown
  <2>4. [item |-> i, change |-> c, current |-> TRUE] \in ActionType
    BY <2>3 DEF ActionType
  <2>8. actionsMade \in 0..MaxItemActions /\ MaxItemActions \in Nat
    BY DEF PanelInv, PanelTyped
  <2>9. actionsMade' \in 0..MaxItemActions
    BY <2>2, <2>8
  <2>5. actions' \subseteq ActionType /\ actionsMade' \in 0..MaxItemActions
    BY <1>0, <2>1, <2>4, <2>9
  <2>6. PanelTyped'
    BY <1>0, <1>c, <2>2, <2>3, <2>5 DEF PanelTyped, Gone
  <2>7. ActionsShow'
    BY <2>1, <2>2, <2>3 DEF ActionsShow
  <2> QED
    BY <1>c, <2>2, <2>3, <2>6, <2>7 DEF PanelInv
<1>7. ASSUME NEW l \in loads, ReadsRows(l) PROVE PanelInv'
  <2> DEFINE r == [l EXCEPT !.got = Current]
  <2>1. /\ l.got = Asked /\ loads' = (loads \ {l}) \cup {r}
        /\ UNCHANGED <<panelOf, panelRows, panel, link, wire, polls, actions, loadsMade, actionsMade, slipped>>
    BY <1>7 DEF ReadsRows
  <2>2. Current \in Rowings
    BY <1>0 DEF Current, Rowings, Gone
  <2>3. r \in LoadType /\ r.id = l.id /\ r.got = Current
    BY <1>0, <2>2 DEF LoadType
  <2> HIDE DEF r
  <2>4. loads' \subseteq LoadType /\ loads' # {} /\ \A k \in loads' : k.id < loadsMade
    BY <1>0, <2>1, <2>3
  <2>5. Current' = Current /\ ItemsOf(wire') = ItemsOf(wire)
    BY <1>r, <2>1
  <2>6. Shows(Current)'
    BY <2>5 DEF Shows, ShownOrOnWire
  <2>7. LoadsShow'
    <3> SUFFICES ASSUME link, NEW k \in loads', k.current, k.got # Asked
                 PROVE Shows(k.got)' \/ \E m \in loads' : m.id > k.id
      BY <1>c, <2>1 DEF LoadsShow
    <3>1. CASE k = r
      BY <2>3, <2>6, <3>1, <2>5
    <3>2. CASE k # r
      <4>1. k \in loads
        BY <2>1, <3>2
      <4>2. Shows(k.got) \/ \E m \in loads : m.id > k.id
        BY <4>1 DEF PanelInv, LoadsShow
      <4>3. \A m \in loads : \E n \in loads' : n.id = m.id
        BY <2>1, <2>3
      <4>4. Shows(k.got) => Shows(k.got)'
        BY <2>5 DEF Shows, ShownOrOnWire
      <4> QED
        BY <4>2, <4>3, <4>4
    <3> QED
      BY <3>1, <3>2
  <2>8. PanelShows' /\ ActionsShow'
    BY <2>4 DEF PanelShows, ActionsShow
  <2>9. LastFrameTrue'
    BY <2>1 DEF PanelInv, LastFrameTrue
  <2>10. PanelTyped'
    BY <1>0, <1>c, <2>1, <2>4 DEF PanelTyped, Gone
  <2> QED
    BY <1>c, <2>1, <2>4, <2>7, <2>8, <2>9, <2>10 DEF PanelInv
<1>8. ASSUME NEW l \in loads, PanelListArrives(l) PROVE PanelInv'
  <2>1. /\ l.got # Asked /\ panel' = l.got
        /\ loads' = {IF k.id < l.id THEN [k EXCEPT !.current = FALSE] ELSE k : k \in loads \ {l}}
        /\ slipped' = ~l.current /\ actions' = Overtaken(actions)
        /\ UNCHANGED <<panelOf, panelRows, link, wire, polls, loadsMade, actionsMade>>
    BY <1>8 DEF PanelListArrives
  <2>2. l \in LoadType /\ panel' \in Rowings /\ panel' # NotLoaded /\ slipped' \in BOOLEAN
    BY <1>0, <2>1 DEF LoadType, Asked
  <2>3. \A k \in LoadType : [k EXCEPT !.current = FALSE] \in LoadType /\ [k EXCEPT !.current = FALSE].id = k.id
                            /\ ~[k EXCEPT !.current = FALSE].current
    BY DEF LoadType
  <2>4. loads' \subseteq LoadType /\ \A m \in loads' : m.id < loadsMade
    BY <1>0, <2>1, <2>3
  <2>5. \A m \in loads' : m.current => m \in loads /\ ~(m.id < l.id)
    BY <1>0, <2>1, <2>3
  <2>6. \A k \in loads : k.id > l.id => k \in loads'
    <3> SUFFICES ASSUME NEW k \in loads, k.id > l.id PROVE k \in loads'
      OBVIOUS
    <3>1. k.id \in Nat /\ l.id \in Nat
      BY <1>0 DEF LoadType
    <3>2. k # l /\ ~(k.id < l.id)
      BY <3>1
    <3> QED
      BY <2>1, <3>2
  <2>7. Current' = Current /\ ItemsOf(wire') = ItemsOf(wire)
    BY <1>r, <2>1
  <2>9. LoadsShow'
    <3> SUFFICES ASSUME link, NEW m \in loads', m.current, m.got # Asked
                 PROVE Shows(m.got)' \/ \E k \in loads' : k.id > m.id
      BY <1>c, <2>1 DEF LoadsShow
    <3>1. m \in loads /\ m.id >= l.id /\ m.id \in Nat /\ l.id \in Nat
      BY <1>0, <2>5 DEF LoadType
    <3>2. CASE Shows(m.got)
      BY <2>7, <3>2 DEF Shows, ShownOrOnWire
    <3>3. CASE ~Shows(m.got)
      <4>1. PICK k \in loads : k.id > m.id
        BY <3>1, <3>3 DEF PanelInv, LoadsShow
      <4>2. k.id > l.id
        BY <1>0, <3>1, <4>1 DEF LoadType
      <4> QED
        BY <2>6, <4>1, <4>2
    <3> QED
      BY <3>2, <3>3
  <2>10. PanelShows'
    <3> SUFFICES ASSUME link, l.current PROVE Shows(panel)' \/ loads' # {}
      BY <2>1 DEF PanelShows
    <3>1. Shows(l.got) \/ \E k \in loads : k.id > l.id
      BY <2>1 DEF PanelInv, LoadsShow
    <3>2. Shows(l.got) => Shows(panel)'
      BY <2>1, <2>7 DEF Shows, ShownOrOnWire
    <3> QED
      BY <2>6, <3>1, <3>2
  <2>11. actions' \subseteq ActionType /\ ActionsShow'
    BY <1>0, <2>1, OvertakenActions DEF ActionsShow
  <2>12. LastFrameTrue'
    BY <2>1 DEF PanelInv, LastFrameTrue
  <2>13. PanelTyped'
    BY <1>0, <1>c, <2>1, <2>2, <2>4, <2>11 DEF PanelTyped, Gone
  <2> QED
    BY <1>c, <2>1, <2>2, <2>4, <2>9, <2>10, <2>11, <2>12, <2>13 DEF PanelInv
<1>9. ASSUME NEW l \in loads, ListFails(l) PROVE PanelInv'
  <2>1. /\ loads' = Overtaken(loads \ {l}) /\ slipped' = TRUE
        /\ UNCHANGED <<panelOf, panelRows, panel, link, wire, polls, actions, loadsMade, actionsMade>>
    BY <1>9 DEF ListFails
  <2>2. loads' \subseteq LoadType /\ \A m \in loads' : ~m.current /\ m.id < loadsMade
    BY <1>0, <2>1, OvertakenLoads
  <2>3. PanelShows' /\ LoadsShow' /\ ActionsShow'
    BY <2>1, <2>2 DEF PanelShows, LoadsShow, ActionsShow
  <2>4. LastFrameTrue'
    BY <2>1 DEF PanelInv, LastFrameTrue
  <2>5. PanelTyped'
    BY <1>0, <1>c, <2>1, <2>2 DEF PanelTyped, Gone
  <2> QED
    BY <1>c, <2>1, <2>2, <2>3, <2>4, <2>5 DEF PanelInv
<1>10. ASSUME NEW a \in actions, ActionAnswered(a) PROVE PanelInv'
  <2>1. actions' = actions \ {a} /\ UNCHANGED <<panelOf, panelRows, link, wire, polls, actionsMade>>
    BY <1>10 DEF ActionAnswered
  <2>2. Current' = Current /\ ItemsOf(wire') = ItemsOf(wire) /\ LastFrameTrue'
    BY <1>r, <2>1 DEF PanelInv, LastFrameTrue
  <2>3. panel # NotLoaded /\ panel \in Rowings
    BY <1>0 DEF PanelInv, PanelTyped
  <2>4. CASE panelOf = "scheduler"
    <3>1. Loads(loads) /\ UNCHANGED <<panel, slipped>>
      BY <1>10, <2>4 DEF ActionAnswered
    <3>2. /\ loads' \subseteq LoadType /\ loadsMade' \in 0..MaxLoads /\ loads' # {}
          /\ \A l \in loads' : l.id < loadsMade'
          /\ \A l \in loads' : l.got # Asked => l \in loads /\ \E k \in loads' : k.id > l.id
      BY <1>0, <3>1, ListAskedFor
    <3>3. PanelTyped'
      BY <1>0, <1>c, <2>1, <3>1, <3>2 DEF PanelTyped, Gone
    <3>4. PanelShows' /\ ActionsShow' /\ LoadsShow'
      BY <1>c, <3>2 DEF PanelShows, ActionsShow, LoadsShow
    <3> QED
      BY <1>c, <2>1, <2>2, <2>3, <3>1, <3>2, <3>3, <3>4 DEF PanelInv
  <2>5. CASE panelOf # "scheduler"
    <3>1. /\ panel' = [panel EXCEPT ![a.item] = IF a.change = Gone THEN 0 ELSE a.change]
          /\ slipped' = (slipped \/ ~a.current)
          /\ loads' = Overtaken(loads) /\ UNCHANGED loadsMade
      BY <1>10, <2>5 DEF ActionAnswered, WithItem
    <3>2. a.item \in PanelItems /\ a.change \in 1..Gone /\ a.current \in BOOLEAN
      BY <1>0 DEF ActionType
    <3>3. panel' \in Rowings
      BY <2>3, <3>1, <3>2 DEF Rowings, Gone
    <3>4. panel' # NotLoaded
      BY <3>2, <3>3 DEF Rowings, NotLoaded, Gone
    <3>5. /\ loads' \subseteq LoadType /\ (\A m \in loads' : ~m.current /\ m.id < loadsMade)
          /\ loads # {} => loads' # {}
      BY <1>0, <3>1, OvertakenLoads
    <3>6. PanelTyped'
      BY <1>0, <1>c, <2>1, <3>1, <3>2, <3>3, <3>5 DEF PanelTyped, Gone
    <3>7. LoadsShow'
      BY <3>5 DEF LoadsShow
    <3>8. ActionsShow'
      BY <2>1, <2>2, <3>1, <3>5 DEF PanelInv, ActionsShow
    <3>9. PanelShows'
      <4> SUFFICES ASSUME link, ~slipped, a.current, loads' = {} PROVE Shows(panel)'
        BY <2>1, <3>1 DEF PanelShows
      <4>1. Shows(panel) /\ a.item \in ItemsOf(wire)
        BY <2>3, <3>5 DEF PanelInv, PanelShows, ActionsShow
      <4>2. \A x \in PanelItems : x # a.item => panel'[x] = panel[x]
        BY <2>3, <3>1 DEF Rowings
      <4> QED
        BY <2>2, <4>1, <4>2 DEF Shows, ShownOrOnWire
    <3> QED
      BY <1>c, <2>1, <2>2, <3>1, <3>4, <3>5, <3>6, <3>7, <3>8, <3>9 DEF PanelInv
  <2> QED
    BY <2>4, <2>5
<1>11. CASE UNCHANGED panelVars
  <2>1. Current' = Current
    BY <1>11, <1>r DEF panelVars
  <2>2. PanelTyped'
    BY <1>0, <1>c, <1>11 DEF PanelTyped, panelVars, Gone
  <2>3. LastFrameTrue' /\ PanelShows' /\ ActionsShow'
    BY <1>c, <1>11, <2>1 DEF PanelInv, LastFrameTrue, PanelShows, ActionsShow, Shows, ShownOrOnWire, panelVars
  <2>4. LoadsShow'
    BY <1>c, <1>11, <2>1 DEF PanelInv, LoadsShow, Shows, ShownOrOnWire, panelVars
  <2> QED
    BY <1>c, <1>11, <2>2, <2>3, <2>4 DEF PanelInv, panelVars
<1> QED
  BY <1>1, <1>2, <1>3, <1>4, <1>5, <1>6, <1>7, <1>8, <1>9, <1>10, <1>11 DEF PanelNext

(* What a tab shows is of the chat that is open (app.js), and a panel that *)
(* is connected shows what the Agent has.                                  *)
THEOREM ClientIsSound == AgentSpec => []ClientSound
<1> DEFINE CInv == (focus = "tab" => TabInv) /\ (focus = "panel" => PanelInv)
<1>1. AgentInit => CInv
  BY TabStarts, PanelStarts DEF AgentInit
<1>2. CInv /\ [AgentNext]_agentVars => CInv'
  <2> SUFFICES ASSUME CInv, [AgentNext]_agentVars PROVE CInv'
    OBVIOUS
  <2>1. UNCHANGED focus
    BY DEF AgentNext, OnlyMoves, agentVars
  <2>2. focus = "tab" => [TabNext]_tabVars
    BY FocusMoves
  <2>3. focus = "panel" => [PanelNext]_panelVars
    BY FocusMoves
  <2> QED
    BY <2>1, <2>2, <2>3, TabStep, PanelStep
<1>3. CInv => ClientSound
  BY TabIsSound, PanelIsSound DEF ClientSound
<1> QED
  BY <1>1, <1>2, <1>3, PTL DEF AgentSpec

----------------------------------------------------------------------------
(* When a job runs next.                                                   *)

LEMMA LeastNat == ASSUME NEW T \in SUBSET Nat, T # {} PROVE \E n \in T : \A m \in T : n <= m
<1> DEFINE R == OpToRel(<, Nat)
<1>1. IsWellFoundedOn(R, Nat)
  BY NatLessThanWellFounded
<1>2. \A m, n \in Nat : m < n => <<m, n>> \in R
  BY DEF OpToRel
<1> HIDE DEF R
<1>3. PICK n \in T : \A m \in T : <<m, n>> \notin R
  BY <1>1, WFMin
<1>4. ASSUME NEW m \in T PROVE n <= m
  <2>1. m \in Nat /\ n \in Nat /\ <<m, n>> \notin R
    BY <1>3
  <2>2. ~(m < n)
    BY <1>2, <2>1, Zenon
  <2> QED
    BY <2>1, <2>2
<1> QED
  BY <1>4

(* In every stretch of a day each time of the day is met.                  *)
LEMMA TimeMet ==
  ASSUME NEW n \in Nat \ {0}, NEW base \in Nat, NEW e \in 0..(n - 1)
  PROVE  \E w \in base..(base + n - 1) : w % n = e
<1> DEFINE q == base \div n
           r == base % n
<1>1. q \in Nat /\ r \in 0..(n - 1) /\ base = n * q + r
  OBVIOUS
<1> HIDE DEF q, r
<1>2. \A k \in Nat : (n * k + e) % n = e
  OBVIOUS
<1>3. CASE e >= r
  <2>1. n * q + e \in base..(base + n - 1)
    BY <1>1, <1>3
  <2> QED
    BY <1>1, <1>2, <2>1
<1>4. CASE e < r
  <2>1. n * (q + 1) = n * q + n
    BY <1>1
  <2>2. n * (q + 1) + e \in base..(base + n - 1)
    BY <1>1, <1>4, <2>1
  <2>3. (n * (q + 1) + e) % n = e
    BY <1>1, <1>2
  <2> QED
    BY <2>2, <2>3
<1> QED
  BY <1>1, <1>3, <1>4

(* The next slot of a cadence: the next one behind now.                    *)
LEMMA SlotOnCadence ==
  ASSUME NEW anchor \in Nat, NEW every \in Nat \ {0}, NEW now \in Nat, anchor <= now
  PROVE  LET next == NextInterval(anchor, every, now)
         IN  next \in Nat /\ next > now /\ next - every <= now /\ (next - anchor) % every = 0
<1> DEFINE q == (now - anchor) \div every
           r == (now - anchor) % every
<1>1. q \in Nat /\ r \in 0..(every - 1) /\ now - anchor = every * q + r
  OBVIOUS
<1>2. NextInterval(anchor, every, now) = anchor + every * (q + 1)
  BY DEF NextInterval
<1> HIDE DEF q, r
<1>3. every * (q + 1) = every * q + every /\ every * q \in Nat
  BY <1>1
<1>4. (every * (q + 1)) % every = 0
  BY <1>1
<1>5. (anchor + every * (q + 1)) - anchor = every * (q + 1)
  BY <1>1, <1>3
<1> QED
  BY <1>1, <1>2, <1>3, <1>4, <1>5

(* The next time of a cron expression: ahead, shown or skipped by the wall,*)
(* and the first one unless the clocks change.                             *)
LEMMA CronIsNext ==
  ASSUME NEW z \in Zones, NEW expr \in CronExprs, NEW now \in Nat, now >= Day
  PROVE  LET next == NextCron(z, expr, now) IN
         /\ next \in Nat /\ next > now
         /\ \/ Wall(z, next) % Day \in expr
            \/ /\ (next + z.before) % Day \in expr
               /\ next >= z.change /\ next + z.before - z.after < z.change
         /\ \/ next < z.change
            \/ now >= z.change /\ now - z.before + z.after >= z.change
            => \A u \in now + 1 .. next - 1 : Wall(z, u) % Day \notin expr
<1> DEFINE c == z.change
           b == z.before
           a == z.after
           from == Wall(z, now)
           S == WalkStops(z, expr, now)
<1>1. c \in Nat /\ b \in -Day .. Day /\ a \in -Day .. Day /\ Day \in Nat \ {0}
  BY TimesAssumption
<1>2. \A e \in expr : e \in 0..(Day - 1)
  BY TimesAssumption
<1>0. expr # {}
  BY TimesAssumption
<1>3. PICK e \in expr : e \in 0..(Day - 1)
  BY <1>0, <1>2
<1>4. from = now + (IF now < c THEN b ELSE a)
  BY DEF Wall
<1>5. \A w : FirstAt(z, w) = IF w - b < c \/ w - a < c THEN w - b ELSE w - a
  BY DEF FirstAt
<1>6. \A w : SecondAt(z, w) = IF w - b < c /\ w - a < c THEN w - b ELSE w - a
  BY DEF SecondAt
<1>7. \A u : Wall(z, u) = u + (IF u < c THEN b ELSE a)
  BY DEF Wall
<1>8. S = {w \in from + 1 .. from + 4 * Day : w % Day \in expr /\ (FirstAt(z, w) > now \/ SecondAt(z, w) > now)}
  BY DEF WalkStops
<1> HIDE DEF c, b, a, from, S
<1>9. from \in Int /\ from >= 0
  BY <1>1, <1>4
<1>10. S # {}
  <2> DEFINE m == IF b > a THEN b ELSE a
             base == now + m + 1
  <2>1. base \in Nat
    BY <1>1
  <2>2. PICK w \in base..(base + Day - 1) : w % Day = e
    BY <1>1, <1>3, <2>1, TimeMet
  <2>3. w - b > now /\ w - a > now /\ w \in from + 1 .. from + 4 * Day
    BY <1>1, <1>4, <2>2
  <2>4. FirstAt(z, w) > now
    BY <1>5, <2>3
  <2> QED
    BY <1>8, <2>2, <2>3, <2>4
<1>11. S \in SUBSET Nat
  BY <1>1, <1>8, <1>9
<1> DEFINE stop == Min(S)
<1>12. stop \in S /\ \A w \in S : stop <= w
  BY <1>10, <1>11, LeastNat DEF Min
<1> HIDE DEF stop
<1>13. /\ stop \in Int /\ stop > from /\ stop <= from + 4 * Day /\ stop % Day \in expr
       /\ FirstAt(z, stop) > now \/ SecondAt(z, stop) > now
  BY <1>1, <1>8, <1>9, <1>12
<1> DEFINE next == IF FirstAt(z, stop) > now THEN FirstAt(z, stop) ELSE SecondAt(z, stop)
<1>14. NextCron(z, expr, now) = next
  BY DEF NextCron, stop, S
<1>15. next \in Int /\ next > now /\ next \in Nat
  BY <1>1, <1>5, <1>6, <1>13
<1>16. Wall(z, next) = stop \/ (next + b = stop /\ next >= c /\ stop - a < c)
  BY <1>1, <1>5, <1>6, <1>7, <1>13
<1>17. \/ Wall(z, next) % Day \in expr
       \/ (next + b) % Day \in expr /\ next >= c /\ next + b - a < c
  BY <1>1, <1>13, <1>15, <1>16
<1>18. ASSUME next < c \/ (now >= c /\ now - b + a >= c), NEW u \in now + 1 .. next - 1,
              Wall(z, u) % Day \in expr
       PROVE  FALSE
  <2> DEFINE w == Wall(z, u)
  <2>1. u \in Int /\ now < u /\ u < next
    BY <1>15
  <2>2. w = u + (IF u < c THEN b ELSE a)
    BY <1>7
  <2> HIDE DEF w
  <2>3. w \in Int /\ w > from /\ (FirstAt(z, w) > now \/ SecondAt(z, w) > now)
    BY <1>1, <1>4, <1>5, <1>6, <1>15, <1>18, <2>1, <2>2
  <2>4. stop <= w
    <3>1. CASE w <= from + 4 * Day
      <4>1. w \in from + 1 .. from + 4 * Day /\ w % Day \in expr
        BY <1>1, <1>9, <1>18, <2>3, <3>1 DEF w
      <4> QED
        BY <1>8, <1>12, <2>3, <4>1
    <3>2. CASE w > from + 4 * Day
      BY <1>1, <1>9, <1>13, <2>3, <3>2
    <3> QED
      BY <1>1, <1>9, <2>3, <3>1, <3>2
  <2>5. CASE next < c
    BY <1>1, <1>4, <1>5, <1>6, <1>13, <1>15, <2>1, <2>2, <2>4, <2>5
  <2>6. CASE now >= c /\ now - b + a >= c
    BY <1>1, <1>4, <1>5, <1>6, <1>13, <1>15, <2>1, <2>2, <2>4, <2>6
  <2> QED
    BY <1>18, <2>5, <2>6
<1> HIDE DEF next
<1>19. next < c \/ (now >= c /\ now - b + a >= c) => \A u \in now + 1 .. next - 1 : Wall(z, u) % Day \notin expr
  BY <1>18
<1> QED
  BY <1>14, <1>15, <1>17, <1>19 DEF a, b, c

(* The clock does not run back, and a time that is set is one.             *)
TimesInv ==
  /\ zone \in Zones /\ clock \in Nat /\ clock >= Day
  /\ \/ timed.kind = "cron" /\ timed.spec \in CronExprs
     \/ timed.kind = "interval" /\ timed.spec \in Intervals
     \/ timed.kind = "once" /\ timed.spec \in Nat
  /\ due \in Nat \cup {NoTime}
  /\ TimesSound

LEMMA TimesStart == TimesInit => TimesInv
<1> SUFFICES ASSUME TimesInit PROVE TimesInv
  OBVIOUS
<1>1. Day \in Nat /\ clock = Day /\ due = NoTime
  BY TimesAssumption DEF TimesInit
<1>2. \/ timed.kind = "cron" /\ timed.spec \in CronExprs
      \/ timed.kind = "interval" /\ timed.spec \in Intervals
      \/ timed.kind = "once" /\ timed.spec \in Nat
  BY <1>1 DEF TimesInit
<1> QED
  BY <1>1, <1>2 DEF TimesInit, TimesInv, TimesSound, DueAhead, OnCadence, OnTheWall, FirstOfQuietDay

(* A time that is computed from now.                                       *)
LEMMA ComputedNow ==
  ASSUME TimesInv, UNCHANGED <<zone, timed>>, since'.at = clock, clock' = clock,
         timed.kind = "cron" => due' = NextCron(zone, timed.spec, clock),
         timed.kind = "interval" =>
           /\ due' \in Nat /\ due' > clock /\ due' - timed.spec <= clock
           /\ since'.slot # NoOccurrence => (due' - since'.slot) % timed.spec = 0,
         timed.kind = "once" => due' \in Nat \cup {NoTime}
  PROVE  TimesInv'
<1>1. CASE timed.kind = "cron"
  <2> DEFINE next == NextCron(zone, timed.spec, clock)
  <2>1. zone \in Zones /\ timed.spec \in CronExprs /\ clock \in Nat /\ clock >= Day
    BY <1>1 DEF TimesInv
  <2>2. /\ next \in Nat /\ next > clock
        /\ \/ Wall(zone, next) % Day \in timed.spec
           \/ /\ (next + zone.before) % Day \in timed.spec
              /\ next >= zone.change /\ next + zone.before - zone.after < zone.change
        /\ \/ next < zone.change
           \/ clock >= zone.change /\ clock - zone.before + zone.after >= zone.change
           => \A u \in clock + 1 .. next - 1 : Wall(zone, u) % Day \notin timed.spec
    BY <2>1, CronIsNext
  <2>3. due' = next
    BY <1>1
  <2> HIDE DEF next
  <2>4. \A u : Wall(zone, u)' = Wall(zone, u)
    BY DEF Wall
  <2>5. OnTheWall'
    BY <2>2, <2>3 DEF OnTheWall, Wall
  <2>6. FirstOfQuietDay'
    BY <2>2, <2>3 DEF FirstOfQuietDay, Quiet, Wall
  <2>7. DueAhead' /\ OnCadence'
    BY <1>1, <2>2, <2>3 DEF DueAhead, OnCadence
  <2> QED
    BY <1>1, <2>1, <2>2, <2>3, <2>5, <2>6, <2>7 DEF TimesInv, TimesSound
<1>2. CASE timed.kind = "interval"
  BY <1>2 DEF TimesInv, TimesSound, DueAhead, OnCadence, OnTheWall, FirstOfQuietDay
<1>3. CASE timed.kind = "once"
  BY <1>3 DEF TimesInv, TimesSound, DueAhead, OnCadence, OnTheWall, FirstOfQuietDay
<1> QED
  BY <1>1, <1>2, <1>3 DEF TimesInv

LEMMA TimesStep == TimesInv /\ [TimesNext]_timeVars => TimesInv'
<1> SUFFICES ASSUME TimesInv, [TimesNext]_timeVars PROVE TimesInv'
  OBVIOUS
<1>1. timed.kind = "interval" => timed.spec \in Nat \ {0}
  BY TimesAssumption DEF TimesInv
<1>2. clock \in Nat /\ NoTime = -1 /\ NoOccurrence = -1
  BY DEF TimesInv, NoTime, NoOccurrence
<1>3. timed.kind = "once" => timed.spec \in Nat
  BY DEF TimesInv
<1>4. timed.kind = "cron" => Fresh(clock) = NextCron(zone, timed.spec, clock)
  BY DEF Fresh
<1>5. timed.kind = "interval" => Fresh(clock) = clock + timed.spec
  BY DEF Fresh
<1>6. CASE CreatesJob
  BY <1>1, <1>2, <1>3, <1>4, <1>5, <1>6, ComputedNow DEF CreatesJob
<1>7. CASE Passes
  <2>1. clock' \in Nat /\ clock' >= clock /\ Day \in Nat
    BY <1>2, <1>7, TimesAssumption DEF Passes
  <2>2. UNCHANGED <<zone, timed, due, since>>
    BY <1>7 DEF Passes
  <2>3. TimesSound'
    BY <2>2 DEF TimesInv, TimesSound, DueAhead, OnCadence, OnTheWall, FirstOfQuietDay, Quiet, Wall
  <2>4. clock' >= Day
    BY <1>2, <2>1 DEF TimesInv
  <2> QED
    BY <2>1, <2>2, <2>3, <2>4 DEF TimesInv
<1>8. CASE ClaimsRun
  <2>1. due \in Nat /\ due <= clock /\ since' = [at |-> clock, slot |-> due] /\ UNCHANGED <<zone, clock, timed>>
    BY <1>2, <1>8 DEF ClaimsRun, TimesInv
  <2>2. timed.kind = "cron" => due' = NextCron(zone, timed.spec, clock)
    BY <1>8 DEF ClaimsRun
  <2>3. timed.kind = "interval" => due' = NextInterval(due, timed.spec, clock)
    BY <1>8 DEF ClaimsRun
  <2>4. timed.kind = "once" => due' = NoTime
    BY <1>8 DEF ClaimsRun
  <2>5. timed.kind = "interval" =>
          /\ due' \in Nat /\ due' > clock /\ due' - timed.spec <= clock
          /\ (due' - since'.slot) % timed.spec = 0
    BY <1>1, <1>2, <2>1, <2>3, SlotOnCadence
  <2> QED
    BY <2>1, <2>2, <2>4, <2>5, ComputedNow
<1>9. CASE ResumesJob
  BY <1>1, <1>2, <1>3, <1>4, <1>5, <1>9, ComputedNow DEF ResumesJob
<1>10. CASE UNCHANGED timeVars
  BY <1>10 DEF timeVars, TimesInv, TimesSound, DueAhead, OnCadence, OnTheWall, FirstOfQuietDay, Quiet, Wall
<1> QED
  BY <1>6, <1>7, <1>8, <1>9, <1>10 DEF TimesNext

(* The next time of a job is ahead, on its cadence or on the wall clock,   *)
(* and none is skipped (schedule.py), whenever the clocks change.          *)
THEOREM TimesAreSound == AgentSpec => []JobTimesSound
<1>1. AgentInit => (focus = "times" => TimesInv)
  BY TimesStart DEF AgentInit
<1>2. ASSUME focus = "times" => TimesInv, [AgentNext]_agentVars PROVE (focus = "times" => TimesInv)'
  BY <1>2, FocusMoves, TimesStep
<1>3. (focus = "times" => TimesInv) => JobTimesSound
  BY DEF TimesInv, JobTimesSound
<1> QED
  BY <1>1, <1>2, <1>3, PTL DEF AgentSpec
=============================================================================
