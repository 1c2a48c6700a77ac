--------------------------- MODULE ServicesProofs ---------------------------
(***************************************************************************)
(* Theorems about the components of MCServices, for every value of their   *)
(* constants.  The components do not meet: in each behaviour one of them   *)
(* moves, the one in focus, so each has an invariant of its own, which     *)
(* matters only under its focus (FocusMoves).                              *)
(*                                                                         *)
(* ThrottleInv: a block is as old as the guesses that led to it.           *)
(* AccessInv: what a request holds of a session or key is what is there,   *)
(* or the request was overtaken and comes to nothing.                      *)
(* MemInv: a request knows of an entry only what the table still says.     *)
(* RulesInv: what a turn recorded was among the rules it had read.         *)
(* ProvInv: a mark of a seed stays where it was left behind by its row.    *)
(* McpInv: who opens or closes a session works alone on its server, or the *)
(* server is one where a lock entry was dropped under a waiter.            *)
(* LmInv: who loads a model holds the lock and has seen the others off.    *)
(* KbInv: chunk ids only go up, so no index of a base, however old, lies.  *)
(***************************************************************************)
EXTENDS MCServices, FiniteSetTheorems, SequenceTheorems, WellFoundedInduction, TLAPS

(***************************************************************************)
(* TaskLifecycle, for every set of tasks, requests and turns and every     *)
(* MaxCalls: the audit trail is unbroken and explains the state, cancelled *)
(* is final, and a refused change changes nothing.                         *)
(***************************************************************************)
(* A waiting endpoint has loaded a row, and the row is still there. *)
LoadedCopyExists ==
  \A r \in Requests : request[r].pc = "loaded" =>
    request[r].copyState # Absent /\ state[request[r].task] # Absent

(* A task that does not exist has no audit rows. *)
NoEarlyHistory == \A t \in Tasks : state[t] = Absent => history[t] = <<>>

(* The inductive invariant in two halves: the tables, whose rows explain   *)
(* the states, and the clients of the lock with what they loaded.          *)
TablesOK ==
  /\ state \in [Tasks -> TaskState \cup {Absent}]
  /\ history \in [Tasks -> Seq(Row)]
  /\ NoEarlyHistory
  /\ HistoryExplainsState

ClientsOK ==
  /\ paused \in [Tasks -> BOOLEAN]
  /\ queue \in Seq(Clients)
  /\ request \in [Requests ->
       [pc : {"new", "loaded", "ok", "conflict", "failed"}, op : Operations,
        task : Tasks, copyState : TaskState \cup {Absent}, copyPaused : BOOLEAN]]
  /\ turn \in [Turns -> [pc : {"new", "queued", "ended"}, calls : 0..MaxCalls]]
  /\ LoadedCopyExists

IInv == TablesOK /\ ClientsOK

----------------------------------------------------------------------------
(* The writes of the service functions.  Each either appends a rejected    *)
(* row to one task's history and changes no state, or appends an accepted  *)
(* row that ends in the new state, or leaves both alone.                   *)

Kept == UNCHANGED <<state, history>>

RowsStay == \A t \in Tasks : state[t] # Absent => state'[t] # Absent

RejectedRow(t) ==
  /\ UNCHANGED <<state, paused>>
  /\ \E row \in Row : row.rejected /\ Log(t, row)

AcceptedRow(t) ==
  /\ UNCHANGED paused
  /\ \E row \in Row :
       /\ ~row.rejected
       /\ Log(t, row)
       /\ state' = [state EXCEPT ![t] = row.to]

LEMMA LegalTargetsType == \A s : LegalTargets(s) \subseteq TaskState
  BY DEF LegalTargets

LEMMA TransitionWrites ==
  ASSUME NEW t \in Tasks, NEW s \in TaskState, NEW new \in TaskState,
         TransitionTask(t, s, new)
  PROVE  RejectedRow(t) \/ AcceptedRow(t)
<1>1. Accepted(s, new) \in Row /\ ~Accepted(s, new).rejected /\ Accepted(s, new).to = new
  BY DEF Accepted, Row
<1>2. Rejected(s, new) \in Row /\ Rejected(s, new).rejected
  BY DEF Rejected, Row
<1> QED
  BY <1>1, <1>2 DEF TransitionTask, RejectedRow, AcceptedRow

LEMMA CancelWrites ==
  ASSUME NEW t \in Tasks, NEW s \in TaskState, CancelTask(t, s)
  PROVE  RejectedRow(t) \/ AcceptedRow(t)
<1> DEFINE c == "cancelled"
<1>1. Accepted(s, c) \in Row /\ ~Accepted(s, c).rejected /\ Accepted(s, c).to = c
  BY DEF Accepted, Row, TaskState
<1>2. Rejected(s, c) \in Row /\ Rejected(s, c).rejected
  BY DEF Rejected, Row, TaskState
<1> QED
  BY <1>1, <1>2 DEF CancelTask, RejectedRow, AcceptedRow

LEMMA PauseWrites ==
  ASSUME paused \in [Tasks -> BOOLEAN],
         NEW t \in Tasks, NEW s \in TaskState, NEW p \in BOOLEAN,
         NEW flag \in BOOLEAN, SetPaused(t, s, p, flag)
  PROVE  RejectedRow(t) \/ (Kept /\ paused' \in [Tasks -> BOOLEAN])
<1>1. Rejected(s, s) \in Row /\ Rejected(s, s).rejected
  BY DEF Rejected, Row
<1> QED
  BY <1>1 DEF SetPaused, RejectedRow, Kept

----------------------------------------------------------------------------
(* What such a write preserves. *)

LEMMA RejectedRowKeeps ==
  ASSUME TablesOK, NEW t \in Tasks, state[t] # Absent, RejectedRow(t)
  PROVE  TablesOK'
<1>1. PICK row \in Row : row.rejected /\ Log(t, row)
  BY DEF RejectedRow
<1>2. state' = state
  BY DEF RejectedRow
<1>3. history' \in [Tasks -> Seq(Row)]
  BY <1>1 DEF TablesOK, Log
<1>4. NoEarlyHistory'
  BY <1>1, <1>2 DEF TablesOK, Log, NoEarlyHistory
<1>5. HistoryExplainsState'
  <2> SUFFICES ASSUME NEW u \in Tasks, state[u] # Absent
               PROVE  \E i \in 1..Len(history'[u]) :
                        /\ LastAccepted(history'[u], i)
                        /\ history'[u][i].to = state[u]
    BY <1>2 DEF HistoryExplainsState
  <2>1. PICK i \in 1..Len(history[u]) :
          LastAccepted(history[u], i) /\ history[u][i].to = state[u]
    BY DEF TablesOK, HistoryExplainsState
  <2>2. CASE u # t
    BY <2>1, <2>2, <1>1 DEF Log, TablesOK
  <2>3. CASE u = t
    <3>1. history'[u] = Append(history[u], row) /\ history[u] \in Seq(Row)
      BY <1>1, <2>3 DEF Log, TablesOK
    <3>2. /\ Len(history'[u]) = Len(history[u]) + 1
          /\ \A k \in 1..Len(history[u]) : history'[u][k] = history[u][k]
          /\ history'[u][Len(history[u]) + 1] = row
          /\ Len(history[u]) \in Nat
      BY <3>1
    <3>3. ~history'[u][i].rejected /\ history'[u][i].to = state[u]
      BY <3>2, <2>1 DEF LastAccepted
    <3>4. ASSUME NEW j \in (i + 1)..Len(history'[u])
          PROVE  history'[u][j].rejected
      <4>1. CASE j = Len(history[u]) + 1
        BY <4>1, <3>2, <1>1
      <4>2. CASE j # Len(history[u]) + 1
        <5>1. j \in (i + 1)..Len(history[u]) /\ j \in 1..Len(history[u])
          BY <4>2, <3>2
        <5> QED
          BY <5>1, <3>2, <2>1 DEF LastAccepted
      <4> QED
        BY <4>1, <4>2
    <3>5. i \in 1..Len(history'[u])
      BY <3>2
    <3> QED
      BY <3>3, <3>4, <3>5 DEF LastAccepted
  <2> QED
    BY <2>2, <2>3
<1> QED
  BY <1>2, <1>3, <1>4, <1>5 DEF TablesOK

LEMMA AcceptedRowKeeps ==
  ASSUME TablesOK, NEW t \in Tasks, AcceptedRow(t)
  PROVE  TablesOK'
<1>1. PICK row \in Row : ~row.rejected /\ Log(t, row)
                         /\ state' = [state EXCEPT ![t] = row.to]
  BY DEF AcceptedRow
<1>2. row.to \in TaskState /\ row.to # Absent
  BY DEF Row, TaskState, Absent
<1>3. history' \in [Tasks -> Seq(Row)] /\ state' \in [Tasks -> TaskState \cup {Absent}]
  BY <1>1, <1>2 DEF TablesOK, Log
<1>4. NoEarlyHistory'
  BY <1>1, <1>2 DEF TablesOK, Log, NoEarlyHistory
<1>5. HistoryExplainsState'
  <2> SUFFICES ASSUME NEW u \in Tasks, state'[u] # Absent
               PROVE  \E i \in 1..Len(history'[u]) :
                        /\ LastAccepted(history'[u], i)
                        /\ history'[u][i].to = state'[u]
    BY DEF HistoryExplainsState
  <2>1. CASE u # t
    <3>1. history'[u] = history[u] /\ state'[u] = state[u]
      BY <1>1, <2>1 DEF Log, TablesOK
    <3> QED
      BY <3>1 DEF TablesOK, HistoryExplainsState
  <2>2. CASE u = t
    <3>1. history'[u] = Append(history[u], row) /\ history[u] \in Seq(Row)
          /\ state'[u] = row.to
      BY <1>1, <2>2 DEF Log, TablesOK
    <3>2. /\ Len(history'[u]) = Len(history[u]) + 1
          /\ history'[u][Len(history[u]) + 1] = row
          /\ Len(history[u]) \in Nat
      BY <3>1
    <3>3. LastAccepted(history'[u], Len(history[u]) + 1)
      BY <3>2, <1>1 DEF LastAccepted
    <3> QED
      BY <3>1, <3>2, <3>3
  <2> QED
    BY <2>1, <2>2
<1> QED
  BY <1>3, <1>4, <1>5 DEF TablesOK

LEMMA WritesKeepRows ==
  ASSUME TablesOK, NEW t \in Tasks, RejectedRow(t) \/ AcceptedRow(t) \/ Kept
  PROVE  RowsStay
<1>1. \A row \in Row : row.to # Absent
  BY DEF Row, TaskState, Absent
<1> QED
  BY <1>1 DEF TablesOK, RejectedRow, AcceptedRow, Kept, RowsStay

LEMMA KeptKeeps == TablesOK /\ Kept => TablesOK'
  BY DEF TablesOK, Kept, NoEarlyHistory, HistoryExplainsState

----------------------------------------------------------------------------
(* The steps. *)

LEMMA InitIInv == ASSUME TaskAssumption, Init PROVE IInv
<1>1. TablesOK
  BY DEF Init, TablesOK, NoEarlyHistory, HistoryExplainsState
<1>2. ClientsOK
  <2>1. request \in [Requests -> NoRequest(Tasks)] /\ paused \in [Tasks -> BOOLEAN]
        /\ queue \in Seq(Clients) /\ turn = [c \in Turns |-> [pc |-> "new", calls |-> 0]]
    BY DEF Init
  <2>2. 0 \in 0..MaxCalls
    BY DEF TaskAssumption
  <2>3. ASSUME NEW q \in NoRequest(Tasks)
        PROVE  /\ q \in [pc : {"new", "loaded", "ok", "conflict", "failed"},
                          op : Operations, task : Tasks,
                          copyState : TaskState \cup {Absent}, copyPaused : BOOLEAN]
               /\ q.pc = "new"
    BY DEF NoRequest
  <2> QED
    BY <2>1, <2>2, <2>3 DEF ClientsOK, LoadedCopyExists
<1> QED
  BY <1>1, <1>2 DEF IInv

(* Neither queue discipline leaves Seq(Clients). *)
LEMMA QueueSteps ==
  ASSUME TaskAssumption, queue \in Seq(Clients), NEW c \in Clients
  PROVE  /\ Join(c) => queue' \in Seq(Clients)
         /\ Holder = c /\ Release => queue' \in Seq(Clients)
<1>1. Join(c) => queue' \in Seq(Clients)
  BY DEF Join
<1>2. Holder = c => queue # <<>>
  BY DEF Holder, TaskAssumption
<1> QED
  BY <1>1, <1>2 DEF Release

(* A turn's tool call leaves the lock and the requests alone. *)
LEMMA CallGoesOn ==
  ASSUME TaskAssumption, ClientsOK, NEW c \in Turns, Calls(c),
         paused' \in [Tasks -> BOOLEAN], RowsStay
  PROVE  ClientsOK'
<1>1. turn' \in [Turns -> [pc : {"new", "queued", "ended"}, calls : 0..MaxCalls]]
  BY SMTT(30) DEF Calls, ClientsOK, TaskAssumption
<1>2. request' = request /\ queue' = queue
  BY DEF Calls
<1> QED
  BY <1>1, <1>2 DEF ClientsOK, LoadedCopyExists, RowsStay

LEMMA TurnStepIInv ==
  ASSUME TaskAssumption, IInv, NEW c \in Turns, TurnStep(c)
  PROVE  IInv'
<1> USE DEF IInv
<1>0. c \in Clients /\ queue \in Seq(Clients)
  BY DEF Clients, ClientsOK
<1>1. CASE TurnArrives(c)
  <2>1. queue' \in Seq(Clients)
    BY <1>0, <1>1, QueueSteps DEF TurnArrives
  <2>2. ClientsOK'
    BY <1>1, <2>1 DEF TurnArrives, ClientsOK, LoadedCopyExists
  <2> QED
    BY <1>1, <2>2, KeptKeeps DEF TurnArrives, Kept
<1>2. CASE ToolCreate(c)
  <2>1. PICK t \in Tasks : /\ state[t] = Absent
                           /\ state' = [state EXCEPT ![t] = "planning"]
                           /\ Log(t, Accepted(Absent, "planning"))
    BY <1>2 DEF ToolCreate
  <2>2. /\ Accepted(Absent, "planning") \in Row
        /\ ~Accepted(Absent, "planning").rejected
        /\ Accepted(Absent, "planning").to = "planning"
    BY DEF Accepted, Row, TaskState
  <2>3. AcceptedRow(t)
    BY <1>2, <2>1, <2>2 DEF ToolCreate, AcceptedRow
  <2>4. ClientsOK'
    BY <1>2, <2>3, CallGoesOn, WritesKeepRows DEF ToolCreate, ClientsOK
  <2> QED
    BY <2>3, <2>4, AcceptedRowKeeps
<1>3. CASE ToolTransition(c)
  <2>1. PICK t \in Tasks, new \in TaskState :
          state[t] # Absent /\ TransitionTask(t, state[t], new)
    BY <1>3 DEF ToolTransition
  <2>2. state[t] \in TaskState
    BY <2>1 DEF TablesOK
  <2>3. RejectedRow(t) \/ AcceptedRow(t)
    BY <2>1, <2>2, TransitionWrites
  <2>4. ClientsOK'
    BY <1>3, <2>1, <2>3, CallGoesOn, WritesKeepRows
       DEF ToolTransition, TransitionTask, ClientsOK
  <2> QED
    BY <2>1, <2>3, <2>4, RejectedRowKeeps, AcceptedRowKeeps
<1>4. CASE ToolPause(c)
  <2>1. PICK t \in Tasks, flag \in BOOLEAN :
          state[t] # Absent /\ SetPaused(t, state[t], paused[t], flag)
    BY <1>4 DEF ToolPause
  <2>2. state[t] \in TaskState /\ paused[t] \in BOOLEAN
    BY <2>1 DEF TablesOK, ClientsOK
  <2>3. RejectedRow(t) \/ (Kept /\ paused' \in [Tasks -> BOOLEAN])
    BY <2>1, <2>2, PauseWrites DEF ClientsOK
  <2>4. ClientsOK'
    BY <1>4, <2>3, CallGoesOn, WritesKeepRows DEF ToolPause, RejectedRow, ClientsOK
  <2> QED
    BY <2>1, <2>3, <2>4, RejectedRowKeeps, KeptKeeps
<1>5. CASE TurnEnds(c)
  <2>1. queue' \in Seq(Clients)
    BY <1>0, <1>5, QueueSteps DEF TurnEnds
  <2>2. ClientsOK'
    BY <1>5, <2>1 DEF TurnEnds, ClientsOK, LoadedCopyExists
  <2> QED
    BY <1>5, <2>2, KeptKeeps DEF TurnEnds, Kept
<1> QED
  BY <1>1, <1>2, <1>3, <1>4, <1>5 DEF TurnStep

LEMMA RequestStepIInv ==
  ASSUME TaskAssumption, IInv, NEW r \in Requests, RequestStep(r)
  PROVE  IInv'
<1> USE DEF IInv
<1>0. r \in Clients /\ queue \in Seq(Clients)
  BY DEF Clients, ClientsOK
<1>1. CASE Load(r)
  <2>1. queue' \in Seq(Clients)
    BY <1>0, <1>1, QueueSteps DEF Load
  <2>2. /\ request[r].task \in Tasks
        /\ state[request[r].task] \in TaskState \cup {Absent}
        /\ paused[request[r].task] \in BOOLEAN
    BY DEF ClientsOK, TablesOK
  <2>3. request' \in [Requests ->
          [pc : {"new", "loaded", "ok", "conflict", "failed"}, op : Operations,
           task : Tasks, copyState : TaskState \cup {Absent}, copyPaused : BOOLEAN]]
    <3> DEFINE q == request[r]
               new == [q EXCEPT !.pc = "loaded", !.copyState = state[q.task],
                                !.copyPaused = paused[q.task]]
    <3>1. new \in [pc : {"new", "loaded", "ok", "conflict", "failed"}, op : Operations,
                   task : Tasks, copyState : TaskState \cup {Absent}, copyPaused : BOOLEAN]
      <4>1. q \in [pc : {"new", "loaded", "ok", "conflict", "failed"}, op : Operations,
                   task : Tasks, copyState : TaskState \cup {Absent}, copyPaused : BOOLEAN]
        BY DEF ClientsOK
      <4>2. state[q.task] \in TaskState \cup {Absent} /\ paused[q.task] \in BOOLEAN
        BY <2>2
      <4> HIDE DEF q
      <4> QED
        BY <4>1, <4>2
    <3>2. request' = [request EXCEPT ![r] = new]
      BY <1>1 DEF Load, ClientsOK
    <3> HIDE DEF new
    <3> QED
      BY <3>1, <3>2 DEF ClientsOK
  <2>4. LoadedCopyExists'
    BY <1>1, <2>2 DEF Load, ClientsOK, LoadedCopyExists
  <2>5. ClientsOK'
    BY <1>1, <2>1, <2>3, <2>4 DEF Load, ClientsOK
  <2> QED
    BY <1>1, <2>5, KeptKeeps DEF Load, Kept
<1>2. CASE Serve(r)
  <2> DEFINE q == request[r]
             t == q.task
  <2>1. /\ q.pc = "loaded" /\ state[t] # Absent /\ t \in Tasks /\ q.copyPaused \in BOOLEAN
        /\ q.copyState \in TaskState
    BY <1>2 DEF Serve, ClientsOK, LoadedCopyExists
  <2>2. queue' \in Seq(Clients)
    BY <1>0, <1>2, QueueSteps DEF Serve
  <2>3. \/ RejectedRow(t)
        \/ AcceptedRow(t)
        \/ Kept /\ paused' \in [Tasks -> BOOLEAN]
    <3>1. CASE CancelTask(t, q.copyState)
      BY <2>1, <3>1, CancelWrites
    <3>2. ASSUME NEW flag \in BOOLEAN, SetPaused(t, q.copyState, q.copyPaused, flag)
          PROVE  RejectedRow(t) \/ (Kept /\ paused' \in [Tasks -> BOOLEAN])
      BY <2>1, <3>2, PauseWrites DEF ClientsOK
    <3> QED
      BY <1>2, <3>1, <3>2 DEF Serve
  <2>4. RowsStay /\ paused' \in [Tasks -> BOOLEAN]
    BY <2>1, <2>3, WritesKeepRows DEF RejectedRow, AcceptedRow, ClientsOK
  <2>5. PICK pc \in {"conflict", "ok"} : request' = [request EXCEPT ![r].pc = pc]
    BY <1>2 DEF Serve
  <2>6. request' \in [Requests ->
          [pc : {"new", "loaded", "ok", "conflict", "failed"}, op : Operations,
           task : Tasks, copyState : TaskState \cup {Absent}, copyPaused : BOOLEAN]]
    BY <2>5 DEF ClientsOK
  <2>7. LoadedCopyExists'
    BY <2>4, <2>5 DEF ClientsOK, LoadedCopyExists, RowsStay
  <2>8. turn' = turn
    BY <1>2 DEF Serve
  <2>9. ClientsOK'
    BY <2>2, <2>4, <2>6, <2>7, <2>8 DEF ClientsOK
  <2> QED
    BY <2>1, <2>3, <2>9, RejectedRowKeeps, AcceptedRowKeeps, KeptKeeps
<1>3. CASE ServeFails(r)
  <2>1. queue' \in Seq(Clients)
    BY <1>0, <1>3, QueueSteps DEF ServeFails
  <2>2. ClientsOK'
    BY <1>3, <2>1 DEF ServeFails, ClientsOK, LoadedCopyExists
  <2> QED
    BY <1>3, <2>2, KeptKeeps DEF ServeFails, Kept
<1> QED
  BY <1>1, <1>2, <1>3 DEF RequestStep

LEMMA NextIInv == ASSUME TaskAssumption, IInv, [Next]_vars PROVE IInv'
<1>1. CASE UNCHANGED vars
  BY <1>1, KeptKeeps DEF vars, IInv, Kept, ClientsOK, LoadedCopyExists
<1>2. CASE Next
  BY <1>2, TurnStepIInv, RequestStepIInv DEF Next
<1> QED
  BY <1>1, <1>2

(* The invariant the theorems rest on. *)
THEOREM SpecIInv == Spec => []IInv
<1>1. Init => IInv
  BY InitIInv, TaskAssumption
<1>2. IInv /\ [Next]_vars => IInv'
  BY NextIInv, TaskAssumption
<1> QED
  BY <1>1, <1>2, PTL DEF Spec

(* Every variable keeps its type, whatever turns and endpoints do.         *)
THEOREM TypeCorrect == Spec => []TypeOK
<1>1. IInv => TypeOK
  BY DEF IInv, TablesOK, ClientsOK, TypeOK
<1> QED
  BY <1>1, SpecIInv, PTL

(* The last accepted row of TaskTransition always explains Task.state:     *)
(* what agent/tasks.py logs and what it stores never drift apart.          *)
THEOREM AuditExplains == Spec => []HistoryExplainsState
<1>1. IInv => HistoryExplainsState
  BY DEF IInv, TablesOK
<1> QED
  BY <1>1, SpecIInv, PTL

(* No step, however stale its copy, revives a cancelled task.              *)
THEOREM CancelledStays == Spec => CancelledIsFinal
<1>1. ASSUME IInv, [Next]_vars, NEW t \in Tasks, state[t] = "cancelled"
      PROVE  state'[t] = "cancelled"
  <2>0. /\ state \in [Tasks -> TaskState \cup {Absent}]
        /\ state[t] # Absent
        /\ LegalTargets("cancelled") = {}
    BY <1>1 DEF IInv, TablesOK, Absent, LegalTargets, TerminalStates
  <2>1. CASE UNCHANGED vars
    BY <1>1, <2>1 DEF vars
  <2>2. ASSUME NEW c \in Turns, TurnStep(c) PROVE state'[t] = "cancelled"
    BY <1>1, <2>0, <2>2 DEF TurnStep, TurnArrives, ToolCreate, ToolTransition,
                            ToolPause, TurnEnds, TransitionTask, SetPaused
  <2>3. ASSUME NEW r \in Requests, RequestStep(r) PROVE state'[t] = "cancelled"
    BY <1>1, <2>0, <2>3 DEF RequestStep, Load, Serve, ServeFails, CancelTask, SetPaused
  <2> QED
    BY <1>1, <2>1, <2>2, <2>3 DEF Next
<1>2. IInv /\ [Next]_vars
        => [\A t \in Tasks : state[t] = "cancelled" => state'[t] = "cancelled"]_vars
  BY <1>1
<1> QED
  BY <1>2, SpecIInv, PTL DEF Spec, CancelledIsFinal

----------------------------------------------------------------------------
(* The path of the trail. *)

(* The row at j goes on where the accepted row before it ended. *)
GoesOn(h, j) ==
  ~h[j].rejected /\ h[j].to # "cancelled" =>
    \E i \in 1..(j - 1) :
      /\ ~h[i].rejected
      /\ h[i].to = h[j].from
      /\ \A k \in (i + 1)..(j - 1) : h[k].rejected

(* A row that keeps the trail a path: a refusal, a cancel, a creation of a *)
(* task without rows, or a move that starts in the stored state.           *)
GoodRow(t, row) ==
  row.rejected \/ row.to = "cancelled" \/ history[t] = <<>> \/ row.from = state[t]

LEMMA LongerTrail ==
  ASSUME NEW h \in Seq(Row), NEW row \in Row,
         \A j \in 2..Len(h) : GoesOn(h, j),
         NEW g, g = Append(h, row), Len(h) + 1 \in 2..(Len(h) + 1) => GoesOn(g, Len(h) + 1)
  PROVE  \A j \in 2..Len(g) : GoesOn(g, j)
<1>1. /\ Len(g) = Len(h) + 1 /\ Len(h) \in Nat
      /\ \A k \in 1..Len(h) : g[k] = h[k]
  OBVIOUS
<1> SUFFICES ASSUME NEW j \in 2..Len(g) PROVE GoesOn(g, j)
  OBVIOUS
<1>2. CASE j = Len(h) + 1
  BY <1>1, <1>2
<1>3. CASE j # Len(h) + 1
  <2>1. j \in 2..Len(h) /\ j \in 1..Len(h)
    BY <1>1, <1>3
  <2>2. GoesOn(h, j) /\ g[j] = h[j]
    BY <1>1, <2>1
  <2>3. \A i \in 1..(j - 1) : g[i] = h[i]
    BY <1>1, <2>1
  <2>4. \A i \in 1..(j - 1) : \A k \in (i + 1)..(j - 1) : g[k] = h[k]
    BY <1>1, <2>1
  <2> QED
    BY <2>2, <2>3, <2>4 DEF GoesOn
<1> QED
  BY <1>2, <1>3

LEMMA RowKeepsPath ==
  ASSUME TablesOK, TrailIsPath, NEW t \in Tasks, NEW row \in Row, Log(t, row), GoodRow(t, row),
         row.rejected \/ row.to = "cancelled" \/ history[t] = <<>> \/ state[t] # Absent
  PROVE  TrailIsPath'
<1> SUFFICES ASSUME NEW u \in Tasks PROVE \A j \in 2..Len(history'[u]) : GoesOn(history'[u], j)
  BY DEF TrailIsPath, GoesOn
<1>1. \A j \in 2..Len(history[u]) : GoesOn(history[u], j)
  BY DEF TrailIsPath, GoesOn
<1>2. CASE u # t
  BY <1>1, <1>2 DEF Log, TablesOK
<1>3. CASE u = t
  <2> DEFINE h == history[t]
             g == history'[t]
             n == Len(history[t])
  <2>1. h \in Seq(Row) /\ g = Append(h, row) /\ n \in Nat
    BY DEF Log, TablesOK
  <2>2. g[n + 1] = row /\ \A k \in 1..n : g[k] = h[k]
    BY <2>1
  <2>3. ASSUME n + 1 \in 2..(n + 1) PROVE GoesOn(g, n + 1)
    <3>1. CASE row.rejected \/ row.to = "cancelled"
      BY <2>2, <3>1 DEF GoesOn
    <3>2. CASE ~(row.rejected \/ row.to = "cancelled")
      <4>1. h # <<>>
        BY <2>1, <2>3
      <4>2. row.from = state[t] /\ state[t] # Absent
        BY <3>2, <4>1 DEF GoodRow
      <4>3. PICK i \in 1..n : LastAccepted(h, i) /\ h[i].to = state[t]
        BY <4>2 DEF TablesOK, HistoryExplainsState
      <4>4. i \in 1..((n + 1) - 1) /\ ~g[i].rejected /\ g[i].to = row.from
        BY <2>1, <2>2, <4>2, <4>3 DEF LastAccepted
      <4>5. \A k \in (i + 1)..((n + 1) - 1) : g[k].rejected
        BY <2>1, <2>2, <4>3 DEF LastAccepted
      <4> QED
        BY <2>2, <4>4, <4>5 DEF GoesOn
    <3> QED
      BY <3>1, <3>2
  <2> HIDE DEF h, g, n
  <2>4. \A j \in 2..Len(g) : GoesOn(g, j)
    BY <1>1, <1>3, <2>1, <2>3, LongerTrail DEF h, n
  <2> QED
    BY <1>3, <2>4 DEF g
<1> QED
  BY <1>2, <1>3

(* What a cancel or a pause writes is a good row, whatever the copy. *)
LEMMA EndpointRowGood ==
  ASSUME TablesOK, TrailIsPath, NEW t \in Tasks, NEW s \in TaskState,
         \/ CancelTask(t, s)
         \/ \E p, flag \in BOOLEAN : SetPaused(t, s, p, flag)
  PROVE  TrailIsPath'
<1>1. /\ Rejected(s, s) \in Row /\ Rejected(s, s).rejected
      /\ Rejected(s, "cancelled") \in Row /\ Rejected(s, "cancelled").rejected
      /\ Accepted(s, "cancelled") \in Row /\ Accepted(s, "cancelled").to = "cancelled"
  BY DEF Rejected, Accepted, Row, TaskState
<1>2. CASE CancelTask(t, s)
  BY <1>1, <1>2, RowKeepsPath DEF CancelTask, GoodRow
<1>3. ASSUME NEW p \in BOOLEAN, NEW flag \in BOOLEAN, SetPaused(t, s, p, flag)
      PROVE  TrailIsPath'
  <2>1. CASE Log(t, Rejected(s, s))
    BY <1>1, <2>1, RowKeepsPath DEF GoodRow
  <2>2. CASE history' = history
    BY <2>2 DEF TrailIsPath
  <2> QED
    BY <1>3, <2>1, <2>2 DEF SetPaused
<1> QED
  BY <1>2, <1>3

(* The accepted rows of TaskTransition are one path of the graph of        *)
(* agent/tasks.py up to the first cancellation, whatever the interleaving  *)
(* of turns and endpoints and however stale the copies they decide on: a   *)
(* move starts where the accepted move before it ended.                    *)
THEOREM TrailUnbroken == Spec => []TrailIsPath
<1>1. Init => TrailIsPath
  BY DEF Init, TrailIsPath
<1>2. ASSUME IInv, TrailIsPath, [Next]_vars PROVE TrailIsPath'
  <2>1. CASE history' = history
    BY <1>2, <2>1 DEF TrailIsPath
  <2>2. ASSUME NEW c \in Turns, ToolCreate(c) PROVE TrailIsPath'
    <3>1. PICK t \in Tasks : state[t] = Absent /\ Log(t, Accepted(Absent, "planning"))
      BY <2>2 DEF ToolCreate
    <3>2. Accepted(Absent, "planning") \in Row
      BY DEF Accepted, Row, TaskState
    <3>3. history[t] = <<>>
      BY <1>2, <3>1 DEF IInv, TablesOK, NoEarlyHistory
    <3> QED
      BY <1>2, <3>1, <3>2, <3>3, RowKeepsPath DEF IInv, GoodRow
  <2>3. ASSUME NEW c \in Turns, ToolTransition(c) PROVE TrailIsPath'
    <3>1. PICK t \in Tasks, new \in TaskState :
            state[t] # Absent /\ TransitionTask(t, state[t], new)
      BY <2>3 DEF ToolTransition
    <3>2. state[t] \in TaskState
      BY <1>2, <3>1 DEF IInv, TablesOK
    <3>3. /\ Accepted(state[t], new) \in Row /\ Accepted(state[t], new).from = state[t]
          /\ Rejected(state[t], new) \in Row /\ Rejected(state[t], new).rejected
      BY <3>2 DEF Accepted, Rejected, Row
    <3> QED
      BY <1>2, <3>1, <3>3, RowKeepsPath DEF IInv, GoodRow, TransitionTask
  <2>4. ASSUME NEW c \in Turns, ToolPause(c) PROVE TrailIsPath'
    <3>1. PICK t \in Tasks, flag \in BOOLEAN :
            state[t] # Absent /\ SetPaused(t, state[t], paused[t], flag)
      BY <2>4 DEF ToolPause
    <3>2. state[t] \in TaskState /\ paused[t] \in BOOLEAN
      BY <1>2, <3>1 DEF IInv, TablesOK, ClientsOK
    <3> QED
      BY <1>2, <3>1, <3>2, EndpointRowGood DEF IInv
  <2>5. ASSUME NEW r \in Requests, Serve(r) PROVE TrailIsPath'
    <3>1. /\ request[r].task \in Tasks /\ request[r].copyPaused \in BOOLEAN
          /\ request[r].copyState \in TaskState
      BY <1>2, <2>5 DEF Serve, IInv, ClientsOK, LoadedCopyExists
    <3> QED
      BY <1>2, <2>5, <3>1, EndpointRowGood DEF IInv, Serve
  <2> QED
    BY <1>2, <2>1, <2>2, <2>3, <2>4, <2>5
       DEF Next, TurnStep, TurnArrives, TurnEnds, RequestStep, Load, ServeFails, vars
<1> QED
  BY <1>1, <1>2, SpecIInv, PTL DEF Spec

(* A refusal changes neither the state nor the flag of any task: whatever  *)
(* row a step appends as rejected, it appends nothing else.                *)
THEOREM RefusalIsHarmless == Spec => RejectionChangesNothing
<1>1. ASSUME IInv, [Next]_vars, NEW t \in Tasks, Len(history'[t]) > Len(history[t]),
             history'[t][Len(history'[t])].rejected
      PROVE  state'[t] = state[t] /\ paused'[t] = paused[t]
  <2>0. history[t] \in Seq(Row) /\ Len(history[t]) \in Nat
    BY <1>1 DEF IInv, TablesOK
  <2>1. history' # history
    BY <1>1, <2>0
  <2>2. ASSUME NEW u \in Tasks, RejectedRow(u) \/ AcceptedRow(u) \/ Kept
        PROVE  state'[t] = state[t] /\ paused'[t] = paused[t]
    <3>1. RejectedRow(u) \/ AcceptedRow(u)
      BY <2>1, <2>2 DEF Kept
    <3>2. ASSUME NEW row \in Row, ~row.rejected, Log(u, row), state' = [state EXCEPT ![u] = row.to]
          PROVE  state'[t] = state[t]
      <4>1. CASE u = t
        <5>1. history'[t] = Append(history[t], row)
          BY <1>1, <3>2, <4>1 DEF Log, IInv, TablesOK
        <5>2. history'[t][Len(history'[t])] = row
          BY <2>0, <5>1
        <5> QED
          BY <1>1, <3>2, <5>2
      <4>2. CASE u # t
        BY <1>1, <3>2, <4>2 DEF IInv, TablesOK
      <4> QED
        BY <4>1, <4>2
    <3> QED
      BY <3>1, <3>2 DEF RejectedRow, AcceptedRow
  <2>3. ASSUME NEW c \in Turns, ToolCreate(c) PROVE state'[t] = state[t] /\ paused'[t] = paused[t]
    <3>1. PICK u \in Tasks : /\ state' = [state EXCEPT ![u] = "planning"]
                             /\ Log(u, Accepted(Absent, "planning"))
      BY <2>3 DEF ToolCreate
    <3>2. /\ Accepted(Absent, "planning") \in Row
          /\ ~Accepted(Absent, "planning").rejected
          /\ Accepted(Absent, "planning").to = "planning"
      BY DEF Accepted, Row, TaskState
    <3>3. AcceptedRow(u)
      BY <2>3, <3>1, <3>2 DEF ToolCreate, AcceptedRow
    <3> QED
      BY <2>2, <3>3
  <2>4. ASSUME NEW c \in Turns, ToolTransition(c)
        PROVE  state'[t] = state[t] /\ paused'[t] = paused[t]
    <3>1. PICK u \in Tasks, new \in TaskState :
            state[u] # Absent /\ TransitionTask(u, state[u], new)
      BY <2>4 DEF ToolTransition
    <3>2. state[u] \in TaskState
      BY <1>1, <3>1 DEF IInv, TablesOK
    <3> QED
      BY <2>2, <3>1, <3>2, TransitionWrites
  <2>5. ASSUME NEW c \in Turns, ToolPause(c) PROVE state'[t] = state[t] /\ paused'[t] = paused[t]
    <3>1. PICK u \in Tasks, flag \in BOOLEAN :
            state[u] # Absent /\ SetPaused(u, state[u], paused[u], flag)
      BY <2>5 DEF ToolPause
    <3>2. state[u] \in TaskState /\ paused[u] \in BOOLEAN /\ paused \in [Tasks -> BOOLEAN]
      BY <1>1, <3>1 DEF IInv, TablesOK, ClientsOK
    <3> QED
      BY <2>2, <3>1, <3>2, PauseWrites
  <2>6. ASSUME NEW r \in Requests, Serve(r) PROVE state'[t] = state[t] /\ paused'[t] = paused[t]
    <3>1. /\ request[r].task \in Tasks /\ request[r].copyPaused \in BOOLEAN
          /\ request[r].copyState \in TaskState /\ paused \in [Tasks -> BOOLEAN]
      BY <1>1, <2>6 DEF Serve, IInv, ClientsOK, LoadedCopyExists
    <3> QED
      BY <2>2, <2>6, <3>1, CancelWrites, PauseWrites DEF Serve
  <2> QED
    BY <1>1, <2>1, <2>3, <2>4, <2>5, <2>6
       DEF Next, TurnStep, TurnArrives, TurnEnds, RequestStep, Load, ServeFails, vars
<1>2. IInv /\ [Next]_vars
        => [\A t \in Tasks :
              Len(history'[t]) > Len(history[t]) /\ history'[t][Len(history'[t])].rejected
                => state'[t] = state[t] /\ paused'[t] = paused[t]]_vars
  BY <1>1
<1> QED
  BY <1>2, SpecIInv, PTL DEF Spec, RejectionChangesNothing

-----------------------------------------------------------------------------
(* Of the components only the one in focus moves. *)
LEMMA FocusMoves ==
  ASSUME [ServicesNext]_servicesVars
  PROVE  /\ focus' = focus
         /\ [Next]_vars
         /\ focus = "throttle" => [ThrottleNext]_throttleVars
         /\ focus = "access" => [AccessNext]_accessVars
         /\ focus = "mcp" => [McpNext]_mcpVars
         /\ focus = "kb" => [KbNext]_kbVars
         /\ focus = "providers" => [ProvNext]_provVars
         /\ focus = "lmStudio" => [LmNext]_lmVars
         /\ focus = "memory" => [MemNext]_memVars
         /\ focus = "rules" => [RulesNext]_ruleVars
<1>1. CASE UNCHANGED servicesVars
  BY <1>1 DEF servicesVars
<1>2. CASE ServicesNext
  BY <1>2 DEF ServicesNext, OnlyMoves
<1> QED
  BY <1>1, <1>2

----------------------------------------------------------------------------
(* The login throttle. *)

(* What the entry of a pair, if there is one, says of its guesses g: those *)
(* that do not count any more are Lockout old, and a block lasts Lockout   *)
(* from the last guess.                                                    *)
EntryTells(k) ==
  LET g == guesses[k]
      f == entries[k].failures
      until == entries[k].until
  IN IF k \in DOMAIN entries
     THEN /\ f \in 1..Len(g) /\ f <= Threshold
          /\ until = 0 <=> f < Threshold
          /\ until > 0 => \A i \in 1..Len(g) : g[i] + Lockout <= until
          /\ \A i \in 1..(Len(g) - f) : g[i] + Lockout <= now
     ELSE \A i \in 1..Len(g) : g[i] + Lockout <= now

Rationed(g) ==
  \A i \in 1..Len(g) : i + Threshold <= Len(g) => g[i + Threshold] - g[i] >= Lockout

PairOK(k) ==
  /\ \A i \in 1..Len(guesses[k]) : guesses[k][i] <= now
  /\ Rationed(guesses[k])
  /\ EntryTells(k)

ThrottleInv ==
  /\ now \in 1..MaxTime
  /\ DOMAIN entries \subseteq Keys /\ IsFiniteSet(DOMAIN entries)
  /\ \A k \in DOMAIN entries : entries[k] \in Entry
  /\ made \in 0..MaxAttempts
  /\ pending \in [Keys -> 0..made]
  /\ guesses \in [Keys -> Seq(1..MaxTime)]
  /\ \A k \in Keys : Threshold > 0 => PairOK(k)
  /\ Threshold = 0 => DOMAIN entries = {} /\ \A k \in Keys : guesses[k] = <<>>
  /\ TableBounded

(* The failures that are counted for a pair when the next one comes. *)
OldCount(k) == IF k \in DOMAIN Current(k) THEN entries[k].failures ELSE 0

(* What a step that takes no time does to one pair. *)
PairStays(k) ==
  /\ guesses'[k] = guesses[k]
  /\ k \in DOMAIN entries' <=> k \in DOMAIN entries
  /\ k \in DOMAIN entries => entries'[k] = entries[k]
PairExpires(k) == guesses'[k] = guesses[k] /\ Expired(entries, k) /\ k \notin DOMAIN entries'
PairForgiven(k) == guesses'[k] = <<>> /\ k \notin DOMAIN entries'
PairCounted(k) ==
  /\ ~Blocked(entries, k)
  /\ guesses'[k] = Append(guesses[k], now)
  /\ k \in DOMAIN entries'
  /\ entries'[k] = [failures |-> OldCount(k) + 1, last |-> now,
                    until |-> IF OldCount(k) + 1 >= Threshold THEN now + Lockout ELSE 0]

LEMMA PairKept ==
  ASSUME ThrottleInv, Threshold > 0, now' = now, NEW k \in Keys,
         PairStays(k) \/ PairExpires(k) \/ PairForgiven(k) \/ PairCounted(k)
  PROVE  PairOK(k)'
<1> DEFINE g == guesses[k]
<1>1. /\ g \in Seq(1..MaxTime) /\ Len(g) \in Nat
      /\ \A i \in 1..Len(g) : g[i] \in Nat /\ g[i] <= now
      /\ now \in Nat \ {0} /\ Threshold \in Nat \ {0} /\ Lockout \in Nat \ {0}
      /\ Rationed(g) /\ EntryTells(k)
  BY ThrottleAssumption DEF ThrottleInv, PairOK
<1>2. k \in DOMAIN entries => entries[k] \in Entry
  BY DEF ThrottleInv
<1>3. CASE PairStays(k)
  BY <1>1, <1>3 DEF PairStays, PairOK, EntryTells
<1>4. CASE PairExpires(k)
  BY <1>1, <1>2, <1>4 DEF PairExpires, Expired, PairOK, EntryTells, Entry
<1>5. CASE PairForgiven(k)
  BY <1>5 DEF PairForgiven, PairOK, EntryTells, Rationed
<1>6. CASE PairCounted(k)
  <2> DEFINE h == guesses'[k]
             old == OldCount(k)
  <2>1. /\ Len(h) = Len(g) + 1 /\ h[Len(g) + 1] = now
        /\ \A i \in 1..Len(g) : h[i] = g[i]
    BY <1>1, <1>6 DEF PairCounted
  <2>2. /\ old \in 0..Len(g) /\ old < Threshold
        /\ \A i \in 1..(Len(g) - old) : g[i] + Lockout <= now
    <3>1. CASE k \notin DOMAIN entries
      BY <1>1, <3>1 DEF OldCount, Current, Expired, EntryTells
    <3>2. CASE Expired(entries, k)
      BY <1>1, <1>2, <3>2 DEF OldCount, Current, Expired, EntryTells, Without, Entry
    <3>3. CASE k \in DOMAIN entries /\ ~Expired(entries, k)
      <4>1. entries[k].until = 0 /\ old = entries[k].failures
        BY <1>1, <1>2, <1>6, <3>3 DEF PairCounted, Blocked, Expired, OldCount, Current, Entry
      <4> QED
        BY <1>1, <3>3, <4>1 DEF EntryTells
    <3> QED
      BY <3>1, <3>2, <3>3
  <2> HIDE DEF old
  <2>3. Rationed(h)
    <3> SUFFICES ASSUME NEW i \in 1..Len(h), i + Threshold <= Len(h)
                 PROVE  h[i + Threshold] - h[i] >= Lockout
      BY DEF Rationed
    <3>1. i \in 1..Len(g) /\ i \in Nat
      BY <1>1, <2>1
    <3>2. CASE i + Threshold <= Len(g)
      <4>1. i + Threshold \in 1..Len(g) /\ g[i + Threshold] - g[i] >= Lockout
        BY <1>1, <3>1, <3>2 DEF Rationed
      <4> QED
        BY <2>1, <3>1, <4>1
    <3>3. CASE i + Threshold = Len(g) + 1
      <4>1. i \in 1..(Len(g) - old)
        BY <1>1, <2>2, <3>1, <3>3
      <4> QED
        BY <1>1, <2>1, <2>2, <3>1, <3>3, <4>1
    <3> QED
      BY <1>1, <2>1, <3>1, <3>2, <3>3
  <2>4. \A i \in 1..Len(h) : h[i] <= now
    BY <1>1, <2>1
  <2>5. EntryTells(k)'
    <3>1. /\ k \in DOMAIN entries' /\ entries'[k].failures = old + 1
          /\ entries'[k].until = IF old + 1 >= Threshold THEN now + Lockout ELSE 0
      BY <1>6 DEF PairCounted, old
    <3>2. \A i \in 1..Len(h) : h[i] + Lockout <= now + Lockout
      BY <1>1, <2>1
    <3>3. \A i \in 1..(Len(h) - (old + 1)) : h[i] + Lockout <= now
      <4>1. Len(h) - (old + 1) = Len(g) - old /\ Len(g) - old <= Len(g)
        BY <1>1, <2>1, <2>2
      <4>2. \A i \in 1..(Len(g) - old) : i \in 1..Len(g)
        BY <1>1, <2>2, <4>1
      <4> QED
        BY <2>1, <2>2, <4>1, <4>2
    <3> QED
      BY <1>1, <2>1, <2>2, <3>1, <3>2, <3>3 DEF EntryTells
  <2> QED
    BY <2>3, <2>4, <2>5 DEF PairOK
<1> QED
  BY <1>3, <1>4, <1>5, <1>6

LEMMA PairTicks ==
  ASSUME ThrottleInv, Threshold > 0, now' = now + 1, UNCHANGED <<entries, guesses>>,
         NEW k \in Keys
  PROVE  PairOK(k)'
<1>1. /\ guesses[k] \in Seq(1..MaxTime) /\ Len(guesses[k]) \in Nat
      /\ \A i \in 1..Len(guesses[k]) : guesses[k][i] \in Nat /\ guesses[k][i] <= now
      /\ now \in Nat /\ Lockout \in Nat /\ Rationed(guesses[k]) /\ EntryTells(k)
  BY ThrottleAssumption DEF ThrottleInv, PairOK
<1>2. EntryTells(k)'
  <2>1. CASE k \notin DOMAIN entries
    BY <1>1, <2>1 DEF EntryTells
  <2>2. CASE k \in DOMAIN entries
    <3>1. entries[k].failures \in 1..Len(guesses[k])
      BY <1>1, <2>2 DEF EntryTells
    <3>2. \A i \in 1..(Len(guesses[k]) - entries[k].failures) :
            i \in 1..Len(guesses[k]) /\ guesses[k][i] + Lockout <= now
      BY <1>1, <2>2, <3>1 DEF EntryTells
    <3>3. \A i \in 1..(Len(guesses[k]) - entries[k].failures) :
            guesses[k][i] + Lockout <= now + 1
      BY <1>1, <3>2
    <3> QED
      BY <1>1, <2>2, <3>3 DEF EntryTells
  <2> QED
    BY <2>1, <2>2
<1>3. \A i \in 1..Len(guesses[k]) : guesses[k][i] <= now + 1
  BY <1>1
<1> QED
  BY <1>1, <1>2, <1>3 DEF PairOK, Rationed

(* What an attempt that goes ahead does to the table, for each pair. *)
LEMMA RegisteredPairs ==
  ASSUME ThrottleInv, Threshold > 0, NEW j \in Keys, ~Blocked(entries, j), now' = now,
         NEW lost \in SUBSET (DOMAIN entries \ {j}),
         entries' = Without(Swept(Counted(j)), lost),
         guesses' = Forgiven(lost, [guesses EXCEPT ![j] = Append(@, now)])
  PROVE  /\ DOMAIN entries' \subseteq DOMAIN entries \cup {j}
         /\ DOMAIN entries' = DOMAIN Swept(Counted(j)) \ lost
         /\ \A k \in DOMAIN entries' : entries'[k] = Counted(j)[k]
         /\ \A k \in DOMAIN entries \ DOMAIN entries' : k \in lost \/ Expired(entries, k)
         /\ \A k \in Keys : PairStays(k) \/ PairExpires(k) \/ PairForgiven(k) \/ PairCounted(k)
<1> DEFINE f == Counted(j)
<1>1. /\ now \in Nat /\ Lockout \in Nat \ {0}
      /\ \A k \in DOMAIN entries : entries[k] \in Entry
      /\ DOMAIN entries \subseteq Keys
  BY ThrottleAssumption DEF ThrottleInv
<1>2. /\ DOMAIN f = DOMAIN entries \cup {j}
      /\ f[j] = [failures |-> OldCount(j) + 1, last |-> now,
                 until |-> IF OldCount(j) + 1 >= Threshold THEN now + Lockout ELSE 0]
      /\ \A k \in DOMAIN entries : k # j => f[k] = entries[k]
  BY DEF Counted, OldCount
<1> HIDE DEF f
<1>3. ~Expired(f, j) /\ \A k \in DOMAIN entries : k # j => (Expired(f, k) <=> Expired(entries, k))
  BY <1>1, <1>2 DEF Expired
<1>4. /\ DOMAIN entries' = DOMAIN Swept(f) \ lost
      /\ DOMAIN Swept(f) = {k \in DOMAIN f : ~Expired(f, k)}
      /\ \A k \in DOMAIN entries' : entries'[k] = f[k]
  BY DEF f, Swept, Without
<1>5. ASSUME NEW k \in Keys
      PROVE  PairStays(k) \/ PairExpires(k) \/ PairForgiven(k) \/ PairCounted(k)
  <2>1. guesses'[k] = IF k \in lost THEN <<>> ELSE
                      IF k = j THEN Append(guesses[k], now) ELSE guesses[k]
    BY DEF Forgiven, ThrottleInv
  <2>2. CASE k = j
    BY <1>2, <1>3, <1>4, <2>1, <2>2 DEF PairCounted
  <2>3. CASE k \in lost
    BY <1>4, <2>1, <2>3 DEF PairForgiven
  <2>4. CASE k # j /\ k \notin lost
    BY <1>2, <1>3, <1>4, <2>1, <2>4 DEF PairStays, PairExpires
  <2> QED
    BY <2>2, <2>3, <2>4
<1> QED
  BY <1>2, <1>3, <1>4, <1>5 DEF f

(* A subset, and a set with one element more or less. *)
LEMMA SubsetCard ==
  ASSUME NEW T, IsFiniteSet(T), NEW S, S \subseteq T
  PROVE  /\ IsFiniteSet(S)
         /\ Cardinality(S) \in Nat /\ Cardinality(T) \in Nat
         /\ Cardinality(S) <= Cardinality(T)
BY FS_Subset, FS_CardinalityType

LEMMA OneMore ==
  ASSUME NEW S, IsFiniteSet(S), NEW x
  PROVE  /\ IsFiniteSet(S \cup {x})
         /\ Cardinality(S) \in Nat /\ Cardinality(S \cup {x}) \in Nat
         /\ Cardinality(S \cup {x}) <= Cardinality(S) + 1
<1>1. Cardinality(S) \in Nat /\ IsFiniteSet(S \cup {x})
  BY FS_CardinalityType, FS_AddElement
<1>2. Cardinality(S \cup {x}) = IF x \in S THEN Cardinality(S) ELSE Cardinality(S) + 1
  BY FS_AddElement
<1> QED
  BY <1>1, <1>2

LEMMA OneLess ==
  ASSUME NEW S, IsFiniteSet(S), NEW x \in S
  PROVE  /\ IsFiniteSet(S \ {x})
         /\ Cardinality(S) \in Nat /\ Cardinality(S \ {x}) \in Nat
         /\ Cardinality(S \ {x}) = Cardinality(S) - 1
<1>1. IsFiniteSet(S \ {x}) /\ Cardinality(S) \in Nat
  BY FS_RemoveElement, FS_CardinalityType
<1>2. Cardinality(S \ {x}) = Cardinality(S) - 1
  BY FS_RemoveElement
<1> QED
  BY <1>1, <1>2, FS_CardinalityType

AtAddress(D, h) == {k \in D : k[2] = h}

LEMMA TableShrinks ==
  ASSUME ThrottleInv, DOMAIN entries' \subseteq DOMAIN entries
  PROVE  TableBounded' /\ IsFiniteSet(DOMAIN entries')
<1> DEFINE D == DOMAIN entries
           E == DOMAIN entries'
<1>1. /\ IsFiniteSet(D) /\ Cardinality(D) <= MaxEntries
      /\ \A h \in Addresses : Cardinality(AtAddress(D, h)) <= MaxPairs
      /\ MaxEntries \in Nat /\ MaxPairs \in Nat
  BY ThrottleAssumption DEF ThrottleInv, TableBounded, AtAddress
<1>2. IsFiniteSet(E) /\ Cardinality(E) <= MaxEntries
  <2>1. IsFiniteSet(E) /\ Cardinality(E) <= Cardinality(D)
        /\ Cardinality(E) \in Nat /\ Cardinality(D) \in Nat
    BY <1>1, SubsetCard
  <2> QED
    BY <1>1, <2>1
<1>3. ASSUME NEW h \in Addresses PROVE Cardinality(AtAddress(E, h)) <= MaxPairs
  <2>1. AtAddress(E, h) \subseteq AtAddress(D, h) /\ AtAddress(D, h) \subseteq D
    BY DEF AtAddress
  <2>2. IsFiniteSet(AtAddress(D, h))
    BY <1>1, <2>1, SubsetCard
  <2>3. Cardinality(AtAddress(E, h)) <= Cardinality(AtAddress(D, h))
        /\ Cardinality(AtAddress(E, h)) \in Nat /\ Cardinality(AtAddress(D, h)) \in Nat
    BY <2>1, <2>2, SubsetCard
  <2> QED
    BY <1>1, <2>3
<1> QED
  BY <1>2, <1>3 DEF TableBounded, AtAddress

(* One pair at most is added, and one goes if there are too many. *)
LEMMA TableGrows ==
  ASSUME ThrottleInv, NEW j \in Keys, ~TooManyPairs(j),
         NEW f, DOMAIN f \subseteq DOMAIN entries \cup {j}, j \in DOMAIN f,
         NEW lost, MayEvict(f, j, lost), DOMAIN entries' = DOMAIN f \ lost
  PROVE  TableBounded' /\ IsFiniteSet(DOMAIN entries')
<1> DEFINE D == DOMAIN entries
           F == DOMAIN f
           E == DOMAIN entries'
<1>1. /\ IsFiniteSet(D) /\ Cardinality(D) <= MaxEntries /\ Cardinality(D) \in Nat
      /\ \A h \in Addresses : Cardinality(AtAddress(D, h)) <= MaxPairs
      /\ MaxEntries \in Nat \ {0} /\ MaxPairs \in Nat \ {0}
  BY ThrottleAssumption, FS_CardinalityType DEF ThrottleInv, TableBounded, AtAddress
<1>2. IsFiniteSet(F) /\ Cardinality(F) <= MaxEntries + 1 /\ Cardinality(F) \in Nat
  <2>1. IsFiniteSet(D \cup {j}) /\ Cardinality(D \cup {j}) <= Cardinality(D) + 1
        /\ Cardinality(D \cup {j}) \in Nat
    BY <1>1, OneMore
  <2>2. IsFiniteSet(F) /\ Cardinality(F) <= Cardinality(D \cup {j}) /\ Cardinality(F) \in Nat
    BY <2>1, SubsetCard
  <2> QED
    BY <1>1, <2>1, <2>2
<1>3. IsFiniteSet(E) /\ Cardinality(E) <= Cardinality(F) /\ Cardinality(E) \in Nat
  BY <1>2, SubsetCard
<1>4. Cardinality(E) <= MaxEntries
  <2>1. CASE Cardinality(F) > MaxEntries /\ F # {j}
    <3>1. PICK v \in Victims(f, j) : lost = {v}
      BY <2>1 DEF MayEvict
    <3>2. v \in F /\ E = F \ {v}
      BY <3>1 DEF Victims
    <3>3. Cardinality(E) = Cardinality(F) - 1
      BY <1>2, <3>2, OneLess
    <3> QED
      BY <1>1, <1>2, <3>3
  <2>2. CASE ~(Cardinality(F) > MaxEntries) \/ F = {j}
    <3>1. Cardinality({j}) = 1
      BY FS_Singleton
    <3>2. Cardinality(F) <= MaxEntries
      BY <1>1, <1>2, <2>2, <3>1
    <3> QED
      BY <1>1, <1>2, <1>3, <3>2
  <2> QED
    BY <2>1, <2>2
<1>5. ASSUME NEW h \in Addresses PROVE Cardinality(AtAddress(E, h)) <= MaxPairs
  <2>1. IsFiniteSet(AtAddress(D, h)) /\ Cardinality(AtAddress(D, h)) <= MaxPairs
    <3>1. AtAddress(D, h) \subseteq D
      BY DEF AtAddress
    <3> QED
      BY <1>1, <3>1, SubsetCard
  <2>2. CASE h # j[2] \/ j \in D
    <3>1. AtAddress(E, h) \subseteq AtAddress(D, h)
      BY <2>2 DEF AtAddress
    <3>2. Cardinality(AtAddress(E, h)) <= Cardinality(AtAddress(D, h))
          /\ Cardinality(AtAddress(E, h)) \in Nat /\ Cardinality(AtAddress(D, h)) \in Nat
      BY <2>1, <3>1, SubsetCard
    <3> QED
      BY <1>1, <2>1, <3>2
  <2>3. CASE h = j[2] /\ j \notin D
    <3>0. DEFINE R == {k \in D : k[2] = j[2] /\ k # j}
    <3>1. j \notin DOMAIN Current(j)
      BY <2>3 DEF Current, Expired, Without
    <3>2. ~(Cardinality(R) >= MaxPairs)
      BY <3>1 DEF TooManyPairs
    <3>3. IsFiniteSet(R) /\ Cardinality(R) \in Nat
      BY <1>1, SubsetCard
    <3>4. AtAddress(E, h) \subseteq R \cup {j}
      BY <2>3 DEF AtAddress
    <3> HIDE DEF R
    <3>5. IsFiniteSet(R \cup {j}) /\ Cardinality(R \cup {j}) <= Cardinality(R) + 1
          /\ Cardinality(R \cup {j}) \in Nat
      BY <3>3, OneMore
    <3>6. Cardinality(AtAddress(E, h)) <= Cardinality(R \cup {j})
          /\ Cardinality(AtAddress(E, h)) \in Nat
      BY <3>4, <3>5, SubsetCard
    <3> QED
      BY <1>1, <3>2, <3>3, <3>5, <3>6
  <2> QED
    BY <2>2, <2>3
<1> QED
  BY <1>3, <1>4, <1>5 DEF TableBounded, AtAddress

(* An attempt of pair j, by what comes of it. *)
Refused(j) ==
  /\ Threshold > 0 /\ (Blocked(entries, j) \/ TooManyPairs(j))
  /\ entries' = Current(j) /\ UNCHANGED <<pending, guesses>>
GoesAhead(j, lost) ==
  /\ Threshold > 0 /\ ~Blocked(entries, j) /\ ~TooManyPairs(j)
  /\ lost \in SUBSET (DOMAIN entries \ {j})
  /\ entries' = Without(Swept(Counted(j)), lost)
  /\ MayEvict(Swept(Counted(j)), j, lost)
  /\ guesses' = Forgiven(lost, [guesses EXCEPT ![j] = Append(@, now)])

LEMMA RegisterCases ==
  ASSUME NEW j \in Keys, Registers(j), ThrottleInv
  PROVE  \/ Refused(j)
         \/ Threshold = 0 /\ UNCHANGED <<entries, guesses>>
         \/ \E lost : GoesAhead(j, lost)
<1>1. Threshold = 0 \/ Threshold > 0
  BY ThrottleAssumption
<1> QED
  BY <1>1 DEF Registers, Refused, GoesAhead

LEMMA EntriesKept ==
  ASSUME ThrottleInv, [ThrottleNext]_throttleVars
  PROVE  /\ DOMAIN entries' \subseteq Keys
         /\ \A k \in DOMAIN entries' : entries'[k] \in Entry
         /\ TableBounded' /\ IsFiniteSet(DOMAIN entries')
         /\ guesses' \in [Keys -> Seq(1..MaxTime)]
         /\ Threshold > 0 => \A k \in Keys : PairOK(k)'
         /\ Threshold = 0 => DOMAIN entries' = {} /\ \A k \in Keys : guesses'[k] = <<>>
<1>1. /\ DOMAIN entries \subseteq Keys
      /\ \A k \in DOMAIN entries : entries[k] \in Entry
      /\ guesses \in [Keys -> Seq(1..MaxTime)] /\ now \in 1..MaxTime
      /\ Threshold = 0 => DOMAIN entries = {} /\ \A k \in Keys : guesses[k] = <<>>
      /\ Threshold \in Nat /\ Lockout \in Nat /\ MaxTime \in Nat
  BY ThrottleAssumption DEF ThrottleInv
<1>2. CASE Tick \/ UNCHANGED throttleVars \/ \E k \in Keys : Fails(k)
  <2>1. UNCHANGED <<entries, guesses>> /\ (now' = now + 1 \/ now' = now)
    BY <1>2 DEF Tick, throttleVars, Fails, Answered
  <2>2. TableBounded' /\ IsFiniteSet(DOMAIN entries')
    BY <2>1, TableShrinks
  <2>3. ASSUME Threshold > 0, NEW k \in Keys PROVE PairOK(k)'
    BY <2>1, <2>3, PairTicks, PairKept DEF PairStays
  <2> QED
    BY <1>1, <2>1, <2>2, <2>3
<1>3. ASSUME NEW j \in Keys, LogsIn(j)
      PROVE  /\ DOMAIN entries' \subseteq DOMAIN entries /\ now' = now
             /\ \A k \in DOMAIN entries' : entries'[k] = entries[k]
             /\ guesses' \in [Keys -> Seq(1..MaxTime)]
             /\ \A k \in Keys : guesses[k] = <<>> => guesses'[k] = <<>>
             /\ \A k \in Keys : PairStays(k) \/ PairForgiven(k)
  <2>1. entries' = Without(entries, {j}) /\ guesses' = Forgiven({j}, guesses) /\ now' = now
    BY <1>3 DEF LogsIn, Answered
  <2>2. /\ DOMAIN entries' = DOMAIN entries \ {j}
        /\ \A k \in DOMAIN entries' : entries'[k] = entries[k]
    BY <2>1 DEF Without
  <2>3. \A k \in Keys : guesses'[k] = IF k = j THEN <<>> ELSE guesses[k]
    BY <2>1 DEF Forgiven
  <2>4. guesses' = [k \in Keys |-> guesses'[k]]
    BY <2>1 DEF Forgiven
  <2>5. \A k \in Keys : guesses'[k] \in Seq(1..MaxTime)
    <3>1. <<>> \in Seq(1..MaxTime) /\ \A k \in Keys : guesses[k] \in Seq(1..MaxTime)
      BY <1>1
    <3> QED
      BY <2>3, <3>1
  <2> QED
    BY <1>1, <2>1, <2>2, <2>3, <2>4, <2>5 DEF PairStays, PairForgiven
<1>4. ASSUME NEW j \in Keys, Refused(j), now' = now
      PROVE  /\ DOMAIN entries' \subseteq DOMAIN entries
             /\ \A k \in DOMAIN entries' : entries'[k] = entries[k]
             /\ \A k \in Keys : PairStays(k) \/ PairExpires(k)
  BY <1>4 DEF Refused, Current, Without, PairStays, PairExpires
<1>5. ASSUME NEW j \in Keys, LogsIn(j) \/ (Refused(j) /\ now' = now)
      PROVE  /\ DOMAIN entries' \subseteq DOMAIN entries
             /\ \A k \in DOMAIN entries' : entries'[k] = entries[k]
             /\ guesses' \in [Keys -> Seq(1..MaxTime)]
             /\ \A k \in Keys : guesses[k] = <<>> => guesses'[k] = <<>>
             /\ now' = now
             /\ \A k \in Keys : PairStays(k) \/ PairExpires(k) \/ PairForgiven(k)
  BY <1>1, <1>3, <1>4, <1>5 DEF Refused
<1>6. CASE \E j \in Keys : LogsIn(j) \/ (Refused(j) /\ now' = now)
  <2>1. PICK j \in Keys : LogsIn(j) \/ (Refused(j) /\ now' = now)
    BY <1>6
  <2>2. TableBounded' /\ IsFiniteSet(DOMAIN entries')
    BY <1>5, <2>1, TableShrinks
  <2>3. ASSUME Threshold > 0, NEW k \in Keys PROVE PairOK(k)'
    BY <1>5, <2>1, <2>3, PairKept
  <2> QED
    BY <1>1, <1>5, <2>1, <2>2, <2>3
<1>7. ASSUME NEW j \in Keys, NEW lost, GoesAhead(j, lost), now' = now
      PROVE  /\ DOMAIN entries' \subseteq Keys
             /\ \A k \in DOMAIN entries' : entries'[k] \in Entry
             /\ TableBounded' /\ IsFiniteSet(DOMAIN entries')
             /\ guesses' \in [Keys -> Seq(1..MaxTime)]
             /\ Threshold > 0 /\ \A k \in Keys : PairOK(k)'
  <2> DEFINE f == Swept(Counted(j))
  <2>1. /\ DOMAIN entries' \subseteq DOMAIN entries \cup {j}
        /\ DOMAIN entries' = DOMAIN f \ lost
        /\ \A k \in DOMAIN entries' : entries'[k] = Counted(j)[k]
        /\ \A k \in Keys : PairStays(k) \/ PairExpires(k) \/ PairForgiven(k) \/ PairCounted(k)
    BY <1>7, RegisteredPairs DEF GoesAhead
  <2>2. DOMAIN f \subseteq DOMAIN entries \cup {j} /\ j \in DOMAIN f
    <3>1. ~Expired(Counted(j), j)
      BY <1>1, ThrottleAssumption DEF Expired, Counted
    <3> QED
      BY <3>1 DEF Swept, Without, Counted
  <2>3. TableBounded' /\ IsFiniteSet(DOMAIN entries')
    <3> HIDE DEF f
    <3> QED
      BY <1>7, <2>1, <2>2, TableGrows DEF f, GoesAhead
  <2>4. \A k \in Keys : PairOK(k)'
    BY <1>7, <2>1, PairKept DEF GoesAhead
  <2>5. ASSUME NEW k \in DOMAIN entries' PROVE entries'[k] \in Entry
    <3>1. OldCount(j) \in Nat
      BY <1>1 DEF OldCount, Current, Without, Entry
    <3>2. CASE k # j
      BY <1>1, <2>1, <2>5, <3>2 DEF Counted
    <3>3. CASE k = j
      <4>1. entries'[k] = [failures |-> OldCount(j) + 1, last |-> now,
                 until |-> IF OldCount(j) + 1 >= Threshold THEN now + Lockout ELSE 0]
        BY <2>1, <3>3 DEF Counted, OldCount
      <4> QED
        BY <1>1, <3>1, <4>1 DEF Entry
    <3> QED
      BY <3>2, <3>3
  <2>6. guesses' \in [Keys -> Seq(1..MaxTime)]
    <3>1. ASSUME NEW k \in Keys PROVE guesses'[k] \in Seq(1..MaxTime)
      <4>1. guesses[k] \in Seq(1..MaxTime) /\ <<>> \in Seq(1..MaxTime)
            /\ Append(guesses[k], now) \in Seq(1..MaxTime)
        BY <1>1
      <4>2. guesses'[k] \in {guesses[k], <<>>, Append(guesses[k], now)}
        BY <2>1 DEF PairStays, PairExpires, PairForgiven, PairCounted
      <4> QED
        BY <4>1, <4>2
    <3>2. guesses' = [k \in Keys |-> guesses'[k]]
      BY <1>7 DEF GoesAhead, Forgiven
    <3> QED
      BY <3>1, <3>2
  <2> QED
    BY <1>1, <1>7, <2>1, <2>3, <2>4, <2>5, <2>6 DEF GoesAhead
<1>8. ASSUME NEW j \in Keys, Registers(j)
      PROVE  \/ Refused(j) /\ now' = now
             \/ UNCHANGED <<entries, guesses>> /\ now' = now /\ Threshold = 0
             \/ \E lost : GoesAhead(j, lost) /\ now' = now
  BY <1>8, RegisterCases DEF Registers
<1>9. CASE UNCHANGED <<entries, guesses>> /\ now' = now /\ Threshold = 0
  BY <1>1, <1>9, TableShrinks
<1> QED
  BY <1>1, <1>2, <1>6, <1>7, <1>8, <1>9 DEF ThrottleNext

LEMMA ThrottleStep ==
  ASSUME ThrottleInv, [ThrottleNext]_throttleVars PROVE ThrottleInv'
<1>1. /\ now \in 1..MaxTime /\ MaxTime \in Nat /\ MaxAttempts \in Nat
      /\ made \in 0..MaxAttempts /\ pending \in [Keys -> 0..made]
  BY ThrottleAssumption DEF ThrottleInv
<1>2. /\ now' \in 1..MaxTime
      /\ made' \in 0..MaxAttempts /\ made <= made'
      /\ pending' \in [Keys -> 0..made']
  <2>1. CASE Tick \/ UNCHANGED throttleVars
    BY <1>1, <2>1 DEF Tick, throttleVars
  <2>2. ASSUME NEW k \in Keys, LogsIn(k) \/ Fails(k)
        PROVE  /\ UNCHANGED <<now, made>> /\ pending' \in [Keys -> 0..made]
    BY <1>1, <2>2 DEF LogsIn, Fails, Answered
  <2>3. ASSUME NEW k \in Keys, Registers(k)
        PROVE  /\ UNCHANGED now /\ made' = made + 1 /\ made < MaxAttempts
               /\ pending' = pending \/ pending' = [pending EXCEPT ![k] = @ + 1]
    BY <2>3 DEF Registers
  <2>4. ASSUME NEW k \in Keys, Registers(k) PROVE pending' \in [Keys -> 0..(made + 1)]
    BY <1>1, <2>3, <2>4
  <2> QED
    BY <1>1, <2>1, <2>2, <2>3, <2>4 DEF ThrottleNext
<1> QED
  BY <1>2, EntriesKept DEF ThrottleInv

LEMMA ThrottleStart == ASSUME ThrottleInit PROVE ThrottleInv
<1>1. DOMAIN entries = {}
  BY DEF ThrottleInit
<1>2. TableBounded
  <2>1. \A h : AtAddress({}, h) = {}
    BY DEF AtAddress
  <2>2. Cardinality({}) = 0
    BY FS_EmptySet
  <2> QED
    BY <1>1, <2>1, <2>2, ThrottleAssumption DEF TableBounded, AtAddress
<1>3. \A k \in Keys : guesses[k] = <<>> /\ PairOK(k)
  <2> SUFFICES ASSUME NEW k \in Keys PROVE guesses[k] = <<>> /\ PairOK(k)
    OBVIOUS
  <2>1. guesses[k] = <<>> /\ Len(guesses[k]) = 0
    BY DEF ThrottleInit
  <2> QED
    BY <1>1, <2>1 DEF PairOK, EntryTells, Rationed
<1>4. guesses \in [Keys -> Seq(1..MaxTime)]
  BY <1>3 DEF ThrottleInit
<1>5. IsFiniteSet({})
  BY FS_EmptySet
<1> QED
  BY <1>1, <1>2, <1>3, <1>4, <1>5, ThrottleAssumption DEF ThrottleInit, ThrottleInv

LEMMA ThrottleSound ==
  ASSUME ThrottleInv PROVE ThrottleTypeOK /\ GuessesRationed /\ TableBounded
<1>1. GuessesRationed
  <2>1. \A k \in Keys : guesses[k] \in Seq(1..MaxTime)
    BY DEF ThrottleInv
  <2>2. \A k \in Keys : DOMAIN guesses[k] = 1..Len(guesses[k])
    BY <2>1
  <2> QED
    BY <2>2 DEF GuessesRationed, ThrottleInv, PairOK, Rationed
<1>2. ThrottleTypeOK
  <2>1. made \in 0..MaxAttempts /\ MaxAttempts \in Nat /\ pending \in [Keys -> 0..made]
    BY ThrottleAssumption DEF ThrottleInv
  <2>2. pending \in [Keys -> 0..MaxAttempts]
    BY <2>1
  <2> QED
    BY <2>2 DEF ThrottleInv, ThrottleTypeOK
<1> QED
  BY <1>1, <1>2 DEF ThrottleInv

(* The eviction spares blocked pairs: it takes one only if all others are. *)
LEMMA BlocksSpared ==
  ASSUME ThrottleInv, [ThrottleNext]_throttleVars PROVE BlockedSpared
<1> SUFFICES ASSUME NEW j \in Keys, NEW k \in Keys, pending'[j] > pending[j],
                    Blocked(entries, k), k \notin DOMAIN entries',
                    NEW o \in DOMAIN entries' \ {j}
             PROVE  entries'[o].until > now
  BY DEF BlockedSpared
<1>1. pending \in [Keys -> Nat] /\ now \in Nat /\ \A i \in DOMAIN entries : entries[i] \in Entry
  BY ThrottleAssumption DEF ThrottleInv
<1>2. Registers(j)
  <2>1. ASSUME NEW i \in Keys, Answered(i) PROVE FALSE
    <3>1. pending'[j] = IF i = j THEN pending[j] - 1 ELSE pending[j]
      BY <1>1, <2>1 DEF Answered
    <3> QED
      BY <1>1, <3>1
  <2>2. ASSUME NEW i \in Keys, Registers(i), i # j PROVE FALSE
    <3>1. pending' = pending \/ pending' = [pending EXCEPT ![i] = @ + 1]
      BY <2>2 DEF Registers
    <3>2. pending'[j] = pending[j]
      BY <1>1, <2>2, <3>1
    <3> QED
      BY <1>1, <3>2
  <2>3. ASSUME Tick \/ UNCHANGED throttleVars PROVE FALSE
    <3>1. pending'[j] = pending[j]
      BY <2>3 DEF Tick, throttleVars
    <3> QED
      BY <1>1, <3>1
  <2>4. PICK i \in Keys : Answered(i) \/ Registers(i)
    BY <2>3 DEF ThrottleNext, LogsIn, Fails
  <2> QED
    BY <2>1, <2>2, <2>4
<1>3. PICK lost : GoesAhead(j, lost)
  <2>1. ~Refused(j)
    BY <1>1 DEF Refused
  <2>2. k \in DOMAIN entries
    BY DEF Blocked
  <2>3. entries' # entries
    BY <2>2
  <2> QED
    BY <1>2, <2>1, <2>3, RegisterCases
<1> DEFINE f == Swept(Counted(j))
<1>4. now' = now
  BY <1>2 DEF Registers
<1>5. /\ DOMAIN entries' \subseteq DOMAIN entries \cup {j}
      /\ DOMAIN entries' = DOMAIN f \ lost
      /\ \A i \in DOMAIN entries' : entries'[i] = Counted(j)[i]
      /\ \A i \in DOMAIN entries \ DOMAIN entries' : i \in lost \/ Expired(entries, i)
  BY <1>3, <1>4, RegisteredPairs DEF GoesAhead
<1>6. k \in lost /\ k # j
  BY <1>1, <1>3, <1>5 DEF Blocked, Expired, Entry, GoesAhead
<1>7. \A i \in DOMAIN f : f[i] = Counted(j)[i]
  BY DEF Swept, Without
<1>8. k \in Victims(f, j)
  <2> HIDE DEF f
  <2> QED
    BY <1>3, <1>6 DEF f, GoesAhead, MayEvict
<1>9. Blocked(f, k)
  <2>1. f[k] = entries[k] /\ k \in DOMAIN f
    BY <1>6, <1>7, <1>8 DEF Victims, Blocked, Counted
  <2> QED
    BY <2>1 DEF Blocked
<1>10. o \in DOMAIN f \ {j} /\ entries'[o] = f[o]
  BY <1>5, <1>7
<1> HIDE DEF f
<1>11. Blocked(f, o)
  BY <1>8, <1>9, <1>10 DEF Victims
<1> QED
  BY <1>10, <1>11 DEF Blocked

----------------------------------------------------------------------------
(* Web sessions and API keys. *)

AccessAt == {"idle", "reads", "refused", "extends", "error", "authed", "notes", "ok",
             "inserts", "deletes", "looks", "cleans"}

(* Who a request comes from and what it may be about. *)
RequestOK(r) ==
  LET q == requests[r]
  IN /\ q.op \in {None, "use", "logout", "create", "revoke"} /\ q.at \in AccessAt
     /\ q.late \in BOOLEAN
     /\ q.at # "idle" => q.by \in Tokens \cup KeyIds
     /\ q.op \in {"logout", "create", "revoke"} => q.by \in Tokens
     /\ q.op = "revoke" => q.target \in KeyIds
     /\ q.at = "extends" => q.by \in Tokens
     /\ q.at = "deletes" => q.op = "revoke"
     /\ q.late => q.at \in {"reads", "refused"} /\ (q.at = "reads" => q.by \in gone)

AccessInv ==
  /\ clock \in Nat \ {0}
  /\ webSessions \in [Tokens -> Nat]
  /\ keys \subseteq KeyIds /\ gone \subseteq Tokens \cup KeyIds
  /\ DOMAIN requests = AccessRequests
  /\ \A r \in AccessRequests : RequestOK(r)
  /\ NoResurrection

LEMMA AccessStart == ASSUME AccessInit PROVE AccessInv
<1>1. Rows = {}
  BY DEF AccessInit, Rows
<1>2. \A r \in AccessRequests : RequestOK(r)
  BY DEF AccessInit, RequestOK, AccessAt, None
<1> QED
  BY <1>1, <1>2 DEF AccessInit, AccessInv, NoResurrection, Never

(* A step leaves the rows alone, but for one login, extension, logout,     *)
(* creation or revocation.                                                 *)
LEMMA AccessRows ==
  ASSUME AccessInv, [AccessNext]_accessVars
  PROVE  /\ clock' \in Nat \ {0}
         /\ webSessions' \in [Tokens -> Nat]
         /\ keys' \subseteq KeyIds /\ gone' \subseteq Tokens \cup KeyIds
         /\ gone \subseteq gone'
         /\ NoResurrection'
<1>1. /\ clock \in Nat \ {0} /\ TTL \in Nat /\ MaxClock \in Nat /\ Tokens \cap KeyIds = {}
      /\ webSessions \in [Tokens -> Nat]
      /\ keys \subseteq KeyIds /\ gone \subseteq Tokens \cup KeyIds
      /\ \A t \in gone : t \notin keys /\ (t \in Tokens => webSessions[t] = Never)
  BY AccessAssumption DEF AccessInv, NoResurrection, Rows
<1>2. \A r \in AccessRequests : RequestOK(r)
  BY DEF AccessInv
<1> SUFFICES /\ clock' \in Nat \ {0}
             /\ webSessions' \in [Tokens -> Nat]
             /\ keys' \subseteq KeyIds /\ gone' \subseteq Tokens \cup KeyIds
             /\ gone \subseteq gone'
             /\ \A t \in gone' : t \notin keys' /\ (t \in Tokens => webSessions'[t] = Never)
  BY DEF NoResurrection, Rows
<1>3. CASE Ticks
  BY <1>1, <1>3 DEF Ticks
<1>4. ASSUME NEW t \in Tokens, Logs(t)
      PROVE  /\ webSessions' \in [Tokens -> Nat] /\ UNCHANGED <<keys, gone, clock>>
             /\ \A s \in gone : s \in Tokens => webSessions'[s] = Never
  BY <1>1, <1>4 DEF Logs
<1>5. ASSUME NEW r \in AccessRequests, ExtendsSession(r)
      PROVE  /\ webSessions' \in [Tokens -> Nat] /\ UNCHANGED <<keys, gone, clock>>
             /\ \A s \in gone : s \in Tokens => webSessions'[s] = Never
  <2>1. requests[r].by \in Tokens
    BY <1>2, <1>5 DEF ExtendsSession, RequestOK
  <2> QED
    BY <1>1, <1>5, <2>1 DEF ExtendsSession, AccessGoes
<1>6. ASSUME NEW r \in AccessRequests, LogsOut(r)
      PROVE  /\ webSessions' \in [Tokens -> Nat] /\ UNCHANGED <<keys, clock>>
             /\ gone' \subseteq Tokens \cup KeyIds /\ gone \subseteq gone'
             /\ \A t \in gone' : t \notin keys /\ (t \in Tokens => webSessions'[t] = Never)
  <2>1. requests[r].by \in Tokens
    BY <1>2, <1>6 DEF LogsOut, RequestOK
  <2>2. requests[r].by \notin keys
    BY <1>1, <2>1
  <2> QED
    BY <1>1, <1>6, <2>1, <2>2 DEF LogsOut, Never
<1>7. ASSUME NEW r \in AccessRequests, Revokes(r)
      PROVE  /\ keys' \subseteq keys /\ UNCHANGED <<webSessions, clock>>
             /\ gone' \subseteq Tokens \cup KeyIds /\ gone \subseteq gone'
             /\ \A t \in gone' : t \notin keys' /\ (t \in Tokens => webSessions[t] = Never)
  <2>1. requests[r].target \in KeyIds
    BY <1>2, <1>7 DEF Revokes, RequestOK
  <2>2. requests[r].target \notin Tokens
    BY <1>1, <2>1
  <2> QED
    BY <1>1, <1>7, <2>1, <2>2 DEF Revokes
<1>8. ASSUME NEW r \in AccessRequests, InsertsKey(r)
      PROVE  /\ keys' \subseteq KeyIds /\ UNCHANGED <<webSessions, clock, gone>>
             /\ \A t \in gone : t \notin keys'
  BY <1>1, <1>8 DEF InsertsKey
<1>9. CASE UNCHANGED accessVars
  BY <1>1, <1>9 DEF accessVars
<1>10. ASSUME NEW r \in AccessRequests,
              AccessArrives(r) \/ ReadsSession(r) \/ ReadsKey(r) \/ NotesUse(r) \/ Uses(r)
                \/ CountsKeys(r) \/ FindsKey(r) \/ LooksForSessions(r) \/ CleansUp(r)
       PROVE  UNCHANGED <<webSessions, keys, gone, clock>>
  BY <1>10 DEF AccessArrives, Comes, ReadsSession, ReadsKey, NotesUse, Uses, CountsKeys,
     FindsKey, LooksForSessions, CleansUp, AccessGoes
<1> QED
  BY <1>1, <1>3, <1>4, <1>5, <1>6, <1>7, <1>8, <1>9, <1>10 DEF AccessNext, Handles

LEMMA RequestsKept ==
  ASSUME AccessInv, [AccessNext]_accessVars
  PROVE  DOMAIN requests' = AccessRequests /\ \A r \in AccessRequests : RequestOK(r)'
<1>1. gone \subseteq gone' /\ DOMAIN requests = AccessRequests
      /\ \A r \in AccessRequests : RequestOK(r)
      /\ \A t \in gone : t \notin keys /\ (t \in Tokens => webSessions[t] = Never)
  BY AccessRows DEF AccessInv, NoResurrection, Rows
<1>2. ASSUME NEW r \in AccessRequests, requests'[r] = requests[r] PROVE RequestOK(r)'
  BY <1>1, <1>2 DEF RequestOK
<1>3. CASE Ticks \/ UNCHANGED accessVars \/ \E t \in Tokens : Logs(t)
  <2>1. requests' = requests
    BY <1>3 DEF Ticks, accessVars, Logs
  <2> QED
    BY <1>1, <1>2, <2>1
<1>4. ASSUME NEW r \in AccessRequests, AccessArrives(r) \/ Handles(r)
      PROVE  DOMAIN requests' = AccessRequests /\ \A q \in AccessRequests : RequestOK(q)'
  <2>1. /\ DOMAIN requests' = DOMAIN requests
        /\ \A q \in AccessRequests : q # r => requests'[q] = requests[q]
    BY <1>1, <1>4 DEF AccessArrives, Comes, Handles, ReadsSession, ExtendsSession, ReadsKey,
       NotesUse, Uses, CountsKeys, InsertsKey, FindsKey, Revokes, LogsOut, LooksForSessions,
       CleansUp, AccessGoes, Sets
  <2>2. RequestOK(r)'
    <3>1. CASE AccessArrives(r)
      <4>1. PICK op, by, target : Comes(r, op, by, target)
                 /\ \/ by \in Tokens /\ op \in {"use", "logout", "create"}
                    \/ by \in Tokens /\ op = "revoke" /\ target \in KeyIds
                    \/ by \in KeyIds /\ op = "use"
        BY <3>1 DEF AccessArrives
      <4>2. requests'[r] = [op |-> op, by |-> by, target |-> target, at |-> "reads",
                            late |-> by \in gone] /\ gone' = gone
        BY <1>1, <4>1 DEF Comes
      <4>3. requests'[r].late = (by \in gone) /\ gone' = gone
        BY <4>2
      <4>4. requests'[r].late \in BOOLEAN
        BY <4>3
      <4>5. requests'[r].late = TRUE => by \in gone'
        BY <4>3
      <4>6. /\ requests'[r].op = op /\ requests'[r].by = by /\ requests'[r].at = "reads"
            /\ requests'[r].target = target
        BY <4>2
      <4> QED
        BY <4>1, <4>4, <4>5, <4>6 DEF RequestOK, AccessAt
    <3>2. ASSUME NEW at \in AccessAt, requests' = [requests EXCEPT ![r].at = at],
                 at = "extends" => requests[r].by \in Tokens,
                 at = "deletes" => requests[r].op = "revoke",
                 requests[r].late => at = "refused",
                 requests[r].at # "idle"
          PROVE  RequestOK(r)'
      <4>1. /\ requests'[r].at = at /\ requests'[r].op = requests[r].op
            /\ requests'[r].by = requests[r].by /\ requests'[r].late = requests[r].late
            /\ requests'[r].target = requests[r].target
        BY <1>1, <3>2
      <4> QED
        BY <1>1, <3>2, <4>1 DEF RequestOK
    <3>3. CASE Handles(r)
      <4>1. RequestOK(r)
        BY <1>1
      <4>2. CASE ReadsSession(r)
        <5>1. requests[r].late => ~SessionLive(requests[r].by)
          BY <1>1, <4>1, <4>2 DEF ReadsSession, RequestOK, SessionLive
        <5> QED
          BY <3>2, <4>2, <5>1 DEF ReadsSession, AccessGoes, Sets, AccessAt
      <4>3. CASE ReadsKey(r)
        <5>1. requests[r].late => requests[r].by \notin keys
          BY <1>1, <4>1, <4>3 DEF ReadsKey, RequestOK
        <5> QED
          BY <3>2, <4>3, <5>1 DEF ReadsKey, AccessGoes, Sets, AccessAt
      <4>4. CASE ~ReadsSession(r) /\ ~ReadsKey(r)
        <5>1. requests[r].at \notin {"idle", "reads", "refused"} /\ ~requests[r].late
          BY <3>3, <4>1, <4>4 DEF Handles, ExtendsSession, NotesUse, Uses, CountsKeys,
             InsertsKey, FindsKey, Revokes, LogsOut, LooksForSessions, CleansUp, RequestOK
        <5>2. \E at \in AccessAt :
                 /\ requests' = [requests EXCEPT ![r].at = at]
                 /\ at # "extends" /\ (at = "deletes" => requests[r].op = "revoke")
          BY <3>3, <4>4 DEF Handles, ExtendsSession, NotesUse, Uses, CountsKeys, InsertsKey,
             FindsKey, Revokes, LogsOut, LooksForSessions, CleansUp, AccessGoes, Sets, AccessAt
        <5> QED
          BY <3>2, <5>1, <5>2
      <4> QED
        BY <4>2, <4>3, <4>4
    <3> QED
      BY <1>4, <3>1, <3>3
  <2> QED
    BY <1>1, <1>2, <2>1, <2>2
<1> QED
  BY <1>3, <1>4 DEF AccessNext

LEMMA AccessStep == ASSUME AccessInv, [AccessNext]_accessVars PROVE AccessInv'
BY AccessRows, RequestsKept DEF AccessInv

LEMMA AccessIsSound == ASSUME AccessInv PROVE AccessSound
BY DEF AccessInv, AccessSound, DeadAtOnce, RequestOK

(* However attempts overlap, whatever is evicted and whoever logs in, the  *)
(* guesses at one password are rationed and the table keeps its bounds;    *)
(* and what was logged out or revoked is let in by no request, in          *)
(* whatever order requests read, extend, create and revoke.                *)
THEOREM AccountsAreSound == ServicesSpec => []AccountsSound
<1> DEFINE Inv == /\ focus = "throttle" => ThrottleInv
                  /\ focus = "access" => AccessInv
<1>1. ServicesInit => Inv
  BY ThrottleStart, AccessStart DEF ServicesInit
<1>2. Inv /\ [ServicesNext]_servicesVars => Inv'
  BY FocusMoves, ThrottleStep, AccessStep
<1>3. Inv => AccountsSound
  BY ThrottleSound, AccessIsSound DEF AccountsSound
<1> QED
  BY <1>1, <1>2, <1>3, PTL DEF ServicesSpec

----------------------------------------------------------------------------
(* Memory entries and the profile. *)

LEMMA LeastNat == ASSUME NEW T \in SUBSET Nat, T # {} PROVE \E n \in T : \A m \in T : n <= m
<1> DEFINE R == OpToRel(<, Nat)
<1>1. IsWellFoundedOn(R, Nat)
  BY NatLessThanWellFounded
<1>2. \A m, n \in Nat : m < n => <<m, n>> \in R
  BY DEF OpToRel
<1> HIDE DEF R
<1>3. PICK n \in T : \A m \in T : <<m, n>> \notin R
  BY <1>1, WFMin
<1>4. ASSUME NEW m \in T PROVE n <= m
  <2>1. m \in Nat /\ n \in Nat /\ <<m, n>> \notin R
    BY <1>3
  <2>2. ~(m < n)
    BY <1>2, <2>1, Zenon
  <2> QED
    BY <2>1, <2>2
<1> QED
  BY <1>3, <1>4

(* Min of a set of numbers, and Max of a finite one. *)
LEMMA MinFits ==
  ASSUME NEW T \in SUBSET Nat, T # {}
  PROVE  Min(T) \in T /\ \A m \in T : Min(T) <= m
<1>1. \E n \in T : \A m \in T : n <= m
  BY LeastNat
<1> QED
  BY <1>1 DEF Min

LEMMA MaxFits ==
  ASSUME NEW T \in SUBSET Nat, IsFiniteSet(T), T # {}
  PROVE  Max(T) \in T /\ \A m \in T : m <= Max(T)
<1> DEFINE Above(x) == {y \in T : y > x}
           Sizes == {Cardinality(Above(x)) : x \in T}
<1>1. \A x \in T : IsFiniteSet(Above(x)) /\ Cardinality(Above(x)) \in Nat
  BY FS_Subset, FS_CardinalityType
<1>2. Sizes \in SUBSET Nat /\ Sizes # {}
  BY <1>1
<1>3. PICK n \in Sizes : \A m \in Sizes : n <= m
  BY <1>2, LeastNat
<1>4. PICK x \in T : n = Cardinality(Above(x))
  OBVIOUS
<1>5. ASSUME NEW y \in T, y > x PROVE FALSE
  <2>0. x \in Nat /\ y \in Nat /\ \A z \in T : z \in Nat
    OBVIOUS
  <2>1. Above(y) \subseteq Above(x) /\ y \in Above(x) /\ y \notin Above(y)
    <3>1. \A z \in T : z > y => z > x
      BY <1>5, <2>0
    <3>2. y > x /\ ~(y > y)
      BY <1>5, <2>0
    <3> QED
      BY <3>1, <3>2
  <2>2. Cardinality(Above(y)) <= Cardinality(Above(x))
        /\ Cardinality(Above(y)) # Cardinality(Above(x))
    BY <1>1, <2>1, FS_Subset
  <2>3. n <= Cardinality(Above(y)) /\ n \in Nat /\ Cardinality(Above(y)) \in Nat
    BY <1>1, <1>2, <1>3
  <2> QED
    BY <1>4, <2>2, <2>3
<1>6. x \in T /\ \A y \in T : x >= y
  BY <1>5
<1>7. \E z \in T : \A y \in T : z >= y
  BY <1>6
<1>8. Max(T) \in T /\ \A y \in T : Max(T) >= y
  BY <1>7 DEF Max
<1> QED
  BY <1>8

MemSteps == {"idle", "insert", "write", "refresh", "again", "failed", "done", "taken",
             "conflict", "create"}
MemEntry == [key : EntryKeys \cup {NoText}, text : Texts \cup {NoText}]
Profiles == [Fields -> Texts \cup {NoText}]
MemCall ==
  [op : {"none", "save", "edit", "delete", "profile"}, key : EntryKeys \cup {NoText},
   text : Texts \cup {NoText}, field : Fields \cup {NoText}, id : Nat, copy : MemEntry,
   own : Profiles \cup {NoProfile}, step : MemSteps, lost : BOOLEAN]

(* What a request may rely on: the row it works on is there, or the key it *)
(* found taken still is, unless an entry was lost since it began; and the  *)
(* profile it writes is there.                                             *)
Knows(r) ==
  LET c == calls[r]
  IN /\ c.op \in {"save", "edit"} /\ c.lost = FALSE =>
          /\ c.step \in {"write", "taken", "refresh"} => c.id \in DOMAIN memEntries
          /\ c.step = "again" => WithKey(c.key) # {}
          /\ c.step # "failed"
     /\ c.op = "profile" /\ c.step = "write" => profile = latest

EntriesOK ==
  /\ IsFiniteSet(DOMAIN memEntries) /\ DOMAIN memEntries \subseteq Nat
  /\ \A i \in DOMAIN memEntries : memEntries[i] \in MemEntry
  /\ OneEntryPerKey
ProfileOK ==
  /\ latest \in Profiles
  /\ IF profile = NoProfile THEN latest = Blank ELSE profile = latest

MemInv ==
  /\ EntriesOK /\ ProfileOK
  /\ calls \in [MemRequests -> MemCall]
  /\ \A r \in MemRequests : Knows(r)

LEMMA NextIdFits ==
  ASSUME EntriesOK PROVE NextId \in Nat /\ NextId \notin DOMAIN memEntries
<1>1. CASE DOMAIN memEntries = {}
  BY <1>1 DEF NextId
<1>2. CASE DOMAIN memEntries # {}
  <2>1. Max(DOMAIN memEntries) \in DOMAIN memEntries
        /\ \A m \in DOMAIN memEntries : m <= Max(DOMAIN memEntries)
    BY <1>2, MaxFits DEF EntriesOK
  <2>2. Max(DOMAIN memEntries) \in Nat /\ NextId = Max(DOMAIN memEntries) + 1
    BY <1>2, <2>1 DEF EntriesOK, NextId
  <2>3. NextId \in Nat /\ \A m \in DOMAIN memEntries : m \in Nat /\ m < NextId
    BY <2>1, <2>2 DEF EntriesOK
  <2> QED
    BY <2>3
<1> QED
  BY <1>1, <1>2

(* No entry goes and none gets another key. *)
EntriesStay ==
  /\ DOMAIN memEntries \subseteq DOMAIN memEntries'
  /\ \A i \in DOMAIN memEntries : memEntries'[i].key = memEntries[i].key

(* What a step of r may do to another request: nothing, if it leaves the   *)
(* entries and the profile what they were for it, or tell it of its loss.  *)
OtherStays(q) ==
  /\ calls'[q] = calls[q] /\ EntriesStay
  /\ profile = latest => profile' = latest'
OtherLoses(q) ==
  /\ calls[q].step = "idle" => calls'[q].step = "idle"
  /\ calls[q].step # "idle" => calls'[q].lost = TRUE
  /\ calls'[q].op = calls[q].op /\ calls'[q].step = calls[q].step
  /\ UNCHANGED <<profile, latest>>

LEMMA OthersKnow ==
  ASSUME MemInv, NEW q \in MemRequests, Knows(q), OtherStays(q) \/ OtherLoses(q)
  PROVE  Knows(q)'
<1>1. CASE OtherStays(q)
  <2>1. ASSUME WithKey(calls[q].key) # {} PROVE WithKey(calls[q].key)' # {}
    BY <1>1, <2>1 DEF OtherStays, EntriesStay, WithKey
  <2> QED
    BY <1>1, <2>1 DEF OtherStays, EntriesStay, Knows
<1>2. CASE OtherLoses(q)
  BY <1>2 DEF OtherLoses, Knows
<1> QED
  BY <1>1, <1>2

(* What the invariant says of one request. *)
LEMMA OneCall ==
  ASSUME MemInv, NEW r \in MemRequests
  PROVE  /\ calls[r] \in MemCall /\ Knows(r)
         /\ EntriesOK /\ ProfileOK
         /\ \A i \in DOMAIN memEntries : i \in Nat /\ memEntries[i] \in MemEntry
BY DEF MemInv, EntriesOK

(* The entries after a write of the columns that differ. *)
LEMMA WritesFits ==
  ASSUME MemInv, NEW r \in MemRequests, calls[r].id \in DOMAIN memEntries,
         NEW changed \in MemEntry, Writes(r, changed),
         \/ changed.key = calls[r].copy.key
         \/ WithKey(changed.key) \ {calls[r].id} = {}
  PROVE  /\ EntriesOK' /\ ProfileOK'
         /\ DOMAIN memEntries' = DOMAIN memEntries
         /\ changed.key = calls[r].copy.key => EntriesStay
<1> DEFINE i == calls[r].id
           e == [key |-> IF changed.key = calls[r].copy.key THEN memEntries[i].key
                         ELSE changed.key,
                 text |-> IF changed.text = calls[r].copy.text THEN memEntries[i].text
                          ELSE changed.text]
<1>1. memEntries' = [memEntries EXCEPT ![i] = e] /\ UNCHANGED <<profile, latest>>
  BY DEF Writes
<1>2. e \in MemEntry /\ e.key = IF changed.key = calls[r].copy.key THEN memEntries[i].key
                                ELSE changed.key
  BY DEF MemInv, EntriesOK, MemEntry
<1> HIDE DEF e
<1>3. /\ DOMAIN memEntries' = DOMAIN memEntries /\ memEntries'[i] = e
      /\ \A k \in DOMAIN memEntries : k # i => memEntries'[k] = memEntries[k]
  BY <1>1
<1>4. \A k \in DOMAIN memEntries' : memEntries'[k] \in MemEntry
  BY <1>2, <1>3 DEF MemInv, EntriesOK
<1>5. OneEntryPerKey'
  <2>1. OneEntryPerKey
    BY DEF MemInv, EntriesOK
  <2>2. CASE changed.key = calls[r].copy.key
    BY <1>2, <1>3, <2>1, <2>2 DEF OneEntryPerKey
  <2>3. CASE WithKey(changed.key) \ {i} = {} /\ changed.key # calls[r].copy.key
    <3>1. \A k \in DOMAIN memEntries : k # i => memEntries[k].key # changed.key
      BY <2>3 DEF WithKey
    <3> QED
      BY <1>2, <1>3, <2>1, <2>3, <3>1 DEF OneEntryPerKey
  <2> QED
    BY <2>2, <2>3
<1> QED
  BY <1>1, <1>2, <1>3, <1>4, <1>5 DEF MemInv, EntriesOK, ProfileOK, EntriesStay

(* r becomes c, and no other request changes. *)
Becomes(r, c) ==
  /\ c \in MemCall /\ calls'[r] = c
  /\ calls' \in [MemRequests -> MemCall]
  /\ \A q \in MemRequests : q # r => calls'[q] = calls[q]

LEMMA CallMoves ==
  ASSUME MemInv, NEW r \in MemRequests
  PROVE  /\ \A step \in MemSteps :
              MemMoves(r, step) => Becomes(r, [calls[r] EXCEPT !.step = step])
         /\ \A c \in MemCall : MemBegins(r, c) => Becomes(r, c)
<1>1. calls \in [MemRequests -> MemCall] /\ calls[r] \in MemCall
  BY DEF MemInv
<1>2. ASSUME NEW c \in MemCall, calls' = [calls EXCEPT ![r] = c] PROVE Becomes(r, c)
  BY <1>1, <1>2 DEF Becomes
<1>3. ASSUME NEW step \in MemSteps, MemMoves(r, step)
      PROVE  Becomes(r, [calls[r] EXCEPT !.step = step])
  <2> DEFINE c == [calls[r] EXCEPT !.step = step]
  <2>1. c \in MemCall
    BY <1>1 DEF MemCall
  <2>2. calls' = [calls EXCEPT ![r] = c]
    BY <1>3 DEF MemMoves
  <2> HIDE DEF c
  <2>3. Becomes(r, c)
    BY <1>2, <2>1, <2>2
  <2> QED
    BY <2>3 DEF c
<1> QED
  BY <1>2, <1>3 DEF MemBegins

LEMMA CallsLose ==
  ASSUME MemInv, NEW r \in MemRequests, NEW step \in MemSteps, Unsettles(r, step),
         UNCHANGED <<profile, latest>>
  PROVE  /\ calls' \in [MemRequests -> MemCall]
         /\ calls'[r] = [calls[r] EXCEPT !.step = step]
         /\ \A q \in MemRequests : q # r => OtherLoses(q)
<1>1. calls \in [MemRequests -> MemCall]
  BY DEF MemInv
<1> DEFINE c(q) == IF q = r THEN [calls[q] EXCEPT !.step = step]
                   ELSE [calls[q] EXCEPT !.lost = calls[q].step # "idle"]
<1>2. calls' = [q \in MemRequests |-> c(q)]
  BY DEF Unsettles
<1>3. ASSUME NEW q \in MemRequests
      PROVE  c(q) \in MemCall /\ (q # r => OtherLoses(q)) /\ calls'[q] = c(q)
  <2>1. calls'[q] = c(q)
    BY <1>2
  <2>2. CASE q = r
    BY <1>1, <2>1, <2>2 DEF MemCall
  <2>3. CASE q # r
    <3> DEFINE lost == calls[q].step # "idle"
    <3>1. lost \in BOOLEAN /\ (calls[q].step # "idle" => lost = TRUE)
      OBVIOUS
    <3>2. calls[q] \in MemCall /\ c(q) = [calls[q] EXCEPT !.lost = lost]
      BY <1>1, <2>3
    <3> HIDE DEF lost
    <3>3. c(q) \in MemCall /\ c(q).lost = lost /\ c(q).step = calls[q].step
          /\ c(q).op = calls[q].op
      BY <3>1, <3>2 DEF MemCall
    <3> QED
      BY <2>1, <2>3, <3>1, <3>3 DEF OtherLoses
  <2> QED
    BY <2>2, <2>3
<1> QED
  BY <1>2, <1>3

(* The invariant after a step of r, from what the step does to the entries *)
(* and the profile, to r and to the others.                                *)
LEMMA MemKept ==
  ASSUME MemInv, NEW r \in MemRequests, EntriesOK', ProfileOK',
         calls' \in [MemRequests -> MemCall], Knows(r)',
         \A q \in MemRequests : q # r => OtherStays(q) \/ OtherLoses(q)
  PROVE  MemInv'
BY OthersKnow DEF MemInv

(* A step of r that changes neither entries nor profile. *)
LEMMA QuietCall ==
  ASSUME MemInv, NEW r \in MemRequests, UNCHANGED <<memEntries, profile, latest>>,
         NEW c, Becomes(r, c),
         c.op \in {"save", "edit"} /\ c.lost = FALSE =>
            /\ c.step \in {"write", "taken", "refresh"} => c.id \in DOMAIN memEntries
            /\ c.step = "again" => WithKey(c.key) # {}
            /\ c.step # "failed",
         c.op = "profile" /\ c.step = "write" => profile = latest
  PROVE  MemInv'
<1>1. EntriesOK' /\ ProfileOK'
  BY DEF MemInv, EntriesOK, ProfileOK, OneEntryPerKey
<1>2. Knows(r)'
  BY DEF Knows, Becomes, WithKey
<1>3. \A q \in MemRequests : q # r => OtherStays(q)
  BY DEF Becomes, OtherStays, EntriesStay
<1> QED
  BY <1>1, <1>2, <1>3, MemKept DEF Becomes

LEMMA SavesStep ==
  ASSUME MemInv, NEW r \in MemRequests,
         SaveFinds(r) \/ SaveWrites(r) \/ SaveInserts(r) \/ SaveFindsAgain(r)
  PROVE  MemInv'
<1>0. /\ calls[r] \in MemCall /\ Knows(r) /\ EntriesOK /\ ProfileOK
      /\ \A i \in DOMAIN memEntries : i \in Nat /\ memEntries[i] \in MemEntry
  BY OneCall
<1>1. CASE SaveFinds(r)
  <2>1. PICK key \in EntryKeys, text \in Texts :
          /\ UNCHANGED <<memEntries, profile, latest>>
          /\ \/ MemBegins(r, [Fresh EXCEPT !.op = "save", !.key = key, !.text = text,
                                           !.step = "insert"])
             \/ \E i \in WithKey(key) :
                  MemBegins(r, [Fresh EXCEPT !.op = "save", !.key = key, !.text = text,
                                  !.id = i, !.copy = memEntries[i], !.step = "write"])
    BY <1>1 DEF SaveFinds
  <2>2. PICK c \in MemCall : /\ MemBegins(r, c) /\ c.op = "save"
                             /\ \/ c.step = "insert"
                                \/ c.step = "write" /\ c.id \in DOMAIN memEntries
    <3>1. [Fresh EXCEPT !.op = "save", !.key = key, !.text = text, !.step = "insert"] \in MemCall
      BY DEF Fresh, MemCall, MemSteps, NoEntry, MemEntry
    <3>2. \A i \in WithKey(key) :
            [Fresh EXCEPT !.op = "save", !.key = key, !.text = text, !.id = i,
                          !.copy = memEntries[i], !.step = "write"] \in MemCall
      BY <1>0 DEF Fresh, MemCall, MemSteps, WithKey
    <3> QED
      BY <2>1, <3>1, <3>2 DEF Fresh, WithKey
  <2>3. Becomes(r, c)
    BY <2>2, CallMoves
  <2> QED
    BY <2>1, <2>2, <2>3, QuietCall
<1>2. CASE SaveWrites(r)
  <2>1. calls[r].op = "save" /\ calls[r].step = "write"
    BY <1>2 DEF SaveWrites, MemAt
  <2>2. CASE calls[r].id \notin DOMAIN memEntries
    <3>1. MemMoves(r, "failed") /\ UNCHANGED <<memEntries, profile, latest>>
      BY <1>2, <2>2 DEF SaveWrites
    <3>2. Becomes(r, [calls[r] EXCEPT !.step = "failed"])
      BY <3>1, CallMoves DEF MemSteps
    <3>3. calls[r].lost = TRUE
      BY <1>0, <2>1, <2>2 DEF Knows, MemCall
    <3> QED
      BY <1>0, <2>1, <3>1, <3>2, <3>3, QuietCall DEF MemCall
  <2>3. CASE calls[r].id \in DOMAIN memEntries
    <3> DEFINE new == [calls[r].copy EXCEPT !.text = calls[r].text]
    <3>1. MemMoves(r, "refresh") /\ Writes(r, new)
      BY <1>2, <2>3 DEF SaveWrites
    <3>2. new \in MemEntry /\ new.key = calls[r].copy.key
      BY <1>0 DEF MemCall, MemEntry
    <3> HIDE DEF new
    <3>3. Becomes(r, [calls[r] EXCEPT !.step = "refresh"])
      BY <3>1, CallMoves DEF MemSteps
    <3>4. EntriesOK' /\ ProfileOK' /\ EntriesStay /\ UNCHANGED <<profile, latest>>
      BY <2>3, <3>1, <3>2, WritesFits DEF Writes
    <3>5. Knows(r)'
      BY <1>0, <2>1, <2>3, <3>3, <3>4 DEF Knows, Becomes, EntriesStay, MemCall
    <3>6. \A q \in MemRequests : q # r => OtherStays(q)
      BY <3>3, <3>4 DEF Becomes, OtherStays
    <3> QED
      BY <3>3, <3>4, <3>5, <3>6, MemKept DEF Becomes
  <2> QED
    BY <2>2, <2>3
<1>3. CASE SaveInserts(r)
  <2>1. calls[r].op = "save" /\ calls[r].step = "insert" /\ UNCHANGED <<profile, latest>>
    BY <1>3 DEF SaveInserts, MemAt
  <2>2. CASE WithKey(calls[r].key) # {}
    <3>1. MemMoves(r, "again") /\ UNCHANGED memEntries
      BY <1>3, <2>2 DEF SaveInserts
    <3>2. Becomes(r, [calls[r] EXCEPT !.step = "again"])
      BY <3>1, CallMoves DEF MemSteps
    <3> QED
      BY <1>0, <2>1, <2>2, <3>1, <3>2, QuietCall DEF MemCall
  <2>3. CASE WithKey(calls[r].key) = {}
    <3> DEFINE n == NextId
               e == [key |-> calls[r].key, text |-> calls[r].text]
               c == [calls[r] EXCEPT !.id = n, !.step = "refresh"]
    <3>1. /\ memEntries' = [i \in DOMAIN memEntries \cup {n} |->
                              IF i \in DOMAIN memEntries THEN memEntries[i] ELSE e]
          /\ calls' = [calls EXCEPT ![r].id = n, ![r].step = "refresh"]
      BY <1>3, <2>3 DEF SaveInserts
    <3>2. n \in Nat /\ n \notin DOMAIN memEntries
      BY <1>0, NextIdFits
    <3>3. e \in MemEntry /\ e.key = calls[r].key
      BY <1>0 DEF MemCall, MemEntry
    <3> HIDE DEF n, e
    <3>4. /\ DOMAIN memEntries' = DOMAIN memEntries \cup {n} /\ memEntries'[n] = e
          /\ \A i \in DOMAIN memEntries : memEntries'[i] = memEntries[i]
      BY <3>1, <3>2
    <3>5. EntriesOK'
      <4>1. IsFiniteSet(DOMAIN memEntries')
        BY <1>0, <3>4, FS_AddElement DEF EntriesOK
      <4>2. \A i \in DOMAIN memEntries : memEntries[i].key # calls[r].key
        BY <2>3 DEF WithKey
      <4>3. OneEntryPerKey'
        BY <1>0, <3>3, <3>4, <4>2 DEF EntriesOK, OneEntryPerKey
      <4> QED
        BY <1>0, <3>2, <3>3, <3>4, <4>1, <4>3 DEF EntriesOK
    <3>6. ProfileOK' /\ EntriesStay
      BY <1>0, <2>1, <3>4 DEF ProfileOK, EntriesStay
    <3>7. Becomes(r, c)
      <4>1. calls \in [MemRequests -> MemCall]
        BY DEF MemInv
      <4>2. c \in MemCall
        BY <1>0, <3>2 DEF MemCall, MemSteps
      <4>3. calls' = [calls EXCEPT ![r] = c]
        BY <3>1, <4>1 DEF MemCall
      <4> HIDE DEF c
      <4> QED
        BY <4>1, <4>2, <4>3 DEF Becomes
    <3>8. Knows(r)'
      BY <1>0, <2>1, <3>4, <3>7 DEF Knows, Becomes, MemCall
    <3>9. \A q \in MemRequests : q # r => OtherStays(q)
      BY <2>1, <3>6, <3>7 DEF Becomes, OtherStays
    <3> QED
      BY <3>5, <3>6, <3>7, <3>8, <3>9, MemKept DEF Becomes
  <2> QED
    BY <2>2, <2>3
<1>4. CASE SaveFindsAgain(r)
  <2>1. /\ calls[r].op = "save" /\ calls[r].step = "again"
        /\ UNCHANGED <<memEntries, profile, latest>>
    BY <1>4 DEF SaveFindsAgain, MemAt
  <2>2. CASE WithKey(calls[r].key) = {} /\ MemMoves(r, "failed")
    <3>1. Becomes(r, [calls[r] EXCEPT !.step = "failed"])
      BY <2>2, CallMoves DEF MemSteps
    <3>2. calls[r].lost = TRUE
      BY <1>0, <2>1, <2>2 DEF Knows, MemCall
    <3> QED
      BY <1>0, <2>1, <3>1, <3>2, QuietCall DEF MemCall
  <2>3. ASSUME NEW i \in WithKey(calls[r].key),
               calls' = [calls EXCEPT ![r].id = i, ![r].copy = memEntries[i], ![r].step = "write"]
        PROVE  MemInv'
    <3> DEFINE c == [calls[r] EXCEPT !.id = i, !.copy = memEntries[i], !.step = "write"]
    <3>1. calls \in [MemRequests -> MemCall] /\ i \in DOMAIN memEntries
      BY DEF MemInv, WithKey
    <3>2. c \in MemCall /\ c.op = "save" /\ c.id = i /\ c.step = "write"
      BY <1>0, <2>1, <3>1 DEF MemCall, MemSteps
    <3>3. calls' = [calls EXCEPT ![r] = c]
      BY <2>3, <3>1 DEF MemCall
    <3> HIDE DEF c
    <3>4. Becomes(r, c)
      BY <3>1, <3>2, <3>3 DEF Becomes
    <3> QED
      BY <2>1, <3>1, <3>2, <3>4, QuietCall
  <2> QED
    BY <1>4, <2>2, <2>3 DEF SaveFindsAgain
<1> QED
  BY <1>1, <1>2, <1>3, <1>4

LEMMA EditsStep ==
  ASSUME MemInv, NEW r \in MemRequests,
         EditFinds(r) \/ EditChecks(r) \/ EditWrites(r) \/ Refreshes(r)
  PROVE  MemInv'
<1>0. /\ calls[r] \in MemCall /\ Knows(r) /\ EntriesOK /\ ProfileOK
      /\ \A i \in DOMAIN memEntries : i \in Nat /\ memEntries[i] \in MemEntry
  BY OneCall
<1>1. CASE EditFinds(r)
  <2>1. PICK i \in DOMAIN memEntries, key \in EntryKeys \cup {NoText},
             text \in Texts \cup {NoText}, step \in {"write", "taken"} :
          /\ UNCHANGED <<memEntries, profile, latest>>
          /\ MemBegins(r, [Fresh EXCEPT !.op = "edit", !.key = key, !.text = text, !.id = i,
                             !.copy = memEntries[i], !.step = step])
    BY <1>1 DEF EditFinds
  <2> DEFINE c == [Fresh EXCEPT !.op = "edit", !.key = key, !.text = text, !.id = i,
                             !.copy = memEntries[i], !.step = step]
  <2>2. c \in MemCall /\ c.op = "edit" /\ c.id = i /\ c.step \in {"write", "taken"}
    BY <1>0 DEF Fresh, MemCall, MemSteps
  <2> HIDE DEF c
  <2>3. Becomes(r, c)
    BY <2>1, <2>2, CallMoves DEF c
  <2> QED
    BY <2>1, <2>2, <2>3, QuietCall
<1>2. CASE EditChecks(r)
  <2>1. PICK step \in {"write", "conflict"} :
          /\ calls[r].op = "edit" /\ calls[r].step = "taken" /\ MemMoves(r, step)
          /\ UNCHANGED <<memEntries, profile, latest>>
    BY <1>2 DEF EditChecks, MemAt
  <2>2. Becomes(r, [calls[r] EXCEPT !.step = step])
    BY <2>1, CallMoves DEF MemSteps
  <2> QED
    BY <1>0, <2>1, <2>2, QuietCall DEF MemCall, Knows
<1>3. CASE EditWrites(r)
  <2> DEFINE new == [key |-> IF calls[r].key = NoText THEN calls[r].copy.key ELSE calls[r].key,
                     text |-> IF calls[r].text = NoText THEN calls[r].copy.text
                              ELSE calls[r].text]
             clash == new.key # calls[r].copy.key /\ WithKey(new.key) \ {calls[r].id} # {}
  <2>1. calls[r].op = "edit" /\ calls[r].step = "write" /\ new \in MemEntry
    BY <1>0, <1>3 DEF EditWrites, MemAt, MemCall, MemEntry
  <2>2. \/ /\ calls[r].id \in DOMAIN memEntries /\ ~clash /\ Writes(r, new)
           /\ IF new.key = calls[r].copy.key THEN MemMoves(r, "refresh")
              ELSE Unsettles(r, "refresh")
        \/ /\ calls[r].id \in DOMAIN memEntries /\ MemMoves(r, "conflict")
           /\ UNCHANGED <<memEntries, profile, latest>>
        \/ /\ calls[r].id \notin DOMAIN memEntries /\ MemMoves(r, "failed")
           /\ UNCHANGED <<memEntries, profile, latest>>
    BY <1>3 DEF EditWrites
  <2>3. CASE /\ calls[r].id \in DOMAIN memEntries /\ MemMoves(r, "conflict")
             /\ UNCHANGED <<memEntries, profile, latest>>
    <3>1. Becomes(r, [calls[r] EXCEPT !.step = "conflict"])
      BY <2>3, CallMoves DEF MemSteps
    <3> QED
      BY <1>0, <2>1, <2>3, <3>1, QuietCall DEF MemCall
  <2>4. CASE /\ calls[r].id \notin DOMAIN memEntries /\ MemMoves(r, "failed")
             /\ UNCHANGED <<memEntries, profile, latest>>
    <3>1. Becomes(r, [calls[r] EXCEPT !.step = "failed"])
      BY <2>4, CallMoves DEF MemSteps
    <3>2. calls[r].lost = TRUE
      BY <1>0, <2>1, <2>4 DEF Knows, MemCall
    <3> QED
      BY <1>0, <2>1, <2>4, <3>1, <3>2, QuietCall DEF MemCall
  <2>5. CASE /\ calls[r].id \in DOMAIN memEntries /\ ~clash /\ Writes(r, new)
             /\ IF new.key = calls[r].copy.key THEN MemMoves(r, "refresh")
                ELSE Unsettles(r, "refresh")
    <3>1. \/ new.key = calls[r].copy.key
          \/ WithKey(new.key) \ {calls[r].id} = {}
      BY <2>5
    <3> HIDE DEF new
    <3>2. /\ EntriesOK' /\ ProfileOK' /\ DOMAIN memEntries' = DOMAIN memEntries
          /\ new.key = calls[r].copy.key => EntriesStay
          /\ UNCHANGED <<profile, latest>>
      BY <2>1, <2>5, <3>1, WritesFits DEF Writes
    <3>3. CASE new.key = calls[r].copy.key /\ MemMoves(r, "refresh")
      <4>1. Becomes(r, [calls[r] EXCEPT !.step = "refresh"])
        BY <3>3, CallMoves DEF MemSteps
      <4>2. Knows(r)'
        BY <1>0, <2>1, <2>5, <3>2, <4>1 DEF Knows, Becomes, MemCall
      <4>3. \A q \in MemRequests : q # r => OtherStays(q)
        BY <3>2, <3>3, <4>1 DEF Becomes, OtherStays
      <4> QED
        BY <3>2, <4>1, <4>2, <4>3, MemKept DEF Becomes
    <3>4. CASE Unsettles(r, "refresh")
      <4>1. /\ calls' \in [MemRequests -> MemCall]
            /\ calls'[r] = [calls[r] EXCEPT !.step = "refresh"]
            /\ \A q \in MemRequests : q # r => OtherLoses(q)
        BY <3>2, <3>4, CallsLose DEF MemSteps
      <4>2. Knows(r)'
        BY <1>0, <2>1, <2>5, <3>2, <4>1 DEF Knows, MemCall
      <4> QED
        BY <3>2, <4>1, <4>2, MemKept
    <3> QED
      BY <2>5, <3>3, <3>4
  <2> QED
    BY <2>2, <2>3, <2>4, <2>5
<1>4. CASE Refreshes(r)
  <2>1. PICK step \in {"done", "failed"} :
          /\ calls[r].op \in {"save", "edit"}
          /\ calls[r].step = "refresh"
          /\ MemMoves(r, step)
          /\ step = "failed" => calls[r].id \notin DOMAIN memEntries
          /\ UNCHANGED <<memEntries, profile, latest>>
    BY <1>4 DEF Refreshes
  <2>2. Becomes(r, [calls[r] EXCEPT !.step = step])
    BY <2>1, CallMoves DEF MemSteps
  <2>3. step = "failed" => calls[r].lost = TRUE
    BY <1>0, <2>1 DEF Knows, MemCall
  <2> QED
    BY <1>0, <2>1, <2>2, <2>3, QuietCall DEF MemCall
<1> QED
  BY <1>1, <1>2, <1>3, <1>4

LEMMA DeletesStep ==
  ASSUME MemInv, NEW r \in MemRequests, DeleteFinds(r) \/ MemDeletes(r) PROVE MemInv'
<1>0. /\ calls[r] \in MemCall /\ Knows(r) /\ EntriesOK /\ ProfileOK
      /\ \A i \in DOMAIN memEntries : i \in Nat /\ memEntries[i] \in MemEntry
  BY OneCall
<1>1. CASE DeleteFinds(r)
  <2>1. PICK i \in DOMAIN memEntries :
          /\ MemBegins(r, [Fresh EXCEPT !.op = "delete", !.id = i, !.step = "write"])
          /\ UNCHANGED <<memEntries, profile, latest>>
    BY <1>1 DEF DeleteFinds
  <2> DEFINE c == [Fresh EXCEPT !.op = "delete", !.id = i, !.step = "write"]
  <2>2. c \in MemCall /\ c.op = "delete"
    BY <1>0 DEF Fresh, MemCall, MemSteps, NoEntry, MemEntry
  <2> HIDE DEF c
  <2>3. Becomes(r, c)
    BY <2>1, <2>2, CallMoves DEF c
  <2> QED
    BY <2>1, <2>2, <2>3, QuietCall
<1>2. CASE MemDeletes(r)
  <2>1. /\ calls[r].op = "delete" /\ Unsettles(r, "done") /\ UNCHANGED <<profile, latest>>
        /\ memEntries' = [i \in DOMAIN memEntries \ {calls[r].id} |-> memEntries[i]]
    BY <1>2 DEF MemDeletes, MemAt
  <2>2. /\ calls' \in [MemRequests -> MemCall]
        /\ calls'[r] = [calls[r] EXCEPT !.step = "done"]
        /\ \A q \in MemRequests : q # r => OtherLoses(q)
    BY <2>1, CallsLose DEF MemSteps
  <2>3. EntriesOK'
    <3>1. IsFiniteSet(DOMAIN memEntries')
      BY <1>0, <2>1, FS_RemoveElement DEF EntriesOK
    <3> QED
      BY <1>0, <2>1, <3>1 DEF EntriesOK, OneEntryPerKey
  <2>4. ProfileOK' /\ Knows(r)'
    BY <1>0, <2>1, <2>2 DEF ProfileOK, Knows, MemCall
  <2> QED
    BY <2>2, <2>3, <2>4, MemKept
<1> QED
  BY <1>1, <1>2

LEMMA ProfileStep ==
  ASSUME MemInv, NEW r \in MemRequests, ProfileFinds(r) \/ ProfileCreates(r) \/ ProfileWrites(r)
  PROVE  MemInv'
<1>0. /\ calls[r] \in MemCall /\ Knows(r) /\ EntriesOK /\ ProfileOK
  BY OneCall
<1>1. Blank \in Profiles /\ NoText \in Texts \cup {NoText} /\ profile \in Profiles \cup {NoProfile}
  BY <1>0 DEF Blank, Profiles, ProfileOK
<1>2. CASE ProfileFinds(r)
  <2>1. PICK field \in Fields \cup {NoText}, text \in Texts, step \in {"create", "write"} :
          /\ step = "write" => profile # NoProfile
          /\ MemBegins(r, [Fresh EXCEPT !.op = "profile", !.field = field, !.own = profile,
                             !.text = text, !.step = step])
          /\ UNCHANGED <<memEntries, profile, latest>>
    BY <1>2 DEF ProfileFinds
  <2> DEFINE c == [Fresh EXCEPT !.op = "profile", !.field = field, !.own = profile,
                             !.text = text, !.step = step]
  <2>2. c \in MemCall /\ c.op = "profile" /\ c.step = step
    BY <1>1 DEF Fresh, MemCall, MemSteps, NoEntry, MemEntry
  <2> HIDE DEF c
  <2>3. Becomes(r, c)
    BY <2>1, <2>2, CallMoves DEF c
  <2> QED
    BY <1>0, <2>1, <2>2, <2>3, QuietCall DEF ProfileOK
<1>3. CASE ProfileCreates(r)
  <2>1. calls[r].op = "profile" /\ UNCHANGED <<memEntries, latest>>
    BY <1>3 DEF ProfileCreates, MemAt
  <2>2. CASE profile # NoProfile /\ MemMoves(r, "failed") /\ UNCHANGED profile
    <3>1. Becomes(r, [calls[r] EXCEPT !.step = "failed"])
      BY <2>2, CallMoves DEF MemSteps
    <3> QED
      BY <1>0, <2>1, <2>2, <3>1, QuietCall DEF MemCall
  <2>3. CASE /\ profile = NoProfile /\ profile' = Blank
             /\ calls' = [calls EXCEPT ![r].own = Blank, ![r].step = "write"]
    <3> DEFINE c == [calls[r] EXCEPT !.own = Blank, !.step = "write"]
    <3>1. calls \in [MemRequests -> MemCall]
      BY DEF MemInv
    <3>2. c \in MemCall /\ c.op = "profile" /\ c.step = "write"
      BY <1>0, <1>1, <2>1 DEF MemCall, MemSteps
    <3>3. calls' = [calls EXCEPT ![r] = c]
      BY <2>3, <3>1 DEF MemCall
    <3> HIDE DEF c
    <3>4. Becomes(r, c)
      BY <3>1, <3>2, <3>3 DEF Becomes
    <3>5. latest = Blank /\ profile' = latest'
      BY <1>0, <2>1, <2>3 DEF ProfileOK
    <3>6. EntriesOK' /\ ProfileOK' /\ EntriesStay
      BY <1>0, <2>1, <3>5 DEF EntriesOK, OneEntryPerKey, ProfileOK, EntriesStay
    <3>7. Knows(r)'
      BY <3>2, <3>4, <3>5 DEF Knows, Becomes
    <3>8. \A q \in MemRequests : q # r => OtherStays(q)
      BY <3>4, <3>5, <3>6 DEF Becomes, OtherStays
    <3> QED
      BY <3>4, <3>6, <3>7, <3>8, MemKept DEF Becomes
  <2> QED
    BY <1>3, <2>2, <2>3 DEF ProfileCreates
<1>4. CASE ProfileWrites(r)
  <2> DEFINE f == calls[r].field
             text == calls[r].text
             written == f # NoText /\ calls[r].own[f] # text
  <2>1. /\ calls[r].op = "profile" /\ calls[r].step = "write"
        /\ profile' = IF written THEN [profile EXCEPT ![f] = text] ELSE profile
        /\ latest' = IF written THEN [latest EXCEPT ![f] = text] ELSE latest
        /\ MemMoves(r, "done") /\ UNCHANGED memEntries
    BY <1>4 DEF ProfileWrites, MemAt
  <2>2. f \in Fields \cup {NoText} /\ text \in Texts \cup {NoText}
    BY <1>0 DEF MemCall
  <2>3. Becomes(r, [calls[r] EXCEPT !.step = "done"])
    BY <2>1, CallMoves DEF MemSteps
  <2>4. profile = latest /\ latest \in Profiles
    BY <1>0, <2>1 DEF Knows, ProfileOK
  <2> HIDE DEF written, f, text
  <2>5. profile' = latest'
    BY <2>1, <2>4
  <2>6. latest' \in Profiles /\ (profile' = NoProfile => latest' = Blank)
    <3>1. CASE ~written
      BY <1>0, <2>1, <2>4, <3>1 DEF ProfileOK
    <3>2. CASE written
      <4>1. latest' = [latest EXCEPT ![f] = text] /\ f \in Fields
        BY <2>1, <2>2, <3>2 DEF written
      <4>2. latest' \in Profiles
        BY <2>2, <2>4, <4>1 DEF Profiles
      <4>3. DOMAIN latest' = Fields /\ DOMAIN NoProfile = {}
        BY <4>2 DEF Profiles, NoProfile
      <4> QED
        BY <2>5, <4>1, <4>2, <4>3
    <3> QED
      BY <3>1, <3>2
  <2>7. EntriesOK' /\ ProfileOK' /\ EntriesStay
    BY <1>0, <2>1, <2>5, <2>6 DEF EntriesOK, OneEntryPerKey, ProfileOK, EntriesStay
  <2>8. Knows(r)'
    BY <1>0, <2>1, <2>3 DEF Knows, Becomes, MemCall
  <2>9. \A q \in MemRequests : q # r => OtherStays(q)
    BY <2>3, <2>5, <2>7 DEF Becomes, OtherStays
  <2> QED
    BY <2>3, <2>7, <2>8, <2>9, MemKept DEF Becomes
<1> QED
  BY <1>2, <1>3, <1>4

LEMMA MemStep == ASSUME MemInv, [MemNext]_memVars PROVE MemInv'
<1>1. CASE UNCHANGED memVars
  BY <1>1 DEF memVars, MemInv, EntriesOK, OneEntryPerKey, ProfileOK, Knows, WithKey
<1>2. CASE MemNext
  BY <1>2, SavesStep, EditsStep, DeletesStep, ProfileStep DEF MemNext
<1> QED
  BY <1>1, <1>2

LEMMA MemStart == ASSUME MemInit PROVE MemInv
<1>1. Fresh \in MemCall /\ Fresh.op = "none"
  BY DEF Fresh, MemCall, MemSteps, NoEntry, MemEntry
<1>2. \A r \in MemRequests : calls[r] = Fresh /\ calls \in [MemRequests -> MemCall]
  BY <1>1 DEF MemInit
<1>3. DOMAIN memEntries = {} /\ IsFiniteSet({})
  BY FS_EmptySet DEF MemInit
<1>4. latest = Blank /\ profile = NoProfile /\ Blank \in Profiles
  BY DEF MemInit, Blank, Profiles
<1> HIDE DEF Fresh
<1>5. calls \in [MemRequests -> MemCall]
  BY <1>1 DEF MemInit
<1> QED
  BY <1>1, <1>2, <1>3, <1>4, <1>5 DEF MemInv, EntriesOK, OneEntryPerKey, ProfileOK, Knows

LEMMA MemIsSound == ASSUME MemInv PROVE UserMemorySound
<1>1. FailsOnlyOverLoss
  BY DEF FailsOnlyOverLoss, MemInv, Knows, MemCall
<1>2. OneEntryPerKey /\ ProfileKeepsAll
  BY DEF MemInv, EntriesOK, ProfileOK, ProfileKeepsAll
<1> QED
  BY <1>1, <1>2 DEF UserMemorySound
----------------------------------------------------------------------------
(* Rules, and the turn that is judged by them. *)

RuleIds == Nat \ {0}
JudgeFields == {"step", "globals", "rules", "cites", "conflict"}

(* The rows are there to be linked; the rules a turn has read keep their   *)
(* form; and what it recorded was shown, nothing before it has ended.      *)
RulesInv ==
  /\ globals \subseteq RuleIds /\ IsFiniteSet(globals)
  /\ DOMAIN rules \subseteq RuleIds /\ IsFiniteSet(DOMAIN rules)
  /\ LinksLead
  /\ DOMAIN judge = JudgeFields
  /\ judge.globals \subseteq RuleIds
  /\ DOMAIN judge.rules \subseteq RuleIds
  /\ judge.step # "done" => judge.conflict = <<>>
  /\ ConflictWasShown

LEMMA RuleNewIdFits ==
  ASSUME NEW ids \in SUBSET RuleIds, IsFiniteSet(ids) PROVE RuleNewId(ids) \in RuleIds
<1>1. CASE ids = {}
  BY <1>1 DEF RuleNewId, RuleIds
<1>2. CASE ids # {}
  <2>1. ids \in SUBSET Nat
    BY DEF RuleIds
  <2>2. Max(ids) \in ids
    BY <1>2, <2>1, MaxFits
  <2>3. Max(ids) \in Nat
    BY <2>1, <2>2
  <2>4. RuleNewId(ids) = Max(ids) + 1
    BY <1>2 DEF RuleNewId
  <2> QED
    BY <2>3, <2>4 DEF RuleIds
<1> QED
  BY <1>1, <1>2

(* The resolved set holds a rule of the chat once. *)
LEMMA ShownOnce ==
  ASSUME NEW gs \in SUBSET RuleIds, NEW links, DOMAIN links \subseteq RuleIds,
         NEW i \in DOMAIN links, links[i] \in gs \cup {0}
  PROVE  Cardinality({a \in Active(gs, links) : (a.scope = "chat" /\ a.id = i) \/ a.by = i}) = 1
<1> DEFINE Its == {a \in Active(gs, links) : (a.scope = "chat" /\ a.id = i) \/ a.by = i}
           OfGlobals == {Item("global", g, IF Overriders(links, g) = {} THEN 0
                                           ELSE Min(Overriders(links, g))) : g \in gs}
           OfChat == {Item("chat", j, 0) : j \in DOMAIN links \ Chosen(links)}
<1>1. Active(gs, links) = OfGlobals \cup OfChat
  BY DEF Active
<1>2. ASSUME NEW g, Overriders(links, g) # {}
      PROVE  /\ Min(Overriders(links, g)) \in DOMAIN links
             /\ links[Min(Overriders(links, g))] = g
  <2>1. Overriders(links, g) \in SUBSET Nat
    BY DEF Overriders, RuleIds
  <2>2. Min(Overriders(links, g)) \in Overriders(links, g)
    BY <1>2, <2>1, MinFits
  <2> QED
    BY <2>2 DEF Overriders
<1>3. i # 0 /\ \A g \in gs : g # 0
  BY DEF RuleIds
<1>4. ASSUME NEW a \in OfGlobals, a.by = i
      PROVE  links[i] # 0 /\ i = Min(Overriders(links, links[i])) /\ a = Item("global", links[i], i)
  <2>1. PICK g \in gs : a = Item("global", g, IF Overriders(links, g) = {} THEN 0
                                              ELSE Min(Overriders(links, g)))
    OBVIOUS
  <2>2. Overriders(links, g) # {} /\ i = Min(Overriders(links, g))
    BY <1>3, <1>4, <2>1 DEF Item
  <2>3. links[i] = g
    BY <1>2, <2>2
  <2> QED
    BY <1>3, <2>1, <2>2, <2>3
<1>5. \A a \in OfGlobals : a.scope = "global"
  BY DEF Item
<1>6. \A a \in OfChat : a.scope = "chat" /\ a.by = 0 /\ a = Item("chat", a.id, 0)
                        /\ a.id \in DOMAIN links \ Chosen(links)
  BY DEF Item
<1>7. i \in Chosen(links) <=> links[i] # 0 /\ i = Min(Overriders(links, links[i]))
  <2>1. ASSUME i \in Chosen(links) PROVE links[i] # 0 /\ i = Min(Overriders(links, links[i]))
    <3>1. PICK g \in {links[j] : j \in DOMAIN links} \ {0} : i = Min(Overriders(links, g))
      BY <2>1 DEF Chosen
    <3>2. Overriders(links, g) # {}
      BY DEF Overriders
    <3>3. links[i] = g
      BY <1>2, <3>1, <3>2
    <3> QED
      BY <3>1, <3>3
  <2>2. ASSUME links[i] # 0, i = Min(Overriders(links, links[i])) PROVE i \in Chosen(links)
    <3>1. links[i] \in {links[j] : j \in DOMAIN links} \ {0}
      BY <2>2
    <3> QED
      BY <2>2, <3>1 DEF Chosen
  <2> QED
    BY <2>1, <2>2
<1>8. CASE i \in Chosen(links)
  <2> DEFINE it == Item("global", links[i], i)
  <2>1. links[i] \in gs /\ i = Min(Overriders(links, links[i])) /\ Overriders(links, links[i]) # {}
    BY <1>7, <1>8 DEF Overriders
  <2>2. it \in OfGlobals
    BY <2>1
  <2>3. it.by = i
    BY DEF Item
  <2> HIDE DEF OfGlobals, OfChat, it
  <2>4. \A a \in Its : a = it
    BY <1>1, <1>3, <1>4, <1>5, <1>6, <1>8 DEF it
  <2>5. Its = {it}
    BY <1>1, <2>2, <2>3, <2>4
  <2> QED
    BY <2>5, FS_Singleton
<1>9. CASE i \notin Chosen(links)
  <2> DEFINE it == Item("chat", i, 0)
  <2>1. it \in OfChat
    BY <1>9
  <2>2. it.scope = "chat" /\ it.id = i
    BY DEF Item
  <2> HIDE DEF OfGlobals, OfChat, it
  <2>3. \A a \in Its : a = it
    BY <1>1, <1>3, <1>4, <1>5, <1>6, <1>7, <1>9 DEF it
  <2>4. Its = {it}
    BY <1>1, <2>1, <2>2, <2>3
  <2> QED
    BY <2>4, FS_Singleton
<1> QED
  BY <1>8, <1>9

LEMMA RulesStart == ASSUME RulesInit PROVE RulesInv
<1>1. IsFiniteSet({})
  BY FS_EmptySet
<1> QED
  BY <1>1 DEF RulesInit, RulesInv, RuleIds, NoRules, LinksLead, ConflictWasShown, JudgeFields

(* An edit keeps the links. *)
LEMMA RuleRowsKept ==
  ASSUME RulesInv, [RulesNext]_ruleVars
  PROVE  /\ globals' \subseteq RuleIds /\ IsFiniteSet(globals')
         /\ DOMAIN rules' \subseteq RuleIds /\ IsFiniteSet(DOMAIN rules')
         /\ LinksLead'
<1>1. /\ globals \in SUBSET RuleIds /\ IsFiniteSet(globals)
      /\ DOMAIN rules \in SUBSET RuleIds /\ IsFiniteSet(DOMAIN rules)
      /\ \A i \in DOMAIN rules : rules[i] \in globals \cup {0}
  BY DEF RulesInv, LinksLead
<1>2. RuleNewId(globals) \in RuleIds /\ RuleNewId(DOMAIN rules) \in RuleIds
  BY <1>1, RuleNewIdFits
<1>3. CASE UNCHANGED <<globals, rules>>
  BY <1>1, <1>3 DEF LinksLead
<1>4. ASSUME NEW r \in RuleRequests, CreatesGlobal(r)
      PROVE  /\ globals' \subseteq RuleIds /\ IsFiniteSet(globals') /\ LinksLead'
             /\ rules' = rules
  <2>1. globals' = globals \cup {RuleNewId(globals)} /\ rules' = rules
    BY <1>4 DEF CreatesGlobal
  <2>2. IsFiniteSet(globals')
    BY <1>1, <2>1, FS_AddElement
  <2> QED
    BY <1>1, <1>2, <2>1, <2>2 DEF LinksLead
<1>5. ASSUME NEW r \in RuleRequests, DeletesGlobal(r)
      PROVE  /\ globals' \subseteq RuleIds /\ IsFiniteSet(globals') /\ LinksLead'
             /\ DOMAIN rules' = DOMAIN rules
  <2>1. IsFiniteSet(globals')
    BY <1>1, <1>5, FS_RemoveElement DEF DeletesGlobal
  <2>2. /\ globals' = globals \ {ruleEdits[r].id} /\ DOMAIN rules' = DOMAIN rules
        /\ \A i \in DOMAIN rules : rules'[i] = IF rules[i] = ruleEdits[r].id THEN 0 ELSE rules[i]
    BY <1>5 DEF DeletesGlobal
  <2> QED
    BY <1>1, <2>1, <2>2 DEF LinksLead
<1>6. ASSUME NEW id \in RuleIds, NEW link \in globals \cup {0},
             rules' = Extended(rules, id, link), globals' = globals
      PROVE  DOMAIN rules' \subseteq RuleIds /\ IsFiniteSet(DOMAIN rules') /\ LinksLead'
  <2>1. DOMAIN rules' = DOMAIN rules \cup {id}
        /\ \A i \in DOMAIN rules' : rules'[i] = IF i = id THEN link ELSE rules[i]
    BY <1>6 DEF Extended
  <2>2. IsFiniteSet(DOMAIN rules')
    BY <1>1, <2>1, FS_AddElement
  <2> QED
    BY <1>1, <1>6, <2>1, <2>2 DEF LinksLead
<1>7. ASSUME NEW r \in RuleRequests, CreatesRule(r)
      PROVE  /\ DOMAIN rules' \subseteq RuleIds /\ IsFiniteSet(DOMAIN rules') /\ LinksLead'
             /\ globals' = globals
  <2>1. CASE rules' = rules
    BY <1>1, <1>7, <2>1 DEF CreatesRule, LinksLead
  <2>2. CASE rules' # rules
    BY <1>2, <1>6, <1>7, <2>2 DEF CreatesRule
  <2> QED
    BY <2>1, <2>2
<1>8. ASSUME NEW r \in RuleRequests, UpdatesRule(r)
      PROVE  /\ DOMAIN rules' \subseteq RuleIds /\ IsFiniteSet(DOMAIN rules') /\ LinksLead'
             /\ globals' = globals
  <2>1. CASE rules' = rules
    BY <1>1, <1>8, <2>1 DEF UpdatesRule, LinksLead
  <2>2. CASE rules' # rules
    <3>1. /\ ruleEdits[r].id \in RuleIds /\ ruleEdits[r].link \in globals \cup {0}
          /\ rules' = Extended(rules, ruleEdits[r].id, ruleEdits[r].link) /\ globals' = globals
      BY <1>1, <1>8, <2>2 DEF UpdatesRule
    <3> QED
      BY <1>6, <3>1
  <2> QED
    BY <2>1, <2>2
<1>9. ASSUME NEW r \in RuleRequests, DeletesRule(r)
      PROVE  /\ DOMAIN rules' \subseteq RuleIds /\ IsFiniteSet(DOMAIN rules') /\ LinksLead'
             /\ globals' = globals
  <2>1. DOMAIN rules' = DOMAIN rules \ {ruleEdits[r].id} /\ globals' = globals
        /\ \A i \in DOMAIN rules' : rules'[i] = rules[i]
    BY <1>9 DEF DeletesRule, RulesWithout
  <2>2. IsFiniteSet(DOMAIN rules')
    BY <1>1, <2>1, FS_RemoveElement
  <2> QED
    BY <1>1, <2>1, <2>2 DEF LinksLead
<1>10. ASSUME NEW r \in RuleRequests,
              LoadsGlobal(r) \/ ChecksLink(r) \/ LoadsRule(r) \/ FindsRule(r)
       PROVE  UNCHANGED <<globals, rules>>
  BY <1>10 DEF LoadsGlobal, ChecksLink, LoadsRule, FindsRule, EditBegins
<1>11. CASE UNCHANGED ruleVars \/ ReadsGlobals \/ ReadsRules \/ Judged \/ RecordsConflict
  BY <1>3, <1>11 DEF ruleVars, ReadsGlobals, ReadsRules, Judged, RecordsConflict
<1> QED
  BY <1>1, <1>3, <1>4, <1>5, <1>7, <1>8, <1>9, <1>10, <1>11 DEF RulesNext

(* What the turn has read and recorded. *)
LEMMA JudgeKept ==
  ASSUME RulesInv, [RulesNext]_ruleVars
  PROVE  /\ DOMAIN judge' = JudgeFields
         /\ judge'.globals \subseteq RuleIds /\ DOMAIN judge'.rules \subseteq RuleIds
         /\ judge'.step # "done" => judge'.conflict = <<>>
         /\ ConflictWasShown'
<1>1. /\ globals \subseteq RuleIds /\ DOMAIN rules \subseteq RuleIds
      /\ DOMAIN judge = JudgeFields
      /\ judge.globals \subseteq RuleIds /\ DOMAIN judge.rules \subseteq RuleIds
      /\ judge.step # "done" => judge.conflict = <<>>
      /\ ConflictWasShown
  BY DEF RulesInv
<1>2. CASE UNCHANGED judge
  BY <1>1, <1>2 DEF ConflictWasShown, Shown
<1>3. ASSUME judge.step # "done", judge'.conflict = judge.conflict
      PROVE  judge'.conflict = <<>> /\ ConflictWasShown'
  BY <1>1, <1>3 DEF ConflictWasShown
<1>4. CASE ReadsGlobals
  <2>1. judge.step = "idle" /\ judge' = [judge EXCEPT !.step = "rules", !.globals = globals]
    BY <1>4 DEF ReadsGlobals
  <2>2. /\ judge.step # "done" /\ DOMAIN judge' = JudgeFields
        /\ judge'.conflict = judge.conflict /\ judge'.rules = judge.rules
        /\ judge'.globals = globals
    BY <1>1, <2>1 DEF JudgeFields
  <2> QED
    BY <1>1, <1>3, <2>2
<1>5. CASE ReadsRules
  <2>1. PICK step : /\ judge.step = "rules"
                    /\ judge' = [judge EXCEPT !.rules = rules, !.step = step]
    BY <1>5 DEF ReadsRules
  <2>2. /\ judge.step # "done" /\ DOMAIN judge' = JudgeFields
        /\ judge'.conflict = judge.conflict /\ judge'.rules = rules
        /\ judge'.globals = judge.globals
    BY <1>1, <2>1 DEF JudgeFields
  <2> QED
    BY <1>1, <1>3, <2>2
<1>6. CASE Judged
  <2>1. PICK cites, step : /\ judge.step = "asked"
                           /\ judge' = [judge EXCEPT !.cites = cites, !.step = step]
    <3>1. CASE judge' = [judge EXCEPT !.step = "done"]
      <4>1. judge' = [judge EXCEPT !.cites = judge.cites, !.step = "done"]
        BY <1>1, <3>1 DEF JudgeFields
      <4> QED
        BY <1>6, <4>1 DEF Judged
    <3> QED
      BY <1>6, <3>1 DEF Judged
  <2>2. /\ judge.step # "done" /\ DOMAIN judge' = JudgeFields
        /\ judge'.conflict = judge.conflict /\ judge'.rules = judge.rules
        /\ judge'.globals = judge.globals
    BY <1>1, <2>1 DEF JudgeFields
  <2> QED
    BY <1>1, <1>3, <2>2
<1>7. CASE RecordsConflict
  <2>1. PICK item \in Active(judge.globals, judge.rules) :
          judge' = [judge EXCEPT !.step = "done", !.conflict = <<item.scope, item.id>>]
    BY <1>7 DEF RecordsConflict, Matching
  <2>2. /\ DOMAIN judge' = JudgeFields /\ judge'.step = "done"
        /\ judge'.conflict = <<item.scope, item.id>> /\ judge'.rules = judge.rules
        /\ judge'.globals = judge.globals
    BY <1>1, <2>1 DEF JudgeFields
  <2>3. judge'.conflict \in Shown'
    BY <2>1, <2>2 DEF Shown
  <2> QED
    BY <1>1, <2>2, <2>3 DEF ConflictWasShown
<1>8. CASE \E r \in RuleRequests :
             \/ CreatesGlobal(r) \/ LoadsGlobal(r) \/ DeletesGlobal(r)
             \/ ChecksLink(r) \/ CreatesRule(r) \/ LoadsRule(r) \/ UpdatesRule(r)
             \/ FindsRule(r) \/ DeletesRule(r)
  <2>1. UNCHANGED judge
    BY <1>8 DEF CreatesGlobal, LoadsGlobal, DeletesGlobal, ChecksLink, CreatesRule, LoadsRule,
       UpdatesRule, FindsRule, DeletesRule, EditBegins, EditEnds
  <2> QED
    BY <1>2, <2>1
<1>9. CASE UNCHANGED ruleVars
  BY <1>2, <1>9 DEF ruleVars
<1> QED
  BY <1>4, <1>5, <1>6, <1>7, <1>8, <1>9 DEF RulesNext

LEMMA RulesStep == ASSUME RulesInv, [RulesNext]_ruleVars PROVE RulesInv'
BY RuleRowsKept, JudgeKept DEF RulesInv

LEMMA RulesIsSound == ASSUME RulesInv PROVE RulesSound
<1>1. EveryRuleShown
  <2> SUFFICES ASSUME NEW i \in DOMAIN judge.rules, judge.rules[i] \in judge.globals \cup {0}
               PROVE  Cardinality({a \in Active(judge.globals, judge.rules) :
                                     (a.scope = "chat" /\ a.id = i) \/ a.by = i}) = 1
    BY DEF EveryRuleShown
  <2>1. judge.globals \in SUBSET RuleIds /\ DOMAIN judge.rules \subseteq RuleIds
    BY DEF RulesInv
  <2> QED
    BY <2>1, ShownOnce
<1> QED
  BY <1>1 DEF RulesInv, RulesSound

(* However saves, edits and deletions of entries overlap, no key is stored *)
(* twice, none fails but over an entry that was lost, and no update of the *)
(* profile takes back another; and whatever is edited while a turn is      *)
(* judged, a link leads to a rule, every rule of the chat is shown once    *)
(* and a conflict names a rule that was shown.                             *)
THEOREM UserDataIsSound == ServicesSpec => []UserDataSound
<1> DEFINE Inv == /\ focus = "memory" => MemInv
                  /\ focus = "rules" => RulesInv
<1>1. ServicesInit => Inv
  BY MemStart, RulesStart DEF ServicesInit
<1>2. Inv /\ [ServicesNext]_servicesVars => Inv'
  BY FocusMoves, MemStep, RulesStep
<1>3. Inv => UserDataSound
  BY MemIsSound, RulesIsSound DEF UserDataSound
<1> QED
  BY <1>1, <1>2, <1>3, PTL DEF ServicesSpec

----------------------------------------------------------------------------
(* The model that LM Studio has loaded. *)

SwitchPc == {"idle", "waiting", "loading", "unloading", "emergency", "answered"}
Switch == [op : {"none", "load", "unload"}, pc : SwitchPc, model : LmModels \cup {"none"},
           answer : {"none", "error", "loaded", "timed out", "idle"}]
Known == hostModels \ hostStrays

(* One request at a time talks to the host; and the one that loads has     *)
(* seen every other model off.                                             *)
SwitchOK(r) ==
  /\ modelReqs[r].pc \in {"loading", "unloading", "emergency"} => switchLock = r
  /\ modelReqs[r].pc # "idle" => modelReqs[r].model \in LmModels
  /\ modelReqs[r].pc = "loading" => Known \subseteq {modelReqs[r].model}

LmInv ==
  /\ modelReqs \in [ModelReqs -> Switch]
  /\ hostModels \subseteq LmModels
  /\ OneModelLoaded
  /\ \A r \in ModelReqs : SwitchOK(r)

LEMMA LmStart == ASSUME LmInit PROVE LmInv
BY DEF LmInit, LmInv, SwitchOK, NoSwitch, Switch, SwitchPc, OneModelLoaded

(* A step that leaves the host alone, or is made by the request that holds *)
(* the lock, disturbs no other request.                                    *)
LEMMA SwitchSpared ==
  ASSUME NEW q \in ModelReqs, SwitchOK(q), modelReqs'[q] = modelReqs[q],
         \/ UNCHANGED <<hostModels, hostStrays>> /\ (switchLock' = switchLock \/ switchLock = "free")
         \/ \E r \in ModelReqs : r # q /\ switchLock = r
  PROVE  SwitchOK(q)'
BY LmAssumption DEF SwitchOK, Known

LEMMA AnswerEnds ==
  ASSUME LmInv, NEW r \in ModelReqs, NEW answer, LmAnswers(r, answer)
  PROVE  modelReqs'[r].model = modelReqs[r].model /\ modelReqs'[r].pc = "answered"
<1>1. modelReqs[r] \in Switch /\ DOMAIN modelReqs = ModelReqs
  BY DEF LmInv
<1>2. modelReqs' = [modelReqs EXCEPT ![r].pc = "answered", ![r].answer = answer]
  BY DEF LmAnswers
<1> QED
  BY <1>1, <1>2 DEF Switch

LEMMA LmStep == ASSUME LmInv, [LmNext]_lmVars PROVE LmInv'
<1>1. CASE UNCHANGED lmVars
  BY <1>1 DEF lmVars, LmInv, SwitchOK, Known, OneModelLoaded
<1>2. ASSUME NEW r \in ModelReqs,
             \/ SwitchArrives(r) \/ LmBegins(r) \/ UnloadsCurrent(r) \/ Loads(r)
             \/ Emergency(r) \/ Unloads(r)
      PROVE  LmInv'
  <2>1. /\ modelReqs[r] \in Switch /\ SwitchOK(r) /\ hostModels \subseteq LmModels
        /\ Known \subseteq {currentModel} /\ "none" \notin LmModels
    BY LmAssumption DEF LmInv, OneModelLoaded, Known
  <2>2. /\ modelReqs' \in [ModelReqs -> Switch]
        /\ \A q \in ModelReqs : q # r => modelReqs'[q] = modelReqs[q]
    <3>1. ASSUME NEW c \in Switch, modelReqs' = [modelReqs EXCEPT ![r] = c]
          PROVE  /\ modelReqs' \in [ModelReqs -> Switch]
                 /\ \A q \in ModelReqs : q # r => modelReqs'[q] = modelReqs[q]
      BY <3>1 DEF LmInv
    <3>2. CASE SwitchArrives(r)
      <4>1. PICK op \in {"load", "unload"}, m \in LmModels :
              modelReqs' = [modelReqs EXCEPT ![r] =
                              [op |-> op, pc |-> "waiting", model |-> m, answer |-> "none"]]
        BY <3>2 DEF SwitchArrives
      <4>2. [op |-> op, pc |-> "waiting", model |-> m, answer |-> "none"] \in Switch
        BY DEF Switch, SwitchPc
      <4> QED
        BY <3>1, <4>1, <4>2
    <3>3. ASSUME NEW pc \in SwitchPc, LmMoves(r, pc)
          PROVE  \E c \in Switch : modelReqs' = [modelReqs EXCEPT ![r] = c]
      <4>1. [modelReqs[r] EXCEPT !.pc = pc] \in Switch
        BY <2>1 DEF Switch
      <4>2. modelReqs' = [modelReqs EXCEPT ![r] = [modelReqs[r] EXCEPT !.pc = pc]]
        BY <3>3 DEF LmMoves
      <4> QED
        BY <4>1, <4>2
    <3>4. ASSUME NEW answer \in {"none", "error", "loaded", "timed out", "idle"},
                 LmAnswers(r, answer)
          PROVE  \E c \in Switch : modelReqs' = [modelReqs EXCEPT ![r] = c]
      <4> DEFINE c == [modelReqs[r] EXCEPT !.pc = "answered", !.answer = answer]
      <4>1. c \in Switch
        BY <2>1 DEF Switch, SwitchPc
      <4>2. modelReqs' = [modelReqs EXCEPT ![r] = c]
        BY <3>4 DEF LmAnswers
      <4> QED
        BY <4>1, <4>2
    <3>5. CASE \E pc \in SwitchPc : LmMoves(r, pc)
      BY <3>1, <3>3, <3>5
    <3>6. CASE \E answer \in {"none", "error", "loaded", "timed out", "idle"} : LmAnswers(r, answer)
      BY <3>1, <3>4, <3>6
    <3> QED
      BY <1>2, <3>2, <3>5, <3>6 DEF LmBegins, UnloadsCurrent, Loads, Emergency, Unloads, SwitchPc
  <2>3. CASE SwitchArrives(r)
    <3>1. UNCHANGED <<hostModels, hostStrays, currentModel, switchLock>>
      BY <2>3 DEF SwitchArrives
    <3>2. modelReqs'[r].pc = "waiting" /\ modelReqs'[r].model \in LmModels
      BY <2>3 DEF SwitchArrives, LmInv
    <3>3. SwitchOK(r)'
      BY <3>2 DEF SwitchOK
    <3> QED
      BY <2>2, <3>1, <3>3, SwitchSpared DEF LmInv, OneModelLoaded
  <2>4. CASE LmBegins(r)
    <3>1. /\ UNCHANGED <<hostModels, hostStrays, currentModel>>
          /\ switchLock = "free" /\ switchLock' = r /\ modelReqs[r].pc = "waiting"
      BY <2>4 DEF LmBegins, LmAt
    <3>2. /\ modelReqs'[r].model = modelReqs[r].model
          /\ modelReqs'[r].pc = "loading" => currentModel \in {"none", modelReqs[r].model}
      BY <2>1, <2>4 DEF LmBegins, LmMoves, LmInv, Switch
    <3>3. currentModel = "none" => Known = {}
      BY <2>1 DEF Known
    <3>4. SwitchOK(r)'
      BY <2>1, <3>1, <3>2, <3>3 DEF SwitchOK, Known
    <3> QED
      BY <2>2, <3>1, <3>4, SwitchSpared DEF LmInv, OneModelLoaded
  <2>5. ASSUME modelReqs[r].pc \in {"loading", "unloading", "emergency"},
               hostModels' \subseteq LmModels, OneModelLoaded',
               \/ switchLock' = switchLock /\ SwitchOK(r)'
               \/ modelReqs'[r].pc = "answered" /\ modelReqs'[r].model = modelReqs[r].model
        PROVE  LmInv'
    <3>1. switchLock = r
      BY <2>1, <2>5 DEF SwitchOK
    <3>2. SwitchOK(r)'
      BY <2>1, <2>5 DEF SwitchOK
    <3>3. \A q \in ModelReqs : SwitchOK(q)'
      BY <2>2, <3>1, <3>2, SwitchSpared DEF LmInv
    <3> QED
      BY <2>2, <2>5, <3>3 DEF LmInv
  <2>6. CASE UnloadsCurrent(r)
    <3>1. /\ modelReqs[r].pc = "unloading" /\ UNCHANGED currentModel
          /\ HostUnloads(currentModel) \/ HostDoesNothing
          /\ \/ switchLock' = switchLock /\ HostUnloads(currentModel) /\ LmMoves(r, "loading")
             \/ LmAnswers(r, "error")
      BY <2>6 DEF UnloadsCurrent, LmAt
    <3>2. hostModels' \subseteq LmModels /\ OneModelLoaded'
      BY <2>1, <3>1 DEF HostUnloads, HostDoesNothing, OneModelLoaded, Known
    <3>3. CASE switchLock' = switchLock /\ HostUnloads(currentModel) /\ LmMoves(r, "loading")
      <4>1. Known' = {}
        BY <2>1, <3>3 DEF HostUnloads, Known
      <4>2. modelReqs'[r].model = modelReqs[r].model /\ modelReqs'[r].pc = "loading"
        BY <2>1, <3>3 DEF LmMoves, LmInv, Switch
      <4>3. SwitchOK(r)'
        BY <2>1, <3>1, <3>3, <4>1, <4>2 DEF SwitchOK
      <4> QED
        BY <2>5, <3>1, <3>2, <3>3, <4>3
    <3>4. CASE LmAnswers(r, "error")
      <4>1. modelReqs'[r].model = modelReqs[r].model /\ modelReqs'[r].pc = "answered"
        BY <3>4, AnswerEnds
      <4> QED
        BY <2>5, <3>1, <3>2, <4>1
    <3> QED
      BY <3>1, <3>3, <3>4
  <2>7. CASE Loads(r)
    <3> DEFINE m == modelReqs[r].model
    <3>1. modelReqs[r].pc = "loading" /\ m \in LmModels /\ Known \subseteq {m}
      BY <2>1, <2>7 DEF Loads, LmAt, SwitchOK
    <3>2. \/ HostLoads(m) /\ currentModel' = m /\ LmAnswers(r, "loaded")
          \/ HostDoesNothing /\ currentModel' = currentModel /\ LmAnswers(r, "error")
          \/ /\ HostLoadsLate(m) \/ HostDoesNothing
             /\ currentModel' = currentModel /\ switchLock' = switchLock /\ LmMoves(r, "emergency")
      BY <2>7 DEF Loads
    <3>3. hostModels' \subseteq LmModels /\ OneModelLoaded'
      BY <2>1, <3>1, <3>2 DEF HostLoads, HostDoesNothing, HostLoadsLate, OneModelLoaded, Known
    <3>4. CASE switchLock' = switchLock /\ LmMoves(r, "emergency")
      <4>1. modelReqs'[r].model = modelReqs[r].model /\ modelReqs'[r].pc = "emergency"
        BY <2>1, <3>4 DEF LmMoves, LmInv, Switch
      <4>2. SwitchOK(r)'
        BY <2>1, <3>1, <3>4, <4>1 DEF SwitchOK
      <4> QED
        BY <2>5, <3>1, <3>3, <3>4, <4>2
    <3>5. CASE \E answer : LmAnswers(r, answer)
      <4>1. modelReqs'[r].model = modelReqs[r].model /\ modelReqs'[r].pc = "answered"
        BY <3>5, AnswerEnds
      <4> QED
        BY <2>5, <3>1, <3>3, <4>1
    <3> QED
      BY <3>2, <3>4, <3>5
  <2>8. CASE Emergency(r) \/ Unloads(r)
    <3> DEFINE m == modelReqs[r].model
    <3>1. modelReqs[r].pc \in {"emergency", "unloading"} /\ \E answer : LmAnswers(r, answer)
      BY <2>8 DEF Emergency, Unloads, LmAt
    <3>2. ASSUME Emergency(r) PROVE hostModels' \subseteq LmModels /\ OneModelLoaded'
      <4>1. /\ \/ HostUnloads(m)
               \/ hostStrays' = hostStrays \cup ({m} \cap hostModels) /\ UNCHANGED hostModels
            /\ currentModel' = IF currentModel = m THEN "none" ELSE currentModel
        BY <3>2 DEF Emergency
      <4>2. hostModels' \subseteq hostModels /\ hostModels' \ hostStrays' \subseteq Known \ {m}
        BY <4>1 DEF HostUnloads, Known
      <4> QED
        BY <2>1, <4>1, <4>2 DEF OneModelLoaded
    <3>3. ASSUME Unloads(r) PROVE hostModels' \subseteq LmModels /\ OneModelLoaded'
      <4>1. \/ /\ HostUnloads(m)
               /\ currentModel' = IF currentModel = m THEN "none" ELSE currentModel
            \/ (HostUnloads(m) \/ HostDoesNothing) /\ currentModel' = currentModel
        BY <3>3 DEF Unloads
      <4> QED
        BY <2>1, <4>1 DEF HostUnloads, HostDoesNothing, OneModelLoaded, Known
    <3>4. hostModels' \subseteq LmModels /\ OneModelLoaded'
      BY <2>8, <3>2, <3>3
    <3>5. modelReqs'[r].model = modelReqs[r].model /\ modelReqs'[r].pc = "answered"
      BY <3>1, AnswerEnds
    <3> QED
      BY <2>5, <3>1, <3>4, <3>5
  <2> QED
    BY <1>2, <2>3, <2>4, <2>6, <2>7, <2>8
<1> QED
  BY <1>1, <1>2 DEF LmNext

----------------------------------------------------------------------------
(* Providers, their seeds and their checks. *)

ReqFields == {"op", "pc", "id", "copy", "done", "raced"}

(* A request knows of no marker that is not there; and the row it has a    *)
(* check of is as it read it, or it was overtaken.                         *)
ReqOK(r) ==
  /\ DOMAIN provReqs[r] = ReqFields
  /\ provReqs[r].done \subseteq seedMarks
  /\ provReqs[r].raced \in BOOLEAN
  /\ provReqs[r].pc = "fetching" /\ provReqs[r].raced = FALSE =>
       /\ provReqs[r].id \in ProvIds
       /\ provReqs[r].copy = llmproviders[provReqs[r].id]
       /\ provReqs[r].copy # NoProvider

CacheOK(i) ==
  \/ modelCache[i].of = NoProvider
  \/ modelCache[i].raced = TRUE
  \/ modelCache[i].of = llmproviders[i]
  \/ \E r \in ProvRequests : provReqs[r].pc = "committed" /\ provReqs[r].id = i

SeedRowsOK ==
  /\ seededRows \in [Seeds -> 0..1] /\ seedMarks \subseteq Seeds
  /\ \A s \in Seeds : seededRows[s] = 1 => s \in seedMarks
SeedMemoryOK ==
  /\ seededUsers \in BOOLEAN /\ deepseekPending \in BOOLEAN
  /\ seededUsers = TRUE => "LM Studio" \in seedMarks
  /\ seededUsers = TRUE /\ deepseekPending = FALSE => "DeepSeek" \in seedMarks

ProvInv ==
  /\ DOMAIN llmproviders = ProvIds /\ DOMAIN modelCache = ProvIds
  /\ DOMAIN provReqs = ProvRequests
  /\ SeedRowsOK /\ SeedMemoryOK
  /\ \A r \in ProvRequests : ReqOK(r)
  /\ \A i \in ProvIds : CacheOK(i)

LEMMA ProvStart == ASSUME ProvInit PROVE ProvInv
<1>1. SeedRowsOK
  BY DEF ProvInit, SeedRowsOK
<1>2. SeedMemoryOK
  BY DEF ProvInit, SeedMemoryOK
<1>3. ASSUME NEW r \in ProvRequests PROVE ReqOK(r)
  BY DEF ProvInit, ReqOK, NoReq, ReqFields
<1>4. ASSUME NEW i \in ProvIds PROVE CacheOK(i)
  BY DEF ProvInit, CacheOK, NotChecked
<1> QED
  BY <1>1, <1>2, <1>3, <1>4 DEF ProvInit, ProvInv

(* The id of a new row is free. *)
LEMMA ProvNewIdFits == ~ProvLive(ProvNewId)
<1> DEFINE NoneFrom(i) == \A j \in ProvIds : j >= i => ~ProvLive(j)
           T == {i \in 1..MaxProviders + 1 : NoneFrom(i)}
<1>1. MaxProviders \in Nat
  BY ProvAssumption
<1>2. MaxProviders + 1 \in T
  BY <1>1 DEF ProvIds
<1>3. T \in SUBSET Nat
  BY <1>1
<1>4. PICK n \in T : \A m \in T : n <= m
  BY <1>2, <1>3, LeastNat
<1>5. n \in 1..MaxProviders + 1 /\ n \in Nat /\ NoneFrom(n)
  BY <1>1, <1>4
<1>6. ~ProvLive(n)
  BY <1>1, <1>5 DEF ProvLive, ProvIds
<1>7. n = 1 \/ ProvLive(n - 1)
  <2>1. ASSUME n # 1, ~ProvLive(n - 1) PROVE FALSE
    <3>1. n - 1 \in 1..MaxProviders + 1
      BY <1>1, <1>5, <2>1
    <3>2. ASSUME NEW j \in ProvIds, j >= n - 1 PROVE ~ProvLive(j)
      <4>1. j = n - 1 \/ j >= n
        BY <1>1, <1>5, <3>2 DEF ProvIds
      <4> QED
        BY <1>5, <2>1, <3>2, <4>1
    <3>3. n - 1 \in T
      BY <3>1, <3>2
    <3> QED
      BY <1>4, <1>5, <3>3
  <2> QED
    BY <2>1
<1> QED
  BY <1>5, <1>6, <1>7 DEF ProvNewId

(* A row stays, or there was none. *)
RowKept(i) == llmproviders'[i] = llmproviders[i] \/ llmproviders[i] = NoProvider

LEMMA RowInserted ==
  ASSUME ProvInv, NEW row, llmproviders' = [llmproviders EXCEPT ![ProvNewId] = row]
  PROVE  DOMAIN llmproviders' = ProvIds /\ \A i \in ProvIds : RowKept(i)
<1>1. ProvNewId \in ProvIds => llmproviders[ProvNewId] = NoProvider
  BY ProvNewIdFits DEF ProvLive
<1> HIDE DEF ProvIds
<1> QED
  BY <1>1 DEF ProvInv, RowKept

LEMMA ReqSpared ==
  ASSUME NEW q \in ProvRequests, ReqOK(q), provReqs'[q] = provReqs[q],
         seedMarks \subseteq seedMarks', provReqs[q].id \in ProvIds => RowKept(provReqs[q].id)
  PROVE  ReqOK(q)'
BY DEF ReqOK, RowKept

LEMMA CacheSpared ==
  ASSUME NEW i \in ProvIds, CacheOK(i), modelCache'[i] = modelCache[i], RowKept(i),
         \A q \in ProvRequests : provReqs[q].pc = "committed" => provReqs'[q] = provReqs[q]
  PROVE  CacheOK(i)'
BY DEF CacheOK, RowKept

(* What a step does to the seeds. *)
LEMMA SeedsKept ==
  ASSUME ProvInv, [ProvNext]_provVars
  PROVE  SeedRowsOK' /\ SeedMemoryOK' /\ seedMarks \subseteq seedMarks'
<1>1. SeedRowsOK /\ SeedMemoryOK /\ \A r \in ProvRequests : provReqs[r].done \subseteq seedMarks
  BY DEF ProvInv, ReqOK
<1>2. CASE UNCHANGED <<seededRows, seedMarks, seededUsers, deepseekPending>>
  BY <1>1, <1>2 DEF SeedRowsOK, SeedMemoryOK
<1>3. ASSUME NEW r \in ProvRequests, NEW seed \in Seeds, InsertsSeed(r, seed)
      PROVE  SeedRowsOK' /\ SeedMemoryOK' /\ seedMarks \subseteq seedMarks'
  <2>1. /\ seedMarks' = seedMarks \cup {seed} /\ UNCHANGED <<seededUsers, deepseekPending>>
        /\ \/ seededRows' = seededRows
           \/ /\ seed \notin seedMarks
              /\ seededRows' = [seededRows EXCEPT ![seed] = @ + 1]
    BY <1>3 DEF InsertsSeed, provMemory
  <2>2. SeedMemoryOK'
    BY <1>1, <2>1 DEF SeedMemoryOK
  <2>3. CASE seededRows' = seededRows
    BY <1>1, <2>1, <2>2, <2>3 DEF SeedRowsOK
  <2>4. CASE seed \notin seedMarks /\ seededRows' = [seededRows EXCEPT ![seed] = @ + 1]
    <3>1. seededRows \in [Seeds -> 0..1] /\ seededRows[seed] = 0
      BY <1>1, <2>4 DEF SeedRowsOK
    <3>2. seededRows' = [seededRows EXCEPT ![seed] = 1]
      BY <2>4, <3>1
    <3>3. seededRows' \in [Seeds -> 0..1]
      BY <3>1, <3>2
    <3>4. \A s \in Seeds : seededRows'[s] = 1 => s \in seedMarks'
      BY <1>1, <2>1, <3>1, <3>2 DEF SeedRowsOK
    <3> QED
      BY <1>1, <2>1, <2>2, <3>3, <3>4 DEF SeedRowsOK
  <2> QED
    BY <2>1, <2>3, <2>4
<1>4. ASSUME NEW r \in ProvRequests, SeedUnlocks(r)
      PROVE  SeedRowsOK' /\ SeedMemoryOK' /\ seedMarks \subseteq seedMarks'
  <2>1. /\ UNCHANGED <<seededRows, seedMarks>> /\ seededUsers' = TRUE
        /\ deepseekPending' = ("DeepSeek" \notin provReqs[r].done)
        /\ ~WantsSeed(r, "LM Studio") /\ provReqs[r].pc = "seeding"
    BY <1>4 DEF SeedUnlocks, provDb, Seeds
  <2>2. "LM Studio" \in provReqs[r].done
    BY <2>1 DEF WantsSeed
  <2>3. deepseekPending' \in BOOLEAN
    BY <2>1
  <2>4. deepseekPending' = FALSE => "DeepSeek" \in provReqs[r].done
    BY <2>1
  <2>5. SeedMemoryOK'
    BY <1>1, <2>1, <2>2, <2>3, <2>4 DEF SeedMemoryOK
  <2>6. SeedRowsOK'
    BY <1>1, <2>1 DEF SeedRowsOK
  <2> QED
    BY <2>1, <2>5, <2>6
<1>5. CASE AgentRestarts
  <2>1. UNCHANGED <<seededRows, seedMarks>> /\ seededUsers' = FALSE /\ deepseekPending' = FALSE
    BY <1>5 DEF AgentRestarts, provDb
  <2>2. SeedRowsOK'
    BY <1>1, <2>1 DEF SeedRowsOK
  <2> QED
    BY <2>1, <2>2 DEF SeedMemoryOK
<1>6. CASE KeyChanges \/ \E j \in Jobs : CreatesJob(j) \/ JobRuns(j)
  BY <1>2, <1>6 DEF KeyChanges, CreatesJob, JobRuns, provDb, provMemory
<1>7. ASSUME NEW r \in ProvRequests,
             \/ AsksForList(r) \/ SeedLocks(r) \/ Lists(r) \/ AsksForCheck(r) \/ CheckEnds(r)
             \/ CreatesProvider(r) \/ ReadsRow(r) \/ Edits(r) \/ ProvDeletes(r) \/ DropsCheck(r)
      PROVE  UNCHANGED <<seededRows, seedMarks, seededUsers, deepseekPending>>
  BY <1>7 DEF AsksForList, SeedLocks, Lists, AsksForCheck, CheckEnds, CreatesProvider, ReadsRow,
     Edits, ProvDeletes, DropsCheck, provDb, provMemory
<1>8. CASE UNCHANGED provVars
  BY <1>2, <1>8 DEF provVars
<1> QED
  BY <1>2, <1>3, <1>4, <1>5, <1>6, <1>7, <1>8 DEF ProvNext

(* A step of one request that changes no row but to insert one. *)
LEMMA ReqStep ==
  ASSUME ProvInv, NEW r \in ProvRequests,
         DOMAIN provReqs' = ProvRequests,
         \A q \in ProvRequests : q # r => provReqs'[q] = provReqs[q],
         ReqOK(r)',
         DOMAIN llmproviders' = ProvIds, \A i \in ProvIds : RowKept(i),
         SeedRowsOK', SeedMemoryOK', seedMarks \subseteq seedMarks',
         DOMAIN modelCache' = ProvIds,
         \A i \in ProvIds : CacheOK(i)' \/ modelCache'[i] = modelCache[i],
         \A i \in ProvIds : provReqs[r].pc = "committed" /\ provReqs[r].id = i => CacheOK(i)'
  PROVE  ProvInv'
<1>1. ASSUME NEW q \in ProvRequests, q # r PROVE ReqOK(q)'
  <2>1. ReqOK(q)
    BY DEF ProvInv
  <2> QED
    BY <1>1, <2>1, ReqSpared
<1>2. ASSUME NEW i \in ProvIds PROVE CacheOK(i)'
  <2>1. CASE provReqs[r].pc = "committed" /\ provReqs[r].id = i
    BY <2>1
  <2>2. CASE modelCache'[i] = modelCache[i] /\ ~(provReqs[r].pc = "committed" /\ provReqs[r].id = i)
    <3>1. CacheOK(i) /\ RowKept(i)
      BY DEF ProvInv
    <3> QED
      BY <2>2, <3>1 DEF CacheOK, RowKept
  <2> QED
    BY <2>1, <2>2
<1> QED
  BY <1>1, <1>2 DEF ProvInv

(* The requests that leave the rows and the results alone, but for a row   *)
(* that is inserted.                                                       *)
LEMMA AskingKept ==
  ASSUME ProvInv, [ProvNext]_provVars, NEW r \in ProvRequests,
         \/ AsksForList(r) \/ SeedLocks(r) \/ SeedUnlocks(r) \/ Lists(r)
         \/ \E seed \in Seeds : InsertsSeed(r, seed)
         \/ AsksForCheck(r) \/ CreatesProvider(r) \/ ReadsRow(r)
  PROVE  ProvInv'
<1>1. SeedRowsOK' /\ SeedMemoryOK' /\ seedMarks \subseteq seedMarks'
  BY SeedsKept
<1>2. DOMAIN provReqs = ProvRequests /\ ReqOK(r)
  BY DEF ProvInv
<1>3. provReqs[r].pc # "committed" /\ modelCache' = modelCache
  <2>1. modelCache' = modelCache
    BY DEF AsksForList, SeedLocks, SeedUnlocks, Lists, InsertsSeed, AsksForCheck,
       CreatesProvider, ReadsRow, provMemory
  <2>2. \/ provReqs[r] = NoReq
        \/ provReqs[r].pc \in {"waiting", "seeding", "listing"}
    BY DEF AsksForList, SeedLocks, SeedUnlocks, Lists, InsertsSeed, WantsSeed, AsksForCheck,
       CreatesProvider, ReadsRow
  <2>3. NoReq.pc = "idle"
    BY DEF NoReq
  <2> QED
    BY <2>1, <2>2, <2>3
<1>4. /\ DOMAIN provReqs' = ProvRequests
      /\ \A q \in ProvRequests : q # r => provReqs'[q] = provReqs[q]
  BY <1>2 DEF AsksForList, SeedLocks, SeedUnlocks, Lists, InsertsSeed, AsksForCheck,
     CreatesProvider, ReadsRow, ProvGoes, ProvEnds
<1>5. ASSUME UNCHANGED llmproviders
      PROVE  DOMAIN llmproviders' = ProvIds /\ \A i \in ProvIds : RowKept(i)
  BY <1>5 DEF ProvInv, RowKept
<1>6. DOMAIN llmproviders' = ProvIds /\ \A i \in ProvIds : RowKept(i)
  <2>1. CASE AsksForList(r) \/ SeedLocks(r) \/ SeedUnlocks(r) \/ Lists(r) \/ AsksForCheck(r)
               \/ ReadsRow(r)
    BY <1>5, <2>1 DEF AsksForList, SeedLocks, SeedUnlocks, Lists, AsksForCheck, ReadsRow, provDb
  <2>2. CASE \E seed \in Seeds : InsertsSeed(r, seed)
    BY <1>5, <2>2, RowInserted DEF InsertsSeed
  <2>3. CASE CreatesProvider(r)
    BY <1>5, <2>3, RowInserted DEF CreatesProvider, provDb
  <2> QED
    BY <2>1, <2>2, <2>3
<1>7. ReqOK(r)'
  <2>1. CASE provReqs'[r] = Finished
    BY <2>1 DEF ReqOK, Finished, NoReq, ReqFields
  <2>2. ASSUME NEW i \in ProvIds, llmproviders[i] # NoProvider, UNCHANGED llmproviders,
               DOMAIN provReqs'[r] = ReqFields, provReqs'[r].done = provReqs[r].done,
               provReqs'[r].raced = provReqs[r].raced, provReqs'[r].id = i,
               provReqs'[r].copy = llmproviders[i]
        PROVE  ReqOK(r)'
    BY <1>1, <1>2, <2>2 DEF ReqOK
  <2>3. ASSUME DOMAIN provReqs'[r] = ReqFields, provReqs'[r].done \subseteq seedMarks',
               provReqs'[r].raced = provReqs[r].raced, provReqs'[r].pc # "fetching"
        PROVE  ReqOK(r)'
    BY <1>2, <2>3 DEF ReqOK
  <2>4. CASE AsksForList(r) \/ SeedUnlocks(r)
    BY <1>1, <1>2, <2>3, <2>4 DEF AsksForList, SeedUnlocks, ProvGoes, ReqOK, ReqFields
  <2>5. CASE SeedLocks(r)
    BY <1>1, <1>2, <2>3, <2>5 DEF SeedLocks, ReqOK, ReqFields
  <2>6. CASE \E seed \in Seeds : InsertsSeed(r, seed)
    <3>1. PICK seed \in Seeds : InsertsSeed(r, seed)
      BY <2>6
    <3>2. /\ provReqs' = [provReqs EXCEPT ![r].done = @ \cup {seed}]
          /\ seedMarks' = seedMarks \cup {seed} /\ provReqs[r].pc = "seeding"
      BY <3>1 DEF InsertsSeed, WantsSeed
    <3> QED
      BY <1>2, <2>3, <3>2 DEF ReqOK, ReqFields
  <2>7. CASE Lists(r)
    <3>1. CASE ProvEnds(r)
      BY <1>2, <2>1, <3>1 DEF ProvEnds
    <3>2. CASE ~ProvEnds(r)
      <4>1. PICK i \in ProvIds :
              /\ ProvLive(i)
              /\ provReqs' = [provReqs EXCEPT ![r].pc = "fetching", ![r].id = i,
                                              ![r].copy = llmproviders[i]]
        BY <2>7, <3>2 DEF Lists
      <4>2. UNCHANGED llmproviders /\ llmproviders[i] # NoProvider
        BY <2>7, <4>1 DEF Lists, provDb, ProvLive
      <4> QED
        BY <1>2, <2>2, <4>1, <4>2 DEF ReqOK, ReqFields
    <3> QED
      BY <3>1, <3>2
  <2>8. CASE AsksForCheck(r)
    <3>1. CASE ProvEnds(r)
      BY <1>2, <2>1, <3>1 DEF ProvEnds
    <3>2. CASE ~ProvEnds(r)
      <4>1. PICK i \in ProvIds :
              /\ ProvLive(i)
              /\ provReqs' = [provReqs EXCEPT ![r].op = "check", ![r].pc = "fetching",
                                              ![r].id = i, ![r].copy = llmproviders[i]]
        BY <2>8, <3>2 DEF AsksForCheck
      <4>2. UNCHANGED llmproviders /\ llmproviders[i] # NoProvider
        BY <2>8, <4>1 DEF AsksForCheck, provDb, ProvLive
      <4> QED
        BY <1>2, <2>2, <4>1, <4>2 DEF ReqOK, ReqFields
    <3> QED
      BY <3>1, <3>2
  <2>9. CASE ReadsRow(r)
    <3>1. CASE ProvEnds(r)
      BY <1>2, <2>1, <3>1 DEF ProvEnds
    <3>2. CASE ~ProvEnds(r)
      <4>1. PICK op \in {"edit", "delete"}, i \in ProvIds :
              /\ ProvLive(i)
              /\ provReqs' = [provReqs EXCEPT ![r].op = op, ![r].pc = "read",
                                              ![r].id = i, ![r].copy = llmproviders[i]]
        BY <2>9, <3>2 DEF ReadsRow
      <4>2. UNCHANGED llmproviders /\ llmproviders[i] # NoProvider
        BY <2>9, <4>1 DEF ReadsRow, provDb, ProvLive
      <4> QED
        BY <1>2, <2>2, <4>1, <4>2 DEF ReqOK, ReqFields
    <3> QED
      BY <3>1, <3>2
  <2>10. CASE CreatesProvider(r)
    BY <1>2, <2>1, <2>10 DEF CreatesProvider, ProvEnds
  <2> QED
    BY <2>4, <2>5, <2>6, <2>7, <2>8, <2>9, <2>10
<1> QED
  BY <1>1, <1>3, <1>4, <1>6, <1>7, ReqStep DEF ProvInv

(* An edit or a deletion of a row, up to its commit. *)
LEMMA CommitKept ==
  ASSUME ProvInv, [ProvNext]_provVars, NEW r \in ProvRequests, Edits(r) \/ ProvDeletes(r)
  PROVE  ProvInv'
<1>1. SeedRowsOK' /\ SeedMemoryOK' /\ seedMarks \subseteq seedMarks'
  BY SeedsKept
<1>2. DOMAIN provReqs = ProvRequests /\ ReqOK(r) /\ modelCache' = modelCache
      /\ provReqs[r].pc = "read"
  BY DEF ProvInv, Edits, ProvDeletes, provMemory
<1>3. CASE ProvEnds(r) /\ UNCHANGED llmproviders
  <2>1. /\ DOMAIN provReqs' = ProvRequests
        /\ \A q \in ProvRequests : q # r => provReqs'[q] = provReqs[q]
        /\ provReqs'[r] = Finished
    BY <1>2, <1>3 DEF ProvEnds
  <2>2. ReqOK(r)'
    BY <2>1 DEF ReqOK, Finished, NoReq, ReqFields
  <2>3. DOMAIN llmproviders' = ProvIds /\ \A i \in ProvIds : RowKept(i)
    BY <1>3 DEF ProvInv, RowKept
  <2> QED
    BY <1>1, <1>2, <2>1, <2>2, <2>3, ReqStep DEF ProvInv
<1>4. CASE ~(ProvEnds(r) /\ UNCHANGED llmproviders)
  <2> DEFINE i == provReqs[r].id
             reqs == [provReqs EXCEPT ![r].pc = "committed"]
  <2>1. /\ provReqs' = Overtaken(reqs, i)
        /\ DOMAIN llmproviders' = DOMAIN llmproviders
        /\ \A j \in ProvIds : j # i => llmproviders'[j] = llmproviders[j]
    <3>1. CASE Edits(r)
      <4>1. PICK enabled \in BOOLEAN :
              /\ llmproviders' = [llmproviders EXCEPT ![i].edit = edits + 1, ![i].enabled = enabled]
              /\ provReqs' = Overtaken(reqs, i)
        BY <1>4, <3>1 DEF Edits
      <4>2. /\ DOMAIN llmproviders' = DOMAIN llmproviders
            /\ \A j \in ProvIds : j # i => llmproviders'[j] = llmproviders[j]
        <5> HIDE DEF ProvIds
        <5> QED
          BY <4>1 DEF ProvInv
      <4> QED
        BY <4>1, <4>2
    <3>2. CASE ProvDeletes(r)
      BY <3>2 DEF ProvDeletes
    <3> QED
      BY <3>1, <3>2
  <2>2. /\ DOMAIN provReqs' = ProvRequests
        /\ DOMAIN provReqs'[r] = ReqFields
        /\ provReqs'[r].pc = "committed" /\ provReqs'[r].id = i
        /\ provReqs'[r].done = provReqs[r].done /\ provReqs'[r].raced = provReqs[r].raced
    BY <1>2, <2>1 DEF Overtaken, ReqOK, ReqFields
  <2>3. ASSUME NEW q \in ProvRequests, q # r
        PROVE  provReqs'[q] = IF provReqs[q].pc = "fetching" /\ provReqs[q].id = i
                              THEN [provReqs[q] EXCEPT !.raced = TRUE] ELSE provReqs[q]
    BY <1>2, <2>1, <2>3 DEF Overtaken
  <2> HIDE DEF i, reqs
  <2>4. ReqOK(r)'
    BY <1>1, <1>2, <2>2 DEF ReqOK
  <2>5. ASSUME NEW q \in ProvRequests, q # r PROVE ReqOK(q)'
    <3>1. ReqOK(q)
      BY DEF ProvInv
    <3>2. CASE provReqs[q].pc = "fetching" /\ provReqs[q].id = i
      <4>1. /\ DOMAIN provReqs'[q] = ReqFields /\ provReqs'[q].done = provReqs[q].done
            /\ provReqs'[q].raced = TRUE
        BY <2>3, <2>5, <3>1, <3>2 DEF ReqOK, ReqFields
      <4> QED
        BY <1>1, <3>1, <4>1 DEF ReqOK
    <3>3. CASE ~(provReqs[q].pc = "fetching" /\ provReqs[q].id = i)
      <4>1. provReqs'[q] = provReqs[q]
        BY <2>3, <2>5, <3>3
      <4> QED
        BY <1>1, <2>1, <3>1, <3>3, <4>1 DEF ReqOK
    <3> QED
      BY <3>2, <3>3
  <2>6. ASSUME NEW j \in ProvIds PROVE CacheOK(j)'
    <3>1. CASE j = i
      BY <2>2, <3>1 DEF CacheOK
    <3>2. CASE j # i
      <4>1. \A q \in ProvRequests : provReqs[q].pc = "committed" => provReqs'[q] = provReqs[q]
        BY <1>2, <2>3
      <4>2. RowKept(j)
        BY <2>1, <3>2 DEF RowKept
      <4> QED
        BY <1>2, <4>1, <4>2, CacheSpared DEF ProvInv
    <3> QED
      BY <3>1, <3>2
  <2> QED
    BY <1>1, <1>2, <2>1, <2>2, <2>4, <2>5, <2>6 DEF ProvInv
<1> QED
  BY <1>3, <1>4

(* A result that is kept, and one that is dropped. *)
LEMMA CheckKept ==
  ASSUME ProvInv, [ProvNext]_provVars, NEW r \in ProvRequests, CheckEnds(r) \/ DropsCheck(r)
  PROVE  ProvInv'
<1>1. SeedRowsOK' /\ SeedMemoryOK' /\ seedMarks \subseteq seedMarks'
  BY SeedsKept
<1>2. DOMAIN provReqs = ProvRequests /\ ReqOK(r) /\ DOMAIN modelCache = ProvIds
  BY DEF ProvInv
<1>3. /\ DOMAIN provReqs' = ProvRequests
      /\ \A q \in ProvRequests : q # r => provReqs'[q] = provReqs[q]
      /\ provReqs'[r] = Finished
      /\ UNCHANGED llmproviders
  BY <1>2 DEF CheckEnds, DropsCheck, ProvEnds, provDb
<1>4. ReqOK(r)'
  BY <1>3 DEF ReqOK, Finished, NoReq, ReqFields
<1>5. DOMAIN llmproviders' = ProvIds /\ \A i \in ProvIds : RowKept(i)
  BY <1>3 DEF ProvInv, RowKept
<1>6. PICK c : modelCache' = [modelCache EXCEPT ![provReqs[r].id] = c]
  BY DEF CheckEnds, DropsCheck
<1>7. ASSUME NEW i \in ProvIds, provReqs[r].id = i PROVE CacheOK(i)'
  <2>1. CASE CheckEnds(r)
    <3>1. modelCache'[i] = [of |-> provReqs[r].copy, raced |-> provReqs[r].raced]
      BY <1>2, <1>7, <2>1 DEF CheckEnds
    <3>2. provReqs[r].raced = TRUE \/ provReqs[r].copy = llmproviders[i]
      BY <1>2, <1>7, <2>1 DEF CheckEnds, ReqOK
    <3> QED
      BY <1>3, <3>1, <3>2 DEF CacheOK
  <2>2. CASE DropsCheck(r)
    <3>1. modelCache'[i].of = NoProvider
      BY <1>2, <1>7, <2>2 DEF DropsCheck, NotChecked
    <3> QED
      BY <3>1 DEF CacheOK
  <2> QED
    BY <2>1, <2>2
<1>8. DOMAIN modelCache' = ProvIds
      /\ \A i \in ProvIds : i # provReqs[r].id => modelCache'[i] = modelCache[i]
  BY <1>2, <1>6
<1> QED
  BY <1>1, <1>3, <1>4, <1>5, <1>7, <1>8, ReqStep

LEMMA ProvStep == ASSUME ProvInv, [ProvNext]_provVars PROVE ProvInv'
<1>1. SeedRowsOK' /\ SeedMemoryOK' /\ seedMarks \subseteq seedMarks'
  BY SeedsKept
<1>2. CASE \/ KeyChanges \/ UNCHANGED provVars
           \/ \E j \in Jobs : CreatesJob(j) \/ JobRuns(j)
  <2>1. UNCHANGED <<llmproviders, modelCache, provReqs>>
    BY <1>2 DEF KeyChanges, CreatesJob, JobRuns, provVars, provDb, provMemory
  <2>2. \A i : RowKept(i)
    BY <2>1 DEF RowKept
  <2>3. \A q \in ProvRequests : ReqOK(q)'
    BY <1>1, <2>1, <2>2, ReqSpared DEF ProvInv
  <2>4. \A i \in ProvIds : CacheOK(i)'
    BY <2>1, <2>2, CacheSpared DEF ProvInv
  <2> QED
    BY <1>1, <2>1, <2>3, <2>4 DEF ProvInv
<1>3. CASE AgentRestarts
  <2>1. /\ UNCHANGED llmproviders /\ modelCache' = [i \in ProvIds |-> NotChecked]
        /\ provReqs' = [r \in ProvRequests |-> IF provReqs[r] = NoReq THEN NoReq ELSE Finished]
    BY <1>3 DEF AgentRestarts, provDb
  <2>2. ASSUME NEW q \in ProvRequests PROVE ReqOK(q)'
    BY <2>1 DEF ReqOK, Finished, NoReq, ReqFields
  <2>3. \A i \in ProvIds : CacheOK(i)'
    BY <2>1 DEF CacheOK, NotChecked
  <2> QED
    BY <1>1, <2>1, <2>2, <2>3 DEF ProvInv
<1> QED
  BY <1>2, <1>3, AskingKept, CommitKept, CheckKept DEF ProvNext

LEMMA ProvIsSound == ASSUME ProvInv PROVE ProvidersSound
<1>1. \A s \in Seeds : seededRows[s] <= 1 /\ (seededRows[s] = 1 => s \in seedMarks)
  BY DEF ProvInv, SeedRowsOK
<1>2. SeededOnce
  BY <1>1 DEF ProvInv, SeedMemoryOK, SeededOnce
<1>3. EditDropsCheck
  BY DEF ProvInv, CacheOK, EditDropsCheck
<1> QED
  BY <1>2, <1>3 DEF ProvidersSound

(* Whatever lists, checks, edits and restarts overlap, a default provider  *)
(* is inserted once and the result of a check that an edit has overtaken   *)
(* is dropped; and whatever the host refuses or does too late, no model    *)
(* but the current one is there that the client knows of.                  *)
THEOREM ModelsAreSound == ServicesSpec => []ModelsSound
<1> DEFINE Inv == /\ focus = "providers" => ProvInv
                  /\ focus = "lmStudio" => LmInv
<1>1. ServicesInit => Inv
  BY ProvStart, LmStart DEF ServicesInit
<1>2. Inv /\ [ServicesNext]_servicesVars => Inv'
  BY FocusMoves, ProvStep, LmStep
<1>3. Inv => ModelsSound
  BY ProvIsSound DEF ModelsSound, LmInv
<1> QED
  BY <1>1, <1>2, <1>3, PTL DEF ServicesSpec

----------------------------------------------------------------------------
(* Sessions with MCP servers. *)

McpPcs == {"new", "loaded", "queued", "closing", "opening", "probing", "after", "bound",
           "calling", "done"}
Locked == {"queued", "closing", "opening"}
LocksOf(s) == McpOps \X McpRequests \X {s}
Standing(r, line) == \E i \in 1..Len(line) : line[i] = r
First(r, line) == Len(line) > 0 /\ line[1] = r

(* What a request under way relies on: its place in the queue of a lock of *)
(* its server; that nothing is registered for the server while it works    *)
(* there alone; and that the session it opens is known to nobody else.     *)
CallOK(r) ==
  LET c == call[r]
  IN /\ c.pc \in Locked => (c.lock \in LocksOf(c.server) /\ Standing(r, lockQueue[c.lock]))
     /\ c.pc \in {"closing", "opening"} =>
          /\ First(r, lockQueue[c.lock])
          /\ (c.server \notin shared => sessions[c.server] = NoHandle)
     /\ c.pc = "opening" =>
          /\ c.handle \in 1..Len(handle)
          /\ handle[c.handle].server = c.server /\ handle[c.handle].asked = FALSE
          /\ \A s \in Servers : sessions[s] # c.handle

OneOpener ==
  \A r, q \in McpRequests :
    (call[r].pc = "opening" /\ call[q].pc = "opening" /\ call[r].handle = call[q].handle) => r = q

RegistryOK ==
  \A s \in Servers : sessions[s] # NoHandle =>
    handle[sessions[s]].server = s /\ handle[sessions[s]].asked = FALSE

HoldersNoted ==
  \A s \in Servers : \A r, q \in McpRequests : \A l, k \in LocksOf(s) :
    (First(r, lockQueue[l]) /\ First(q, lockQueue[k]) /\ r # q) => s \in shared

LocksOK == \A s \in Servers : lockOf[s] \in LocksOf(s) \cup {NoLock}

McpInv ==
  /\ McpTypeOK /\ LocksOK /\ HoldersNoted
  /\ RegistryOK /\ OneOpener /\ SessionsTended
  /\ \A r \in McpRequests : CallOK(r)

LEMMA LocksApart ==
  /\ \A s \in Servers : LocksOf(s) \subseteq LockNames
  /\ \A l \in LockNames : l # NoLock
<1>1. \A s \in Servers : LocksOf(s) \subseteq LockNames
  BY DEF LocksOf, LockNames
<1>2. ASSUME NEW l \in LockNames PROVE l # NoLock
  <2>1. PICK a \in McpOps, b \in McpRequests, s \in Servers : l = <<a, b, s>>
    BY DEF LockNames
  <2>2. Len(<<a, b, s>>) = 3 /\ Len(<<>>) = 0
    OBVIOUS
  <2> QED
    BY <2>1, <2>2 DEF NoLock
<1> QED
  BY <1>1, <1>2

(* A sequence without its i-th element. *)
LEMMA CutOut ==
  ASSUME NEW S, NEW t \in Seq(S), NEW i \in 1..Len(t), NEW u,
         u = SubSeq(t, 1, i - 1) \o SubSeq(t, i + 1, Len(t))
  PROVE  /\ u \in Seq(S) /\ Len(u) = Len(t) - 1
         /\ \A j \in 1..Len(u) : u[j] = IF j < i THEN t[j] ELSE t[j + 1]
<1> DEFINE a == SubSeq(t, 1, i - 1)
           b == SubSeq(t, i + 1, Len(t))
<1>0. i \in Nat /\ Len(t) \in Nat /\ 1 <= i /\ i <= Len(t)
  OBVIOUS
<1>1. /\ a \in Seq(S) /\ Len(a) = i - 1 /\ \A j \in 1..(i - 1) : a[j] = t[j]
  <2>1. \A j \in 1..(i - 1) : j \in 1..Len(t)
    BY <1>0
  <2> QED
    BY <1>0, <2>1, SubSeqProperties
<1>2. /\ b \in Seq(S) /\ Len(b) = Len(t) - i /\ \A j \in 1..(Len(t) - i) : b[j] = t[i + j]
  BY <1>0, SubSeqProperties
<1>3. /\ u \in Seq(S) /\ Len(u) = Len(a) + Len(b)
      /\ \A j \in 1..(Len(a) + Len(b)) : u[j] = IF j <= Len(a) THEN a[j] ELSE b[j - Len(a)]
  <2> HIDE DEF a, b
  <2> QED
    BY <1>1, <1>2, ConcatProperties DEF a, b
<1> HIDE DEF a, b
<1>4. Len(u) = Len(t) - 1 /\ Len(t) - 1 \in Nat /\ u \in Seq(S)
  <2>1. Len(u) = Len(a) + Len(b) /\ Len(a) = i - 1 /\ Len(b) = Len(t) - i /\ u \in Seq(S)
    BY <1>1, <1>2, <1>3
  <2>2. (i - 1) + (Len(t) - i) = Len(t) - 1 /\ Len(t) - 1 \in Nat
    BY <1>0
  <2> QED
    BY <2>1, <2>2
<1>5. ASSUME NEW j \in 1..Len(u) PROVE u[j] = IF j < i THEN t[j] ELSE t[j + 1]
  <2>0. j \in Nat /\ 1 <= j /\ j <= Len(t) - 1
    <3>1. j \in 1..(Len(t) - 1)
      BY <1>4
    <3> QED
      BY <1>0, <3>1
  <2>1. CASE j < i
    <3>1. j <= Len(a) /\ j \in 1..(Len(a) + Len(b)) /\ j \in 1..(i - 1)
      BY <1>0, <1>1, <1>2, <2>0, <2>1
    <3> QED
      BY <1>1, <1>3, <2>1, <3>1
  <2>2. CASE j >= i
    <3>1. ~(j <= Len(a)) /\ j \in 1..(Len(a) + Len(b)) /\ j - Len(a) \in 1..(Len(t) - i)
      BY <1>0, <1>1, <1>2, <2>0, <2>2
    <3>2. u[j] = b[j - Len(a)]
      BY <1>3, <3>1
    <3>3. b[j - Len(a)] = t[i + (j - Len(a))]
      BY <1>2, <3>1
    <3>4. i + (j - Len(a)) = j + 1 /\ ~(j < i)
      BY <1>0, <1>1, <2>0, <2>2
    <3> QED
      BY <3>2, <3>3, <3>4
  <2> QED
    BY <1>0, <2>0, <2>1, <2>2
<1> QED
  BY <1>4, <1>5

(* A request keeps its place in a queue, and the first one stays first. *)
PlacesKept(q) ==
  \A k \in LockNames : /\ Standing(q, lockQueue[k]) => Standing(q, lockQueue'[k])
                       /\ First(q, lockQueue[k]) => First(q, lockQueue'[k])

LEMMA JoinKeeps ==
  ASSUME McpInv, NEW r \in McpRequests, NEW l \in LockNames,
         lockQueue' = [lockQueue EXCEPT ![l] = Append(@, r)]
  PROVE  /\ lockQueue' \in [LockNames -> Seq(McpRequests)]
         /\ \A q \in McpRequests : PlacesKept(q)
         /\ Standing(r, lockQueue'[l])
<1>1. lockQueue \in [LockNames -> Seq(McpRequests)]
  BY DEF McpInv, McpTypeOK
<1>2. lockQueue' \in [LockNames -> Seq(McpRequests)]
  BY <1>1
<1>3. lockQueue'[l] = Append(lockQueue[l], r) /\ lockQueue[l] \in Seq(McpRequests)
  BY <1>1
<1>4. /\ Len(lockQueue'[l]) = Len(lockQueue[l]) + 1 /\ lockQueue'[l][Len(lockQueue[l]) + 1] = r
      /\ \A i \in 1..Len(lockQueue[l]) : lockQueue'[l][i] = lockQueue[l][i]
      /\ Len(lockQueue[l]) \in Nat
  BY <1>3
<1>5. ASSUME NEW q \in McpRequests, NEW k \in LockNames
      PROVE  /\ Standing(q, lockQueue[k]) => Standing(q, lockQueue'[k])
             /\ First(q, lockQueue[k]) => First(q, lockQueue'[k])
  <2>1. CASE k = l
    BY <1>4, <2>1 DEF Standing, First
  <2>2. CASE k # l
    BY <1>1, <2>2
  <2> QED
    BY <2>1, <2>2
<1> QED
  BY <1>2, <1>4, <1>5 DEF PlacesKept, Standing

LEMMA LeaveKeeps ==
  ASSUME McpInv, NEW r \in McpRequests, call[r].lock \in LockNames, LeavesQueue(r)
  PROVE  /\ lockQueue' \in [LockNames -> Seq(McpRequests)]
         /\ \A q \in McpRequests : q # r => PlacesKept(q)
<1> DEFINE l == call[r].lock
<1>1. lockQueue \in [LockNames -> Seq(McpRequests)]
  BY DEF McpInv, McpTypeOK
<1>2. PICK i \in 1..Len(lockQueue[l]) :
        /\ lockQueue[l][i] = r
        /\ lockQueue' = [lockQueue EXCEPT ![l] = SubSeq(lockQueue[l], 1, i - 1)
                                                   \o SubSeq(lockQueue[l], i + 1, Len(lockQueue[l]))]
  BY DEF LeavesQueue
<1> HIDE DEF l
<1>3. l \in LockNames /\ lockQueue[l] \in Seq(McpRequests)
  BY <1>1 DEF l
<1>4. lockQueue'[l] = SubSeq(lockQueue[l], 1, i - 1) \o SubSeq(lockQueue[l], i + 1, Len(lockQueue[l]))
      /\ \A k \in LockNames : k # l => lockQueue'[k] = lockQueue[k]
  BY <1>1, <1>2, <1>3
<1>5. /\ lockQueue'[l] \in Seq(McpRequests) /\ Len(lockQueue'[l]) = Len(lockQueue[l]) - 1
      /\ \A j \in 1..Len(lockQueue'[l]) :
           lockQueue'[l][j] = IF j < i THEN lockQueue[l][j] ELSE lockQueue[l][j + 1]
  <2> DEFINE t == lockQueue[l]
             u == lockQueue'[l]
  <2>1. t \in Seq(McpRequests) /\ i \in 1..Len(t)
        /\ u = SubSeq(t, 1, i - 1) \o SubSeq(t, i + 1, Len(t))
    BY <1>3, <1>4
  <2> HIDE DEF t, u
  <2>2. /\ u \in Seq(McpRequests) /\ Len(u) = Len(t) - 1
        /\ \A j \in 1..Len(u) : u[j] = IF j < i THEN t[j] ELSE t[j + 1]
    BY <2>1, CutOut
  <2> QED
    BY <2>2 DEF t, u
<1>6. lockQueue' \in [LockNames -> Seq(McpRequests)]
  BY <1>1, <1>2, <1>3, <1>4, <1>5
<1>7. ASSUME NEW q \in McpRequests, q # r, NEW k \in LockNames
      PROVE  /\ Standing(q, lockQueue[k]) => Standing(q, lockQueue'[k])
             /\ First(q, lockQueue[k]) => First(q, lockQueue'[k])
  <2>1. CASE k # l
    BY <1>4, <2>1
  <2>2. CASE k = l
    <3>0. Len(lockQueue[l]) \in Nat /\ i \in Nat
      BY <1>3
    <3>1. ASSUME NEW j \in 1..Len(lockQueue[l]), lockQueue[l][j] = q
          PROVE  \E n \in 1..Len(lockQueue'[l]) : lockQueue'[l][n] = q
      <4>1. CASE j < i
        <5>1. j \in 1..Len(lockQueue'[l]) /\ lockQueue'[l][j] = q
          BY <1>5, <3>0, <3>1, <4>1
        <5> QED
          BY <5>1
      <4>2. CASE j > i
        <5>1. /\ j - 1 \in 1..Len(lockQueue'[l]) /\ ~(j - 1 < i) /\ (j - 1) + 1 = j
          BY <1>5, <3>0, <3>1, <4>2
        <5>2. lockQueue'[l][j - 1] = q
          BY <1>5, <3>1, <5>1
        <5> QED
          BY <5>1, <5>2
      <4>3. j # i
        BY <1>2, <1>7, <3>1
      <4> QED
        BY <3>0, <4>1, <4>2, <4>3
    <3>2. ASSUME Len(lockQueue[l]) > 0, lockQueue[l][1] = q
          PROVE  Len(lockQueue'[l]) > 0 /\ lockQueue'[l][1] = q
      <4>1. i # 1 /\ i > 1 /\ Len(lockQueue[l]) > 1
        BY <1>2, <1>7, <3>0, <3>2
      <4>2. 1 \in 1..Len(lockQueue'[l])
        BY <1>5, <3>0, <4>1
      <4>3. lockQueue'[l][1] = lockQueue[l][1]
        BY <1>5, <4>1, <4>2
      <4> QED
        BY <1>5, <3>0, <3>2, <4>1, <4>3
    <3> QED
      BY <2>2, <3>1, <3>2 DEF Standing, First
  <2> QED
    BY <2>1, <2>2
<1> QED
  BY <1>6, <1>7 DEF PlacesKept

(* Two that are first on locks of one server are noticed. *)
LEMMA HoldersAreNoted ==
  ASSUME McpInv, lockQueue' \in [LockNames -> Seq(McpRequests)],
         NoteShared \/ UNCHANGED <<lockQueue, shared>>
  PROVE  HoldersNoted' /\ shared' \in SUBSET Servers /\ shared \subseteq shared'
<1>1. shared \in SUBSET Servers /\ HoldersNoted
  BY DEF McpInv, McpTypeOK
<1>2. CASE UNCHANGED <<lockQueue, shared>>
  BY <1>1, <1>2 DEF HoldersNoted
<1>3. CASE NoteShared
  <2>1. shared' = shared \cup {s \in Servers : Cardinality(McpHolders(s, lockQueue')) > 1}
    BY <1>3 DEF NoteShared
  <2>2. ASSUME NEW s \in Servers, NEW r \in McpRequests, NEW q \in McpRequests,
               NEW l \in LocksOf(s), NEW k \in LocksOf(s),
               First(r, lockQueue'[l]), First(q, lockQueue'[k]), r # q
        PROVE  s \in shared'
    <3>0. LocksOf(s) \subseteq LockNames
      BY LocksApart
    <3>1. \A m \in LocksOf(s) : lockQueue'[m] \in Seq(McpRequests)
      BY <3>0
    <3>2. McpHolders(s, lockQueue') = {Head(lockQueue'[m]) : m \in {m \in LocksOf(s) : lockQueue'[m] # <<>>}}
      BY DEF McpHolders, LocksOf
    <3>3. McpHolders(s, lockQueue') \subseteq McpRequests
      BY <3>1, <3>2, HeadTailProperties
    <3>4. r \in McpHolders(s, lockQueue')
      <4>1. lockQueue'[l] # <<>> /\ Head(lockQueue'[l]) = r
        BY <2>2, <3>1, HeadTailProperties DEF First
      <4> QED
        BY <3>2, <4>1
    <3>5. q \in McpHolders(s, lockQueue')
      <4>1. lockQueue'[k] # <<>> /\ Head(lockQueue'[k]) = q
        BY <2>2, <3>1, HeadTailProperties DEF First
      <4> QED
        BY <3>2, <4>1
    <3>6. IsFiniteSet(McpHolders(s, lockQueue'))
      BY <3>3, McpAssumption, FS_Subset
    <3>7. Cardinality(McpHolders(s, lockQueue')) > 1
      <4> DEFINE H == McpHolders(s, lockQueue')
      <4> HIDE DEF H
      <4>1. IsFiniteSet(H) /\ r \in H /\ q \in H
        BY <3>4, <3>5, <3>6 DEF H
      <4>2. /\ IsFiniteSet(H \ {r}) /\ q \in H \ {r}
            /\ Cardinality(H) \in Nat /\ Cardinality(H \ {r}) = Cardinality(H) - 1
        BY <2>2, <4>1, OneLess
      <4>3. /\ Cardinality(H \ {r}) \in Nat
            /\ Cardinality((H \ {r}) \ {q}) \in Nat
            /\ Cardinality((H \ {r}) \ {q}) = Cardinality(H \ {r}) - 1
        BY <4>2, OneLess, FS_CardinalityType
      <4>4. Cardinality(H) > 1
        BY <4>2, <4>3
      <4> QED
        BY <4>4 DEF H
    <3> QED
      BY <2>1, <3>7
  <2>3. HoldersNoted'
    BY <2>2 DEF HoldersNoted
  <2> QED
    BY <1>1, <2>1, <2>3
<1> QED
  BY <1>2, <1>3

LEMMA CallFields ==
  ASSUME NEW c \in CallType
  PROVE  /\ c.op \in McpOps /\ c.server \in Servers /\ c.copy \in ConfigType
         /\ c.lock \in LockNames \cup {NoLock} /\ c.handle \in Nat /\ c.rest \in SUBSET Servers
         /\ c.pc \in McpPcs
BY DEF CallType, McpPcs

LEMMA NoCallFits == NoCall \in CallType
<1>1. (CHOOSE s \in Servers : TRUE) \in Servers
  BY McpAssumption
<1> QED
  BY <1>1 DEF NoCall, CallType, ConfigType, McpOps, NoLock, NoHandle

LEMMA AtFits ==
  ASSUME NEW c \in CallType, NEW pc \in McpPcs
  PROVE  /\ McpAt(c, pc) \in CallType /\ McpAt(c, pc).pc = pc
         /\ pc # "done" => McpAt(c, pc) = [c EXCEPT !.pc = pc]
<1>1. CASE pc = "done"
  <2>1. McpAt(c, pc) = [NoCall EXCEPT !.pc = pc]
    BY <1>1 DEF McpAt
  <2> QED
    BY <1>1, <2>1, NoCallFits DEF CallType, McpPcs
<1>2. CASE pc # "done"
  <2>1. McpAt(c, pc) = [c EXCEPT !.pc = pc]
    BY <1>2 DEF McpAt
  <2> QED
    BY <1>2, <2>1 DEF CallType, McpPcs
<1> QED
  BY <1>1, <1>2

(* What the steps of a request r come to. *)
MovesOn(r) ==
  /\ call[r].pc \notin Locked /\ UNCHANGED <<sessions, handle, lockOf, lockQueue>>
  /\ \E c \in CallType : c.pc \notin Locked /\ call' = [call EXCEPT ![r] = c]
JoinsIn(r) ==
  /\ call[r].pc \notin Locked /\ UNCHANGED <<sessions, handle>>
  /\ \E c \in CallType : JoinsQueue(r, c)
PopsOut(r) == call[r].pc = "queued" /\ HasLock(r) /\ PopsAndCloses(r)
Makes(r) ==
  /\ call[r].pc \in {"queued", "closing"} /\ HasLock(r)
  /\ sessions[call[r].server] = NoHandle \/ call[r].server \in shared
  /\ handle' = Append(handle, [server |-> call[r].server, owner |-> "opening", asked |-> FALSE,
                               up |-> TRUE])
  /\ call' = [call EXCEPT ![r].handle = Len(handle'), ![r].pc = "opening"]
  /\ UNCHANGED <<sessions, lockOf, lockQueue>>
Leaves(r) ==
  /\ call[r].pc \in {"queued", "closing"} /\ UNCHANGED <<sessions, handle>>
  /\ lockOf' = lockOf \/ lockOf' = [lockOf EXCEPT ![call[r].server] = NoLock]
  /\ \E pc \in {"after", "done"} : McpEnds(r, pc)
EndsOpening(r) ==
  /\ call[r].pc = "opening" /\ handle[call[r].handle].owner # "opening"
  /\ \E pc \in {"after", "done"} : McpEnds(r, pc)
  /\ IF Gone(call[r].handle) THEN UNCHANGED sessions
     ELSE sessions' = [sessions EXCEPT ![call[r].server] = call[r].handle]
  /\ UNCHANGED <<lockOf, handle>>
Aborts(r) ==
  /\ call[r].pc = "opening" /\ McpEnds(r, "done")
  /\ handle' = [handle EXCEPT ![call[r].handle].owner = "gone", ![call[r].handle].up = FALSE]
  /\ UNCHANGED <<sessions, lockOf>>

Shaped(r) ==
  \/ MovesOn(r) \/ JoinsIn(r) \/ PopsOut(r) \/ Makes(r) \/ Leaves(r) \/ EndsOpening(r)
  \/ Aborts(r)

LEMMA GoesToMoves ==
  ASSUME McpInv, NEW r \in McpRequests, NEW pc \in McpPcs \ Locked, GoesTo(r, pc)
  PROVE  \E c \in CallType : c.pc \notin Locked /\ call' = [call EXCEPT ![r] = c]
<1>1. call[r] \in CallType /\ DOMAIN call = McpRequests
  BY DEF McpInv, McpTypeOK
<1>2. call' = [call EXCEPT ![r] = McpAt(call[r], pc)]
  BY <1>1 DEF GoesTo
<1> QED
  BY <1>1, <1>2, AtFits

LEMMA OpensShape ==
  ASSUME McpInv, NEW r \in McpRequests, HasLock(r), call[r].pc \in {"queued", "closing"},
         sessions[call[r].server] = NoHandle \/ call[r].server \in shared, Opens(r)
  PROVE  Makes(r) \/ Leaves(r)
BY DEF Opens, Makes, Leaves

LEMMA ForgetsShape ==
  ASSUME McpInv, NEW r \in McpRequests, call[r].pc \in {"queued", "closing"}, Forgets(r)
  PROVE  Leaves(r)
<1>1. call[r].server \in Servers /\ DOMAIN lockOf = Servers
  BY CallFields DEF McpInv, McpTypeOK
<1>2. PICK e \in {NoLock, lockOf[call[r].server]} :
        lockOf' = [lockOf EXCEPT ![call[r].server] = e]
  BY DEF Forgets
<1>3. lockOf' = lockOf \/ lockOf' = [lockOf EXCEPT ![call[r].server] = NoLock]
  <2>1. CASE e = lockOf[call[r].server]
    <3>1. lockOf \in [Servers -> LockNames \cup {NoLock}]
      BY DEF McpInv, McpTypeOK
    <3> QED
      BY <1>1, <1>2, <2>1, <3>1
  <2> QED
    BY <1>2, <2>1
<1> QED
  BY <1>3 DEF Forgets, Leaves

(* Those that hold no lock. *)
LEMMA FreeShapes ==
  ASSUME McpInv, NEW r \in McpRequests,
         \/ Arrives(r) \/ ConnectGoesOn(r) \/ EditGoesOn(r) \/ RemovalGoesOn(r) \/ TurnGoesOn(r)
         \/ StatusReads(r) \/ ProbeEnds(r) \/ After(r) \/ McpCalls(r)
  PROVE  MovesOn(r) \/ JoinsIn(r)
<1>1. /\ call[r] \in CallType /\ DOMAIN call = McpRequests
      /\ sessions \in [Servers -> 0..Len(handle)] /\ Len(handle) \in Nat
      /\ config \in [Servers -> ConfigType]
  BY DEF McpInv, McpTypeOK
<1>2. /\ call[r].op \in McpOps /\ call[r].server \in Servers /\ call[r].rest \in SUBSET Servers
      /\ sessions[call[r].server] \in Nat
  BY <1>1, CallFields
<1>3. ASSUME NEW pc \in McpPcs \ Locked, GoesTo(r, pc), call[r].pc \notin Locked,
             UNCHANGED <<sessions, handle, lockOf, lockQueue>>
      PROVE  MovesOn(r)
  BY <1>3, GoesToMoves DEF MovesOn
<1>4. CASE Arrives(r)
  <2>0. call[r].pc \notin Locked /\ UNCHANGED <<sessions, handle, lockOf, lockQueue>>
    BY <1>4 DEF Arrives, Locked
  <2>1. ASSUME NEW op \in McpOps \ {"logout"}, NEW s \in Servers, NEW pc \in {"loaded", "done"},
               call' = [call EXCEPT ![r] =
                          McpAt([@ EXCEPT !.op = op, !.server = s, !.copy = config[s]], pc)]
        PROVE  MovesOn(r)
    <3> DEFINE d == [call[r] EXCEPT !.op = op, !.server = s, !.copy = config[s]]
    <3>1. d \in CallType
      BY <1>1 DEF CallType
    <3> HIDE DEF d
    <3>2. McpAt(d, pc) \in CallType /\ McpAt(d, pc).pc = pc
      BY <3>1, AtFits DEF McpPcs
    <3>3. call' = [call EXCEPT ![r] = McpAt(d, pc)]
      BY <1>1, <2>1 DEF d
    <3> QED
      BY <2>0, <3>2, <3>3 DEF MovesOn, Locked
  <2>2. ASSUME NEW S \in SUBSET Servers,
               call' = [call EXCEPT ![r].op = "logout", ![r].pc = "after", ![r].rest = S]
        PROVE  MovesOn(r)
    <3> DEFINE d == [call[r] EXCEPT !.op = "logout", !.pc = "after", !.rest = S]
    <3>1. d \in CallType /\ d.pc = "after"
      BY <1>1 DEF CallType, McpOps
    <3>2. call' = [call EXCEPT ![r] = d]
      BY <1>1, <2>2
    <3> HIDE DEF d
    <3> QED
      BY <2>0, <3>1, <3>2 DEF MovesOn, Locked
  <2>3. CASE \E op \in McpOps \ {"logout"}, s \in Servers :
               call' = [call EXCEPT ![r] =
                 McpAt([@ EXCEPT !.op = op, !.server = s, !.copy = config[s]],
                   IF config[s].there THEN "loaded" ELSE "done")]
    <3>1. PICK op \in McpOps \ {"logout"}, s \in Servers :
            call' = [call EXCEPT ![r] =
              McpAt([@ EXCEPT !.op = op, !.server = s, !.copy = config[s]],
                IF config[s].there THEN "loaded" ELSE "done")]
      BY <2>3
    <3>2. CASE config[s].there
      <4>1. call' = [call EXCEPT ![r] =
              McpAt([@ EXCEPT !.op = op, !.server = s, !.copy = config[s]], "loaded")]
        BY <3>1, <3>2
      <4> QED
        BY <2>1, <4>1
    <3>3. CASE ~config[s].there
      <4>1. call' = [call EXCEPT ![r] =
              McpAt([@ EXCEPT !.op = op, !.server = s, !.copy = config[s]], "done")]
        BY <3>1, <3>3
      <4> QED
        BY <2>1, <4>1
    <3> QED
      BY <3>2, <3>3
  <2>4. CASE call' = [call EXCEPT ![r].op = "logout", ![r].pc = "after",
                        ![r].rest = {t \in Servers : sessions[t] # NoHandle \/ t \in failed}]
    <3> DEFINE S == {t \in Servers : sessions[t] # NoHandle \/ t \in failed}
    <3>1. S \in SUBSET Servers /\ call' = [call EXCEPT ![r].op = "logout", ![r].pc = "after", ![r].rest = S]
      BY <2>4
    <3> HIDE DEF S
    <3> QED
      BY <2>2, <3>1
  <2> QED
    BY <1>4, <2>3, <2>4 DEF Arrives
<1>5. CASE ConnectGoesOn(r)
  BY <1>1, <1>3, <1>5 DEF ConnectGoesOn, JoinsIn, Locked, McpPcs
<1>6. CASE EditGoesOn(r)
  BY <1>1, <1>3, <1>6 DEF EditGoesOn, JoinsIn, Locked, McpPcs
<1>7. CASE RemovalGoesOn(r)
  BY <1>1, <1>7 DEF RemovalGoesOn, JoinsIn, Locked
<1>8. CASE TurnGoesOn(r)
  BY <1>1, <1>3, <1>8 DEF TurnGoesOn, JoinsIn, Locked, McpPcs
<1>9. CASE StatusReads(r)
  <2> DEFINE h == sessions[call[r].server]
  <2>0. /\ call[r].pc = "loaded" /\ UNCHANGED <<sessions, handle>>
        /\ \/ GoesTo(r, "done") /\ UNCHANGED <<lockOf, lockQueue>>
           \/ JoinsQueue(r, [call[r] EXCEPT !.handle = h])
           \/ /\ call' = [call EXCEPT ![r].handle = h, ![r].pc = "probing"]
              /\ UNCHANGED <<lockOf, lockQueue>>
    BY <1>9 DEF StatusReads
  <2>1. [call[r] EXCEPT !.handle = h] \in CallType
    BY <1>1, <1>2 DEF CallType
  <2>2. [call[r] EXCEPT !.handle = h, !.pc = "probing"] \in CallType
        /\ [call[r] EXCEPT !.handle = h, !.pc = "probing"].pc = "probing"
    BY <1>1, <1>2 DEF CallType
  <2>3. CASE call' = [call EXCEPT ![r].handle = h, ![r].pc = "probing"] /\ UNCHANGED <<lockOf, lockQueue>>
    <3>1. call' = [call EXCEPT ![r] = [call[r] EXCEPT !.handle = h, !.pc = "probing"]]
      BY <1>1, <2>3
    <3> HIDE DEF h
    <3> QED
      BY <2>0, <2>2, <2>3, <3>1 DEF MovesOn, Locked
  <2>4. CASE GoesTo(r, "done") /\ UNCHANGED <<lockOf, lockQueue>>
    BY <1>3, <2>0, <2>4 DEF Locked, McpPcs
  <2>5. CASE JoinsQueue(r, [call[r] EXCEPT !.handle = h])
    BY <2>0, <2>1, <2>5 DEF JoinsIn, Locked
  <2> QED
    BY <2>0, <2>3, <2>4, <2>5
<1>10. CASE ProbeEnds(r)
  BY <1>1, <1>3, <1>10 DEF ProbeEnds, JoinsIn, Locked, McpPcs
<1>11. CASE After(r)
  <2>0. call[r].pc = "after" /\ UNCHANGED <<sessions, handle>>
    BY <1>11 DEF After
  <2>1. CASE \E pc \in {"done", "bound"} : GoesTo(r, pc) /\ UNCHANGED <<lockOf, lockQueue>>
    BY <1>3, <2>0, <2>1 DEF Locked, McpPcs
  <2>2. CASE call' = [call EXCEPT ![r].op = "status", ![r].pc = "loaded"] /\ UNCHANGED <<lockOf, lockQueue>>
    <3> DEFINE d == [call[r] EXCEPT !.op = "status", !.pc = "loaded"]
    <3>1. d \in CallType /\ d.pc = "loaded"
      BY <1>1 DEF CallType, McpOps
    <3>2. call' = [call EXCEPT ![r] = d]
      BY <1>1, <2>2
    <3> HIDE DEF d
    <3> QED
      BY <2>0, <2>2, <3>1, <3>2 DEF MovesOn, Locked
  <2>3. ASSUME NEW t \in call[r].rest,
               JoinsQueue(r, [call[r] EXCEPT !.server = t, !.rest = @ \ {t}])
        PROVE  JoinsIn(r)
    <3>1. [call[r] EXCEPT !.server = t, !.rest = @ \ {t}] \in CallType
      BY <1>1, <1>2 DEF CallType
    <3> QED
      BY <2>0, <2>3, <3>1 DEF JoinsIn, Locked
  <2> QED
    BY <1>11, <2>1, <2>2, <2>3 DEF After
<1>12. CASE McpCalls(r)
  <2>0. call[r].pc \in {"bound", "calling"} /\ UNCHANGED <<sessions, handle, lockOf, lockQueue>>
    BY <1>12 DEF McpCalls
  <2>1. ASSUME NEW pc \in {"calling", "done"},
               call' = [call EXCEPT ![r].handle = sessions[call[r].server], ![r].pc = pc]
        PROVE  MovesOn(r)
    <3> DEFINE d == [call[r] EXCEPT !.handle = sessions[call[r].server], !.pc = pc]
    <3>1. d \in CallType /\ d.pc = pc
      BY <1>1, <1>2 DEF CallType
    <3>2. call' = [call EXCEPT ![r] = d]
      BY <1>1, <2>1
    <3> HIDE DEF d
    <3> QED
      BY <2>0, <3>1, <3>2 DEF MovesOn, Locked
  <2>2. CASE GoesTo(r, "done")
    BY <1>3, <2>0, <2>2 DEF Locked, McpPcs
  <2> QED
    BY <1>12, <2>1, <2>2 DEF McpCalls
<1> QED
  BY <1>4, <1>5, <1>6, <1>7, <1>8, <1>9, <1>10, <1>11, <1>12

(* Those that hold one, or wait for it. *)
LEMMA LockedShapes ==
  ASSUME McpInv, NEW r \in McpRequests,
         \/ ConnectEnters(r) \/ EnsureEnters(r) \/ RemovalEnters(r) \/ StatusEnters(r)
         \/ Closed(r) \/ Opened(r) \/ Cancelled(r)
  PROVE  Shaped(r)
<1>1. call[r] \in CallType /\ CallOK(r)
  BY DEF McpInv, McpTypeOK
<1>2. CASE ConnectEnters(r)
  BY <1>2, OpensShape DEF ConnectEnters, Shaped, PopsOut
<1>3. CASE EnsureEnters(r)
  BY <1>3, OpensShape DEF EnsureEnters, Shaped, PopsOut, Leaves
<1>4. CASE RemovalEnters(r)
  BY <1>4, ForgetsShape DEF RemovalEnters, Shaped, PopsOut
<1>5. CASE StatusEnters(r)
  BY <1>5 DEF StatusEnters, Shaped, PopsOut, Leaves
<1>6. CASE Closed(r)
  <2>1. call[r].pc = "closing"
    BY <1>6 DEF Closed
  <2>2. HasLock(r) /\ (sessions[call[r].server] = NoHandle \/ call[r].server \in shared)
    <3>1. /\ First(r, lockQueue[call[r].lock]) /\ call[r].lock \in LocksOf(call[r].server)
          /\ call[r].server \notin shared => sessions[call[r].server] = NoHandle
      BY <1>1, <2>1 DEF CallOK, Locked
    <3>2. call[r].lock \in LockNames /\ call[r].lock # NoLock
      BY <1>1, <3>1, LocksApart, CallFields
    <3>3. lockQueue[call[r].lock] \in Seq(McpRequests)
      BY <3>2 DEF McpInv, McpTypeOK
    <3>4. Head(lockQueue[call[r].lock]) = r
      BY <3>1, <3>3 DEF First
    <3> QED
      BY <3>1, <3>2, <3>4 DEF HasLock
  <2>3. CASE Opens(r)
    BY <2>1, <2>2, <2>3, OpensShape DEF Shaped
  <2>4. CASE Forgets(r)
    BY <2>1, <2>4, ForgetsShape DEF Shaped
  <2>5. CASE RecordsDeath(r, "after") \/ RecordsDeath(r, "done")
    BY <2>1, <2>5 DEF RecordsDeath, Shaped, Leaves
  <2> QED
    BY <1>6, <2>3, <2>4, <2>5 DEF Closed
<1>7. CASE Opened(r)
  BY <1>7 DEF Opened, Shaped, EndsOpening
<1>8. CASE Cancelled(r)
  <2>1. CASE call[r].pc = "calling"
    <3>1. GoesTo(r, "done") /\ UNCHANGED <<sessions, handle, lockOf, lockQueue>>
      BY <1>8, <2>1 DEF Cancelled
    <3> QED
      BY <2>1, <3>1, GoesToMoves DEF Shaped, MovesOn, Locked, McpPcs
  <2>2. CASE call[r].pc = "opening"
    BY <1>8, <2>2 DEF Cancelled, Shaped, Aborts
  <2>3. CASE call[r].pc \in {"queued", "closing"}
    BY <1>8, <2>3 DEF Cancelled, Shaped, Leaves
  <2> QED
    BY <1>8, <2>1, <2>2, <2>3 DEF Cancelled
<1> QED
  BY <1>2, <1>3, <1>4, <1>5, <1>6, <1>7, <1>8

LEMMA Rewritten ==
  ASSUME NEW S, NEW t \in Seq(S), NEW h \in 1..Len(t), NEW e \in S, NEW u, u = [t EXCEPT ![h] = e]
  PROVE  u \in Seq(S) /\ Len(u) = Len(t) /\ \A i \in 1..Len(t) : u[i] = IF i = h THEN e ELSE t[i]
OBVIOUS

(* What a step leaves of a handle: whose it is. *)
HandlesStand ==
  /\ handle' \in Seq(HandleType) /\ Len(handle) <= Len(handle')
  /\ \A h \in 1..Len(handle) : handle'[h].server = handle[h].server

(* A request that did not move can go on relying on what it relied on. *)
LEMMA OtherSpared ==
  ASSUME McpInv, NEW q \in McpRequests, call'[q] = call[q], PlacesKept(q), shared \subseteq shared',
         HandlesStand,
         (call[q].pc \in {"closing", "opening"} /\ call[q].server \notin shared') =>
           sessions'[call[q].server] = NoHandle,
         call[q].pc = "opening" =>
           /\ handle'[call[q].handle].asked = FALSE
           /\ \A s \in Servers : sessions'[s] # call[q].handle
  PROVE  CallOK(q)'
<1>0. CallOK(q) /\ call[q] \in CallType /\ call[q].server \in Servers
  BY CallFields DEF McpInv, McpTypeOK
<1>1. ASSUME call[q].pc \in Locked
      PROVE  call[q].lock \in LocksOf(call[q].server) /\ Standing(q, lockQueue'[call[q].lock])
  BY <1>0, <1>1, LocksApart DEF CallOK, PlacesKept
<1>2. ASSUME call[q].pc \in {"closing", "opening"}
      PROVE  First(q, lockQueue'[call[q].lock])
  BY <1>0, <1>2, LocksApart DEF CallOK, PlacesKept, Locked
<1>3. ASSUME call[q].pc = "opening"
      PROVE  /\ call[q].handle \in 1..Len(handle')
             /\ handle'[call[q].handle].server = call[q].server
  <2>1. call[q].handle \in 1..Len(handle) /\ handle[call[q].handle].server = call[q].server
    BY <1>0, <1>3 DEF CallOK
  <2>2. Len(handle) \in Nat /\ Len(handle') \in Nat /\ Len(handle) <= Len(handle')
    BY DEF HandlesStand, McpInv, McpTypeOK
  <2> QED
    BY <2>1, <2>2 DEF HandlesStand
<1> QED
  BY <1>1, <1>2, <1>3 DEF CallOK

(* The request is first in the queue of the lock it has. *)
LEMMA HasLockFirst ==
  ASSUME McpInv, NEW r \in McpRequests, call[r].pc \in Locked
  PROVE  /\ call[r].lock \in LockNames /\ call[r].lock \in LocksOf(call[r].server)
         /\ lockQueue[call[r].lock] \in Seq(McpRequests)
         /\ HasLock(r) => First(r, lockQueue[call[r].lock])
<1>1. CallOK(r) /\ call[r] \in CallType /\ call[r].server \in Servers
  BY CallFields DEF McpInv, McpTypeOK
<1>2. call[r].lock \in LockNames /\ call[r].lock \in LocksOf(call[r].server)
      /\ Standing(r, lockQueue[call[r].lock])
  BY <1>1, LocksApart DEF CallOK
<1>3. lockQueue[call[r].lock] \in Seq(McpRequests)
  BY <1>2 DEF McpInv, McpTypeOK
<1>4. ASSUME HasLock(r) PROVE First(r, lockQueue[call[r].lock])
  BY <1>2, <1>3, <1>4 DEF HasLock, Standing, First
<1> QED
  BY <1>2, <1>3, <1>4

(* What is known of any step of a request r, whatever it does to sessions. *)
Settled(r) ==
  /\ call' \in [McpRequests -> CallType]
  /\ \A q \in McpRequests : q # r => call'[q] = call[q]
  /\ lockQueue' \in [LockNames -> Seq(McpRequests)]
  /\ \A q \in McpRequests : q # r => PlacesKept(q)
  /\ lockOf' \in [Servers -> LockNames \cup {NoLock}] /\ LocksOK'
  /\ HoldersNoted' /\ shared' \in SUBSET Servers /\ shared \subseteq shared'

TablesKept ==
  /\ config' \in [Servers -> ConfigType] /\ failed' \in SUBSET Servers
  /\ deaths' \in 0..MaxDeaths

(* Steps that leave the registry and the handles alone. *)
LEMMA QuietStep ==
  ASSUME McpInv, NEW r \in McpRequests, Settled(r), TablesKept, UNCHANGED <<sessions, handle>>,
         call[r].pc # "opening", call'[r].pc \notin {"closing", "opening"}, CallOK(r)'
  PROVE  McpInv'
<1>1. McpTypeOK /\ call \in [McpRequests -> CallType]
  BY DEF McpInv, McpTypeOK
<1>2. McpTypeOK'
  BY <1>1 DEF McpTypeOK, Settled, TablesKept
<1>3. RegistryOK'
  BY DEF RegistryOK, McpInv
<1>4. \A q \in McpRequests : call'[q].pc = "opening" <=> call[q].pc = "opening"
  BY DEF Settled
<1>5. \A q \in McpRequests : call'[q].pc = "opening" => call'[q] = call[q]
  BY DEF Settled
<1>6. OneOpener'
  BY <1>4, <1>5 DEF OneOpener, McpInv
<1>7. SessionsTended'
  <2>1. ASSUME NEW h \in 1..Len(handle), Alive(h)
        PROVE  \/ sessions[handle[h].server] = h
               \/ \E q \in McpRequests : call'[q].pc = "opening" /\ call'[q].handle = h
               \/ handle[h].server \in shared'
    BY <1>4, <1>5, <2>1 DEF SessionsTended, McpInv, Settled
  <2> QED
    BY <2>1 DEF SessionsTended, Alive
<1>8. HandlesStand
  BY <1>1 DEF HandlesStand, McpTypeOK
<1>9. ASSUME NEW q \in McpRequests PROVE CallOK(q)'
  <2>1. CASE q # r
    <3>1. CallOK(q) /\ call'[q] = call[q] /\ PlacesKept(q)
      BY <2>1 DEF McpInv, Settled
    <3> QED
      BY <3>1, <1>8, OtherSpared DEF CallOK, Settled
  <2> QED
    BY <2>1
<1> QED
  BY <1>2, <1>3, <1>6, <1>7, <1>9 DEF McpInv, Settled

(* A session leaves the registry to be closed. *)
LEMMA PopsStep ==
  ASSUME McpInv, NEW r \in McpRequests, Settled(r), TablesKept, PopsOut(r)
  PROVE  McpInv'
<1> DEFINE s == call[r].server
           h == sessions[s]
<1>0. /\ call[r] \in CallType /\ s \in Servers /\ sessions \in [Servers -> 0..Len(handle)]
      /\ handle \in Seq(HandleType) /\ Len(handle) \in Nat
  BY CallFields DEF McpInv, McpTypeOK
<1>1. /\ sessions' \in [Servers -> 0..Len(handle)] /\ sessions'[s] = NoHandle
      /\ \A t \in Servers : t # s => sessions'[t] = sessions[t]
  BY <1>0 DEF PopsOut, PopsAndCloses, NoHandle
<1>2. h \in 0..Len(handle)
  BY <1>0
<1>3. /\ handle' \in Seq(HandleType) /\ Len(handle') = Len(handle)
      /\ \A i \in 1..Len(handle) :
           /\ handle'[i].server = handle[i].server /\ handle'[i].owner = handle[i].owner
           /\ i = h => handle'[i].asked = TRUE
           /\ i # h => handle'[i] = handle[i]
  <2>0. handle' = [handle EXCEPT ![h].asked = TRUE]
    BY DEF PopsOut, PopsAndCloses
  <2>1. CASE h = 0
    <3>1. 0 \notin DOMAIN handle
      BY <1>0
    <3>2. handle' = handle
      BY <1>0, <2>0, <2>1, <3>1
    <3> QED
      BY <1>0, <2>1, <3>2
  <2>2. CASE h # 0
    <3> DEFINE e == [handle[h] EXCEPT !.asked = TRUE]
    <3>1. h \in 1..Len(handle) /\ handle[h] \in HandleType
      BY <1>0, <1>2, <2>2
    <3>2. e \in HandleType /\ e.server = handle[h].server /\ e.owner = handle[h].owner /\ e.asked = TRUE
      BY <3>1 DEF HandleType
    <3>3. handle' = [handle EXCEPT ![h] = e]
      BY <2>0
    <3> HIDE DEF e, h
    <3>4. handle' \in Seq(HandleType) /\ Len(handle') = Len(handle)
          /\ \A i \in 1..Len(handle) : handle'[i] = IF i = h THEN e ELSE handle[i]
      BY <1>0, <3>1, <3>2, <3>3, Rewritten
    <3> QED
      BY <3>2, <3>4
  <2> QED
    BY <2>1, <2>2
<1>4. call'[r] = [call[r] EXCEPT !.handle = h, !.pc = "closing"] /\ call[r].pc = "queued"
  BY <1>0 DEF PopsOut, PopsAndCloses, McpInv, McpTypeOK
<1>5. call'[r].pc = "closing" /\ call'[r].server = s /\ call'[r].lock = call[r].lock
  BY <1>0, <1>4 DEF CallType
<1> HIDE DEF h
<1>6. McpTypeOK'
  BY <1>1, <1>3 DEF McpTypeOK, Settled, TablesKept
<1>7. RegistryOK'
  <2>1. ASSUME NEW t \in Servers, sessions'[t] # NoHandle
        PROVE  handle'[sessions'[t]].server = t /\ handle'[sessions'[t]].asked = FALSE
    <3>1. t # s /\ sessions'[t] = sessions[t] /\ sessions[t] # NoHandle /\ sessions[t] \in 1..Len(handle)
      BY <1>0, <1>1, <2>1 DEF NoHandle
    <3>2. handle[sessions[t]].server = t /\ handle[sessions[t]].asked = FALSE
      BY <3>1 DEF McpInv, RegistryOK
    <3>3. sessions[t] # h
      <4>1. CASE h = NoHandle
        BY <3>1, <4>1
      <4>2. CASE h # NoHandle
        <5>1. handle[h].server = s
          BY <1>0, <4>2 DEF McpInv, RegistryOK, h
        <5> QED
          BY <3>1, <3>2, <5>1
      <4> QED
        BY <4>1, <4>2
    <3> QED
      BY <1>3, <3>1, <3>2, <3>3
  <2> QED
    BY <2>1 DEF RegistryOK
<1>8. \A q \in McpRequests : call'[q].pc = "opening" => q # r /\ call'[q] = call[q]
  BY <1>5 DEF Settled
<1>9. \A q \in McpRequests : call[q].pc = "opening" => q # r /\ call'[q] = call[q]
  BY <1>4 DEF Settled
<1>10. OneOpener'
  BY <1>8 DEF OneOpener, McpInv
<1>11. SessionsTended'
  <2>1. ASSUME NEW i \in 1..Len(handle), Alive(i)'
        PROVE  \/ sessions'[handle'[i].server] = i
               \/ \E q \in McpRequests : call'[q].pc = "opening" /\ call'[q].handle = i
               \/ handle'[i].server \in shared'
    <3>1. i # h /\ handle'[i] = handle[i] /\ Alive(i)
      BY <1>3, <2>1 DEF Alive
    <3>2. CASE sessions[handle[i].server] = i
      <4>1. handle[i].server \in Servers
        <5>1. handle[i] \in HandleType
          BY <1>0
        <5> QED
          BY <5>1 DEF HandleType
      <4>2. handle[i].server # s
        BY <3>1, <3>2 DEF h
      <4> QED
        BY <1>1, <3>1, <3>2, <4>1, <4>2
    <3>3. CASE \E q \in McpRequests : call[q].pc = "opening" /\ call[q].handle = i
      BY <1>9, <3>3
    <3>4. CASE handle[i].server \in shared
      BY <3>1, <3>4 DEF Settled
    <3> QED
      BY <3>1, <3>2, <3>3, <3>4 DEF McpInv, SessionsTended
  <2> QED
    BY <1>3, <2>1 DEF SessionsTended
<1>12. HandlesStand
  BY <1>0, <1>3 DEF HandlesStand
<1>13. ASSUME NEW q \in McpRequests PROVE CallOK(q)'
  <2>1. CASE q # r
    <3>1. CallOK(q) /\ call'[q] = call[q] /\ PlacesKept(q) /\ call[q].server \in Servers
      BY <2>1, CallFields DEF McpInv, McpTypeOK, Settled
    <3>2. ASSUME call[q].pc \in {"closing", "opening"}, call[q].server \notin shared'
          PROVE  sessions'[call[q].server] = NoHandle
      BY <1>1, <3>1, <3>2 DEF CallOK, Settled
    <3>3. ASSUME call[q].pc = "opening"
          PROVE  /\ handle'[call[q].handle].asked = FALSE
                 /\ \A t \in Servers : sessions'[t] # call[q].handle
      <4>1. /\ call[q].handle \in 1..Len(handle) /\ handle[call[q].handle].asked = FALSE
            /\ \A t \in Servers : sessions[t] # call[q].handle
        BY <3>1, <3>3 DEF CallOK
      <4>2. call[q].handle # h /\ call[q].handle # NoHandle
        BY <1>0, <4>1 DEF h, NoHandle
      <4> QED
        BY <1>1, <1>3, <4>1, <4>2
    <3> QED
      BY <3>1, <3>2, <3>3, <1>12, OtherSpared DEF Settled
  <2>2. CASE q = r
    <3>1. call[r].lock \in LocksOf(s) /\ First(r, lockQueue[call[r].lock])
          /\ lockQueue[call[r].lock] \in Seq(McpRequests)
      BY <1>4, HasLockFirst DEF Locked, PopsOut
    <3>2. lockQueue' = lockQueue
      BY DEF PopsOut, PopsAndCloses
    <3>3. Standing(r, lockQueue[call[r].lock])
      BY <3>1 DEF First, Standing
    <3> QED
      BY <1>1, <1>5, <2>2, <3>1, <3>2, <3>3 DEF CallOK
  <2> QED
    BY <2>1, <2>2
<1> QED
  BY <1>6, <1>7, <1>10, <1>11, <1>13 DEF McpInv, Settled

(* A session is begun: its handle is new, so nobody knows it. *)
LEMMA MakesStep ==
  ASSUME McpInv, NEW r \in McpRequests, Settled(r), TablesKept, Makes(r)
  PROVE  McpInv'
<1> DEFINE s == call[r].server
           n == Len(handle) + 1
           e == [server |-> s, owner |-> "opening", asked |-> FALSE, up |-> TRUE]
<1>0. /\ call[r] \in CallType /\ s \in Servers /\ sessions \in [Servers -> 0..Len(handle)]
      /\ handle \in Seq(HandleType) /\ Len(handle) \in Nat /\ sessions' = sessions
  BY CallFields DEF McpInv, McpTypeOK, Makes
<1>1. e \in HandleType
  BY <1>0 DEF HandleType
<1>2. handle' = Append(handle, e)
  BY DEF Makes
<1> HIDE DEF e
<1>3. /\ handle' \in Seq(HandleType) /\ Len(handle') = n /\ handle'[n] = e
      /\ \A i \in 1..Len(handle) : handle'[i] = handle[i]
  BY <1>0, <1>1, <1>2
<1>4. e.server = s /\ e.asked = FALSE
  BY DEF e
<1>5. call'[r].pc = "opening" /\ call'[r].server = s /\ call'[r].lock = call[r].lock
      /\ call'[r].handle = n
  <2>1. call \in [McpRequests -> CallType] /\ call' = [call EXCEPT ![r].handle = n, ![r].pc = "opening"]
    BY <1>3 DEF Makes, McpInv, McpTypeOK
  <2> QED
    BY <1>0, <2>1 DEF CallType
<1>6. \A i \in 0..Len(handle) : i \in 0..n /\ i # n
  BY <1>0
<1> HIDE DEF n
<1>7. McpTypeOK'
  BY <1>0, <1>3, <1>6 DEF McpTypeOK, Settled, TablesKept
<1>8. RegistryOK'
  <2>1. ASSUME NEW t \in Servers, sessions[t] # NoHandle
        PROVE  handle'[sessions[t]].server = t /\ handle'[sessions[t]].asked = FALSE
    <3>1. sessions[t] \in 1..Len(handle)
      BY <1>0, <2>1 DEF NoHandle
    <3> QED
      BY <1>3, <2>1, <3>1 DEF McpInv, RegistryOK
  <2> QED
    BY <1>0, <2>1 DEF RegistryOK
<1>9. \A q \in McpRequests : q # r => call'[q] = call[q]
  BY DEF Settled
<1>10. \A q \in McpRequests : call[q].pc = "opening" => q # r /\ call[q].handle \in 1..Len(handle)
  BY DEF Makes, McpInv, CallOK
<1>11. \A q \in McpRequests : call[q].pc = "opening" => call[q].handle # n
  BY <1>6, <1>10
<1>12. OneOpener'
  BY <1>5, <1>9, <1>11 DEF OneOpener, McpInv
<1>13. SessionsTended'
  <2>1. ASSUME NEW i \in 1..Len(handle), Alive(i)'
        PROVE  \/ sessions'[handle'[i].server] = i
               \/ \E q \in McpRequests : call'[q].pc = "opening" /\ call'[q].handle = i
               \/ handle'[i].server \in shared'
    <3>1. handle'[i] = handle[i] /\ Alive(i)
      BY <1>3, <2>1 DEF Alive
    <3>2. CASE \E q \in McpRequests : call[q].pc = "opening" /\ call[q].handle = i
      BY <1>9, <1>10, <3>2
    <3> QED
      BY <1>0, <3>1, <3>2 DEF McpInv, SessionsTended, Settled
  <2>2. \A i \in 1..n : i \in 1..Len(handle) \/ i = n
    BY <1>0 DEF n
  <2> QED
    BY <1>3, <1>5, <2>1, <2>2 DEF SessionsTended
<1>14. HandlesStand
  BY <1>0, <1>3 DEF HandlesStand, n
<1>15. ASSUME NEW q \in McpRequests PROVE CallOK(q)'
  <2>1. CASE q # r
    <3>1. CallOK(q) /\ call'[q] = call[q] /\ PlacesKept(q)
      BY <2>1 DEF McpInv, Settled
    <3>2. ASSUME call[q].pc \in {"closing", "opening"}, call[q].server \notin shared'
          PROVE  sessions'[call[q].server] = NoHandle
      BY <1>0, <3>1, <3>2 DEF CallOK, Settled
    <3>3. ASSUME call[q].pc = "opening"
          PROVE  /\ handle'[call[q].handle].asked = FALSE
                 /\ \A t \in Servers : sessions'[t] # call[q].handle
      <4>1. /\ call[q].handle \in 1..Len(handle) /\ handle[call[q].handle].asked = FALSE
            /\ \A t \in Servers : sessions[t] # call[q].handle
        BY <3>1, <3>3 DEF CallOK
      <4> QED
        BY <1>0, <1>3, <4>1
    <3> QED
      BY <3>1, <3>2, <3>3, <1>14, OtherSpared DEF Settled
  <2>2. CASE q = r
    <3>1. call[r].lock \in LocksOf(s) /\ First(r, lockQueue[call[r].lock])
          /\ lockQueue[call[r].lock] \in Seq(McpRequests)
      BY HasLockFirst DEF Locked, Makes
    <3>2. lockQueue' = lockQueue
      BY DEF Makes
    <3>3. Standing(r, lockQueue[call[r].lock])
      BY <3>1 DEF First, Standing
    <3>4. s \notin shared' => sessions'[s] = NoHandle
      BY <1>0 DEF Makes, Settled
    <3>5. \A t \in Servers : sessions'[t] # n
      BY <1>0, <1>6
    <3>6. n \in 1..Len(handle') /\ handle'[n].server = s /\ handle'[n].asked = FALSE
      <4>1. n \in 1..n
        BY <1>0 DEF n
      <4> QED
        BY <1>3, <1>4, <4>1
    <3> QED
      BY <1>5, <2>2, <3>1, <3>2, <3>3, <3>4, <3>5, <3>6 DEF CallOK
  <2> QED
    BY <2>1, <2>2
<1> QED
  BY <1>7, <1>8, <1>12, <1>13, <1>15 DEF McpInv, Settled

(* The one who opened a session registers it, unless it failed. *)
LEMMA EndsOpeningStep ==
  ASSUME McpInv, NEW r \in McpRequests, Settled(r), TablesKept, EndsOpening(r),
         call'[r].pc \notin Locked
  PROVE  McpInv'
<1> DEFINE s == call[r].server
           h == call[r].handle
<1>0. /\ call[r] \in CallType /\ s \in Servers /\ sessions \in [Servers -> 0..Len(handle)]
      /\ handle \in Seq(HandleType) /\ Len(handle) \in Nat /\ handle' = handle
      /\ CallOK(r) /\ call[r].pc = "opening"
  BY CallFields DEF McpInv, McpTypeOK, EndsOpening
<1>1. /\ h \in 1..Len(handle) /\ handle[h].server = s /\ handle[h].asked = FALSE
      /\ \A t \in Servers : sessions[t] # h
      /\ s \notin shared => sessions[s] = NoHandle
      /\ call[r].lock \in LocksOf(s) /\ First(r, lockQueue[call[r].lock])
  BY <1>0 DEF CallOK, Locked
<1>2. \/ Gone(h) /\ sessions' = sessions
      \/ sessions' = [sessions EXCEPT ![s] = h]
  BY DEF EndsOpening
<1> HIDE DEF h
<1>3. h \in 0..Len(handle) /\ h # NoHandle
  BY <1>0, <1>1 DEF NoHandle
<1>4. /\ sessions' \in [Servers -> 0..Len(handle)]
      /\ \A t \in Servers : t # s => sessions'[t] = sessions[t]
      /\ sessions'[s] \in {sessions[s], h}
      /\ ~Gone(h) => sessions'[s] = h
  BY <1>0, <1>2, <1>3
<1>5. McpTypeOK'
  BY <1>0, <1>4 DEF McpTypeOK, Settled, TablesKept
<1>6. RegistryOK'
  BY <1>0, <1>1, <1>4 DEF RegistryOK, McpInv
<1>7. \A q \in McpRequests : q # r => call'[q] = call[q]
  BY DEF Settled
<1>8. \A q \in McpRequests : call'[q].pc = "opening" => q # r
  BY DEF Locked
<1>9. OneOpener'
  BY <1>7, <1>8 DEF OneOpener, McpInv
<1>10. SessionsTended'
  <2>1. ASSUME NEW i \in 1..Len(handle), Alive(i)
        PROVE  \/ sessions'[handle[i].server] = i
               \/ \E q \in McpRequests : call'[q].pc = "opening" /\ call'[q].handle = i
               \/ handle[i].server \in shared'
    <3>1. i # NoHandle /\ handle[i] \in HandleType
      BY <1>0 DEF NoHandle
    <3>2. handle[i].server \in Servers
      BY <3>1 DEF HandleType
    <3>3. CASE sessions[handle[i].server] = i
      BY <1>1, <1>4, <3>1, <3>2, <3>3 DEF Settled
    <3>4. CASE \E q \in McpRequests : call[q].pc = "opening" /\ call[q].handle = i
      <4>1. PICK q \in McpRequests : call[q].pc = "opening" /\ call[q].handle = i
        BY <3>4
      <4>2. CASE q = r
        <5>1. i = h /\ ~Gone(h)
          BY <2>1, <4>1, <4>2 DEF Alive, Gone, h
        <5> QED
          BY <1>1, <1>4, <5>1
      <4>3. CASE q # r
        BY <1>7, <4>1, <4>3
      <4> QED
        BY <4>2, <4>3
    <3> QED
      BY <2>1, <3>3, <3>4 DEF McpInv, SessionsTended, Settled
  <2> QED
    BY <1>0, <2>1 DEF SessionsTended, Alive
<1>11. HandlesStand
  BY <1>0 DEF HandlesStand
<1>12. ASSUME NEW q \in McpRequests PROVE CallOK(q)'
  <2>1. CASE q # r
    <3>1. CallOK(q) /\ call'[q] = call[q] /\ PlacesKept(q) /\ call[q].server \in Servers
      BY <2>1, CallFields DEF McpInv, McpTypeOK, Settled
    <3>2. ASSUME call[q].pc \in {"closing", "opening"}, call[q].server \notin shared'
          PROVE  sessions'[call[q].server] = NoHandle
      <4>1. call[q].lock \in LocksOf(call[q].server) /\ First(q, lockQueue[call[q].lock])
        BY <3>1, <3>2 DEF CallOK, Locked
      <4>2. call[q].server \notin shared
        BY <3>2 DEF Settled
      <4>3. call[q].server # s
        BY <1>0, <1>1, <2>1, <4>1, <4>2 DEF McpInv, HoldersNoted
      <4> QED
        BY <1>4, <3>1, <3>2, <4>2, <4>3 DEF CallOK
    <3>3. ASSUME call[q].pc = "opening"
          PROVE  /\ handle'[call[q].handle].asked = FALSE
                 /\ \A t \in Servers : sessions'[t] # call[q].handle
      <4>1. /\ handle[call[q].handle].asked = FALSE
            /\ \A t \in Servers : sessions[t] # call[q].handle
        BY <3>1, <3>3 DEF CallOK
      <4>2. call[q].handle # h
        BY <1>0, <2>1, <3>3 DEF McpInv, OneOpener, h
      <4> QED
        BY <1>0, <1>4, <4>1, <4>2
    <3> QED
      BY <3>1, <3>2, <3>3, <1>11, OtherSpared DEF Settled
  <2>2. CASE q = r
    BY <2>2 DEF CallOK, Locked
  <2> QED
    BY <2>1, <2>2
<1> QED
  BY <1>5, <1>6, <1>9, <1>10, <1>12 DEF McpInv, Settled

(* A handle whose session ends: it keeps its server, and it was not asked. *)
EndsAt(h) ==
  /\ handle' \in Seq(HandleType) /\ Len(handle') = Len(handle)
  /\ \A i \in 1..Len(handle) :
       /\ handle'[i].server = handle[i].server /\ handle'[i].asked = handle[i].asked
       /\ (handle[i].owner = "gone" \/ i = h) => handle'[i].owner = "gone"

(* A turn that is cancelled closes the session it was opening. *)
LEMMA AbortsStep ==
  ASSUME McpInv, NEW r \in McpRequests, Settled(r), TablesKept, Aborts(r),
         call'[r].pc \notin Locked
  PROVE  McpInv'
<1> DEFINE h == call[r].handle
<1>0. /\ sessions \in [Servers -> 0..Len(handle)] /\ sessions' = sessions
      /\ handle \in Seq(HandleType) /\ Len(handle) \in Nat /\ call[r].pc = "opening"
  BY DEF McpInv, McpTypeOK, Aborts
<1>1. h \in 1..Len(handle)
  BY <1>0 DEF McpInv, CallOK
<1>2. EndsAt(h)
  <2> DEFINE e == [handle[h] EXCEPT !.owner = "gone", !.up = FALSE]
  <2>1. handle[h] \in HandleType
    BY <1>0, <1>1
  <2>2. e \in HandleType /\ e.server = handle[h].server /\ e.asked = handle[h].asked /\ e.owner = "gone"
    BY <2>1 DEF HandleType
  <2>3. handle' = [handle EXCEPT ![h] = e]
    BY DEF Aborts
  <2> HIDE DEF e, h
  <2>4. handle' \in Seq(HandleType) /\ Len(handle') = Len(handle)
        /\ \A i \in 1..Len(handle) : handle'[i] = IF i = h THEN e ELSE handle[i]
    BY <1>0, <1>1, <2>2, <2>3, Rewritten
  <2> QED
    BY <2>2, <2>4 DEF EndsAt
<1> HIDE DEF h
<1>3. McpTypeOK'
  BY <1>0, <1>2 DEF McpTypeOK, Settled, TablesKept, EndsAt
<1>4. RegistryOK'
  <2>1. ASSUME NEW t \in Servers, sessions[t] # NoHandle
        PROVE  handle'[sessions[t]].server = t /\ handle'[sessions[t]].asked = FALSE
    <3>1. sessions[t] \in 1..Len(handle)
      BY <1>0, <2>1 DEF NoHandle
    <3> QED
      BY <1>2, <2>1, <3>1 DEF McpInv, RegistryOK, EndsAt
  <2> QED
    BY <1>0, <2>1 DEF RegistryOK
<1>5. \A q \in McpRequests : q # r => call'[q] = call[q]
  BY DEF Settled
<1>6. OneOpener'
  BY <1>5 DEF OneOpener, McpInv, Locked
<1>7. SessionsTended'
  <2>1. ASSUME NEW i \in 1..Len(handle), Alive(i)'
        PROVE  \/ sessions'[handle'[i].server] = i
               \/ \E q \in McpRequests : call'[q].pc = "opening" /\ call'[q].handle = i
               \/ handle'[i].server \in shared'
    <3>1. i # h /\ Alive(i) /\ handle'[i].server = handle[i].server
      BY <1>2, <2>1 DEF Alive, EndsAt
    <3>2. CASE \E q \in McpRequests : call[q].pc = "opening" /\ call[q].handle = i
      BY <1>5, <3>1, <3>2 DEF h
    <3> QED
      BY <1>0, <3>1, <3>2 DEF McpInv, SessionsTended, Settled
  <2> QED
    BY <1>2, <2>1 DEF SessionsTended, EndsAt
<1>8. HandlesStand
  BY <1>0, <1>2 DEF HandlesStand, EndsAt
<1>9. ASSUME NEW q \in McpRequests PROVE CallOK(q)'
  <2>1. CASE q # r
    <3>1. CallOK(q) /\ call'[q] = call[q] /\ PlacesKept(q)
      BY <2>1 DEF McpInv, Settled
    <3>2. (call[q].pc \in {"closing", "opening"} /\ call[q].server \notin shared') =>
            sessions'[call[q].server] = NoHandle
      BY <1>0, <3>1 DEF CallOK, Settled
    <3>3. ASSUME call[q].pc = "opening"
          PROVE  /\ handle'[call[q].handle].asked = FALSE
                 /\ \A t \in Servers : sessions'[t] # call[q].handle
      BY <1>0, <1>2, <3>1, <3>3 DEF CallOK, EndsAt
    <3> QED
      BY <3>1, <3>2, <3>3, <1>8, OtherSpared DEF Settled
  <2>2. CASE q = r
    BY <2>2 DEF CallOK, Locked
  <2> QED
    BY <2>1, <2>2
<1> QED
  BY <1>3, <1>4, <1>6, <1>7, <1>9 DEF McpInv, Settled

(* What an owner does, or the end of the wait for it. *)
OwnerMoves ==
  /\ handle' \in Seq(HandleType) /\ Len(handle') = Len(handle)
  /\ \A i \in 1..Len(handle) :
       /\ handle'[i].server = handle[i].server /\ handle'[i].asked = handle[i].asked
       /\ handle[i].owner = "gone" => handle'[i].owner = "gone"
  /\ UNCHANGED <<config, sessions, failed, lockOf, lockQueue, call, shared>>
  /\ deaths' \in 0..MaxDeaths

LEMMA OwnerKeeps ==
  ASSUME McpInv, OwnerMoves
  PROVE  McpInv'
<1>0. /\ sessions \in [Servers -> 0..Len(handle)] /\ Len(handle) \in Nat
  BY DEF McpInv, McpTypeOK
<1>1. McpTypeOK' /\ LocksOK' /\ HoldersNoted' /\ OneOpener'
  BY DEF McpInv, McpTypeOK, LocksOK, HoldersNoted, OneOpener, OwnerMoves
<1>2. RegistryOK'
  <2>1. ASSUME NEW t \in Servers, sessions[t] # NoHandle
        PROVE  handle'[sessions[t]].server = t /\ handle'[sessions[t]].asked = FALSE
    <3>1. sessions[t] \in 1..Len(handle)
      BY <1>0, <2>1 DEF NoHandle
    <3> QED
      BY <2>1, <3>1 DEF McpInv, RegistryOK, OwnerMoves
  <2> QED
    BY <2>1 DEF RegistryOK, OwnerMoves
<1>3. SessionsTended'
  BY DEF McpInv, SessionsTended, Alive, OwnerMoves
<1>4. ASSUME NEW q \in McpRequests PROVE CallOK(q)'
  <2>1. CallOK(q)
    BY DEF McpInv
  <2> QED
    BY <2>1 DEF CallOK, OwnerMoves
<1> QED
  BY <1>1, <1>2, <1>3, <1>4 DEF McpInv

(* The rows and failures keep their types. *)
LEMMA TablesStay ==
  ASSUME McpInv, McpNext
  PROVE  TablesKept
<1>0. /\ config \in [Servers -> ConfigType] /\ failed \in SUBSET Servers /\ deaths \in 0..MaxDeaths
      /\ MaxDeaths \in Nat
      /\ \A r \in McpRequests : call[r].server \in Servers
  BY McpAssumption, CallFields DEF McpInv, McpTypeOK
<1>1. ASSUME NEW r \in McpRequests, ConnectGoesOn(r) \/ EditGoesOn(r) \/ After(r) PROVE TablesKept
  <2> DEFINE s == call[r].server
  <2>1. s \in Servers
    BY <1>0
  <2>2. /\ UNCHANGED <<failed, deaths>>
        /\ \/ config' = config
           \/ \E b \in BOOLEAN : \/ config' = [config EXCEPT ![s].auto = b]
                               \/ config' = [config EXCEPT ![s].enabled = b]
                               \/ config' = [config EXCEPT ![s].there = b]
    <3>1. CASE ConnectGoesOn(r)
      BY <3>1 DEF ConnectGoesOn
    <3>2. CASE EditGoesOn(r)
      BY <3>2 DEF EditGoesOn
    <3>3. CASE After(r)
      BY <3>3 DEF After
    <3> QED
      BY <1>1, <3>1, <3>2, <3>3
  <2> HIDE DEF s
  <2>3. ASSUME NEW b \in BOOLEAN,
               \/ config' = [config EXCEPT ![s].auto = b]
               \/ config' = [config EXCEPT ![s].enabled = b]
               \/ config' = [config EXCEPT ![s].there = b]
        PROVE  config' \in [Servers -> ConfigType]
    BY <1>0, <2>1, <2>3 DEF ConfigType
  <2> QED
    BY <1>0, <2>2, <2>3 DEF TablesKept
<1>2. ASSUME NEW r \in McpRequests,
             \/ RemovalGoesOn(r) \/ TurnGoesOn(r) \/ StatusReads(r) \/ ProbeEnds(r) \/ McpCalls(r)
             \/ Arrives(r) \/ Cancelled(r) \/ CloseTimesOut(r)
      PROVE  TablesKept
  BY <1>0, <1>2 DEF RemovalGoesOn, TurnGoesOn, StatusReads, ProbeEnds, McpCalls, Arrives, Cancelled,
                    CloseTimesOut, TablesKept
<1>3. ASSUME NEW r \in McpRequests,
             \/ ConnectEnters(r) \/ EnsureEnters(r) \/ RemovalEnters(r) \/ StatusEnters(r)
             \/ Closed(r) \/ Opened(r)
      PROVE  TablesKept
  <2>1. UNCHANGED <<config, deaths>>
    BY <1>3 DEF ConnectEnters, EnsureEnters, RemovalEnters, StatusEnters, Closed, Opened
  <2>2. failed' \in {failed, failed \cup {call[r].server}, failed \ {call[r].server}}
    BY <1>3 DEF ConnectEnters, EnsureEnters, RemovalEnters, StatusEnters, Closed, Opened,
                Opens, PopsAndCloses, Forgets, RecordsDeath
  <2> QED
    BY <1>0, <2>1, <2>2 DEF TablesKept
<1>4. ASSUME NEW h \in 1..Len(handle), OwnerStep(h) PROVE TablesKept
  BY <1>0, <1>4 DEF OwnerStep, HandshakeDone, HandshakeFails, OwnerEnds, TablesKept
<1>5. ASSUME NEW h \in 1..Len(handle), ServerDies(h) PROVE TablesKept
  BY <1>0, <1>5 DEF ServerDies, TablesKept
<1>6. CASE \E r \in McpRequests : Arrives(r) \/ CallStep(r) \/ (Cancelled(r) /\ NoteShared)
  BY <1>1, <1>2, <1>3, <1>6 DEF CallStep, LockStep
<1>7. CASE \E h \in 1..Len(handle) : OwnerStep(h) \/ ServerDies(h)
  BY <1>4, <1>5, <1>7
<1> QED
  BY <1>6, <1>7 DEF McpNext

(* Where a step of a request leaves it. *)
LEMMA EndsCall ==
  ASSUME McpInv, NEW r \in McpRequests, NEW pc \in {"after", "done"}, McpEnds(r, pc),
         call[r].pc \in Locked
  PROVE  /\ call' \in [McpRequests -> CallType] /\ call'[r].pc \notin Locked
         /\ \A q \in McpRequests : q # r => call'[q] = call[q]
         /\ lockQueue' \in [LockNames -> Seq(McpRequests)]
         /\ \A q \in McpRequests : q # r => PlacesKept(q)
<1>1. call \in [McpRequests -> CallType] /\ call[r] \in CallType
  BY DEF McpInv, McpTypeOK
<1> DEFINE a == McpAt(call[r], pc)
           d == [a EXCEPT !.lock = NoLock]
<1>2. a \in CallType /\ a.pc = pc
  BY <1>1, AtFits DEF McpPcs
<1> HIDE DEF a
<1>3. d \in CallType /\ d.pc = pc
  BY <1>2 DEF CallType
<1>4. call' = [call EXCEPT ![r] = d]
  BY <1>1 DEF McpEnds, a
<1> HIDE DEF d
<1>5. LeavesQueue(r) /\ call[r].lock \in LockNames
  BY HasLockFirst DEF McpEnds
<1> QED
  BY <1>1, <1>3, <1>4, <1>5, LeaveKeeps DEF Locked

LEMMA ShapeSettles ==
  ASSUME McpInv, NEW r \in McpRequests, Shaped(r), NoteShared \/ UNCHANGED <<lockQueue, shared>>
  PROVE  /\ Settled(r)
         /\ (MovesOn(r) \/ JoinsIn(r) \/ Leaves(r)) =>
              (call'[r].pc \notin {"closing", "opening"} /\ CallOK(r)')
         /\ (EndsOpening(r) \/ Aborts(r)) => call'[r].pc \notin Locked
         /\ call'[r].pc = "closing" => PopsOut(r)
<1> DEFINE CallsMove ==
             /\ call' \in [McpRequests -> CallType]
             /\ \A q \in McpRequests : q # r => call'[q] = call[q]
           Queues == /\ lockQueue' \in [LockNames -> Seq(McpRequests)]
                     /\ \A q \in McpRequests : q # r => PlacesKept(q)
           Locks == lockOf' \in [Servers -> LockNames \cup {NoLock}] /\ LocksOK'
<1>0. /\ call \in [McpRequests -> CallType] /\ call[r] \in CallType /\ call[r].server \in Servers
      /\ lockQueue \in [LockNames -> Seq(McpRequests)]
      /\ lockOf \in [Servers -> LockNames \cup {NoLock}] /\ LocksOK
  BY CallFields DEF McpInv, McpTypeOK
<1>1. ASSUME lockQueue' = lockQueue PROVE Queues
  BY <1>0, <1>1 DEF PlacesKept
<1>2. ASSUME lockOf' = lockOf PROVE Locks
  BY <1>0, <1>2 DEF LocksOK
<1>3. CASE MovesOn(r)
  <2>1. PICK c \in CallType : c.pc \notin Locked /\ call' = [call EXCEPT ![r] = c]
    BY <1>3 DEF MovesOn
  <2>2. CallsMove /\ call'[r] = c
    BY <1>0, <2>1
  <2>3. Queues /\ Locks
    BY <1>1, <1>2, <1>3 DEF MovesOn
  <2>4. call'[r].pc \notin Locked /\ CallOK(r)'
    BY <2>1, <2>2 DEF CallOK, Locked
  <2> QED
    BY <2>2, <2>3, <2>4, HoldersAreNoted DEF Settled, Locked
<1>4. CASE JoinsIn(r)
  <2>1. PICK c \in CallType : JoinsQueue(r, c)
    BY <1>4 DEF JoinsIn
  <2> DEFINE s == c.server
             l == IF lockOf[s] = NoLock THEN <<c.op, r, s>> ELSE lockOf[s]
             d == [c EXCEPT !.copy = NoCall.copy, !.lock = l, !.pc = "queued"]
  <2>2. s \in Servers /\ c.op \in McpOps
    BY CallFields
  <2>3. l \in LocksOf(s) /\ l \in LockNames
    <3>1. l \in LocksOf(s)
      BY <1>0, <2>2 DEF LocksOf, LocksOK
    <3> QED
      BY <2>2, <3>1, LocksApart
  <2>4. /\ lockOf' = [lockOf EXCEPT ![s] = l]
        /\ lockQueue' = [lockQueue EXCEPT ![l] = Append(@, r)]
        /\ call' = [call EXCEPT ![r] = d]
    BY <2>1 DEF JoinsQueue
  <2> HIDE DEF l
  <2>5. d \in CallType /\ d.pc = "queued" /\ d.lock = l /\ d.server = s
    <3>1. NoCall.copy \in ConfigType
      BY NoCallFits DEF CallType
    <3> QED
      BY <2>3, <3>1 DEF CallType
  <2> HIDE DEF d
  <2>6. CallsMove /\ call'[r] = d
    BY <1>0, <2>4, <2>5
  <2>7. Queues /\ Standing(r, lockQueue'[l])
    BY <2>3, <2>4, JoinKeeps
  <2>8. Locks
    BY <1>0, <2>2, <2>3, <2>4 DEF LocksOK
  <2>9. CallOK(r)' /\ call'[r].pc \notin {"closing", "opening"}
    BY <2>3, <2>5, <2>6, <2>7 DEF CallOK
  <2>10. ~EndsOpening(r) /\ ~Aborts(r)
    BY <1>4 DEF JoinsIn, EndsOpening, Aborts, Locked
  <2> QED
    BY <2>6, <2>7, <2>8, <2>9, <2>10, HoldersAreNoted DEF Settled
<1>5. CASE PopsOut(r)
  <2>1. /\ call' = [call EXCEPT ![r].handle = sessions[call[r].server], ![r].pc = "closing"]
        /\ lockQueue' = lockQueue /\ lockOf' = lockOf /\ call[r].pc = "queued"
    BY <1>5 DEF PopsOut, PopsAndCloses
  <2>2. sessions[call[r].server] \in Nat
    BY <1>0 DEF McpInv, McpTypeOK
  <2>3. CallsMove /\ call'[r].pc = "closing"
    BY <1>0, <2>1, <2>2 DEF CallType
  <2>4. Queues /\ Locks
    BY <1>1, <1>2, <2>1
  <2>5. ~MovesOn(r) /\ ~JoinsIn(r) /\ ~EndsOpening(r) /\ ~Aborts(r)
    BY <2>1 DEF MovesOn, JoinsIn, EndsOpening, Aborts, Locked
  <2>6. ~Leaves(r)
    <3>1. \A pc \in {"after", "done"} : McpEnds(r, pc) => call'[r].pc # "closing"
      BY <2>1, EndsCall DEF Locked
    <3> QED
      BY <2>3, <3>1 DEF Leaves
  <2> QED
    BY <1>5, <2>3, <2>4, <2>5, <2>6, HoldersAreNoted DEF Settled
<1>6. CASE Makes(r)
  <2>1. /\ call' = [call EXCEPT ![r].handle = Len(handle'), ![r].pc = "opening"]
        /\ lockQueue' = lockQueue /\ lockOf' = lockOf /\ call[r].pc \in {"queued", "closing"}
    BY <1>6 DEF Makes
  <2>2. Len(handle') \in Nat
    <3>1. handle \in Seq(HandleType)
      BY DEF McpInv, McpTypeOK
    <3> QED
      BY <1>6, <3>1 DEF Makes
  <2>3. CallsMove /\ call'[r].pc = "opening"
    BY <1>0, <2>1, <2>2 DEF CallType
  <2>4. Queues /\ Locks
    BY <1>1, <1>2, <2>1
  <2>5. ~MovesOn(r) /\ ~JoinsIn(r) /\ ~EndsOpening(r) /\ ~Aborts(r)
    BY <2>1 DEF MovesOn, JoinsIn, EndsOpening, Aborts, Locked
  <2>6. ~Leaves(r)
    <3>1. \A pc \in {"after", "done"} : McpEnds(r, pc) => call'[r].pc # "opening"
      BY <2>1, EndsCall DEF Locked
    <3> QED
      BY <2>3, <3>1 DEF Leaves
  <2> QED
    BY <2>3, <2>4, <2>5, <2>6, HoldersAreNoted DEF Settled
<1>7. CASE Leaves(r) \/ EndsOpening(r) \/ Aborts(r)
  <2>1. call[r].pc \in Locked /\ \E pc \in {"after", "done"} : McpEnds(r, pc)
    BY <1>7 DEF Leaves, EndsOpening, Aborts, Locked
  <2>2. CallsMove /\ Queues /\ call'[r].pc \notin Locked
    BY <2>1, EndsCall
  <2>3. lockOf' = lockOf \/ lockOf' = [lockOf EXCEPT ![call[r].server] = NoLock]
    BY <1>7 DEF Leaves, EndsOpening, Aborts
  <2>4. Locks
    BY <1>0, <2>3 DEF LocksOK
  <2>5. CallOK(r)'
    BY <2>2 DEF CallOK, Locked
  <2> QED
    BY <2>2, <2>4, <2>5, HoldersAreNoted DEF Settled, Locked
<1> QED
  BY <1>3, <1>4, <1>5, <1>6, <1>7 DEF Shaped

LEMMA McpStutters == ASSUME McpInv, UNCHANGED mcpVars PROVE McpInv'
<1>1. OwnerMoves
  BY DEF McpInv, McpTypeOK, mcpVars, OwnerMoves
<1> QED
  BY <1>1, OwnerKeeps

LEMMA McpStep == ASSUME McpInv, [McpNext]_mcpVars PROVE McpInv'
<1>0. /\ handle \in Seq(HandleType) /\ \A i \in 1..Len(handle) : handle[i] \in HandleType
      /\ deaths \in 0..MaxDeaths /\ MaxDeaths \in Nat
  BY McpAssumption DEF McpInv, McpTypeOK
<1>1. CASE UNCHANGED mcpVars
  BY <1>1, McpStutters
<1>2. ASSUME McpNext, NEW r \in McpRequests, Shaped(r), NoteShared \/ UNCHANGED <<lockQueue, shared>>
      PROVE  McpInv'
  <2>1. Settled(r) /\ TablesKept
    BY <1>2, ShapeSettles, TablesStay
  <2>2. CASE MovesOn(r) \/ JoinsIn(r) \/ Leaves(r)
    <3>1. call'[r].pc \notin {"closing", "opening"} /\ CallOK(r)'
      BY <1>2, <2>2, ShapeSettles
    <3>2. UNCHANGED <<sessions, handle>> /\ call[r].pc # "opening"
      BY <2>2 DEF MovesOn, JoinsIn, Leaves, Locked
    <3> QED
      BY <2>1, <3>1, <3>2, QuietStep
  <2>3. CASE EndsOpening(r) \/ Aborts(r)
    <3>1. call'[r].pc \notin Locked
      BY <1>2, <2>3, ShapeSettles
    <3> QED
      BY <2>1, <2>3, <3>1, EndsOpeningStep, AbortsStep
  <2> QED
    BY <1>2, <2>1, <2>2, <2>3, PopsStep, MakesStep DEF Shaped
<1>3. ASSUME NEW h \in 1..Len(handle), NEW e \in HandleType, handle' = [handle EXCEPT ![h] = e],
             e.server = handle[h].server, e.asked = handle[h].asked,
             handle[h].owner = "gone" => e.owner = "gone",
             UNCHANGED <<config, sessions, failed, lockOf, lockQueue, call, shared>>,
             deaths' \in 0..MaxDeaths
      PROVE  McpInv'
  <2>1. handle' \in Seq(HandleType) /\ Len(handle') = Len(handle)
        /\ \A i \in 1..Len(handle) : handle'[i] = IF i = h THEN e ELSE handle[i]
    BY <1>0, <1>3, Rewritten
  <2> QED
    BY <1>3, <2>1, OwnerKeeps DEF OwnerMoves
<1>4. ASSUME NEW h \in 1..Len(handle), OwnerStep(h) \/ ServerDies(h) PROVE McpInv'
  <2>0. handle[h] \in HandleType
    BY <1>0
  <2>1. CASE HandshakeDone(h)
    <3> DEFINE e == [handle[h] EXCEPT !.owner = "parked"]
    <3>1. e \in HandleType /\ e.server = handle[h].server /\ e.asked = handle[h].asked
          /\ handle[h].owner # "gone"
      BY <2>0, <2>1 DEF HandleType, HandshakeDone
    <3>2. handle' = [handle EXCEPT ![h] = e]
          /\ UNCHANGED <<config, sessions, failed, lockOf, lockQueue, call, shared>>
          /\ deaths' \in 0..MaxDeaths
      BY <1>0, <2>1 DEF HandshakeDone
    <3> HIDE DEF e
    <3> QED
      BY <1>3, <3>1, <3>2
  <2>2. CASE HandshakeFails(h) \/ OwnerEnds(h)
    <3> DEFINE e == [handle[h] EXCEPT !.owner = "gone", !.up = FALSE]
    <3>1. e \in HandleType /\ e.server = handle[h].server /\ e.asked = handle[h].asked
          /\ e.owner = "gone"
      BY <2>0 DEF HandleType
    <3>2. handle' = [handle EXCEPT ![h] = e]
          /\ UNCHANGED <<config, sessions, failed, lockOf, lockQueue, call, shared>>
          /\ deaths' \in 0..MaxDeaths
      BY <1>0, <2>2 DEF HandshakeFails, OwnerEnds
    <3> HIDE DEF e
    <3> QED
      BY <1>3, <3>1, <3>2
  <2>3. CASE ServerDies(h)
    <3> DEFINE e == [handle[h] EXCEPT !.up = FALSE]
    <3>1. e \in HandleType /\ e.server = handle[h].server /\ e.asked = handle[h].asked
          /\ e.owner = handle[h].owner
      BY <2>0 DEF HandleType
    <3>2. handle' = [handle EXCEPT ![h] = e]
          /\ UNCHANGED <<config, sessions, failed, lockOf, lockQueue, call, shared>>
          /\ deaths' \in 0..MaxDeaths
      BY <1>0, <2>3 DEF ServerDies
    <3> HIDE DEF e
    <3> QED
      BY <1>3, <3>1, <3>2
  <2> QED
    BY <1>4, <2>1, <2>2, <2>3 DEF OwnerStep
<1>5. ASSUME NEW r \in McpRequests, CloseTimesOut(r) PROVE McpInv'
  <2> DEFINE h == call[r].handle
             e == [handle[h] EXCEPT !.owner = "gone", !.up = FALSE]
  <2>0. /\ handle' = [handle EXCEPT ![h] = e]
        /\ UNCHANGED <<config, sessions, failed, lockOf, lockQueue, call, shared>>
        /\ deaths' \in 0..MaxDeaths
    BY <1>0, <1>5 DEF CloseTimesOut
  <2>1. CASE h \in 1..Len(handle)
    <3>1. e \in HandleType /\ e.server = handle[h].server /\ e.asked = handle[h].asked
          /\ e.owner = "gone"
      BY <1>0, <2>1 DEF HandleType
    <3> HIDE DEF e, h
    <3> QED
      BY <1>3, <2>0, <2>1, <3>1
  <2>2. CASE h \notin 1..Len(handle)
    <3>1. handle' = handle
      BY <1>0, <2>0, <2>2
    <3> QED
      BY <1>0, <2>0, <3>1, OwnerKeeps DEF OwnerMoves
  <2> QED
    BY <2>1, <2>2
<1>6. ASSUME McpNext, NEW r \in McpRequests,
             Arrives(r) \/ CallStep(r) \/ (Cancelled(r) /\ NoteShared)
      PROVE  McpInv'
  <2>1. CASE Arrives(r) \/ McpCalls(r)
    <3>1. Shaped(r) /\ UNCHANGED <<lockQueue, shared>>
      BY <2>1, FreeShapes DEF Shaped, Arrives, McpCalls
    <3> QED
      BY <1>2, <1>6, <3>1
  <2>2. CASE LockStep(r) /\ NoteShared
    <3>1. Shaped(r)
      BY <2>2, FreeShapes, LockedShapes DEF LockStep, Shaped
    <3> QED
      BY <1>2, <1>6, <2>2, <3>1
  <2>3. CASE Cancelled(r) /\ NoteShared
    BY <1>2, <1>6, <2>3, LockedShapes
  <2> QED
    BY <1>5, <1>6, <2>1, <2>2, <2>3 DEF CallStep
<1> QED
  BY <1>1, <1>4, <1>6 DEF McpNext

LEMMA McpStart == ASSUME McpInit PROVE McpInv
<1>1. Servers # {} /\ MaxDeaths \in Nat
  BY McpAssumption
<1>2. handle = <<>> /\ Len(handle) = 0 /\ handle \in Seq(HandleType)
  BY DEF McpInit
<1>3. McpTypeOK
  <2>1. call \in [McpRequests -> CallType]
    BY NoCallFits DEF McpInit
  <2>2. config \in [Servers -> ConfigType]
    BY DEF McpInit, ConfigType
  <2>3. lockQueue \in [LockNames -> Seq(McpRequests)]
    BY DEF McpInit
  <2>4. sessions \in [Servers -> 0..Len(handle)]
    BY <1>2 DEF McpInit, NoHandle
  <2> QED
    BY <1>1, <1>2, <2>1, <2>2, <2>3, <2>4 DEF McpInit, McpTypeOK
<1>4. HoldersNoted
  BY LocksApart DEF McpInit, HoldersNoted, First
<1>5. \A r \in McpRequests : call[r].pc = "new"
  BY DEF McpInit, NoCall
<1>6. OneOpener /\ \A r \in McpRequests : CallOK(r)
  BY <1>5 DEF OneOpener, CallOK, Locked
<1>7. LocksOK /\ RegistryOK
  BY DEF LocksOK, RegistryOK, McpInit
<1>8. SessionsTended
  BY <1>2 DEF SessionsTended
<1> QED
  BY <1>3, <1>4, <1>6, <1>7, <1>8 DEF McpInv

(* Two sessions that live on one server are known to the same request or   *)
(* to the registry, so there is one, unless the server is excepted.        *)
LEMMA McpIsSound ==
  ASSUME McpInv PROVE McpTypeOK /\ RegisteredNotClosing /\ SessionsTended /\ OneSession
<1>0. sessions \in [Servers -> 0..Len(handle)] /\ Len(handle) \in Nat
  BY DEF McpInv, McpTypeOK
<1>1. RegisteredNotClosing
  BY DEF McpInv, RegistryOK, RegisteredNotClosing
<1>2. ASSUME NEW s \in Servers, s \notin shared, NEW a \in 1..Len(handle), NEW b \in 1..Len(handle),
             handle[a].server = s, Alive(a), handle[b].server = s, Alive(b)
      PROVE  a = b
  <2>0. a # NoHandle /\ b # NoHandle
    BY DEF NoHandle
  <2>1. ASSUME NEW i \in 1..Len(handle), handle[i].server = s, Alive(i)
        PROVE  \/ sessions[s] = i
               \/ \E r \in McpRequests :
                    /\ call[r].pc = "opening" /\ call[r].handle = i
                    /\ sessions[s] = NoHandle
                    /\ \E l \in LocksOf(s) : First(r, lockQueue[l])
    <3>1. CASE \E r \in McpRequests : call[r].pc = "opening" /\ call[r].handle = i
      <4>1. PICK r \in McpRequests : call[r].pc = "opening" /\ call[r].handle = i
        BY <3>1
      <4>2. CallOK(r)
        BY DEF McpInv
      <4>3. call[r].server = s
        BY <2>1, <4>1, <4>2 DEF CallOK
      <4> QED
        BY <1>2, <4>1, <4>2, <4>3 DEF CallOK, Locked
    <3> QED
      BY <1>2, <2>1, <3>1 DEF McpInv, SessionsTended
  <2>2. CASE sessions[s] = NoHandle
    <3>1. PICK r \in McpRequests : /\ call[r].pc = "opening" /\ call[r].handle = a
                                   /\ \E l \in LocksOf(s) : First(r, lockQueue[l])
      BY <1>2, <2>0, <2>1, <2>2
    <3>2. PICK q \in McpRequests : /\ call[q].pc = "opening" /\ call[q].handle = b
                                   /\ \E l \in LocksOf(s) : First(q, lockQueue[l])
      BY <1>2, <2>0, <2>1, <2>2
    <3>3. r = q
      BY <1>2, <3>1, <3>2 DEF McpInv, HoldersNoted
    <3> QED
      BY <3>1, <3>2, <3>3
  <2>3. CASE sessions[s] # NoHandle
    BY <1>2, <2>1, <2>3
  <2> QED
    BY <2>2, <2>3
<1>3. ASSUME NEW s \in Servers \ shared
      PROVE  Cardinality({h \in 1..Len(handle) : handle[h].server = s /\ Alive(h)}) <= 1
  <2> DEFINE H == {h \in 1..Len(handle) : handle[h].server = s /\ Alive(h)}
  <2>1. \A a, b \in H : a = b
    BY <1>2
  <2> HIDE DEF H
  <2>2. CASE H = {}
    BY <2>2, FS_EmptySet DEF H
  <2>3. CASE H # {}
    <3>1. PICK a : a \in H
      BY <2>3
    <3>2. H = {a}
      BY <2>1, <3>1
    <3>3. Cardinality(H) = 1
      BY <3>2, FS_Singleton
    <3> QED
      BY <3>3 DEF H
  <2> QED
    BY <2>2, <2>3
<1> QED
  BY <1>1, <1>3 DEF McpInv, OneSession

(* Whoever opens, closes, edits and checks servers at once, and whoever is *)
(* cancelled at any wait: no session is closed while it is registered,     *)
(* none is left without an owner and no server runs twice.                 *)
THEOREM SessionsAreSound == ServicesSpec => []SessionsSound
<1> DEFINE Inv == focus = "mcp" => McpInv
<1>1. ServicesInit => Inv
  BY McpStart DEF ServicesInit
<1>2. Inv /\ [ServicesNext]_servicesVars => Inv'
  BY FocusMoves, McpStep
<1>3. Inv => SessionsSound
  BY McpIsSound DEF SessionsSound
<1> QED
  BY <1>1, <1>2, <1>3, PTL DEF ServicesSpec

(* A status check closes what it has pinged. *)
LEMMA StatusSpares == ASSUME McpInv, [McpNext]_mcpVars PROVE StatusSparesOthers
<1>1. ASSUME NEW q \in McpRequests, Shaped(q), NoteShared \/ UNCHANGED <<lockQueue, shared>>,
             call[q].pc = "queued" /\ call[q].op = "status" => StatusEnters(q)
      PROVE  StatusSparesOthers
  <2> SUFFICES ASSUME NEW r \in McpRequests, call[r].op = "status", call'[r].pc = "closing"
               PROVE  call'[r].handle = call[r].handle
    BY DEF StatusSparesOthers
  <2>1. CASE q # r
    <3>1. call'[r] = call[r]
      BY <1>1, <2>1, ShapeSettles DEF Settled
    <3> QED
      BY <3>1
  <2>2. CASE q = r
    <3>1. PopsOut(r)
      BY <1>1, <2>2, ShapeSettles
    <3>2. StatusEnters(r)
      BY <1>1, <2>2, <3>1 DEF PopsOut
    <3>3. sessions[call[r].server] = call[r].handle
      <4>1. ~McpEnds(r, "done")
        BY <1>1, <3>1, EndsCall DEF PopsOut, Locked
      <4> QED
        BY <3>2, <4>1 DEF StatusEnters
    <3>4. call[r] \in CallType /\ call' = [call EXCEPT ![r].handle = sessions[call[r].server], ![r].pc = "closing"]
      BY <3>1 DEF PopsOut, PopsAndCloses, McpInv, McpTypeOK
    <3>5. call \in [McpRequests -> CallType]
      BY DEF McpInv, McpTypeOK
    <3> QED
      BY <3>3, <3>4, <3>5 DEF CallType
  <2> QED
    BY <2>1, <2>2
<1>2. CASE call' = call
  BY <1>2 DEF StatusSparesOthers
<1>3. CASE \E h \in 1..Len(handle) : OwnerStep(h) \/ ServerDies(h)
  BY <1>2, <1>3 DEF OwnerStep, HandshakeDone, HandshakeFails, OwnerEnds, ServerDies
<1>4. ASSUME NEW q \in McpRequests, Arrives(q) \/ CallStep(q) \/ (Cancelled(q) /\ NoteShared)
      PROVE  StatusSparesOthers
  <2>1. CASE CloseTimesOut(q)
    BY <1>2, <2>1 DEF CloseTimesOut
  <2>2. CASE Arrives(q) \/ McpCalls(q)
    <3>1. Shaped(q) /\ UNCHANGED <<lockQueue, shared>> /\ call[q].pc # "queued"
      BY <2>2, FreeShapes DEF Shaped, Arrives, McpCalls
    <3> QED
      BY <1>1, <3>1
  <2>3. CASE LockStep(q) /\ NoteShared
    <3>1. Shaped(q)
      BY <2>3, FreeShapes, LockedShapes DEF LockStep, Shaped
    <3>2. call[q].pc = "queued" /\ call[q].op = "status" => StatusEnters(q)
      BY <2>3 DEF LockStep, ConnectGoesOn, EditGoesOn, RemovalGoesOn, TurnGoesOn, StatusReads, ProbeEnds,
                  ConnectEnters, EnsureEnters, RemovalEnters, Closed, Opened, After
    <3> QED
      BY <1>1, <2>3, <3>1, <3>2
  <2>4. CASE Cancelled(q) /\ NoteShared
    <3>1. Shaped(q) /\ call[q].op # "status"
      BY <2>4, LockedShapes DEF Cancelled
    <3> QED
      BY <1>1, <2>4, <3>1
  <2> QED
    BY <1>4, <2>1, <2>2, <2>3, <2>4 DEF CallStep
<1> QED
  BY <1>2, <1>3, <1>4 DEF McpNext, mcpVars

(* A step spares what it is not about: a refused move leaves every task as *)
(* it is, a status check closes only the session it pinged, and an attempt *)
(* at one password takes the block of another pair only if all that is     *)
(* left are blocks.                                                        *)
THEOREM OthersAreSpared == ServicesSpec => OthersSpared
<1> DEFINE Inv == /\ focus = "throttle" => ThrottleInv
                  /\ focus = "mcp" => McpInv
<1>1. ServicesInit => Inv /\ Init
  BY ThrottleStart, McpStart DEF ServicesInit
<1>2. Inv /\ [ServicesNext]_servicesVars => Inv'
  BY FocusMoves, ThrottleStep, McpStep
<1>3. Inv /\ [ServicesNext]_servicesVars =>
        /\ [Next]_vars
        /\ [focus = "mcp" => StatusSparesOthers]_mcpVars
        /\ [focus = "throttle" => BlockedSpared]_throttleVars
  BY FocusMoves, StatusSpares, BlocksSpared
<1> QED
  BY <1>1, <1>2, <1>3, RefusalIsHarmless, PTL DEF ServicesSpec, Spec, OthersSpared

----------------------------------------------------------------------------
(* Knowledge bases.                                                        *)
(*                                                                         *)
(* KbInv: ids of chunks go up as long as a base lives, so an index, however*)
(* old, tells no lies about the rows that are there (Told); an index job   *)
(* is alone on its base; and an addition that is not committed has claimed *)
(* the base (Claimed), so it is the only one, unless a swap has failed.    *)

(* The jobs that have no chunk to insert any more. *)
Inserted == {j \in KbRequests : job[j].pc \notin {"absent", "waiting", "started", "embedded", "moved"}}

ChunkIdsOK ==
  /\ DOMAIN chunks \subseteq 1..(1 + Cardinality(Inserted))
  /\ DOMAIN chunks # {} => \E m \in DOMAIN chunks : \A n \in DOMAIN chunks : n <= m

BaseRowOK ==
  /\ ~base.there => base = NoBase
  /\ ~base.there \/ base.status \in {"queued", "failed"} => chunks = NoChunks

IndexAt(j) == job[j].kind = "index" /\ AtWork(j)
AddAt(j) == job[j].kind = "add" /\ AtWork(j)
Entering == {"staged", "classified", "claimed"}

KbCallOK(r) ==
  LET pc == kbCall[r].pc IN
  /\ pc # "done" => job[r].pc = "absent"
  /\ pc \notin {"queued", "done"} => job[r].entry.text = 0
  /\ pc = "queued" =>
       /\ \A q \in KbRequests : job[q].pc = "absent"
       /\ \A q \in KbRequests \ {r} : kbCall[q].pc \notin Entering \cup {"queued"}
       /\ base.there => base.status = "queued"
       /\ job[r].entry \in KbEntry
  /\ pc \in Entering /\ base.there => base.status = "ready"
  /\ pc = "erased" => ~base.there

IndexJobOK(j) ==
  LET one == job[j] IN
  IndexAt(j) =>
    /\ \A q \in KbRequests \ {j} : job[q].pc = "absent"
    /\ \A q \in KbRequests : kbCall[q].pc \notin Entering \cup {"queued"}
    /\ one.entry \in KbEntry
    /\ one.pc \in {"waiting", "started", "stored", "writing", "written", "failing"}
    /\ one.pc # "failing" => late = NoIndex
    /\ base.there =>
         /\ base.status = IF one.pc = "waiting" THEN "queued" ELSE "indexing"
         /\ one.pc = "started" => chunks = NoChunks
         /\ one.pc \in {"stored", "writing", "written"} => chunks = one.index
         /\ one.pc = "written" => index = one.index

AddJobOK(j) ==
  LET one == job[j] IN
  AddAt(j) =>
    /\ one.entry \in KbEntry
    /\ one.pc \in {"waiting", "embedded", "moved", "committed", "promoted", "failing"}
    /\ base.there => base.status = "ready"
    /\ one.pc \in {"waiting", "embedded", "moved"} \/ (one.pc = "failing" /\ one.kept) =>
         \A id \in DOMAIN chunks : chunks[id].text # one.entry.text

LateOK ==
  late # NoIndex =>
    /\ base.there => base.status \in {"indexing", "failed"}
    /\ \E j \in KbRequests : job[j].pc # "absent"

(* Who has claimed the base for an addition that is still to be committed. *)
Claimed(r) ==
  \/ kbCall[r].pc = "claimed"
  \/ job[r].kind = "add" /\ job[r].pc \in {"waiting", "embedded", "moved", "failing"}

ClaimOK(r) ==
  base.there /\ ~torn =>
    /\ Claimed(r) => base.adding /\ \A q \in KbRequests \ {r} : ~Claimed(q)
    /\ job[r].kind = "add" /\ job[r].pc \in {"waiting", "embedded", "moved"} => chunks = job[r].index
    /\ job[r].pc = "committed" =>
         chunks = job[r].index /\ \A q \in KbRequests \ {r} : job[q].pc # "committed"

(* The id of the next row; and an index that says of the rows that are     *)
(* there what is so, and knows of none that is still to come.              *)
NextRow(rows) == IF DOMAIN rows = {} THEN 1 ELSE 1 + CHOOSE m \in DOMAIN rows : \A n \in DOMAIN rows : n <= m
Told(f, rows) == \A id \in DOMAIN f : id < NextRow(rows) /\ (id \in DOMAIN rows => f[id] = rows[id])

Living == base.there /\ base.status # "failed"
IndexesTold ==
  Living =>
    /\ Told(index, chunks) /\ Told(cache, chunks) /\ Told(late, chunks)
    /\ \A j \in KbRequests : job[j].pc = "committed" => Told(job[j].index, chunks)
    /\ \A r \in KbRequests : kbCall[r].pc \in {"loaded", "searching"} => Told(kbCall[r].view, chunks)

Text(r) == job[r].entry.text
FilesOK ==
  /\ uploads \subseteq {1} \cup {Text(q) : q \in KbRequests}
  /\ \A p, q \in KbRequests : p # q /\ Text(p) = Text(q) => Text(p) = 0
  /\ base.there =>
       /\ \A id \in DOMAIN chunks : chunks[id].text \in uploads
       /\ \A r \in KbRequests :
            kbCall[r].pc = "queued" \/ IndexAt(r) \/ (AddAt(r) /\ job[r].pc = "moved") => Text(r) \in uploads

KbInv ==
  /\ KbTypeOK /\ ChunkIdsOK /\ BaseRowOK /\ LateOK /\ IndexesTold /\ FilesOK /\ ReadyIsWhole
  /\ \A r \in KbRequests : KbCallOK(r) /\ IndexJobOK(r) /\ AddJobOK(r) /\ ClaimOK(r)

LEMMA TableFits ==
  ASSUME NEW f \in Entries
  PROVE  /\ DOMAIN f \subseteq KbIds /\ \A x \in DOMAIN f : f[x] \in KbEntry
         /\ MaxId \in Nat \ {0} /\ Cardinality(DOMAIN f) \in 0..MaxId
<1>1. Cardinality(KbRequests) \in Nat
  BY KbAssumption, FS_CardinalityType
<1>2. MaxId \in Nat \ {0}
  BY <1>1 DEF MaxId
<1>3. DOMAIN f \subseteq KbIds /\ \A x \in DOMAIN f : f[x] \in KbEntry
  BY DEF Entries
<1>4. IsFiniteSet(1..MaxId) /\ Cardinality(1..MaxId) = MaxId
  <2>1. IsFiniteSet(1..MaxId) /\ Cardinality(1..MaxId) = IF 1 > MaxId THEN 0 ELSE MaxId - 1 + 1
    BY <1>2, FS_Interval
  <2> QED
    BY <1>2, <2>1
<1>5. Cardinality(DOMAIN f) \in Nat /\ Cardinality(DOMAIN f) <= Cardinality(1..MaxId)
  BY <1>3, <1>4, SubsetCard DEF KbIds
<1> QED
  BY <1>2, <1>3, <1>4, <1>5

LEMMA TableKept ==
  ASSUME NEW f \in Entries, NEW ids
  PROVE  KbWithout(f, ids) \in Entries
<1>1. DOMAIN f \subseteq KbIds /\ \A x \in DOMAIN f : f[x] \in KbEntry
  BY DEF Entries
<1>2. DOMAIN f \ ids \in SUBSET KbIds /\ KbWithout(f, ids) \in [DOMAIN f \ ids -> KbEntry]
  BY <1>1 DEF KbWithout
<1> QED
  BY <1>2 DEF Entries

LEMMA TableGrew ==
  ASSUME NEW f \in Entries, NEW id \in KbIds, NEW e \in KbEntry
  PROVE  With(f, id, e) \in Entries
<1>1. DOMAIN f \subseteq KbIds /\ \A x \in DOMAIN f : f[x] \in KbEntry
  BY DEF Entries
<1>2. DOMAIN f \cup {id} \in SUBSET KbIds /\ With(f, id, e) \in [DOMAIN f \cup {id} -> KbEntry]
  BY <1>1 DEF With
<1> QED
  BY <1>2 DEF Entries

LEMMA NoRows == NoChunks \in Entries /\ DOMAIN NoChunks = {} /\ NoChunks # NoIndex
<1>1. NoChunks \in [{} -> KbEntry] /\ {} \in SUBSET KbIds
  BY DEF NoChunks
<1>2. DOMAIN NoIndex = {0}
  BY DEF NoIndex
<1> QED
  BY <1>1, <1>2 DEF Entries, NoChunks

(* A new row comes after all that are there. *)
LEMMA NextRowFits ==
  ASSUME NEW rows, NEW n \in Nat, DOMAIN rows \subseteq 1..n,
         DOMAIN rows # {} => \E m \in DOMAIN rows : \A k \in DOMAIN rows : k <= m
  PROVE  /\ NextRow(rows) \in Nat \ {0} /\ \A k \in DOMAIN rows : k < NextRow(rows)
         /\ NextRow(rows) <= 1 + n
         /\ DOMAIN rows = {} => NextRow(rows) = 1
<1>1. CASE DOMAIN rows = {}
  BY <1>1 DEF NextRow
<1>2. CASE DOMAIN rows # {}
  <2> DEFINE top == CHOOSE m \in DOMAIN rows : \A k \in DOMAIN rows : k <= m
  <2>1. top \in DOMAIN rows /\ \A k \in DOMAIN rows : k <= top
    BY <1>2
  <2>2. NextRow(rows) = 1 + top
    BY <1>2 DEF NextRow
  <2> HIDE DEF top
  <2> QED
    BY <1>2, <2>1, <2>2
<1> QED
  BY <1>1, <1>2

LEMMA FreshIdFits ==
  ASSUME ChunkIdsOK
  PROVE  /\ FreshId = NextRow(chunks) /\ FreshId \in Nat \ {0} /\ \A n \in DOMAIN chunks : n < FreshId
         /\ Cardinality(Inserted) \in Nat /\ FreshId <= 2 + Cardinality(Inserted)
         /\ DOMAIN chunks = {} => FreshId = 1
<1>1. Cardinality(Inserted) \in Nat
  <2>1. Inserted \subseteq KbRequests
    BY DEF Inserted
  <2> QED
    BY <2>1, SubsetCard, KbAssumption
<1>2. /\ DOMAIN chunks \subseteq 1..(1 + Cardinality(Inserted)) /\ 1 + Cardinality(Inserted) \in Nat
      /\ DOMAIN chunks # {} => \E m \in DOMAIN chunks : \A n \in DOMAIN chunks : n <= m
  BY <1>1 DEF ChunkIdsOK
<1>3. FreshId = NextRow(chunks)
  BY DEF FreshId, NextRow
<1> HIDE DEF FreshId, NextRow
<1> QED
  BY <1>1, <1>2, <1>3, NextRowFits

(* Rows go, and new ones come after the old ones: the indexes stay true. *)
LEMMA ToldKept ==
  ASSUME NEW f, DOMAIN f \subseteq Nat, NEW rows, NEW next, Told(f, rows),
         NextRow(rows) \in Nat, NextRow(next) \in Nat, NextRow(rows) <= NextRow(next),
         \A id \in DOMAIN next : id = NextRow(rows) \/ (id \in DOMAIN rows /\ next[id] = rows[id])
  PROVE  Told(f, next)
<1> SUFFICES ASSUME NEW id \in DOMAIN f PROVE id < NextRow(next) /\ (id \in DOMAIN next => f[id] = next[id])
  BY DEF Told
<1>1. id < NextRow(rows) /\ (id \in DOMAIN rows => f[id] = rows[id]) /\ id \in Nat
  BY DEF Told
<1> QED
  BY <1>1

(* There is an id for every job. *)
LEMMA FreshIdBound ==
  ASSUME ChunkIdsOK, NEW j \in KbRequests \ Inserted
  PROVE  FreshId \in KbIds /\ Cardinality(Inserted \cup {j}) = Cardinality(Inserted) + 1
<1>1. IsFiniteSet(KbRequests) /\ Inserted \subseteq KbRequests
  BY KbAssumption DEF Inserted
<1>2. IsFiniteSet(Inserted) /\ Cardinality(Inserted) \in Nat
  BY <1>1, SubsetCard
<1>3. Cardinality(Inserted \cup {j}) = Cardinality(Inserted) + 1
  <2>1. Cardinality(Inserted \cup {j}) = IF j \in Inserted THEN Cardinality(Inserted) ELSE Cardinality(Inserted) + 1
    BY <1>2, FS_AddElement
  <2> QED
    BY <2>1
<1>4. Cardinality(Inserted \cup {j}) <= Cardinality(KbRequests) /\ Cardinality(KbRequests) \in Nat
  <2>1. Inserted \cup {j} \subseteq KbRequests
    BY <1>1
  <2> QED
    BY <1>1, <2>1, SubsetCard
<1>5. FreshId \in Nat \ {0} /\ FreshId <= 2 + Cardinality(Inserted)
  BY FreshIdFits
<1> QED
  BY <1>2, <1>3, <1>4, <1>5 DEF KbIds, MaxId

(* There is a text for every upload. *)
LEMMA FreshTextFits ==
  ASSUME KbTypeOK, FilesOK, NEW r \in KbRequests, Text(r) = 0
  PROVE  FreshText \in KbIds /\ FreshText \notin uploads /\ \A q \in KbRequests : Text(q) # FreshText
<1> DEFINE Others == KbRequests \ {r}
           Spent == {Text(q) : q \in Others}
<1>1. IsFiniteSet(KbRequests) /\ Cardinality(KbRequests) \in Nat
      /\ IsFiniteSet(Others) /\ Cardinality(Others) = Cardinality(KbRequests) - 1
  BY OneLess, KbAssumption
<1>2. IsFiniteSet(Spent) /\ Cardinality(Spent) <= Cardinality(Others)
  <2>1. [q \in Others |-> Text(q)] \in Surjection(Others, Spent)
    BY DEF Surjection
  <2> HIDE DEF Others, Spent
  <2> QED
    BY <1>1, <2>1, FS_Surjection
<1>3. IsFiniteSet(Spent \cup {1}) /\ Cardinality(Spent \cup {1}) <= Cardinality(Spent) + 1
      /\ Cardinality(Spent) \in Nat /\ Cardinality(Spent \cup {1}) \in Nat
  BY <1>2, OneMore
<1>4. Cardinality(KbIds) = Cardinality(KbRequests) + 1
  <2> HIDE DEF Spent, Others
  <2>1. MaxId = Cardinality(KbRequests) + 1 /\ MaxId \in Nat \ {0}
    BY <1>1 DEF MaxId
  <2>2. 1 \in Int /\ MaxId \in Int /\ ~(1 > MaxId)
    BY <2>1
  <2>3. Cardinality(1..MaxId) = IF 1 > MaxId THEN 0 ELSE MaxId - 1 + 1
    BY <2>2, FS_Interval
  <2> QED
    BY <2>1, <2>2, <2>3 DEF KbIds
<1>5. ~(KbIds \subseteq Spent \cup {1})
  <2> HIDE DEF Spent, Others
  <2>1. SUFFICES ASSUME KbIds \subseteq Spent \cup {1} PROVE FALSE
    OBVIOUS
  <2>2. Cardinality(KbIds) <= Cardinality(Spent \cup {1})
    BY <1>3, <2>1, SubsetCard
  <2>3. Cardinality(Others) \in Nat
    BY <1>1, FS_CardinalityType
  <2> QED
    BY <1>1, <1>2, <1>3, <1>4, <2>2, <2>3
<1>6. PICK n \in KbIds : n \notin Spent \cup {1}
  BY <1>5
<1>7. n # 0
  BY DEF KbIds
<1>8. \A q \in KbRequests : Text(q) # n
  BY <1>6, <1>7
<1>9. n \notin uploads
  <2>1. uploads \subseteq {1} \cup {Text(q) : q \in KbRequests}
    BY DEF FilesOK
  <2> QED
    BY <1>6, <1>8, <2>1
<1> QED
  BY <1>8, <1>9 DEF FreshText, Text

JobPcs == {"absent", "waiting", "started", "stored", "writing", "written", "embedded",
           "moved", "committed", "promoted", "failing", "done"}
KbCallPcs == {"new", "staged", "classified", "claimed", "queued", "waiting", "erased",
              "loading", "loaded", "searching", "done"}

LEMMA JobSet ==
  ASSUME job \in [KbRequests -> JobType], NEW j \in KbRequests, NEW one \in JobType,
         job' = [job EXCEPT ![j] = one]
  PROVE  job' \in [KbRequests -> JobType] /\ job'[j] = one /\ \A q \in KbRequests \ {j} : job'[q] = job[q]
OBVIOUS

LEMMA KbCallSet ==
  ASSUME kbCall \in [KbRequests -> KbCallType], NEW r \in KbRequests, NEW c \in KbCallType,
         kbCall' = [kbCall EXCEPT ![r] = c]
  PROVE  /\ kbCall' \in [KbRequests -> KbCallType] /\ kbCall'[r] = c
         /\ \A q \in KbRequests \ {r} : kbCall'[q] = kbCall[q]
OBVIOUS

LEMMA JobFits ==
  ASSUME KbTypeOK, NEW j \in KbRequests
  PROVE  /\ job[j] \in JobType /\ job[j].pc \in JobPcs /\ job[j].index \in Entries
         /\ job[j].kind \in {"index", "add"} /\ job[j].kept \in BOOLEAN /\ job[j].cancelled \in BOOLEAN
         /\ job[j].entry \in [source : Sources, text : 0..MaxId]
BY DEF KbTypeOK, JobType, JobPcs

LEMMA KbCallFits ==
  ASSUME KbTypeOK, NEW r \in KbRequests
  PROVE  /\ kbCall[r] \in KbCallType /\ kbCall[r].pc \in KbCallPcs /\ kbCall[r].source \in Sources
         /\ kbCall[r].view \in Entries \cup {NoIndex} /\ kbCall[r].replaces \in SUBSET KbIds
         /\ kbCall[r].awaits \in KbRequests \cup {NoKbJob}
BY DEF KbTypeOK, KbCallType, KbCallPcs

(* A job that moves on, and a request that does. *)
LEMMA JobAt ==
  ASSUME KbTypeOK, NEW j \in KbRequests, NEW pc \in JobPcs, JobGoes(j, pc)
  PROVE  /\ job' \in [KbRequests -> JobType] /\ job'[j] = [job[j] EXCEPT !.pc = pc]
         /\ \A q \in KbRequests \ {j} : job'[q] = job[q]
<1> DEFINE one == [job[j] EXCEPT !.pc = pc]
<1>1. one \in JobType
  BY JobFits DEF JobType, JobPcs
<1>2. job \in [KbRequests -> JobType] /\ job' = [job EXCEPT ![j] = one]
  BY DEF KbTypeOK, JobGoes
<1> HIDE DEF one
<1>3. job' \in [KbRequests -> JobType] /\ job'[j] = one /\ \A q \in KbRequests \ {j} : job'[q] = job[q]
  BY <1>1, <1>2, JobSet
<1> QED
  BY <1>3 DEF one

LEMMA KbCallAt ==
  ASSUME KbTypeOK, NEW r \in KbRequests, NEW pc \in KbCallPcs, KbGoes(r, pc)
  PROVE  /\ kbCall' \in [KbRequests -> KbCallType] /\ kbCall'[r] = [kbCall[r] EXCEPT !.pc = pc]
         /\ \A q \in KbRequests \ {r} : kbCall'[q] = kbCall[q]
<1> DEFINE c == [kbCall[r] EXCEPT !.pc = pc]
<1>1. c \in KbCallType
  BY KbCallFits DEF KbCallType, KbCallPcs
<1>2. kbCall \in [KbRequests -> KbCallType] /\ kbCall' = [kbCall EXCEPT ![r] = c]
  BY DEF KbTypeOK, KbGoes
<1> HIDE DEF c
<1>3. /\ kbCall' \in [KbRequests -> KbCallType] /\ kbCall'[r] = c
      /\ \A q \in KbRequests \ {r} : kbCall'[q] = kbCall[q]
  BY <1>1, <1>2, KbCallSet
<1> QED
  BY <1>3 DEF c

LEMMA NoKbBase == NoBase \in BaseType
<1>1. MaxId \in Nat
  BY NoRows, TableFits
<1> QED
  BY <1>1 DEF NoBase, BaseType

(* What a job is, by how far it is. *)
LEMMA JobKinds ==
  ASSUME KbInv, NEW j \in KbRequests, job[j].pc \notin {"absent", "done"}
  PROVE  /\ job[j].entry \in KbEntry
         /\ job[j].pc \in {"started", "stored", "writing", "written"} => job[j].kind = "index"
         /\ job[j].pc \in {"embedded", "moved", "committed", "promoted"} => job[j].kind = "add"
         /\ job[j].kind = "index" => IndexAt(j)
         /\ job[j].kind = "add" => AddAt(j)
<1>1. job[j].kind \in {"index", "add"} /\ AtWork(j)
  BY JobFits DEF KbInv, AtWork
<1>2. IndexJobOK(j) /\ AddJobOK(j)
  BY DEF KbInv
<1> QED
  BY <1>1, <1>2 DEF IndexJobOK, AddJobOK, IndexAt, AddAt

LEMMA JobTyped ==
  ASSUME KbInv, NEW j \in KbRequests, JobStep(j)
  PROVE  job' \in [KbRequests -> JobType] /\ base' \in BaseType /\ chunks' \in Entries
<1>0. /\ KbTypeOK /\ base \in BaseType /\ chunks \in Entries /\ NoChunks \in Entries
      /\ ChunkIdsOK
  BY NoRows DEF KbInv, KbTypeOK
<1>1. /\ job[j] \in JobType /\ job[j].pc \in JobPcs /\ job[j].index \in Entries
      /\ job[j].entry \in [source : Sources, text : 0..MaxId]
  BY <1>0, JobFits
<1>2. ASSUME NEW pc \in JobPcs, JobGoes(j, pc) PROVE job' \in [KbRequests -> JobType]
  BY <1>0, <1>2, JobAt
<1>3. CASE IndexStarts(j) \/ IndexReady(j) \/ IndexRecordsFailure(j) \/ AddRecordsFailure(j)
  <2>1. base' \in BaseType
    <3>1. Cardinality(DOMAIN job[j].index) \in 0..MaxId /\ 0 \in 0..MaxId
      BY <1>1, NoRows, TableFits
    <3>2. [base EXCEPT !.status = "indexing"] \in BaseType /\ [base EXCEPT !.adding = FALSE] \in BaseType
      BY <1>0 DEF BaseType
    <3>3. [base EXCEPT !.status = "ready", !.adding = FALSE, !.count = Cardinality(DOMAIN job[j].index)]
            \in BaseType
      BY <1>0, <3>1 DEF BaseType
    <3>4. [base EXCEPT !.status = "failed", !.adding = FALSE, !.count = 0] \in BaseType
      BY <1>0, <3>1 DEF BaseType
    <3> QED
      BY <1>0, <1>3, <3>2, <3>3, <3>4 DEF IndexStarts, IndexReady, IndexRecordsFailure, AddRecordsFailure
  <2>2. chunks' \in Entries
    BY <1>0, <1>3 DEF IndexStarts, IndexReady, IndexRecordsFailure, AddRecordsFailure
  <2>3. JobGoes(j, "started") \/ JobGoes(j, "done")
    BY <1>3 DEF IndexStarts, IndexReady, IndexRecordsFailure, AddRecordsFailure
  <2> QED
    BY <1>2, <2>1, <2>2, <2>3 DEF JobPcs
<1>4. CASE \/ IndexEmbeds(j) \/ IndexWritten(j) \/ IndexFails(j) \/ AddEmbeds(j)
           \/ AddFails(j) \/ JobEndsUnbegun(j) \/ AddFinishes(j)
  <2>1. UNCHANGED <<base, chunks>>
    BY <1>4 DEF IndexEmbeds, IndexWritten, IndexFails, AddEmbeds, AddFails, JobEndsUnbegun, AddFinishes
  <2>2. \E pc \in JobPcs : JobGoes(j, pc)
    BY <1>4 DEF IndexEmbeds, IndexWritten, IndexFails, AddEmbeds, AddFails, JobEndsUnbegun, AddFinishes, JobPcs
  <2> QED
    BY <1>0, <1>2, <2>1, <2>2
<1>5. CASE IndexStores(j)
  <2>1. CASE base.there
    <3>1. j \in KbRequests \ Inserted /\ job[j].pc \notin {"absent", "done"}
      BY <1>5 DEF IndexStores, Inserted
    <3>2. FreshId \in KbIds /\ job[j].entry \in KbEntry
      BY <1>0, <3>1, FreshIdBound, JobKinds
    <3> DEFINE one == [job[j] EXCEPT !.pc = "stored", !.index = With(NoChunks, FreshId, job[j].entry)]
    <3>3. With(NoChunks, FreshId, job[j].entry) \in Entries
      BY <1>0, <3>2, TableGrew
    <3>4. one \in JobType
      BY <1>1, <3>3 DEF JobType
    <3>5. job' = [job EXCEPT ![j] = one] /\ job \in [KbRequests -> JobType]
      BY <1>0, <1>5, <2>1 DEF IndexStores, KbTypeOK
    <3>6. chunks' \in Entries /\ base' = base
      BY <1>0, <1>5, <2>1, <3>2, TableGrew DEF IndexStores
    <3> HIDE DEF one
    <3> QED
      BY <1>0, <3>4, <3>5, <3>6, JobSet
  <2>2. CASE ~base.there
    BY <1>0, <1>2, <1>5, <2>2 DEF IndexStores, JobPcs
  <2> QED
    BY <2>1, <2>2
<1>6. CASE AddMoves(j)
  <2>1. CASE base.there
    <3> DEFINE one == [job[j] EXCEPT !.kept = TRUE, !.pc = IF job[j].cancelled THEN "failing" ELSE "moved"]
    <3>1. one \in JobType
      BY <1>1 DEF JobType
    <3>2. job' = [job EXCEPT ![j] = one] /\ job \in [KbRequests -> JobType]
      BY <1>0, <1>6, <2>1 DEF AddMoves, KbTypeOK
    <3>3. chunks' = chunks /\ base' = base
      BY <1>6 DEF AddMoves
    <3> HIDE DEF one
    <3> QED
      BY <1>0, <3>1, <3>2, <3>3, JobSet
  <2>2. CASE ~base.there
    BY <1>0, <1>2, <1>6, <2>2 DEF AddMoves, JobPcs
  <2> QED
    BY <2>1, <2>2
<1>7. CASE AddPromotes(j)
  <2>1. chunks' = chunks /\ base' = base
    BY <1>7 DEF AddPromotes
  <2>2. CASE JobGoes(j, "promoted")
    BY <1>0, <1>2, <2>1, <2>2 DEF JobPcs
  <2>3. CASE job' = [job EXCEPT ![j].kept = FALSE, ![j].pc = "failing"]
    <3> DEFINE one == [job[j] EXCEPT !.kept = FALSE, !.pc = "failing"]
    <3>1. one \in JobType
      BY <1>1 DEF JobType
    <3>2. job' = [job EXCEPT ![j] = one] /\ job \in [KbRequests -> JobType]
      BY <1>0, <2>3 DEF KbTypeOK
    <3> HIDE DEF one
    <3> QED
      BY <1>0, <2>1, <3>1, <3>2, JobSet
  <2> QED
    BY <1>7, <2>2, <2>3 DEF AddPromotes
<1>8. CASE AddCommits(j)
  <2>1. CASE JobGoes(j, "failing") /\ UNCHANGED <<base, chunks, torn>>
    BY <1>0, <1>2, <2>1 DEF JobPcs
  <2>2. ASSUME NEW id \in KbIds, NEW rows, NEW patched, index # NoIndex,
               rows = With(KbWithout(chunks, job[j].replaces), id, job[j].entry),
               patched = With(KbWithout(index, job[j].replaces \cap DOMAIN chunks), id, job[j].entry),
               chunks' = rows, job' = [job EXCEPT ![j].pc = "committed", ![j].index = patched],
               base' = [base EXCEPT !.adding = FALSE, !.count = Cardinality(DOMAIN rows)]
        PROVE  job' \in [KbRequests -> JobType] /\ base' \in BaseType /\ chunks' \in Entries
    <3>1. job[j].entry \in KbEntry /\ index \in Entries
      <4>1. job[j].pc \notin {"absent", "done"}
        BY <1>8 DEF AddCommits
      <4> QED
        BY <2>2, <4>1, <1>0, JobKinds DEF KbTypeOK
    <3>2. rows \in Entries /\ patched \in Entries
      BY <1>0, <2>2, <3>1, TableKept, TableGrew
    <3>3. Cardinality(DOMAIN rows) \in 0..MaxId
      BY <3>2, TableFits
    <3>4. base' \in BaseType
      BY <1>0, <2>2, <3>3 DEF BaseType
    <3> DEFINE one == [job[j] EXCEPT !.pc = "committed", !.index = patched]
    <3>5. one \in JobType
      BY <1>1, <3>2 DEF JobType
    <3>6. job' = [job EXCEPT ![j] = one] /\ job \in [KbRequests -> JobType]
      BY <1>0, <2>2 DEF KbTypeOK
    <3> HIDE DEF one
    <3> QED
      BY <2>2, <3>2, <3>4, <3>5, <3>6, JobSet
  <2> QED
    BY <1>8, <2>1, <2>2 DEF AddCommits
<1> QED
  BY <1>3, <1>4, <1>5, <1>6, <1>7, <1>8 DEF JobStep

LEMMA JobStepTyped ==
  ASSUME KbInv, NEW j \in KbRequests, JobStep(j)
  PROVE  KbTypeOK'
<1>0. /\ KbTypeOK /\ job[j].index \in Entries /\ job[j].entry \in [source : Sources, text : 0..MaxId]
  BY JobFits DEF KbInv
<1>1. job' \in [KbRequests -> JobType] /\ base' \in BaseType /\ chunks' \in Entries
  BY JobTyped
<1>2. /\ kbCall' = kbCall /\ jobOf' = jobOf /\ stopping' = stopping /\ crashes' = crashes
      /\ late' \in {late, job[j].index} /\ torn' \in BOOLEAN
      /\ cache' \in {cache, job[j].index, NoIndex}
      /\ index' \in {index, job[j].index, NoIndex}
  <2>1. CASE \/ IndexStarts(j) \/ IndexStores(j) \/ IndexEmbeds(j) \/ IndexWritten(j) \/ IndexReady(j)
             \/ IndexFails(j) \/ IndexRecordsFailure(j)
    BY <1>0, <2>1 DEF IndexStarts, IndexStores, IndexEmbeds, IndexWritten, IndexReady, IndexFails,
       IndexRecordsFailure, KbTypeOK
  <2>2. CASE \/ AddEmbeds(j) \/ AddMoves(j) \/ AddFails(j) \/ AddFinishes(j) \/ AddRecordsFailure(j)
             \/ JobEndsUnbegun(j)
    BY <1>0, <2>2 DEF AddEmbeds, AddMoves, AddFails, AddFinishes, AddRecordsFailure, JobEndsUnbegun, KbTypeOK
  <2>3. CASE AddCommits(j)
    BY <1>0, <2>3 DEF AddCommits, KbTypeOK
  <2>4. CASE AddPromotes(j)
    BY <1>0, <2>4 DEF AddPromotes, KbTypeOK
  <2> QED
    BY <2>1, <2>2, <2>3, <2>4 DEF JobStep
<1>3. uploads' \in SUBSET KbIds
  <2>1. CASE AddMoves(j)
    <3>1. job[j].entry.text \in KbIds
      BY <2>1, JobKinds DEF AddMoves, KbEntry
    <3> QED
      BY <1>0, <2>1, <3>1 DEF AddMoves, KbTypeOK
  <2>2. CASE ~AddMoves(j)
    <3>1. uploads' \subseteq uploads
      BY <2>2 DEF JobStep, IndexStarts, IndexStores, IndexEmbeds, IndexWritten, IndexReady, IndexFails,
         IndexRecordsFailure, AddEmbeds, AddFails, AddFinishes, AddRecordsFailure, JobEndsUnbegun, AddCommits, AddPromotes
    <3> QED
      BY <1>0, <3>1 DEF KbTypeOK
  <2> QED
    BY <2>1, <2>2
<1> QED
  BY <1>0, <1>1, <1>2, <1>3 DEF KbTypeOK

LEMMA CallStepTyped ==
  ASSUME KbInv, NEW r \in KbRequests,
         \/ CreateStores(r) \/ AddArrives(r) \/ DeleteArrives(r) \/ SearchStarts(r)
         \/ KbCallStep(r) \/ DeleteTimesOut(r)
  PROVE  KbTypeOK'
<1>0. /\ KbTypeOK /\ NoBase \in BaseType /\ NoChunks \in Entries
      /\ kbCall \in [KbRequests -> KbCallType] /\ job \in [KbRequests -> JobType]
  BY NoKbBase, NoRows DEF KbInv, KbTypeOK
<1>1. /\ kbCall[r] \in KbCallType /\ kbCall[r].pc \in KbCallPcs /\ kbCall[r].source \in Sources
      /\ kbCall[r].view \in Entries \cup {NoIndex} /\ kbCall[r].replaces \in SUBSET KbIds
      /\ kbCall[r].awaits \in KbRequests \cup {NoKbJob}
  BY <1>0, KbCallFits
<1>2. job[r] \in JobType
  BY <1>0
<1>3. ASSUME NEW pc \in KbCallPcs, KbGoes(r, pc) PROVE kbCall' \in [KbRequests -> KbCallType]
  BY <1>0, <1>3, KbCallAt
<1>4. ASSUME NEW c \in KbCallType, kbCall' = [kbCall EXCEPT ![r] = c] PROVE kbCall' \in [KbRequests -> KbCallType]
  BY <1>0, <1>4
<1>5. ASSUME NEW q \in KbRequests, NEW one \in JobType, job' = [job EXCEPT ![q] = one]
      PROVE  job' \in [KbRequests -> JobType]
  BY <1>0, <1>5
<1>6. KbCallOK(r) /\ FilesOK
  BY DEF KbInv
<1>7. CASE CreateStores(r)
  <2>1. CASE KbGoes(r, "done") /\ UNCHANGED <<base, index, uploads, cache, job>>
    <3>1. kbCall' \in [KbRequests -> KbCallType]
      BY <1>3, <2>1 DEF KbCallPcs
    <3> QED
      BY <1>0, <1>7, <2>1, <3>1 DEF CreateStores, KbTypeOK
  <2>2. CASE KbGoes(r, "queued")
    <3>1. kbCall' \in [KbRequests -> KbCallType]
      BY <1>3, <2>2 DEF KbCallPcs
    <3>2. kbCall[r].pc = "new" /\ kbCall'[r].pc = "queued"
      <4>1. kbCall'[r] = [kbCall[r] EXCEPT !.pc = "queued"]
        BY <1>0, <2>2, KbCallAt DEF KbCallPcs
      <4> QED
        BY <1>1, <1>7, <4>1 DEF CreateStores, KbCallType
    <3>3. ~(KbGoes(r, "done") /\ UNCHANGED <<base, index, uploads, cache, job>>)
      <4>1. KbGoes(r, "done") => kbCall'[r].pc = "done"
        <5>1. KbGoes(r, "done") => kbCall'[r] = [kbCall[r] EXCEPT !.pc = "done"]
          BY <1>0, KbCallAt DEF KbCallPcs
        <5> QED
          BY <1>1, <5>1 DEF KbCallType
      <4> QED
        BY <3>2, <4>1
    <3>4. FreshText \in KbIds
      <4>1. Text(r) = 0
        BY <1>6, <3>2 DEF KbCallOK, Text
      <4> QED
        BY <1>0, <1>6, <4>1, FreshTextFits
    <3>5. PICK f \in Sources : job' = [job EXCEPT ![r].entry = [source |-> f, text |-> FreshText]]
      BY <1>7, <3>3 DEF CreateStores
    <3> DEFINE one == [job[r] EXCEPT !.entry = [source |-> f, text |-> FreshText]]
    <3>6. one \in JobType
      <4>1. FreshText \in 0..MaxId
        BY <3>4, NoRows, TableFits DEF KbIds
      <4>2. [source |-> f, text |-> FreshText] \in [source : Sources, text : 0..MaxId]
        BY <4>1
      <4> QED
        BY <1>2, <4>2 DEF JobType
    <3>7. job' \in [KbRequests -> JobType]
      <4>1. job' = [job EXCEPT ![r] = one]
        BY <1>0, <3>5
      <4> HIDE DEF one
      <4> QED
        BY <1>5, <3>6, <4>1
    <3>8. /\ base' \in BaseType /\ uploads' \in SUBSET KbIds /\ index' = NoIndex /\ cache' = NoIndex
          /\ UNCHANGED <<chunks, jobOf, late, stopping, crashes, torn>>
      <4>1. [NoBase EXCEPT !.there = TRUE] \in BaseType
        BY <1>0 DEF BaseType
      <4> QED
        BY <1>7, <3>3, <3>4, <4>1 DEF CreateStores
    <3> QED
      BY <1>0, <3>1, <3>7, <3>8 DEF KbTypeOK
  <2> QED
    BY <1>7, <2>1, <2>2 DEF CreateStores
<1>8. CASE CreateSpawns(r)
  <2>1. kbCall' \in [KbRequests -> KbCallType]
    BY <1>3, <1>8 DEF KbCallPcs, CreateSpawns
  <2>2. job' \in [KbRequests -> JobType] /\ jobOf' \in {jobOf, r}
    <3> DEFINE one == [job[r] EXCEPT !.kind = "index", !.pc = "waiting"]
    <3>1. one \in JobType
      BY <1>2 DEF JobType
    <3>2. job' = [job EXCEPT ![r] = one] \/ job' = job
      BY <1>0, <1>8 DEF CreateSpawns
    <3>3. jobOf' \in {jobOf, r}
      BY <1>8 DEF CreateSpawns
    <3> HIDE DEF one
    <3> QED
      BY <1>0, <1>5, <3>1, <3>2, <3>3
  <2> QED
    BY <1>0, <1>8, <2>1, <2>2 DEF CreateSpawns, KbTypeOK
<1>9. CASE AddSpawns(r)
  <2>1. kbCall' \in [KbRequests -> KbCallType]
    BY <1>3, <1>9 DEF KbCallPcs, AddSpawns
  <2>2. FreshText \in KbIds
    <3>1. Text(r) = 0
      BY <1>6, <1>9 DEF KbCallOK, Text, AddSpawns
    <3> QED
      BY <1>0, <1>6, <3>1, FreshTextFits
  <2> DEFINE e == [source |-> kbCall[r].source, text |-> FreshText]
             one == [job[r] EXCEPT !.kind = "add", !.pc = "waiting", !.replaces = kbCall[r].replaces,
                                   !.entry = e, !.index = chunks]
  <2>3. one \in JobType
    <3>1. FreshText \in 0..MaxId
      BY <2>2, NoRows, TableFits DEF KbIds
    <3>2. e \in [source : Sources, text : 0..MaxId]
      BY <1>1, <3>1
    <3>3. chunks \in Entries
      BY <1>0 DEF KbTypeOK
    <3> HIDE DEF e
    <3> QED
      BY <1>1, <1>2, <3>2, <3>3 DEF JobType
  <2>4. job' = [job EXCEPT ![r] = one] /\ jobOf' = r
    BY <1>0, <1>9 DEF AddSpawns
  <2> HIDE DEF one
  <2>5. job' \in [KbRequests -> JobType]
    BY <1>5, <2>3, <2>4
  <2> QED
    BY <1>0, <1>9, <2>1, <2>4, <2>5 DEF AddSpawns, KbTypeOK
<1>10. CASE AddClaims(r) \/ AddReleases(r) \/ DeleteErases(r) \/ DeleteRemoves(r) \/ SearchAnswers(r) \/ SearchCaches(r)
  <2>1. kbCall' \in [KbRequests -> KbCallType]
    BY <1>3, <1>10 DEF KbCallPcs, AddClaims, AddReleases, DeleteErases, DeleteRemoves, SearchAnswers, SearchCaches
  <2>2. /\ base' \in {base, NoBase, [base EXCEPT !.adding = TRUE], [base EXCEPT !.adding = FALSE]}
        /\ chunks' \in {chunks, NoChunks} /\ index' \in {index, NoIndex} /\ uploads' \in {uploads, {}}
        /\ cache' \in {cache, kbCall[r].view}
        /\ UNCHANGED <<job, jobOf, late, stopping, crashes, torn>>
    BY <1>10 DEF AddClaims, AddReleases, DeleteErases, DeleteRemoves, SearchAnswers, SearchCaches
  <2>3. [base EXCEPT !.adding = TRUE] \in BaseType /\ [base EXCEPT !.adding = FALSE] \in BaseType
    BY <1>0 DEF KbTypeOK, BaseType
  <2> QED
    BY <1>0, <1>1, <2>1, <2>2, <2>3 DEF KbTypeOK
<1>11. CASE AddArrives(r) \/ AddClassifies(r) \/ SearchStarts(r) \/ SearchLoads(r)
  <2>1. UNCHANGED <<base, chunks, index, uploads, cache, job, jobOf, late, stopping, crashes, torn>>
    BY <1>11 DEF AddArrives, AddClassifies, SearchStarts, SearchLoads
  <2>2. base \in BaseType /\ cache \in Entries \cup {NoIndex} /\ index \in Entries \cup {NoIndex}
        /\ DOMAIN chunks \subseteq KbIds
    <3>1. chunks \in Entries
      BY <1>0 DEF KbTypeOK
    <3> QED
      BY <1>0, <3>1, TableFits DEF KbTypeOK
  <2>3. kbCall' \in [KbRequests -> KbCallType]
    <3>1. CASE AddArrives(r)
      <4>1. PICK f \in Sources, pc \in KbCallPcs : kbCall' = [kbCall EXCEPT ![r].source = f, ![r].pc = pc]
        BY <3>1 DEF AddArrives, KbCallPcs
      <4> DEFINE c == [kbCall[r] EXCEPT !.source = f, !.pc = pc]
      <4>2. c \in KbCallType
        BY <1>1 DEF KbCallType, KbCallPcs
      <4>3. kbCall' = [kbCall EXCEPT ![r] = c]
        BY <1>0, <4>1
      <4> HIDE DEF c
      <4> QED
        BY <1>4, <4>2, <4>3
    <3>2. CASE AddClassifies(r)
      <4>1. CASE KbGoes(r, "done")
        BY <1>3, <4>1 DEF KbCallPcs
      <4> DEFINE ids == {id \in DOMAIN chunks : chunks[id].source = kbCall[r].source}
                 c == [kbCall[r] EXCEPT !.pc = "classified", !.replaces = ids]
      <4>2. CASE kbCall' = [kbCall EXCEPT ![r].pc = "classified", ![r].replaces = ids]
        <5>1. ids \in SUBSET KbIds
          BY <2>2
        <5>2. c \in KbCallType
          <6> HIDE DEF ids
          <6> QED
            BY <1>1, <5>1 DEF KbCallType
        <5>3. kbCall' = [kbCall EXCEPT ![r] = c]
          BY <1>0, <4>2
        <5> HIDE DEF c
        <5> QED
          BY <1>4, <5>2, <5>3
      <4> QED
        BY <3>2, <4>1, <4>2 DEF AddClassifies
    <3>3. CASE SearchStarts(r)
      <4>1. PICK pc \in KbCallPcs : kbCall' = [kbCall EXCEPT ![r].copy = base, ![r].view = cache, ![r].pc = pc]
        BY <3>3 DEF SearchStarts, KbCallPcs
      <4> DEFINE c == [kbCall[r] EXCEPT !.copy = base, !.view = cache, !.pc = pc]
      <4>2. c \in KbCallType
        BY <1>1, <2>2 DEF KbCallType, KbCallPcs
      <4>3. kbCall' = [kbCall EXCEPT ![r] = c]
        BY <1>0, <4>1
      <4> HIDE DEF c
      <4> QED
        BY <1>4, <4>2, <4>3
    <3>4. CASE SearchLoads(r)
      <4>1. PICK pc \in KbCallPcs : kbCall' = [kbCall EXCEPT ![r].view = index, ![r].pc = pc]
        BY <3>4 DEF SearchLoads, KbCallPcs
      <4> DEFINE c == [kbCall[r] EXCEPT !.view = index, !.pc = pc]
      <4>2. c \in KbCallType
        BY <1>1, <2>2 DEF KbCallType, KbCallPcs
      <4>3. kbCall' = [kbCall EXCEPT ![r] = c]
        BY <1>0, <4>1
      <4> HIDE DEF c
      <4> QED
        BY <1>4, <4>2, <4>3
    <3> QED
      BY <1>11, <3>1, <3>2, <3>3, <3>4
  <2> QED
    BY <1>0, <2>1, <2>3 DEF KbTypeOK
<1>12. CASE DeleteArrives(r)
  <2>1. kbCall' \in [KbRequests -> KbCallType]
    <3>1. CASE KbGoes(r, "done")
      BY <1>3, <3>1 DEF KbCallPcs
    <3>2. CASE kbCall' = [kbCall EXCEPT ![r].awaits = jobOf, ![r].pc = "waiting"]
      <4> DEFINE c == [kbCall[r] EXCEPT !.awaits = jobOf, !.pc = "waiting"]
      <4>1. c \in KbCallType
        BY <1>0, <1>1 DEF KbCallType, KbTypeOK
      <4>2. kbCall' = [kbCall EXCEPT ![r] = c]
        BY <1>0, <3>2
      <4> HIDE DEF c
      <4> QED
        BY <1>4, <4>1, <4>2
    <3> QED
      BY <1>12, <3>1, <3>2 DEF DeleteArrives
  <2>2. job' \in [KbRequests -> JobType]
    <3>1. CASE jobOf # NoKbJob /\ job' = [job EXCEPT ![jobOf].cancelled = TRUE]
      <4> DEFINE one == [job[jobOf] EXCEPT !.cancelled = TRUE]
      <4>1. jobOf \in KbRequests
        BY <1>0, <3>1 DEF KbTypeOK
      <4>2. one \in JobType
        BY <1>0, <4>1 DEF JobType
      <4>3. job' = [job EXCEPT ![jobOf] = one]
        BY <1>0, <3>1, <4>1
      <4> HIDE DEF one
      <4> QED
        BY <1>5, <4>1, <4>2, <4>3
    <3> QED
      BY <1>0, <1>12, <3>1 DEF DeleteArrives
  <2>3. cache' \in {cache, NoIndex} /\ jobOf' \in {jobOf, NoKbJob}
        /\ UNCHANGED <<base, chunks, index, uploads, late, stopping, crashes, torn>>
    BY <1>12 DEF DeleteArrives
  <2> QED
    BY <1>0, <2>1, <2>2, <2>3 DEF KbTypeOK
<1>13. CASE DeleteTimesOut(r)
  <2>1. kbCall[r].awaits \in KbRequests /\ JobGoes(kbCall[r].awaits, "done")
    BY <1>1, <1>13 DEF DeleteTimesOut
  <2>2. job' \in [KbRequests -> JobType]
    BY <1>0, <2>1, JobAt DEF JobPcs
  <2> QED
    BY <1>0, <1>13, <2>2 DEF DeleteTimesOut, KbTypeOK
<1> QED
  BY <1>7, <1>8, <1>9, <1>10, <1>11, <1>12, <1>13 DEF KbCallStep

LEMMA KbTypeStep == ASSUME KbInv, [KbNext]_kbVars PROVE KbTypeOK'
<1>0. /\ KbTypeOK /\ NoBase \in BaseType /\ NoChunks \in Entries /\ KbCrashes \in Nat
      /\ base.count \in 0..MaxId /\ base \in BaseType
  BY NoKbBase, NoRows, KbAssumption DEF KbInv, KbTypeOK, BaseType
<1>1. CASE UNCHANGED kbVars
  BY <1>0, <1>1 DEF kbVars, KbTypeOK
<1>2. CASE LateWrite
  BY <1>0, <1>2 DEF LateWrite, KbTypeOK
<1>3. CASE KbShutdown
  <2>1. job' \in [KbRequests -> JobType]
    <3>1. \A q \in KbRequests : [job[q] EXCEPT !.cancelled = TRUE] \in JobType /\ job[q] \in JobType
      BY <1>0 DEF KbTypeOK, JobType
    <3> QED
      BY <1>3, <3>1 DEF KbShutdown
  <2> QED
    BY <1>0, <1>3, <2>1 DEF KbShutdown, KbTypeOK
<1>4. CASE KbRestart
  <2>1. job' \in [KbRequests -> JobType]
    <3>1. \A q \in KbRequests : [job[q] EXCEPT !.pc = "done"] \in JobType /\ job[q] \in JobType
      BY <1>0 DEF KbTypeOK, JobType
    <3> QED
      BY <1>4, <3>1 DEF KbRestart
  <2>2. kbCall' \in [KbRequests -> KbCallType]
    <3>1. \A q \in KbRequests : [kbCall[q] EXCEPT !.pc = "done"] \in KbCallType /\ kbCall[q] \in KbCallType
      BY <1>0 DEF KbTypeOK, KbCallType
    <3> QED
      BY <1>4, <3>1 DEF KbRestart
  <2>3. Recovered \in BaseType
    BY <1>0, NoKbBase DEF Recovered, BaseType, NoBase
  <2>4. /\ base' \in BaseType /\ chunks' \in Entries /\ index' \in Entries \cup {NoIndex}
        /\ uploads' \in SUBSET KbIds
    BY <1>0, <1>4, <2>3 DEF KbRestart, KbTypeOK
  <2>5. crashes' \in 0..KbCrashes
    BY <1>0, <1>4 DEF KbRestart, KbTypeOK
  <2>6. jobOf' = NoKbJob /\ late' = NoIndex /\ cache' = NoIndex /\ stopping' \in BOOLEAN /\ torn' \in BOOLEAN
    BY <1>0, <1>4 DEF KbRestart, KbTypeOK
  <2> QED
    BY <2>1, <2>2, <2>4, <2>5, <2>6 DEF KbTypeOK
<1> QED
  BY <1>1, <1>2, <1>3, <1>4, JobStepTyped, CallStepTyped DEF KbNext

LEMMA IdsKept ==
  ASSUME KbInv, Inserted \subseteq Inserted', chunks' \in {chunks, NoChunks}
  PROVE  ChunkIdsOK'
<1>1. Inserted' \subseteq KbRequests
  BY DEF Inserted
<1>2. Cardinality(Inserted) <= Cardinality(Inserted') /\ Cardinality(Inserted) \in Nat /\ Cardinality(Inserted') \in Nat
  <2> HIDE DEF Inserted
  <2>1. IsFiniteSet(Inserted')
    BY <1>1, SubsetCard, KbAssumption
  <2> QED
    BY <2>1, SubsetCard
<1>3. /\ DOMAIN chunks \subseteq 1..(1 + Cardinality(Inserted))
      /\ DOMAIN chunks # {} => \E m \in DOMAIN chunks : \A n \in DOMAIN chunks : n <= m
  BY DEF KbInv, ChunkIdsOK
<1>4. CASE chunks' = chunks
  <2>1. DOMAIN chunks' \subseteq 1..(1 + Cardinality(Inserted'))
    BY <1>2, <1>3, <1>4
  <2> QED
    BY <1>3, <1>4, <2>1 DEF ChunkIdsOK
<1>5. CASE chunks' = NoChunks
  <2>1. DOMAIN chunks' = {}
    BY <1>5, NoRows
  <2> QED
    BY <2>1 DEF ChunkIdsOK
<1> QED
  BY <1>4, <1>5

LEMMA IdsGrow ==
  ASSUME KbInv, NEW j \in KbRequests \ Inserted, Inserted' = Inserted \cup {j},
         DOMAIN chunks' \subseteq DOMAIN chunks \cup {FreshId}, FreshId \in DOMAIN chunks'
  PROVE  /\ ChunkIdsOK' /\ NextRow(chunks) \in Nat /\ NextRow(chunks') \in Nat
         /\ NextRow(chunks) <= NextRow(chunks')
         /\ FreshId < NextRow(chunks') /\ FreshId = NextRow(chunks)
<1>1. /\ ChunkIdsOK /\ FreshId = NextRow(chunks) /\ FreshId \in Nat \ {0} /\ \A n \in DOMAIN chunks : n < FreshId
      /\ Cardinality(Inserted) \in Nat /\ FreshId <= 2 + Cardinality(Inserted)
  BY FreshIdFits DEF KbInv
<1>2. Cardinality(Inserted') = 1 + Cardinality(Inserted)
  <2>1. Cardinality(Inserted \cup {j}) = Cardinality(Inserted) + 1
    BY <1>1, FreshIdBound
  <2> QED
    BY <1>1, <2>1
<1>3. DOMAIN chunks \subseteq 1..(1 + Cardinality(Inserted))
  BY <1>1 DEF ChunkIdsOK
<1> DEFINE n == 1 + Cardinality(Inserted')
<1>4. n = 2 + Cardinality(Inserted) /\ n \in Nat
  BY <1>1, <1>2
<1> HIDE DEF n, FreshId, Inserted
<1>5. DOMAIN chunks' \subseteq 1..n
  BY <1>1, <1>3, <1>4
<1>6. \A k \in DOMAIN chunks' : k <= FreshId
  BY <1>1, <1>3
<1>7. ChunkIdsOK'
  BY <1>5, <1>6 DEF ChunkIdsOK, n
<1>8. NextRow(chunks') \in Nat \ {0} /\ \A k \in DOMAIN chunks' : k < NextRow(chunks')
  BY <1>4, <1>5, <1>6, NextRowFits
<1> QED
  BY <1>1, <1>7, <1>8

SameJob(a, b) ==
  a.pc = b.pc /\ a.kind = b.kind /\ a.entry = b.entry /\ a.index = b.index /\ a.kept = b.kept

(* Requests that only look, and whatever else spares the base, its files   *)
(* and the work of the jobs.                                               *)
Looks(r) ==
  LET c == kbCall[r]
      d == kbCall'[r]
  IN \/ d.pc = c.pc /\ (c.pc \in {"loaded", "searching"} => d.view = c.view)
     \/ /\ c.pc # "done" /\ d.pc \in {"staged", "classified", "waiting", "loading", "loaded", "searching", "done"}
        /\ c.pc = "queued" => d.pc = "done"
        /\ d.pc \in {"staged", "classified"} => c.pc = "staged" \/ (base.there /\ base.status = "ready")
        /\ d.pc \in {"loaded", "searching"} /\ Living => Told(d.view, chunks)

LEMMA LookKeeps ==
  ASSUME KbInv, KbTypeOK', UNCHANGED <<base, chunks, index, uploads, late, torn>>,
         \A q \in KbRequests : SameJob(job'[q], job[q]),
         Living => Told(cache', chunks), \A r \in KbRequests : Looks(r)
  PROVE  KbInv'
<1>1. \A q \in KbRequests :
        /\ job'[q].pc = job[q].pc /\ job'[q].kind = job[q].kind /\ job'[q].entry = job[q].entry
        /\ job'[q].index = job[q].index /\ job'[q].kept = job[q].kept
  BY DEF SameJob
<1>2. \A q \in KbRequests : IndexAt(q)' = IndexAt(q) /\ AddAt(q)' = AddAt(q) /\ AtWork(q)' = AtWork(q)
  BY <1>1 DEF IndexAt, AddAt, AtWork
<1>3. Inserted' = Inserted
  BY <1>1 DEF Inserted
<1>4. ChunkIdsOK'
  BY <1>3, IdsKept
<1>5. BaseRowOK' /\ LateOK'
  BY <1>1 DEF KbInv, BaseRowOK, LateOK
<1>6. IndexesTold'
  <2> SUFFICES ASSUME Living PROVE IndexesTold'
    BY DEF IndexesTold, Living
  <2>1. ASSUME NEW r \in KbRequests, kbCall'[r].pc \in {"loaded", "searching"} PROVE Told(kbCall'[r].view, chunks)
    <3>1. Looks(r) /\ (kbCall[r].pc \in {"loaded", "searching"} => Told(kbCall[r].view, chunks))
      BY DEF KbInv, IndexesTold
    <3> QED
      BY <2>1, <3>1 DEF Looks
  <2> QED
    BY <1>1, <2>1 DEF KbInv, IndexesTold
<1>7. ASSUME NEW r \in KbRequests PROVE KbCallOK(r)'
  <2>1. KbCallOK(r) /\ Looks(r)
    BY DEF KbInv
  <2>2. \A q \in KbRequests : kbCall'[q].pc = "queued" => kbCall[q].pc = "queued"
    BY DEF Looks
  <2>3. kbCall[r].pc = "queued" =>
          \A q \in KbRequests \ {r} : kbCall'[q].pc \notin Entering \cup {"queued"}
    <3>1. SUFFICES ASSUME kbCall[r].pc = "queued", NEW q \in KbRequests \ {r}
                   PROVE  kbCall'[q].pc \notin Entering \cup {"queued"}
      OBVIOUS
    <3>2. kbCall[q].pc \notin Entering \cup {"queued"} /\ (base.there => base.status = "queued")
      BY <2>1, <3>1 DEF KbCallOK
    <3>3. Looks(q)
      OBVIOUS
    <3> QED
      BY <3>2, <3>3 DEF Looks, Entering
  <2>4. kbCall'[r].pc \in Entering => kbCall[r].pc \in Entering \/ (base.there /\ base.status = "ready")
    BY <2>1 DEF Looks, Entering
  <2>5. kbCall'[r].pc # "done" => kbCall[r].pc # "done" /\ (kbCall[r].pc = "queued" => kbCall'[r].pc = "queued")
    BY <2>1 DEF Looks
  <2>6. kbCall'[r].pc = "erased" => kbCall[r].pc = "erased"
    BY <2>1 DEF Looks
  <2> QED
    BY <1>1, <2>1, <2>2, <2>3, <2>4, <2>5, <2>6 DEF KbCallOK
<1>8. ASSUME NEW j \in KbRequests PROVE IndexJobOK(j)'
  <2>1. IndexJobOK(j)
    BY DEF KbInv
  <2>2. SUFFICES ASSUME IndexAt(j) PROVE IndexJobOK(j)'
    BY <1>2 DEF IndexJobOK
  <2>3. ASSUME NEW q \in KbRequests PROVE kbCall'[q].pc \notin Entering \cup {"queued"}
    <3>1. kbCall[q].pc \notin Entering \cup {"queued"} /\ (base.there => base.status \in {"queued", "indexing"})
      BY <2>1, <2>2 DEF IndexJobOK
    <3>2. Looks(q)
      OBVIOUS
    <3> QED
      BY <3>1, <3>2 DEF Looks, Entering
  <2> QED
    BY <1>1, <2>1, <2>2, <2>3 DEF IndexJobOK
<1>9. ASSUME NEW j \in KbRequests PROVE AddJobOK(j)'
  <2>1. AddJobOK(j)
    BY DEF KbInv
  <2> QED
    BY <1>1, <1>2, <2>1 DEF AddJobOK
<1>10. ASSUME NEW r \in KbRequests PROVE ClaimOK(r)'
  <2>1. ASSUME NEW q \in KbRequests, Claimed(q)' PROVE Claimed(q)
    <3>1. Looks(q)
      OBVIOUS
    <3> QED
      BY <1>1, <2>1, <3>1 DEF Claimed, Looks
  <2>2. ClaimOK(r)
    BY DEF KbInv
  <2> QED
    BY <1>1, <2>1, <2>2 DEF ClaimOK
<1>11. FilesOK'
  <2>1. \A q \in KbRequests : Text(q)' = Text(q) /\ (kbCall'[q].pc = "queued" => kbCall[q].pc = "queued")
    BY <1>1 DEF Text, Looks
  <2> QED
    BY <1>1, <1>2, <2>1 DEF KbInv, FilesOK
<1>12. ReadyIsWhole'
  BY <1>1 DEF KbInv, ReadyIsWhole
<1> QED
  BY <1>4, <1>5, <1>6, <1>7, <1>8, <1>9, <1>10, <1>11, <1>12 DEF KbInv

(* A step of one job: its requests, texts and kind stay. *)
JobOnly(j) ==
  /\ UNCHANGED kbCall /\ base'.there = base.there
  /\ \A q \in KbRequests \ {j} : job'[q] = job[q]
  /\ job[j].pc \notin {"absent", "done"} /\ job'[j].pc # "absent"
  /\ job'[j].kind = job[j].kind /\ job'[j].entry = job[j].entry
  /\ j \in Inserted => j \in Inserted'

LEMMA JobOnlySpares ==
  ASSUME KbInv, NEW j \in KbRequests, JobOnly(j), base'.status = base.status \/ IndexAt(j)
  PROVE  /\ Inserted \subseteq Inserted'
         /\ \A r \in KbRequests : KbCallOK(r)' /\ kbCall[r].pc # "queued" /\ Text(r)' = Text(r)
<1>1. Inserted \subseteq Inserted'
  <2>1. ASSUME NEW q \in Inserted, q # j PROVE q \in Inserted'
    BY <2>1 DEF JobOnly, Inserted
  <2> QED
    BY <2>1 DEF JobOnly
<1>2. \A r \in KbRequests : kbCall[r].pc # "queued"
  BY DEF KbInv, KbCallOK, JobOnly
<1>3. IndexAt(j) => \A r \in KbRequests : kbCall[r].pc \notin Entering
  BY DEF KbInv, IndexJobOK
<1>4. \A q \in KbRequests : job'[q].entry = job[q].entry
  BY DEF JobOnly
<1>5. ASSUME NEW r \in KbRequests PROVE KbCallOK(r)'
  <2>1. KbCallOK(r) /\ kbCall'[r] = kbCall[r]
    BY DEF KbInv, JobOnly
  <2>2. kbCall[r].pc # "done" => job'[r].pc = "absent"
    BY <2>1 DEF KbCallOK, JobOnly
  <2>3. kbCall[r].pc \in Entering /\ base'.there => base'.status = "ready"
    BY <1>3, <2>1 DEF KbCallOK, JobOnly
  <2>4. kbCall[r].pc = "erased" => ~base'.there
    BY <2>1 DEF KbCallOK, JobOnly
  <2> QED
    BY <1>2, <1>4, <2>1, <2>2, <2>3, <2>4 DEF KbCallOK
<1> QED
  BY <1>1, <1>2, <1>4, <1>5 DEF Text

(* Rows may go, and a new one comes after all of them. *)
RowsFollow ==
  /\ NextRow(chunks) \in Nat /\ NextRow(chunks') \in Nat /\ NextRow(chunks) <= NextRow(chunks')
  /\ \A id \in DOMAIN chunks' : id = NextRow(chunks) \/ (id \in DOMAIN chunks /\ chunks'[id] = chunks[id])

LEMMA SameRowsFollow == ASSUME KbInv, chunks' = chunks PROVE RowsFollow
<1>1. NextRow(chunks) \in Nat
  BY FreshIdFits DEF KbInv
<1> QED
  BY <1>1 DEF RowsFollow

LEMMA StaysTold ==
  ASSUME RowsFollow, NEW f \in Entries \cup {NoIndex}, Told(f, chunks)
  PROVE  Told(f, chunks')
<1>1. DOMAIN f \subseteq Nat
  <2>1. CASE f = NoIndex
    BY <2>1 DEF NoIndex
  <2>2. CASE f \in Entries
    BY <2>2, TableFits DEF KbIds
  <2> QED
    BY <2>1, <2>2
<1> QED
  BY <1>1, ToldKept DEF RowsFollow

(* A table tells the truth of itself. *)
LEMMA TellsItself == ASSUME KbInv PROVE Told(chunks, chunks)
<1>1. \A n \in DOMAIN chunks : n < NextRow(chunks)
  BY FreshIdFits DEF KbInv
<1> QED
  BY <1>1 DEF Told

(* A step of a job that makes the index of a base: it is the only job. *)
LEMMA IndexStepKeeps ==
  ASSUME KbInv, KbTypeOK', NEW j \in KbRequests, IndexAt(j), JobOnly(j), job'[j].pc # "committed",
         UNCHANGED <<uploads, cache>>, ChunkIdsOK', BaseRowOK', LateOK', ReadyIsWhole', IndexJobOK(j)',
         Living' => Living /\ RowsFollow /\ Told(index', chunks') /\ Told(late', chunks'),
         \A id \in DOMAIN chunks' : base.there => chunks'[id].text \in uploads
  PROVE  KbInv'
<1>0. /\ \A q \in KbRequests \ {j} : job[q].pc = "absent" /\ job'[q] = job[q]
      /\ \A q \in KbRequests : kbCall[q].pc \notin Entering
      /\ UNCHANGED kbCall /\ base'.there = base.there
      /\ job[j].kind = "index" /\ job'[j].kind = "index"
  BY DEF KbInv, IndexJobOK, JobOnly, IndexAt
<1>1. \A r \in KbRequests : KbCallOK(r)' /\ kbCall[r].pc # "queued" /\ Text(r)' = Text(r)
  BY JobOnlySpares
<1>2. \A q \in KbRequests \ {j} : ~IndexAt(q)' /\ ~AddAt(q)' /\ ~Claimed(q)'
  BY <1>0 DEF IndexAt, AddAt, AtWork, Claimed, Entering
<1>3. ~AddAt(j)' /\ ~Claimed(j)'
  BY <1>0 DEF AddAt, Claimed, Entering
<1>4. \A q \in KbRequests : IndexJobOK(q)' /\ AddJobOK(q)' /\ ClaimOK(q)'
  BY <1>0, <1>2, <1>3 DEF IndexJobOK, AddJobOK, ClaimOK
<1>5. FilesOK'
  BY <1>0, <1>1, <1>2, <1>3 DEF KbInv, FilesOK
<1>6. IndexesTold'
  <2> SUFFICES ASSUME Living' PROVE IndexesTold'
    BY DEF IndexesTold
  <2>1. /\ Told(cache, chunks)
        /\ \A r \in KbRequests : kbCall[r].pc \in {"loaded", "searching"} => Told(kbCall[r].view, chunks)
    BY DEF KbInv, IndexesTold
  <2>2. cache \in Entries \cup {NoIndex} /\ \A r \in KbRequests : kbCall[r].view \in Entries \cup {NoIndex}
    BY KbCallFits DEF KbInv, KbTypeOK
  <2>3. /\ Told(cache, chunks')
        /\ \A r \in KbRequests : kbCall[r].pc \in {"loaded", "searching"} => Told(kbCall[r].view, chunks')
    BY <2>1, <2>2, StaysTold
  <2>4. \A q \in KbRequests : job'[q].pc # "committed"
    BY <1>0
  <2> QED
    BY <1>0, <2>3, <2>4 DEF IndexesTold
<1> QED
  BY <1>1, <1>4, <1>5, <1>6 DEF KbInv

(* What holds of the only job. *)
LEMMA IndexAlone ==
  ASSUME KbInv, NEW j \in KbRequests, IndexAt(j)
  PROVE  /\ \A q \in KbRequests \ {j} : job[q].pc = "absent"
         /\ job[j].entry \in KbEntry /\ (job[j].pc # "failing" => late = NoIndex)
         /\ job[j].pc \in {"waiting", "started", "stored", "writing", "written", "failing"}
         /\ base.there =>
              /\ base.status = IF job[j].pc = "waiting" THEN "queued" ELSE "indexing"
              /\ Text(j) \in uploads
              /\ job[j].pc = "started" => chunks = NoChunks
              /\ job[j].pc \in {"stored", "writing", "written"} => chunks = job[j].index
              /\ job[j].pc = "written" => index = job[j].index
<1>1. IndexJobOK(j)
  BY DEF KbInv
<1>2. base.there => Text(j) \in uploads
  BY DEF KbInv, FilesOK
<1> QED
  BY <1>1, <1>2 DEF IndexJobOK

(* A job that moves on and nothing else does. *)
LEMMA JobOnlyAt ==
  ASSUME KbInv, NEW j \in KbRequests, job[j].pc \notin {"absent", "done"},
         NEW pc \in JobPcs \ {"absent"}, JobGoes(j, pc), UNCHANGED kbCall, base'.there = base.there,
         j \in Inserted => pc \notin {"absent", "waiting", "started", "embedded", "moved"}
  PROVE  JobOnly(j) /\ job'[j] = [job[j] EXCEPT !.pc = pc] /\ job'[j].pc = pc /\ job'[j].index = job[j].index
         /\ job'[j].kept = job[j].kept
<1>0. KbTypeOK /\ job[j] \in JobType
  BY JobFits DEF KbInv
<1>1. /\ job' \in [KbRequests -> JobType] /\ job'[j] = [job[j] EXCEPT !.pc = pc]
      /\ \A q \in KbRequests \ {j} : job'[q] = job[q]
  BY <1>0, JobAt
<1>2. job'[j].pc = pc /\ job'[j].kind = job[j].kind /\ job'[j].entry = job[j].entry
      /\ job'[j].index = job[j].index /\ job'[j].kept = job[j].kept
  BY <1>0, <1>1 DEF JobType
<1> QED
  BY <1>1, <1>2 DEF JobOnly, Inserted

(* It gives up, or ends, or goes on without a change of the base. *)
LEMMA IndexQuiet ==
  ASSUME KbInv, KbTypeOK', NEW j \in KbRequests, IndexAt(j),
         NEW pc \in {"writing", "failing", "done"}, JobGoes(j, pc),
         pc = "writing" => job[j].pc = "stored",
         pc = "failing" => job[j].pc \in {"started", "stored", "writing", "written"},
         UNCHANGED <<base, chunks, index, uploads, cache, kbCall>>,
         late' = late \/ (pc = "failing" /\ job[j].pc = "writing" /\ late' = job[j].index)
  PROVE  KbInv'
<1>1. JobOnly(j) /\ job'[j].pc = pc /\ job'[j].index = job[j].index
  <2>1. job[j].pc \notin {"absent", "done"} /\ pc \in JobPcs \ {"absent"}
    BY DEF IndexAt, AtWork, JobPcs
  <2> QED
    BY <2>1, JobOnlyAt
<1>2. Inserted \subseteq Inserted' /\ ChunkIdsOK' /\ BaseRowOK'
  <2>1. Inserted \subseteq Inserted'
    BY <1>1, JobOnlySpares
  <2> QED
    BY <2>1, IdsKept DEF KbInv, BaseRowOK
<1>3. ReadyIsWhole'
  BY IndexAlone DEF ReadyIsWhole
<1>4. LateOK'
  <2>1. LateOK /\ job'[j].pc # "absent"
    BY <1>1 DEF KbInv, JobOnly
  <2>2. late' # late => (base.there => base.status = "indexing")
    BY IndexAlone
  <2> QED
    BY <2>1, <2>2 DEF LateOK
<1>5. IndexJobOK(j)'
  <2>1. \A q \in KbRequests : kbCall[q].pc \notin Entering \cup {"queued"}
    BY DEF KbInv, IndexJobOK
  <2>2. \A q \in KbRequests \ {j} : job'[q].pc = "absent"
    BY <1>1, IndexAlone DEF JobOnly
  <2>3. pc # "failing" => late' = late
    OBVIOUS
  <2> QED
    BY <1>1, <2>1, <2>2, <2>3, IndexAlone DEF IndexJobOK, JobOnly, IndexAt, AtWork
<1>6. Living' => Living /\ RowsFollow /\ Told(index', chunks') /\ Told(late', chunks')
  <2>1. Living => Told(index, chunks) /\ Told(late, chunks)
    BY DEF KbInv, IndexesTold
  <2>2. Living /\ late' # late => Told(late', chunks)
    BY IndexAlone, TellsItself DEF Living
  <2> QED
    BY <2>1, <2>2, SameRowsFollow DEF Living
<1>7. \A id \in DOMAIN chunks' : base.there => chunks'[id].text \in uploads
  BY DEF KbInv, FilesOK
<1> QED
  BY <1>1, <1>2, <1>3, <1>4, <1>5, <1>6, <1>7, IndexStepKeeps

LEMMA IndexStartsKeeps == ASSUME KbInv, KbTypeOK', NEW j \in KbRequests, IndexStarts(j) PROVE KbInv'
<1>0. /\ IndexAt(j) /\ job[j].pc = "waiting" /\ UNCHANGED <<chunks, index, uploads, cache, kbCall, late, torn>>
      /\ base \in BaseType
  BY DEF IndexStarts, IndexAt, AtWork, KbInv, KbTypeOK
<1>1. CASE ~base.there
  BY <1>0, <1>1, IndexQuiet DEF IndexStarts
<1>2. CASE base.there
  <2>1. base' = [base EXCEPT !.status = "indexing"] /\ JobGoes(j, "started")
    BY <1>2 DEF IndexStarts
  <2>2. base'.there /\ base'.status = "indexing" /\ base'.there = base.there
    BY <1>0, <1>2, <2>1 DEF BaseType
  <2>3. /\ late = NoIndex /\ base.status = "queued" /\ chunks = NoChunks
        /\ \A q \in KbRequests \ {j} : job[q].pc = "absent"
        /\ job[j].entry \in KbEntry
        /\ \A q \in KbRequests : kbCall[q].pc \notin Entering \cup {"queued"}
    BY <1>0, <1>2, IndexAlone DEF KbInv, BaseRowOK, IndexJobOK
  <2>4. JobOnly(j) /\ job'[j].pc = "started"
    <3>1. "started" \in JobPcs \ {"absent"} /\ j \notin Inserted
      BY <1>0 DEF JobPcs, Inserted
    <3> QED
      BY <1>0, <2>1, <2>2, <3>1, JobOnlyAt
  <2>5. ChunkIdsOK'
    <3>1. Inserted \subseteq Inserted'
      BY <1>0, <2>4, JobOnlySpares
    <3> QED
      BY <1>0, <3>1, IdsKept
  <2>6. BaseRowOK' /\ LateOK' /\ ReadyIsWhole'
    BY <1>0, <2>2, <2>3 DEF BaseRowOK, LateOK, ReadyIsWhole
  <2>7. IndexJobOK(j)'
    BY <1>0, <2>2, <2>3, <2>4 DEF IndexJobOK, JobOnly
  <2>8. Living' => Living /\ RowsFollow /\ Told(index', chunks') /\ Told(late', chunks')
    BY <1>0, <1>2, <2>3, SameRowsFollow DEF KbInv, IndexesTold, Living
  <2>9. \A id \in DOMAIN chunks' : base.there => chunks'[id].text \in uploads
    BY <1>0 DEF KbInv, FilesOK
  <2> QED
    BY <1>0, <2>4, <2>5, <2>6, <2>7, <2>8, <2>9, IndexStepKeeps
<1> QED
  BY <1>1, <1>2

LEMMA IndexStoresKeeps == ASSUME KbInv, KbTypeOK', NEW j \in KbRequests, IndexStores(j) PROVE KbInv'
<1>0. /\ job[j].pc = "started" /\ UNCHANGED <<base, index, uploads, cache, kbCall, late, torn>>
      /\ KbTypeOK /\ job[j] \in JobType
  BY JobFits DEF IndexStores, KbInv
<1>1. IndexAt(j) /\ job[j].entry \in KbEntry
  <2>1. job[j].kind \in {"index", "add"}
    BY <1>0, JobFits
  <2> QED
    BY <1>0, <2>1, JobKinds
<1>2. CASE ~base.there
  BY <1>0, <1>1, <1>2, IndexQuiet DEF IndexStores
<1>3. CASE base.there
  <2> DEFINE row == With(NoChunks, FreshId, job[j].entry)
             one == [job[j] EXCEPT !.pc = "stored", !.index = row]
  <2>1. /\ late = NoIndex /\ base.status = "indexing" /\ chunks = NoChunks /\ Text(j) \in uploads
        /\ \A q \in KbRequests \ {j} : job[q].pc = "absent"
        /\ \A q \in KbRequests : kbCall[q].pc \notin Entering \cup {"queued"}
    BY <1>0, <1>1, <1>3, IndexAlone DEF KbInv, IndexJobOK
  <2>2. chunks' = row /\ job' = [job EXCEPT ![j].pc = "stored", ![j].index = row]
    BY <1>3, <2>1 DEF IndexStores
  <2>3. DOMAIN row = {FreshId} /\ row[FreshId] = job[j].entry
    BY DEF With, NoChunks
  <2>4. j \in KbRequests \ Inserted
    BY <1>0 DEF Inserted
  <2>5. one.pc = "stored" /\ one.index = row /\ one.kind = job[j].kind /\ one.entry = job[j].entry
    <3> HIDE DEF row
    <3> QED
      BY <1>0 DEF JobType
  <2>6. job' = [job EXCEPT ![j] = one] /\ job \in [KbRequests -> JobType]
    BY <1>0, <2>2 DEF KbTypeOK
  <2> HIDE DEF row, one
  <2>7. job'[j] = one /\ \A q \in KbRequests \ {j} : job'[q] = job[q]
    BY <2>6
  <2>8. JobOnly(j) /\ job'[j].pc = "stored" /\ job'[j].index = row
    BY <1>0, <2>4, <2>5, <2>7 DEF JobOnly
  <2>9. Inserted' = Inserted \cup {j}
    BY <2>7, <2>8 DEF Inserted
  <2>10. ChunkIdsOK' /\ RowsFollow
    <3>1. DOMAIN chunks' = {FreshId}
      BY <2>2, <2>3
    <3>2. /\ ChunkIdsOK' /\ NextRow(chunks) \in Nat /\ NextRow(chunks') \in Nat
          /\ NextRow(chunks) <= NextRow(chunks') /\ FreshId = NextRow(chunks)
      BY <2>4, <2>9, <3>1, IdsGrow
    <3> QED
      BY <3>1, <3>2 DEF RowsFollow
  <2>11. BaseRowOK' /\ LateOK' /\ ReadyIsWhole'
    BY <1>0, <1>3, <2>1 DEF BaseRowOK, LateOK, ReadyIsWhole
  <2>12. IndexJobOK(j)'
    BY <1>0, <1>1, <1>3, <2>1, <2>2, <2>8 DEF IndexJobOK, JobOnly
  <2>13. Living' => Living /\ RowsFollow /\ Told(index', chunks') /\ Told(late', chunks')
    <3>1. Living => Told(index, chunks) /\ Told(late, chunks)
      BY DEF KbInv, IndexesTold
    <3>2. index \in Entries \cup {NoIndex} /\ late \in Entries \cup {NoIndex}
      BY <1>0 DEF KbTypeOK
    <3>3. Living => Told(index, chunks') /\ Told(late, chunks')
      BY <2>10, <3>1, <3>2, StaysTold
    <3> QED
      BY <1>0, <2>10, <3>3 DEF Living
  <2>14. \A id \in DOMAIN chunks' : base.there => chunks'[id].text \in uploads
    BY <2>1, <2>2, <2>3 DEF Text
  <2> QED
    BY <1>0, <1>1, <2>8, <2>10, <2>11, <2>12, <2>13, <2>14, IndexStepKeeps
<1> QED
  BY <1>2, <1>3

LEMMA IndexWrittenKeeps == ASSUME KbInv, KbTypeOK', NEW j \in KbRequests, IndexWritten(j) PROVE KbInv'
<1>0. /\ job[j].pc = "writing" /\ UNCHANGED <<base, chunks, uploads, cache, kbCall, late, torn>>
      /\ index' = job[j].index /\ JobGoes(j, "written")
  BY DEF IndexWritten
<1>1. IndexAt(j) /\ job[j].entry \in KbEntry
  <2>1. job[j].kind \in {"index", "add"}
    BY JobFits DEF KbInv
  <2> QED
    BY <1>0, <2>1, JobKinds
<1>2. /\ late = NoIndex /\ (base.there => base.status = "indexing" /\ chunks = job[j].index)
      /\ \A q \in KbRequests \ {j} : job[q].pc = "absent"
      /\ \A q \in KbRequests : kbCall[q].pc \notin Entering \cup {"queued"}
  BY <1>0, <1>1, IndexAlone DEF KbInv, IndexJobOK
<1>3. JobOnly(j) /\ job'[j].pc = "written" /\ job'[j].index = job[j].index
  <2>1. "written" \in JobPcs \ {"absent"}
    BY DEF JobPcs
  <2> QED
    BY <1>0, <2>1, JobOnlyAt
<1>4. ChunkIdsOK'
  <2>1. Inserted \subseteq Inserted'
    BY <1>0, <1>3, JobOnlySpares
  <2> QED
    BY <1>0, <2>1, IdsKept
<1>5. BaseRowOK' /\ LateOK' /\ ReadyIsWhole'
  BY <1>0, <1>2 DEF KbInv, BaseRowOK, LateOK, ReadyIsWhole
<1>6. IndexJobOK(j)'
  BY <1>0, <1>1, <1>2, <1>3 DEF IndexJobOK, JobOnly
<1>7. Living' => Living /\ RowsFollow /\ Told(index', chunks') /\ Told(late', chunks')
  BY <1>0, <1>2, SameRowsFollow, TellsItself DEF KbInv, IndexesTold, Living
<1>8. \A id \in DOMAIN chunks' : base.there => chunks'[id].text \in uploads
  BY <1>0 DEF KbInv, FilesOK
<1> QED
  BY <1>0, <1>1, <1>3, <1>4, <1>5, <1>6, <1>7, <1>8, IndexStepKeeps

(* It is ready, or has failed: the job ends with the outcome. *)
LEMMA IndexEnds ==
  ASSUME KbInv, KbTypeOK', NEW j \in KbRequests, IndexAt(j), JobGoes(j, "done"), base.there,
         \/ /\ job[j].pc = "written" /\ base'.status = "ready" /\ UNCHANGED <<chunks, index>>
         \/ base'.status = "failed" /\ chunks' = NoChunks,
         base'.there = base.there, UNCHANGED <<uploads, cache, kbCall, late, torn>>
  PROVE  KbInv'
<1>1. JobOnly(j) /\ job'[j].pc = "done"
  <2>1. "done" \in JobPcs \ {"absent"} /\ job[j].pc \notin {"absent", "done"}
    BY DEF JobPcs, IndexAt, AtWork
  <2> QED
    BY <2>1, JobOnlyAt
<1>2. ChunkIdsOK'
  <2>1. Inserted \subseteq Inserted'
    BY <1>1, JobOnlySpares
  <2> QED
    BY <2>1, IdsKept
<1>3. job[j].pc = "written" => late = NoIndex /\ index = chunks
  BY IndexAlone
<1>4. BaseRowOK' /\ LateOK' /\ ReadyIsWhole' /\ IndexJobOK(j)'
  <2>1. BaseRowOK'
    BY DEF BaseRowOK
  <2>2. LateOK'
    BY <1>1, <1>3 DEF LateOK
  <2>3. ReadyIsWhole'
    BY <1>3 DEF ReadyIsWhole
  <2>4. IndexJobOK(j)'
    BY <1>1 DEF IndexJobOK, IndexAt, AtWork
  <2> QED
    BY <2>1, <2>2, <2>3, <2>4
<1>5. Living' => Living /\ RowsFollow /\ Told(index', chunks') /\ Told(late', chunks')
  <2>1. SUFFICES ASSUME base'.status = "ready" PROVE Living /\ RowsFollow /\ Told(index', chunks') /\ Told(late', chunks')
    BY DEF Living
  <2>2. Living
    BY IndexAlone DEF Living
  <2> QED
    BY <2>1, <2>2, SameRowsFollow DEF KbInv, IndexesTold
<1>6. \A id \in DOMAIN chunks' : base.there => chunks'[id].text \in uploads
  BY NoRows DEF KbInv, FilesOK
<1> QED
  BY <1>1, <1>2, <1>4, <1>5, <1>6, IndexStepKeeps

LEMMA IndexJobKeeps ==
  ASSUME KbInv, KbTypeOK', NEW j \in KbRequests,
         \/ IndexStarts(j) \/ IndexStores(j) \/ IndexEmbeds(j) \/ IndexWritten(j) \/ IndexReady(j)
         \/ IndexFails(j) \/ IndexRecordsFailure(j)
  PROVE  KbInv'
<1>0. base \in BaseType /\ job[j].kind \in {"index", "add"}
  BY JobFits DEF KbInv, KbTypeOK
<1>1. CASE IndexEmbeds(j)
  <2>1. IndexAt(j)
    BY <1>0, <1>1, JobKinds DEF IndexEmbeds
  <2> QED
    BY <1>1, <2>1, IndexQuiet DEF IndexEmbeds
<1>2. CASE IndexFails(j)
  <2>1. IndexAt(j)
    BY <1>2 DEF IndexFails, IndexAt, AtWork
  <2> QED
    BY <1>2, <2>1, IndexQuiet DEF IndexFails
<1>3. CASE IndexReady(j)
  <2>1. IndexAt(j)
    BY <1>0, <1>3, JobKinds DEF IndexReady
  <2>2. CASE ~base.there
    BY <1>3, <2>1, <2>2, IndexQuiet DEF IndexReady
  <2>3. CASE base.there
    <3>1. base' = [base EXCEPT !.status = "ready", !.adding = FALSE, !.count = Cardinality(DOMAIN job[j].index)]
      BY <1>3, <2>3 DEF IndexReady
    <3>2. base'.status = "ready" /\ base'.there = base.there
      BY <1>0, <3>1 DEF BaseType
    <3> QED
      BY <1>3, <2>1, <2>3, <3>2, IndexEnds DEF IndexReady
  <2> QED
    BY <2>2, <2>3
<1>4. CASE IndexRecordsFailure(j)
  <2>1. IndexAt(j)
    BY <1>4 DEF IndexRecordsFailure, IndexAt, AtWork
  <2>2. CASE ~base.there
    BY <1>4, <2>1, <2>2, IndexQuiet DEF IndexRecordsFailure
  <2>3. CASE base.there
    <3>1. base' = [base EXCEPT !.status = "failed", !.adding = FALSE, !.count = 0]
      BY <1>4, <2>3 DEF IndexRecordsFailure
    <3>2. base'.status = "failed" /\ base'.there = base.there
      BY <1>0, <3>1 DEF BaseType
    <3> QED
      BY <1>4, <2>1, <2>3, <3>2, IndexEnds DEF IndexRecordsFailure
  <2> QED
    BY <2>2, <2>3
<1> QED
  BY <1>1, <1>2, <1>3, <1>4, IndexStartsKeeps, IndexStoresKeeps, IndexWrittenKeeps

LEMMA NothingTold == ASSUME KbInv PROVE Told(NoIndex, chunks)
<1>1. NextRow(chunks) \in Nat \ {0}
  BY FreshIdFits DEF KbInv
<1>2. 0 \notin DOMAIN chunks
  <2>1. DOMAIN chunks \subseteq KbIds
    BY TableFits DEF KbInv, KbTypeOK
  <2> QED
    BY <2>1 DEF KbIds
<1> QED
  BY <1>1, <1>2 DEF Told, NoIndex

(* What an addition shares the base with. *)
LEMMA AddBeside ==
  ASSUME KbInv, NEW j \in KbRequests, AddAt(j)
  PROVE  /\ job[j].entry \in KbEntry /\ Text(j) \in KbIds /\ Text(j) # 0
         /\ base.there => base.status = "ready"
         /\ job[j].pc \in {"waiting", "embedded", "moved", "committed", "promoted", "failing"}
         /\ \A q \in KbRequests : ~IndexAt(q)
         /\ \A q \in KbRequests \ {j} : Text(q) # Text(j)
<1>1. AddJobOK(j) /\ job[j].pc \notin {"absent", "done"}
  BY DEF KbInv, AddAt, AtWork
<1>2. job[j].entry \in KbEntry
  BY <1>1 DEF AddJobOK
<1>3. Text(j) \in KbIds /\ Text(j) # 0
  BY <1>2 DEF KbEntry, Text, KbIds
<1>4. \A q \in KbRequests : ~IndexAt(q)
  <2>1. ASSUME NEW q \in KbRequests, IndexAt(q) PROVE FALSE
    <3>1. q # j
      BY <2>1 DEF IndexAt, AddAt
    <3> QED
      BY <1>1, <2>1, <3>1, IndexAlone
  <2> QED
    BY <2>1
<1>5. \A q \in KbRequests \ {j} : Text(q) # Text(j)
  BY <1>3 DEF KbInv, FilesOK
<1> QED
  BY <1>1, <1>2, <1>3, <1>4, <1>5 DEF AddJobOK

(* A step of an addition, beside others. *)
LEMMA AddStepKeeps ==
  ASSUME KbInv, KbTypeOK', NEW j \in KbRequests, AddAt(j), JobOnly(j), UNCHANGED late,
         base'.status = base.status, ~base.there => base' = base /\ chunks' = chunks,
         ChunkIdsOK', ReadyIsWhole', AddJobOK(j)', \A r \in KbRequests : ClaimOK(r)',
         Living => /\ RowsFollow /\ Told(index', chunks') /\ Told(cache', chunks')
                   /\ job'[j].pc = "committed" => Told(job'[j].index, chunks'),
         \A id \in DOMAIN chunks' : (id \in DOMAIN chunks /\ chunks'[id] = chunks[id]) \/ chunks'[id].text = Text(j),
         uploads' \subseteq uploads \cup {Text(j)},
         base.there => /\ \A id \in DOMAIN chunks' : chunks'[id].text \in uploads'
                       /\ \A q \in KbRequests \ {j} : job[q].pc = "moved" /\ AddAt(q) => Text(q) \in uploads'
                       /\ job'[j].pc = "moved" => Text(j) \in uploads'
  PROVE  KbInv'
<1>0. /\ \A q \in KbRequests \ {j} : job'[q] = job[q] /\ (IndexAt(q)' <=> IndexAt(q)) /\ (AddAt(q)' <=> AddAt(q))
      /\ UNCHANGED kbCall /\ base'.there = base.there /\ (Living' <=> Living)
      /\ job[j].kind = "add" /\ job'[j].kind = "add" /\ job'[j].pc # "absent"
  BY DEF JobOnly, IndexAt, AddAt, AtWork, Living
<1>1. \A r \in KbRequests : KbCallOK(r)' /\ kbCall[r].pc # "queued" /\ Text(r)' = Text(r)
  BY JobOnlySpares
<1>2. /\ \A q \in KbRequests : ~IndexAt(q) /\ ~IndexAt(q)'
      /\ base.there => base.status = "ready"
  <2>1. ~IndexAt(j)'
    BY <1>0 DEF IndexAt
  <2> QED
    BY <1>0, <2>1, AddBeside
<1>3. BaseRowOK' /\ LateOK'
  <2>1. BaseRowOK'
    BY <1>0, <1>2 DEF KbInv, BaseRowOK
  <2>2. LateOK'
    BY <1>0 DEF KbInv, LateOK
  <2> QED
    BY <2>1, <2>2
<1>4. ASSUME NEW q \in KbRequests PROVE IndexJobOK(q)' /\ AddJobOK(q)'
  <2>1. IndexJobOK(q)'
    BY <1>2 DEF IndexJobOK
  <2>2. CASE q # j
    <3>1. AddJobOK(q) /\ Text(q) # Text(j)
      BY <2>2, AddBeside DEF KbInv
    <3> QED
      BY <1>0, <2>1, <2>2, <3>1 DEF AddJobOK, Text
  <2> QED
    BY <2>1, <2>2
<1>5. IndexesTold'
  <2> SUFFICES ASSUME Living PROVE IndexesTold'
    BY <1>0 DEF IndexesTold
  <2>1. /\ Told(late, chunks)
        /\ \A q \in KbRequests : job[q].pc = "committed" => Told(job[q].index, chunks)
        /\ \A r \in KbRequests : kbCall[r].pc \in {"loaded", "searching"} => Told(kbCall[r].view, chunks)
    BY DEF KbInv, IndexesTold
  <2>2. /\ late \in Entries \cup {NoIndex}
        /\ \A r \in KbRequests : kbCall[r].view \in Entries \cup {NoIndex} /\ job[r].index \in Entries \cup {NoIndex}
    BY KbCallFits, JobFits DEF KbInv, KbTypeOK
  <2>3. /\ Told(late, chunks')
        /\ \A q \in KbRequests : job[q].pc = "committed" => Told(job[q].index, chunks')
        /\ \A r \in KbRequests : kbCall[r].pc \in {"loaded", "searching"} => Told(kbCall[r].view, chunks')
    BY <2>1, <2>2, StaysTold
  <2>4. \A q \in KbRequests : job'[q].pc = "committed" => Told(job'[q].index, chunks')
    BY <1>0, <2>3
  <2> QED
    BY <1>0, <2>3, <2>4 DEF IndexesTold
<1>6. FilesOK'
  <2>1. uploads' \subseteq {1} \cup {Text(q)' : q \in KbRequests}
    <3>1. uploads \subseteq {1} \cup {Text(q) : q \in KbRequests}
      BY DEF KbInv, FilesOK
    <3> QED
      BY <1>1, <3>1
  <2>2. \A p, q \in KbRequests : p # q /\ Text(p)' = Text(q)' => Text(p)' = 0
    BY <1>1 DEF KbInv, FilesOK
  <2>3. base.there => \A r \in KbRequests : AddAt(r)' /\ job'[r].pc = "moved" => Text(r) \in uploads'
    BY <1>0
  <2> QED
    BY <1>0, <1>1, <1>2, <2>1, <2>2, <2>3 DEF FilesOK
<1> QED
  BY <1>1, <1>3, <1>4, <1>5, <1>6 DEF KbInv

(* Its steps that leave rows and indexes alone: it goes on, gives up or    *)
(* ends, and then lets go of its claim.                                    *)
LEMMA AddQuiet ==
  ASSUME KbInv, KbTypeOK', NEW j \in KbRequests, AddAt(j), JobOnly(j),
         UNCHANGED <<chunks, index, cache, late>>, job'[j].index = job[j].index,
         job'[j].pc \in {"embedded", "moved", "failing", "done"},
         job'[j].pc = "embedded" => job[j].pc = "waiting",
         job'[j].pc = "moved" => job[j].pc = "embedded",
         job'[j].pc = "failing" => job[j].pc \in {"waiting", "embedded", "moved"},
         torn => torn', job[j].pc = "committed" => torn',
         \/ base' = base
         \/ base.there /\ base' = [base EXCEPT !.adding = FALSE] /\ job[j].pc = "failing" /\ job'[j].pc = "done",
         uploads' \subseteq uploads \cup {Text(j)},
         base.there => /\ \A id \in DOMAIN chunks : chunks[id].text \in uploads'
                       /\ \A q \in KbRequests \ {j} : job[q].pc = "moved" /\ AddAt(q) => Text(q) \in uploads'
                       /\ job'[j].pc = "moved" => Text(j) \in uploads'
  PROVE  KbInv'
<1>0. /\ \A q \in KbRequests \ {j} : job'[q] = job[q] /\ (Claimed(q)' <=> Claimed(q))
      /\ UNCHANGED kbCall /\ base'.there = base.there
      /\ job[j].kind = "add" /\ job'[j].kind = "add" /\ job'[j].entry = job[j].entry /\ base \in BaseType
  BY DEF JobOnly, AddAt, KbInv, KbTypeOK, Claimed
<1>1. base'.status = base.status
  BY <1>0 DEF BaseType
<1>3. ChunkIdsOK'
  <2>1. Inserted \subseteq Inserted'
    BY <1>1, JobOnlySpares
  <2> QED
    BY <2>1, IdsKept
<1>4. ReadyIsWhole'
  <2>1. ASSUME ~torn', \A q \in KbRequests : job'[q].pc # "committed"
        PROVE  ~torn /\ \A q \in KbRequests : job[q].pc # "committed"
    BY <1>0, <2>1
  <2> QED
    BY <1>0, <1>1, <2>1 DEF KbInv, ReadyIsWhole
<1>5. AddJobOK(j)'
  <2>1. AddJobOK(j)
    BY DEF KbInv
  <2> QED
    BY <1>0, <1>1, <2>1 DEF AddJobOK, AddAt, AtWork
<1>6. ASSUME NEW r \in KbRequests PROVE ClaimOK(r)'
  <2> SUFFICES ASSUME base.there, ~torn' PROVE ClaimOK(r)'
    BY <1>0 DEF ClaimOK
  <2>1. ~torn /\ ClaimOK(r) /\ ClaimOK(j) /\ job[j].pc # "committed"
    BY DEF KbInv
  <2>2. Claimed(j)' => Claimed(j)
    BY <1>0 DEF Claimed
  <2>3. \A q \in KbRequests : Claimed(q)' => Claimed(q)
    BY <1>0, <2>2
  <2>4. Claimed(r)' => base'.adding /\ \A q \in KbRequests \ {r} : ~Claimed(q)'
    <3> SUFFICES ASSUME Claimed(r)' PROVE base'.adding /\ \A q \in KbRequests \ {r} : ~Claimed(q)'
      OBVIOUS
    <3>1. base.adding /\ \A q \in KbRequests \ {r} : ~Claimed(q)
      BY <2>1, <2>3 DEF ClaimOK
    <3>2. base' = base
      <4> SUFFICES ASSUME job[j].pc = "failing", job'[j].pc = "done" PROVE FALSE
        OBVIOUS
      <4>1. Claimed(j)
        BY <1>0 DEF Claimed
      <4>2. r = j
        BY <3>1, <4>1
      <4>3. kbCall[j].pc # "claimed"
        BY DEF KbInv, KbCallOK
      <4> QED
        BY <1>0, <4>2, <4>3 DEF Claimed
    <3> QED
      BY <2>3, <3>1, <3>2
  <2>5. job'[r].kind = "add" /\ job'[r].pc \in {"waiting", "embedded", "moved"} => chunks' = job'[r].index
    <3>1. job[r].kind = "add" /\ job[r].pc \in {"waiting", "embedded", "moved"} => chunks = job[r].index
      BY <2>1 DEF ClaimOK
    <3> QED
      BY <1>0, <3>1
  <2>6. job'[r].pc = "committed" => chunks' = job'[r].index /\ \A q \in KbRequests \ {r} : job'[q].pc # "committed"
    <3>1. job[r].pc = "committed" => chunks = job[r].index /\ \A q \in KbRequests \ {r} : job[q].pc # "committed"
      BY <2>1 DEF ClaimOK
    <3> QED
      BY <1>0, <3>1
  <2> QED
    BY <2>4, <2>5, <2>6 DEF ClaimOK
<1>7. Living => /\ RowsFollow /\ Told(index', chunks') /\ Told(cache', chunks')
                /\ job'[j].pc = "committed" => Told(job'[j].index, chunks')
  BY SameRowsFollow DEF KbInv, IndexesTold
<1> QED
  BY <1>1, <1>3, <1>4, <1>5, <1>6, <1>7, AddStepKeeps

LEMMA AddMovesKeeps == ASSUME KbInv, KbTypeOK', NEW j \in KbRequests, AddMoves(j) PROVE KbInv'
<1>0. /\ job[j].pc = "embedded" /\ UNCHANGED <<base, chunks, index, cache, kbCall, late, torn>>
      /\ KbTypeOK /\ job[j] \in JobType /\ job[j].cancelled \in BOOLEAN /\ AddAt(j) /\ FilesOK
  <2>1. job[j].pc = "embedded" /\ job[j].kind \in {"index", "add"}
    BY JobFits DEF AddMoves, KbInv
  <2> QED
    BY <2>1, JobFits, JobKinds DEF AddMoves, KbInv
<1>1. JobOnly(j) /\ job'[j].index = job[j].index /\ job'[j].pc \in {"moved", "failing"}
  <2>1. CASE base.there
    <3> DEFINE one == [job[j] EXCEPT !.kept = TRUE, !.pc = IF job[j].cancelled THEN "failing" ELSE "moved"]
    <3>1. one.index = job[j].index /\ one.pc \in {"moved", "failing"} /\ one.kind = job[j].kind
          /\ one.entry = job[j].entry
      BY <1>0 DEF JobType
    <3>2. job' = [job EXCEPT ![j] = one] /\ job \in [KbRequests -> JobType]
      BY <1>0, <2>1 DEF AddMoves, KbTypeOK
    <3> HIDE DEF one
    <3>3. job'[j] = one /\ \A q \in KbRequests \ {j} : job'[q] = job[q]
      BY <3>2
    <3> QED
      BY <1>0, <3>1, <3>3 DEF JobOnly, Inserted
  <2>2. CASE ~base.there
    <3>1. "failing" \in JobPcs \ {"absent"} /\ j \notin Inserted
      BY <1>0 DEF JobPcs, Inserted
    <3> QED
      BY <1>0, <2>2, <3>1, JobOnlyAt DEF AddMoves
  <2> QED
    BY <2>1, <2>2
<1>2. uploads' \subseteq uploads \cup {Text(j)} /\ uploads \subseteq uploads' /\ (base.there => Text(j) \in uploads')
  BY DEF AddMoves, Text
<1>3. base.there => /\ \A id \in DOMAIN chunks : chunks[id].text \in uploads'
                    /\ \A q \in KbRequests \ {j} : job[q].pc = "moved" /\ AddAt(q) => Text(q) \in uploads'
                    /\ job'[j].pc = "moved" => Text(j) \in uploads'
  BY <1>0, <1>2 DEF FilesOK
<1> QED
  BY <1>0, <1>1, <1>2, <1>3, AddQuiet

(* Files that are no row's go, but not those of the others at work. *)
LEMMA AddFinishesKeeps == ASSUME KbInv, KbTypeOK', NEW j \in KbRequests, AddFinishes(j) PROVE KbInv'
<1>0. /\ job[j].pc = "promoted" /\ UNCHANGED <<base, chunks, index, cache, kbCall, late, torn>>
      /\ JobGoes(j, "done") /\ AddAt(j) /\ FilesOK
  <2>1. job[j].pc = "promoted" /\ job[j].kind \in {"index", "add"}
    BY JobFits DEF AddFinishes, KbInv
  <2> QED
    BY <2>1, JobKinds DEF AddFinishes, KbInv
<1>1. JobOnly(j) /\ job'[j].pc = "done" /\ job'[j].index = job[j].index
  <2>1. "done" \in JobPcs \ {"absent"}
    BY DEF JobPcs
  <2> QED
    BY <1>0, <2>1, JobOnlyAt
<1>2. uploads' \subseteq uploads \cup {Text(j)}
  BY DEF AddFinishes
<1>3. base.there => /\ \A id \in DOMAIN chunks : chunks[id].text \in uploads'
                    /\ \A q \in KbRequests \ {j} : job[q].pc = "moved" /\ AddAt(q) => Text(q) \in uploads'
  BY <1>0 DEF FilesOK, AddFinishes, AddAt, Text
<1> QED
  BY <1>0, <1>1, <1>2, <1>3, AddQuiet

LEMMA AddRecordsKeeps == ASSUME KbInv, KbTypeOK', NEW j \in KbRequests, AddRecordsFailure(j) PROVE KbInv'
<1>0. /\ job[j].pc = "failing" /\ UNCHANGED <<chunks, index, cache, kbCall, late, torn>>
      /\ base' = IF base.there THEN [base EXCEPT !.adding = FALSE] ELSE base
      /\ JobGoes(j, "done") /\ AddAt(j) /\ FilesOK
      /\ base \in BaseType
  BY DEF AddRecordsFailure, AddAt, AtWork, KbInv, KbTypeOK
<1>1. JobOnly(j) /\ job'[j].pc = "done" /\ job'[j].index = job[j].index
  <2>1. "done" \in JobPcs \ {"absent"} /\ base'.there = base.there
    BY <1>0 DEF JobPcs, BaseType
  <2> QED
    BY <1>0, <2>1, JobOnlyAt
<1>2. /\ uploads' \subseteq uploads \cup {Text(j)}
      /\ \A n \in uploads : n # Text(j) \/ ~job[j].kept => n \in uploads'
  BY DEF AddRecordsFailure, Text
<1>3. \A q \in KbRequests \ {j} : Text(q) # Text(j)
  BY <1>0, AddBeside
<1>4. job[j].kept => \A id \in DOMAIN chunks : chunks[id].text # Text(j)
  BY <1>0 DEF KbInv, AddJobOK, Text
<1>5. base.there => /\ \A id \in DOMAIN chunks : chunks[id].text \in uploads'
                    /\ \A q \in KbRequests \ {j} : job[q].pc = "moved" /\ AddAt(q) => Text(q) \in uploads'
  BY <1>0, <1>2, <1>3, <1>4 DEF FilesOK
<1> QED
  BY <1>0, <1>1, <1>2, <1>5, AddQuiet

(* It goes on, fails or is cut off, and nothing else happens. *)
LEMMA AddGoesOn ==
  ASSUME KbInv, KbTypeOK', NEW j \in KbRequests, AddAt(j), NEW pc \in {"embedded", "failing", "done"},
         JobGoes(j, pc), UNCHANGED <<base, chunks, index, uploads, cache, kbCall, late>>,
         pc = "embedded" => job[j].pc = "waiting",
         pc = "failing" => job[j].pc \in {"waiting", "embedded", "moved"},
         torn => torn', job[j].pc = "committed" => torn'
  PROVE  KbInv'
<1>1. JobOnly(j) /\ job'[j].pc = pc /\ job'[j].index = job[j].index
  <2>1. pc \in JobPcs \ {"absent"} /\ job[j].pc \notin {"absent", "done"} /\ (pc = "embedded" => j \notin Inserted)
    BY DEF JobPcs, AddAt, AtWork, Inserted
  <2> QED
    BY <2>1, JobOnlyAt
<1>2. base.there => /\ \A id \in DOMAIN chunks : chunks[id].text \in uploads'
                    /\ \A q \in KbRequests \ {j} : job[q].pc = "moved" /\ AddAt(q) => Text(q) \in uploads'
  BY DEF KbInv, FilesOK
<1> QED
  BY <1>1, <1>2, AddQuiet

LEMMA AddPromotesKeeps == ASSUME KbInv, KbTypeOK', NEW j \in KbRequests, AddPromotes(j) PROVE KbInv'
<1>0. /\ job[j].pc = "committed" /\ UNCHANGED <<base, chunks, uploads, kbCall, late>>
      /\ KbTypeOK /\ job[j] \in JobType /\ AddAt(j) /\ base \in BaseType
  <2>1. job[j].pc = "committed" /\ job[j].kind \in {"index", "add"}
    BY JobFits DEF AddPromotes, KbInv
  <2> QED
    BY <2>1, JobFits, JobKinds DEF AddPromotes, KbInv, KbTypeOK
<1>1. /\ JobOnly(j) /\ job'[j].pc \in {"promoted", "failing"}
      /\ job'[j].pc = "failing" => torn' /\ index' = index /\ cache' = NoIndex /\ job'[j].kept = FALSE
      /\ job'[j].pc = "promoted" =>
           /\ torn' = torn /\ index' = IF base.there THEN job[j].index ELSE index
           /\ cache' = IF base.there THEN job[j].index ELSE NoIndex
  <2>1. CASE /\ index' = IF base.there THEN job[j].index ELSE index
             /\ cache' = IF base.there THEN job[j].index ELSE NoIndex
             /\ JobGoes(j, "promoted") /\ UNCHANGED torn
    <3>1. "promoted" \in JobPcs \ {"absent"}
      BY DEF JobPcs
    <3>2. JobOnly(j) /\ job'[j].pc = "promoted"
      BY <1>0, <2>1, <3>1, JobOnlyAt
    <3> QED
      BY <2>1, <3>2
  <2>2. CASE /\ cache' = NoIndex /\ torn' = TRUE /\ UNCHANGED index
             /\ job' = [job EXCEPT ![j].kept = FALSE, ![j].pc = "failing"]
    <3> DEFINE one == [job[j] EXCEPT !.kept = FALSE, !.pc = "failing"]
    <3>1. one.pc = "failing" /\ one.kept = FALSE /\ one.kind = job[j].kind /\ one.entry = job[j].entry
      BY <1>0 DEF JobType
    <3>2. job' = [job EXCEPT ![j] = one] /\ job \in [KbRequests -> JobType]
      BY <1>0, <2>2 DEF KbTypeOK
    <3> HIDE DEF one
    <3>3. job'[j] = one /\ \A q \in KbRequests \ {j} : job'[q] = job[q]
      BY <3>2
    <3> QED
      BY <1>0, <2>2, <3>1, <3>3 DEF JobOnly, Inserted
  <2> QED
    BY <2>1, <2>2 DEF AddPromotes
<1>2. ChunkIdsOK'
  <2>1. Inserted \subseteq Inserted'
    BY <1>0, <1>1, JobOnlySpares
  <2> QED
    BY <1>0, <2>1, IdsKept
<1>3. base.there /\ ~torn => chunks = job[j].index /\ \A q \in KbRequests \ {j} : job[q].pc # "committed"
  BY <1>0 DEF KbInv, ClaimOK
<1>4. ReadyIsWhole'
  BY <1>0, <1>1, <1>3 DEF ReadyIsWhole
<1>5. AddJobOK(j)'
  <2>1. AddJobOK(j)
    BY DEF KbInv
  <2> QED
    BY <1>0, <1>1, <2>1 DEF AddJobOK, JobOnly
<1>6. ASSUME NEW r \in KbRequests PROVE ClaimOK(r)'
  <2> SUFFICES ASSUME base.there, ~torn' PROVE ClaimOK(r)'
    BY <1>0 DEF ClaimOK
  <2>1. ~torn /\ job'[j].pc = "promoted" /\ ClaimOK(r) /\ UNCHANGED kbCall
        /\ \A q \in KbRequests \ {j} : job'[q] = job[q]
    BY <1>1 DEF KbInv, JobOnly
  <2>2. \A q \in KbRequests : Claimed(q)' => Claimed(q)
    BY <2>1 DEF Claimed
  <2> QED
    BY <1>0, <2>1, <2>2 DEF ClaimOK
<1>7. Living => RowsFollow /\ Told(index', chunks') /\ Told(cache', chunks')
  <2>1. Living => base.there /\ Told(index, chunks) /\ Told(job[j].index, chunks) /\ Told(NoIndex, chunks)
    BY <1>0, NothingTold DEF KbInv, IndexesTold, Living
  <2> QED
    BY <1>0, <1>1, <2>1, SameRowsFollow
<1>8. base.there => /\ \A id \in DOMAIN chunks' : chunks'[id].text \in uploads'
                    /\ \A q \in KbRequests \ {j} : job[q].pc = "moved" /\ AddAt(q) => Text(q) \in uploads'
  BY <1>0 DEF KbInv, FilesOK
<1>9. ~base.there => base' = base /\ chunks' = chunks
  BY <1>0
<1> QED
  BY <1>0, <1>1, <1>2, <1>4, <1>5, <1>6, <1>7, <1>8, <1>9, AddStepKeeps

(* The rows, the claim and the new index change at once. *)
LEMMA AddCommitsKeeps ==
  ASSUME KbInv, KbTypeOK', NEW j \in KbRequests, job[j].pc = "moved", AddAt(j), base.there,
         index # NoIndex, NEW id, id = FreshId, NEW rows, NEW patched,
         rows = With(KbWithout(chunks, job[j].replaces), id, job[j].entry),
         patched = With(KbWithout(index, job[j].replaces \cap DOMAIN chunks), id, job[j].entry),
         chunks' = rows, job' = [job EXCEPT ![j].pc = "committed", ![j].index = patched],
         base' = [base EXCEPT !.adding = FALSE, !.count = Cardinality(DOMAIN rows)],
         torn' = (torn \/ \E q \in KbRequests : job[q].pc = "committed"),
         UNCHANGED <<index, uploads, cache, kbCall, late>>
  PROVE  KbInv'
<1> DEFINE replaced == job[j].replaces
           one == [job[j] EXCEPT !.pc = "committed", !.index = patched]
<1>0. /\ KbTypeOK /\ job[j] \in JobType /\ base \in BaseType /\ base.status = "ready" /\ job[j].kind = "add"
      /\ kbCall[j].pc # "claimed" /\ Text(j) \in uploads
  BY JobFits, AddBeside DEF KbInv, KbTypeOK, AddAt, FilesOK, KbCallOK
<1>1. /\ one.pc = "committed" /\ one.index = patched /\ one.kind = job[j].kind /\ one.entry = job[j].entry
  BY <1>0 DEF JobType
<1>2. job' = [job EXCEPT ![j] = one] /\ job \in [KbRequests -> JobType]
  BY <1>0 DEF KbTypeOK
<1>3. base'.there = base.there /\ base'.status = base.status /\ base'.adding = FALSE
  BY <1>0 DEF BaseType
<1> HIDE DEF one
<1>4. job'[j] = one /\ \A q \in KbRequests \ {j} : job'[q] = job[q]
  BY <1>2
<1>5. /\ JobOnly(j) /\ job'[j].pc = "committed" /\ job'[j].index = patched
      /\ Inserted' = Inserted \cup {j} /\ j \in KbRequests \ Inserted
  BY <1>0, <1>1, <1>3, <1>4 DEF JobOnly, Inserted
<1>6. /\ DOMAIN rows = (DOMAIN chunks \ replaced) \cup {id} /\ rows[id] = job[j].entry
      /\ \A k \in DOMAIN rows \ {id} : rows[k] = chunks[k]
      /\ DOMAIN patched = (DOMAIN index \ (replaced \cap DOMAIN chunks)) \cup {id} /\ patched[id] = job[j].entry
      /\ \A k \in DOMAIN patched \ {id} : patched[k] = index[k]
  BY DEF With, KbWithout
<1>7. /\ ChunkIdsOK' /\ RowsFollow /\ id < NextRow(chunks') /\ id = NextRow(chunks)
  <2>1. FreshId \in DOMAIN chunks' /\ DOMAIN chunks' \subseteq DOMAIN chunks \cup {FreshId}
    BY <1>6
  <2>2. /\ ChunkIdsOK' /\ NextRow(chunks) \in Nat /\ NextRow(chunks') \in Nat
        /\ NextRow(chunks) <= NextRow(chunks')
        /\ FreshId < NextRow(chunks') /\ FreshId = NextRow(chunks)
    BY <1>5, <2>1, IdsGrow
  <2> QED
    BY <1>6, <2>2 DEF RowsFollow
<1>8. ReadyIsWhole'
  BY <1>5 DEF ReadyIsWhole
<1>9. AddJobOK(j)'
  <2>1. AddJobOK(j)
    BY DEF KbInv
  <2> QED
    BY <1>3, <1>5, <2>1 DEF AddJobOK, JobOnly, AddAt, AtWork
<1>10. ASSUME NEW r \in KbRequests PROVE ClaimOK(r)'
  <2> SUFFICES ASSUME ~torn' PROVE ClaimOK(r)'
    BY DEF ClaimOK
  <2>1. ~torn /\ \A q \in KbRequests : job[q].pc # "committed"
    OBVIOUS
  <2>2. Claimed(j)
    BY <1>0 DEF Claimed
  <2>3. \A q \in KbRequests \ {j} : ~Claimed(q)
    BY <2>1, <2>2 DEF KbInv, ClaimOK
  <2>4. \A q \in KbRequests : ~Claimed(q)'
    <3>1. ~Claimed(j)'
      BY <1>0, <1>5 DEF Claimed
    <3> QED
      BY <1>4, <2>3, <3>1 DEF Claimed
  <2>5. index = chunks
    BY <1>0, <2>1 DEF KbInv, ReadyIsWhole
  <2>6. patched = rows
    <3>1. KbWithout(index, replaced \cap DOMAIN chunks) = KbWithout(chunks, replaced)
      <4>1. DOMAIN chunks \ (replaced \cap DOMAIN chunks) = DOMAIN chunks \ replaced
        OBVIOUS
      <4> QED
        BY <2>5, <4>1 DEF KbWithout
    <3> QED
      BY <3>1
  <2>7. job'[r].kind = "add" => job'[r].pc \notin {"waiting", "embedded", "moved"}
    BY <2>4 DEF Claimed
  <2>8. job'[r].pc = "committed" => r = j
    BY <1>4, <2>1
  <2>9. \A q \in KbRequests \ {j} : job'[q].pc # "committed"
    BY <1>4, <2>1
  <2> QED
    BY <1>5, <2>4, <2>6, <2>7, <2>8, <2>9 DEF ClaimOK
<1>11. Living => /\ Told(index, chunks') /\ Told(cache, chunks') /\ Told(patched, chunks')
  <2> SUFFICES ASSUME Living PROVE Told(index, chunks') /\ Told(cache, chunks') /\ Told(patched, chunks')
    OBVIOUS
  <2>1. index \in Entries \cup {NoIndex} /\ cache \in Entries \cup {NoIndex} /\ Told(index, chunks) /\ Told(cache, chunks)
    BY <1>0 DEF KbInv, IndexesTold, KbTypeOK
  <2>2. Told(index, chunks') /\ Told(cache, chunks')
    BY <1>7, <2>1, StaysTold
  <2>3. ASSUME NEW k \in DOMAIN patched
        PROVE  k < NextRow(chunks') /\ (k \in DOMAIN chunks' => patched[k] = chunks'[k])
    <3>1. CASE k = id
      BY <1>6, <1>7, <3>1
    <3>2. CASE k # id
      <4>1. k \in DOMAIN index /\ patched[k] = index[k]
        BY <1>6, <3>2
      <4> QED
        BY <2>2, <4>1 DEF Told
    <3> QED
      BY <3>1, <3>2
  <2> QED
    BY <2>2, <2>3 DEF Told
<1>12. \A k \in DOMAIN chunks' : (k \in DOMAIN chunks /\ chunks'[k] = chunks[k]) \/ chunks'[k].text = Text(j)
  BY <1>6 DEF Text
<1>13. /\ \A k \in DOMAIN chunks' : chunks'[k].text \in uploads'
       /\ \A q \in KbRequests \ {j} : job[q].pc = "moved" /\ AddAt(q) => Text(q) \in uploads'
  BY <1>0, <1>12 DEF KbInv, FilesOK
<1> QED
  BY <1>3, <1>5, <1>7, <1>8, <1>9, <1>10, <1>11, <1>12, <1>13, AddStepKeeps

LEMMA AddJobKeeps ==
  ASSUME KbInv, KbTypeOK', NEW j \in KbRequests,
         \/ AddEmbeds(j) \/ AddMoves(j) \/ AddFails(j) \/ AddCommits(j) \/ AddPromotes(j)
         \/ AddFinishes(j) \/ AddRecordsFailure(j)
  PROVE  KbInv'
<1>0. job[j].kind \in {"index", "add"}
  BY JobFits DEF KbInv
<1>1. CASE AddEmbeds(j)
  <2>1. AddAt(j)
    BY <1>1 DEF AddEmbeds, AddAt, AtWork
  <2> QED
    BY <1>1, <2>1, AddGoesOn DEF AddEmbeds
<1>2. CASE AddFails(j)
  <2>1. AddAt(j)
    BY <1>2 DEF AddFails, AddAt, AtWork
  <2> QED
    BY <1>2, <2>1, AddGoesOn DEF AddFails
<1>3. CASE AddCommits(j)
  <2>1. AddAt(j) /\ job[j].pc = "moved"
    <3>1. job[j].pc = "moved"
      BY <1>3 DEF AddCommits
    <3> QED
      BY <1>0, <3>1, JobKinds
  <2>2. UNCHANGED <<index, uploads, cache, kbCall, late>>
    BY <1>3 DEF AddCommits
  <2>3. CASE JobGoes(j, "failing") /\ UNCHANGED <<base, chunks, torn>>
    BY <2>1, <2>2, <2>3, AddGoesOn
  <2>4. CASE ~(JobGoes(j, "failing") /\ UNCHANGED <<base, chunks, torn>>)
    <3>1. base.there /\ index # NoIndex
      BY <1>3, <2>4 DEF AddCommits
    <3>2. PICK id \in KbIds :
            /\ AddedRows(id, j)
            /\ LET rows == With(KbWithout(chunks, job[j].replaces), id, job[j].entry)
                   patched == With(KbWithout(index, job[j].replaces \cap DOMAIN chunks), id, job[j].entry)
               IN /\ Cardinality(DOMAIN patched) = Cardinality(DOMAIN rows)
                  /\ chunks' = rows
                  /\ job' = [job EXCEPT ![j].pc = "committed", ![j].index = patched]
                  /\ base' = [base EXCEPT !.adding = FALSE, !.count = Cardinality(DOMAIN rows)]
                  /\ torn' = (torn \/ \E q \in KbRequests : job[q].pc = "committed")
      BY <1>3, <2>4 DEF AddCommits
    <3> DEFINE rows == With(KbWithout(chunks, job[j].replaces), id, job[j].entry)
               patched == With(KbWithout(index, job[j].replaces \cap DOMAIN chunks), id, job[j].entry)
    <3>3. /\ id = FreshId /\ chunks' = rows
          /\ job' = [job EXCEPT ![j].pc = "committed", ![j].index = patched]
          /\ base' = [base EXCEPT !.adding = FALSE, !.count = Cardinality(DOMAIN rows)]
          /\ torn' = (torn \/ \E q \in KbRequests : job[q].pc = "committed")
      BY <3>2 DEF AddedRows
    <3> QED
      BY <2>1, <2>2, <3>1, <3>3, AddCommitsKeeps
  <2> QED
    BY <2>3, <2>4
<1> QED
  BY <1>1, <1>2, <1>3, AddMovesKeeps, AddPromotesKeeps, AddFinishesKeeps, AddRecordsKeeps

(* A job that was cancelled before it began, or that a deletion let go of. *)
LEMMA CutOffKeeps ==
  ASSUME KbInv, KbTypeOK', NEW j \in KbRequests, job[j].pc \notin {"absent", "done"}, JobGoes(j, "done"),
         UNCHANGED <<base, chunks, index, uploads, cache, kbCall, late>>,
         torn' = (torn \/ job[j].pc = "committed")
  PROVE  KbInv'
<1>1. IndexAt(j) \/ AddAt(j)
  BY JobFits, JobKinds DEF KbInv
<1> QED
  BY <1>1, IndexQuiet, AddGoesOn

LEMMA JobStepKeeps == ASSUME KbInv, KbTypeOK', NEW j \in KbRequests, JobStep(j) PROVE KbInv'
<1>1. CASE JobEndsUnbegun(j)
  <2>1. job[j].pc \notin {"absent", "done"} /\ torn' = (torn \/ job[j].pc = "committed")
    BY <1>1 DEF JobEndsUnbegun, KbInv, KbTypeOK
  <2> QED
    BY <1>1, <2>1, CutOffKeeps DEF JobEndsUnbegun
<1> QED
  BY <1>1, IndexJobKeeps, AddJobKeeps DEF JobStep

LEMMA TimesOutKeeps == ASSUME KbInv, KbTypeOK', NEW r \in KbRequests, DeleteTimesOut(r) PROVE KbInv'
<1>1. kbCall[r].awaits \in KbRequests
  BY KbCallFits DEF KbInv, DeleteTimesOut
<1> QED
  BY <1>1, CutOffKeeps DEF DeleteTimesOut, AtWork

LEMMA OneLooks ==
  ASSUME KbInv, KbTypeOK', UNCHANGED <<base, chunks, index, uploads, late, torn>>,
         \A q \in KbRequests : SameJob(job'[q], job[q]), Living => Told(cache', chunks),
         NEW r \in KbRequests, \A q \in KbRequests \ {r} : kbCall'[q] = kbCall[q], Looks(r)
  PROVE  KbInv'
<1>1. \A q \in KbRequests : Looks(q)
  BY DEF Looks
<1> QED
  BY <1>1, LookKeeps

LEMMA RequestEnds ==
  ASSUME KbInv, KbTypeOK', UNCHANGED <<base, chunks, index, uploads, late, torn>>,
         \A q \in KbRequests : SameJob(job'[q], job[q]), Living => Told(cache', chunks),
         NEW r \in KbRequests, kbCall[r].pc # "done", KbGoes(r, "done")
  PROVE  KbInv'
<1>1. kbCall'[r] = [kbCall[r] EXCEPT !.pc = "done"] /\ \A q \in KbRequests \ {r} : kbCall'[q] = kbCall[q]
  BY KbCallAt DEF KbInv, KbCallPcs
<1>2. kbCall[r] \in KbCallType
  BY KbCallFits DEF KbInv
<1>3. kbCall'[r].pc = "done"
  BY <1>1, <1>2 DEF KbCallType
<1> QED
  BY <1>1, <1>3, OneLooks DEF Looks

LEMMA LooksKeep ==
  ASSUME KbInv, KbTypeOK', NEW r \in KbRequests,
         \/ AddArrives(r) \/ AddClassifies(r) \/ SearchStarts(r) \/ SearchLoads(r) \/ SearchCaches(r)
         \/ SearchAnswers(r) \/ DeleteArrives(r)
  PROVE  KbInv'
<1>0. /\ kbCall \in [KbRequests -> KbCallType] /\ kbCall[r] \in KbCallType /\ base \in BaseType
      /\ UNCHANGED <<base, chunks, index, uploads, late, torn>>
      /\ Living => Told(cache, chunks) /\ Told(index, chunks)
      /\ kbCall[r].pc = "loaded" /\ Living => Told(kbCall[r].view, chunks)
  BY KbCallFits DEF KbInv, KbTypeOK, IndexesTold, AddArrives, AddClassifies, SearchStarts, SearchLoads, SearchCaches,
     SearchAnswers, DeleteArrives
<1>1. \A q \in KbRequests : SameJob(job[q], job[q])
  BY DEF SameJob
<1>2. ASSUME NEW pc, NEW v, NEW c, c.pc = pc, c.view = v, kbCall' = [kbCall EXCEPT ![r] = c],
             pc \in {"staged", "classified", "waiting", "loading", "loaded", "searching", "done"},
             kbCall[r].pc \notin {"queued", "done"},
             pc \in {"staged", "classified"} => kbCall[r].pc = "staged" \/ (base.there /\ base.status = "ready"),
             pc \in {"loaded", "searching"} /\ Living => Told(v, chunks),
             \A q \in KbRequests : SameJob(job'[q], job[q]), Living => Told(cache', chunks)
      PROVE  KbInv'
  <2>1. kbCall'[r] = c /\ \A q \in KbRequests \ {r} : kbCall'[q] = kbCall[q]
    BY <1>0, <1>2
  <2>2. Looks(r)
    BY <1>2, <2>1 DEF Looks
  <2> QED
    BY <1>0, <1>2, <2>1, <2>2, OneLooks
<1>3. CASE AddArrives(r)
  <2>1. PICK f \in Sources :
          kbCall' = [kbCall EXCEPT ![r].source = f,
            ![r].pc = IF base.there /\ base.status = "ready" /\ ~base.adding THEN "staged" ELSE "done"]
    BY <1>3 DEF AddArrives
  <2> DEFINE pc == IF base.there /\ base.status = "ready" /\ ~base.adding THEN "staged" ELSE "done"
             c == [kbCall[r] EXCEPT !.source = f, !.pc = pc]
  <2>2. c.pc = pc /\ kbCall' = [kbCall EXCEPT ![r] = c]
    <3> HIDE DEF pc
    <3>1. c.pc = pc
      BY <1>0 DEF KbCallType
    <3>2. kbCall' = [kbCall EXCEPT ![r] = c]
      BY <1>0, <2>1 DEF pc
    <3> QED
      BY <3>1, <3>2
  <2>3. pc \in {"staged", "done"} /\ (pc = "staged" => base.there /\ base.status = "ready")
    OBVIOUS
  <2>4. UNCHANGED <<job, cache>> /\ kbCall[r].pc = "new"
    BY <1>3 DEF AddArrives
  <2> HIDE DEF c, pc
  <2> QED
    BY <1>0, <1>1, <1>2, <2>2, <2>3, <2>4
<1>4. CASE AddClassifies(r)
  <2>0. UNCHANGED <<job, cache>> /\ kbCall[r].pc = "staged"
    BY <1>4 DEF AddClassifies
  <2>1. CASE KbGoes(r, "done")
    BY <1>0, <1>1, <2>0, <2>1, RequestEnds
  <2> DEFINE ids == {id \in DOMAIN chunks : chunks[id].source = kbCall[r].source}
             c == [kbCall[r] EXCEPT !.pc = "classified", !.replaces = ids]
  <2>2. CASE kbCall' = [kbCall EXCEPT ![r].pc = "classified", ![r].replaces = ids]
    <3> HIDE DEF ids
    <3>1. c.pc = "classified"
      BY <1>0 DEF KbCallType
    <3>2. kbCall' = [kbCall EXCEPT ![r] = c]
      BY <1>0, <2>2
    <3> HIDE DEF c
    <3> QED
      BY <1>0, <1>1, <1>2, <2>0, <3>1, <3>2
  <2> QED
    BY <1>4, <2>1, <2>2 DEF AddClassifies
<1>5. CASE SearchStarts(r)
  <2> DEFINE pc == IF ~base.there \/ base.status # "ready" THEN "done"
                   ELSE IF cache = NoIndex THEN "loading" ELSE "searching"
             c == [kbCall[r] EXCEPT !.copy = base, !.view = cache, !.pc = pc]
  <2>1. UNCHANGED <<job, cache>> /\ kbCall[r].pc = "new"
    BY <1>5 DEF SearchStarts
  <2>2. kbCall' = [kbCall EXCEPT ![r] = c]
    BY <1>0, <1>5 DEF SearchStarts
  <2>3. pc \in {"done", "loading", "searching"}
    OBVIOUS
  <2> HIDE DEF pc
  <2>4. c.pc = pc /\ c.view = cache
    BY <1>0 DEF KbCallType
  <2> HIDE DEF c
  <2> QED
    BY <1>0, <1>1, <1>2, <2>1, <2>2, <2>3, <2>4
<1>6. CASE SearchLoads(r)
  <2> DEFINE pc == IF index = NoIndex THEN "done" ELSE "loaded"
             c == [kbCall[r] EXCEPT !.view = index, !.pc = pc]
  <2>1. UNCHANGED <<job, cache>> /\ kbCall[r].pc = "loading"
    BY <1>6 DEF SearchLoads
  <2>2. kbCall' = [kbCall EXCEPT ![r] = c]
    BY <1>0, <1>6 DEF SearchLoads
  <2>3. pc \in {"done", "loaded"}
    OBVIOUS
  <2> HIDE DEF pc
  <2>4. c.pc = pc /\ c.view = index
    BY <1>0 DEF KbCallType
  <2> HIDE DEF c
  <2> QED
    BY <1>0, <1>1, <1>2, <2>1, <2>2, <2>3, <2>4
<1>7. CASE SearchCaches(r)
  <2>0. UNCHANGED job /\ kbCall[r].pc = "loaded"
    BY <1>7 DEF SearchCaches
  <2>1. CASE KbGoes(r, "done") /\ UNCHANGED cache
    BY <1>0, <1>1, <2>0, <2>1, RequestEnds
  <2>2. CASE cache' = kbCall[r].view /\ KbGoes(r, "searching")
    <3> DEFINE c == [kbCall[r] EXCEPT !.pc = "searching"]
    <3>1. c.pc = "searching" /\ c.view = kbCall[r].view
      BY <1>0 DEF KbCallType
    <3>2. kbCall' = [kbCall EXCEPT ![r] = c]
      BY <1>0, <2>2 DEF KbGoes
    <3> HIDE DEF c
    <3> QED
      BY <1>0, <1>1, <1>2, <2>0, <2>2, <3>1, <3>2
  <2> QED
    BY <1>7, <2>1, <2>2 DEF SearchCaches
<1>8. CASE SearchAnswers(r)
  BY <1>0, <1>1, <1>8, RequestEnds DEF SearchAnswers
<1>9. CASE DeleteArrives(r)
  <2>0. kbCall[r].pc = "new"
    BY <1>9 DEF DeleteArrives
  <2>1. CASE KbGoes(r, "done") /\ UNCHANGED <<cache, job>>
    BY <1>0, <1>1, <2>0, <2>1, RequestEnds
  <2>2. CASE base.there
    <3> DEFINE c == [kbCall[r] EXCEPT !.awaits = jobOf, !.pc = "waiting"]
    <3>1. c.pc = "waiting"
      BY <1>0 DEF KbCallType
    <3>2. kbCall' = [kbCall EXCEPT ![r] = c] /\ cache' = NoIndex
      BY <1>0, <1>9, <2>2 DEF DeleteArrives
    <3>3. \A q \in KbRequests : SameJob(job'[q], job[q])
      <4>1. job' = job \/ (jobOf \in KbRequests /\ job' = [job EXCEPT ![jobOf].cancelled = TRUE])
        BY <1>9, <2>2 DEF DeleteArrives, KbInv, KbTypeOK
      <4>2. job \in [KbRequests -> JobType]
        BY DEF KbInv, KbTypeOK
      <4>3. \A q \in KbRequests : job'[q] = job[q] \/ job'[q] = [job[q] EXCEPT !.cancelled = TRUE]
        BY <4>1, <4>2
      <4>4. \A q \in KbRequests : SameJob([job[q] EXCEPT !.cancelled = TRUE], job[q])
        BY <4>2 DEF JobType, SameJob
      <4> QED
        BY <1>1, <4>3, <4>4
    <3>4. Told(cache', chunks)
      BY <3>2, NothingTold
    <3> HIDE DEF c
    <3> QED
      BY <1>0, <1>2, <2>0, <3>1, <3>2, <3>3, <3>4
  <2> QED
    BY <1>9, <2>1, <2>2 DEF DeleteArrives
<1> QED
  BY <1>3, <1>4, <1>5, <1>6, <1>7, <1>8, <1>9

(* A request claims the base, or lets go of it. *)
LEMMA ClaimMoves ==
  ASSUME KbInv, KbTypeOK', NEW r \in KbRequests, NEW pc \in {"claimed", "done"}, KbGoes(r, pc),
         kbCall[r].pc = IF pc = "claimed" THEN "classified" ELSE "claimed",
         pc = "claimed" => base.there /\ ~base.adding /\ base' = [base EXCEPT !.adding = TRUE],
         pc = "done" => base' = IF base.there THEN [base EXCEPT !.adding = FALSE] ELSE base,
         UNCHANGED <<chunks, index, uploads, cache, job, late, torn>>
  PROVE  KbInv'
<1>0. kbCall[r] \in KbCallType /\ base \in BaseType /\ kbCall[r].pc \in Entering
  BY KbCallFits DEF KbInv, KbTypeOK, Entering
<1>1. kbCall'[r] = [kbCall[r] EXCEPT !.pc = pc] /\ \A q \in KbRequests \ {r} : kbCall'[q] = kbCall[q]
  BY KbCallAt DEF KbInv, KbCallPcs
<1>2. kbCall'[r].pc = pc
  BY <1>0, <1>1 DEF KbCallType
<1>3. /\ base'.there = base.there /\ base'.status = base.status
      /\ pc = "claimed" => base'.adding = TRUE
      /\ ~base.there => base' = base
  BY <1>0 DEF BaseType
<1>4. \A q \in KbRequests : (IndexAt(q)' <=> IndexAt(q)) /\ (AddAt(q)' <=> AddAt(q)) /\ Text(q)' = Text(q)
  BY DEF IndexAt, AddAt, AtWork, Text
<1>5. \A q \in KbRequests : ~IndexAt(q)
  BY <1>0 DEF KbInv, IndexJobOK
<1>6. \A q \in KbRequests : kbCall[q].pc # "queued" /\ kbCall'[q].pc # "queued"
  <2>1. \A q \in KbRequests : kbCall[q].pc # "queued"
    BY <1>0 DEF KbInv, KbCallOK, Entering
  <2> QED
    BY <1>1, <1>2, <2>1
<1>7. ChunkIdsOK' /\ BaseRowOK' /\ LateOK' /\ ReadyIsWhole'
  BY <1>3 DEF KbInv, ChunkIdsOK, Inserted, BaseRowOK, LateOK, ReadyIsWhole
<1>8. IndexesTold'
  <2>1. \A q \in KbRequests : kbCall'[q].pc \in {"loaded", "searching"} => kbCall'[q] = kbCall[q]
    BY <1>1, <1>2
  <2> QED
    BY <1>3, <2>1 DEF KbInv, IndexesTold, Living
<1>9. FilesOK'
  BY <1>3, <1>4, <1>6 DEF KbInv, FilesOK
<1>10. ASSUME NEW q \in KbRequests PROVE KbCallOK(q)'
  <2>1. CASE q # r
    BY <1>1, <1>3, <1>6, <2>1 DEF KbInv, KbCallOK
  <2>2. CASE q = r
    BY <1>0, <1>2, <1>3, <2>2 DEF KbInv, KbCallOK, Entering
  <2> QED
    BY <2>1, <2>2
<1>11. ASSUME NEW q \in KbRequests PROVE IndexJobOK(q)' /\ AddJobOK(q)'
  BY <1>3, <1>4, <1>5 DEF KbInv, IndexJobOK, AddJobOK
<1>12. ASSUME NEW q \in KbRequests PROVE ClaimOK(q)'
  <2> SUFFICES ASSUME base.there, ~torn PROVE ClaimOK(q)'
    BY <1>3 DEF ClaimOK
  <2>1. ClaimOK(q) /\ ClaimOK(r)
    BY DEF KbInv
  <2>2. \A p \in KbRequests \ {r} : Claimed(p)' <=> Claimed(p)
    BY <1>1 DEF Claimed
  <2>3. job[r].pc = "absent"
    BY <1>0 DEF KbInv, KbCallOK, Entering
  <2>4. Claimed(r)' <=> pc = "claimed"
    BY <1>2, <2>3 DEF Claimed
  <2>5. \A p \in KbRequests \ {r} : ~Claimed(p)
    <3>1. CASE pc = "claimed"
      BY <3>1 DEF KbInv, ClaimOK
    <3>2. CASE pc = "done"
      <4>1. Claimed(r)
        BY <3>2 DEF Claimed
      <4> QED
        BY <2>1, <4>1 DEF ClaimOK
    <3> QED
      BY <3>1, <3>2
  <2> QED
    BY <1>3, <2>1, <2>2, <2>4, <2>5 DEF ClaimOK
<1> QED
  BY <1>7, <1>8, <1>9, <1>10, <1>11, <1>12 DEF KbInv

(* A base is made: it is the only thing there is. *)
LEMMA CreateKeeps == ASSUME KbInv, KbTypeOK', NEW r \in KbRequests, CreateStores(r) PROVE KbInv'
<1>0. /\ kbCall[r].pc = "new" /\ UNCHANGED <<chunks, late, torn>> /\ kbCall[r] \in KbCallType
      /\ kbCall \in [KbRequests -> KbCallType]
  BY KbCallFits DEF CreateStores, KbInv, KbTypeOK
<1>1. CASE KbGoes(r, "done") /\ UNCHANGED <<base, index, uploads, cache, job>>
  <2>1. (Living => Told(cache, chunks)) /\ \A q \in KbRequests : SameJob(job[q], job[q])
    BY DEF KbInv, IndexesTold, SameJob
  <2> QED
    BY <1>0, <1>1, <2>1, RequestEnds
<1>2. CASE ~(KbGoes(r, "done") /\ UNCHANGED <<base, index, uploads, cache, job>>)
  <2>1. /\ base = NoBase /\ base' = [NoBase EXCEPT !.there = TRUE]
        /\ \A q \in KbRequests : job[q].pc = "absent" /\ kbCall[q].pc \in {"new", "done"}
        /\ uploads' = {FreshText} /\ index' = NoIndex /\ cache' = NoIndex
        /\ KbGoes(r, "queued")
    BY <1>2 DEF CreateStores
  <2>2. PICK f \in Sources : job' = [job EXCEPT ![r].entry = [source |-> f, text |-> FreshText]]
    BY <1>2 DEF CreateStores
  <2> DEFINE e == [source |-> f, text |-> FreshText]
             one == [job[r] EXCEPT !.entry = e]
  <2>3. FreshText \in KbIds /\ FreshText \notin uploads /\ (\A q \in KbRequests : Text(q) # FreshText) /\ Text(r) = 0
    <3>1. Text(r) = 0
      BY <1>0 DEF KbInv, KbCallOK, Text
    <3> QED
      BY <3>1, FreshTextFits DEF KbInv
  <2>4. e \in KbEntry
    BY <2>3 DEF KbEntry
  <2>5. job[r] \in JobType /\ job \in [KbRequests -> JobType]
    BY DEF KbInv, KbTypeOK
  <2>6. e.text = FreshText
    OBVIOUS
  <2> HIDE DEF e
  <2>7. one.entry = e /\ one.pc = job[r].pc
    BY <2>5 DEF JobType
  <2>8. job' = [job EXCEPT ![r] = one]
    BY <2>2, <2>5 DEF e
  <2> HIDE DEF one
  <2>9. /\ \A q \in KbRequests : job'[q].pc = "absent"
        /\ \A q \in KbRequests \ {r} : job'[q] = job[q] /\ job'[q].entry = job[q].entry
        /\ job'[r].entry = e
    BY <2>1, <2>5, <2>7, <2>8
  <2>10. /\ kbCall'[r].pc = "queued"
         /\ \A q \in KbRequests \ {r} : kbCall'[q] = kbCall[q]
    <3>1. kbCall'[r] = [kbCall[r] EXCEPT !.pc = "queued"] /\ \A q \in KbRequests \ {r} : kbCall'[q] = kbCall[q]
      BY <2>1, KbCallAt DEF KbInv, KbCallPcs
    <3> QED
      BY <1>0, <3>1 DEF KbCallType
  <2>11. base'.there /\ base'.status = "queued" /\ chunks = NoChunks /\ late = NoIndex
    BY <2>1 DEF NoBase, KbInv, BaseRowOK, LateOK
  <2>12. ChunkIdsOK' /\ BaseRowOK' /\ LateOK' /\ ReadyIsWhole'
    <3>1. Inserted = {} /\ Inserted' = {}
      BY <2>1, <2>9 DEF Inserted
    <3>2. ChunkIdsOK'
      BY <1>0, <3>1, IdsKept
    <3> QED
      BY <1>0, <2>11, <3>2 DEF BaseRowOK, LateOK, ReadyIsWhole
  <2>13. IndexesTold'
    <3>1. Told(NoIndex, chunks)
      BY NothingTold
    <3>2. \A q \in KbRequests : kbCall'[q].pc \notin {"loaded", "searching"} /\ job'[q].pc # "committed"
      BY <2>1, <2>9, <2>10
    <3> QED
      BY <1>0, <2>1, <2>11, <3>1, <3>2 DEF IndexesTold
  <2>14. \A q \in KbRequests : ~IndexAt(q)' /\ ~AddAt(q)' /\ ~Claimed(q)'
    BY <2>1, <2>9, <2>10 DEF IndexAt, AddAt, AtWork, Claimed
  <2>15. ASSUME NEW q \in KbRequests PROVE KbCallOK(q)'
    <3>1. CASE q = r
      BY <2>1, <2>4, <2>9, <2>10, <2>11, <3>1 DEF KbCallOK, Entering
    <3>2. CASE q # r
      BY <2>1, <2>9, <2>10, <3>2 DEF KbInv, KbCallOK, Entering
    <3> QED
      BY <3>1, <3>2
  <2>16. ASSUME NEW q \in KbRequests PROVE IndexJobOK(q)' /\ AddJobOK(q)' /\ ClaimOK(q)'
    BY <2>9, <2>14 DEF IndexJobOK, AddJobOK, ClaimOK
  <2>17. FilesOK'
    <3>1. Text(r)' = FreshText /\ \A q \in KbRequests \ {r} : Text(q)' = Text(q)
      BY <2>6, <2>9 DEF Text
    <3>2. uploads' \subseteq {1} \cup {Text(q)' : q \in KbRequests}
      BY <2>1, <3>1
    <3>3. \A p, q \in KbRequests : p # q /\ Text(p)' = Text(q)' => Text(p)' = 0
      BY <2>3, <3>1 DEF KbInv, FilesOK
    <3>4. \A q \in KbRequests : kbCall'[q].pc = "queued" => q = r
      BY <2>1, <2>10
    <3>5. \A id \in DOMAIN chunks' : chunks'[id].text \in uploads'
      BY <1>0, <2>11, NoRows
    <3> QED
      BY <2>1, <2>14, <3>1, <3>2, <3>3, <3>4, <3>5 DEF FilesOK
  <2> QED
    BY <2>12, <2>13, <2>15, <2>16, <2>17 DEF KbInv
<1> QED
  BY <1>1, <1>2

(* A request that spawns its job, which has its text. *)
LEMMA CreateSpawnsKeeps == ASSUME KbInv, KbTypeOK', NEW r \in KbRequests, CreateSpawns(r) PROVE KbInv'
<1>0. /\ kbCall[r].pc = "queued" /\ UNCHANGED <<base, chunks, index, uploads, cache, late, torn>>
      /\ KbGoes(r, "done") /\ kbCall[r] \in KbCallType
  BY KbCallFits DEF CreateSpawns, KbInv
<1>1. CASE ~base.there
  <2>1. (Living => Told(cache, chunks)) /\ \A q \in KbRequests : SameJob(job[q], job[q])
    BY DEF KbInv, IndexesTold, SameJob
  <2>2. job' = job
    BY <1>1 DEF CreateSpawns
  <2> QED
    BY <1>0, <2>1, <2>2, RequestEnds
<1>2. CASE base.there
  <2>1. /\ \A q \in KbRequests : job[q].pc = "absent"
        /\ \A q \in KbRequests \ {r} : kbCall[q].pc \notin Entering \cup {"queued"}
        /\ base.status = "queued" /\ job[r].entry \in KbEntry
        /\ late = NoIndex /\ chunks = NoChunks /\ Text(r) \in uploads
    BY <1>0, <1>2 DEF KbInv, KbCallOK, LateOK, BaseRowOK, FilesOK
  <2> DEFINE one == [job[r] EXCEPT !.kind = "index", !.pc = "waiting"]
  <2>2. job[r] \in JobType /\ job \in [KbRequests -> JobType]
    BY DEF KbInv, KbTypeOK
  <2>3. one.kind = "index" /\ one.pc = "waiting" /\ one.entry = job[r].entry
    BY <2>2 DEF JobType
  <2>4. job' = [job EXCEPT ![r] = one]
    BY <1>2, <2>2 DEF CreateSpawns
  <2> HIDE DEF one
  <2>5. /\ job'[r].kind = "index" /\ job'[r].pc = "waiting" /\ job'[r].entry = job[r].entry
        /\ \A q \in KbRequests \ {r} : job'[q] = job[q]
    BY <2>2, <2>3, <2>4
  <2>6. kbCall'[r].pc = "done" /\ \A q \in KbRequests \ {r} : kbCall'[q] = kbCall[q]
    <3>1. kbCall'[r] = [kbCall[r] EXCEPT !.pc = "done"] /\ \A q \in KbRequests \ {r} : kbCall'[q] = kbCall[q]
      BY <1>0, KbCallAt DEF KbInv, KbCallPcs
    <3> QED
      BY <1>0, <3>1 DEF KbCallType
  <2>7. \A q \in KbRequests : kbCall'[q].pc \notin Entering \cup {"queued"}
    BY <2>1, <2>6 DEF Entering
  <2>8. ChunkIdsOK' /\ BaseRowOK' /\ LateOK' /\ ReadyIsWhole'
    <3>1. Inserted = {} /\ Inserted' = {}
      BY <2>1, <2>5 DEF Inserted
    <3>2. ChunkIdsOK'
      BY <1>0, <3>1, IdsKept
    <3> QED
      BY <1>0, <1>2, <2>1, <3>2 DEF BaseRowOK, LateOK, ReadyIsWhole
  <2>9. IndexesTold'
    <3>1. \A q \in KbRequests : job'[q].pc # "committed"
      BY <2>1, <2>5
    <3>2. \A q \in KbRequests : kbCall'[q].pc \in {"loaded", "searching"} => kbCall'[q] = kbCall[q]
      BY <2>6
    <3> QED
      BY <1>0, <3>1, <3>2 DEF KbInv, IndexesTold, Living
  <2>10. \A q \in KbRequests : ~AddAt(q)' /\ ~Claimed(q)' /\ (q # r => ~IndexAt(q)')
    BY <2>1, <2>5, <2>7 DEF IndexAt, AddAt, AtWork, Claimed, Entering
  <2>11. ASSUME NEW q \in KbRequests PROVE KbCallOK(q)'
    <3>1. CASE q = r
      BY <2>6, <3>1 DEF KbCallOK, Entering
    <3>2. CASE q # r
      BY <1>0, <2>5, <2>6, <2>7, <3>2 DEF KbInv, KbCallOK
    <3> QED
      BY <3>1, <3>2
  <2>12. ASSUME NEW q \in KbRequests PROVE IndexJobOK(q)' /\ AddJobOK(q)' /\ ClaimOK(q)'
    <3>1. AddJobOK(q)' /\ ClaimOK(q)'
      BY <2>1, <2>5, <2>10 DEF AddJobOK, ClaimOK
    <3>2. IndexJobOK(q)'
      BY <1>0, <2>1, <2>5, <2>7, <2>10 DEF IndexJobOK
    <3> QED
      BY <3>1, <3>2
  <2>13. FilesOK'
    <3>1. \A q \in KbRequests : Text(q)' = Text(q)
      BY <2>5 DEF Text
    <3> QED
      BY <1>0, <2>1, <2>7, <2>10, <3>1 DEF KbInv, FilesOK
  <2> QED
    BY <2>8, <2>9, <2>11, <2>12, <2>13 DEF KbInv
<1> QED
  BY <1>1, <1>2

LEMMA AddSpawnsKeeps == ASSUME KbInv, KbTypeOK', NEW r \in KbRequests, AddSpawns(r) PROVE KbInv'
<1>0. /\ kbCall[r].pc = "claimed" /\ UNCHANGED <<base, chunks, index, uploads, cache, late, torn>>
      /\ KbGoes(r, "done") /\ kbCall[r] \in KbCallType /\ base.there /\ kbCall[r].source \in Sources
  BY KbCallFits DEF AddSpawns, KbInv
<1>1. base.status = "ready" /\ job[r].pc = "absent" /\ Text(r) = 0
  BY <1>0 DEF KbInv, KbCallOK, Entering, Text
<1>2. FreshText \in KbIds /\ FreshText \notin uploads /\ \A q \in KbRequests : Text(q) # FreshText
  BY <1>1, FreshTextFits DEF KbInv
<1> DEFINE e == [source |-> kbCall[r].source, text |-> FreshText]
           one == [job[r] EXCEPT !.kind = "add", !.pc = "waiting", !.replaces = kbCall[r].replaces,
                                 !.entry = e, !.index = chunks]
<1>3. job[r] \in JobType /\ job \in [KbRequests -> JobType]
  BY DEF KbInv, KbTypeOK
<1>4. e \in KbEntry /\ e.text = FreshText
  BY <1>0, <1>2 DEF KbEntry
<1>5. one.kind = "add" /\ one.pc = "waiting" /\ one.entry = e /\ one.index = chunks
  <2> HIDE DEF e
  <2> QED
    BY <1>3 DEF JobType
<1>6. job' = [job EXCEPT ![r] = one]
  BY <1>3 DEF AddSpawns
<1> HIDE DEF one, e
<1>7. /\ job'[r].kind = "add" /\ job'[r].pc = "waiting" /\ job'[r].entry = e /\ job'[r].index = chunks
      /\ \A q \in KbRequests \ {r} : job'[q] = job[q]
  BY <1>3, <1>5, <1>6
<1>8. kbCall'[r].pc = "done" /\ \A q \in KbRequests \ {r} : kbCall'[q] = kbCall[q]
  <2>1. kbCall'[r] = [kbCall[r] EXCEPT !.pc = "done"] /\ \A q \in KbRequests \ {r} : kbCall'[q] = kbCall[q]
    BY <1>0, KbCallAt DEF KbInv, KbCallPcs
  <2> QED
    BY <1>0, <2>1 DEF KbCallType
<1>9. /\ \A q \in KbRequests : ~IndexAt(q) /\ ~IndexAt(q)' /\ kbCall[q].pc # "queued" /\ kbCall'[q].pc # "queued"
      /\ \A q \in KbRequests \ {r} : (AddAt(q)' <=> AddAt(q)) /\ (Claimed(q)' <=> Claimed(q)) /\ Text(q)' = Text(q)
  <2>1. \A q \in KbRequests : ~IndexAt(q)
    BY <1>0 DEF KbInv, IndexJobOK, Entering
  <2>2. \A q \in KbRequests : kbCall[q].pc # "queued"
    BY <1>0 DEF KbInv, KbCallOK, Entering
  <2> QED
    BY <1>7, <1>8, <2>1, <2>2 DEF IndexAt, AddAt, AtWork, Claimed, Text
<1>10. ChunkIdsOK' /\ BaseRowOK' /\ LateOK'
  <2>1. Inserted \subseteq Inserted'
    BY <1>1, <1>7 DEF Inserted
  <2>2. ChunkIdsOK'
    BY <1>0, <2>1, IdsKept
  <2> QED
    BY <1>0, <1>1, <2>2 DEF KbInv, BaseRowOK, LateOK
<1>11. ReadyIsWhole'
  <2>1. (\A q \in KbRequests : job'[q].pc # "committed") => \A q \in KbRequests : job[q].pc # "committed"
    BY <1>1, <1>7
  <2> QED
    BY <1>0, <2>1 DEF KbInv, ReadyIsWhole
<1>12. IndexesTold'
  <2>1. \A q \in KbRequests : job'[q].pc = "committed" => job'[q] = job[q]
    BY <1>7
  <2>2. \A q \in KbRequests : kbCall'[q].pc \in {"loaded", "searching"} => kbCall'[q] = kbCall[q]
    BY <1>8
  <2> QED
    BY <1>0, <2>1, <2>2 DEF KbInv, IndexesTold, Living
<1>13. FilesOK'
  <2>1. Text(r)' = FreshText
    BY <1>4, <1>7 DEF Text
  <2>2. uploads' \subseteq {1} \cup {Text(q)' : q \in KbRequests}
    <3>1. uploads \subseteq {1} \cup {Text(q) : q \in KbRequests} /\ 0 \notin uploads
      BY DEF KbInv, FilesOK, KbTypeOK, KbIds
    <3>2. \A n \in uploads : n = 1 \/ \E q \in KbRequests \ {r} : n = Text(q)
      BY <1>1, <3>1
    <3> QED
      BY <1>0, <1>9, <3>2
  <2>3. \A p, q \in KbRequests : p # q /\ Text(p)' = Text(q)' => Text(p)' = 0
    BY <1>2, <1>9, <2>1 DEF KbInv, FilesOK
  <2>4. \A q \in KbRequests : AddAt(q)' /\ job'[q].pc = "moved" => Text(q)' \in uploads
    BY <1>0, <1>7, <1>9 DEF KbInv, FilesOK
  <2> QED
    BY <1>0, <1>9, <2>2, <2>3, <2>4 DEF KbInv, FilesOK
<1>14. ASSUME NEW q \in KbRequests PROVE KbCallOK(q)'
  <2>1. CASE q = r
    BY <1>8, <2>1 DEF KbCallOK, Entering
  <2>2. CASE q # r
    BY <1>0, <1>7, <1>8, <1>9, <2>2 DEF KbInv, KbCallOK
  <2> QED
    BY <2>1, <2>2
<1>15. ASSUME NEW q \in KbRequests PROVE IndexJobOK(q)' /\ AddJobOK(q)'
  <2>1. IndexJobOK(q)'
    BY <1>9 DEF IndexJobOK
  <2>2. CASE q = r
    <3>1. \A id \in DOMAIN chunks : chunks[id].text # FreshText
      BY <1>0, <1>2 DEF KbInv, FilesOK
    <3> QED
      BY <1>0, <1>1, <1>4, <1>7, <2>1, <2>2, <3>1 DEF AddJobOK
  <2>3. CASE q # r
    BY <1>0, <1>7, <1>9, <2>1, <2>3 DEF KbInv, AddJobOK
  <2> QED
    BY <2>2, <2>3
<1>16. ASSUME NEW q \in KbRequests PROVE ClaimOK(q)'
  <2> SUFFICES ASSUME ~torn PROVE ClaimOK(q)'
    BY <1>0 DEF ClaimOK
  <2>1. Claimed(r) /\ base.adding /\ \A p \in KbRequests \ {r} : ~Claimed(p)
    <3>1. Claimed(r)
      BY <1>0 DEF Claimed
    <3> QED
      BY <1>0, <3>1 DEF KbInv, ClaimOK
  <2>2. \A p \in KbRequests \ {r} : ~Claimed(p)'
    BY <1>9, <2>1
  <2>3. ClaimOK(q)
    BY DEF KbInv
  <2>4. CASE q = r
    BY <1>0, <1>7, <2>1, <2>2, <2>4 DEF ClaimOK
  <2>5. CASE q # r
    BY <1>0, <1>7, <2>2, <2>3, <2>5 DEF ClaimOK
  <2> QED
    BY <2>4, <2>5
<1> QED
  BY <1>10, <1>11, <1>12, <1>13, <1>14, <1>15, <1>16 DEF KbInv

(* The rows of a base go, then its files. *)
LEMMA DeletesKeep ==
  ASSUME KbInv, KbTypeOK', NEW r \in KbRequests, DeleteErases(r) \/ DeleteRemoves(r)
  PROVE  KbInv'
<1>0. /\ kbCall[r].pc \in {"waiting", "erased"} /\ UNCHANGED <<cache, job, late, torn>>
      /\ kbCall[r] \in KbCallType /\ ~base'.there /\ base' = NoBase /\ chunks' = NoChunks
      /\ uploads' \subseteq uploads
  <2>1. CASE DeleteErases(r)
    BY <2>1, KbCallFits DEF DeleteErases, KbInv, NoBase
  <2>2. CASE DeleteRemoves(r)
    BY <2>2, KbCallFits DEF DeleteRemoves, KbInv, KbCallOK, BaseRowOK
  <2> QED
    BY <2>1, <2>2
<1>1. PICK pc \in {"erased", "done"} : KbGoes(r, pc)
  BY DEF DeleteErases, DeleteRemoves
<1>2. kbCall'[r].pc = pc /\ \A q \in KbRequests \ {r} : kbCall'[q] = kbCall[q]
  <2>1. kbCall'[r] = [kbCall[r] EXCEPT !.pc = pc] /\ \A q \in KbRequests \ {r} : kbCall'[q] = kbCall[q]
    BY <1>1, KbCallAt DEF KbInv, KbCallPcs
  <2> QED
    BY <1>0, <2>1 DEF KbCallType
<1>3. \A q \in KbRequests : (IndexAt(q)' <=> IndexAt(q)) /\ (AddAt(q)' <=> AddAt(q)) /\ Text(q)' = Text(q)
  BY <1>0 DEF IndexAt, AddAt, AtWork, Text
<1>4. ChunkIdsOK' /\ BaseRowOK' /\ LateOK' /\ ReadyIsWhole' /\ IndexesTold'
  <2>1. ChunkIdsOK'
    BY <1>0, IdsKept DEF Inserted
  <2> QED
    BY <1>0, <2>1 DEF KbInv, BaseRowOK, LateOK, ReadyIsWhole, IndexesTold, Living
<1>5. FilesOK'
  <2>1. uploads \subseteq {1} \cup {Text(q) : q \in KbRequests}
    BY DEF KbInv, FilesOK
  <2>2. uploads' \subseteq {1} \cup {Text(q)' : q \in KbRequests}
    BY <1>0, <1>3, <2>1
  <2>3. \A p, q \in KbRequests : p # q /\ Text(p)' = Text(q)' => Text(p)' = 0
    BY <1>3 DEF KbInv, FilesOK
  <2> QED
    BY <1>0, <2>2, <2>3 DEF FilesOK
<1>6. ASSUME NEW q \in KbRequests PROVE KbCallOK(q)'
  <2>1. \A p \in KbRequests : kbCall'[p].pc \in Entering \cup {"queued"} => kbCall'[p] = kbCall[p]
    BY <1>2 DEF Entering
  <2>2. CASE q = r
    BY <1>0, <1>2, <2>2 DEF KbInv, KbCallOK, Entering
  <2>3. CASE q # r
    BY <1>0, <1>2, <2>1, <2>3 DEF KbInv, KbCallOK
  <2> QED
    BY <2>2, <2>3
<1>7. ASSUME NEW q \in KbRequests PROVE IndexJobOK(q)' /\ AddJobOK(q)' /\ ClaimOK(q)'
  <2>1. \A p \in KbRequests : kbCall'[p].pc \in Entering \cup {"queued"} => kbCall'[p] = kbCall[p]
    BY <1>2 DEF Entering
  <2>2. IndexJobOK(q)'
    BY <1>0, <1>3, <2>1 DEF KbInv, IndexJobOK
  <2>3. AddJobOK(q)'
    BY <1>0, <1>3, NoRows DEF KbInv, AddJobOK
  <2>4. ClaimOK(q)'
    BY <1>0 DEF ClaimOK
  <2> QED
    BY <2>2, <2>3, <2>4
<1> QED
  BY <1>4, <1>5, <1>6, <1>7 DEF KbInv

(* The thread of a cancelled job writes its index after all: nobody has it. *)
LEMMA LateWriteKeeps == ASSUME KbInv, KbTypeOK', LateWrite PROVE KbInv'
<1>0. /\ late # NoIndex /\ index' = late /\ late' = NoIndex
      /\ UNCHANGED <<base, chunks, uploads, cache, kbCall, job, torn>>
      /\ base.there => base.status \in {"indexing", "failed"}
  BY DEF LateWrite, KbInv, LateOK
<1>1. \A q \in KbRequests : (IndexAt(q)' <=> IndexAt(q)) /\ (AddAt(q)' <=> AddAt(q)) /\ (Claimed(q)' <=> Claimed(q))
  BY <1>0 DEF IndexAt, AddAt, AtWork, Claimed
<1>2. ChunkIdsOK' /\ BaseRowOK' /\ LateOK' /\ ReadyIsWhole' /\ FilesOK'
  <2>1. FilesOK'
    BY <1>0, <1>1 DEF KbInv, FilesOK, Text
  <2> QED
    BY <1>0, <2>1 DEF KbInv, ChunkIdsOK, Inserted, BaseRowOK, LateOK, ReadyIsWhole
<1>3. IndexesTold'
  BY <1>0, NothingTold DEF KbInv, IndexesTold, Living
<1>4. ASSUME NEW q \in KbRequests PROVE KbCallOK(q)' /\ IndexJobOK(q)' /\ AddJobOK(q)' /\ ClaimOK(q)'
  <2>1. KbCallOK(q) /\ IndexJobOK(q) /\ AddJobOK(q) /\ ClaimOK(q)
    BY DEF KbInv
  <2>2. KbCallOK(q)' /\ AddJobOK(q)' /\ ClaimOK(q)'
    BY <1>0, <1>1, <2>1 DEF KbCallOK, AddJobOK, ClaimOK
  <2>3. IndexAt(q) => job[q].pc = "failing"
    BY <1>0, <2>1 DEF IndexJobOK
  <2>4. IndexJobOK(q)'
    BY <1>0, <1>1, <2>1, <2>3 DEF IndexJobOK
  <2> QED
    BY <2>2, <2>4
<1> QED
  BY <1>2, <1>3, <1>4 DEF KbInv

LEMMA ShutdownKeeps == ASSUME KbInv, KbTypeOK', KbShutdown PROVE KbInv'
<1>1. \A q \in KbRequests : SameJob(job'[q], job[q])
  <2>1. \A q \in KbRequests : job[q] \in JobType
    BY DEF KbInv, KbTypeOK
  <2>2. \A q \in KbRequests : job'[q] = job[q] \/ job'[q] = [job[q] EXCEPT !.cancelled = TRUE]
    BY DEF KbShutdown
  <2> QED
    BY <2>1, <2>2 DEF JobType, SameJob
<1>2. \A q \in KbRequests : Looks(q)
  BY DEF KbShutdown, Looks
<1> QED
  BY <1>1, <1>2, LookKeeps DEF KbShutdown, KbInv, IndexesTold

(* The Agent starts again: what was under way is settled from the rows. *)
LEMMA KbRestartKeeps == ASSUME KbInv, KbTypeOK', KbRestart PROVE KbInv'
<1>0. /\ base \in BaseType /\ late' = NoIndex /\ cache' = NoIndex
      /\ torn' = (torn \/ \E j \in KbRequests : job[j].pc = "committed")
  BY DEF KbRestart, KbInv, KbTypeOK
<1>1. ASSUME NEW q \in KbRequests
      PROVE  /\ job'[q].pc \in {"absent", "done"} /\ job'[q].entry = job[q].entry
             /\ job'[q].pc = "absent" <=> job[q].pc = "absent"
             /\ kbCall'[q].pc \in {"new", "done"} /\ (kbCall'[q].pc = "new" => kbCall[q].pc = "new")
  <2>1. job[q] \in JobType /\ kbCall[q] \in KbCallType
    BY JobFits, KbCallFits DEF KbInv
  <2>2. job'[q] = IF AtWork(q) THEN [job[q] EXCEPT !.pc = "done"] ELSE job[q]
    BY DEF KbRestart
  <2>3. kbCall'[q] = IF kbCall[q].pc = "new" THEN kbCall[q] ELSE [kbCall[q] EXCEPT !.pc = "done"]
    BY DEF KbRestart
  <2> QED
    BY <2>1, <2>2, <2>3 DEF JobType, KbCallType, AtWork
<1>2. \A q \in KbRequests : ~IndexAt(q)' /\ ~AddAt(q)' /\ ~Claimed(q)' /\ Text(q)' = Text(q)
  BY <1>1 DEF IndexAt, AddAt, AtWork, Claimed, Text
<1>3. base'.there = base.there /\ (~base.there => UNCHANGED <<base, chunks, index, uploads>>)
  BY <1>0 DEF KbRestart, Recovered, BaseType
<1>4. base.there =>
        \/ base'.status = "failed" /\ chunks' = NoChunks /\ uploads' = uploads
        \/ /\ base'.status = base.status /\ base.status \in {"ready", "failed"} /\ UNCHANGED <<chunks, index>>
           /\ uploads' \in {uploads, uploads \cap {chunks[id].text : id \in DOMAIN chunks}}
  <2>1. CASE base.status \in {"queued", "indexing"}
    BY <1>0, <2>1 DEF KbRestart, Recovered, BaseType
  <2>2. CASE base.status \notin {"queued", "indexing"}
    BY <1>0, <2>2 DEF KbRestart, Recovered, BaseType
  <2> QED
    BY <2>1, <2>2
<1>5. ChunkIdsOK' /\ BaseRowOK' /\ LateOK'
  <2>1. Inserted \subseteq Inserted'
    BY <1>1 DEF Inserted
  <2>2. ChunkIdsOK'
    BY <1>3, <1>4, <2>1, IdsKept
  <2> QED
    BY <1>0, <1>3, <1>4, <2>2 DEF KbInv, BaseRowOK, LateOK
<1>6. ReadyIsWhole'
  BY <1>0, <1>3, <1>4 DEF KbInv, ReadyIsWhole
<1>7. IndexesTold'
  <2>1. Living' => Living /\ UNCHANGED <<chunks, index>>
    BY <1>3, <1>4 DEF Living
  <2> QED
    BY <1>0, <1>1, <2>1, NothingTold DEF KbInv, IndexesTold
<1>8. FilesOK'
  <2>1. uploads' \subseteq uploads
    BY <1>3, <1>4
  <2>2. base.there => \A id \in DOMAIN chunks' : chunks'[id].text \in uploads'
    BY <1>4, NoRows DEF KbInv, FilesOK
  <2> QED
    BY <1>1, <1>2, <1>3, <2>1, <2>2 DEF KbInv, FilesOK
<1>9. ASSUME NEW q \in KbRequests PROVE KbCallOK(q)' /\ IndexJobOK(q)' /\ AddJobOK(q)' /\ ClaimOK(q)'
  <2>1. KbCallOK(q)'
    BY <1>1 DEF KbInv, KbCallOK, Entering
  <2>2. IndexJobOK(q)' /\ AddJobOK(q)' /\ ClaimOK(q)'
    BY <1>1, <1>2 DEF IndexJobOK, AddJobOK, ClaimOK
  <2> QED
    BY <2>1, <2>2
<1> QED
  BY <1>5, <1>6, <1>7, <1>8, <1>9 DEF KbInv

LEMMA KbStep == ASSUME KbInv, [KbNext]_kbVars PROVE KbInv'
<1>1. KbTypeOK'
  BY KbTypeStep
<1>2. CASE UNCHANGED kbVars
  <2>1. \A q \in KbRequests : Looks(q) /\ SameJob(job[q], job[q])
    BY <1>2 DEF kbVars, Looks, SameJob
  <2> QED
    BY <1>1, <1>2, <2>1, LookKeeps DEF kbVars, KbInv, IndexesTold
<1>3. CASE \E r \in KbRequests : AddClaims(r) \/ AddReleases(r)
  <2>1. PICK r \in KbRequests : AddClaims(r) \/ AddReleases(r)
    BY <1>3
  <2>2. CASE KbGoes(r, "done") /\ UNCHANGED base /\ AddClaims(r)
    <3>1. (Living => Told(cache, chunks)) /\ \A q \in KbRequests : SameJob(job[q], job[q])
      BY DEF KbInv, IndexesTold, SameJob
    <3> QED
      BY <1>1, <2>2, <3>1, RequestEnds DEF AddClaims
  <2>3. CASE AddClaims(r) /\ ~(KbGoes(r, "done") /\ UNCHANGED base)
    BY <1>1, <2>3, ClaimMoves DEF AddClaims
  <2>4. CASE AddReleases(r)
    BY <1>1, <2>4, ClaimMoves DEF AddReleases
  <2> QED
    BY <2>1, <2>2, <2>3, <2>4
<1> QED
  BY <1>1, <1>2, <1>3, JobStepKeeps, TimesOutKeeps, LooksKeep, CreateKeeps, CreateSpawnsKeeps, AddSpawnsKeeps,
     DeletesKeep, LateWriteKeeps, ShutdownKeeps, KbRestartKeeps DEF KbNext, KbCallStep

LEMMA KbStart == ASSUME KbInit PROVE KbInv
<1> DEFINE f0 == CHOOSE f \in Sources : TRUE
<1>0. f0 \in Sources /\ NoBase \in BaseType /\ NoChunks \in Entries /\ MaxId \in Nat \ {0} /\ KbCrashes \in Nat
      /\ DOMAIN NoChunks = {}
  BY KbAssumption, NoKbBase, NoRows, TableFits
<1>1. PICK f \in Sources, there \in BOOLEAN :
        LET one == IF there THEN [id \in {1} |-> [source |-> f, text |-> 1]] ELSE NoChunks IN
        /\ base = IF there THEN [NoBase EXCEPT !.there = TRUE, !.status = "ready", !.count = 1]
                  ELSE NoBase
        /\ chunks = one /\ index = IF there THEN one ELSE NoIndex
        /\ uploads = DOMAIN one /\ cache \in {NoIndex, index}
  BY DEF KbInit
<1>2. ASSUME NEW r \in KbRequests
      PROVE  /\ kbCall[r].pc = "new" /\ kbCall[r] \in KbCallType /\ job[r].pc = "absent"
             /\ job[r] \in JobType /\ Text(r) = 0 /\ job[r].kind = "index"
  <2>1. kbCall[r] = [source |-> f0, copy |-> NoBase, view |-> NoIndex,
                     replaces |-> {}, awaits |-> NoKbJob, pc |-> "new"]
    BY DEF KbInit
  <2>2. job[r] = [kind |-> "index", replaces |-> {}, entry |-> [source |-> f0, text |-> 0],
                  index |-> NoChunks, cancelled |-> FALSE, kept |-> FALSE, pc |-> "absent"]
    BY DEF KbInit
  <2> HIDE DEF f0
  <2>3. 0 \in 0..MaxId
    BY <1>0
  <2>4. kbCall[r] \in KbCallType
    BY <1>0, <2>1 DEF KbCallType
  <2>5. [source |-> f0, text |-> 0] \in [source : Sources, text : 0..MaxId]
    BY <1>0, <2>3
  <2>6. job[r] \in JobType
    BY <1>0, <2>2, <2>5 DEF JobType
  <2> QED
    BY <2>1, <2>2, <2>4, <2>6 DEF Text
<1>3. /\ kbCall \in [KbRequests -> KbCallType] /\ job \in [KbRequests -> JobType]
      /\ jobOf = NoKbJob /\ late = NoIndex /\ stopping = FALSE /\ crashes = 0 /\ torn = FALSE
  <2>1. DOMAIN kbCall = KbRequests /\ DOMAIN job = KbRequests
        /\ kbCall = [r \in KbRequests |-> kbCall[r]] /\ job = [r \in KbRequests |-> job[r]]
    BY DEF KbInit
  <2>2. jobOf = NoKbJob /\ late = NoIndex /\ stopping = FALSE /\ crashes = 0 /\ torn = FALSE
    BY DEF KbInit
  <2> QED
    BY <1>2, <2>1, <2>2
<1> HIDE DEF f0
<1>9. jobOf \in KbRequests \cup {NoKbJob} /\ late \in Entries \cup {NoIndex} /\ stopping \in BOOLEAN
      /\ crashes \in 0..KbCrashes /\ torn \in BOOLEAN
  <2>1. crashes \in 0..KbCrashes
    BY <1>0, <1>3
  <2> QED
    BY <1>3, <2>1
<1>4. \A q \in KbRequests : ~IndexAt(q) /\ ~AddAt(q) /\ ~Claimed(q)
  BY <1>2 DEF IndexAt, AddAt, AtWork, Claimed
<1>5. \A q \in KbRequests : KbCallOK(q) /\ IndexJobOK(q) /\ AddJobOK(q) /\ ClaimOK(q)
  BY <1>2, <1>4 DEF KbCallOK, IndexJobOK, AddJobOK, ClaimOK, Entering, Text
<1>6. Inserted = {} /\ Cardinality(Inserted) = 0
  <2>1. Inserted = {}
    BY <1>2 DEF Inserted
  <2> QED
    BY <2>1, FS_EmptySet
<1>7. CASE there = FALSE
  <2>1. base = NoBase /\ chunks = NoChunks /\ index = NoIndex /\ uploads = {} /\ cache = NoIndex
    BY <1>0, <1>1, <1>7
  <2>2. KbTypeOK
    BY <1>0, <1>3, <1>9, <2>1 DEF KbTypeOK
  <2>3. ChunkIdsOK /\ BaseRowOK /\ LateOK /\ IndexesTold /\ ReadyIsWhole
    BY <1>0, <1>3, <2>1 DEF ChunkIdsOK, BaseRowOK, LateOK, IndexesTold, Living, ReadyIsWhole, NoBase
  <2>4. FilesOK
    BY <1>2, <2>1 DEF FilesOK, NoBase
  <2> QED
    BY <1>5, <2>2, <2>3, <2>4 DEF KbInv
<1>8. CASE there = TRUE
  <2> DEFINE e == [source |-> f, text |-> 1]
             row == [id \in {1} |-> e]
  <2>1. /\ base = [NoBase EXCEPT !.there = TRUE, !.status = "ready", !.count = 1]
        /\ chunks = row /\ index = row /\ uploads = DOMAIN row /\ cache \in {NoIndex, row}
    BY <1>1, <1>8
  <2>2. 1 \in KbIds /\ 1 \in 0..MaxId
    BY <1>0 DEF KbIds
  <2>3. e \in KbEntry /\ e.text = 1
    BY <2>2 DEF KbEntry
  <2> HIDE DEF e
  <2>4. row \in Entries /\ DOMAIN row = {1} /\ row[1] = e
    <3>1. row \in [{1} -> KbEntry] /\ {1} \in SUBSET KbIds
      BY <2>2, <2>3
    <3> QED
      BY <3>1 DEF Entries
  <2> HIDE DEF row
  <2>5. base \in BaseType /\ base.there /\ base.status = "ready"
    BY <1>0, <2>1, <2>2 DEF BaseType
  <2>6. KbTypeOK
    <3>1. chunks \in Entries /\ index \in Entries \cup {NoIndex} /\ cache \in Entries \cup {NoIndex}
      BY <2>1, <2>4
    <3>2. uploads \in SUBSET KbIds
      BY <2>1, <2>2, <2>4
    <3> QED
      BY <1>3, <1>9, <2>5, <3>1, <3>2 DEF KbTypeOK
  <2>7. ChunkIdsOK
    BY <1>6, <2>1, <2>4 DEF ChunkIdsOK
  <2>8. BaseRowOK /\ LateOK /\ ReadyIsWhole
    BY <1>3, <2>1, <2>5 DEF BaseRowOK, LateOK, ReadyIsWhole
  <2>9. IndexesTold
    <3>1. NextRow(row) \in Nat \ {0} /\ \A k \in DOMAIN row : k < NextRow(row)
      <4>1. 1 \in Nat /\ DOMAIN row \subseteq 1..1 /\ \E m \in DOMAIN row : \A k \in DOMAIN row : k <= m
        BY <2>4
      <4> QED
        BY <4>1, NextRowFits
    <3>2. Told(row, row) /\ Told(NoIndex, row)
      BY <2>4, <3>1 DEF Told, NoIndex
    <3> QED
      BY <1>2, <1>3, <2>1, <3>2 DEF IndexesTold
  <2>10. FilesOK
    BY <1>2, <1>4, <2>1, <2>3, <2>4 DEF FilesOK
  <2> QED
    BY <1>5, <2>6, <2>7, <2>8, <2>9, <2>10 DEF KbInv
<1> QED
  BY <1>7, <1>8

LEMMA KbIsSound ==
  ASSUME KbInv
  PROVE  KbTypeOK /\ ReadyIsWhole /\ FailedIsEmpty /\ AdditionIsolated /\ DocumentsHaveFiles /\ SearchTruthful
<1>1. KbTypeOK /\ ReadyIsWhole /\ FailedIsEmpty /\ DocumentsHaveFiles
  BY DEF KbInv, BaseRowOK, FailedIsEmpty, FilesOK, DocumentsHaveFiles
<1>2. AdditionIsolated
  <2> SUFFICES ASSUME NEW j \in KbRequests, job[j].kind = "add", job[j].pc \in {"waiting", "embedded", "moved"},
                      base.there, ~torn
               PROVE  base.adding /\ chunks = job[j].index
    BY DEF AdditionIsolated
  <2>1. ClaimOK(j) /\ Claimed(j)
    BY DEF KbInv, Claimed
  <2> QED
    BY <2>1 DEF ClaimOK
<1>3. SearchTruthful
  <2> SUFFICES ASSUME NEW r \in KbRequests, kbCall[r].pc = "searching",
                      NEW id \in DOMAIN kbCall[r].view \cap DOMAIN chunks
               PROVE  chunks[id] = kbCall[r].view[id]
    BY DEF SearchTruthful
  <2>1. Living
    <3>1. ~Living => chunks = NoChunks
      BY DEF KbInv, BaseRowOK, Living
    <3> QED
      BY <3>1, NoRows
  <2>2. Told(kbCall[r].view, chunks)
    BY <2>1 DEF KbInv, IndexesTold
  <2> QED
    BY <2>2 DEF Told
<1> QED
  BY <1>1, <1>2, <1>3

(* However jobs, additions, searches and deletions overlap, fail and are   *)
(* cut off by kills: the index of a ready base has its chunks, a failed    *)
(* base has none, an addition works on the base it was accepted for, every *)
(* document has its file, and no search takes one text for another.        *)
THEOREM BasesAreSound == ServicesSpec => []BasesSound
<1> DEFINE Inv == focus = "kb" => KbInv
<1>1. ServicesInit => Inv
  BY KbStart DEF ServicesInit
<1>2. Inv /\ [ServicesNext]_servicesVars => Inv'
  BY FocusMoves, KbStep
<1>3. Inv => BasesSound
  BY KbIsSound DEF BasesSound
<1> QED
  BY <1>1, <1>2, <1>3, PTL DEF ServicesSpec
=============================================================================
