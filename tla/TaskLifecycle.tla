--------------------------- MODULE TaskLifecycle ---------------------------
(***************************************************************************)
(* The tasks of one chat: agent/tasks.py, the tool handlers of             *)
(* agent/tools.py that a chat turn calls, and the three REST endpoints of  *)
(* agent/main.py that pause, resume and cancel a task.                     *)
(*                                                                         *)
(* A turn and an endpoint exclude each other by the chat's asyncio.Lock.   *)
(* An endpoint, however, loads the task row BEFORE it queues for the lock, *)
(* and inside the lock session.get returns the loaded object from the      *)
(* session's identity map: the decision is taken on a copy that may be     *)
(* stale.  The copy is kept in the request's record here.                  *)
(***************************************************************************)
EXTENDS Naturals, Sequences

CONSTANTS
  Tasks,      \* identifiers of the rows of table Task
  Requests,   \* REST requests, each made once
  Turns,      \* chat turns, each run once
  MaxCalls,   \* bound: task tool calls one turn makes
  Free        \* the "holder" of an unlocked chat lock

Clients == Requests \cup Turns

ASSUME TaskAssumption ==
  /\ MaxCalls \in Nat
  /\ Requests \cap Turns = {}
  /\ Free \notin Clients

(* TaskState, and the value of a column that has no row yet. *)
TaskState == {"planning", "execution", "validation", "done", "cancelled"}
Absent == "absent"

ForwardEdges == {<<"planning", "execution">>, <<"execution", "validation">>,
                 <<"validation", "done">>}
BackwardEdges == {<<"execution", "planning">>, <<"validation", "execution">>}
TerminalStates == {"done", "cancelled"}

(* _legal_targets: no move leaves a terminal state, every other state has  *)
(* its one forward and its one backward edge.                              *)
LegalTargets(from) ==
  IF from \in TerminalStates THEN {}
  ELSE {to \in TaskState : <<from, to>> \in ForwardEdges \cup BackwardEdges}

(* One row of the append-only table TaskTransition. *)
Row == [from : TaskState \cup {Absent}, to : TaskState, rejected : BOOLEAN]
Accepted(from, to) == [from |-> from, to |-> to, rejected |-> FALSE]
Rejected(from, to) == [from |-> from, to |-> to, rejected |-> TRUE]

Operations == {"pause", "resume", "cancel"}

VARIABLES
  state,    \* Task.state of each task, Absent before its creation
  paused,   \* Task.is_paused of each task
  history,  \* the TaskTransition rows of each task, oldest first
  queue,    \* the chat lock: its head holds the lock, the rest wait
  request,  \* the endpoint calls: progress, operation and the loaded copy
  turn      \* the chat turns: progress and task tool calls made

vars == <<state, paused, history, queue, request, turn>>

NoRequest(tasks) ==
  [pc : {"new"}, op : Operations, task : tasks,
   copyState : {Absent}, copyPaused : {FALSE}]

Init ==
  /\ state = [t \in Tasks |-> Absent]
  /\ paused = [t \in Tasks |-> FALSE]
  /\ history = [t \in Tasks |-> <<>>]
  /\ queue = <<>>
  /\ request \in [Requests -> NoRequest(Tasks)]
  /\ turn = [c \in Turns |-> [pc |-> "new", calls |-> 0]]

Holder == IF queue = <<>> THEN Free ELSE Head(queue)

(* asyncio.Lock serves its waiters in arrival order. *)
Join(c) == queue' = Append(queue, c)
Release == queue' = Tail(queue)

Log(t, row) == history' = [history EXCEPT ![t] = Append(@, row)]

----------------------------------------------------------------------------
(* The service functions.  Each is called with the state and the flag its  *)
(* caller's session holds for the row; the write is one commit.            *)

(* A transition that leaves its audit row out when the move goes back.     *)
TransitionTaskUnlogged(t, copyState, new) ==
  /\ new \in LegalTargets(copyState)
  /\ state' = [state EXCEPT ![t] = new]
  /\ IF <<copyState, new>> \in BackwardEdges THEN UNCHANGED history
     ELSE Log(t, Accepted(copyState, new))
  /\ UNCHANGED paused

(* An UPDATE that names every column of the loaded copy. *)
SetPausedWholeRow(t, copyState, copyPaused, flag) ==
  /\ copyState \notin TerminalStates
  /\ flag \/ copyPaused
  /\ paused' = [paused EXCEPT ![t] = flag]
  /\ state' = [state EXCEPT ![t] = copyState]
  /\ UNCHANGED history

(* A cancel without its audit row. *)
CancelTaskUnlogged(t, copyState) ==
  /\ copyState \notin TerminalStates
  /\ state' = [state EXCEPT ![t] = "cancelled"]
  /\ UNCHANGED <<paused, history>>

(* tasks.transition_task *)
TransitionTask(t, copyState, new) ==
  /\ IF new \in LegalTargets(copyState)
     THEN /\ state' = [state EXCEPT ![t] = new]
          /\ Log(t, Accepted(copyState, new))
     ELSE /\ Log(t, Rejected(copyState, new))
          /\ UNCHANGED state
  /\ UNCHANGED paused

(* tasks.set_paused.  The UPDATE names is_paused only when it differs from *)
(* the loaded copy; a refusal leaves a self-loop row.                      *)
SetPaused(t, copyState, copyPaused, flag) ==
  /\ IF copyState \in TerminalStates \/ (~flag /\ ~copyPaused)
     THEN /\ Log(t, Rejected(copyState, copyState))
          /\ UNCHANGED paused
     ELSE /\ paused' = [paused EXCEPT ![t] = IF flag = copyPaused THEN @ ELSE flag]
          /\ UNCHANGED history
  /\ UNCHANGED state

(* tasks.cancel_task *)
CancelTask(t, copyState) ==
  /\ IF copyState \in TerminalStates
     THEN /\ Log(t, Rejected(copyState, "cancelled"))
          /\ UNCHANGED state
     ELSE /\ state' = [state EXCEPT ![t] = "cancelled"]
          /\ Log(t, Accepted(copyState, "cancelled"))
  /\ UNCHANGED paused

----------------------------------------------------------------------------
(* The chat turn: agent/ws.py takes the chat lock and runs the tool calls  *)
(* the model asks for.  Its session reads the rows under the lock, so it   *)
(* decides on the stored values.                                           *)

TurnArrives(c) ==
  /\ turn[c].pc = "new"
  /\ turn' = [turn EXCEPT ![c].pc = "queued"]
  /\ Join(c)
  /\ UNCHANGED <<state, paused, history, request>>

Calls(c) ==
  /\ turn[c].pc = "queued"
  /\ Holder = c
  /\ turn[c].calls < MaxCalls
  /\ turn' = [turn EXCEPT ![c].calls = @ + 1]
  /\ UNCHANGED <<queue, request>>

(* tool create_task: the row and its creation transition in one commit. *)
ToolCreate(c) ==
  /\ Calls(c)
  /\ \E t \in Tasks :
       /\ state[t] = Absent
       /\ state' = [state EXCEPT ![t] = "planning"]
       /\ Log(t, Accepted(Absent, "planning"))
  /\ UNCHANGED paused

(* tool transition_task; cancelled is refused by the tool's schema. *)
ToolTransition(c) ==
  /\ Calls(c)
  /\ \E t \in Tasks, new \in TaskState \ {"cancelled"} :
       /\ state[t] # Absent
       /\ TransitionTask(t, state[t], new)

(* tools pause_task and resume_task *)
ToolPause(c) ==
  /\ Calls(c)
  /\ \E t \in Tasks, flag \in BOOLEAN :
       /\ state[t] # Absent
       /\ SetPaused(t, state[t], paused[t], flag)

(* The turn ends, by its done frame or by any failure of the turn. *)
TurnEnds(c) ==
  /\ turn[c].pc = "queued"
  /\ Holder = c
  /\ turn' = [turn EXCEPT ![c].pc = "ended"]
  /\ Release
  /\ UNCHANGED <<state, paused, history, request>>

----------------------------------------------------------------------------
(* The endpoints.  Load is _get_task_or_404 and the request for the lock.  *)

Load(r) ==
  LET t == request[r].task
  IN /\ request[r].pc = "new"
     /\ state[t] # Absent
     /\ request' = [request EXCEPT ![r].pc = "loaded",
                                   ![r].copyState = state[t],
                                   ![r].copyPaused = paused[t]]
     /\ Join(r)
     /\ UNCHANGED <<state, paused, history, turn>>

(* The body of the async with block: the service call on the loaded copy,  *)
(* answered by the task (200) or by the refusal (409).                     *)
Serve(r) ==
  LET q == request[r]
      refused == \/ q.copyState \in TerminalStates
                 \/ q.op = "resume" /\ ~q.copyPaused
  IN /\ q.pc = "loaded"
     /\ Holder = r
     /\ \/ q.op = "cancel" /\ CancelTask(q.task, q.copyState)
        \/ q.op = "pause" /\ SetPaused(q.task, q.copyState, q.copyPaused, TRUE)
        \/ q.op = "resume" /\ SetPaused(q.task, q.copyState, q.copyPaused, FALSE)
     /\ request' = [request EXCEPT ![r].pc = IF refused THEN "conflict" ELSE "ok"]
     /\ Release
     /\ UNCHANGED turn

(* A commit that fails is rolled back and leaves the lock by the exception. *)
ServeFails(r) ==
  /\ request[r].pc = "loaded"
  /\ Holder = r
  /\ request' = [request EXCEPT ![r].pc = "failed"]
  /\ Release
  /\ UNCHANGED <<state, paused, history, turn>>

----------------------------------------------------------------------------
TurnStep(c) == TurnArrives(c) \/ ToolCreate(c) \/ ToolTransition(c)
               \/ ToolPause(c) \/ TurnEnds(c)

RequestStep(r) == Load(r) \/ Serve(r) \/ ServeFails(r)

Next == (\E c \in Turns : TurnStep(c)) \/ (\E r \in Requests : RequestStep(r))

(* The event loop runs every ready coroutine: a client that holds the lock *)
(* goes on until it releases it.  Arrivals are the users' choice.          *)
Fairness ==
  /\ \A c \in Turns : WF_vars(TurnEnds(c))
  /\ \A r \in Requests : WF_vars(Serve(r) \/ ServeFails(r))

Spec == Init /\ [][Next]_vars
FairSpec == Spec /\ Fairness

----------------------------------------------------------------------------
(* Every variable has its type. *)
TypeOK ==
  /\ state \in [Tasks -> TaskState \cup {Absent}]
  /\ paused \in [Tasks -> BOOLEAN]
  /\ history \in [Tasks -> Seq(Row)]
  /\ queue \in Seq(Clients)
  /\ request \in [Requests ->
       [pc : {"new", "loaded", "ok", "conflict", "failed"}, op : Operations,
        task : Tasks, copyState : TaskState \cup {Absent}, copyPaused : BOOLEAN]]
  /\ turn \in [Turns -> [pc : {"new", "queued", "ended"}, calls : 0..MaxCalls]]

(* The audit trail of a task explains its state: the last accepted row of  *)
(* TaskTransition ends in the state the row of Task stores, whatever the   *)
(* interleaving of turns and endpoints.                                    *)
LastAccepted(h, i) ==
  /\ ~h[i].rejected
  /\ \A j \in (i + 1)..Len(h) : h[j].rejected

HistoryExplainsState ==
  \A t \in Tasks : state[t] # Absent =>
    \E i \in 1..Len(history[t]) :
      LastAccepted(history[t], i) /\ history[t][i].to = state[t]

(* The trail is one unbroken path of the transition graph up to the first  *)
(* cancellation: an accepted move starts where the accepted move before it *)
(* ended.  (A cancel decided on a stale copy may start elsewhere.)         *)
TrailIsPath ==
  \A t \in Tasks :
    LET h == history[t]
    IN \A j \in 2..Len(h) :
         ~h[j].rejected /\ h[j].to # "cancelled" =>
           \E i \in 1..(j - 1) :
             /\ ~h[i].rejected
             /\ h[i].to = h[j].from
             /\ \A k \in (i + 1)..(j - 1) : h[k].rejected

(* A rejected move, pause, resume or cancel only leaves its audit row: the *)
(* task keeps its state and its flag.                                      *)
RejectionChangesNothing ==
  [][\A t \in Tasks :
       Len(history'[t]) > Len(history[t]) /\ history'[t][Len(history'[t])].rejected
         => state'[t] = state[t] /\ paused'[t] = paused[t]]_vars

(* Once a task is cancelled no turn and no endpoint, however stale the row *)
(* it loaded, brings it back to life.                                      *)
CancelledIsFinal ==
  [][\A t \in Tasks : state[t] = "cancelled" => state'[t] = "cancelled"]_vars

(* A request that loaded its task is answered: nobody keeps the chat lock. *)
EveryRequestAnswered ==
  \A r \in Requests :
    request[r].pc = "loaded" ~> request[r].pc \in {"ok", "conflict", "failed"}

(* The docstring of tasks.cancel_task: the outcome of a terminal task      *)
(* cannot be overwritten by a later cancel.                                *)
TerminalOutcomeKept ==
  [][\A t \in Tasks : state[t] \in TerminalStates => state'[t] = state[t]]_vars
=============================================================================
