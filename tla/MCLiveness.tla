----------------------------- MODULE MCLiveness -----------------------------
(***************************************************************************)
(* What is begun ends: the components that make somebody wait, in one      *)
(* instance for TLC.  They share no state with each other; in a behaviour  *)
(* one of them, the focus, moves, and only of its steps is fairness asked. *)
(***************************************************************************)
EXTENDS TaskLifecycle, McpSessions, KbIndexing, CodeReview, Release, Supervisor, StartUp, TLC

CONSTANTS
  SchedulerJobs, OnceJobs, MaxRuns, SchedulerRequests, SchedulerOps, MaxParallel, MaxSlot,
  MaxRows, MaxCrashes, Chats, ChatRequests, ChatOps, GateCap, MaxChatFaults, MaxMsg

VARIABLES
  focus, schedJob, rows, phase, claim, schedRequest, agent, schedCrashes,
  chat, message, popped, lock, chatRequest, gone, faults

scheduler == INSTANCE Scheduler WITH
  Jobs <- SchedulerJobs, Requests <- SchedulerRequests, Ops <- SchedulerOps,
  job <- schedJob, request <- schedRequest, crashes <- schedCrashes

chats == INSTANCE ChatTurn WITH
  Requests <- ChatRequests, Ops <- ChatOps, Leavers <- ChatRequests,
  MaxFaults <- MaxChatFaults, request <- chatRequest

MCJob == CHOOSE j \in SchedulerJobs : TRUE

Components == {"tasks", "scheduler", "chats", "mcp", "kb", "review", "release",
               "supervisor", "startUp"}

schedulerVars == <<schedJob, rows, phase, claim, schedRequest, agent, schedCrashes>>
chatVars == <<chat, message, popped, lock, chatRequest, gone, faults>>
livenessVars == <<focus, vars, schedulerVars, chatVars, mcpVars, kbVars, crVars, relVars,
  supVars, startVars>>

\* A component that is not the focus stays in one of its initial states.
LivenessInit ==
  /\ focus \in Components
  /\ Init /\ (focus # "tasks" => \A r \in Requests : request[r].op = "pause")
  /\ scheduler!Init
  /\ focus # "scheduler" => \A q \in SchedulerRequests :
       schedRequest[q].op = "pause" /\ {schedRequest[q].job, claim.job} = {MCJob}
  /\ chats!Init
  /\ focus # "chats" => /\ \A q \in ChatRequests : chatRequest[q].op = "ws"
                        /\ DOMAIN message = {}
  /\ McpInit /\ (focus # "mcp" => \A s \in Servers : config[s].auto)
  /\ KbInit /\ (focus # "kb" => ~base.there)
  /\ CrInit /\ RelInit
  /\ SupInit /\ (focus # "supervisor" => stray = "gone")
  /\ StartInit /\ (focus # "startUp" => file.tables = {})

OnlyMoves(c) ==
  /\ UNCHANGED focus
  /\ c # "tasks" => UNCHANGED vars
  /\ c # "scheduler" => UNCHANGED schedulerVars
  /\ c # "chats" => UNCHANGED chatVars
  /\ c # "mcp" => UNCHANGED mcpVars
  /\ c # "kb" => UNCHANGED kbVars
  /\ c # "review" => UNCHANGED crVars
  /\ c # "release" => UNCHANGED relVars
  /\ c # "supervisor" => UNCHANGED supVars
  /\ c # "startUp" => UNCHANGED startVars

LivenessNext ==
  \/ focus = "tasks" /\ Next /\ OnlyMoves("tasks")
  \/ focus = "scheduler" /\ scheduler!Next /\ OnlyMoves("scheduler")
  \/ focus = "chats" /\ chats!Next /\ OnlyMoves("chats")
  \/ focus = "mcp" /\ McpNext /\ OnlyMoves("mcp")
  \/ focus = "kb" /\ KbNext /\ OnlyMoves("kb")
  \/ focus = "review" /\ CrNext /\ OnlyMoves("review")
  \/ focus = "release" /\ RelNext /\ OnlyMoves("release")
  \/ focus = "supervisor" /\ SupNext /\ OnlyMoves("supervisor")
  \/ focus = "startUp" /\ StartNext /\ OnlyMoves("startUp")

\* The fairness of each component (see there), asked of the focus.
FocusFairness ==
  /\ \A c \in Turns : WF_vars(focus = "tasks" /\ TurnEnds(c))
  /\ \A r \in Requests : WF_vars(focus = "tasks" /\ (Serve(r) \/ ServeFails(r)))
  /\ WF_schedulerVars(focus = "scheduler" /\ scheduler!ClaimStep)
  /\ \A r \in scheduler!RunIds : WF_schedulerVars(focus = "scheduler" /\ scheduler!RunStep(r))
  /\ \A q \in SchedulerRequests :
       WF_schedulerVars(focus = "scheduler" /\ scheduler!RequestStep(q))
  /\ WF_schedulerVars(focus = "scheduler" /\ agent = "stopping" /\ scheduler!Crash)
  /\ WF_schedulerVars(focus = "scheduler" /\ scheduler!RecoverRuns)
  /\ WF_schedulerVars(focus = "scheduler" /\ scheduler!RecoverJobs)
  /\ \A q \in ChatRequests :
       WF_chatVars(focus = "chats" /\ (chats!TurnStep(q) \/ chats!OtherStep(q)))
  /\ \A r \in McpRequests : WF_mcpVars(focus = "mcp" /\ CallStep(r))
  /\ \A h \in 1..Cardinality(McpRequests) :
       WF_mcpVars(focus = "mcp" /\ h <= Len(handle) /\ (HandshakeDone(h) \/ HandshakeFails(h)))
  /\ \A r \in KbRequests :
       WF_kbVars(focus = "kb" /\ KbCallStep(r)) /\ WF_kbVars(focus = "kb" /\ JobStep(r))
  /\ \A r \in ReviewRequests : WF_crVars(focus = "review" /\ RevStep(r))
  /\ \A r \in ReleaseRequests :
       WF_relVars(focus = "release" /\ RelStep(r)) /\ WF_relVars(focus = "release" /\ ToolStep(r))
  /\ WF_supVars(focus = "supervisor" /\ Supervises)
  /\ WF_supVars(focus = "supervisor" /\ OwnBinds)
  /\ WF_supVars(focus = "supervisor" /\ StrayBinds)
  /\ \A p \in Procs : WF_startVars(focus = "startUp" /\ Prepares(p))

LivenessSpec == LivenessInit /\ [][LivenessNext]_livenessVars /\ FocusFairness
-----------------------------------------------------------------------------
MCRepoOf == [b \in Branches |-> "repository"]
MCTrees == {"a" :> 1, "a" :> 2, "a" :> 2 @@ "b" :> 1}
MCFirst == <<1, 0>>
MCVersions == {<<1, 0>>, <<1, 1>>, <<2, 0>>}

\* Every request is answered, every run and every job of an index, a review or a release
\* ends, the Agent comes back and a start that goes well serves: no lock, slot, session or
\* status is kept for ever (tasks.py, scheduler.py, main.py, mcp_client.py, kb_indexer.py,
\* review_api.py, release_executor.py, ui/supervisor.py, database.py).
EverythingSettles ==
  /\ EveryRequestAnswered
  /\ scheduler!RunningEnds /\ scheduler!ExhaustedCompletes
  /\ chats!EveryRequestEnds
  /\ McpRequestsEnd /\ KbSettles /\ CrRequestsEnd /\ RelRequestsEnd
  /\ focus = "supervisor" => AgentComesBack
  /\ focus = "startUp" => StartsServe
=============================================================================
