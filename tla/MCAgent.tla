------------------------------ MODULE MCAgent -------------------------------
(***************************************************************************)
(* Components of the Agent, of its start and of its browser client that    *)
(* share no state with each other, in one instance for TLC: in a behaviour *)
(* one of them, the focus, moves.                                          *)
(***************************************************************************)
EXTENDS Scheduler, ScheduleTimes, ClientTab, LivePanel, StartUp, Supervisor, TLC

VARIABLE focus

Components == {"scheduler", "times", "tab", "panel", "startUp", "supervisor"}

agentVars == <<focus, vars, timeVars, tabVars, panelVars, startVars, supVars>>

\* A variable of a component that is not the focus is 0.
AgentInit ==
  /\ focus \in Components
  /\ Init
  /\ focus # "scheduler" => \A q \in Requests : request[q].op = "pause"
  /\ IF focus = "times" THEN TimesInit
     ELSE zone = 0 /\ clock = 0 /\ timed = 0 /\ due = 0 /\ since = 0
  /\ IF focus = "tab" THEN TabInit
     ELSE stored = 0 /\ cur = 0 /\ streaming = 0 /\ deferred = 0 /\ typed = 0
          /\ model = 0 /\ shown = 0 /\ statsOf = 0 /\ sockets = 0 /\ ws = 0 /\ timer = 0
          /\ reconnects = 0 /\ events = 0 /\ polling = 0 /\ jobs = 0
  /\ IF focus = "panel" THEN PanelInit
     ELSE panelOf = 0 /\ panelRows = 0 /\ panel = 0 /\ link = 0 /\ wire = 0 /\ polls = 0
          /\ loads = 0 /\ actions = 0 /\ loadsMade = 0 /\ actionsMade = 0 /\ slipped = 0
  /\ IF focus = "startUp" THEN StartInit
     ELSE file = 0 /\ procs = 0 /\ written = 0 /\ passwordShown = 0 /\ failures = 0
  /\ IF focus = "supervisor" THEN SupInit
     ELSE sup = 0 /\ own = 0 /\ stray = 0 /\ early = 0 /\ spent = 0

OnlyMoves(c) ==
  /\ UNCHANGED focus
  /\ c # "scheduler" => UNCHANGED vars
  /\ c # "times" => UNCHANGED timeVars
  /\ c # "tab" => UNCHANGED tabVars
  /\ c # "panel" => UNCHANGED panelVars
  /\ c # "startUp" => UNCHANGED startVars
  /\ c # "supervisor" => UNCHANGED supVars

AgentNext ==
  \/ focus = "scheduler" /\ Next /\ OnlyMoves("scheduler")
  \/ focus = "times" /\ TimesNext /\ OnlyMoves("times")
  \/ focus = "tab" /\ TabNext /\ OnlyMoves("tab")
  \/ focus = "panel" /\ PanelNext /\ OnlyMoves("panel")
  \/ focus = "startUp" /\ StartNext /\ OnlyMoves("startUp")
  \/ focus = "supervisor" /\ SupNext /\ OnlyMoves("supervisor")

AgentSpec == AgentInit /\ [][AgentNext]_agentVars
-----------------------------------------------------------------------------
\* Zones whose clocks are put forward or back, and times of a day for cron.
MCZones == [change : {14, 17}, before : {2}, after : {0}] \cup [change : {14, 17}, before : {0}, after : {2}]
             \cup {[change |-> 17, before |-> -1, after |-> -4], [change |-> 14, before |-> -4, after |-> -1]}
MCExprs == {{0}, {3}, {1, 2}, {2, 4, 6}, 0 .. 7}

-----------------------------------------------------------------------------
\* The next time of a job: ahead, on its cadence or on the wall clock, none skipped
\* (schedule.py).
JobTimesSound == focus = "times" => TimesSound

\* What a tab shows is of the chat that is open (app.js), and a panel that is connected shows
\* what the Agent has.
ClientSound ==
  /\ focus = "tab" => TabTypeOK /\ TabSound
  /\ focus = "panel" => PanelTypeOK /\ PanelSound

\* The file the processes serve (database.py) and the Agents the supervisor runs
\* (supervisor.py).
StartSound ==
  /\ focus = "startUp" => StartUpSound
  /\ focus = "supervisor" => SupervisorSound
=============================================================================
