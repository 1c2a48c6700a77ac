----------------------------- MODULE Supervisor -----------------------------
(***************************************************************************)
(* The UI process keeps one Agent process running (src/ui/supervisor.py):  *)
(* it clears the port of orphans, launches the Agent, waits until it       *)
(* answers, and restarts one that died or hangs.  A UI that is killed      *)
(* leaves its Agent behind, perhaps before that Agent listens.             *)
(*                                                                         *)
(* uvicorn runs the start-up hooks of the Agent before it binds the port:  *)
(* a second Agent is alive, and has recovered the database, before it      *)
(* finds the port taken and exits.                                         *)
(***************************************************************************)
EXTENDS Naturals

CONSTANTS MaxFaults,     \* Agents that crash or hang
          MaxSlowStarts, \* times the start takes longer than a cycle of probes
          MaxUiDeaths    \* UI processes that are killed

VARIABLES sup,      \* [at, cycle, looping]: where the supervisor is
          own,      \* the Agent of self.process
          stray,    \* an Agent a killed UI left behind
          early,    \* that Agent did not listen yet when its UI was killed
          spent     \* [faults, slow, deaths]

supVars == <<sup, own, stray, early, spent>>

AGENT_STARTUP_CYCLES == 3

Listens(p) == p \in {"up", "hung"}
Lives(p) == p \in {"starting", "up", "hung"}
SupAt(at) == [sup EXCEPT !.at = at]

\* kill_processes_on_port: whoever listens, ours or not.
Cleared(p) == IF Listens(p) THEN "gone" ELSE p

\* _ping_health and _agent_routes_ready: our process has not exited and somebody answers.
Answers == Lives(own) /\ "up" \in {own, stray}

SupInit ==
  /\ sup = [at |-> "off", cycle |-> 0, looping |-> FALSE]
  /\ own = "gone" /\ early = FALSE
  /\ stray \in {"gone", "up", "hung"}
  /\ spent = [faults |-> 0, slow |-> 0, deaths |-> 0]

\* start and _restart_agent: orphans on the port are killed before the launch.
Clears ==
  /\ sup.at \in {"off", "clearing"}
  /\ own' = Cleared(own) /\ stray' = Cleared(stray)
  /\ sup' = SupAt("launching") /\ UNCHANGED <<early, spent>>

\* _launch_agent; the probes of the next cycle follow, or the loop when all cycles are used.
Launches ==
  /\ sup.at = "launching"
  /\ own' = IF Lives(own) THEN own ELSE "starting"
  /\ sup' = IF sup.cycle < AGENT_STARTUP_CYCLES THEN [SupAt("waiting") EXCEPT !.cycle = @ + 1]
            ELSE [at |-> "watching", cycle |-> 0, looping |-> TRUE]
  /\ UNCHANGED <<stray, early, spent>>

\* _wait_for_agent_ready
FindsReady ==
  /\ sup.at = "waiting" /\ Answers
  /\ sup' = [at |-> "watching", cycle |-> 0, looping |-> TRUE]
  /\ UNCHANGED <<own, stray, early, spent>>

\* Twenty probes without an answer; an Agent that starts is only missed when it is slow.
CycleFails ==
  /\ sup.at = "waiting" /\ ~Answers
  /\ own = "starting" => spent.slow < MaxSlowStarts
  /\ spent' = [spent EXCEPT !.slow = @ + IF own = "starting" THEN 1 ELSE 0]
  /\ sup' = SupAt("ending") /\ UNCHANGED <<own, stray, early>>

\* _shutdown_agent: terminate, wait, kill.
SupEnds == sup.at = "ending" /\ own' = "gone" /\ sup' = SupAt("clearing") /\ UNCHANGED <<stray, early, spent>>

\* _healthcheck_loop: the exit is seen at once, silence once the grace is over.
SeesTrouble ==
  /\ sup.at = "watching"
  /\ ~Lives(own) \/ (~Answers /\ own # "starting")
  /\ sup' = [SupAt("ending") EXCEPT !.cycle = 0] /\ UNCHANGED <<own, stray, early, spent>>

\* The grace ends before a slow Agent answers.
LosesPatience ==
  /\ sup.at = "watching" /\ own = "starting" /\ ~Answers /\ spent.slow < MaxSlowStarts
  /\ spent' = [spent EXCEPT !.slow = @ + 1]
  /\ sup' = [SupAt("ending") EXCEPT !.cycle = 0] /\ UNCHANGED <<own, stray, early>>

\* stop: the loop is cancelled wherever it waits, then the Agent is shut down.
Stops ==
  /\ sup.looping /\ sup.at \notin {"off", "stopped"}
  /\ own' = "gone"
  /\ sup' = [SupAt("stopped") EXCEPT !.looping = FALSE] /\ UNCHANGED <<stray, early, spent>>

\* The UI process is killed, and started again; one orphan is left at a time.
UiDies ==
  /\ spent.deaths < MaxUiDeaths /\ sup.at \notin {"off", "stopped"} /\ ~Lives(stray)
  /\ spent' = [spent EXCEPT !.deaths = @ + 1]
  /\ stray' = own /\ early' = (own = "starting") /\ own' = "gone"
  /\ sup' = [at |-> "off", cycle |-> 0, looping |-> FALSE]

Supervises == Clears \/ Launches \/ FindsReady \/ CycleFails \/ SupEnds \/ SeesTrouble

-----------------------------------------------------------------------------
(* The Agent processes *)

\* The hooks are done: the port is bound, or it is taken and the process exits.
OwnBinds ==
  /\ own = "starting"
  /\ own' = IF Listens(stray) THEN "gone" ELSE "up"
  /\ UNCHANGED <<sup, stray, early, spent>>
StrayBinds ==
  /\ stray = "starting"
  /\ stray' = IF Listens(own) THEN "gone" ELSE "up"
  /\ UNCHANGED <<sup, own, early, spent>>

SupFails ==
  /\ spent.faults < MaxFaults /\ own = "up"
  /\ own' \in {"gone", "hung"}
  /\ spent' = [spent EXCEPT !.faults = @ + 1] /\ UNCHANGED <<sup, stray, early>>

SupNext == Supervises \/ LosesPatience \/ Stops \/ UiDies \/ OwnBinds \/ StrayBinds \/ SupFails

\* The loop and the processes go on; nothing has to fail, to be slow or to be stopped.
SupFairness ==
  /\ WF_supVars(Supervises)
  /\ WF_supVars(OwnBinds) /\ WF_supVars(StrayBinds)
SupSpec == SupInit /\ [][SupNext]_supVars /\ SupFairness

-----------------------------------------------------------------------------
(* Properties *)

\* Two Agents are alive at once only when a UI was killed while its Agent was starting.
OneAgent == Lives(own) /\ Lives(stray) => early

\* When the UI has shut down, the Agent it tracked is gone.
StopLeavesNone == sup.at = "stopped" => ~Lives(own)

SupervisorSound == OneAgent /\ StopLeavesNone

\* Whatever fails, in the end the UI is stopped or its own Agent is the one that answers.
AgentComesBack == <>[](sup.at = "stopped" \/ own = "up")
=============================================================================
