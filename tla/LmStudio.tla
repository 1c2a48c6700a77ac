------------------------------ MODULE LmStudio ------------------------------
(***************************************************************************)
(* Loading and unloading models on one LM Studio host: LMStudioClient of   *)
(* agent/llm_client.py, one instance for all providers and users of the    *)
(* host (get_lm_studio_client), and the server itself, which may do what   *)
(* it was asked after the client stopped waiting.                          *)
(***************************************************************************)
EXTENDS FiniteSets, Naturals

CONSTANTS
  ModelReqs,   \* requests to load or unload
  LmModels,
  MaxStrays    \* bound: answers the host gives too late, or not at all

ASSUME LmAssumption == "free" \notin ModelReqs /\ "none" \notin LmModels

VARIABLES
  hostModels,    \* the models this client had the host load
  hostStrays,    \* of those, the ones the client was never told of
  strays,        \* how often the host was late
  currentModel,  \* _current_loaded_model, or "none"
  switchLock,    \* the request that holds _model_switch_lock, or "free"
  modelReqs      \* request -> what it does and where it stands

lmVars == <<hostModels, hostStrays, strays, currentModel, switchLock, modelReqs>>

NoSwitch == [op |-> "none", pc |-> "idle", model |-> "none", answer |-> "none"]

LmInit ==
  /\ hostModels = {} /\ hostStrays = {} /\ strays = 0
  /\ currentModel = "none" /\ switchLock = "free"
  /\ modelReqs = [r \in ModelReqs |-> NoSwitch]

LmAt(r, pc) == modelReqs[r].pc = pc
LmMoves(r, pc) == modelReqs' = [modelReqs EXCEPT ![r].pc = pc]
LmAnswers(r, answer) ==
  /\ modelReqs' = [modelReqs EXCEPT ![r].pc = "answered", ![r].answer = answer]
  /\ switchLock' = "free"

SwitchArrives(r) ==
  /\ LmAt(r, "idle")
  /\ \E op \in {"load", "unload"}, m \in LmModels :
       modelReqs' = [modelReqs EXCEPT ![r] = [op |-> op, pc |-> "waiting", model |-> m, answer |-> "none"]]
  /\ UNCHANGED <<hostModels, hostStrays, strays, currentModel, switchLock>>

(* The lock; a load of another model than the current one unloads that.    *)
LmBegins(r) ==
  /\ LmAt(r, "waiting") /\ switchLock = "free"
  /\ switchLock' = r
  /\ LmMoves(r, IF modelReqs[r].op = "load" /\ currentModel \in {"none", modelReqs[r].model} THEN "loading" ELSE "unloading")
  /\ UNCHANGED <<hostModels, hostStrays, strays, currentModel>>

(* The host does what is asked, refuses, or cannot be reached; or the      *)
(* client gives up and never learns which.                                 *)
HostLoads(m) == hostModels' = hostModels \cup {m} /\ hostStrays' = hostStrays \ {m}
HostUnloads(m) == hostModels' = hostModels \ {m} /\ hostStrays' = hostStrays \ {m}
HostDoesNothing == UNCHANGED <<hostModels, hostStrays>>
HostLoadsLate(m) == hostModels' = hostModels \cup {m} /\ hostStrays' = hostStrays \cup {m}

(* _unload_model_http before a load.  An error of the host leaves the      *)
(* request as an exception, and the current model as it was.               *)
UnloadsCurrent(r) ==
  /\ LmAt(r, "unloading") /\ modelReqs[r].op = "load"
  /\ \/ HostUnloads(currentModel) /\ LmMoves(r, "loading") /\ UNCHANGED <<switchLock, currentModel, strays>>
     \/ HostDoesNothing /\ LmAnswers(r, "error") /\ UNCHANGED <<currentModel, strays>>
     \/ /\ strays < MaxStrays /\ strays' = strays + 1
        /\ HostUnloads(currentModel) /\ LmAnswers(r, "error") /\ UNCHANGED currentModel

Loads(r) ==
  /\ LmAt(r, "loading")
  /\ LET m == modelReqs[r].model IN
     \/ HostLoads(m) /\ currentModel' = m /\ LmAnswers(r, "loaded") /\ UNCHANGED strays
     \/ HostDoesNothing /\ LmAnswers(r, "error") /\ UNCHANGED <<currentModel, strays>>
     \/ /\ strays < MaxStrays /\ strays' = strays + 1
        /\ HostLoadsLate(m) \/ HostDoesNothing
        /\ LmMoves(r, "emergency") /\ UNCHANGED <<switchLock, currentModel>>

(* _emergency_unload: whether or not the host obeys, the model is no       *)
(* longer the current one; what the host keeps is a stray.                 *)
Emergency(r) ==
  /\ LmAt(r, "emergency")
  /\ LET m == modelReqs[r].model IN
     /\ \/ HostUnloads(m)
        \/ hostStrays' = hostStrays \cup ({m} \cap hostModels) /\ UNCHANGED hostModels
     /\ currentModel' = IF currentModel = m THEN "none" ELSE currentModel
  /\ LmAnswers(r, "timed out")
  /\ UNCHANGED strays

(* unload_model.                                                           *)
Unloads(r) ==
  /\ LmAt(r, "unloading") /\ modelReqs[r].op = "unload"
  /\ LET m == modelReqs[r].model IN
     \/ /\ HostUnloads(m) /\ LmAnswers(r, "idle") /\ UNCHANGED strays
        /\ currentModel' = IF currentModel = m THEN "none" ELSE currentModel
     \/ HostDoesNothing /\ LmAnswers(r, "error") /\ UNCHANGED <<currentModel, strays>>
     \/ /\ strays < MaxStrays /\ strays' = strays + 1
        /\ HostUnloads(m) /\ LmAnswers(r, "error") /\ UNCHANGED currentModel

LmNext == \E r \in ModelReqs :
  SwitchArrives(r) \/ LmBegins(r) \/ UnloadsCurrent(r) \/ Loads(r) \/ Emergency(r) \/ Unloads(r)

LmSpec == LmInit /\ [][LmNext]_lmVars

(***************************************************************************)
(* Properties.                                                             *)
(***************************************************************************)
(* Two models of this client are never in the host's memory at once, save  *)
(* for what an answer that came too late left there: a load unloads the    *)
(* current model first, and that is the one that is loaded.                *)
OneModelLoaded == hostModels \ hostStrays \subseteq {currentModel}
=============================================================================
