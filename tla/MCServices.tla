----------------------------- MODULE MCServices -----------------------------
(***************************************************************************)
(* Components of the Agent that share no state with each other, in one     *)
(* instance for TLC: in a behaviour one of them, the focus, moves.         *)
(***************************************************************************)
EXTENDS TaskLifecycle, LoginThrottle, Access, McpSessions, KbIndexing, Providers,
        LmStudio, UserMemory, UserRules, TLC

VARIABLE focus

Components == {"tasks", "throttle", "access", "mcp", "kb", "providers", "lmStudio",
               "memory", "rules"}

servicesVars == <<focus, vars, throttleVars, accessVars, mcpVars, kbVars, provVars,
  lmVars, memVars, ruleVars>>

\* A variable of a component that is not the focus is 0.
ServicesInit ==
  /\ focus \in Components
  /\ Init
  /\ focus # "tasks" => \A r \in Requests : request[r].op = "pause"
  /\ IF focus = "throttle" THEN ThrottleInit
     ELSE now = 0 /\ entries = 0 /\ pending = 0 /\ made = 0 /\ guesses = 0
  /\ IF focus = "access" THEN AccessInit
     ELSE webSessions = 0 /\ keys = 0 /\ mcpOpen = 0 /\ requests = 0 /\ gone = 0
          /\ clock = 0
  /\ IF focus = "mcp" THEN McpInit
     ELSE config = 0 /\ sessions = 0 /\ failed = 0 /\ lockOf = 0 /\ lockQueue = 0
          /\ handle = 0 /\ call = 0 /\ deaths = 0 /\ shared = 0
  /\ IF focus = "kb" THEN KbInit
     ELSE base = 0 /\ chunks = 0 /\ index = 0 /\ uploads = 0 /\ cache = 0 /\ kbCall = 0
          /\ job = 0 /\ jobOf = 0 /\ late = 0 /\ stopping = 0 /\ crashes = 0 /\ torn = 0
  /\ IF focus = "providers" THEN ProvInit
     ELSE llmproviders = 0 /\ inserted = 0 /\ edits = 0 /\ seedMarks = 0
          /\ seededRows = 0 /\ seededUsers = 0 /\ deepseekPending = 0 /\ seedLock = 0
          /\ deepseekKey = 0 /\ modelCache = 0 /\ provReqs = 0 /\ ranBy = 0
          /\ jobRun = 0 /\ restarts = 0
  /\ IF focus = "lmStudio" THEN LmInit
     ELSE hostModels = 0 /\ hostStrays = 0 /\ strays = 0 /\ currentModel = 0
          /\ switchLock = 0 /\ modelReqs = 0
  /\ IF focus = "memory" THEN MemInit
     ELSE memEntries = 0 /\ profile = 0 /\ calls = 0 /\ latest = 0
  /\ IF focus = "rules" THEN RulesInit
     ELSE globals = 0 /\ rules = 0 /\ ruleEdits = 0 /\ judge = 0

OnlyMoves(c) ==
  /\ UNCHANGED focus
  /\ c # "tasks" => UNCHANGED vars
  /\ c # "throttle" => UNCHANGED throttleVars
  /\ c # "access" => UNCHANGED accessVars
  /\ c # "mcp" => UNCHANGED mcpVars
  /\ c # "kb" => UNCHANGED kbVars
  /\ c # "providers" => UNCHANGED provVars
  /\ c # "lmStudio" => UNCHANGED lmVars
  /\ c # "memory" => UNCHANGED memVars
  /\ c # "rules" => UNCHANGED ruleVars

ServicesNext ==
  \/ focus = "tasks" /\ Next /\ OnlyMoves("tasks")
  \/ focus = "throttle" /\ ThrottleNext /\ OnlyMoves("throttle")
  \/ focus = "access" /\ AccessNext /\ OnlyMoves("access")
  \/ focus = "mcp" /\ McpNext /\ OnlyMoves("mcp")
  \/ focus = "kb" /\ KbNext /\ OnlyMoves("kb")
  \/ focus = "providers" /\ ProvNext /\ OnlyMoves("providers")
  \/ focus = "lmStudio" /\ LmNext /\ OnlyMoves("lmStudio")
  \/ focus = "memory" /\ MemNext /\ OnlyMoves("memory")
  \/ focus = "rules" /\ RulesNext /\ OnlyMoves("rules")

ServicesSpec == ServicesInit /\ [][ServicesNext]_servicesVars

Symmetry == Permutations(McpRequests)
-----------------------------------------------------------------------------
-----------------------------------------------------------------------------
\* No session is closed while it is registered, none is left without an owner and no server
\* runs twice, whoever opens, closes, edits and checks servers at once (mcp_client.py).
SessionsSound ==
  focus = "mcp" => McpTypeOK /\ RegisteredNotClosing /\ SessionsTended /\ OneSession

\* What the rows, the index and the files of a base say of each other, through failures,
\* deletions and kills of its jobs (kb_indexer.py); and no search, however stale its index,
\* gives a text for another one's vector (kb_search.py).
BasesSound ==
  focus = "kb" =>
    KbTypeOK /\ ReadyIsWhole /\ FailedIsEmpty /\ AdditionIsolated /\ DocumentsHaveFiles /\ SearchTruthful

\* A step spares what it is not about: a rejected move the task, a status check the sessions
\* of others, and an attempt at one password the block of another one (tasks.py,
\* mcp_client.py, limits.py).
OthersSpared ==
  /\ RejectionChangesNothing
  /\ [][focus = "mcp" => StatusSparesOthers]_mcpVars
  /\ [][focus = "throttle" => BlockedSpared]_throttleVars

\* Guesses of a password are rationed (limits.py) and nothing that was logged out or revoked
\* is let in again (dependencies.py, api_keys_api.py).
AccountsSound ==
  /\ focus = "throttle" => ThrottleTypeOK /\ GuessesRationed /\ TableBounded
  /\ focus = "access" => AccessSound

\* Seeded providers and their checks (providers.py), and the model LM Studio has loaded
\* (llm_client.py).
ModelsSound ==
  /\ focus = "providers" => ProvidersSound
  /\ focus = "lmStudio" => OneModelLoaded

\* Memory entries and the profile (memory.py, profile.py), and the rules a turn is judged by
\* (invariants.py).
UserDataSound ==
  /\ focus = "memory" => UserMemorySound
  /\ focus = "rules" => RulesSound
=============================================================================
