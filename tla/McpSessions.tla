---------------------------- MODULE McpSessions ----------------------------
(***************************************************************************)
(* Sessions with a user's MCP servers: the registry of agent/mcp_client.py *)
(* with its owner tasks, the endpoints of agent/main.py that connect,      *)
(* edit, disconnect and delete a server, the turns that connect on demand  *)
(* (agent/mcp_tools.py, agent/support_lookup.py) and the logout.           *)
(*                                                                         *)
(* A step is what a coroutine does between two suspensions.  One user is   *)
(* modelled, since every key of the registry holds the user's id.          *)
(***************************************************************************)
EXTENDS Naturals, Sequences, FiniteSets

CONSTANTS
  Servers,      \* ids of the user's servers
  McpRequests,  \* the requests that come
  MaxDeaths     \* bound: server processes that die by themselves

ASSUME McpAssumption == /\ Servers # {} /\ MaxDeaths \in Nat
                        /\ IsFiniteSet(McpRequests)

McpOps == {"connect", "edit", "disconnect", "delete", "status", "turn", "lookup", "logout"}

VARIABLES
  config,    \* table McpServerConfig: there, enabled, auto (the launch line is left out)
  sessions,  \* _sessions: the handle registered for a server, or NoHandle
  failed,    \* servers with an entry in _last_results
  lockOf,    \* _locks: the lock entry of a server, or NoLock
  lockQueue, \* the locks ever made: holder first, then the waiters
  handle,    \* the SessionHandles ever made, in the order of their making
  call,      \* the requests
  deaths,    \* processes that died by themselves
  shared     \* history: servers on which two requests held a lock at once

mcpVars == <<config, sessions, failed, lockOf, lockQueue, handle, call, deaths, shared>>

NoHandle == 0
NoLock == <<>>
LockNames == McpOps \X McpRequests \X Servers  \* who made it, and for what

(* opening: handshake; parked: waits for close_requested; gone: transport  *)
(* closed.  asked: close_requested is set.  up: the process lives.         *)
HandleType == [server : Servers, owner : {"opening", "parked", "gone"},
               asked : BOOLEAN, up : BOOLEAN]
ConfigType == [there : BOOLEAN, enabled : BOOLEAN, auto : BOOLEAN]
CallType ==
  [op : McpOps, server : Servers, copy : ConfigType, lock : LockNames \cup {NoLock},
   handle : Nat, rest : SUBSET Servers,
   pc : {"new", "loaded", "queued", "closing", "opening", "probing", "after",
         "bound", "calling", "done"}]

McpTypeOK ==
  /\ config \in [Servers -> ConfigType]
  /\ sessions \in [Servers -> 0..Len(handle)]
  /\ failed \in SUBSET Servers
  /\ lockOf \in [Servers -> LockNames \cup {NoLock}]
  /\ lockQueue \in [LockNames -> Seq(McpRequests)]
  /\ handle \in Seq(HandleType)
  /\ call \in [McpRequests -> CallType]
  /\ deaths \in 0..MaxDeaths /\ shared \in SUBSET Servers

NoCall ==
  [op |-> "turn", server |-> CHOOSE s \in Servers : TRUE,
   copy |-> [there |-> FALSE, enabled |-> FALSE, auto |-> FALSE],
   lock |-> NoLock, handle |-> NoHandle, rest |-> {}, pc |-> "new"]

(* What a coroutine held goes when it returns.                             *)
McpAt(c, pc) == [IF pc = "done" THEN NoCall ELSE c EXCEPT !.pc = pc]

McpInit ==
  /\ config \in [Servers -> [there : {TRUE}, enabled : {TRUE}, auto : BOOLEAN]]
  /\ sessions = [s \in Servers |-> NoHandle] /\ failed = {}
  /\ lockOf = [s \in Servers |-> NoLock] /\ lockQueue = [l \in LockNames |-> <<>>]
  /\ handle = <<>> /\ deaths = 0 /\ shared = {}
  /\ call = [r \in McpRequests |-> NoCall]

(* is_connected: registered, with its session, and not closed.             *)
Connected(s) == sessions[s] # NoHandle /\ handle[sessions[s]].owner = "parked"

Gone(h) == handle[h].owner = "gone"
GoesTo(r, pc) == call' = [call EXCEPT ![r] = McpAt(@, pc)]

(***************************************************************************)
(* _lock_for and asyncio.Lock.  A server's entry is made on demand, and    *)
(* dropped by its holder when nothing is registered for the server: those  *)
(* that wait then still hold on to the old lock.                           *)
(***************************************************************************)
HasLock(r) == call[r].lock # NoLock /\ Head(lockQueue[call[r].lock]) = r

(* Of its copy of the row a request then uses the launch line alone.       *)
JoinsQueue(r, c) ==
  LET s == c.server
      l == IF lockOf[s] = NoLock THEN <<c.op, r, s>> ELSE lockOf[s]
  IN /\ lockOf' = [lockOf EXCEPT ![s] = l]
     /\ lockQueue' = [lockQueue EXCEPT ![l] = Append(@, r)]
     /\ call' = [call EXCEPT ![r] = [c EXCEPT !.copy = NoCall.copy, !.lock = l, !.pc = "queued"]]

LeavesQueue(r) ==
  LET queue == lockQueue[call[r].lock] IN
  \E i \in 1..Len(queue) :
    /\ queue[i] = r
    /\ lockQueue' = [lockQueue EXCEPT ![call[r].lock] =
                       SubSeq(queue, 1, i - 1) \o SubSeq(queue, i + 1, Len(queue))]

McpEnds(r, pc) == LeavesQueue(r) /\ call' = [call EXCEPT ![r] = [McpAt(@, pc) EXCEPT !.lock = NoLock]]

McpHolders(s, queue) ==
  {Head(queue[l]) : l \in {l \in McpOps \X McpRequests \X {s} : queue[l] # <<>>}}

(***************************************************************************)
(* The owner task of a handle.                                             *)
(***************************************************************************)
HandshakeDone(h) ==
  /\ handle[h].owner = "opening"
  /\ handle' = [handle EXCEPT ![h].owner = "parked"]
  /\ UNCHANGED <<config, sessions, failed, lockOf, lockQueue, call, deaths, shared>>

(* The spawn, the handshake or list_tools fails or meets its timeout.      *)
HandshakeFails(h) ==
  /\ handle[h].owner = "opening"
  /\ handle' = [handle EXCEPT ![h].owner = "gone", ![h].up = FALSE]
  /\ UNCHANGED <<config, sessions, failed, lockOf, lockQueue, call, deaths, shared>>

ServerDies(h) ==
  /\ handle[h].owner = "parked" /\ handle[h].up /\ deaths < MaxDeaths
  /\ handle' = [handle EXCEPT ![h].up = FALSE]
  /\ deaths' = deaths + 1
  /\ UNCHANGED <<config, sessions, failed, lockOf, lockQueue, call, shared>>

(* A parked owner closes the transport when asked to; one whose transport  *)
(* broke ends by an exception.                                             *)
OwnerEnds(h) ==
  /\ handle[h].owner = "parked" /\ (handle[h].asked \/ ~handle[h].up)
  /\ handle' = [handle EXCEPT ![h].owner = "gone", ![h].up = FALSE]
  /\ UNCHANGED <<config, sessions, failed, lockOf, lockQueue, call, deaths, shared>>

(***************************************************************************)
(* Pieces of the handlers, all taken with the server's lock.               *)
(***************************************************************************)
(* sessions.pop and close_handle up to its await.                          *)
PopsAndCloses(r) ==
  LET s == call[r].server IN
  /\ sessions' = [sessions EXCEPT ![s] = NoHandle]
  /\ handle' = [handle EXCEPT ![sessions[s]].asked = TRUE]
  /\ call' = [call EXCEPT ![r].handle = sessions[s], ![r].pc = "closing"]
  /\ UNCHANGED <<failed, lockOf, lockQueue>>

(* open_session: a working folder that is not one fails at once, else the  *)
(* owner task is made.                                                     *)
Opens(r) ==
  LET s == call[r].server IN
  /\ \/ /\ handle' = Append(handle, [server |-> s, owner |-> "opening", asked |-> FALSE, up |-> TRUE])
        /\ call' = [call EXCEPT ![r].handle = Len(handle'), ![r].pc = "opening"]
        /\ failed' = failed \ {s}
        /\ UNCHANGED lockQueue
     \/ /\ McpEnds(r, IF call[r].op = "connect" THEN "done" ELSE "after")
        /\ failed' = failed \cup {s}
        /\ UNCHANGED handle
  /\ UNCHANGED <<sessions, lockOf>>

(* _disconnect_locked after the close, then _drop_lock_if_idle.            *)
Forgets(r) ==
  LET s == call[r].server IN
  /\ failed' = failed \ {s}
  /\ lockOf' = [lockOf EXCEPT ![s] = IF sessions[s] = NoHandle /\ @ = call[r].lock THEN NoLock ELSE @]
  /\ McpEnds(r, "after")
  /\ UNCHANGED <<sessions, handle>>

(* The death of a session is remembered as a failure.                      *)
RecordsDeath(r, pc) ==
  /\ failed' = failed \cup {call[r].server}
  /\ McpEnds(r, pc)
  /\ UNCHANGED <<sessions, handle, lockOf>>

(***************************************************************************)
(* The requests.  Arrives loads the server's row: what follows works on    *)
(* that copy, and a missing row is answered by 404.                        *)
(***************************************************************************)
Arrives(r) ==
  /\ call[r].pc = "new"
  /\ \/ \E op \in McpOps \ {"logout"}, s \in Servers :
          call' = [call EXCEPT ![r] =
            McpAt([@ EXCEPT !.op = op, !.server = s, !.copy = config[s]],
               IF config[s].there THEN "loaded" ELSE "done")]
     \/ call' = [call EXCEPT ![r].op = "logout", ![r].pc = "after",
                  ![r].rest = {t \in Servers : sessions[t] # NoHandle \/ t \in failed}]
  /\ UNCHANGED <<config, sessions, failed, lockOf, lockQueue, handle, deaths, shared>>

(* connect_mcp_server: a disabled server is refused; the wish for          *)
(* auto-connect is committed and the row loaded anew before the lock.      *)
ConnectGoesOn(r) ==
  LET c == call[r]
      s == c.server
  IN
  /\ c.pc = "loaded" /\ c.op = "connect"
  /\ IF ~c.copy.enabled \/ (~c.copy.auto /\ ~config[s].there)
     THEN GoesTo(r, "done") /\ UNCHANGED <<config, lockOf, lockQueue>>
     ELSE IF c.copy.auto
     THEN JoinsQueue(r, c) /\ UNCHANGED config
     ELSE config' = [config EXCEPT ![s].auto = TRUE] /\ JoinsQueue(r, c)
  /\ UNCHANGED <<sessions, failed, handle, deaths>>

(* update_mcp_server: the edit is committed, and only then the session     *)
(* that runs with the old launch line is closed.                           *)
EditGoesOn(r) ==
  LET c == call[r]
      s == c.server
  IN
  /\ c.pc = "loaded" /\ c.op = "edit"
  /\ IF config[s].there
     THEN /\ \E e \in BOOLEAN : config' = [config EXCEPT ![s].enabled = e]
          /\ JoinsQueue(r, c)
     ELSE GoesTo(r, "done") /\ UNCHANGED <<config, lockOf, lockQueue>>
  /\ UNCHANGED <<sessions, failed, handle, deaths>>

(* disconnect_mcp_server and delete_mcp_server.                            *)
RemovalGoesOn(r) ==
  /\ call[r].pc = "loaded" /\ call[r].op \in {"disconnect", "delete"}
  /\ JoinsQueue(r, call[r])
  /\ UNCHANGED <<config, sessions, failed, handle, deaths>>

(* build_mcp_toolset connects what is enabled, wished for, not connected   *)
(* and not known to fail; a lookup asks for its server in any case.        *)
TurnGoesOn(r) ==
  LET c == call[r]
      s == c.server
  IN
  /\ c.pc = "loaded" /\ c.op \in {"turn", "lookup"}
  /\ IF /\ c.copy.enabled
        /\ c.op = "lookup" \/ (c.copy.auto /\ ~Connected(s) /\ s \notin failed)
     THEN JoinsQueue(r, c)
     ELSE /\ GoesTo(r, IF c.copy.enabled THEN "after" ELSE "done")
          /\ UNCHANGED <<lockOf, lockQueue>>
  /\ UNCHANGED <<config, sessions, failed, handle, deaths>>

(* get_status up to its ping; a finished owner needs none.                 *)
StatusReads(r) ==
  LET c == call[r]
      h == sessions[c.server]
  IN
  /\ c.pc = "loaded" /\ c.op = "status"
  /\ IF h = NoHandle THEN GoesTo(r, "done") /\ UNCHANGED <<lockOf, lockQueue>>
     ELSE IF Gone(h) THEN JoinsQueue(r, [c EXCEPT !.handle = h])
     ELSE /\ call' = [call EXCEPT ![r].handle = h, ![r].pc = "probing"]
          /\ UNCHANGED <<lockOf, lockQueue>>
  /\ UNCHANGED <<config, sessions, failed, handle, deaths>>

(* _probe: a server that lives answers or is busy; one that died is found  *)
(* out, or its ping only times out while the owner still stands.           *)
ProbeEnds(r) ==
  LET h == call[r].handle IN
  /\ call[r].pc = "probing"
  /\ \/ ~Gone(h) /\ GoesTo(r, "done") /\ UNCHANGED <<lockOf, lockQueue>>
     \/ (Gone(h) \/ ~handle[h].up) /\ JoinsQueue(r, call[r])
  /\ UNCHANGED <<config, sessions, failed, handle, deaths>>

(***************************************************************************)
(* What a request does once it has the lock.                               *)
(***************************************************************************)
(* connect_server replaces whatever is there.                              *)
ConnectEnters(r) ==
  /\ call[r].pc = "queued" /\ call[r].op = "connect" /\ HasLock(r)
  /\ IF sessions[call[r].server] = NoHandle THEN Opens(r) ELSE PopsAndCloses(r)
  /\ UNCHANGED <<config, deaths>>

(* Mutant: a session that lives is not looked for again with the lock.     *)
EnsureEntersUnchecked(r) ==
  LET s == call[r].server IN
  /\ call[r].pc = "queued" /\ call[r].op \in {"turn", "lookup"} /\ HasLock(r)
  /\ IF s \in failed
     THEN McpEnds(r, "after") /\ UNCHANGED <<sessions, failed, lockOf, handle>>
     ELSE Opens(r)
  /\ UNCHANGED <<config, deaths>>

(* ensure_connected returns a live session or a remembered failure, and    *)
(* records the death of a session instead of starting it again.            *)
EnsureEnters(r) ==
  LET s == call[r].server IN
  /\ call[r].pc = "queued" /\ call[r].op \in {"turn", "lookup"} /\ HasLock(r)
  /\ IF Connected(s) \/ s \in failed
     THEN McpEnds(r, "after") /\ UNCHANGED <<sessions, failed, lockOf, handle>>
     ELSE IF sessions[s] = NoHandle THEN Opens(r) ELSE PopsAndCloses(r)
  /\ UNCHANGED <<config, deaths>>

RemovalEnters(r) ==
  /\ call[r].pc = "queued" /\ call[r].op \in {"disconnect", "edit", "delete", "logout"}
  /\ HasLock(r)
  /\ IF sessions[call[r].server] = NoHandle THEN Forgets(r) ELSE PopsAndCloses(r)
  /\ UNCHANGED <<config, deaths>>

(* get_status with the lock: a handle that was replaced meanwhile wins.    *)
StatusEnters(r) ==
  /\ call[r].pc = "queued" /\ call[r].op = "status" /\ HasLock(r)
  /\ IF sessions[call[r].server] # call[r].handle
     THEN McpEnds(r, "done") /\ UNCHANGED <<sessions, failed, lockOf, handle>>
     ELSE PopsAndCloses(r)
  /\ UNCHANGED <<config, deaths>>

(* close_handle waits for the owner, and cancels it after CLOSE_TIMEOUT.   *)
CloseTimesOut(r) ==
  /\ call[r].pc = "closing" /\ ~Gone(call[r].handle)
  /\ handle' = [handle EXCEPT ![call[r].handle].owner = "gone", ![call[r].handle].up = FALSE]
  /\ UNCHANGED <<config, sessions, failed, lockOf, lockQueue, call, deaths, shared>>

Closed(r) ==
  /\ call[r].pc = "closing" /\ Gone(call[r].handle)
  /\ CASE call[r].op = "connect" -> Opens(r)
       [] call[r].op \in {"turn", "lookup"} -> RecordsDeath(r, "after")
       [] call[r].op = "status" -> RecordsDeath(r, "done")
       [] OTHER -> Forgets(r)
  /\ UNCHANGED <<config, deaths>>

(* The handshake ended: the session is registered, or the failure is.      *)
Opened(r) ==
  LET s == call[r].server
      h == call[r].handle
      next == IF call[r].op = "connect" THEN "done" ELSE "after"
  IN
  /\ call[r].pc = "opening" /\ handle[h].owner # "opening"
  /\ McpEnds(r, next)
  /\ IF Gone(h)
     THEN failed' = failed \cup {s} /\ UNCHANGED sessions
     ELSE sessions' = [sessions EXCEPT ![s] = h] /\ UNCHANGED failed
  /\ UNCHANGED <<config, lockOf, handle, deaths>>

(* What is left to do without the lock.                                    *)
After(r) ==
  LET c == call[r]
      s == c.server
  IN
  /\ c.pc = "after"
  /\ \/ /\ c.op = "disconnect"  \* the wish for auto-connect is taken back
        /\ config' = IF config[s].there THEN [config EXCEPT ![s].auto = FALSE] ELSE config
        /\ GoesTo(r, "done") /\ UNCHANGED <<lockOf, lockQueue>>
     \/ /\ c.op = "delete"
        /\ config' = [config EXCEPT ![s].there = FALSE]
        /\ GoesTo(r, "done") /\ UNCHANGED <<lockOf, lockQueue>>
     \/ /\ c.op = "edit"        \* get_status for the answer
        /\ call' = [call EXCEPT ![r].op = "status", ![r].pc = "loaded"]
        /\ UNCHANGED <<config, lockOf, lockQueue>>
     \/ /\ c.op \in {"turn", "lookup"}
        /\ GoesTo(r, IF Connected(s) THEN "bound" ELSE "done")
        /\ UNCHANGED <<config, lockOf, lockQueue>>
     \/ /\ c.op = "logout"      \* cleanup_user_sessions: one server after the other
        /\ IF c.rest = {} THEN GoesTo(r, "done") /\ UNCHANGED <<lockOf, lockQueue>>
           ELSE \E t \in c.rest :
                  JoinsQueue(r, [c EXCEPT !.server = t, !.rest = @ \ {t}])
        /\ UNCHANGED config
  /\ UNCHANGED <<sessions, failed, handle, deaths>>

(* call_mcp_tool looks the session up anew and holds no lock while the     *)
(* tool works; its timeout, an error or an answer ends it.                 *)
McpCalls(r) ==
  LET s == call[r].server IN
  /\ \/ /\ call[r].pc = "bound"
        /\ call' = [call EXCEPT ![r].handle = sessions[s], ![r].pc = IF Connected(s) THEN "calling" ELSE "done"]
     \/ call[r].pc = "calling" /\ GoesTo(r, "done")
  /\ UNCHANGED <<config, sessions, failed, lockOf, lockQueue, handle, deaths, shared>>

(* A turn may be cancelled at any await (a run's timeout).  A half-open    *)
(* session is then closed by the request itself: nobody else knows it.     *)
Cancelled(r) ==
  /\ call[r].op \in {"turn", "lookup"}
  /\ call[r].pc \in {"queued", "opening", "closing", "calling"}
  /\ IF call[r].pc = "calling" THEN GoesTo(r, "done") /\ UNCHANGED lockQueue ELSE McpEnds(r, "done")
  /\ handle' = IF call[r].pc = "opening"
               THEN [handle EXCEPT ![call[r].handle].owner = "gone", ![call[r].handle].up = FALSE]
               ELSE handle
  /\ UNCHANGED <<config, sessions, failed, lockOf, deaths>>

(***************************************************************************)
(* The specification.                                                      *)
(***************************************************************************)
LockStep(r) ==
  \/ ConnectGoesOn(r) \/ EditGoesOn(r) \/ RemovalGoesOn(r) \/ TurnGoesOn(r)
  \/ StatusReads(r) \/ ProbeEnds(r) \/ ConnectEnters(r) \/ EnsureEnters(r)
  \/ RemovalEnters(r) \/ StatusEnters(r) \/ Closed(r) \/ Opened(r) \/ After(r)

(* Who holds locks on a server is looked at after every such step.         *)
NoteShared == shared' = shared \cup {s \in Servers : Cardinality(McpHolders(s, lockQueue')) > 1}

CallStep(r) == (LockStep(r) /\ NoteShared) \/ CloseTimesOut(r) \/ McpCalls(r)
OwnerStep(h) == HandshakeDone(h) \/ HandshakeFails(h) \/ OwnerEnds(h)

McpNext ==
  \/ \E r \in McpRequests : Arrives(r) \/ CallStep(r) \/ (Cancelled(r) /\ NoteShared)
  \/ \E h \in 1..Len(handle) : OwnerStep(h) \/ ServerDies(h)

McpSpec == McpInit /\ [][McpNext]_mcpVars

(* A request in the Agent goes on when it can, and a handshake ends since  *)
(* it has a timeout (MCP_CONNECT_TIMEOUT).  A server asked to close may     *)
(* hang.  A handle per request is made at most.                            *)
McpFairness ==
  /\ \A r \in McpRequests : WF_mcpVars(CallStep(r))
  /\ \A h \in 1..Cardinality(McpRequests) : 
       WF_mcpVars(h <= Len(handle) /\ (HandshakeDone(h) \/ HandshakeFails(h)))

(***************************************************************************)
(* Properties.                                                             *)
(***************************************************************************)
(* A session is closed only once it is out of the registry: what a turn    *)
(* finds registered has not been asked to close, whoever else is at work.  *)
RegisteredNotClosing ==
  \A s \in Servers : sessions[s] # NoHandle => ~handle[sessions[s]].asked

Alive(h) == handle[h].owner # "gone" /\ ~handle[h].asked

(* A server process is never left without an owner: it is registered, or a *)
(* request is still opening it.  Servers on which two requests worked at   *)
(* once, after the lock entry was dropped under a waiter, are excepted.    *)
SessionsTended ==
  \A h \in 1..Len(handle) :
    Alive(h) => \/ sessions[handle[h].server] = h
                \/ \E r \in McpRequests : call[r].pc = "opening" /\ call[r].handle = h
                \/ handle[h].server \in shared

(* Turns that need a server at the same time share one session: a second   *)
(* process is not started next to one that lives (same exception).         *)
OneSession ==
  \A s \in Servers \ shared :
    Cardinality({h \in 1..Len(handle) : handle[h].server = s /\ Alive(h)}) <= 1

(* A status check closes no session but the one it pinged, however long it *)
(* waited for the lock.                                                    *)
StatusSparesOthers ==
  \A r \in McpRequests :
    call[r].op = "status" /\ call'[r].pc = "closing" => call'[r].handle = call[r].handle

(* Every request ends: no lock is kept, no close and no handshake hangs.   *)
McpRequestsEnd == \A r \in McpRequests : call[r].pc # "new" ~> call[r].pc = "done"
=============================================================================
