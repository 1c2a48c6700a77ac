------------------------------ MODULE ClientTab ------------------------------
(***************************************************************************)
(* One browser tab (ui/static/app.js): the open chat, its WebSocket, the   *)
(* events socket, and the functions that wait for answers of the Agent.    *)
(*                                                                         *)
(* A function that awaits is a job: the page runs other handlers until its *)
(* answer comes, and answers come in any order.  Jobs that could not be    *)
(* told apart are one.  A message tree is the number of exchanges in it.   *)
(***************************************************************************)
EXTENDS Naturals, FiniteSets

CONSTANTS
  TabChats,       \* the user's chats
  MaxExchanges,   \* bound: exchanges of a chat
  MaxJobs,        \* bound: functions waiting at once
  RequestsFail    \* whether requests for existing chats may fail

NoChat == "no chat"

ASSUME TabAssumption == NoChat \notin TabChats /\ MaxExchanges \in Nat /\ MaxJobs \in Nat /\ RequestsFail \in BOOLEAN

VARIABLES
  stored,      \* the Agent: chat -> exchanges, of the chats that exist
  cur,         \* state.currentChatId
  streaming,   \* state.isStreaming
  deferred,    \* state.chatRefreshPendingId
  typed,       \* state.pendingMessage
  model,       \* a model is selected
  shown,       \* state.messages: the chat they were loaded for, and how many
  statsOf,     \* state.lastStats: their chat
  sockets,     \* chat sockets that are not closed
  ws,          \* state.ws
  timer,       \* state.reconnectTimer: the chat it reconnects
  reconnects,  \* state.shouldReconnect
  events,      \* the events socket
  polling,     \* state.schedulerPollTimer
  jobs         \* functions that await an answer

tabVars == <<stored, cur, streaming, deferred, typed, model, shown, statsOf, sockets, ws,
             timer, reconnects, events, polling, jobs>>
chatSocket == <<sockets, ws, timer, reconnects>>
eventSide == <<events, polling>>
loaded == <<shown, statsOf>>

NoSocket == [chat |-> NoChat, phase |-> "none", busy |-> FALSE]
Job(kind, chat, at) == [kind |-> kind, chat |-> chat, at |-> at, got |-> 0]
JobType ==
  [kind : {"select", "refresh", "done", "stats", "event", "delete"}, chat : TabChats,
   at : {"tree", "arriving", "stats", "rest", "list", "asked"}, got : 0..MaxExchanges]

TabTypeOK ==
  /\ DOMAIN stored \subseteq TabChats /\ \A c \in DOMAIN stored : stored[c] \in 0..MaxExchanges
  /\ cur \in TabChats \cup {NoChat} /\ deferred \in TabChats \cup {NoChat}
  /\ {streaming, typed, model, reconnects, polling} \subseteq BOOLEAN
  /\ shown.chat \in TabChats \cup {NoChat} /\ shown.count \in 0..MaxExchanges
  /\ {statsOf, timer} \subseteq TabChats \cup {NoChat}
  /\ events \in {"connecting", "open", "waiting", "stopped"}
  /\ jobs \subseteq JobType

(* init opens the first chat of the list.                                  *)
TabInit ==
  /\ stored = [c \in TabChats |-> 0]
  /\ cur \in TabChats
  /\ jobs = {Job("select", cur, "tree")}
  /\ streaming = FALSE /\ deferred = NoChat /\ typed = FALSE /\ model \in BOOLEAN
  /\ shown = [chat |-> NoChat, count |-> 0] /\ statsOf = NoChat
  /\ sockets = {} /\ ws = NoSocket /\ timer = NoChat /\ reconnects = FALSE
  /\ events = "connecting" /\ polling = FALSE

(***************************************************************************)
(* The chat socket.                                                        *)
(***************************************************************************)
(* A new request for statistics aborts the one under way: its job goes on  *)
(* without them, and selectChat is the one with something left to do.      *)
AfterStats(j) == IF j.kind = "select" THEN {[j EXCEPT !.at = "rest"]} ELSE {}
Aborted(js) == {j \in js : j.at # "stats"} \cup UNION {AfterStats(j) : j \in {j \in js : j.at = "stats"}}
AsksStats(js, j) == Aborted(js) \cup {[j EXCEPT !.at = "stats", !.got = 0]}

RoomForJob == Cardinality(jobs) < MaxJobs

DisconnectWs(allow) ==
  /\ sockets' = sockets \ {ws} /\ ws' = NoSocket
  /\ timer' = NoChat /\ reconnects' = allow

(* connectWs; disconnectWs takes away the handler of the closed socket.    *)
ConnectWs(c) ==
  LET new == [chat |-> c, phase |-> "connecting", busy |-> FALSE] IN
  /\ sockets' = (sockets \ {ws}) \cup {new} /\ ws' = new
  /\ timer' = NoChat /\ reconnects' = TRUE

Becomes(s, new) ==
  /\ sockets' = (sockets \ {s}) \cup (IF new = NoSocket THEN {} ELSE {new})
  /\ ws' = IF ws = s THEN new ELSE ws

(* sendMessage, once nothing stands in its way.                            *)
Sends(s) == streaming' = TRUE /\ typed' = FALSE /\ Becomes(s, [s EXCEPT !.phase = "open", !.busy = TRUE])

(* onopen: the statistics of the open chat, and trySendPending.            *)
WsOpens ==
  /\ ws.phase = "connecting" /\ RoomForJob
  /\ jobs' = IF cur = ws.chat THEN AsksStats(jobs, Job("stats", cur, "stats")) ELSE jobs
  /\ IF typed /\ cur # NoChat /\ ~streaming /\ model
     THEN Sends(ws)
     ELSE UNCHANGED <<streaming, typed>> /\ Becomes(ws, [ws EXCEPT !.phase = "open"])
  /\ UNCHANGED <<stored, cur, deferred, model, timer, reconnects, loaded, eventSide>>

(* onclose of the current socket; STOP_RECONNECT_CODES end the retries.    *)
WsCloses ==
  /\ ws # NoSocket
  /\ \E stop \in BOOLEAN :
       /\ reconnects' = IF stop THEN FALSE ELSE reconnects
       /\ timer' = IF ~stop /\ reconnects /\ cur = ws.chat THEN ws.chat ELSE timer
  /\ Becomes(ws, NoSocket)
  /\ UNCHANGED <<stored, cur, streaming, deferred, typed, model, jobs, loaded, eventSide>>

TimerFires ==
  /\ timer # NoChat /\ ConnectWs(timer)
  /\ UNCHANGED <<stored, cur, streaming, deferred, typed, model, jobs, loaded, eventSide>>

SelectChat(c, js) ==
  /\ DisconnectWs(FALSE)
  /\ cur' = c /\ deferred' = NoChat /\ statsOf' = NoChat
  /\ jobs' = js \cup {Job("select", c, "tree")}

UserSelects ==
  /\ RoomForJob
  /\ \E c \in DOMAIN stored :
       /\ ~(cur = c /\ ws.phase = "open")
       /\ SelectChat(c, jobs)
  /\ UNCHANGED <<stored, streaming, typed, model, shown, eventSide>>

(* sendMessage.                                                            *)
UserSends ==
  /\ cur # NoChat /\ ~streaming
  /\ IF ~model THEN typed' = TRUE /\ UNCHANGED <<streaming, chatSocket>>
     ELSE IF ws.phase # "open" THEN typed' = TRUE /\ ConnectWs(cur) /\ UNCHANGED streaming
     ELSE Becomes(ws, [ws EXCEPT !.busy = TRUE]) /\ streaming' = TRUE /\ UNCHANGED <<typed, timer, reconnects>>
  /\ UNCHANGED <<stored, cur, deferred, model, jobs, loaded, eventSide>>

(* refreshModelSelector and populateModelSelect.                           *)
ModelsLoaded ==
  /\ \/ model /\ model' = FALSE /\ UNCHANGED <<streaming, typed, chatSocket>>
     \/ /\ ~model /\ model' = TRUE
        /\ IF typed /\ cur # NoChat /\ ~streaming /\ ws.phase = "open"
           THEN Sends(ws) /\ UNCHANGED <<timer, reconnects>>
           ELSE UNCHANGED <<streaming, typed, chatSocket>>
  /\ UNCHANGED <<stored, cur, deferred, jobs, loaded, eventSide>>

UserDeletes ==
  /\ RoomForJob
  /\ \E c \in DOMAIN stored :
       /\ stored' = [d \in DOMAIN stored \ {c} |-> stored[d]]
       /\ jobs' = jobs \cup {Job("delete", c, "asked")}
  /\ UNCHANGED <<cur, streaming, deferred, typed, model, chatSocket, loaded, eventSide>>

(***************************************************************************)
(* Frames.                                                                 *)
(***************************************************************************)
Refreshed(js, c) == IF c = cur THEN js \cup {Job("refresh", c, "tree")} ELSE js

(* Mutant: the deferred refresh waits on.                                  *)
StopsStreamingOnly(js) == streaming' = FALSE /\ jobs' = js /\ UNCHANGED deferred

(* setStreaming(false).                                                    *)
StopsStreaming(js) ==
  /\ streaming' = FALSE /\ deferred' = NoChat
  /\ jobs' = IF deferred = NoChat THEN js ELSE Refreshed(js, deferred)

(* A turn that ended is answered on the socket it came over.               *)
FrameDone ==
  /\ RoomForJob /\ ws.busy /\ ws.chat \in DOMAIN stored /\ stored[ws.chat] < MaxExchanges
  /\ stored' = [stored EXCEPT ![ws.chat] = @ + 1]
  /\ Becomes(ws, [ws EXCEPT !.busy = FALSE])
  /\ statsOf' = IF ws.chat = cur THEN cur ELSE statsOf
  /\ StopsStreaming(IF cur = NoChat THEN jobs ELSE jobs \cup {Job("done", cur, "tree")})
  /\ UNCHANGED <<cur, typed, model, shown, timer, reconnects, eventSide>>

FrameError ==
  /\ RoomForJob /\ ws.busy
  /\ Becomes(ws, [ws EXCEPT !.busy = FALSE])
  /\ StopsStreaming(jobs)
  /\ UNCHANGED <<stored, cur, typed, model, timer, reconnects, loaded, eventSide>>

(* An exchange over HTTP, and its chat_updated frame.                      *)
HttpExchange ==
  /\ RoomForJob
  /\ \E c \in DOMAIN stored :
       /\ stored[c] < MaxExchanges
       /\ stored' = [stored EXCEPT ![c] = @ + 1]
       /\ IF events = "open"
          THEN jobs' = jobs \cup {Job("event", c, "list")}
          ELSE UNCHANGED jobs
  /\ UNCHANGED <<cur, streaming, deferred, typed, model, chatSocket, loaded, eventSide>>

(* connectEventsWs: the panel of jobs is polled while there is no socket.  *)
EventsOpen ==
  /\ events = "connecting" /\ events' = "open" /\ polling' = FALSE
  /\ UNCHANGED <<stored, cur, streaming, deferred, typed, model, jobs, chatSocket, loaded>>

EventsClose ==
  /\ events \in {"connecting", "open"}
  /\ \E stop \in BOOLEAN : events' = (IF stop THEN "stopped" ELSE "waiting") /\ polling' = ~stop
  /\ UNCHANGED <<stored, cur, streaming, deferred, typed, model, jobs, chatSocket, loaded>>

EventsTimer ==
  /\ events = "waiting" /\ events' = "connecting"
  /\ UNCHANGED <<stored, cur, streaming, deferred, typed, model, polling, jobs, chatSocket, loaded>>

(***************************************************************************)
(* Answers.                                                                *)
(***************************************************************************)
TabGoes(j, at) == (jobs \ {j}) \cup {[j EXCEPT !.at = at, !.got = 0]}

(* The Agent reads the tree; its answer arrives later.                     *)
TreeServed(j) ==
  /\ j.at = "tree" /\ j.chat \in DOMAIN stored
  /\ jobs' = (jobs \ {j}) \cup {[j EXCEPT !.at = "arriving", !.got = stored[j.chat]]}
  /\ UNCHANGED <<stored, cur, streaming, deferred, typed, model, chatSocket, loaded, eventSide>>

(* loadChatTree that fails ends the function that called it.               *)
TreeFails(j) ==
  /\ j.at = "tree" /\ (j.chat \notin DOMAIN stored \/ RequestsFail)
  /\ jobs' = jobs \ {j}
  /\ UNCHANGED <<stored, cur, streaming, deferred, typed, model, chatSocket, loaded, eventSide>>

(* loadChatTree: whatever chat is open now; then, of a select or a refresh,*)
(* loadChatStats.                                                          *)
TreeArrives(j) ==
  /\ j.at = "arriving"
  /\ shown' = [chat |-> j.chat, count |-> j.got]
  /\ jobs' = IF j.kind = "done" THEN jobs \ {j} ELSE AsksStats(jobs \ {j}, j)
  /\ UNCHANGED <<stored, cur, streaming, deferred, typed, model, statsOf, chatSocket, eventSide>>

(* updateStats.                                                            *)
UpdateStats(c) == statsOf' = IF c = cur THEN c ELSE statsOf

StatsArrive(j) ==
  /\ j.at = "stats"
  /\ \/ j.chat \in DOMAIN stored /\ UpdateStats(j.chat)
     \/ statsOf' = NoChat
  /\ jobs' = (jobs \ {j}) \cup AfterStats(j)
  /\ UNCHANGED <<stored, cur, streaming, deferred, typed, model, shown, chatSocket, eventSide>>

(* The other panels are loaded, and selectChat connects.                   *)
SelectEnds(j) ==
  /\ j.at = "rest" /\ jobs' = jobs \ {j}
  /\ ConnectWs(j.chat)
  /\ UNCHANGED <<stored, cur, streaming, deferred, typed, model, loaded, eventSide>>

(* onChatUpdatedEvent, the chat list loaded.                               *)
ListArrives(j) ==
  /\ j.kind = "event"
  /\ IF cur # j.chat THEN jobs' = jobs \ {j} /\ UNCHANGED deferred
     ELSE IF streaming THEN jobs' = jobs \ {j} /\ deferred' = j.chat
     ELSE jobs' = Refreshed(jobs \ {j}, j.chat) /\ UNCHANGED deferred
  /\ UNCHANGED <<stored, cur, streaming, typed, model, chatSocket, loaded, eventSide>>

(* deleteChat, before and after the chat list is loaded.                   *)
DeleteArrives(j) ==
  /\ j.at = "asked" /\ jobs' = TabGoes(j, "list")
  /\ IF cur = j.chat
     THEN cur' = NoChat /\ DisconnectWs(FALSE) /\ shown' = [chat |-> NoChat, count |-> 0]
     ELSE UNCHANGED <<cur, shown, chatSocket>>
  /\ UNCHANGED <<stored, streaming, deferred, typed, model, statsOf, eventSide>>

DeleteEnds(j) ==
  /\ j.kind = "delete" /\ j.at = "list"
  /\ IF cur = NoChat /\ stored # <<>>
     THEN \E c \in DOMAIN stored : SelectChat(c, jobs \ {j})
     ELSE jobs' = jobs \ {j} /\ UNCHANGED <<cur, deferred, statsOf, chatSocket>>
  /\ UNCHANGED <<stored, streaming, typed, model, shown, eventSide>>

TabAnswers ==
  \E j \in jobs :
    \/ TreeServed(j) \/ TreeFails(j) \/ TreeArrives(j) \/ StatsArrive(j)
    \/ SelectEnds(j) \/ ListArrives(j) \/ DeleteArrives(j) \/ DeleteEnds(j)

TabNext ==
  \/ WsOpens \/ WsCloses \/ TimerFires \/ UserSelects \/ UserSends \/ UserDeletes \/ ModelsLoaded
  \/ FrameDone \/ FrameError \/ HttpExchange \/ EventsOpen \/ EventsClose \/ EventsTimer
  \/ TabAnswers

TabSpec == TabInit /\ [][TabNext]_tabVars

(***************************************************************************)
(* Properties.                                                             *)
(***************************************************************************)
(* The statistics shown are those of the open chat, however the answers    *)
(* for the chats opened before come in.                                    *)
StatsOfOpenChat == statsOf # NoChat /\ cur # NoChat => statsOf = cur

(* The tab never holds two chat sockets, which would show every frame      *)
(* twice, and a reconnect that is due is one of the open chat.             *)
OneSocket == Cardinality(sockets) <= 1 /\ (timer # NoChat => timer = cur /\ ws = NoSocket)

(* A refresh that is put off waits for the end of an answer, never longer. *)
RefreshWaitsForAnswer == deferred # NoChat => streaming /\ (cur # NoChat => deferred = cur)

TabSound == StatsOfOpenChat /\ OneSocket /\ RefreshWaitsForAnswer
=============================================================================
