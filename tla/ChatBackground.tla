--------------------------- MODULE ChatBackground ---------------------------
(***************************************************************************)
(* What goes on behind a chat after a turn: the title job (agent/titles.py)*)
(* with the frame it publishes (agent/events.py), the debounced extraction *)
(* of facts (agent/context_engine.py), and the settings the user edits     *)
(* meanwhile (agent/main.py), across the deletion of the chat              *)
(* (agent/state.py) and a new chat that gets its id.                       *)
(***************************************************************************)
EXTENDS Naturals, Sequences, FiniteSets, TLC

CONSTANTS
  Sockets,       \* event sockets of the owner
  QueueMax,      \* EVENTS_QUEUE_MAXSIZE
  MaxBgTurns,      \* bound: turns that end
  MaxChats,      \* bound: chats that have the id, one after the other
  MaxUpdates     \* bound: edits of the settings

ASSUME BackgroundAssumption == QueueMax \in Nat \ {0} /\ MaxBgTurns \in Nat

VARIABLES
  bgChat,      \* the chat that has the id: which one, there or not, its title
  dropping,  \* a deletion is committed, its caches not yet dropped
  titleTask, \* title_tasks: the title job of the id, or NoJob
  titles,    \* the title jobs ever made
  own,       \* the chat's Settings row, or NoRow
  global,    \* temperature, prompt, ... of the owner's global row
  pendingMsg,\* _pending_messages: the message of the id, or NoMsg
  debounce,  \* _debounce_tasks: the facts job of the id, or NoJob
  facts,     \* the facts jobs ever made
  queue,     \* EventHub: the frames of every open socket
  turnsEnded,\* turns of any chat that ended
  update,    \* the edit of the chat's settings under way
  updates,   \* edits made
  chosen     \* history: what the user set for this chat, or NoChoice

bgVars == <<bgChat, dropping, titleTask, titles, own, global, pendingMsg, debounce,
            facts, queue, turnsEnded, update, updates, chosen>>

NoJob == 0
NoUserChoice == "nothing"
NoPending == [chat |-> 0, turn |-> 0]
NoRow == [there |-> FALSE, value |-> "default", facts |-> {}]
NewRow == [there |-> TRUE, value |-> "default", facts |-> {}]
NoUpdate == [on |-> FALSE, there |-> FALSE, value |-> "default"]
Closed == <<0>>  \* no frame is 0

BgInit ==
  /\ bgChat = [no |-> 1, there |-> TRUE, title |-> "New Chat"] /\ dropping = FALSE
  /\ titleTask = NoJob /\ titles = <<>>
  /\ own = NoRow /\ global = "default"
  /\ pendingMsg = NoPending /\ debounce = NoJob /\ facts = <<>>
  /\ queue = [s \in Sockets |-> Closed]
  /\ turnsEnded = 0 /\ update = NoUpdate /\ updates = 0 /\ chosen = NoUserChoice

-----------------------------------------------------------------------------
(* The end of a turn starts both jobs without waiting.                     *)

(* schedule_title_generation: unless one runs.                             *)
SchedulesTitle ==
  IF titleTask # NoJob /\ titles[titleTask].pc \notin {"done", "forgotten"}
  THEN UNCHANGED <<titles, titleTask>>
  ELSE /\ titles' = Append(titles, [pc |-> "asking", chat |-> bgChat.no, cancelled |-> FALSE])
       /\ titleTask' = Len(titles) + 1

(* extract_and_update_facts: the message waits, the job that waited before *)
(* is cancelled, a new one is registered.                                  *)
SchedulesFacts(msg) ==
  /\ pendingMsg' = msg
  /\ facts' = Append([j \in DOMAIN facts |->
                        IF j = debounce THEN [facts[j] EXCEPT !.cancelled = TRUE] ELSE facts[j]],
                     [pc |-> "created", cancelled |-> FALSE, msg |-> NoPending,
                      copy |-> {}, fromOwn |-> FALSE])
  /\ debounce' = Len(facts) + 1

(* The last statements of a turn (_run_chat_turn); the first answer of a   *)
(* chat with the default title asks for a title.                           *)
BgTurnEnds ==
  /\ bgChat.there /\ turnsEnded < MaxBgTurns
  /\ turnsEnded' = turnsEnded + 1
  /\ SchedulesFacts([chat |-> bgChat.no, turn |-> turnsEnded + 1])
  /\ IF bgChat.title = "New Chat" /\ ~\E j \in DOMAIN titles : titles[j].chat = bgChat.no
     THEN SchedulesTitle ELSE UNCHANGED <<titles, titleTask>>
  /\ UNCHANGED <<bgChat, dropping, own, global, queue, update, updates, chosen>>

-----------------------------------------------------------------------------
(* The title job.                                                          *)

TitleOnly(j, pc) == titles' = [titles EXCEPT ![j].pc = pc]

(* generate_and_apply_title: no title, not even from the question.         *)
TitleSkipped(j) ==
  /\ titles[j].pc = "asking"
  /\ TitleOnly(j, "done")
  /\ UNCHANGED <<bgChat, dropping, titleTask, own, global, pendingMsg, debounce, facts, queue,
                 turnsEnded, update, updates, chosen>>

(* apply_title: one UPDATE guarded by the default title.                   *)
TitleApplies(j) ==
  /\ titles[j].pc = "asking" /\ ~titles[j].cancelled
  /\ IF bgChat.there /\ bgChat.title = "New Chat"
     THEN bgChat' = [bgChat EXCEPT !.title = "made"] /\ TitleOnly(j, "telling")
     ELSE TitleOnly(j, "done") /\ UNCHANGED bgChat
  /\ UNCHANGED <<dropping, titleTask, own, global, pendingMsg, debounce, facts, queue,
                 turnsEnded, update, updates, chosen>>

(* EventHub.publish: a full queue loses its oldest frame.                  *)
Published(q, frame) ==
  IF q = Closed THEN q ELSE Append(IF Len(q) = QueueMax THEN Tail(q) ELSE q, frame)

(* _publish_title.                                                         *)
TitleTells(j) ==
  /\ titles[j].pc = "telling" /\ ~titles[j].cancelled
  /\ queue' = [s \in Sockets |-> Published(queue[s], titles[j].chat)]
  /\ TitleOnly(j, "done")
  /\ UNCHANGED <<bgChat, dropping, titleTask, own, global, pendingMsg, debounce, facts,
                 turnsEnded, update, updates, chosen>>

TitleCancelled(j) ==
  /\ titles[j].cancelled /\ titles[j].pc \in {"asking", "telling"}
  /\ TitleOnly(j, "done")
  /\ UNCHANGED <<bgChat, dropping, titleTask, own, global, pendingMsg, debounce, facts, queue,
                 turnsEnded, update, updates, chosen>>

(* _forget_task, the done callback: drops the entry if it is still its own.*)
TitleForgotten(j) ==
  /\ titles[j].pc = "done"
  /\ TitleOnly(j, "forgotten")
  /\ titleTask' = IF titleTask = j THEN NoJob ELSE titleTask
  /\ UNCHANGED <<bgChat, dropping, own, global, pendingMsg, debounce, facts, queue,
                 turnsEnded, update, updates, chosen>>

(* The sockets: subscribe, a frame sent, unsubscribe.                      *)
SocketStep(s) ==
  /\ \/ queue[s] = Closed /\ queue' = [queue EXCEPT ![s] = <<>>]
     \/ /\ queue[s] \notin {Closed, <<>>}
        /\ queue' = [queue EXCEPT ![s] = Tail(@)]
     \/ queue[s] # Closed /\ queue' = [queue EXCEPT ![s] = Closed]
  /\ UNCHANGED <<bgChat, dropping, titleTask, titles, own, global, pendingMsg, debounce, facts,
                 turnsEnded, update, updates, chosen>>

-----------------------------------------------------------------------------
(* The facts job.                                                          *)

FactsFrame == UNCHANGED <<bgChat, dropping, titleTask, titles, global, queue,
                          turnsEnded, update, updates, chosen>>

(* The `finally` of _run_debounced_facts pops the entry of the chat,       *)
(* whoever's it is.                                                        *)
FactsEnds(j) ==
  /\ facts' = [facts EXCEPT ![j].pc = "done"]
  /\ debounce' = NoJob

(* A job cancelled before its first step never runs, not even `finally`.   *)
FactsStarts(j) ==
  /\ facts[j].pc = "created"
  /\ facts' = [facts EXCEPT ![j].pc = IF facts[j].cancelled THEN "done" ELSE "sleeping"]
  /\ FactsFrame /\ UNCHANGED <<own, pendingMsg, debounce>>

FactsCancelled(j) ==
  /\ facts[j].cancelled /\ facts[j].pc \in {"sleeping", "asking", "loaded", "targeted"}
  /\ FactsEnds(j)
  /\ FactsFrame /\ UNCHANGED <<own, pendingMsg>>

(* After the wait the newest message is taken, if none took it before.     *)
FactsWakes(j) ==
  /\ facts[j].pc = "sleeping" /\ ~facts[j].cancelled
  /\ pendingMsg' = NoPending
  /\ IF pendingMsg = NoPending
     THEN FactsEnds(j)
     ELSE facts' = [facts EXCEPT ![j].pc = "asking", ![j].msg = pendingMsg] /\ UNCHANGED debounce
  /\ FactsFrame /\ UNCHANGED own

(* No provider, no answer, no JSON: nothing is stored.                     *)
FactsFails(j) ==
  /\ facts[j].pc = "asking"
  /\ FactsEnds(j)
  /\ FactsFrame /\ UNCHANGED <<own, pendingMsg>>

(* get_effective_settings: the chat's row, or else the owner's.            *)
FactsLoads(j) ==
  /\ facts[j].pc = "asking" /\ ~facts[j].cancelled
  /\ facts' = [facts EXCEPT ![j].pc = "loaded", ![j].copy = own.facts, ![j].fromOwn = own.there]
  /\ FactsFrame /\ UNCHANGED <<own, pendingMsg, debounce>>

(* _facts_target_row: a row of the chat's own is made with the defaults;   *)
(* without the chat it breaks the foreign key.                             *)
FactsTargets(j) ==
  /\ facts[j].pc = "loaded" /\ ~facts[j].cancelled
  /\ IF facts[j].fromOwn \/ own.there \/ bgChat.there
     THEN /\ facts' = [facts EXCEPT ![j].pc = "targeted"]
          /\ own' = IF facts[j].fromOwn \/ own.there THEN own ELSE NewRow
          /\ UNCHANGED debounce
     ELSE FactsEnds(j) /\ UNCHANGED own
  /\ FactsFrame /\ UNCHANGED pendingMsg

(* Mutant: the row is written as it was made, with every column.           *)
FactsStoresRow(j) ==
  /\ facts[j].pc = "targeted" /\ ~facts[j].cancelled
  /\ own' = IF own.there THEN [NewRow EXCEPT !.facts = facts[j].copy \cup {facts[j].msg}]
                         ELSE own
  /\ FactsEnds(j)
  /\ FactsFrame /\ UNCHANGED pendingMsg

(* The UPDATE of facts_json; of a row that is gone it raises.              *)
FactsStores(j) ==
  /\ facts[j].pc = "targeted" /\ ~facts[j].cancelled
  /\ own' = IF own.there THEN [own EXCEPT !.facts = facts[j].copy \cup {facts[j].msg}] ELSE own
  /\ FactsEnds(j)
  /\ FactsFrame /\ UNCHANGED pendingMsg

-----------------------------------------------------------------------------
(* The user.                                                               *)

(* update_settings without a chat.                                         *)
PutsGlobal ==
  /\ updates < MaxUpdates /\ updates' = updates + 1
  /\ global' = "set"
  /\ UNCHANGED <<bgChat, dropping, titleTask, titles, own, pendingMsg, debounce, facts, queue,
                 turnsEnded, update, chosen>>

(* update_settings for the chat: the row is read,                          *)
LoadsOwn ==
  /\ bgChat.there /\ ~update.on /\ updates < MaxUpdates
  /\ updates' = updates + 1
  /\ \E v \in {"set", "reset"} : update' = [on |-> TRUE, there |-> own.there, value |-> v]
  /\ UNCHANGED <<bgChat, dropping, titleTask, titles, own, global, pendingMsg, debounce, facts,
                 queue, turnsEnded, chosen>>

(* then written: an UPDATE of what is sent, or an INSERT that fails when a *)
(* row has come meanwhile or the chat has gone.                            *)
PutsOwn ==
  /\ update.on /\ update' = NoUpdate
  /\ LET stored == IF update.there THEN own.there ELSE ~own.there /\ bgChat.there
     IN IF stored
        THEN /\ own' = [own EXCEPT !.there = TRUE, !.value = update.value]
             /\ chosen' = update.value
        ELSE UNCHANGED <<own, chosen>>
  /\ UNCHANGED <<bgChat, dropping, titleTask, titles, global, pendingMsg, debounce, facts, queue,
                 turnsEnded, updates>>

(* delete_chat: the row and its settings go;                               *)
DeletesChat ==
  /\ bgChat.there /\ ~dropping
  /\ bgChat' = [bgChat EXCEPT !.there = FALSE] /\ own' = NoRow /\ chosen' = NoUserChoice
  /\ dropping' = TRUE
  /\ UNCHANGED <<titleTask, titles, global, pendingMsg, debounce, facts, queue, turnsEnded,
                 update, updates>>

(* cleanup_chat_caches: the title job is forgotten and cancelled.          *)
DropsCaches ==
  /\ dropping /\ dropping' = FALSE
  /\ titleTask' = NoJob
  /\ titles' = [j \in DOMAIN titles |->
                  IF j = titleTask /\ titles[j].pc # "done"
                  THEN [titles[j] EXCEPT !.cancelled = TRUE] ELSE titles[j]]
  /\ UNCHANGED <<bgChat, own, global, pendingMsg, debounce, facts, queue, turnsEnded, update,
                 updates, chosen>>

(* create_chat: the next chat gets the id of the last one.                 *)
CreatesChat ==
  /\ ~bgChat.there /\ bgChat.no < MaxChats
  /\ bgChat' = [no |-> bgChat.no + 1, there |-> TRUE, title |-> "New Chat"]
  /\ UNCHANGED <<dropping, titleTask, titles, own, global, pendingMsg, debounce, facts, queue,
                 turnsEnded, update, updates, chosen>>

-----------------------------------------------------------------------------
TitleStep(j) == TitleSkipped(j) \/ TitleApplies(j) \/ TitleTells(j) \/ TitleCancelled(j)
                \/ TitleForgotten(j)
FactsStep(j) == FactsStarts(j) \/ FactsCancelled(j) \/ FactsWakes(j) \/ FactsFails(j)
                \/ FactsLoads(j) \/ FactsTargets(j) \/ FactsStores(j)

BgNext ==
  \/ BgTurnEnds \/ PutsGlobal \/ LoadsOwn \/ PutsOwn \/ DeletesChat \/ DropsCaches \/ CreatesChat
  \/ \E j \in DOMAIN titles : TitleStep(j)
  \/ \E j \in DOMAIN facts : FactsStep(j)
  \/ \E s \in Sockets : SocketStep(s)

BgSpec == BgInit /\ [][BgNext]_bgVars

-----------------------------------------------------------------------------
(* Properties.                                                             *)

(* A title job that runs is the one a deletion finds and cancels           *)
(* (title_tasks), unless the deletion has found it already.                *)
TitleJobKnown ==
  \A j \in DOMAIN titles :
    titles[j].pc \in {"asking", "telling"} => titles[j].cancelled \/ titleTask = j

(* What the user set for a chat stays, whatever the facts jobs write into  *)
(* the same row meanwhile.                                                 *)
UserSettingsKept == chosen # NoUserChoice => own.there /\ own.value = chosen

(* A frame that is published is the newest of every open queue, and no     *)
(* queue outgrows its bound (EventHub.publish).                            *)
NewestFrameKept ==
  \A s \in Sockets :
    /\ Len(queue'[s]) <= QueueMax
    /\ \A j \in DOMAIN titles :
         (titles[j].pc = "telling" /\ titles'[j].pc = "done" /\ ~titles[j].cancelled
            /\ queue[s] # Closed)
           => queue'[s] # <<>> /\ queue'[s][Len(queue'[s])] = titles[j].chat
=============================================================================
