------------------------------ MODULE ChatTurn ------------------------------
(***************************************************************************)
(* The conversation tree of a chat and the requests that change it: turns  *)
(* over the WebSocket (agent/ws.py) and over HTTP (agent/http_chat.py),    *)
(* the switch of the branch and the deletion of the chat (agent/main.py).  *)
(* Turns and switches run under the chat's asyncio.Lock, which lives in    *)
(* the dict state.chat_locks; a deletion takes no lock and drops the entry.*)
(*                                                                         *)
(* A step is what one coroutine does between two suspensions.  A request   *)
(* works on its session's copy of the chat row.  The generation gate is    *)
(* used through BoundedSlots, which GenerationGate implements: at most     *)
(* GateCap turns are past it.                                              *)
(***************************************************************************)
EXTENDS Naturals, Sequences, FiniteSets

CONSTANTS
  Chats, Requests,
  Ops,        \* the requests that come: ws, http, branch, delete
  Leavers,    \* the requests whose WebSocket client may go away
  GateCap,    \* MAX_CONCURRENT_GENERATIONS
  MaxFaults,  \* bound: unexpected exceptions after the question is stored
  MaxMsg      \* bound: the largest message id

ASSUME ChatAssumption ==
  /\ IsFiniteSet(Requests)
  /\ Ops \subseteq {"ws", "http", "branch", "delete"}
  /\ GateCap \in Nat \ {0} /\ MaxFaults \in Nat /\ MaxMsg \in Nat \ {0, 1}

VARIABLES
  chat,     \* table chat: live, and current_leaf_message_id or NoMsg
  message,  \* table message, a function of the ids that exist
  popped,   \* how often chat_locks lost its entry of the chat
  lock,     \* the asyncio.Locks, by chat and popped
  request,  \* the requests, see RequestType
  gone,     \* requests whose client has disconnected
  faults    \* exceptions so far

vars == <<chat, message, popped, lock, request, gone, faults>>

NoMsg == 0
Ids == 1..MaxMsg
LockIds == Chats \X (0..Cardinality(Requests))

(* queued: in the lock's deque; locked: has it; asking: waits for a slot;  *)
(* generating, ready, asked, replied, discarding, stored: past the gate;   *)
(* failed: answered by an error frame; broken: ended by an exception.      *)
PastGate == {"generating", "ready", "asked", "replied", "discarding", "stored"}
Working == {"locked", "asking"} \cup PastGate
Final == {"done", "refused", "failed", "broken"}

RequestType ==
  [op : Ops, chat : Chats, pc : {"new", "loaded", "queued", "deleted"} \cup Working \cup Final,
   lock : LockIds, leaf : 0..MaxMsg, msg : 0..MaxMsg]

Init ==
  /\ chat \in [Chats -> {[live |-> TRUE, leaf |-> n] : n \in {NoMsg, 2}}]
  /\ \A c, d \in Chats : chat[c].leaf = 2 /\ chat[d].leaf = 2 => c = d
  /\ message = IF \E c \in Chats : chat[c].leaf = 2
               THEN LET c == CHOOSE c \in Chats : chat[c].leaf = 2
                    IN <<[chat |-> c, parent |-> NoMsg, role |-> "user"],
                         [chat |-> c, parent |-> 1, role |-> "assistant"]>>
               ELSE <<>>
  /\ popped = [c \in Chats |-> 0]
  /\ lock = [k \in LockIds |-> [held |-> FALSE, queue |-> <<>>]]
  /\ request \in [Requests -> {r \in [op : Ops, chat : Chats, pc : {"new"}, lock : LockIds,
                                      leaf : {NoMsg}, msg : {NoMsg}] : r.lock = <<r.chat, 0>>}]
  /\ gone = {}
  /\ faults = 0

----------------------------------------------------------------------------
(* The tables. *)

(* A row id: SQLite gives a new row the largest id plus one, so the id of a *)
(* deleted last row comes again.                                           *)
NewId == CHOOSE n \in 1..(MaxMsg + 1) :
           /\ \A m \in DOMAIN message : m < n
           /\ n > 1 => n - 1 \in DOMAIN message

(* A foreign key that the database accepts. *)
Resolves(m) == m = NoMsg \/ m \in DOMAIN message

(* A message is inserted and becomes the leaf, in one commit. *)
CanAppend(c, parent) == chat[c].live /\ Resolves(parent)

AppendMessage(c, parent, role) ==
  /\ NewId <= MaxMsg
  /\ message' = [m \in DOMAIN message \cup {NewId} |->
       IF m = NewId THEN [chat |-> c, parent |-> parent, role |-> role] ELSE message[m]]
  /\ chat' = [chat EXCEPT ![c].leaf = NewId]

(* A DELETE with its ON DELETE SET NULL: rows is what the chats become. *)
RemoveMessages(ids, rows) ==
  /\ message' = [m \in DOMAIN message \ ids |->
       [message[m] EXCEPT !.parent = IF @ \in ids THEN NoMsg ELSE @]]
  /\ chat' = [c \in Chats |-> [rows[c] EXCEPT !.leaf = IF @ \in ids THEN NoMsg ELSE @]]

----------------------------------------------------------------------------
(* The locks. *)

Goes(q, pc) == request' = [request EXCEPT ![q].pc = pc]

(* `async with chat_locks[chat_id]`, the entry made if it is missing. *)
JoinsLock(q) ==
  LET k == <<request[q].chat, popped[request[q].chat]>>
  IN IF lock[k].held \/ lock[k].queue # <<>>
     THEN /\ lock' = [lock EXCEPT ![k].queue = Append(@, q)]
          /\ request' = [request EXCEPT ![q].pc = "queued", ![q].lock = k]
     ELSE /\ lock' = [lock EXCEPT ![k].held = TRUE]
          /\ request' = [request EXCEPT ![q].pc = "locked", ![q].lock = k]

(* The waiter that release woke resumes. *)
LockGranted(q) ==
  LET k == request[q].lock
  IN /\ request[q].pc = "queued"
     /\ ~lock[k].held
     /\ lock[k].queue # <<>> /\ Head(lock[k].queue) = q
     /\ lock' = [lock EXCEPT ![k] = [held |-> TRUE, queue |-> Tail(@.queue)]]
     /\ Goes(q, "locked")
     /\ UNCHANGED <<chat, message, popped, gone, faults>>

(* The request leaves the slot and the lock, whatever ended it. *)
EndsWith(q, pc) ==
  /\ lock' = [lock EXCEPT ![request[q].lock].held = FALSE]
  /\ Goes(q, pc)

----------------------------------------------------------------------------
(* A turn. *)

IsTurn(q) == request[q].op \in {"ws", "http"}

(* ws_chat hands a message over; the chat was checked when it connected. *)
WsArrives(q) ==
  /\ request[q].op = "ws"
  /\ request[q].pc = "new"
  /\ JoinsLock(q)
  /\ UNCHANGED <<chat, message, popped, gone, faults>>

(* post_chat_message: the owner check, ... *)
HttpLoads(q) ==
  /\ request[q].op = "http"
  /\ request[q].pc = "new"
  /\ Goes(q, IF chat[request[q].chat].live THEN "loaded" ELSE "refused")
  /\ UNCHANGED <<chat, message, popped, lock, gone, faults>>

(* ... 409 CHAT_BUSY if the lock is held, else lock.acquire. *)
HttpArrives(q) ==
  /\ request[q].op = "http"
  /\ request[q].pc = "loaded"
  /\ IF lock[<<request[q].chat, popped[request[q].chat]>>].held
     THEN Goes(q, "refused") /\ UNCHANGED lock
     ELSE JoinsLock(q)
  /\ UNCHANGED <<chat, message, popped, gone, faults>>

SlotFree == Cardinality({r \in Requests : request[r].pc \in PastGate}) < GateCap

(* A full gate: the "queued" frame fails if the client is gone. *)
AsksSlot(q) ==
  /\ IsTurn(q)
  /\ request[q].pc = "locked"
  /\ ~SlotFree
  /\ IF q \in gone THEN EndsWith(q, "broken") ELSE Goes(q, "asking") /\ UNCHANGED lock
  /\ UNCHANGED <<chat, message, popped, gone, faults>>

(* A slot; after a wait the "dequeued" frame fails if the client is gone. *)
TakesSlot(q) ==
  /\ IsTurn(q)
  /\ request[q].pc \in {"locked", "asking"}
  /\ SlotFree
  /\ IF q \in gone /\ request[q].pc = "asking" THEN EndsWith(q, "broken")
     ELSE Goes(q, "generating") /\ UNCHANGED lock
  /\ UNCHANGED <<chat, message, popped, gone, faults>>

(* _run_chat_turn: the chat is loaded; without it, and without a provider, *)
(* nothing is stored.                                                      *)
TurnLoads(q) ==
  /\ request[q].pc = "generating"
  /\ \/ /\ chat[request[q].chat].live
        /\ request' = [request EXCEPT ![q].pc = "ready", ![q].leaf = chat[request[q].chat].leaf]
        /\ UNCHANGED lock
     \/ EndsWith(q, "refused")
  /\ UNCHANGED <<chat, message, popped, gone, faults>>

(* _persist_user_message; the foreign keys fail if the chat was deleted. *)
StoresQuestion(q) ==
  LET r == request[q]
  IN /\ r.pc = "ready"
     /\ IF CanAppend(r.chat, r.leaf)
        THEN /\ AppendMessage(r.chat, r.leaf, "user")
             /\ request' = [request EXCEPT ![q].pc = "asked", ![q].msg = NewId]
             /\ UNCHANGED lock
        ELSE EndsWith(q, "broken") /\ UNCHANGED <<chat, message>>
     /\ UNCHANGED <<popped, gone, faults>>

(* The answer has been streamed, tool rounds and critique included. *)
Streams(q) ==
  /\ request[q].pc = "asked"
  /\ q \notin gone
  /\ Goes(q, "replied")
  /\ UNCHANGED <<chat, message, popped, lock, gone, faults>>

(* Mutant: the error frame is the end of the turn. *)
StreamFailsKeeping(q) ==
  /\ request[q].pc = "asked"
  /\ EndsWith(q, IF q \in gone THEN "broken" ELSE "failed")
  /\ UNCHANGED <<chat, message, popped, gone, faults>>

(* The context overflows, the model fails, or a frame of the stream cannot *)
(* be sent: an error frame, which fails too if the client is gone, then    *)
(* the cleanup.                                                            *)
StreamFails(q) ==
  /\ request[q].pc = "asked"
  /\ IF q \in gone THEN EndsWith(q, "broken") ELSE Goes(q, "discarding") /\ UNCHANGED lock
  /\ UNCHANGED <<chat, message, popped, gone, faults>>

(* A gated reply that cannot be stored: the cleanup comes first. *)
GatedFails(q) ==
  /\ request[q].pc = "asked"
  /\ faults < MaxFaults
  /\ faults' = faults + 1
  /\ Goes(q, "discarding")
  /\ UNCHANGED <<chat, message, popped, lock, gone>>

(* Mutant: the message is deleted and the leaf left to ON DELETE SET NULL. *)
DiscardsQuestionOnly(q) ==
  LET r == request[q]
  IN /\ r.pc = "discarding"
     /\ IF chat[r.chat].live
        THEN RemoveMessages({r.msg}, chat) /\ EndsWith(q, "failed")
        ELSE EndsWith(q, "broken") /\ UNCHANGED <<chat, message>>
     /\ UNCHANGED <<popped, gone, faults>>

(* _discard_user_message: the leaf goes back, the message is deleted. *)
DiscardsQuestion(q) ==
  LET r == request[q]
  IN /\ r.pc = "discarding"
     /\ IF chat[r.chat].live /\ Resolves(r.leaf)
        THEN /\ RemoveMessages({r.msg}, [chat EXCEPT ![r.chat].leaf = IF @ = r.msg THEN r.leaf ELSE @])
             /\ EndsWith(q, "failed")
        ELSE EndsWith(q, "broken") /\ UNCHANGED <<chat, message>>
     /\ UNCHANGED <<popped, gone, faults>>

(* Anything else raises on the way: no handler undoes the question. *)
TurnRaises(q) ==
  /\ request[q].pc \in {"asked", "replied", "discarding"}
  /\ faults < MaxFaults
  /\ faults' = faults + 1
  /\ EndsWith(q, "broken")
  /\ UNCHANGED <<chat, message, popped, gone>>

(* _persist_assistant_message *)
StoresReply(q) ==
  LET r == request[q]
  IN /\ r.pc = "replied"
     /\ IF CanAppend(r.chat, r.msg)
        THEN AppendMessage(r.chat, r.msg, "assistant") /\ Goes(q, "stored") /\ UNCHANGED lock
        ELSE EndsWith(q, "broken") /\ UNCHANGED <<chat, message>>
     /\ UNCHANGED <<popped, gone, faults>>

(* The done frame; a client that is gone changes nothing any more. *)
SendsDone(q) ==
  /\ request[q].pc = "stored"
  /\ EndsWith(q, "done")
  /\ UNCHANGED <<chat, message, popped, gone, faults>>

(* Nobody reads the socket during a turn: the turn learns it by a send. *)
ClientLeaves(q) ==
  /\ q \in Leavers \ gone
  /\ request[q].op = "ws"
  /\ request[q].pc \notin {"new"} \cup Final
  /\ gone' = gone \cup {q}
  /\ UNCHANGED <<chat, message, popped, lock, request, faults>>

(* A turn, of a /help or a /support command too. *)
TurnStep(q) == WsArrives(q) \/ HttpLoads(q) \/ HttpArrives(q) \/ AsksSlot(q) \/ TakesSlot(q)
               \/ TurnLoads(q) \/ StoresQuestion(q) \/ Streams(q) \/ StreamFails(q)
               \/ DiscardsQuestion(q) \/ StoresReply(q) \/ SendsDone(q)

----------------------------------------------------------------------------
(* branch_chat; msg is the message to switch to. *)

(* The chat is loaded; the message_id of the body may be any. *)
BranchLoads(q) ==
  LET c == request[q].chat
  IN /\ request[q].op = "branch"
     /\ request[q].pc = "new"
     /\ IF chat[c].live
        THEN \E m \in Ids :
               request' = [request EXCEPT ![q].pc = "loaded", ![q].leaf = chat[c].leaf,
                                          ![q].msg = m]
        ELSE Goes(q, "refused")
     /\ UNCHANGED <<chat, message, popped, lock, gone, faults>>

(* Mutant: the switch does not wait for the turn in progress. *)
BranchBarges(q) ==
  LET r == request[q]
  IN /\ r.op = "branch"
     /\ r.pc = "loaded"
     /\ r.msg \in DOMAIN message
     /\ chat' = [chat EXCEPT ![r.chat].leaf = r.msg]
     /\ Goes(q, "done")
     /\ UNCHANGED <<message, popped, lock, gone, faults>>

(* 404 unless the message is one of the chat, then the lock. *)
BranchJoins(q) ==
  LET r == request[q]
  IN /\ r.op = "branch"
     /\ r.pc = "loaded"
     /\ IF r.msg \in DOMAIN message /\ message[r.msg].chat = r.chat
        THEN JoinsLock(q)
        ELSE Goes(q, "refused") /\ UNCHANGED lock
     /\ UNCHANGED <<chat, message, popped, gone, faults>>

(* The copy of the row is as old as the request: an assignment that does   *)
(* not change it writes nothing.                                           *)
BranchCommits(q) ==
  LET r == request[q]
      moved == r.msg # r.leaf
  IN /\ r.op = "branch"
     /\ r.pc = "locked"
     /\ IF chat[r.chat].live /\ (moved => r.msg \in DOMAIN message)
        THEN /\ chat' = IF moved THEN [chat EXCEPT ![r.chat].leaf = r.msg] ELSE chat
             /\ EndsWith(q, "done")
        ELSE EndsWith(q, "broken") /\ UNCHANGED chat
     /\ UNCHANGED <<message, popped, gone, faults>>

----------------------------------------------------------------------------
(* delete_chat *)

(* Mutant: the caches are cleared before the row is deleted. *)
DeleteLoadsAndCleans(q) ==
  LET c == request[q].chat
  IN /\ request[q].op = "delete"
     /\ request[q].pc = "new"
     /\ Goes(q, IF chat[c].live THEN "loaded" ELSE "refused")
     /\ popped' = [popped EXCEPT ![c] = IF chat[c].live THEN @ + 1 ELSE @]
     /\ UNCHANGED <<chat, message, lock, gone, faults>>

(* The owner check. *)
DeleteLoads(q) ==
  /\ request[q].op = "delete"
  /\ request[q].pc = "new"
  /\ Goes(q, IF chat[request[q].chat].live THEN "loaded" ELSE "refused")
  /\ UNCHANGED <<chat, message, popped, lock, gone, faults>>

(* The row and, ON DELETE CASCADE, its messages. *)
DeleteRow(q) ==
  LET c == request[q].chat
  IN /\ request[q].op = "delete"
     /\ request[q].pc = "loaded"
     /\ RemoveMessages({m \in DOMAIN message : message[m].chat = c},
                       [chat EXCEPT ![c] = [live |-> FALSE, leaf |-> NoMsg]])
     /\ Goes(q, "deleted")
     /\ UNCHANGED <<popped, lock, gone, faults>>

(* cleanup_chat_caches drops the lock, held or not. *)
DeleteCleans(q) ==
  /\ request[q].pc = "deleted"
  /\ popped' = [popped EXCEPT ![request[q].chat] = @ + 1]
  /\ Goes(q, "done")
  /\ UNCHANGED <<chat, message, lock, gone, faults>>

OtherStep(q) == BranchLoads(q) \/ BranchJoins(q) \/ BranchCommits(q)
                \/ DeleteLoads(q) \/ DeleteRow(q) \/ DeleteCleans(q) \/ LockGranted(q)

----------------------------------------------------------------------------
Next == \E q \in Requests : TurnStep(q) \/ OtherStep(q) \/ GatedFails(q) \/ TurnRaises(q)
                            \/ ClientLeaves(q)

(* The loop runs what is ready; the model's client has timeouts. *)
Fairness == \A q \in Requests : WF_vars(TurnStep(q) \/ OtherStep(q))

Spec == Init /\ [][Next]_vars
FairSpec == Spec /\ Fairness

----------------------------------------------------------------------------
(* Every variable has its type and every foreign key resolves. *)
TypeOK ==
  /\ chat \in [Chats -> [live : BOOLEAN, leaf : {NoMsg} \cup DOMAIN message]]
  /\ DOMAIN message \subseteq Ids
  /\ message \in [DOMAIN message -> [chat : Chats, parent : {NoMsg} \cup DOMAIN message,
                                     role : {"user", "assistant"}]]
  /\ popped \in [Chats -> 0..Cardinality(Requests)]
  /\ lock \in [LockIds -> [held : BOOLEAN, queue : Seq(Requests)]]
  /\ request \in [Requests -> RequestType]
  /\ gone \subseteq Leavers
  /\ faults \in 0..MaxFaults

(* The lock's purpose, kept although a deletion drops locks that are held: *)
(* no two requests work on one chat that exists.                           *)
OneAtATime ==
  \A c \in Chats : chat[c].live =>
    Cardinality({q \in Requests : request[q].chat = c /\ request[q].pc \in Working}) <= 1

(* "The message is attached to the chat's current leaf": though a request  *)
(* reads the leaf long before it writes, no switch or turn comes between,  *)
(* so the tree forks only where a switch has put the leaf.                 *)
AttachedToLeaf ==
  [][\A m \in DOMAIN message' \ DOMAIN message :
       message'[m].parent = chat[message'[m].chat].leaf]_vars

(* "After a failed turn the user message is removed": a question without a *)
(* continuation is one that a turn is working on.                          *)
QuestionAnswered ==
  \A m \in DOMAIN message :
    message[m].role = "user" =>
      \/ \E n \in DOMAIN message : message[n].parent = m
      \/ \E q \in Requests :
           IsTurn(q) /\ request[q].msg = m
           /\ request[q].pc \in {"asked", "replied", "discarding"}

(* A failed turn returns the leaf "to the message that was the leaf before *)
(* the turn", so a chat that has had an exchange keeps a leaf.             *)
LeafKept ==
  \A c \in Chats : (\E m \in DOMAIN message : message[m].chat = c) => chat[c].leaf # NoMsg

(* Every message hangs in the tree of its chat, which keeps a leaf as long *)
(* as it has a message, through deletions and failed turns.                *)
TreeKept == TypeOK /\ LeafKept

(* Whatever fails, no chat is left locked: every request ends. *)
EveryRequestEnds == \A q \in Requests : request[q].pc # "new" ~> request[q].pc \in Final

(* docs/ARCHITECTURE.md: branch repoints the leaf to any earlier message.  *)
BranchSwitches ==
  [][\A q \in Requests :
       request[q].op = "branch" /\ request[q].pc # "done" /\ request'[q].pc = "done" =>
         chat'[request[q].chat].leaf = request[q].msg]_vars
=============================================================================
