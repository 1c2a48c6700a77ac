--------------------------- MODULE ChatTurnProofs ---------------------------
(***************************************************************************)
(* Theorems about ChatTurn.                                                *)
(*                                                                         *)
(* IInv is about the lock.  A deletion pops the lock of its chat from the  *)
(* dict while it may be held, so a later request makes another; what keeps *)
(* two requests apart is that nobody pops it while the chat exists         *)
(* (LockInv: popped = 0), so all who work on a chat that exists hold the   *)
(* same lock, and holding it is exclusive (Solo).  LockMoves says once     *)
(* what any step does to the locks: one request acquires, releases or goes *)
(* on.                                                                     *)
(*                                                                         *)
(* TreeInv is about the rows.  What a turn read before its waits is still  *)
(* so when it writes: until the question is stored the leaf it loaded is   *)
(* the leaf of the chat, and from then on the question is (TurnOf); so     *)
(* that the leaf and the parents are messages of the chat (TreeOf).        *)
(***************************************************************************)
EXTENDS ChatTurn, FiniteSetTheorems, SequenceTheorems, WellFoundedInduction, TLAPS

(* A set of numbers has a least one. *)
LEMMA LeastNat == ASSUME NEW T \in SUBSET Nat, T # {} PROVE \E n \in T : \A m \in T : n <= m
<1> DEFINE R == OpToRel(<, Nat)
<1>1. IsWellFoundedOn(R, Nat)
  BY NatLessThanWellFounded
<1>2. \A m, n \in Nat : m < n => <<m, n>> \in R
  BY DEF OpToRel
<1> HIDE DEF R
<1>3. PICK n \in T : \A m \in T : <<m, n>> \notin R
  BY <1>1, WFMin
<1>4. ASSUME NEW m \in T PROVE n <= m
  <2>1. m \in Nat /\ n \in Nat /\ <<m, n>> \notin R
    BY <1>3
  <2>2. ~(m < n)
    BY <1>2, <2>1, Zenon
  <2> QED
    BY <2>1, <2>2
<1> QED
  BY <1>3, <1>4

(* A new row gets an id of its own. *)
LEMMA NewIdFits ==
  ASSUME DOMAIN message \subseteq Ids
  PROVE  NewId \in 1..(MaxMsg + 1) /\ \A m \in DOMAIN message : m < NewId
<1> DEFINE T == {n \in 1..(MaxMsg + 1) : \A m \in DOMAIN message : m < n}
<1>1. MaxMsg \in Nat
  BY ChatAssumption
<1>2. T \in SUBSET Nat /\ MaxMsg + 1 \in T
  BY <1>1 DEF Ids
<1>3. PICK n \in T : \A m \in T : n <= m
  BY <1>2, LeastNat
<1>4. n > 1 => n - 1 \in DOMAIN message
  <2> SUFFICES ASSUME n > 1, n - 1 \notin DOMAIN message PROVE FALSE
    OBVIOUS
  <2>1. \A m \in DOMAIN message : m \in Nat /\ m < n /\ m # n - 1
    BY <1>1 DEF Ids
  <2>2. n - 1 \in 1..(MaxMsg + 1) /\ \A m \in DOMAIN message : m < n - 1
    BY <1>1, <2>1
  <2>3. n - 1 \in T
    BY <2>2
  <2> QED
    BY <1>3, <1>1, <2>3
<1> QED
  BY <1>3, <1>4 DEF NewId

----------------------------------------------------------------------------
(* Types. *)

MessageRows(ids) == [chat : Chats, parent : {NoMsg} \cup ids, role : {"user", "assistant"}]
ChatRows(ids) == [live : BOOLEAN, leaf : {NoMsg} \cup ids]
LockRows == [held : BOOLEAN, queue : Seq(Requests)]
Pcs == {"new", "loaded", "queued", "deleted"} \cup Working \cup Final

(* The two tables. *)
TablesOK ==
  /\ chat \in [Chats -> ChatRows(DOMAIN message)]
  /\ DOMAIN message \subseteq Ids
  /\ message \in [DOMAIN message -> MessageRows(DOMAIN message)]

LEMMA NoMsgFits == NoMsg \notin Ids /\ NoMsg \in 0..MaxMsg /\ Ids \subseteq 0..MaxMsg
BY ChatAssumption DEF NoMsg, Ids

(* An insert: a new row, a new leaf, and the tables keep their types. *)
LEMMA AppendTables ==
  ASSUME TablesOK, NEW c \in Chats, NEW parent, Resolves(parent),
         NEW role \in {"user", "assistant"}, AppendMessage(c, parent, role)
  PROVE  /\ TablesOK'
         /\ NewId \in Ids /\ NewId \notin DOMAIN message
         /\ DOMAIN message' = DOMAIN message \cup {NewId}
         /\ \A m \in DOMAIN message : message'[m] = message[m]
         /\ message'[NewId] = [chat |-> c, parent |-> parent, role |-> role]
         /\ chat' = [chat EXCEPT ![c].leaf = NewId]
<1> DEFINE n == NewId
           row == [chat |-> c, parent |-> parent, role |-> role]
<1>1. n \in 1..(MaxMsg + 1) /\ \A m \in DOMAIN message : m < n
  BY NewIdFits DEF TablesOK
<1>2. /\ n <= MaxMsg
      /\ message' = [m \in DOMAIN message \cup {n} |-> IF m = n THEN row ELSE message[m]]
      /\ chat' = [chat EXCEPT ![c].leaf = n]
  BY DEF AppendMessage
<1>3. n \in Ids /\ n \notin DOMAIN message
  BY <1>1, <1>2, ChatAssumption DEF Ids
<1> HIDE DEF n
<1>4. /\ DOMAIN message' = DOMAIN message \cup {n}
      /\ \A m \in DOMAIN message : message'[m] = message[m]
      /\ message'[n] = row
  BY <1>2, <1>3
<1>5. \A ids : /\ MessageRows(ids) \subseteq MessageRows(ids \cup {n})
               /\ ChatRows(ids) \subseteq ChatRows(ids \cup {n})
  BY DEF MessageRows, ChatRows
<1>6. row \in MessageRows(DOMAIN message \cup {n})
  BY DEF MessageRows, Resolves
<1>7. message' \in [DOMAIN message' -> MessageRows(DOMAIN message')]
  <2>1. \A m \in DOMAIN message : message[m] \in MessageRows(DOMAIN message \cup {n})
    BY <1>5 DEF TablesOK
  <2> HIDE DEF row
  <2> QED
    BY <1>2, <1>4, <1>6, <2>1
<1>8. chat' \in [Chats -> ChatRows(DOMAIN message')]
  <2>1. \A d \in Chats : chat[d] \in ChatRows(DOMAIN message \cup {n})
    BY <1>5 DEF TablesOK
  <2>2. [chat[c] EXCEPT !.leaf = n] \in ChatRows(DOMAIN message \cup {n})
    BY <2>1 DEF ChatRows
  <2> QED
    BY <1>2, <1>4, <2>1, <2>2 DEF TablesOK
<1>9. DOMAIN message' \subseteq Ids
  BY <1>3, <1>4 DEF TablesOK
<1> QED
  BY <1>2, <1>3, <1>4, <1>7, <1>8, <1>9 DEF TablesOK, n

(* A delete: rows go, and what referred to them refers to nothing. *)
LEMMA RemoveTables ==
  ASSUME TablesOK, NEW ids, NEW new \in [Chats -> ChatRows(DOMAIN message)],
         RemoveMessages(ids, new)
  PROVE  /\ TablesOK'
         /\ DOMAIN message' = DOMAIN message \ ids
         /\ \A m \in DOMAIN message \ ids :
              /\ message'[m].chat = message[m].chat /\ message'[m].role = message[m].role
              /\ message'[m].parent = IF message[m].parent \in ids THEN NoMsg ELSE message[m].parent
         /\ \A c \in Chats :
              /\ chat'[c].live = new[c].live
              /\ chat'[c].leaf = IF new[c].leaf \in ids THEN NoMsg ELSE new[c].leaf
<1> DEFINE left == DOMAIN message \ ids
           Cut(m) == [message[m] EXCEPT !.parent = IF message[m].parent \in ids THEN NoMsg
                                                   ELSE message[m].parent]
           Kept(c) == [new[c] EXCEPT !.leaf = IF new[c].leaf \in ids THEN NoMsg ELSE new[c].leaf]
<1>1. message' = [m \in left |-> Cut(m)] /\ chat' = [c \in Chats |-> Kept(c)]
  BY DEF RemoveMessages
<1>2. ASSUME NEW m \in left
      PROVE  /\ Cut(m) \in MessageRows(left)
             /\ Cut(m).chat = message[m].chat /\ Cut(m).role = message[m].role
             /\ Cut(m).parent = IF message[m].parent \in ids THEN NoMsg ELSE message[m].parent
  <2>1. message[m] \in MessageRows(DOMAIN message)
    BY DEF TablesOK
  <2> QED
    BY <2>1 DEF MessageRows
<1>3. ASSUME NEW c \in Chats
      PROVE  /\ Kept(c) \in ChatRows(left)
             /\ Kept(c).live = new[c].live
             /\ Kept(c).leaf = IF new[c].leaf \in ids THEN NoMsg ELSE new[c].leaf
  <2>1. new[c] \in ChatRows(DOMAIN message)
    OBVIOUS
  <2> QED
    BY <2>1 DEF ChatRows
<1> HIDE DEF Cut, Kept
<1>4. DOMAIN message' = left
  BY <1>1
<1>5. TablesOK'
  BY <1>1, <1>2, <1>3, <1>4 DEF TablesOK
<1> QED
  BY <1>1, <1>2, <1>3, <1>4, <1>5

(* One request moves to pc. *)
OneMoves(q, pc) ==
  /\ request' \in [Requests -> RequestType]
  /\ \A p \in Requests \ {q} : request'[p] = request[p]
  /\ request'[q].op = request[q].op /\ request'[q].chat = request[q].chat
  /\ request'[q].pc = pc

(* One request moves, and only its pc. *)
LEMMA GoesTo ==
  ASSUME TypeOK, NEW q \in Requests, NEW pc \in Pcs, Goes(q, pc)
  PROVE  /\ OneMoves(q, pc)
         /\ request'[q].lock = request[q].lock
         /\ request'[q].leaf = request[q].leaf /\ request'[q].msg = request[q].msg
<1>1. request \in [Requests -> RequestType] /\ request[q] \in RequestType
  BY DEF TypeOK
<1>2. [request[q] EXCEPT !.pc = pc] \in RequestType
  BY <1>1 DEF RequestType, Pcs
<1>3. request' = [request EXCEPT ![q] = [request[q] EXCEPT !.pc = pc]]
  BY DEF Goes
<1> QED
  BY <1>1, <1>2, <1>3 DEF OneMoves, RequestType

(* A request that ends touches no lock but its own. *)
LEMMA EndsTo ==
  ASSUME TypeOK, NEW q \in Requests, NEW pc \in Pcs, EndsWith(q, pc)
  PROVE  /\ OneMoves(q, pc)
         /\ request'[q].lock = request[q].lock
         /\ lock' \in [LockIds -> LockRows]
         /\ \A k \in LockIds \ {request[q].lock} : lock'[k] = lock[k]
<1>1. OneMoves(q, pc) /\ request'[q].lock = request[q].lock
  BY GoesTo DEF EndsWith
<1>2. lock \in [LockIds -> LockRows] /\ request[q].lock \in LockIds
  BY DEF TypeOK, LockRows, RequestType
<1>3. [lock[request[q].lock] EXCEPT !.held = FALSE] \in LockRows
  BY <1>2 DEF LockRows
<1> QED
  BY <1>1, <1>2, <1>3 DEF EndsWith

(* The lock the request would join. *)
LockNow(q) == <<request[q].chat, popped[request[q].chat]>>

(* A request that joins waits, or takes a lock nobody has. *)
LEMMA JoinTo ==
  ASSUME TypeOK, NEW q \in Requests, JoinsLock(q)
  PROVE  /\ \E pc \in {"queued", "locked"} :
              /\ OneMoves(q, pc)
              /\ pc = "locked" => ~lock[LockNow(q)].held /\ lock'[LockNow(q)].held
         /\ request'[q].lock = LockNow(q)
         /\ lock' \in [LockIds -> LockRows]
         /\ \A k \in LockIds : lock[k].held => lock'[k].held
<1> DEFINE k == LockNow(q)
           waits == lock[k].held \/ lock[k].queue # <<>>
           pc == IF waits THEN "queued" ELSE "locked"
           new == IF waits THEN [lock[k] EXCEPT !.queue = Append(@, q)]
                  ELSE [lock[k] EXCEPT !.held = TRUE]
<1>1. k \in LockIds
  BY DEF TypeOK, RequestType, LockIds, LockNow
<1>2. lock \in [LockIds -> LockRows] /\ lock[k] \in LockRows
  BY <1>1 DEF TypeOK, LockRows
<1>3. request \in [Requests -> RequestType] /\ request[q] \in RequestType
  BY DEF TypeOK
<1>4. /\ lock' = [lock EXCEPT ![k] = new]
      /\ request' = [request EXCEPT ![q] = [request[q] EXCEPT !.pc = pc, !.lock = k]]
  BY DEF JoinsLock, LockNow
<1>5. [request[q] EXCEPT !.pc = pc, !.lock = k] \in RequestType
  BY <1>1, <1>3 DEF RequestType, Working
<1>6. OneMoves(q, pc) /\ request'[q].lock = k
  BY <1>3, <1>4, <1>5 DEF OneMoves, RequestType
<1>7. Append(lock[k].queue, q) \in Seq(Requests)
  BY <1>2, AppendProperties DEF LockRows
<1>8. /\ new \in LockRows /\ (lock[k].held => new.held)
      /\ ~waits => ~lock[k].held /\ new.held
  BY <1>2, <1>7 DEF LockRows
<1> HIDE DEF new, k, waits
<1>9. /\ lock' \in [LockIds -> LockRows] /\ lock'[k] = new
      /\ \A i \in LockIds \ {k} : lock'[i] = lock[i]
  BY <1>1, <1>2, <1>4, <1>8
<1> QED
  BY <1>6, <1>8, <1>9 DEF k

----------------------------------------------------------------------------
(* The lock.  A chat that exists has had its lock from the start, so the   *)
(* requests that work on it have all passed through one lock.              *)

Live(q) == chat[request[q].chat].live
Works(q) == request[q].pc \in Working

(* The states of a turn that has met the gate. *)
TurnPcs == {"asking"} \cup PastGate

DeletedBy(c) ==
  {q \in Requests : request[q].op = "delete" /\ request[q].pc = "done" /\ request[q].chat = c}

LockInv ==
  /\ \A c \in Chats : chat[c].live => popped[c] = 0
  /\ \A c \in Chats : popped[c] <= Cardinality(DeletedBy(c))
  /\ \A q \in Requests :
       /\ request[q].lock[1] = request[q].chat
       /\ Live(q) => request[q].lock = <<request[q].chat, 0>> /\ request[q].pc # "deleted"
       /\ Live(q) /\ Works(q) => lock[request[q].lock].held
       /\ request[q].pc = "deleted" => request[q].op = "delete"
       /\ request[q].pc \in TurnPcs => IsTurn(q)

(* Two requests that work on one chat are one. *)
Solo ==
  \A p, q \in Requests :
    Live(p) /\ request[p].chat = request[q].chat /\ Works(p) /\ Works(q) => p = q

IInv == TypeOK /\ LockInv /\ Solo

Acquires(q) ==
  /\ ~Works(q) /\ request'[q].pc = "locked"
  /\ ~lock[request'[q].lock].held /\ lock'[request'[q].lock].held
  /\ \A k \in LockIds : lock[k].held => lock'[k].held

Releases(q) ==
  /\ Works(q) /\ request'[q].pc \in Final
  /\ request'[q].lock = request[q].lock
  /\ \A k \in LockIds \ {request[q].lock} : lock'[k] = lock[k]

GoesOn(q) ==
  /\ Works(q)' => Works(q) /\ request'[q].lock = request[q].lock
  /\ \A k \in LockIds : lock[k].held => lock'[k].held

(* What a step of request q does to the locks. *)
LockMoves(q) ==
  /\ OneMoves(q, request'[q].pc)
  /\ lock' \in [LockIds -> LockRows]
  /\ request'[q].lock \in {request[q].lock, LockNow(q)}
  /\ Acquires(q) \/ Releases(q) \/ GoesOn(q)
  /\ request[q].pc = "done" => request'[q].pc = "done"
  /\ request'[q].pc \in TurnPcs => IsTurn(q)
  /\ \A c \in Chats : chat'[c].live => chat[c].live
  /\ request'[q].pc = "deleted" =>
       request[q].op = "delete" /\ ~chat'[request[q].chat].live
  /\ \/ UNCHANGED popped
     \/ /\ request[q].pc = "deleted" /\ request'[q].pc = "done"
        /\ popped' = [popped EXCEPT ![request[q].chat] = @ + 1]

LEMMA TypesOfLock ==
  ASSUME TypeOK, NEW q \in Requests
  PROVE  /\ lock \in [LockIds -> LockRows] /\ request \in [Requests -> RequestType]
         /\ request[q] \in RequestType /\ request[q].chat \in Chats
         /\ request[q].lock \in LockIds /\ LockNow(q) \in LockIds
BY DEF TypeOK, LockRows, RequestType, LockIds, LockNow

(* A step that touches neither a lock nor the tables. *)
LEMMA PlainMove ==
  ASSUME IInv, NEW q \in Requests, NEW pc \in Pcs, Goes(q, pc), UNCHANGED <<chat, popped, lock>>,
         pc \in Working => Works(q), pc # "deleted", request[q].pc # "done",
         pc \in TurnPcs => IsTurn(q)
  PROVE  LockMoves(q)
<1>1. OneMoves(q, pc) /\ request'[q].lock = request[q].lock
  BY GoesTo DEF IInv
<1>2. lock \in [LockIds -> LockRows]
  BY TypesOfLock DEF IInv
<1>3. request'[q].pc = pc
  BY <1>1 DEF OneMoves
<1> QED
  BY <1>1, <1>2, <1>3 DEF LockMoves, GoesOn, Works

(* A request ends and releases. *)
LEMMA EndMove ==
  ASSUME IInv, NEW q \in Requests, NEW pc \in Final, EndsWith(q, pc), UNCHANGED popped, Works(q),
         \A c \in Chats : chat'[c].live => chat[c].live
  PROVE  LockMoves(q)
<1>1. /\ OneMoves(q, pc) /\ request'[q].lock = request[q].lock
      /\ lock' \in [LockIds -> LockRows]
      /\ \A k \in LockIds \ {request[q].lock} : lock'[k] = lock[k]
  BY EndsTo DEF IInv, Pcs
<1>2. request'[q].pc = pc
  BY <1>1 DEF OneMoves
<1>3. pc \notin TurnPcs /\ pc # "deleted" /\ request[q].pc # "done"
  BY DEF Works, Working, Final, TurnPcs, PastGate
<1> QED
  BY <1>1, <1>2, <1>3 DEF LockMoves, Releases

(* A request comes to the lock of its chat. *)
LEMMA JoinMove ==
  ASSUME IInv, NEW q \in Requests, JoinsLock(q), UNCHANGED <<chat, popped>>,
         request[q].pc \in {"new", "loaded"}
  PROVE  LockMoves(q)
<1>1. PICK pc \in {"queued", "locked"} :
         /\ OneMoves(q, pc)
         /\ pc = "locked" => ~lock[LockNow(q)].held /\ lock'[LockNow(q)].held
  BY JoinTo DEF IInv
<1>2. /\ request'[q].lock = LockNow(q)
      /\ lock' \in [LockIds -> LockRows]
      /\ \A k \in LockIds : lock[k].held => lock'[k].held
  BY JoinTo DEF IInv
<1>3. request'[q].pc = pc
  BY <1>1 DEF OneMoves
<1>4. pc \notin TurnPcs /\ ~Works(q) /\ (pc = "locked" \/ pc \notin Working)
  BY DEF Works, Working, TurnPcs, PastGate
<1> QED
  BY <1>1, <1>2, <1>3, <1>4 DEF LockMoves, Acquires, GoesOn, Works

(* A waiter gets the lock it waits for. *)
LEMMA GrantMove == ASSUME IInv, NEW q \in Requests, LockGranted(q) PROVE LockMoves(q)
<1> DEFINE k == request[q].lock
<1>1. Goes(q, "locked") /\ request[q].pc = "queued" /\ UNCHANGED <<chat, popped>>
  BY DEF LockGranted
<1>2. OneMoves(q, "locked") /\ request'[q].lock = k /\ request'[q].pc = "locked"
  BY <1>1, GoesTo DEF IInv, Pcs, Working, OneMoves
<1>3. k \in LockIds /\ lock \in [LockIds -> LockRows] /\ lock[k].queue \in Seq(Requests)
  BY TypesOfLock DEF IInv, LockRows
<1>4. Tail(lock[k].queue) \in Seq(Requests)
  BY <1>3, HeadTailProperties DEF LockGranted
<1>5. /\ ~lock[k].held
      /\ lock' = [lock EXCEPT ![k] = [held |-> TRUE, queue |-> Tail(lock[k].queue)]]
  BY DEF LockGranted
<1>6. /\ lock' \in [LockIds -> LockRows] /\ lock'[k].held
      /\ \A i \in LockIds \ {k} : lock'[i] = lock[i]
  BY <1>3, <1>4, <1>5 DEF LockRows
<1>7. ~Works(q)
  BY <1>1 DEF Works, Working, PastGate, Final
<1>8. "locked" \notin TurnPcs
  BY DEF TurnPcs, PastGate
<1> HIDE DEF k
<1> QED
  BY <1>1, <1>2, <1>3, <1>5, <1>6, <1>7, <1>8 DEF LockMoves, Acquires, k

(* The tables keep which chats exist, but for the deletion. *)
LEMMA AppendLives ==
  ASSUME TypeOK, NEW c \in Chats, NEW parent, NEW role, AppendMessage(c, parent, role)
  PROVE  \A d \in Chats : chat'[d].live = chat[d].live
BY DEF AppendMessage, TypeOK

(* Every step of a turn, another request or a fault is one of these. *)
LEMMA TurnMove == ASSUME IInv, NEW q \in Requests, TurnStep(q) PROVE LockMoves(q)
<1>t. TypeOK /\ request[q].chat \in Chats /\ request[q].pc \in Pcs
  BY TypesOfLock DEF IInv, RequestType, Pcs
<1>1. CASE WsArrives(q)
  BY <1>1, JoinMove DEF WsArrives
<1>2. CASE HttpLoads(q)
  <2>1. /\ Goes(q, "loaded") \/ Goes(q, "refused")
        /\ request[q].pc = "new" /\ UNCHANGED <<chat, popped, lock>>
    BY <1>2 DEF HttpLoads
  <2> QED
    BY <2>1, PlainMove DEF Pcs, Working, Final, PastGate, TurnPcs
<1>3. CASE HttpArrives(q)
  <2>1. CASE JoinsLock(q)
    BY <1>3, <2>1, JoinMove DEF HttpArrives
  <2>2. CASE Goes(q, "refused") /\ UNCHANGED lock
    BY <1>3, <2>2, PlainMove DEF HttpArrives, Pcs, Working, Final, PastGate, TurnPcs
  <2> QED
    BY <1>3, <2>1, <2>2 DEF HttpArrives
<1>4. CASE AsksSlot(q)
  <2>1. IsTurn(q) /\ request[q].pc = "locked" /\ UNCHANGED <<chat, popped>>
    BY <1>4 DEF AsksSlot
  <2>2. CASE EndsWith(q, "broken")
    BY <2>1, <2>2, EndMove DEF Works, Working, Final
  <2>3. CASE Goes(q, "asking") /\ UNCHANGED lock
    BY <2>1, <2>3, PlainMove DEF Pcs, Works, Working
  <2> QED
    BY <1>4, <2>2, <2>3 DEF AsksSlot
<1>5. CASE TakesSlot(q)
  <2>1. IsTurn(q) /\ request[q].pc \in {"locked", "asking"} /\ UNCHANGED <<chat, popped>>
    BY <1>5 DEF TakesSlot
  <2>2. CASE EndsWith(q, "broken")
    BY <2>1, <2>2, EndMove DEF Works, Working, Final
  <2>3. CASE Goes(q, "generating") /\ UNCHANGED lock
    BY <2>1, <2>3, PlainMove DEF Pcs, Works, Working, PastGate
  <2> QED
    BY <1>5, <2>2, <2>3 DEF TakesSlot
<1>6. CASE TurnLoads(q)
  <2>1. request[q].pc = "generating" /\ IsTurn(q) /\ UNCHANGED <<chat, popped>>
    BY <1>6 DEF TurnLoads, IInv, LockInv, TurnPcs, PastGate
  <2>2. CASE EndsWith(q, "refused")
    BY <2>1, <2>2, EndMove DEF Works, Working, Final, PastGate
  <2>3. CASE ~EndsWith(q, "refused")
    <3> DEFINE leaf == chat[request[q].chat].leaf
    <3>1. /\ request' = [request EXCEPT ![q].pc = "ready", ![q].leaf = leaf] /\ UNCHANGED lock
      BY <1>6, <2>3 DEF TurnLoads
    <3>2. leaf \in 0..MaxMsg
      BY <1>t, NoMsgFits DEF TypeOK
    <3>3. OneMoves(q, "ready") /\ request'[q].lock = request[q].lock /\ request'[q].pc = "ready"
      BY <1>t, <3>1, <3>2 DEF OneMoves, TypeOK, RequestType, Working, PastGate
    <3> QED
      BY <1>t, <2>1, <3>1, <3>3, TypesOfLock DEF LockMoves, GoesOn, Works, Working, PastGate
  <2> QED
    BY <2>2, <2>3
<1>7. CASE StoresQuestion(q)
  <2>1. request[q].pc = "ready" /\ IsTurn(q) /\ UNCHANGED popped
    BY <1>7 DEF StoresQuestion, IInv, LockInv, TurnPcs, PastGate
  <2>2. CASE EndsWith(q, "broken") /\ UNCHANGED chat
    BY <2>1, <2>2, EndMove DEF Works, Working, Final, PastGate
  <2>3. CASE ~(EndsWith(q, "broken") /\ UNCHANGED chat)
    <3> DEFINE r == request[q]
    <3>1. /\ CanAppend(r.chat, r.leaf) /\ AppendMessage(r.chat, r.leaf, "user")
          /\ request' = [request EXCEPT ![q].pc = "asked", ![q].msg = NewId]
          /\ UNCHANGED lock
      BY <1>7, <2>3 DEF StoresQuestion
    <3>2. NewId \in 0..MaxMsg
      BY <1>t, <3>1, AppendTables, NoMsgFits DEF CanAppend, TypeOK, TablesOK, MessageRows, ChatRows
    <3>3. OneMoves(q, "asked") /\ request'[q].lock = request[q].lock /\ request'[q].pc = "asked"
      BY <1>t, <3>1, <3>2 DEF OneMoves, TypeOK, RequestType, Working, PastGate
    <3>4. \A c \in Chats : chat'[c].live = chat[c].live
      BY <1>t, <3>1, AppendLives
    <3> QED
      BY <1>t, <2>1, <3>1, <3>3, <3>4, TypesOfLock DEF LockMoves, GoesOn, Works, Working, PastGate
  <2> QED
    BY <2>2, <2>3
<1>8. CASE Streams(q)
  <2>1. /\ request[q].pc = "asked" /\ Goes(q, "replied") /\ IsTurn(q)
        /\ UNCHANGED <<chat, popped, lock>>
    BY <1>8 DEF Streams, IInv, LockInv, TurnPcs, PastGate
  <2> QED
    BY <2>1, PlainMove DEF Pcs, Works, Working, PastGate
<1>9. CASE StreamFails(q)
  <2>1. request[q].pc = "asked" /\ IsTurn(q) /\ UNCHANGED <<chat, popped>>
    BY <1>9 DEF StreamFails, IInv, LockInv, TurnPcs, PastGate
  <2>2. CASE EndsWith(q, "broken")
    BY <2>1, <2>2, EndMove DEF Works, Working, Final, PastGate
  <2>3. CASE Goes(q, "discarding") /\ UNCHANGED lock
    BY <2>1, <2>3, PlainMove DEF Pcs, Works, Working, PastGate
  <2> QED
    BY <1>9, <2>2, <2>3 DEF StreamFails
<1>10. CASE DiscardsQuestion(q)
  <2> DEFINE r == request[q]
             new == [chat EXCEPT ![r.chat].leaf = IF @ = r.msg THEN r.leaf ELSE @]
  <2>1. request[q].pc = "discarding" /\ UNCHANGED popped
    BY <1>10 DEF DiscardsQuestion
  <2>2. \/ RemoveMessages({r.msg}, new) /\ EndsWith(q, "failed")
        \/ EndsWith(q, "broken") /\ UNCHANGED chat
    BY <1>10 DEF DiscardsQuestion
  <2>3. \A c \in Chats : chat'[c].live => chat[c].live
    <3>1. \A c \in Chats : /\ new[c].live = chat[c].live
                          /\ new[c] \in [live : BOOLEAN, leaf : {new[c].leaf}]
      BY <1>t DEF TypeOK
    <3>2. CASE RemoveMessages({r.msg}, new)
      <4>1. \A c \in Chats : chat'[c] = [new[c] EXCEPT !.leaf = IF @ \in {r.msg} THEN NoMsg ELSE @]
        BY <3>2 DEF RemoveMessages
      <4> HIDE DEF new
      <4> QED
        BY <3>1, <4>1
    <3> QED
      BY <2>2, <3>2
  <2> QED
    BY <2>1, <2>2, <2>3, EndMove DEF Works, Working, Final, PastGate
<1>11. CASE StoresReply(q)
  <2>1. request[q].pc = "replied" /\ IsTurn(q) /\ UNCHANGED popped
    BY <1>11 DEF StoresReply, IInv, LockInv, TurnPcs, PastGate
  <2>2. CASE EndsWith(q, "broken") /\ UNCHANGED chat
    BY <2>1, <2>2, EndMove DEF Works, Working, Final, PastGate
  <2>3. CASE ~(EndsWith(q, "broken") /\ UNCHANGED chat)
    <3>1. /\ AppendMessage(request[q].chat, request[q].msg, "assistant")
          /\ Goes(q, "stored") /\ UNCHANGED lock
      BY <1>11, <2>3 DEF StoresReply
    <3>2. OneMoves(q, "stored") /\ request'[q].lock = request[q].lock /\ request'[q].pc = "stored"
      BY <1>t, <3>1, GoesTo DEF OneMoves, Pcs, Working, PastGate
    <3>3. \A c \in Chats : chat'[c].live = chat[c].live
      BY <1>t, <3>1, AppendLives
    <3> QED
      BY <1>t, <2>1, <3>1, <3>2, <3>3, TypesOfLock DEF LockMoves, GoesOn, Works, Working, PastGate
  <2> QED
    BY <2>2, <2>3
<1>12. CASE SendsDone(q)
  BY <1>12, EndMove DEF SendsDone, Works, Working, Final, PastGate
<1> QED
  BY <1>1, <1>2, <1>3, <1>4, <1>5, <1>6, <1>7, <1>8, <1>9, <1>10, <1>11, <1>12 DEF TurnStep

LEMMA OtherMove == ASSUME IInv, NEW q \in Requests, OtherStep(q) PROVE LockMoves(q)
<1>t. TypeOK /\ request[q].chat \in Chats /\ request[q].pc \in Pcs
  BY TypesOfLock DEF IInv, RequestType, Pcs
<1>1. CASE BranchLoads(q)
  <2>1. request[q].pc = "new" /\ UNCHANGED <<chat, popped, lock>>
    BY <1>1 DEF BranchLoads
  <2>2. CASE Goes(q, "refused")
    BY <2>1, <2>2, PlainMove DEF Pcs, Working, Final, PastGate, TurnPcs
  <2>3. CASE ~Goes(q, "refused")
    <3> DEFINE leaf == chat[request[q].chat].leaf
    <3>1. PICK m \in Ids :
            request' = [request EXCEPT ![q].pc = "loaded", ![q].leaf = leaf, ![q].msg = m]
      BY <1>1, <2>3 DEF BranchLoads
    <3>2. leaf \in 0..MaxMsg /\ m \in 0..MaxMsg
      BY <1>t, NoMsgFits DEF TypeOK
    <3>3. OneMoves(q, "loaded") /\ request'[q].lock = request[q].lock /\ request'[q].pc = "loaded"
      BY <1>t, <3>1, <3>2 DEF OneMoves, TypeOK, RequestType
    <3> QED
      BY <1>t, <2>1, <3>3, TypesOfLock DEF LockMoves, GoesOn, Works, Working, Final, PastGate,
         TurnPcs
  <2> QED
    BY <2>2, <2>3
<1>2. CASE BranchJoins(q)
  <2>1. CASE JoinsLock(q)
    BY <1>2, <2>1, JoinMove DEF BranchJoins
  <2>2. CASE Goes(q, "refused") /\ UNCHANGED lock
    BY <1>2, <2>2, PlainMove DEF BranchJoins, Pcs, Working, Final, PastGate, TurnPcs
  <2> QED
    BY <1>2, <2>1, <2>2 DEF BranchJoins
<1>3. CASE BranchCommits(q)
  <2>1. \A c \in Chats : chat'[c].live => chat[c].live
    BY <1>t, <1>3 DEF BranchCommits, TypeOK
  <2>2. /\ EndsWith(q, "done") \/ EndsWith(q, "broken")
        /\ UNCHANGED popped /\ request[q].pc = "locked"
    BY <1>3 DEF BranchCommits
  <2> QED
    BY <2>1, <2>2, EndMove DEF Works, Working, Final
<1>4. CASE DeleteLoads(q)
  <2>1. /\ Goes(q, "loaded") \/ Goes(q, "refused")
        /\ request[q].pc = "new" /\ UNCHANGED <<chat, popped, lock>>
    BY <1>4 DEF DeleteLoads
  <2> QED
    BY <2>1, PlainMove DEF Pcs, Working, Final, PastGate, TurnPcs
<1>5. CASE DeleteRow(q)
  <2> DEFINE c == request[q].chat
             new == [chat EXCEPT ![c] = [live |-> FALSE, leaf |-> NoMsg]]
             ids == {m \in DOMAIN message : message[m].chat = c}
  <2>1. /\ request[q].op = "delete" /\ request[q].pc = "loaded"
        /\ RemoveMessages(ids, new) /\ Goes(q, "deleted") /\ UNCHANGED <<popped, lock>>
    BY <1>5 DEF DeleteRow
  <2>2. \A d \in Chats : chat'[d].live = (d # c /\ chat[d].live)
    <3>1. \A d \in Chats : /\ new[d].live = (d # c /\ chat[d].live)
                           /\ new[d] \in [live : BOOLEAN, leaf : {new[d].leaf}]
      BY <1>t DEF TypeOK
    <3>2. \A d \in Chats : chat'[d] = [new[d] EXCEPT !.leaf = IF @ \in ids THEN NoMsg ELSE @]
      BY <2>1 DEF RemoveMessages
    <3> HIDE DEF new, ids
    <3> QED
      BY <3>1, <3>2
  <2>3. OneMoves(q, "deleted") /\ request'[q].lock = request[q].lock /\ request'[q].pc = "deleted"
    BY <1>t, <2>1, GoesTo DEF OneMoves, Pcs
  <2> QED
    BY <1>t, <2>1, <2>2, <2>3, TypesOfLock DEF LockMoves, GoesOn, Works, Working, PastGate, TurnPcs
<1>6. CASE DeleteCleans(q)
  <2>1. /\ request[q].pc = "deleted" /\ Goes(q, "done") /\ UNCHANGED <<chat, lock>>
        /\ popped' = [popped EXCEPT ![request[q].chat] = @ + 1]
    BY <1>6 DEF DeleteCleans
  <2>2. OneMoves(q, "done") /\ request'[q].lock = request[q].lock /\ request'[q].pc = "done"
    BY <1>t, <2>1, GoesTo DEF OneMoves, Pcs, Final
  <2> QED
    BY <1>t, <2>1, <2>2, TypesOfLock DEF LockMoves, GoesOn, Works, Working, PastGate, TurnPcs
<1>7. CASE LockGranted(q)
  BY <1>7, GrantMove
<1> QED
  BY <1>1, <1>2, <1>3, <1>4, <1>5, <1>6, <1>7 DEF OtherStep

LEMMA FaultMove ==
  ASSUME IInv, NEW q \in Requests, GatedFails(q) \/ TurnRaises(q) PROVE LockMoves(q)
<1>1. CASE GatedFails(q)
  <2>1. /\ request[q].pc = "asked" /\ Goes(q, "discarding") /\ IsTurn(q)
        /\ UNCHANGED <<chat, popped, lock>>
    BY <1>1 DEF GatedFails, IInv, LockInv, TurnPcs, PastGate
  <2> QED
    BY <2>1, PlainMove DEF Pcs, Works, Working, PastGate
<1>2. CASE TurnRaises(q)
  BY <1>2, EndMove DEF TurnRaises, Works, Working, Final, PastGate
<1> QED
  BY <1>1, <1>2

LEMMA EveryMove ==
  ASSUME IInv, [Next]_vars
  PROVE  \/ UNCHANGED <<chat, popped, lock, request>>
         \/ \E q \in Requests : LockMoves(q)
BY TurnMove, OtherMove, FaultMove DEF Next, vars, ClientLeaves

----------------------------------------------------------------------------
(* The invariant of the lock. *)

LEMMA DeletedCounts ==
  ASSUME NEW c
  PROVE  IsFiniteSet(DeletedBy(c)) /\ Cardinality(DeletedBy(c)) \in Nat
         /\ Cardinality(DeletedBy(c)) <= Cardinality(Requests)
         /\ Cardinality(Requests) \in Nat
<1>1. DeletedBy(c) \subseteq Requests
  BY DEF DeletedBy
<1> QED
  BY <1>1, ChatAssumption, FS_Subset, FS_CardinalityType

(* Locks are popped after their chat is gone, and once per deletion. *)
LEMMA PoppedStep ==
  ASSUME IInv, NEW q \in Requests, LockMoves(q), NEW c \in Chats
  PROVE  /\ popped'[c] \in 0..Cardinality(Requests)
         /\ popped'[c] <= Cardinality(DeletedBy(c)')
         /\ chat'[c].live => popped'[c] = 0
<1> DEFINE after == DeletedBy(c)'
<1>t. /\ popped \in [Chats -> 0..Cardinality(Requests)] /\ request[q].chat \in Chats
      /\ popped[c] <= Cardinality(DeletedBy(c)) /\ popped[c] \in Nat
      /\ chat[c].live => popped[c] = 0
  BY TypesOfLock, DeletedCounts DEF IInv, TypeOK, LockInv
<1>m. /\ \A p \in Requests \ {q} : request'[p] = request[p]
      /\ request'[q].op = request[q].op /\ request'[q].chat = request[q].chat
  BY DEF LockMoves, OneMoves
<1>1. DeletedBy(c) \subseteq after
  BY <1>m DEF LockMoves, DeletedBy
<1>2. /\ IsFiniteSet(after) /\ Cardinality(after) \in Nat
      /\ Cardinality(after) <= Cardinality(Requests)
  <2>1. after \subseteq Requests
    BY DEF DeletedBy
  <2> QED
    BY <2>1, ChatAssumption, FS_Subset, FS_CardinalityType
<1>3. Cardinality(DeletedBy(c)) <= Cardinality(after)
  BY <1>1, <1>2, FS_Subset
<1>4. CASE popped'[c] = popped[c]
  <2>1. popped'[c] <= Cardinality(after)
    BY <1>t, <1>2, <1>3, <1>4, DeletedCounts
  <2>2. popped'[c] \in 0..Cardinality(Requests)
    BY <1>t, <1>4
  <2> QED
    BY <1>t, <1>4, <2>1, <2>2 DEF LockMoves
<1>5. CASE popped'[c] # popped[c]
  <2>1. /\ request[q].chat = c /\ request[q].pc = "deleted" /\ request'[q].pc = "done"
        /\ popped'[c] = popped[c] + 1
    BY <1>t, <1>5 DEF LockMoves
  <2>2. ~chat'[c].live
    BY <1>t, <2>1 DEF IInv, LockInv, Live, LockMoves
  <2>3. q \notin DeletedBy(c) /\ q \in after
    BY <1>m, <2>1 DEF DeletedBy, IInv, LockInv
  <2>4. Cardinality(DeletedBy(c) \cup {q}) = Cardinality(DeletedBy(c)) + 1
    BY <2>3, DeletedCounts, FS_AddElement
  <2>5. Cardinality(DeletedBy(c) \cup {q}) <= Cardinality(after)
    BY <1>1, <1>2, <2>3, FS_Subset
  <2>6. popped'[c] <= Cardinality(after)
    BY <1>t, <1>2, <2>1, <2>4, <2>5, DeletedCounts
  <2>7. popped'[c] \in 0..Cardinality(Requests)
    BY <1>t, <1>2, <2>1, <2>6, DeletedCounts
  <2> QED
    BY <2>2, <2>6, <2>7
<1> QED
  BY <1>4, <1>5

(* Every such step keeps the requests of a chat apart. *)
LEMMA LockStep == ASSUME IInv, NEW q \in Requests, LockMoves(q) PROVE LockInv' /\ Solo'
<1>t. /\ request[q] \in RequestType /\ request[q].chat \in Chats /\ request[q].lock \in LockIds
      /\ LockNow(q) \in LockIds /\ request \in [Requests -> RequestType]
  BY TypesOfLock DEF IInv
<1>m. /\ \A p \in Requests \ {q} : request'[p] = request[p]
      /\ request'[q].op = request[q].op /\ request'[q].chat = request[q].chat
      /\ \A c \in Chats : chat'[c].live => chat[c].live
      /\ \A p \in Requests : request'[p].chat = request[p].chat /\ request[p].chat \in Chats
  BY <1>t DEF LockMoves, OneMoves, RequestType
<1>l. \A p \in Requests : Live(p)' => Live(p)
  BY <1>m DEF Live
<1>w. Works(q)' => Works(q) \/ Acquires(q)
  <2>1. Releases(q) => ~Works(q)'
    BY DEF Releases, Works, Working, Final, PastGate
  <2> QED
    BY <2>1 DEF LockMoves, GoesOn
<1>n. request'[q].lock[1] = request[q].chat
      /\ (Live(q) => request'[q].lock = <<request[q].chat, 0>>)
  BY <1>t DEF LockMoves, LockNow, IInv, LockInv, Live
<1>1. Solo'
  <2> SUFFICES ASSUME NEW p \in Requests, Live(p)', Works(p)', Works(q)', p # q,
                      request[p].chat = request[q].chat
               PROVE  FALSE
    BY <1>m, <1>l DEF Solo, IInv, Live, Works
  <2>1. Live(p) /\ Live(q) /\ Works(p)
    BY <1>m, <1>l DEF Live, Works
  <2>2. CASE Works(q)
    BY <2>1, <2>2 DEF IInv, Solo
  <2>3. CASE Acquires(q)
    <3>1. request'[q].lock = request[p].lock
      BY <1>n, <2>1 DEF IInv, LockInv
    <3> QED
      BY <2>1, <2>3, <3>1 DEF Acquires, IInv, LockInv
  <2> QED
    BY <1>w, <2>2, <2>3
<1>2. ASSUME NEW p \in Requests, Live(p)', Works(p)' PROVE lock'[request'[p].lock].held
  <2>1. Live(p) /\ request[p].lock \in LockIds
    BY <1>l, <1>2, TypesOfLock DEF IInv
  <2>2. CASE p = q
    <3>1. CASE Acquires(q)
      BY <2>2, <3>1 DEF Acquires
    <3>2. CASE Releases(q)
      BY <1>2, <2>2, <3>2 DEF Releases, Works, Working, Final, PastGate
    <3>3. CASE GoesOn(q)
      BY <1>2, <2>1, <2>2, <3>3 DEF GoesOn, IInv, LockInv
    <3> QED
      BY <3>1, <3>2, <3>3 DEF LockMoves
  <2>3. CASE p # q
    <3>1. request'[p] = request[p] /\ Works(p) /\ lock[request[p].lock].held
      BY <1>2, <1>m, <2>1, <2>3 DEF Works, IInv, LockInv
    <3>2. CASE Acquires(q) \/ GoesOn(q)
      BY <2>1, <3>1, <3>2 DEF Acquires, GoesOn
    <3>3. CASE Releases(q)
      <4>1. request[p].lock # request[q].lock
        <5>1. request[p].chat # request[q].chat
          BY <2>1, <2>3, <3>1, <3>3 DEF Releases, IInv, Solo
        <5> QED
          BY <5>1 DEF IInv, LockInv
      <4> QED
        BY <2>1, <3>1, <3>3, <4>1 DEF Releases
    <3> QED
      BY <3>2, <3>3 DEF LockMoves
  <2> QED
    BY <2>2, <2>3
<1>3. ASSUME NEW p \in Requests
      PROVE  /\ request'[p].lock[1] = request'[p].chat
             /\ Live(p)' => request'[p].lock = <<request'[p].chat, 0>> /\ request'[p].pc # "deleted"
             /\ request'[p].pc = "deleted" => request'[p].op = "delete"
             /\ request'[p].pc \in TurnPcs => IsTurn(p)'
  <2>1. CASE p = q
    BY <1>l, <1>m, <1>n, <2>1 DEF LockMoves, Live, IsTurn
  <2>2. CASE p # q
    BY <1>l, <1>m, <2>2 DEF IInv, LockInv, IsTurn
  <2> QED
    BY <2>1, <2>2
<1>4. \A c \in Chats : (chat'[c].live => popped'[c] = 0) /\ popped'[c] <= Cardinality(DeletedBy(c)')
  BY PoppedStep
<1> QED
  BY <1>1, <1>2, <1>3, <1>4 DEF LockInv, IsTurn

(* Every step keeps the types. *)
LEMMA TypeStep == ASSUME IInv, [Next]_vars PROVE TypeOK'
<1>t. TypeOK /\ TablesOK
  BY DEF IInv, TypeOK, TablesOK, ChatRows, MessageRows
<1>1. TablesOK'
  <2>1. CASE UNCHANGED <<chat, message>>
    BY <1>t, <2>1 DEF TablesOK
  <2>2. ASSUME NEW q \in Requests, StoresQuestion(q), ~UNCHANGED <<chat, message>> PROVE TablesOK'
    <3>1. request[q].chat \in Chats
      BY <1>t, TypesOfLock
    <3> QED
      BY <1>t, <2>2, <3>1, AppendTables DEF StoresQuestion, CanAppend
  <2>3. ASSUME NEW q \in Requests, StoresReply(q), ~UNCHANGED <<chat, message>> PROVE TablesOK'
    <3>1. request[q].chat \in Chats
      BY <1>t, TypesOfLock
    <3> QED
      BY <1>t, <2>3, <3>1, AppendTables DEF StoresReply, CanAppend
  <2>4. ASSUME NEW q \in Requests, DiscardsQuestion(q), ~UNCHANGED <<chat, message>> PROVE TablesOK'
    <3> DEFINE r == request[q]
               leaf == IF chat[r.chat].leaf = r.msg THEN r.leaf ELSE chat[r.chat].leaf
               new == [chat EXCEPT ![r.chat] = [chat[r.chat] EXCEPT !.leaf = leaf]]
    <3>1. Resolves(r.leaf) /\ RemoveMessages({r.msg}, new)
      BY <2>4 DEF DiscardsQuestion
    <3>2. r.chat \in Chats /\ chat[r.chat] \in ChatRows(DOMAIN message)
      BY <1>t, TypesOfLock DEF TablesOK
    <3>3. [chat[r.chat] EXCEPT !.leaf = leaf] \in ChatRows(DOMAIN message)
      BY <3>1, <3>2 DEF Resolves, ChatRows
    <3>4. new \in [Chats -> ChatRows(DOMAIN message)]
      BY <1>t, <3>3 DEF TablesOK
    <3> HIDE DEF new
    <3> QED
      BY <1>t, <3>1, <3>4, RemoveTables
  <2>5. ASSUME NEW q \in Requests, DeleteRow(q) PROVE TablesOK'
    <3> DEFINE c == request[q].chat
               new == [chat EXCEPT ![c] = [live |-> FALSE, leaf |-> NoMsg]]
               ids == {m \in DOMAIN message : message[m].chat = c}
    <3>1. RemoveMessages(ids, new)
      BY <2>5 DEF DeleteRow
    <3>2. new \in [Chats -> ChatRows(DOMAIN message)]
      BY <1>t DEF TablesOK, ChatRows
    <3> HIDE DEF new, ids
    <3> QED
      BY <1>t, <3>1, <3>2, RemoveTables
  <2>6. ASSUME NEW q \in Requests, BranchCommits(q), ~UNCHANGED <<chat, message>> PROVE TablesOK'
    <3> DEFINE r == request[q]
    <3>1. /\ r.msg \in DOMAIN message /\ chat' = [chat EXCEPT ![r.chat].leaf = r.msg]
          /\ UNCHANGED message
      BY <2>6 DEF BranchCommits
    <3>2. \A c \in Chats : [chat[c] EXCEPT !.leaf = r.msg] \in ChatRows(DOMAIN message)
      BY <1>t, <3>1 DEF TablesOK, ChatRows
    <3> QED
      BY <1>t, <3>1, <3>2 DEF TablesOK
  <2> QED
    BY <2>1, <2>2, <2>3, <2>4, <2>5, <2>6 DEF Next, vars, TurnStep, OtherStep, WsArrives, HttpLoads,
       HttpArrives, AsksSlot, TakesSlot, TurnLoads, Streams, StreamFails, SendsDone, BranchLoads,
       BranchJoins, DeleteLoads, DeleteCleans, LockGranted, GatedFails, TurnRaises, ClientLeaves
<1>2. /\ request' \in [Requests -> RequestType] /\ lock' \in [LockIds -> LockRows]
      /\ popped' \in [Chats -> 0..Cardinality(Requests)]
  <2>1. CASE UNCHANGED <<chat, popped, lock, request>>
    BY <1>t, <2>1 DEF TypeOK, LockRows
  <2>2. ASSUME NEW q \in Requests, LockMoves(q)
        PROVE  /\ request' \in [Requests -> RequestType] /\ lock' \in [LockIds -> LockRows]
               /\ popped' \in [Chats -> 0..Cardinality(Requests)]
    <3>1. popped' \in [Chats -> 0..Cardinality(Requests)]
      <4>1. DOMAIN popped' = Chats /\ popped' = [c \in Chats |-> popped'[c]]
        BY <1>t, <2>2 DEF LockMoves, TypeOK
      <4>2. \A c \in Chats : popped'[c] \in 0..Cardinality(Requests)
        BY <2>2, PoppedStep
      <4> QED
        BY <4>1, <4>2
    <3> QED
      BY <2>2, <3>1 DEF LockMoves, OneMoves
  <2> QED
    BY <2>1, <2>2, EveryMove
<1>3. gone' \subseteq Leavers /\ faults' \in 0..MaxFaults
  <2>1. ASSUME NEW q \in Requests, TurnStep(q) PROVE UNCHANGED <<gone, faults>>
    BY <2>1 DEF TurnStep, WsArrives, HttpLoads, HttpArrives, AsksSlot, TakesSlot, TurnLoads,
       StoresQuestion, Streams, StreamFails, DiscardsQuestion, StoresReply, SendsDone
  <2>2. ASSUME NEW q \in Requests, OtherStep(q) PROVE UNCHANGED <<gone, faults>>
    BY <2>2 DEF OtherStep, BranchLoads, BranchJoins, BranchCommits, DeleteLoads, DeleteRow,
       DeleteCleans, LockGranted
  <2>3. ASSUME NEW q \in Requests, GatedFails(q) \/ TurnRaises(q)
        PROVE  UNCHANGED gone /\ faults < MaxFaults /\ faults' = faults + 1
    BY <2>3 DEF GatedFails, TurnRaises
  <2>4. ASSUME NEW q \in Requests, ClientLeaves(q)
        PROVE  UNCHANGED faults /\ gone' \subseteq gone \cup Leavers
    BY <2>4 DEF ClientLeaves
  <2>5. MaxFaults \in Nat /\ gone \subseteq Leavers /\ faults \in 0..MaxFaults
    BY <1>t, ChatAssumption DEF TypeOK
  <2>6. CASE UNCHANGED vars
    BY <2>5, <2>6 DEF vars
  <2> QED
    BY <2>1, <2>2, <2>3, <2>4, <2>5, <2>6 DEF Next
<1> QED
  BY <1>1, <1>2, <1>3 DEF TypeOK, TablesOK, ChatRows, MessageRows, LockRows

LEMMA InitIInv == ASSUME Init PROVE IInv
<1>0. /\ chat \in [Chats -> [live : BOOLEAN, leaf : {NoMsg, 2}]]
      /\ \A c \in Chats : chat[c].live
  <2> DEFINE S == {[live |-> TRUE, leaf |-> n] : n \in {NoMsg, 2}}
  <2>1. chat \in [Chats -> S]
    BY DEF Init
  <2>2. \A c \in Chats : chat[c] \in S
    BY <2>1
  <2>3. \A c \in Chats : \E n \in {NoMsg, 2} : chat[c] = [live |-> TRUE, leaf |-> n]
    BY <2>2
  <2>4. \A n \in {NoMsg, 2} : /\ [live |-> TRUE, leaf |-> n] \in [live : BOOLEAN, leaf : {NoMsg, 2}]
                              /\ [live |-> TRUE, leaf |-> n].live
    OBVIOUS
  <2>5. \A c \in Chats : chat[c] \in [live : BOOLEAN, leaf : {NoMsg, 2}] /\ chat[c].live
    BY <2>3, <2>4, Zenon
  <2> HIDE DEF S
  <2> QED
    BY <2>1, <2>5
<1>1. TablesOK
  <2>1. CASE \E c \in Chats : chat[c].leaf = 2
    <3> DEFINE c == CHOOSE c \in Chats : chat[c].leaf = 2
    <3>1. c \in Chats
      BY <2>1
    <3>2. message = <<[chat |-> c, parent |-> NoMsg, role |-> "user"],
                      [chat |-> c, parent |-> 1, role |-> "assistant"]>>
      BY <2>1 DEF Init
    <3> HIDE DEF c
    <3>3. DOMAIN message = {1, 2} /\ {1, 2} \subseteq Ids
      BY <3>2, ChatAssumption DEF Ids
    <3>4. message \in [DOMAIN message -> MessageRows(DOMAIN message)]
      BY <3>1, <3>2, <3>3 DEF MessageRows
    <3>5. chat \in [Chats -> ChatRows(DOMAIN message)]
      BY <1>0, <3>3 DEF ChatRows
    <3> QED
      BY <3>3, <3>4, <3>5 DEF TablesOK
  <2>2. CASE ~\E c \in Chats : chat[c].leaf = 2
    <3>1. message = <<>>
      BY <2>2 DEF Init
    <3>2. DOMAIN message = {}
      BY <3>1
    <3>4. chat \in [Chats -> ChatRows(DOMAIN message)]
      BY <1>0, <2>2, <3>2 DEF ChatRows
    <3>5. message \in [DOMAIN message -> MessageRows(DOMAIN message)]
      BY <3>1, <3>2
    <3> QED
      BY <3>2, <3>4, <3>5 DEF TablesOK
  <2> QED
    BY <2>1, <2>2
<1>2. Cardinality(Requests) \in Nat
  BY DeletedCounts
<1>3. \A q \in Requests : /\ request[q] \in [op : Ops, chat : Chats, pc : {"new"}, lock : LockIds,
                                             leaf : {NoMsg}, msg : {NoMsg}]
                          /\ request[q].lock = <<request[q].chat, 0>>
                          /\ request[q].pc = "new"
  BY DEF Init
<1>4. request \in [Requests -> RequestType]
  <2>1. \A q \in Requests : request[q] \in RequestType
    BY <1>3, NoMsgFits DEF RequestType
  <2> QED
    BY <2>1 DEF Init
<1>5. lock \in [LockIds -> LockRows]
  BY EmptySeq DEF Init, LockRows
<1>6. TypeOK
  BY <1>1, <1>2, <1>4, <1>5, ChatAssumption DEF Init, TypeOK, TablesOK, ChatRows,
     MessageRows, LockRows
<1>7. \A c \in Chats : chat[c].live /\ popped[c] = 0 /\ 0 <= Cardinality(DeletedBy(c))
  BY DeletedCounts DEF Init
<1>8. LockInv /\ Solo
  BY <1>3, <1>7 DEF LockInv, Solo, Works, Working, Live, TurnPcs, PastGate
<1> QED
  BY <1>6, <1>8 DEF IInv

LEMMA IInvStep == ASSUME IInv, [Next]_vars PROVE IInv'
<1>1. TypeOK'
  BY TypeStep
<1>2. LockInv' /\ Solo'
  <2>1. CASE UNCHANGED <<chat, popped, lock, request>>
    BY <2>1 DEF IInv, LockInv, Solo, Live, Works, IsTurn, DeletedBy
  <2> QED
    BY <2>1, EveryMove, LockStep
<1> QED
  BY <1>1, <1>2 DEF IInv

(* The locks keep apart who works on a chat (LockInv, Solo), always. *)
THEOREM SpecIInv == Spec => []IInv
BY InitIInv, IInvStep, PTL DEF Spec

(* Every variable has its type and every foreign key resolves, always. *)
THEOREM TypeCorrect == Spec => []TypeOK
<1>1. IInv => TypeOK
  BY DEF IInv
<1> QED
  BY <1>1, SpecIInv, PTL

(* The lock's purpose: no two requests, turns or switches, work on one     *)
(* chat that exists, though a deletion drops locks that are held.          *)
THEOREM ChatIsExclusive == Spec => []OneAtATime
<1>1. ASSUME IInv PROVE OneAtATime
  <2> SUFFICES ASSUME NEW c \in Chats, chat[c].live
               PROVE  Cardinality({q \in Requests : request[q].chat = c
                                                    /\ request[q].pc \in Working}) <= 1
    BY DEF OneAtATime
  <2> DEFINE S == {q \in Requests : request[q].chat = c /\ request[q].pc \in Working}
  <2>1. \A p, q \in S : p = q
    BY <1>1 DEF IInv, Solo, Live, Works
  <2>2. S = {} \/ \E q \in S : S = {q}
    BY <2>1
  <2> HIDE DEF S
  <2>3. Cardinality(S) = 0 \/ Cardinality(S) = 1
    BY <2>2, FS_EmptySet, FS_Singleton
  <2> QED
    BY <2>3 DEF S
<1> QED
  BY <1>1, SpecIInv, PTL

----------------------------------------------------------------------------
(* The tree.  A switch takes the lock with an id it has checked before; if *)
(* the message is removed meanwhile, its id may come again as a message of *)
(* another chat.  What follows assumes it does not: there is one chat, or  *)
(* nobody switches.                                                        *)
SwitchesOwn == "branch" \notin Ops \/ \A c, d \in Chats : c = d

Asking == {"asked", "replied", "discarding"}

(* The leaf and the parents are messages of the chat, and a chat with      *)
(* messages has a leaf.                                                    *)
TreeOf(c) ==
  /\ chat[c].leaf # NoMsg => message[chat[c].leaf].chat = c
  /\ \A m \in DOMAIN message :
       message[m].chat = c =>
         /\ message[m].parent # NoMsg => message[message[m].parent].chat = c
         /\ chat[c].leaf # NoMsg

(* What a turn in progress knows of its chat. *)
TurnOf(q) ==
  LET r == request[q]
  IN Live(q) =>
       /\ r.pc = "ready" => r.leaf = chat[r.chat].leaf
       /\ r.pc \in Asking =>
            /\ r.msg \in DOMAIN message /\ chat[r.chat].leaf = r.msg
            /\ message[r.msg].chat = r.chat /\ message[r.msg].parent = r.leaf
            /\ message[r.msg].role = "user"
            /\ r.leaf # r.msg
            /\ r.leaf = NoMsg =>
                 \A m \in DOMAIN message : message[m].chat = r.chat => m = r.msg

TreeInv == (\A c \in Chats : TreeOf(c)) /\ \A q \in Requests : TurnOf(q)

(* Nothing of chat c changes. *)
SameChat(c) ==
  /\ chat'[c].leaf = chat[c].leaf
  /\ \A m \in DOMAIN message :
       message[m].chat = c => m \in DOMAIN message' /\ message'[m] = message[m]
  /\ \A m \in DOMAIN message' :
       message'[m].chat = c => m \in DOMAIN message /\ message[m].chat = c

(* What TypeOK says of single rows. *)
LEMMA RowTypes ==
  ASSUME TypeOK
  PROVE  /\ \A c \in Chats : /\ chat[c].live \in BOOLEAN
                             /\ chat[c].leaf \in {NoMsg} \cup DOMAIN message
                             /\ chat[c] \in ChatRows(DOMAIN message)
         /\ \A m \in DOMAIN message :
              /\ message[m].chat \in Chats /\ message[m].parent \in {NoMsg} \cup DOMAIN message
              /\ message[m] \in MessageRows(DOMAIN message)
              /\ m # NoMsg
         /\ TablesOK
BY NoMsgFits DEF TypeOK, TablesOK, MessageRows, ChatRows

(* A chat of which nothing changes, and a turn in it, stay right. *)
LEMMA ChatKept == ASSUME TypeOK, NEW c \in Chats, SameChat(c), TreeOf(c) PROVE TreeOf(c)'
<1>1. /\ chat[c].leaf \in {NoMsg} \cup DOMAIN message
      /\ \A m \in DOMAIN message : message[m].parent \in {NoMsg} \cup DOMAIN message
  BY RowTypes
<1> QED
  BY <1>1 DEF SameChat, TreeOf

LEMMA TurnKept ==
  ASSUME TypeOK, NEW q \in Requests, SameChat(request[q].chat), request'[q] = request[q],
         Live(q)' => Live(q), TurnOf(q)
  PROVE  TurnOf(q)'
BY DEF SameChat, TurnOf, Live

(* Inserts and deletes in one chat leave the others alone. *)
LEMMA AppendOthers ==
  ASSUME TypeOK, NEW c \in Chats, NEW parent, Resolves(parent), NEW role \in {"user", "assistant"},
         AppendMessage(c, parent, role), NEW d \in Chats, d # c
  PROVE  SameChat(d)
<1>1. /\ NewId \notin DOMAIN message
      /\ DOMAIN message' = DOMAIN message \cup {NewId}
      /\ \A m \in DOMAIN message : message'[m] = message[m]
      /\ message'[NewId] = [chat |-> c, parent |-> parent, role |-> role]
      /\ chat' = [chat EXCEPT ![c].leaf = NewId]
  <2>1. TablesOK
    BY RowTypes
  <2> QED
    BY <2>1, AppendTables
<1>2. chat'[d] = chat[d]
  BY <1>1 DEF TypeOK
<1> QED
  BY <1>1, <1>2 DEF SameChat

LEMMA RemoveOthers ==
  ASSUME TypeOK, NEW c \in Chats, NEW ids, NEW new \in [Chats -> ChatRows(DOMAIN message)],
         RemoveMessages(ids, new), NEW d \in Chats, d # c, TreeOf(d),
         \A m \in ids : m \in DOMAIN message => message[m].chat = c,
         NoMsg \notin ids, new[d] = chat[d]
  PROVE  SameChat(d)
<1>1. /\ DOMAIN message' = DOMAIN message \ ids
      /\ \A m \in DOMAIN message \ ids :
           /\ message'[m].chat = message[m].chat /\ message'[m].role = message[m].role
           /\ message'[m].parent = IF message[m].parent \in ids THEN NoMsg ELSE message[m].parent
      /\ chat'[d].leaf = IF chat[d].leaf \in ids THEN NoMsg ELSE chat[d].leaf
      /\ TablesOK'
  <2>1. TablesOK
    BY RowTypes
  <2>2. /\ DOMAIN message' = DOMAIN message \ ids
        /\ \A m \in DOMAIN message \ ids :
             /\ message'[m].chat = message[m].chat /\ message'[m].role = message[m].role
             /\ message'[m].parent = IF message[m].parent \in ids THEN NoMsg ELSE message[m].parent
        /\ \A e \in Chats :
             /\ chat'[e].live = new[e].live
             /\ chat'[e].leaf = IF new[e].leaf \in ids THEN NoMsg ELSE new[e].leaf
        /\ TablesOK'
    BY <2>1, RemoveTables
  <2> QED
    BY <2>2
<1>2. chat'[d].leaf = chat[d].leaf
  BY <1>1, RowTypes DEF TreeOf
<1>3. ASSUME NEW m \in DOMAIN message, message[m].chat = d
      PROVE  m \in DOMAIN message' /\ message'[m] = message[m]
  <2>1. m \notin ids /\ m \in DOMAIN message'
    BY <1>1, <1>3
  <2>2. message[m].parent \notin ids
    BY <1>3, RowTypes DEF TreeOf
  <2>3. /\ message'[m].chat = message[m].chat /\ message'[m].role = message[m].role
        /\ message'[m].parent = message[m].parent
    BY <1>1, <2>1, <2>2
  <2>4. message[m] \in MessageRows(DOMAIN message) /\ message'[m] \in MessageRows(DOMAIN message')
    BY <1>1, <2>1, RowTypes DEF TablesOK
  <2> QED
    BY <2>1, <2>3, <2>4 DEF MessageRows
<1>4. ASSUME NEW m \in DOMAIN message', message'[m].chat = d
      PROVE  m \in DOMAIN message /\ message[m].chat = d
  BY <1>1, <1>4
<1> QED
  BY <1>2, <1>3, <1>4 DEF SameChat

(* The tables stay: only the turn that moves has to be looked at. *)
LEMMA TablesStay ==
  ASSUME IInv, TreeInv, NEW q \in Requests, LockMoves(q), UNCHANGED <<chat, message>>, TurnOf(q)'
  PROVE  TreeInv'
<1>1. \A c \in Chats : SameChat(c)
  BY DEF SameChat
<1>2. ASSUME NEW p \in Requests, p # q PROVE TurnOf(p)'
  <2>1. request'[p] = request[p] /\ request[p].chat \in Chats
    BY <1>2, TypesOfLock DEF LockMoves, OneMoves, IInv
  <2> QED
    BY <1>1, <2>1, TurnKept DEF IInv, TreeInv, Live
<1> QED
  BY <1>1, <1>2, ChatKept DEF IInv, TreeInv

(* Only the tree of one chat changes, and q is the request that works on   *)
(* it, or the chat is gone.                                                *)
LEMMA OneTree ==
  ASSUME IInv, TreeInv, NEW q \in Requests, LockMoves(q), NEW c \in Chats, request[q].chat = c,
         \A d \in Chats \ {c} : SameChat(d),
         Works(q) \/ ~chat'[c].live,
         TreeOf(c)', TurnOf(q)'
  PROVE  TreeInv'
<1>1. ASSUME NEW p \in Requests, p # q PROVE TurnOf(p)'
  <2>1. /\ request'[p] = request[p] /\ request[p].chat \in Chats
        /\ Live(p)' => Live(p)
    BY <1>1, TypesOfLock DEF LockMoves, OneMoves, IInv, Live
  <2>2. CASE request[p].chat # c
    BY <2>1, <2>2, TurnKept DEF IInv, TreeInv
  <2>3. CASE request[p].chat = c
    <3>1. CASE ~Live(p)'
      BY <3>1 DEF TurnOf
    <3>2. CASE Live(p)'
      <4>1. ~Works(p)
        BY <1>1, <2>1, <2>3, <3>2 DEF IInv, Solo, Live
      <4>2. request'[p].pc # "ready" /\ request'[p].pc \notin Asking
        BY <2>1, <4>1 DEF Works, Working, PastGate, Asking
      <4> QED
        BY <4>2 DEF TurnOf
    <3> QED
      BY <3>1, <3>2
  <2> QED
    BY <2>2, <2>3
<1>2. ASSUME NEW d \in Chats, d # c PROVE TreeOf(d)'
  BY <1>2, ChatKept DEF IInv, TreeInv
<1> QED
  BY <1>1, <1>2 DEF TreeInv

(* A message is appended to the leaf of its chat. *)
LEMMA AppendTree ==
  ASSUME TypeOK, NEW c \in Chats, NEW parent, NEW role \in {"user", "assistant"},
         parent # NoMsg => parent \in DOMAIN message /\ message[parent].chat = c,
         AppendMessage(c, parent, role), TreeOf(c)
  PROVE  TreeOf(c)'
<1>1. /\ NewId \in Ids /\ NewId \notin DOMAIN message
      /\ DOMAIN message' = DOMAIN message \cup {NewId}
      /\ \A m \in DOMAIN message : message'[m] = message[m]
      /\ message'[NewId] = [chat |-> c, parent |-> parent, role |-> role]
      /\ chat' = [chat EXCEPT ![c].leaf = NewId]
  <2>1. TablesOK /\ Resolves(parent) /\ AppendMessage(c, parent, role)
    BY RowTypes DEF Resolves
  <2>2. c \in Chats /\ role \in {"user", "assistant"}
    OBVIOUS
  <2> QED
    BY ONLY <2>1, <2>2, AppendTables
<1>2. chat'[c].leaf = NewId /\ NewId # NoMsg
  BY <1>1, NoMsgFits DEF TypeOK
<1>3. \A m \in DOMAIN message : message[m].parent \in {NoMsg} \cup DOMAIN message
  BY RowTypes
<1> QED
  BY <1>1, <1>2, <1>3 DEF TreeOf

(* The question goes under the leaf of its chat. *)
LEMMA QuestionTree ==
  ASSUME IInv, TreeInv, NEW q \in Requests, NEW c \in Chats, c = request[q].chat,
         StoresQuestion(q), ~UNCHANGED <<chat, message>>
  PROVE  TreeInv'
<1> DEFINE r == request[q]
<1>1. /\ r.pc = "ready" /\ chat[c].live /\ Resolves(r.leaf)
      /\ AppendMessage(c, r.leaf, "user")
      /\ request' = [request EXCEPT ![q].pc = "asked", ![q].msg = NewId]
  BY DEF StoresQuestion, CanAppend
<1>2. LockMoves(q) /\ TypeOK /\ c \in Chats /\ Works(q)
  BY <1>1, TurnMove, TypesOfLock DEF TurnStep, IInv, Works, Working, PastGate
<1>3. r.leaf = chat[c].leaf
  BY <1>1 DEF TreeInv, TurnOf, Live
<1>4. TreeOf(c) /\ (r.leaf # NoMsg => r.leaf \in DOMAIN message /\ message[r.leaf].chat = c)
  BY <1>1, <1>2, <1>3 DEF TreeInv, TreeOf, Resolves
<1>5. TreeOf(c)'
  BY <1>1, <1>2, <1>4, AppendTree
<1>6. \A d \in Chats \ {c} : SameChat(d)
  BY <1>1, <1>2, AppendOthers
<1>7. TurnOf(q)'
  <2>1. /\ NewId \in Ids /\ NewId \notin DOMAIN message
        /\ DOMAIN message' = DOMAIN message \cup {NewId}
        /\ \A m \in DOMAIN message : message'[m] = message[m]
        /\ message'[NewId] = [chat |-> c, parent |-> r.leaf, role |-> "user"]
        /\ chat' = [chat EXCEPT ![c].leaf = NewId]
    <3> DEFINE parent == r.leaf
    <3>1. TablesOK /\ Resolves(parent) /\ AppendMessage(c, parent, "user")
      BY <1>1, <1>2, RowTypes
    <3> HIDE DEF parent
    <3>2. /\ NewId \in Ids /\ NewId \notin DOMAIN message
          /\ DOMAIN message' = DOMAIN message \cup {NewId}
          /\ \A m \in DOMAIN message : message'[m] = message[m]
          /\ message'[NewId] = [chat |-> c, parent |-> parent, role |-> "user"]
          /\ chat' = [chat EXCEPT ![c].leaf = NewId]
      BY <3>1, AppendTables
    <3> QED
      BY <3>2 DEF parent
  <2>2. chat'[c].leaf = NewId /\ NewId # r.leaf
    BY <1>1, <1>2, <2>1, NoMsgFits DEF TypeOK, Resolves
  <2>3. /\ request'[q].chat = c /\ request'[q].pc = "asked"
        /\ request'[q].leaf = r.leaf /\ request'[q].msg = NewId
    BY <1>1, <1>2 DEF TypeOK, RequestType
  <2>4. r.leaf = NoMsg => \A m \in DOMAIN message : message[m].chat # c
    BY <1>3, <1>4 DEF TreeOf
  <2>5. r.leaf = NoMsg => \A m \in DOMAIN message' : message'[m].chat = c => m = NewId
    BY <2>1, <2>4
  <2> QED
    BY <2>1, <2>2, <2>3, <2>5 DEF TurnOf, Asking
<1> QED
  BY <1>2, <1>5, <1>6, <1>7, OneTree

(* The reply goes under the question. *)
LEMMA ReplyTree ==
  ASSUME IInv, TreeInv, NEW q \in Requests, NEW c \in Chats, c = request[q].chat,
         StoresReply(q), ~UNCHANGED <<chat, message>>
  PROVE  TreeInv'
<1> DEFINE r == request[q]
<1>1. /\ r.pc = "replied" /\ chat[c].live /\ Resolves(r.msg)
      /\ AppendMessage(c, r.msg, "assistant") /\ Goes(q, "stored")
  BY DEF StoresReply, CanAppend
<1>2. LockMoves(q) /\ TypeOK /\ c \in Chats /\ Works(q)
  BY <1>1, TurnMove, TypesOfLock DEF TurnStep, IInv, Works, Working, PastGate
<1>3. TreeOf(c) /\ r.msg \in DOMAIN message /\ message[r.msg].chat = c
  BY <1>1, <1>2 DEF TreeInv, TurnOf, Live, Asking
<1>4. TreeOf(c)'
  BY <1>1, <1>2, <1>3, AppendTree
<1>5. \A d \in Chats \ {c} : SameChat(d)
  BY <1>1, <1>2, AppendOthers
<1>6. request'[q].pc = "stored"
  BY <1>1, <1>2, GoesTo DEF OneMoves, Pcs, Working, PastGate
<1>7. TurnOf(q)'
  BY <1>6 DEF TurnOf, Asking
<1> QED
  BY <1>2, <1>4, <1>5, <1>7, OneTree

(* A question taken back leaves the leaf where it was before. *)
LEMMA DiscardTree ==
  ASSUME IInv, TreeInv, NEW q \in Requests, NEW c \in Chats, c = request[q].chat,
         DiscardsQuestion(q), ~UNCHANGED <<chat, message>>
  PROVE  TreeInv'
<1> DEFINE r == request[q]
           leaf == IF chat[c].leaf = r.msg THEN r.leaf ELSE chat[c].leaf
           new == [chat EXCEPT ![c] = [chat[c] EXCEPT !.leaf = leaf]]
<1>1. /\ r.pc = "discarding" /\ chat[c].live /\ Resolves(r.leaf)
      /\ RemoveMessages({r.msg}, new) /\ EndsWith(q, "failed")
  BY DEF DiscardsQuestion
<1>2. LockMoves(q) /\ TypeOK /\ c \in Chats /\ Works(q)
  BY <1>1, TurnMove, TypesOfLock DEF TurnStep, IInv, Works, Working, PastGate
<1>3. /\ TreeOf(c) /\ r.msg \in DOMAIN message /\ chat[c].leaf = r.msg
      /\ message[r.msg].chat = c /\ message[r.msg].parent = r.leaf /\ r.leaf # r.msg
      /\ r.leaf = NoMsg => \A m \in DOMAIN message : message[m].chat = c => m = r.msg
  BY <1>1, <1>2 DEF TreeInv, TurnOf, Live, Asking
<1>4. new \in [Chats -> ChatRows(DOMAIN message)] /\ new[c].leaf = r.leaf
      /\ \A d \in Chats \ {c} : new[d] = chat[d]
  <2>1. chat \in [Chats -> ChatRows(DOMAIN message)]
    BY <1>2, RowTypes DEF TablesOK
  <2>2. [chat[c] EXCEPT !.leaf = leaf] \in ChatRows(DOMAIN message)
        /\ [chat[c] EXCEPT !.leaf = leaf].leaf = r.leaf
    BY <1>1, <1>2, <1>3, <2>1 DEF Resolves, ChatRows
  <2> QED
    BY <1>2, <2>1, <2>2
<1>5. r.msg # NoMsg
  BY <1>2, <1>3, RowTypes
<1> HIDE DEF new
<1>6. /\ DOMAIN message' = DOMAIN message \ {r.msg}
      /\ \A m \in DOMAIN message \ {r.msg} :
           /\ message'[m].chat = message[m].chat
           /\ message'[m].parent = IF message[m].parent \in {r.msg} THEN NoMsg ELSE message[m].parent
      /\ chat'[c].leaf = r.leaf
  <2> DEFINE ids == {r.msg}
  <2>1. TablesOK /\ RemoveMessages(ids, new)
    BY <1>1, <1>2, RowTypes
  <2> HIDE DEF ids
  <2>2. /\ DOMAIN message' = DOMAIN message \ ids
        /\ \A m \in DOMAIN message \ ids :
             /\ message'[m].chat = message[m].chat /\ message'[m].role = message[m].role
             /\ message'[m].parent = IF message[m].parent \in ids THEN NoMsg ELSE message[m].parent
        /\ \A e \in Chats :
             /\ chat'[e].live = new[e].live
             /\ chat'[e].leaf = IF new[e].leaf \in ids THEN NoMsg ELSE new[e].leaf
    BY <1>4, <2>1, RemoveTables
  <2> QED
    BY <1>2, <1>3, <1>4, <2>2 DEF ids
<1>7. TreeOf(c)'
  <2>1. r.leaf # NoMsg => r.leaf \in DOMAIN message' /\ message'[r.leaf].chat = c
    BY <1>1, <1>3, <1>6 DEF TreeOf, Resolves
  <2>2. ASSUME NEW m \in DOMAIN message', message'[m].chat = c
        PROVE  /\ message'[m].parent # NoMsg => message'[message'[m].parent].chat = c
               /\ r.leaf # NoMsg
    <3>1. m \in DOMAIN message /\ message[m].chat = c /\ m # r.msg
      BY <1>6, <2>2
    <3>2. message[m].parent \in {NoMsg} \cup DOMAIN message
      BY <1>2, <3>1, RowTypes
    <3> QED
      BY <1>3, <1>6, <3>1, <3>2 DEF TreeOf
  <2> QED
    BY <1>6, <2>1, <2>2 DEF TreeOf
<1>8. ASSUME NEW d \in Chats, d # c PROVE SameChat(d)
  <2>1. TreeOf(d)
    BY DEF TreeInv
  <2> QED
    BY <1>1, <1>2, <1>3, <1>4, <1>5, <1>8, <2>1, RemoveOthers
<1>9. request'[q].pc = "failed"
  BY <1>1, <1>2, EndsTo DEF OneMoves, Pcs, Final
<1>10. TurnOf(q)'
  BY <1>9 DEF TurnOf, Asking
<1> QED
  BY <1>2, <1>7, <1>8, <1>10, OneTree

(* A deletion takes the whole tree. *)
LEMMA DeleteTree ==
  ASSUME IInv, TreeInv, NEW q \in Requests, NEW c \in Chats, c = request[q].chat,
         DeleteRow(q)
  PROVE  TreeInv'
<1> DEFINE ids == {m \in DOMAIN message : message[m].chat = c}
           new == [chat EXCEPT ![c] = [live |-> FALSE, leaf |-> NoMsg]]
<1>1. RemoveMessages(ids, new) /\ Goes(q, "deleted")
  BY DEF DeleteRow
<1>2. LockMoves(q) /\ TypeOK /\ c \in Chats
  BY OtherMove, TypesOfLock DEF OtherStep, IInv
<1>3. /\ new \in [Chats -> ChatRows(DOMAIN message)]
      /\ new[c].leaf = NoMsg /\ new[c].live = FALSE
      /\ \A d \in Chats \ {c} : new[d] = chat[d]
  <2>1. chat \in [Chats -> ChatRows(DOMAIN message)]
    BY <1>2, RowTypes DEF TablesOK
  <2> QED
    BY <1>2, <2>1 DEF ChatRows
<1> HIDE DEF new
<1>4. /\ DOMAIN message' = DOMAIN message \ ids
      /\ \A m \in DOMAIN message \ ids : message'[m].chat = message[m].chat
      /\ ~chat'[c].live /\ chat'[c].leaf = NoMsg
  <2>1. TablesOK
    BY <1>2, RowTypes
  <2> HIDE DEF ids
  <2>2. /\ DOMAIN message' = DOMAIN message \ ids
        /\ \A m \in DOMAIN message \ ids :
             /\ message'[m].chat = message[m].chat /\ message'[m].role = message[m].role
             /\ message'[m].parent = IF message[m].parent \in ids THEN NoMsg ELSE message[m].parent
        /\ \A e \in Chats :
             /\ chat'[e].live = new[e].live
             /\ chat'[e].leaf = IF new[e].leaf \in ids THEN NoMsg ELSE new[e].leaf
    BY <1>1, <1>3, <2>1, RemoveTables
  <2> QED
    BY <1>2, <1>3, <2>2
<1>5. TreeOf(c)'
  BY <1>4 DEF TreeOf
<1>6. NoMsg \notin ids
  BY <1>2, RowTypes
<1>7. ASSUME NEW d \in Chats, d # c PROVE SameChat(d)
  <2>1. TreeOf(d) /\ \A m \in ids : message[m].chat = c
    BY DEF TreeInv
  <2> HIDE DEF ids
  <2> QED
    BY <1>1, <1>2, <1>3, <1>6, <1>7, <2>1, RemoveOthers
<1>8. request'[q].pc = "deleted"
  BY <1>1, <1>2, GoesTo DEF OneMoves, Pcs
<1>9. TurnOf(q)'
  BY <1>8 DEF TurnOf, Asking
<1> QED
  BY <1>2, <1>4, <1>5, <1>7, <1>9, OneTree

(* A switch goes to a message of the chat. *)
LEMMA SwitchTree ==
  ASSUME SwitchesOwn, IInv, TreeInv, NEW q \in Requests, NEW c \in Chats, c = request[q].chat,
         BranchCommits(q), ~UNCHANGED <<chat, message>>
  PROVE  TreeInv'
<1> DEFINE r == request[q]
<1>1. /\ r.op = "branch" /\ r.pc = "locked" /\ r.msg \in DOMAIN message
      /\ chat' = [chat EXCEPT ![c].leaf = r.msg] /\ UNCHANGED message
      /\ EndsWith(q, "done")
  BY DEF BranchCommits
<1>2. LockMoves(q) /\ TypeOK /\ c \in Chats /\ Works(q)
  BY <1>1, OtherMove, TypesOfLock DEF OtherStep, IInv, Works, Working
<1>3. \A d \in Chats : d = c
  BY <1>1, <1>2 DEF SwitchesOwn, TypeOK, RequestType
<1>4. message[r.msg].chat = c /\ r.msg # NoMsg
  BY <1>1, <1>2, <1>3, RowTypes
<1>5. chat'[c].leaf = r.msg
  BY <1>1, <1>2 DEF TypeOK
<1>6. TreeOf(c)'
  BY <1>1, <1>2, <1>4, <1>5 DEF TreeInv, TreeOf
<1>7. request'[q].pc = "done"
  BY <1>1, <1>2, EndsTo DEF OneMoves, Pcs, Final
<1>8. TurnOf(q)'
  BY <1>7 DEF TurnOf, Asking
<1> QED
  BY <1>2, <1>3, <1>6, <1>8, OneTree

(* A step that leaves the tables alone. *)
LEMMA QuietTree ==
  ASSUME IInv, TreeInv, NEW q \in Requests,
         TurnStep(q) \/ OtherStep(q) \/ GatedFails(q) \/ TurnRaises(q),
         UNCHANGED <<chat, message>>
  PROVE  TreeInv'
<1>t. LockMoves(q) /\ TypeOK /\ TurnOf(q)
  BY TurnMove, OtherMove, FaultMove DEF IInv, TreeInv
<1>1. CASE TurnLoads(q) /\ ~EndsWith(q, "refused")
  <2>1. request' = [request EXCEPT ![q].pc = "ready", ![q].leaf = chat[request[q].chat].leaf]
    BY <1>1 DEF TurnLoads
  <2>2. /\ request'[q].pc = "ready" /\ request'[q].chat = request[q].chat
        /\ request'[q].leaf = chat[request[q].chat].leaf
    BY <1>t, <2>1 DEF TypeOK, RequestType
  <2>3. TurnOf(q)'
    BY <2>2 DEF TurnOf, Asking
  <2> QED
    BY <1>t, <2>3, TablesStay
<1>2. ASSUME NEW pc \in {"replied", "discarding"}, request[q].pc = "asked", Goes(q, pc)
      PROVE  TreeInv'
  <2>1. pc \in Pcs
    BY DEF Pcs, Working, PastGate
  <2>2. /\ request'[q].pc = pc /\ request'[q].chat = request[q].chat
        /\ request'[q].leaf = request[q].leaf /\ request'[q].msg = request[q].msg
    BY <1>t, <1>2, <2>1, GoesTo DEF OneMoves
  <2>3. TurnOf(q)'
    BY <1>t, <1>2, <2>2 DEF TurnOf, Asking, Live
  <2> QED
    BY <1>t, <2>3, TablesStay
<1>3. CASE request'[q].pc # "ready" /\ request'[q].pc \notin Asking
  <2>1. TurnOf(q)'
    BY <1>3 DEF TurnOf
  <2> QED
    BY <1>t, <2>1, TablesStay
<1>4. \/ TurnLoads(q) /\ ~EndsWith(q, "refused")
      \/ request[q].pc = "asked" /\ (Goes(q, "replied") \/ Goes(q, "discarding"))
      \/ request'[q].pc # "ready" /\ request'[q].pc \notin Asking
  <2>1. ASSUME NEW pc \in Pcs \ ({"ready"} \cup Asking), Goes(q, pc) \/ EndsWith(q, pc)
        PROVE  request'[q].pc # "ready" /\ request'[q].pc \notin Asking
    BY <1>t, <2>1, GoesTo, EndsTo DEF OneMoves
  <2>2. ASSUME JoinsLock(q)
        PROVE  request'[q].pc # "ready" /\ request'[q].pc \notin Asking
    BY <1>t, <2>2, JoinTo DEF OneMoves, Asking
  <2>3. {"new", "loaded", "refused", "broken", "failed", "done", "locked", "asking", "generating",
         "deleted", "stored"} \subseteq Pcs \ ({"ready"} \cup Asking)
    BY DEF Pcs, Working, PastGate, Final, Asking
  <2>4. CASE TurnStep(q)
    <3>1. CASE WsArrives(q) \/ HttpLoads(q) \/ HttpArrives(q) \/ AsksSlot(q) \/ TakesSlot(q)
      BY <3>1, <2>1, <2>2, <2>3 DEF WsArrives, HttpLoads, HttpArrives, AsksSlot, TakesSlot
    <3>2. CASE TurnLoads(q) \/ Streams(q) \/ StreamFails(q) \/ SendsDone(q)
      BY <3>2, <2>1, <2>3 DEF TurnLoads, Streams, StreamFails, SendsDone
    <3>3. CASE StoresQuestion(q)
      <4>1. TablesOK /\ request[q].chat \in Chats
        BY <1>t, RowTypes, TypesOfLock
      <4>2. ~(Resolves(request[q].leaf) /\ AppendMessage(request[q].chat, request[q].leaf, "user"))
        BY <4>1, AppendTables
      <4> QED
        BY <3>3, <4>2, <2>1, <2>3 DEF StoresQuestion, CanAppend
    <3>4. CASE StoresReply(q)
      BY <3>4, <2>1, <2>3 DEF StoresReply
    <3>5. CASE DiscardsQuestion(q)
      BY <3>5, <2>1, <2>3 DEF DiscardsQuestion
    <3> QED
      BY <2>4, <3>1, <3>2, <3>3, <3>4, <3>5 DEF TurnStep
  <2>5. CASE OtherStep(q)
    <3>1. CASE BranchLoads(q)
      <4>1. CASE Goes(q, "refused")
        BY <4>1, <2>1, <2>3
      <4>2. CASE ~Goes(q, "refused")
        <5>1. PICK m \in Ids : request' = [request EXCEPT ![q].pc = "loaded",
                                             ![q].leaf = chat[request[q].chat].leaf, ![q].msg = m]
          BY <3>1, <4>2 DEF BranchLoads
        <5>2. request'[q].pc = "loaded"
          BY <1>t, <5>1 DEF TypeOK, RequestType
        <5> QED
          BY <5>2 DEF Asking
      <4> QED
        BY <4>1, <4>2
    <3>2. CASE BranchJoins(q) \/ BranchCommits(q) \/ LockGranted(q)
      BY <3>2, <2>1, <2>2, <2>3 DEF BranchJoins, BranchCommits, LockGranted
    <3>3. CASE DeleteLoads(q) \/ DeleteRow(q) \/ DeleteCleans(q)
      BY <3>3, <2>1, <2>3 DEF DeleteLoads, DeleteRow, DeleteCleans
    <3> QED
      BY <2>5, <3>1, <3>2, <3>3 DEF OtherStep
  <2>6. CASE GatedFails(q) \/ TurnRaises(q)
    BY <2>6, <2>1, <2>3 DEF GatedFails, TurnRaises
  <2> QED
    BY <2>4, <2>5, <2>6
<1> QED
  BY <1>1, <1>2, <1>3, <1>4

LEMMA TreeStep == ASSUME SwitchesOwn, IInv, TreeInv, [Next]_vars PROVE TreeInv'
<1>1. CASE UNCHANGED <<chat, message, request>>
  BY <1>1 DEF TreeInv, TreeOf, TurnOf, Live
<1>2. ASSUME NEW q \in Requests, TurnStep(q) \/ OtherStep(q) \/ GatedFails(q) \/ TurnRaises(q),
             ~UNCHANGED <<chat, message>>
      PROVE  StoresQuestion(q) \/ StoresReply(q) \/ DiscardsQuestion(q) \/ DeleteRow(q)
             \/ BranchCommits(q)
  BY <1>2 DEF TurnStep, OtherStep, WsArrives, HttpLoads, HttpArrives, AsksSlot, TakesSlot,
     TurnLoads,
     Streams, StreamFails, SendsDone, BranchLoads, BranchJoins, DeleteLoads, DeleteCleans,
     LockGranted, GatedFails, TurnRaises
<1>3. ASSUME NEW q \in Requests, TurnStep(q) \/ OtherStep(q) \/ GatedFails(q) \/ TurnRaises(q)
      PROVE  TreeInv'
  <2>1. request[q].chat \in Chats
    BY TypesOfLock DEF IInv
  <2> QED
    BY <1>2, <1>3, <2>1, QuietTree, QuestionTree, ReplyTree, DiscardTree, DeleteTree, SwitchTree
<1> QED
  BY <1>1, <1>3 DEF Next, vars, ClientLeaves

LEMMA InitTree == ASSUME Init PROVE TreeInv
<1>1. \A q \in Requests : request[q].pc = "new"
  BY DEF Init
<1>2. \A q \in Requests : TurnOf(q)
  BY <1>1 DEF TurnOf, Asking
<1>3. ASSUME NEW c \in Chats PROVE chat[c].leaf \in {NoMsg, 2}
  <2> DEFINE S == {[live |-> TRUE, leaf |-> n] : n \in {NoMsg, 2}}
  <2>1. chat[c] \in S
    BY DEF Init
  <2> QED
    BY <2>1
<1>4. CASE \E c \in Chats : chat[c].leaf = 2
  <2> DEFINE d == CHOOSE c \in Chats : chat[c].leaf = 2
  <2>1. d \in Chats /\ chat[d].leaf = 2 /\ \A c \in Chats : chat[c].leaf = 2 => c = d
    BY <1>4 DEF Init
  <2>2. message = <<[chat |-> d, parent |-> NoMsg, role |-> "user"],
                    [chat |-> d, parent |-> 1, role |-> "assistant"]>>
    BY <1>4 DEF Init
  <2> HIDE DEF d
  <2>3. /\ DOMAIN message = {1, 2} /\ message[1].chat = d /\ message[2].chat = d
        /\ message[1].parent = NoMsg /\ message[2].parent = 1
    BY <2>2
  <2>4. \A c \in Chats : TreeOf(c)
    BY <1>3, <2>1, <2>3 DEF TreeOf, NoMsg
  <2> QED
    BY <1>2, <2>4 DEF TreeInv
<1>5. CASE ~\E c \in Chats : chat[c].leaf = 2
  <2>1. message = <<>> /\ \A c \in Chats : chat[c].leaf = NoMsg
    BY <1>3, <1>5 DEF Init
  <2>2. DOMAIN message = {}
    BY <2>1
  <2> QED
    BY <1>2, <2>1, <2>2 DEF TreeInv, TreeOf
<1> QED
  BY <1>4, <1>5

(* The trees and what turns know of them (TreeInv) stay right. *)
THEOREM TreeIsKept == ASSUME SwitchesOwn PROVE Spec => [](IInv /\ TreeInv)
<1>1. Init => IInv /\ TreeInv
  BY InitIInv, InitTree
<1>2. IInv /\ TreeInv /\ [Next]_vars => (IInv /\ TreeInv)'
  BY IInvStep, TreeStep
<1> QED
  BY <1>1, <1>2, PTL DEF Spec

(* Every message hangs in the tree of its chat, and a chat with messages   *)
(* has a leaf, whatever turns fail and whatever is deleted.                *)
THEOREM ChatsStayTrees == ASSUME SwitchesOwn PROVE Spec => []TreeKept
<1>1. IInv /\ TreeInv => TreeKept
  <2> SUFFICES ASSUME IInv, TreeInv PROVE LeafKept
    BY DEF TreeKept, IInv
  <2> QED
    BY DEF LeafKept, TreeInv, TreeOf
<1> QED
  BY <1>1, TreeIsKept, PTL

----------------------------------------------------------------------------
(* What a step does to the messages. *)

Adds(q, parent, role) ==
  /\ Live(q)
  /\ NewId \notin DOMAIN message
  /\ DOMAIN message' = DOMAIN message \cup {NewId}
  /\ \A m \in DOMAIN message : message'[m] = message[m]
  /\ message'[NewId] = [chat |-> request[q].chat, parent |-> parent, role |-> role]
  /\ \A c \in Chats : chat'[c].live = chat[c].live

Drops(ids) ==
  /\ DOMAIN message' = DOMAIN message \ ids
  /\ \A m \in DOMAIN message \ ids :
       /\ message'[m].chat = message[m].chat /\ message'[m].role = message[m].role
       /\ message'[m].parent = IF message[m].parent \in ids THEN NoMsg ELSE message[m].parent

Asks(q) ==
  /\ request[q].pc = "ready"
  /\ Adds(q, request[q].leaf, "user")
  /\ request'[q].pc = "asked" /\ request'[q].chat = request[q].chat /\ request'[q].msg = NewId

Replies(q) == request[q].pc = "replied" /\ Adds(q, request[q].msg, "assistant")

Discards(q) ==
  /\ request[q].pc = "discarding" /\ Live(q)
  /\ Drops({request[q].msg})
  /\ \A c \in Chats : chat'[c].live = chat[c].live

Deletes(q) ==
  /\ request[q].op = "delete"
  /\ Drops({m \in DOMAIN message : message[m].chat = request[q].chat})
  /\ \A c \in Chats \ {request[q].chat} : chat'[c].live = chat[c].live

Leaves == UNCHANGED message /\ \A c \in Chats : chat'[c].live = chat[c].live

(* An insert, as a step on the messages. *)
LEMMA AddsRow ==
  ASSUME TypeOK, NEW q \in Requests, NEW parent, NEW role \in {"user", "assistant"},
         CanAppend(request[q].chat, parent), AppendMessage(request[q].chat, parent, role)
  PROVE  Adds(q, parent, role)
<1>1. request[q].chat \in Chats /\ role \in {"user", "assistant"}
  BY TypesOfLock
<1>2. PICK c \in Chats : c = request[q].chat
  BY <1>1
<1>3. TablesOK /\ Resolves(parent) /\ AppendMessage(c, parent, role) /\ chat[c].live
  BY <1>2, RowTypes DEF CanAppend
<1>4. /\ NewId \notin DOMAIN message
      /\ DOMAIN message' = DOMAIN message \cup {NewId}
      /\ \A m \in DOMAIN message : message'[m] = message[m]
      /\ message'[NewId] = [chat |-> c, parent |-> parent, role |-> role]
  BY ONLY <1>1, <1>2, <1>3, AppendTables
<1>5. \A d \in Chats : chat'[d].live = chat[d].live
  BY <1>3, AppendLives
<1> QED
  BY <1>2, <1>3, <1>4, <1>5 DEF Adds, Live

(* Every step is one of these to the messages. *)
LEMMA MessageMoves ==
  ASSUME IInv, NEW q \in Requests,
         TurnStep(q) \/ OtherStep(q) \/ GatedFails(q) \/ TurnRaises(q)
  PROVE  Leaves \/ Asks(q) \/ Replies(q) \/ Discards(q) \/ Deletes(q)
<1>t. TypeOK /\ TablesOK /\ request[q].chat \in Chats /\ request[q] \in RequestType
  BY RowTypes, TypesOfLock DEF IInv
<1>1. CASE UNCHANGED <<chat, message>>
  BY <1>1 DEF Leaves
<1>2. CASE StoresQuestion(q) /\ ~UNCHANGED <<chat, message>>
  <2>1. /\ request[q].pc = "ready" /\ CanAppend(request[q].chat, request[q].leaf)
        /\ AppendMessage(request[q].chat, request[q].leaf, "user")
        /\ request' = [request EXCEPT ![q].pc = "asked", ![q].msg = NewId]
    BY <1>2 DEF StoresQuestion
  <2>2. Adds(q, request[q].leaf, "user")
    BY <1>t, <2>1, AddsRow
  <2>3. request'[q].pc = "asked" /\ request'[q].chat = request[q].chat /\ request'[q].msg = NewId
    BY <1>t, <2>1 DEF TypeOK, RequestType
  <2> QED
    BY <2>1, <2>2, <2>3 DEF Asks
<1>3. CASE StoresReply(q) /\ ~UNCHANGED <<chat, message>>
  <2>1. /\ request[q].pc = "replied" /\ CanAppend(request[q].chat, request[q].msg)
        /\ AppendMessage(request[q].chat, request[q].msg, "assistant")
    BY <1>3 DEF StoresReply
  <2> QED
    BY <1>t, <2>1, AddsRow DEF Replies
<1>4. CASE DiscardsQuestion(q) /\ ~UNCHANGED <<chat, message>>
  <2> DEFINE r == request[q]
             leaf == IF chat[r.chat].leaf = r.msg THEN r.leaf ELSE chat[r.chat].leaf
             new == [chat EXCEPT ![r.chat] = [chat[r.chat] EXCEPT !.leaf = leaf]]
  <2>1. /\ r.pc = "discarding" /\ chat[r.chat].live /\ Resolves(r.leaf)
        /\ RemoveMessages({r.msg}, new)
    BY <1>4 DEF DiscardsQuestion
  <2>2. [chat[r.chat] EXCEPT !.leaf = leaf] \in ChatRows(DOMAIN message)
        /\ [chat[r.chat] EXCEPT !.leaf = leaf].live = chat[r.chat].live
    BY <1>t, <2>1 DEF Resolves, ChatRows, TablesOK
  <2>3. new \in [Chats -> ChatRows(DOMAIN message)] /\ \A c \in Chats : new[c].live = chat[c].live
    BY <1>t, <2>2 DEF TablesOK
  <2> DEFINE ids == {r.msg}
  <2>4. RemoveMessages(ids, new)
    BY <2>1
  <2> HIDE DEF new, ids
  <2>5. /\ DOMAIN message' = DOMAIN message \ ids
        /\ \A m \in DOMAIN message \ ids :
             /\ message'[m].chat = message[m].chat /\ message'[m].role = message[m].role
             /\ message'[m].parent = IF message[m].parent \in ids THEN NoMsg ELSE message[m].parent
        /\ \A e \in Chats :
             /\ chat'[e].live = new[e].live
             /\ chat'[e].leaf = IF new[e].leaf \in ids THEN NoMsg ELSE new[e].leaf
    <3>1. TablesOK /\ new \in [Chats -> ChatRows(DOMAIN message)] /\ RemoveMessages(ids, new)
      BY <1>t, <2>3, <2>4
    <3> QED
      BY ONLY <3>1, RemoveTables
  <2>6. Drops(ids)
    BY <2>5 DEF Drops
  <2> QED
    BY <2>1, <2>3, <2>5, <2>6 DEF Discards, Live, ids
<1>5. CASE DeleteRow(q)
  <2> DEFINE c == request[q].chat
             ids == {m \in DOMAIN message : message[m].chat = c}
             new == [chat EXCEPT ![c] = [live |-> FALSE, leaf |-> NoMsg]]
  <2>1. RemoveMessages(ids, new) /\ request[q].op = "delete"
    BY <1>5 DEF DeleteRow
  <2>2. new \in [Chats -> ChatRows(DOMAIN message)] /\ \A d \in Chats \ {c} : new[d] = chat[d]
    BY <1>t DEF TablesOK, ChatRows
  <2> HIDE DEF new, ids
  <2>3. /\ DOMAIN message' = DOMAIN message \ ids
        /\ \A m \in DOMAIN message \ ids :
             /\ message'[m].chat = message[m].chat /\ message'[m].role = message[m].role
             /\ message'[m].parent = IF message[m].parent \in ids THEN NoMsg ELSE message[m].parent
        /\ \A e \in Chats :
             /\ chat'[e].live = new[e].live
             /\ chat'[e].leaf = IF new[e].leaf \in ids THEN NoMsg ELSE new[e].leaf
    <3>1. TablesOK /\ new \in [Chats -> ChatRows(DOMAIN message)] /\ RemoveMessages(ids, new)
      BY <1>t, <2>1, <2>2
    <3> QED
      BY ONLY <3>1, RemoveTables
  <2>4. Drops(ids)
    BY <2>3 DEF Drops
  <2> QED
    BY <2>1, <2>2, <2>3, <2>4 DEF Deletes, ids
<1>6. CASE BranchCommits(q)
  <2>1. /\ UNCHANGED message
        /\ \/ UNCHANGED chat
           \/ chat' = [chat EXCEPT ![request[q].chat].leaf = request[q].msg]
    BY <1>6 DEF BranchCommits
  <2>2. chat \in [Chats -> ChatRows(DOMAIN message)]
    BY <1>t DEF TablesOK
  <2>3. \A c \in Chats : chat'[c].live = chat[c].live
    BY <1>t, <2>1, <2>2 DEF ChatRows
  <2> QED
    BY <2>1, <2>3 DEF Leaves
<1> QED
  BY <1>1, <1>2, <1>3, <1>4, <1>5, <1>6 DEF TurnStep, OtherStep, WsArrives, HttpLoads, HttpArrives,
     AsksSlot, TakesSlot, TurnLoads, Streams, StreamFails, SendsDone, BranchLoads, BranchJoins,
     DeleteLoads, DeleteCleans, LockGranted, GatedFails, TurnRaises

(* A message is attached to what is the leaf of its chat when it is        *)
(* written, though the leaf was read long before.                          *)
THEOREM MessagesAttach == ASSUME SwitchesOwn PROVE Spec => AttachedToLeaf
<1> DEFINE Attached == \A m \in DOMAIN message' \ DOMAIN message :
                         message'[m].parent = chat[message'[m].chat].leaf
<1>1. IInv /\ TreeInv /\ [Next]_vars => [Attached]_vars
  <2> SUFFICES ASSUME IInv, TreeInv, Next PROVE Attached
    OBVIOUS
  <2>1. ASSUME NEW q \in Requests, TurnStep(q) \/ OtherStep(q) \/ GatedFails(q) \/ TurnRaises(q)
        PROVE  Attached
    <3>1. CASE Asks(q)
      <4>1. request[q].leaf = chat[request[q].chat].leaf
        BY <3>1 DEF Asks, Adds, TreeInv, TurnOf
      <4> QED
        BY <3>1, <4>1 DEF Asks, Adds
    <3>2. CASE Replies(q)
      <4>1. request[q].msg = chat[request[q].chat].leaf
        BY <3>2 DEF Replies, Adds, TreeInv, TurnOf, Asking
      <4> QED
        BY <3>2, <4>1 DEF Replies, Adds
    <3>3. CASE Leaves \/ Discards(q) \/ Deletes(q)
      BY <3>3 DEF Leaves, Discards, Deletes, Drops
    <3> QED
      BY <2>1, <3>1, <3>2, <3>3, MessageMoves
  <2>2. ASSUME NEW q \in Requests, ClientLeaves(q) PROVE Attached
    BY <2>2 DEF ClientLeaves
  <2> QED
    BY <2>1, <2>2 DEF Next
<1> QED
  BY <1>1, TreeIsKept, PTL DEF Spec, AttachedToLeaf

----------------------------------------------------------------------------
(* Questions.  Without a client that leaves and an exception nobody        *)
(* expects, a turn ends with the reply stored or the question taken back.  *)
Calm == Leavers = {} /\ MaxFaults = 0

WorksOn(q, m) ==
  /\ Live(q) /\ request[q].chat = message[m].chat
  /\ request[q].pc \in Asking /\ request[q].msg = m

HasReply(m) == \E n \in DOMAIN message : message[n].parent = m /\ message[n].role = "assistant"

Questions ==
  \A m \in DOMAIN message :
    message[m].role = "user" => HasReply(m) \/ \E q \in Requests : WorksOn(q, m)

(* A turn that works on a question goes on with it, replies or discards.   *)
LEMMA AskingGoesOn ==
  ASSUME Calm, IInv, TreeInv, NEW q \in Requests, Live(q), request[q].pc \in Asking,
         TurnStep(q) \/ OtherStep(q) \/ GatedFails(q) \/ TurnRaises(q)
  PROVE  \/ Replies(q) \/ Discards(q)
         \/ /\ Leaves /\ request'[q].pc \in Asking
            /\ request'[q].msg = request[q].msg /\ request'[q].chat = request[q].chat
<1>t. /\ TypeOK /\ TurnOf(q) /\ request[q].chat \in Chats /\ request[q].op # "delete"
      /\ request[q].op # "branch"
  BY TypesOfLock DEF IInv, TreeInv, LockInv, IsTurn, TurnPcs, PastGate, Asking
<1>f. gone = {} /\ ~(faults < MaxFaults)
  BY <1>t, ChatAssumption DEF Calm, TypeOK
<1>1. ASSUME NEW pc \in Asking, Goes(q, pc), UNCHANGED <<chat, message>>
      PROVE  /\ Leaves /\ request'[q].pc \in Asking
             /\ request'[q].msg = request[q].msg /\ request'[q].chat = request[q].chat
  <2>1. pc \in Pcs
    BY DEF Asking, Pcs, Working, PastGate
  <2> QED
    BY <1>t, <1>1, <2>1, GoesTo DEF Leaves, OneMoves
<1>2. CASE Streams(q) \/ StreamFails(q)
  BY <1>f, <1>1, <1>2 DEF Streams, StreamFails, Asking
<1>3. ~GatedFails(q) /\ ~TurnRaises(q)
  BY <1>f DEF GatedFails, TurnRaises
<1>4. CASE StoresReply(q)
  <2>1. CanAppend(request[q].chat, request[q].msg) /\ request[q].pc = "replied"
    BY <1>t, <1>4 DEF StoresReply, CanAppend, Resolves, TurnOf, Live, Asking
  <2>2. AppendMessage(request[q].chat, request[q].msg, "assistant")
    BY <1>4, <2>1 DEF StoresReply
  <2> QED
    BY <1>t, <2>1, <2>2, AddsRow DEF Replies
<1>5. CASE DiscardsQuestion(q)
  <2>1. request[q].pc = "discarding" /\ request[q].msg \in DOMAIN message
    BY <1>t, <1>5 DEF DiscardsQuestion, TurnOf, Asking
  <2>2. Resolves(request[q].leaf) /\ chat[request[q].chat].live
    <3>1. message[request[q].msg].parent = request[q].leaf
      BY <1>t, <1>5 DEF DiscardsQuestion, TurnOf, Asking
    <3> QED
      BY <1>t, <2>1, <3>1, RowTypes DEF Resolves, Live
  <2>3. DOMAIN message' = DOMAIN message \ {request[q].msg}
    BY <1>5, <2>2 DEF DiscardsQuestion, RemoveMessages
  <2>4. ~Leaves /\ ~Asks(q) /\ ~Replies(q) /\ ~Deletes(q)
    BY <1>t, <2>1, <2>3 DEF Leaves, Asks, Replies, Deletes
  <2> QED
    BY <1>5, <2>4, MessageMoves DEF TurnStep
<1> QED
  BY <1>t, <1>2, <1>3, <1>4, <1>5 DEF TurnStep, OtherStep, WsArrives, HttpLoads, HttpArrives,
     AsksSlot, TakesSlot, TurnLoads, StoresQuestion, SendsDone, BranchLoads, BranchJoins,
     BranchCommits, DeleteLoads, DeleteRow, DeleteCleans, LockGranted, Asking

(* Every step keeps questions answered or worked on. *)
LEMMA QuestionsStep ==
  ASSUME Calm, IInv, TreeInv, Questions, NEW q \in Requests,
         TurnStep(q) \/ OtherStep(q) \/ GatedFails(q) \/ TurnRaises(q)
  PROVE  Questions'
<1> SUFFICES ASSUME NEW m \in DOMAIN message', message'[m].role = "user", ~HasReply(m)'
             PROVE  \E p \in Requests : WorksOn(p, m)'
  BY DEF Questions
<1>t. TypeOK /\ request[q].chat \in Chats /\ OneMoves(q, request'[q].pc)
  BY TypesOfLock, TurnMove, OtherMove, FaultMove DEF IInv, LockMoves
<1>v. Leaves \/ Asks(q) \/ Replies(q) \/ Discards(q) \/ Deletes(q)
  BY MessageMoves
<1>1. CASE m \notin DOMAIN message
  <2>1. Asks(q) /\ m = NewId
    BY <1>v, <1>1 DEF Leaves, Asks, Replies, Discards, Deletes, Adds, Drops
  <2>2. /\ chat'[request[q].chat].live /\ message'[m].chat = request[q].chat
        /\ request'[q].pc = "asked" /\ request'[q].msg = m /\ request'[q].chat = request[q].chat
    BY <1>t, <2>1 DEF Asks, Adds, Live
  <2> QED
    BY <2>2 DEF WorksOn, Live, Asking
<1>2. CASE m \in DOMAIN message
  <2>1. message[m].role = "user" /\ message'[m].chat = message[m].chat
    BY <1>v, <1>2 DEF Leaves, Asks, Replies, Discards, Deletes, Adds, Drops
  <2>2. ~HasReply(m)
    <3> SUFFICES ASSUME NEW n \in DOMAIN message, message[n].parent = m,
                        message[n].role = "assistant"
                 PROVE  FALSE
      BY DEF HasReply
    <3>1. CASE Leaves \/ Asks(q) \/ Replies(q)
      BY <3>1 DEF Leaves, Asks, Replies, Adds, HasReply
    <3>2. CASE Discards(q)
      <4>1. request[q].msg \in DOMAIN message /\ message[request[q].msg].role = "user"
        BY <3>2 DEF Discards, TreeInv, TurnOf, Asking
      <4> QED
        BY <3>2, <4>1 DEF Discards, Drops, HasReply
    <3>3. CASE Deletes(q)
      <4>1. m # NoMsg /\ message[n].chat \in Chats
        BY <1>t, <1>2, RowTypes
      <4>2. message[m].chat = message[n].chat
        BY <4>1 DEF TreeInv, TreeOf
      <4>3. message[m].chat # request[q].chat
        BY <1>2, <3>3 DEF Deletes, Drops
      <4> QED
        BY <1>2, <3>3, <4>2, <4>3 DEF Deletes, Drops, HasReply
    <3> QED
      BY <1>v, <3>1, <3>2, <3>3
  <2>3. PICK p \in Requests : WorksOn(p, m)
    BY <1>2, <2>1, <2>2 DEF Questions
  <2>4. chat'[request[p].chat].live
    <3>1. request[p].chat \in Chats /\ Live(p) /\ request[p].chat = message[m].chat
      BY <1>t, <2>3, TypesOfLock DEF WorksOn
    <3>2. CASE Leaves \/ Asks(q) \/ Replies(q) \/ Discards(q)
      BY <3>1, <3>2 DEF Leaves, Asks, Replies, Discards, Adds, Live
    <3>3. CASE Deletes(q)
      <4>1. message[m].chat # request[q].chat
        BY <1>2, <3>3 DEF Deletes, Drops
      <4> QED
        BY <3>1, <3>3, <4>1 DEF Deletes, Live
    <3> QED
      BY <1>v, <3>2, <3>3
  <2>5. CASE p # q
    <3>1. request'[p] = request[p]
      BY <1>t, <2>5 DEF OneMoves
    <3> QED
      BY <2>1, <2>3, <2>4, <3>1 DEF WorksOn, Live
  <2>6. CASE p = q
    <3>1. ~Replies(q)
      <4> SUFFICES ASSUME Replies(q) PROVE HasReply(m)'
        OBVIOUS
      <4>1. /\ NewId \in DOMAIN message' /\ message'[NewId].parent = m
            /\ message'[NewId].role = "assistant"
        BY <2>3, <2>6 DEF Replies, Adds, WorksOn
      <4> DEFINE n == NewId
      <4> HIDE DEF n
      <4> QED
        BY <4>1 DEF HasReply
    <3>2. ~Discards(q)
      BY <2>3, <2>6 DEF Discards, Drops, WorksOn
    <3>3. /\ request'[q].pc \in Asking
          /\ request'[q].msg = request[q].msg /\ request'[q].chat = request[q].chat
      BY <2>3, <2>6, <3>1, <3>2, AskingGoesOn DEF WorksOn
    <3> QED
      BY <2>1, <2>3, <2>4, <2>6, <3>3 DEF WorksOn, Live
  <2> QED
    BY <2>5, <2>6
<1> QED
  BY <1>1, <1>2

(* Nobody's question stays without a reply: one that has no continuation   *)
(* is being worked on.  Clients that leave and exceptions nobody expects   *)
(* are the two ways the code has to break this.                            *)
THEOREM QuestionsAreAnswered == ASSUME SwitchesOwn, Calm PROVE Spec => []QuestionAnswered
<1>1. Init => Questions
  <2> SUFFICES ASSUME Init, NEW m \in DOMAIN message, message[m].role = "user" PROVE HasReply(m)
    BY DEF Questions
  <2>1. CASE \E c \in Chats : chat[c].leaf = 2
    <3> DEFINE d == CHOOSE c \in Chats : chat[c].leaf = 2
    <3>1. message = <<[chat |-> d, parent |-> NoMsg, role |-> "user"],
                      [chat |-> d, parent |-> 1, role |-> "assistant"]>>
      BY <2>1 DEF Init
    <3> HIDE DEF d
    <3>2. /\ DOMAIN message = {1, 2} /\ message[2].parent = 1
          /\ message[1].role = "user" /\ message[2].role = "assistant"
      BY <3>1
    <3> QED
      BY <3>2 DEF HasReply
  <2>2. CASE ~\E c \in Chats : chat[c].leaf = 2
    <3>1. message = <<>>
      BY <2>2 DEF Init
    <3> QED
      BY <3>1
  <2> QED
    BY <2>1, <2>2
<1>2. IInv /\ TreeInv /\ Questions /\ [Next]_vars => Questions'
  <2> SUFFICES ASSUME IInv, TreeInv, Questions, [Next]_vars PROVE Questions'
    OBVIOUS
  <2>1. CASE UNCHANGED <<chat, message, request>>
    BY <2>1 DEF Questions, HasReply, WorksOn, Live
  <2> QED
    BY <2>1, QuestionsStep DEF Next, vars, ClientLeaves
<1>3. IInv /\ Questions => QuestionAnswered
  BY DEF IInv, LockInv, Questions, QuestionAnswered, HasReply, WorksOn, Asking, TurnPcs, PastGate
<1> QED
  BY <1>1, <1>2, <1>3, TreeIsKept, PTL DEF Spec
=============================================================================
