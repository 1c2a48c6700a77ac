----------------------------- MODULE TaskMemory -----------------------------
(***************************************************************************)
(* The task memory of one RAG chat (agent/task_memory.py): the document    *)
(* that a turn extracts from the user's message and commits together with  *)
(* the answer (agent/ws.py), the edits by hand (agent/task_memory_api.py)  *)
(* and the branch switch that restores it (agent/main.py).                 *)
(*                                                                         *)
(* Two texts are the same here when _is_duplicate takes one for a copy of  *)
(* the other.  The chat lock is a queue; its holder is the head.           *)
(***************************************************************************)
EXTENDS Naturals, Sequences, FiniteSets, FiniteSetsExt

CONSTANTS
  MemRequests,   \* the requests that come
  Texts,         \* what a user may state: goals, points, constraints
  NoText,        \* no goal, no item reported
  ListCap,       \* LIST_CAP: items of one list
  MaxMessages    \* bound: ids of messages

ASSUME MemoryAssumption == ListCap \in Nat \ {0} /\ NoText \notin Texts

VARIABLES
  doc,      \* ChatTaskMemory.doc_json, or the empty document
  rag,      \* ChatRagConfig.mode = "rag"
  tree,     \* the messages by id, each with the snapshot of its payload
  leaf,     \* Chat.current_leaf_message_id
  memLock,  \* the chat lock: holder first, then the waiters
  edit,     \* the requests
  byHand,   \* history: the document was edited since a turn or a switch set it
  stated    \* history: what users stated in a question

memVars == <<doc, rag, tree, leaf, memLock, edit, byHand, stated>>

Kinds == {"clarified", "constraints"}
ItemType == [id : Nat, kind : Kinds, text : Texts]
EmptyDoc == [goal |-> NoText, items |-> {}, next |-> 1]
NoSnapshot == [goal |-> NoText, items |-> {}, kept |-> FALSE]
NoItem == [id |-> 0, kind |-> "clarified", text |-> NoText]
Idle == [op |-> "turn", pc |-> "new", leaf |-> 0, target |-> 0, item |-> NoItem,
         rag |-> FALSE, doc |-> EmptyDoc, parent |-> 0]

MemInit ==
  /\ doc = EmptyDoc /\ rag = TRUE
  /\ tree = <<>> /\ leaf = 0 /\ memLock = <<>>
  /\ edit = [r \in MemRequests |-> Idle]
  /\ byHand = FALSE /\ stated = {}

-----------------------------------------------------------------------------
(* The document.                                                           *)

(* parse_delta: what the model may report as new in a turn.                *)
Deltas == [goal : Texts \cup {NoText}, changed : BOOLEAN,
           clarified : Texts \cup {NoText}, constraints : Texts \cup {NoText}]

(* _merge_goal: a goal stays unless the user is said to have changed it.   *)
MergeGoal(d, goal, changed) ==
  IF goal # NoText /\ (d.goal = NoText \/ changed) THEN [d EXCEPT !.goal = goal] ELSE d

(* _merge_list for one text: not a copy of an item of either list, and not *)
(* beyond the cap of its own.                                              *)
MergeItem(d, kind, text) ==
  IF \/ text = NoText
     \/ \E i \in d.items : i.text = text
     \/ Cardinality({i \in d.items : i.kind = kind}) >= ListCap
  THEN d
  ELSE [d EXCEPT !.items = @ \cup {[id |-> d.next, kind |-> kind, text |-> text]},
                 !.next = @ + 1]

(* merge_delta.                                                            *)
MergeDelta(d, delta) ==
  MergeItem(MergeItem(MergeGoal(d, delta.goal, delta.changed), "clarified", delta.clarified),
            "constraints", delta.constraints)

(* filter_user_stated: what the question does not contain is dropped.      *)
UserStated(delta, said) ==
  [goal |-> IF delta.goal \in said THEN delta.goal ELSE NoText,
   changed |-> delta.changed /\ delta.goal \in said,
   clarified |-> IF delta.clarified \in said THEN delta.clarified ELSE NoText,
   constraints |-> IF delta.constraints \in said THEN delta.constraints ELSE NoText]

(* build_snapshot: what is stored in the payload of the answer.            *)
Snapshot(d) == [goal |-> d.goal, items |-> d.items, kept |-> TRUE]

(* doc_from_snapshot: the next id is one more than the largest there is.   *)
DocFromSnapshot(s) ==
  [goal |-> s.goal, items |-> s.items, next |-> 1 + Max({0} \cup {i.id : i \in s.items})]

(* The active path of a message, what its parents lead to, and what        *)
(* restore_from_path makes of it: the snapshot of the newest answer that   *)
(* has one, or nothing.                                                    *)
Leads(S) == \A k \in S : tree[k].parent \in S \cup {0}
PathTo(m) == {k \in DOMAIN tree : \A S \in SUBSET DOMAIN tree : {m} \ {0} \subseteq S /\ Leads(S) => k \in S}

Restored(m) ==
  LET kept == {k \in PathTo(m) : tree[k].snap.kept}
  IN IF kept = {} THEN EmptyDoc ELSE DocFromSnapshot(tree[Max(kept)].snap)

-----------------------------------------------------------------------------
(* The chat lock.                                                          *)

Holds(r) == memLock # <<>> /\ Head(memLock) = r

JoinsMemLock(r, record) ==
  /\ memLock' = Append(memLock, r)
  /\ edit' = [edit EXCEPT ![r] = [record EXCEPT !.pc = "queued"]]

LeavesMemLock(r) ==
  /\ memLock' = Tail(memLock)
  /\ edit' = [edit EXCEPT ![r].pc = "done"]

(* A message gets the first id above all others.                           *)
NextMessage == 1 + Max({0} \cup DOMAIN tree)

StoresMessage(parent, snap) ==
  /\ tree' = [m \in DOMAIN tree \cup {NextMessage} |->
                IF m = NextMessage THEN [parent |-> parent, snap |-> snap] ELSE tree[m]]
  /\ leaf' = NextMessage

-----------------------------------------------------------------------------
(* A turn.                                                                 *)

(* _handle_chat_message: the turn waits for the lock.                      *)
MemTurnArrives(r) ==
  /\ edit[r].pc = "new" /\ NextMessage < MaxMessages
  /\ JoinsMemLock(r, Idle)
  /\ UNCHANGED <<doc, rag, tree, leaf, byHand, stated>>

(* _persist_user_message; prepare_rag_turn reads the mode.                 *)
TurnAsks(r) ==
  /\ edit[r].op = "turn" /\ edit[r].pc = "queued" /\ Holds(r)
  /\ NextMessage < MaxMessages
  /\ StoresMessage(leaf, NoSnapshot)
  /\ edit' = [edit EXCEPT ![r].pc = "asked", ![r].parent = leaf, ![r].rag = rag]
  /\ UNCHANGED <<doc, rag, memLock, byHand, stated>>

(* update_task_memory: the document is read, then the model is asked.      *)
TurnReads(r) ==
  /\ edit[r].op = "turn" /\ edit[r].pc = "asked" /\ edit[r].rag
  /\ edit' = [edit EXCEPT ![r].pc = "extracting", ![r].doc = doc]
  /\ UNCHANGED <<doc, rag, tree, leaf, memLock, byHand, stated>>

(* _apply_extraction and _persist_assistant_message, gated or not: answer, *)
(* snapshot and document in one commit.                                    *)
TurnRemembers(r) ==
  /\ edit[r].op = "turn" /\ edit[r].pc = "extracting"
  /\ \E said \in SUBSET Texts, delta \in Deltas :
       LET merged == MergeDelta(edit[r].doc, UserStated(delta, said))
       IN /\ Cardinality(said) <= 1  \* bound: a question states one thing
          /\ doc' = IF merged # edit[r].doc THEN merged ELSE doc
          /\ StoresMessage(leaf, Snapshot(merged))
          /\ stated' = stated \cup said
  /\ byHand' = FALSE
  /\ LeavesMemLock(r) /\ UNCHANGED rag

(* The extraction fails or cannot be parsed: the snapshot is that of the   *)
(* document as it was, and the document stays.                             *)
TurnForgets(r) ==
  /\ edit[r].op = "turn" /\ edit[r].pc = "extracting"
  /\ StoresMessage(leaf, Snapshot(edit[r].doc))
  /\ byHand' = FALSE
  /\ LeavesMemLock(r) /\ UNCHANGED <<doc, rag, stated>>

(* A turn of a chat whose mode is off has no snapshot.                     *)
TurnAnswersPlain(r) ==
  /\ edit[r].op = "turn" /\ edit[r].pc = "asked" /\ ~edit[r].rag
  /\ StoresMessage(leaf, NoSnapshot)
  /\ LeavesMemLock(r) /\ UNCHANGED <<doc, rag, byHand, stated>>

(* The model or the commit of the answer fails: _discard_user_message.     *)
MemTurnFails(r) ==
  /\ edit[r].op = "turn" /\ edit[r].pc \in {"asked", "extracting"}
  /\ leaf' = edit[r].parent
  /\ tree' = [m \in DOMAIN tree \ {leaf} |-> tree[m]]
  /\ LeavesMemLock(r) /\ UNCHANGED <<doc, rag, byHand, stated>>

-----------------------------------------------------------------------------
(* Edits by hand: each loads the document and commits under the lock.      *)

(* _get_rag_chat: 409 unless the chat uses RAG.  A removal names an item   *)
(* that the user sees.                                                     *)
EditArrives(r) ==
  /\ edit[r].pc = "new" /\ rag
  /\ \/ \E op \in {"goal", "reset"} : JoinsMemLock(r, [Idle EXCEPT !.op = op])
     \/ \E i \in doc.items : JoinsMemLock(r, [Idle EXCEPT !.op = "remove", !.item = i])
  /\ UNCHANGED <<doc, rag, tree, leaf, byHand, stated>>

(* put_task_goal; an empty goal clears it.                                 *)
PutsGoal(r) ==
  /\ edit[r].op = "goal" /\ edit[r].pc = "queued" /\ Holds(r)
  /\ \E goal \in Texts \cup {NoText} :
       /\ doc' = [doc EXCEPT !.goal = goal]
       /\ stated' = stated \cup ({goal} \ {NoText})
  /\ byHand' = TRUE
  /\ LeavesMemLock(r) /\ UNCHANGED <<rag, tree, leaf>>

(* delete_task_item: the item of that id, or 404.                          *)
RemovesItem(r) ==
  /\ edit[r].op = "remove" /\ edit[r].pc = "queued" /\ Holds(r)
  /\ LET hit == {i \in doc.items : i.id = edit[r].item.id}
     IN /\ doc' = [doc EXCEPT !.items = @ \ hit]
        /\ byHand' = (byHand \/ hit # {})
  /\ LeavesMemLock(r) /\ UNCHANGED <<rag, tree, leaf, stated>>

(* reset_task_memory deletes the row.                                      *)
Resets(r) ==
  /\ edit[r].op = "reset" /\ edit[r].pc = "queued" /\ Holds(r)
  /\ doc' = EmptyDoc /\ byHand' = TRUE
  /\ LeavesMemLock(r) /\ UNCHANGED <<rag, tree, leaf, stated>>

(* put_rag_config takes no lock.                                           *)
PutsMode(r) ==
  /\ edit[r].pc = "new"
  /\ rag' = ~rag
  /\ edit' = [edit EXCEPT ![r].op = "mode", ![r].pc = "done"]
  /\ UNCHANGED <<doc, tree, leaf, memLock, byHand, stated>>

-----------------------------------------------------------------------------
(* The branch switch.                                                      *)

(* branch_chat loads the chat and the target, then waits for the lock.     *)
SwitchArrives(r) ==
  /\ edit[r].pc = "new"
  /\ \E m \in DOMAIN tree :
       JoinsMemLock(r, [Idle EXCEPT !.op = "branch", !.leaf = leaf, !.target = m])
  /\ UNCHANGED <<doc, rag, tree, leaf, byHand, stated>>

(* Mutant: the memory is restored only for a target that is an answer.     *)
SwitchesToAnswers(r) ==
  /\ edit[r].op = "branch" /\ edit[r].pc = "queued" /\ Holds(r)
  /\ IF edit[r].target # edit[r].leaf /\ edit[r].target \in DOMAIN tree
     THEN /\ leaf' = edit[r].target /\ byHand' = FALSE
          /\ doc' = IF tree[edit[r].target].snap.kept THEN Restored(edit[r].target) ELSE doc
     ELSE UNCHANGED <<leaf, doc, byHand>>
  /\ LeavesMemLock(r) /\ UNCHANGED <<rag, tree, stated>>

(* The document follows the leaf when the copy of the leaf says it moves.  *)
(* A target that is gone breaks the foreign key.                           *)
Switches(r) ==
  /\ edit[r].op = "branch" /\ edit[r].pc = "queued" /\ Holds(r)
  /\ IF edit[r].target # edit[r].leaf /\ edit[r].target \in DOMAIN tree
     THEN leaf' = edit[r].target /\ doc' = Restored(edit[r].target) /\ byHand' = FALSE
     ELSE UNCHANGED <<leaf, doc, byHand>>
  /\ LeavesMemLock(r) /\ UNCHANGED <<rag, tree, stated>>

-----------------------------------------------------------------------------
MemStep(r) ==
  \/ TurnAsks(r) \/ TurnReads(r) \/ TurnRemembers(r) \/ TurnForgets(r)
  \/ TurnAnswersPlain(r) \/ MemTurnFails(r)
  \/ PutsGoal(r) \/ RemovesItem(r) \/ Resets(r) \/ Switches(r)

MemNext == \E r \in MemRequests :
  \/ MemTurnArrives(r) \/ EditArrives(r) \/ SwitchArrives(r) \/ PutsMode(r)
  \/ MemStep(r)

MemSpec == MemInit /\ [][MemNext]_memVars

-----------------------------------------------------------------------------
(* Properties.                                                             *)

(* The document is what its schema and its merge rules allow: ids are      *)
(* unique and below next_id, no text occurs twice, no list is longer than  *)
(* its cap.                                                                *)
MemTypeOK ==
  /\ doc.goal \in Texts \cup {NoText} /\ doc.items \subseteq ItemType /\ doc.next \in Nat
  /\ \A i \in doc.items : i.id < doc.next
  /\ \A i, j \in doc.items : (i.id = j.id \/ i.text = j.text) => i = j
  /\ \A k \in Kinds : Cardinality({i \in doc.items : i.kind = k}) <= ListCap
  /\ leaf \in DOMAIN tree \cup {0}
  /\ \A m \in DOMAIN tree : tree[m].parent \in DOMAIN tree \cup {0}

(* Unless it was edited since, the document is the snapshot of the newest  *)
(* answer of the active path (update_task_memory stages it, the commit of  *)
(* the answer stores both; restore_from_path follows a switch).            *)
MemoryFollowsLeaf ==
  ~byHand => Snapshot(doc) = Snapshot(Restored(leaf))

(* Nothing enters the memory that no user stated (filter_user_stated).     *)
MemoryIsStated ==
  {i.text : i \in doc.items} \cup ({doc.goal} \ {NoText}) \subseteq stated
=============================================================================
