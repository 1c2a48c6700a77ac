----------------------------- MODULE UserMemory -----------------------------
(***************************************************************************)
(* What the application keeps about one user beside the conversations: the *)
(* long-term memory, with an upsert of the model's tool and an edit and a  *)
(* deletion of the memory page (src/agent/memory.py), and the profile, a   *)
(* row made on first access and updated field by field                     *)
(* (src/agent/profile.py).  Requests run side by side: every statement is  *)
(* a step of its own, and what a request has read is a copy.               *)
(*                                                                         *)
(* An ORM update writes the columns that differ from the copy, and fails   *)
(* when its row is gone; a deletion of a row that is gone is silent.  The  *)
(* id of a new row is one above the largest in use.  Working memory has    *)
(* the upsert of long-term memory and no edit.                             *)
(***************************************************************************)
EXTENDS Naturals, FiniteSets, FiniteSetsExt

CONSTANTS MemRequests, EntryKeys, Texts, Fields, NoText

VARIABLES memEntries,   \* LongTermMemory: id -> [key, text]
          profile,   \* the row of the user; without fields before the first access
          calls,     \* the requests, each with the step it is at
          latest     \* what was last written into each field of the profile

memVars == <<memEntries, profile, calls, latest>>

NoProfile == [f \in {} |-> NoText]
Blank == [f \in Fields |-> NoText]
NoEntry == [key |-> NoText, text |-> NoText]

\* A request: op is what it asks, id the row it works on, copy what it has read of it, own
\* its copy of the profile, lost whether an entry was deleted or renamed since it began.
Fresh == [op |-> "none", key |-> NoText, text |-> NoText, field |-> NoText, id |-> 0,
          copy |-> NoEntry, own |-> NoProfile, step |-> "idle", lost |-> FALSE]

WithKey(key) == {i \in DOMAIN memEntries : memEntries[i].key = key}
NextId == IF DOMAIN memEntries = {} THEN 1 ELSE Max(DOMAIN memEntries) + 1

MemInit == /\ memEntries = [i \in {} |-> NoEntry]
           /\ profile = NoProfile
           /\ calls = [r \in MemRequests |-> Fresh]
           /\ latest = Blank

MemAt(r, op, step) == calls[r].op = op /\ calls[r].step = step
MemMoves(r, step) == calls' = [calls EXCEPT ![r].step = step]
\* r goes on, and the requests under way have lost an entry.
Unsettles(r, step) ==
  calls' = [q \in MemRequests |->
              IF q = r THEN [calls[q] EXCEPT !.step = step]
              ELSE [calls[q] EXCEPT !.lost = calls[q].step # "idle"]]
MemBegins(r, call) == calls[r].step = "idle" /\ calls' = [calls EXCEPT ![r] = call]

-----------------------------------------------------------------------------
(* save_long_term_memory: look the key up, then write the row or insert one. *)

SaveFinds(r) ==
  \E key \in EntryKeys, text \in Texts :
    LET known == WithKey(key)
    IN  /\ \/ /\ known = {}
              /\ MemBegins(r, [Fresh EXCEPT !.op = "save", !.key = key, !.text = text,
                                         !.step = "insert"])
           \/ \E i \in known :
                MemBegins(r, [Fresh EXCEPT !.op = "save", !.key = key, !.text = text, !.id = i,
                                        !.copy = memEntries[i], !.step = "write"])
        /\ UNCHANGED <<memEntries, profile, latest>>

\* The columns that differ from the copy are written into the row of that id.
Writes(r, changed) ==
  /\ memEntries' = [memEntries EXCEPT ![calls[r].id] =
                   [key |-> IF changed.key = calls[r].copy.key THEN @.key ELSE changed.key,
                    text |-> IF changed.text = calls[r].copy.text THEN @.text ELSE changed.text]]
  /\ UNCHANGED <<profile, latest>>

SaveWrites(r) ==
  /\ MemAt(r, "save", "write")
  /\ \/ /\ calls[r].id \in DOMAIN memEntries
        /\ Writes(r, [calls[r].copy EXCEPT !.text = calls[r].text])
        /\ MemMoves(r, "refresh")
     \/ /\ calls[r].id \notin DOMAIN memEntries
        /\ MemMoves(r, "failed")
        /\ UNCHANGED <<memEntries, profile, latest>>

(* Mutant: the unique key is not caught. *)
SaveInsertsOnce(r) ==
  /\ MemAt(r, "save", "insert")
  /\ \/ /\ WithKey(calls[r].key) = {}
        /\ memEntries' = [i \in DOMAIN memEntries \cup {NextId} |->
                         IF i \in DOMAIN memEntries THEN memEntries[i]
                         ELSE [key |-> calls[r].key, text |-> calls[r].text]]
        /\ calls' = [calls EXCEPT ![r].id = NextId, ![r].step = "refresh"]
     \/ /\ WithKey(calls[r].key) # {}
        /\ MemMoves(r, "failed")
        /\ UNCHANGED memEntries
  /\ UNCHANGED <<profile, latest>>

\* A key that was stored meanwhile: the row is read again and written.
SaveInserts(r) ==
  /\ MemAt(r, "save", "insert")
  /\ \/ /\ WithKey(calls[r].key) = {}
        /\ memEntries' = [i \in DOMAIN memEntries \cup {NextId} |->
                         IF i \in DOMAIN memEntries THEN memEntries[i]
                         ELSE [key |-> calls[r].key, text |-> calls[r].text]]
        /\ calls' = [calls EXCEPT ![r].id = NextId, ![r].step = "refresh"]
     \/ /\ WithKey(calls[r].key) # {}
        /\ MemMoves(r, "again")
        /\ UNCHANGED memEntries
  /\ UNCHANGED <<profile, latest>>

SaveFindsAgain(r) ==
  /\ MemAt(r, "save", "again")
  /\ \/ /\ WithKey(calls[r].key) = {}
        /\ MemMoves(r, "failed")
     \/ \E i \in WithKey(calls[r].key) :
          calls' = [calls EXCEPT ![r].id = i, ![r].copy = memEntries[i], ![r].step = "write"]
  /\ UNCHANGED <<memEntries, profile, latest>>

-----------------------------------------------------------------------------
(* The memory page: an edit of key, text or both, and a deletion.  An entry *)
(* that is not there is answered 404.                                       *)

EditFinds(r) ==
  \E i \in DOMAIN memEntries, key \in EntryKeys \cup {NoText}, text \in Texts \cup {NoText} :
    /\ key # NoText \/ text # NoText
    /\ MemBegins(r, [Fresh EXCEPT !.op = "edit", !.key = key, !.text = text, !.id = i,
                    !.copy = memEntries[i],
                    !.step = IF key \in {NoText, memEntries[i].key} THEN "write" ELSE "taken"])
    /\ UNCHANGED <<memEntries, profile, latest>>

\* _long_term_key_taken, before the row is changed.
EditChecks(r) ==
  /\ MemAt(r, "edit", "taken")
  /\ MemMoves(r, IF WithKey(calls[r].key) \ {calls[r].id} = {} THEN "write" ELSE "conflict")
  /\ UNCHANGED <<memEntries, profile, latest>>

\* The commit meets a key taken meanwhile (409), or a row deleted meanwhile.
EditWrites(r) ==
  LET new == [key |-> IF calls[r].key = NoText THEN calls[r].copy.key ELSE calls[r].key,
              text |-> IF calls[r].text = NoText THEN calls[r].copy.text ELSE calls[r].text]
      clash == new.key # calls[r].copy.key /\ WithKey(new.key) \ {calls[r].id} # {}
  IN  /\ MemAt(r, "edit", "write")
      /\ \/ /\ calls[r].id \in DOMAIN memEntries /\ ~clash
            /\ Writes(r, new)
            /\ IF new.key = calls[r].copy.key THEN MemMoves(r, "refresh") ELSE Unsettles(r, "refresh")
         \/ /\ calls[r].id \in DOMAIN memEntries /\ clash
            /\ MemMoves(r, "conflict")
            /\ UNCHANGED <<memEntries, profile, latest>>
         \/ /\ calls[r].id \notin DOMAIN memEntries
            /\ MemMoves(r, "failed")
            /\ UNCHANGED <<memEntries, profile, latest>>

\* What was committed is read back; it may have been deleted since.
Refreshes(r) ==
  /\ calls[r].op \in {"save", "edit"} /\ calls[r].step = "refresh"
  /\ MemMoves(r, IF calls[r].id \in DOMAIN memEntries THEN "done" ELSE "failed")
  /\ UNCHANGED <<memEntries, profile, latest>>

DeleteFinds(r) ==
  /\ \E i \in DOMAIN memEntries :
       MemBegins(r, [Fresh EXCEPT !.op = "delete", !.id = i, !.step = "write"])
  /\ UNCHANGED <<memEntries, profile, latest>>

MemDeletes(r) ==
  /\ MemAt(r, "delete", "write")
  /\ memEntries' = [i \in DOMAIN memEntries \ {calls[r].id} |-> memEntries[i]]
  /\ Unsettles(r, "done")
  /\ UNCHANGED <<profile, latest>>

-----------------------------------------------------------------------------
(* The profile *)

\* get_profile; a GET is an update of no field.
ProfileFinds(r) ==
  /\ \E field \in Fields \cup {NoText}, text \in Texts :
       MemBegins(r, [Fresh EXCEPT !.op = "profile", !.field = field, !.own = profile,
                    !.text = text, !.step = IF profile = NoProfile THEN "create" ELSE "write"])
  /\ UNCHANGED <<memEntries, profile, latest>>

\* The row is unique per user: a second creation fails the request.
ProfileCreates(r) ==
  /\ MemAt(r, "profile", "create")
  /\ \/ /\ profile = NoProfile
        /\ profile' = Blank
        /\ calls' = [calls EXCEPT ![r].own = Blank, ![r].step = "write"]
     \/ /\ profile # NoProfile
        /\ MemMoves(r, "failed")
        /\ UNCHANGED profile
  /\ UNCHANGED <<memEntries, latest>>

ProfileWrites(r) ==
  LET f == calls[r].field
      written == f # NoText /\ calls[r].own[f] # calls[r].text
  IN  /\ MemAt(r, "profile", "write")
      /\ profile' = IF written THEN [profile EXCEPT ![f] = calls[r].text] ELSE profile
      /\ latest' = IF written THEN [latest EXCEPT ![f] = calls[r].text] ELSE latest
      /\ MemMoves(r, "done")
      /\ UNCHANGED memEntries

MemNext == \E r \in MemRequests :
  \/ SaveFinds(r) \/ SaveWrites(r) \/ SaveInserts(r) \/ SaveFindsAgain(r)
  \/ EditFinds(r) \/ EditChecks(r) \/ EditWrites(r) \/ Refreshes(r)
  \/ DeleteFinds(r) \/ MemDeletes(r)
  \/ ProfileFinds(r) \/ ProfileCreates(r) \/ ProfileWrites(r)

UserMemorySpec == MemInit /\ [][MemNext]_memVars

-----------------------------------------------------------------------------
(* Properties *)

\* A request about an entry fails only when an entry was deleted or renamed under it: a key
\* that is taken meanwhile turns a save into an update and an edit into a conflict.
FailsOnlyOverLoss ==
  \A r \in MemRequests :
    calls[r].op \in {"save", "edit"} /\ calls[r].step = "failed" => calls[r].lost

\* However edits and saves overlap, no two entries of the user share a key.
OneEntryPerKey == \A i, j \in DOMAIN memEntries : memEntries[i].key = memEntries[j].key => i = j

\* A partial update never takes back what another one stored in a field it does not name.
ProfileKeepsAll == profile # NoProfile => profile = latest

UserMemorySound == FailsOnlyOverLoss /\ OneEntryPerKey /\ ProfileKeepsAll
=============================================================================
