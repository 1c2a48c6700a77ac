---------------------------- MODULE SupportDesk -----------------------------
(***************************************************************************)
(* mcp_servers/support_desk.py: the tools answer from a JSON file that     *)
(* support staff edit while the server runs.  The parsed file is kept and  *)
(* read again when its time or size changes (load_db).  A tool runs on the *)
(* loop without an await, so calls follow one another; the file may change *)
(* between any two of its system calls.                                    *)
(***************************************************************************)
EXTENDS Naturals, Sequences, FiniteSets

CONSTANTS
  Tables,       \* the ticket tables the file may hold
  Users,        \* clients
  TicketIds,
  Statuses,     \* of a ticket
  OpenStatuses,
  MaxHits,      \* MAX_SEARCH_HITS
  MaxEdits,     \* bound: edits of the file
  MaxCalls      \* bound: tool calls

ASSUME DeskAssumption ==
  /\ MaxHits \in Nat \ {0} /\ OpenStatuses \subseteq Statuses
  /\ \A table \in Tables : IsFiniteSet(table) /\ \A t \in table : t.updated \in Nat

(* A save gives the file a time and size it has not had.  What is broken   *)
(* (too large, not JSON, refused by validate_data) has no tickets to show. *)
DeskTexts(key) == {[key |-> key, state |-> "valid", tickets |-> table] : table \in Tables}
              \cup [key : {key}, state : {"broken", "missing"}, tickets : {{}}]

VARIABLES
  deskFile,     \* the text on disk
  deskEdits,
  deskCache,    \* the text that was parsed last, under the key of load_db
  deskCall,     \* the call that runs
  deskCalls,
  deskAnswer    \* the last answer

deskVars == <<deskFile, deskEdits, deskCache, deskCall, deskCalls, deskAnswer>>

NoCall == [pc |-> "none", tool |-> "none", status |-> "any", at |-> {}, seen |-> {}]
NoList == [kind |-> "none", from |-> 0, seen |-> {}, status |-> "any", matches |-> {}, shown |-> <<>>, open |-> 0]

(* main: the file is there and valid when the server starts.               *)
DeskInit ==
  /\ deskFile \in {c \in DeskTexts(1) : c.state = "valid"}
  /\ deskEdits = 0 /\ deskCalls = 0
  /\ deskCache = [key |-> 0, text |-> deskFile]
  /\ deskCall = NoCall /\ deskAnswer = NoList

(* _newest_first: by the time of the last update; those of one time in an  *)
(* order that nothing rests on.                                            *)
NewestFirst(tickets) ==
  CHOOSE order \in [1..Cardinality(tickets) -> tickets] :
    /\ \A t \in tickets : \E i \in DOMAIN order : order[i] = t
    /\ \A i, j \in DOMAIN order : i < j => order[i].updated >= order[j].updated
FirstOf(tickets, n) == SubSeq(NewestFirst(tickets), 1, IF Cardinality(tickets) < n THEN Cardinality(tickets) ELSE n)

(* search_tickets: the newest of the matches.                              *)
NewestHits(tickets) == FirstOf(tickets, MaxHits)

(* _check_choice: a status no ticket has is an error, not an empty list.   *)
StatusKnown(tickets, status) == status = "any" \/ \E t \in tickets : t.status = status
OfStatus(tickets, status) == {t \in tickets : status = "any" \/ t.status = status}

(* find_user; get_user and list_user_tickets show every ticket of theirs.  *)
OfUser(tickets, user) ==
  LET own == {t \in tickets : t.client = user} IN
  [kind |-> "user", shown |-> NewestFirst(own), open |-> Cardinality({t \in own : t.status \in OpenStatuses})]

(* The answers a tool may give from a text, one for every argument.        *)
ToolAnswers(tool, tickets, status) ==
  CASE tool = "search" ->
         {IF StatusKnown(tickets, status)
          THEN LET matches == {t \in OfStatus(tickets, status) : t.id \in hits} IN
               [kind |-> "search", status |-> status, matches |-> matches, shown |-> NewestHits(matches)]
          ELSE [kind |-> "error"] : hits \in SUBSET TicketIds}
    [] tool = "user" -> {OfUser(tickets, user) : user \in Users}
    [] tool = "ticket" ->      \* get_ticket, normalise_ticket_id
         {IF \E t \in tickets : t.id = i THEN [kind |-> "ticket"] ELSE [kind |-> "error"] : i \in TicketIds}

CallBegins ==
  /\ deskCall = NoCall /\ deskCalls < MaxCalls
  /\ deskCalls' = deskCalls + 1
  /\ \E tool \in {"search", "user", "ticket"}, status \in {"any"} \cup Statuses :
       /\ tool # "search" => status = "any"
       /\ deskCall' = [NoCall EXCEPT !.pc = "stat", !.tool = tool, !.status = status, !.seen = {deskFile.key}]
  /\ UNCHANGED <<deskFile, deskEdits, deskCache, deskAnswer>>

Replies(text, answer) ==
  /\ deskAnswer' = [f \in DOMAIN NoList |->
       IF f = "from" THEN text.key ELSE IF f = "seen" THEN deskCall.seen
       ELSE IF f \in DOMAIN answer THEN answer[f] ELSE NoList[f]]
  /\ deskCall' = NoCall

Fails == Replies([key |-> 0], [kind |-> "error"]) /\ UNCHANGED deskCache
AnswersFrom(text) == \E answer \in ToolAnswers(deskCall.tool, text.tickets, deskCall.status) : Replies(text, answer)

(* load_db: os.stat, and the text that was parsed last if its key is that. *)
StatsFile ==
  /\ deskCall.pc = "stat"
  /\ IF deskFile.state = "missing" THEN Fails
     ELSE IF deskCache.key = deskFile.key THEN AnswersFrom(deskCache.text) /\ UNCHANGED deskCache
     ELSE deskCall' = [deskCall EXCEPT !.pc = "read", !.at = {deskFile}] /\ UNCHANGED <<deskCache, deskAnswer>>
  /\ UNCHANGED <<deskFile, deskEdits, deskCalls>>

(* read_data, validate_data: what is not a valid file leaves the last one  *)
(* in the cache, under its own key.                                        *)
ReadsFile ==
  /\ deskCall.pc = "read"
  /\ IF deskFile.state # "valid" THEN Fails
     ELSE \E text \in deskCall.at : deskCache' = [key |-> text.key, text |-> deskFile] /\ AnswersFrom(deskFile)
  /\ UNCHANGED <<deskFile, deskEdits, deskCalls>>

(* Support staff save, break, remove or restore the file.                  *)
FileChanges ==
  /\ deskEdits < MaxEdits /\ deskEdits' = deskEdits + 1
  /\ deskFile' \in DeskTexts(deskFile.key + 1)
  /\ deskCall' = IF deskCall = NoCall THEN NoCall ELSE [deskCall EXCEPT !.seen = @ \cup {deskFile'.key}]
  /\ UNCHANGED <<deskCache, deskCalls, deskAnswer>>

DeskNext == CallBegins \/ StatsFile \/ ReadsFile \/ FileChanges

DeskSpec == DeskInit /\ [][DeskNext]_deskVars

(***************************************************************************)
(* Properties.                                                             *)
(***************************************************************************)
(* An answer is of a text the file had while the call ran: the cache       *)
(* outlives neither an edit nor a read that an edit overtook.              *)
AnswersAreCurrent ==
  deskAnswer.kind \in {"search", "user", "ticket"} => deskAnswer.from \in deskAnswer.seen

(* A search that finds more than it lists leaves out the oldest.           *)
HitsAreNewest ==
  deskAnswer.kind = "search" =>
    /\ Len(deskAnswer.shown) = IF Cardinality(deskAnswer.matches) < MaxHits THEN Cardinality(deskAnswer.matches) ELSE MaxHits
    /\ \A i \in DOMAIN deskAnswer.shown, t \in deskAnswer.matches :
         t.updated > deskAnswer.shown[i].updated => \E j \in 1..i : deskAnswer.shown[j] = t
=============================================================================
