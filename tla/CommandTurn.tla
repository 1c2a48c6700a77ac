----------------------------- MODULE CommandTurn -----------------------------
(***************************************************************************)
(* The turns of /help and /support (agent/command_turn.py and the modules  *)
(* over it): service notices, the servers and groups the user chose, the   *)
(* lookup of a ticket, the fragments of the documentation base, the replay *)
(* of earlier /support pairs, and what is stored with the answer.          *)
(*                                                                         *)
(* The chat's lock admits one turn at a time; settings, servers and the    *)
(* base change between any two of its steps.  A server carries the number  *)
(* of the creation it comes from: its id is reused (SQLite gives max + 1). *)
(***************************************************************************)
EXTENDS Naturals, Sequences, FiniteSets, SequencesExt



CONSTANTS
  MaxTurns,      \* bound: messages sent
  MaxChanges,    \* bound: changes of settings, servers and the base
  ServerNames,   \* names a server may have
  HistoryPairs   \* SUPPORT_HISTORY_PAIRS

Commands == {"help", "support"}
DefaultServer == [help |-> "local-git", support |-> "support"]

ASSUME CommandAssumption == MaxTurns \in Nat /\ MaxChanges \in Nat /\ HistoryPairs \in Nat \ {0}

VARIABLES
  marked,    \* HelpConfig.kb_id is set
  docBase,   \* status of that base, "none" when it does not exist
  servers,   \* McpServerConfig rows: id -> name, enabled, creation
  choices,   \* mcp_servers_json of a command: NoChoice or a set of entries
  branch,    \* messages of the open branch
  turn,      \* the turn under way
  turns, changes

commandVars == <<marked, docBase, servers, choices, branch, turn, turns, changes>>
settings == <<marked, docBase, servers, choices>>

NoChoice == {[id |-> 0, name |-> "default", made |-> 0]}
Entry(id) == [id |-> id, name |-> servers[id].name, made |-> servers[id].made]
Entries == [id : Nat, name : ServerNames, made : Nat]

NoTurn ==
  [at |-> "none", cmd |-> "plain", asked |-> FALSE, ticket |-> FALSE, replay |-> {}, lookup |-> "none",
   shown |-> 0, chosen |-> {}, missing |-> {}, tools |-> {}, warned |-> {}, fragments |-> FALSE,
   failed |-> FALSE, quotes |-> "none"]
At(stage) == turn.at = stage
Goes(stage) == [turn EXCEPT !.at = stage]
Question == [role |-> "user", turn |-> [NoTurn EXCEPT !.cmd = turn.cmd, !.ticket = turn.ticket]]
Answer(t) == [role |-> "assistant", turn |-> [t EXCEPT !.at = "done"]]

CommandTypeOK ==
  /\ marked \in BOOLEAN /\ docBase \in {"none", "indexing", "ready"}
  /\ \A i \in DOMAIN servers : Entry(i) \in Entries /\ servers[i].enabled \in BOOLEAN
  /\ \A c \in Commands : choices[c] = NoChoice \/ choices[c] \subseteq Entries
  /\ \A k \in DOMAIN branch : branch[k].role \in {"user", "assistant"} /\ DOMAIN branch[k].turn = DOMAIN NoTurn
  /\ DOMAIN turn = DOMAIN NoTurn
  /\ turns \in 0..MaxTurns /\ changes \in 0..MaxChanges

CommandInit ==
  /\ marked = TRUE /\ docBase = "ready"
  /\ servers \in {<<>>} \cup {<<[name |-> n, enabled |-> TRUE, made |-> 1]>> : n \in ServerNames}
  /\ choices = [c \in Commands |-> NoChoice]
  /\ branch = <<>> /\ turn = NoTurn /\ turns = 0 /\ changes = 0

(***************************************************************************)
(* Settings, servers and the base.                                         *)
(***************************************************************************)
Change == changes < MaxChanges /\ changes' = changes + 1 /\ UNCHANGED <<branch, turn, turns>>

(* Deleting the base clears the mark (ON DELETE SET NULL); a mark needs a  *)
(* base that is ready, which may be rebuilt later.                         *)
BaseChanges ==
  /\ Change /\ docBase' \in {"none", "indexing", "ready"} \ {docBase}
  /\ marked' = (marked /\ docBase' # "none")
  /\ UNCHANGED <<servers, choices>>

PutMark ==
  /\ Change /\ marked' = ~marked /\ (marked' => docBase = "ready")
  /\ UNCHANGED <<docBase, servers, choices>>

(* put_help_config, put_support_config: null returns to the default.       *)
PutServers(c) ==
  /\ Change
  /\ \E chosen \in {NoChoice} \cup {{Entry(i) : i \in ids} : ids \in SUBSET DOMAIN servers} :
       choices' = [choices EXCEPT ![c] = chosen]
  /\ UNCHANGED <<marked, docBase, servers>>

CreateServer(name) ==
  /\ Change
  /\ LET id == IF DOMAIN servers = {} THEN 1 ELSE Max(DOMAIN servers) + 1 IN
       servers' = [i \in DOMAIN servers \cup {id} |->
                     IF i = id THEN [name |-> name, enabled |-> TRUE, made |-> changes + 2] ELSE servers[i]]
  /\ UNCHANGED <<marked, docBase, choices>>

DeleteServer(id) ==
  /\ Change /\ servers' = [i \in DOMAIN servers \ {id} |-> servers[i]]
  /\ UNCHANGED <<marked, docBase, choices>>

EnableServer(id) ==
  /\ Change /\ servers' = [servers EXCEPT ![id].enabled = ~@]
  /\ UNCHANGED <<marked, docBase, choices>>

(***************************************************************************)
(* The start of a turn.                                                    *)
(***************************************************************************)
Step(next) == turn' = next /\ UNCHANGED <<settings, branch, turns, changes>>

Sends(cmd, asked, ticket, at) ==
  /\ turn = NoTurn /\ turns < MaxTurns /\ turns' = turns + 1
  /\ ticket => cmd = "support"
  /\ turn' = [NoTurn EXCEPT !.at = at, !.cmd = cmd, !.asked = asked, !.ticket = ticket]
  /\ UNCHANGED <<settings, branch, changes>>

(* An ordinary turn of the same chat leaves its two messages.              *)
PlainTurn ==
  /\ turn = NoTurn /\ turns < MaxTurns /\ turns' = turns + 1
  /\ branch' = branch \o <<[role |-> "user", turn |-> NoTurn], [role |-> "assistant", turn |-> NoTurn]>>
  /\ UNCHANGED <<settings, turn, changes>>

(* load_help_kb                                                            *)
BaseUsable == marked /\ docBase = "ready"
(* resolve_command_notice                                                  *)
Noticed == ~turn.asked \/ ~BaseUsable

(* Over the socket the notice is decided before the rate limit, and again  *)
(* under the chat's lock; over HTTP only under the lock.                   *)
SocketChecks == At("socket") /\ \E next \in {NoTurn} \cup (IF Noticed THEN {} ELSE {Goes("locked")}) : Step(next)
(* Without a usable provider the turn ends here.                           *)
LockChecks == At("locked") /\ \E next \in {NoTurn} \cup (IF Noticed THEN {} ELSE {Goes("loading")}) : Step(next)
LoadsBase == At("loading") /\ Step(IF BaseUsable THEN Goes("storing") ELSE NoTurn)

(***************************************************************************)
(* load_support_history: answered /support questions of the branch.        *)
(***************************************************************************)
SupportPairs(b) ==
  {k \in 2..Len(b) : /\ b[k].role = "assistant" /\ b[k - 1].role = "user"
                     /\ b[k].turn.cmd = "support" /\ b[k - 1].turn.cmd = "support"}

(* Only so many, and fewer when they are too long together: the oldest go. *)
LastPairs(pairs) == {k \in pairs : Cardinality({j \in pairs : j > k}) < HistoryPairs}
Trimmed(pairs) == {pairs} \cup {{j \in pairs : j > k} : k \in pairs}

StoresQuestion ==
  /\ At("storing") /\ branch' = Append(branch, Question)
  /\ \E replay \in IF turn.cmd = "support" THEN Trimmed(LastPairs(SupportPairs(branch))) ELSE {{}} :
       turn' = [Goes("lookup") EXCEPT !.replay = replay]
  /\ UNCHANGED <<settings, turns, changes>>

(***************************************************************************)
(* direct_lookup: by the code, on the first enabled server named support.  *)
(***************************************************************************)
SupportServers == {i \in DOMAIN servers : servers[i].name = "support" /\ servers[i].enabled}

LooksUp ==
  /\ At("lookup")
  /\ \E outcome \in IF ~turn.ticket THEN {"none"}
                    ELSE {"unavailable"} \cup (IF SupportServers = {} THEN {} ELSE {"ok", "absent"}) :
       Step([Goes("choosing") EXCEPT !.lookup = outcome])

(***************************************************************************)
(* select_tools: whole servers, those of them that have a session, and a   *)
(* warning for each of the others.                                         *)
(***************************************************************************)
DefaultChoice(c) == {Entry(i) : i \in {i \in DOMAIN servers : servers[i].name = DefaultServer[c]}}

(* A stored entry is found again by its id, and named as the row is now.   *)
Chooses ==
  /\ At("choosing")
  /\ LET c == turn.cmd
         chosen == IF choices[c] = NoChoice THEN DefaultChoice(c)
                   ELSE {[e EXCEPT !.name = servers[e.id].name] : e \in {e \in choices[c] : e.id \in DOMAIN servers}}
         missing == IF choices[c] # NoChoice THEN {e.name : e \in {e \in choices[c] : e.id \notin DOMAIN servers}}
                    ELSE IF chosen = {} THEN {DefaultServer[c]} ELSE {}
     IN Step([Goes("connecting") EXCEPT !.chosen = chosen, !.missing = missing])

Names(entries) == {e.name : e \in entries}
Unavailable(live) == turn.missing \cup Names({e \in turn.chosen : e.id \notin live})

(* The builder reads the rows again; any enabled server may fail to answer *)
(* and a failure of the builder leaves no tools at all.                    *)
Connects ==
  /\ At("connecting")
  /\ \E live \in SUBSET {i \in DOMAIN servers : servers[i].enabled /\ \E e \in turn.chosen : e.id = i} :
       Step([Goes("search") EXCEPT !.tools = {Entry(i) : i \in live}, !.warned = Unavailable(live)])

(***************************************************************************)
(* prepare_command_turn: data of a found ticket go into the question       *)
(* whatever the retrieval comes to.                                        *)
(***************************************************************************)
Merged == IF turn.lookup = "ok" THEN turn.shown + 1 ELSE turn.shown

SearchFinds ==
  /\ At("search") /\ docBase = "ready"
  /\ \E found \in BOOLEAN : Step([Goes("answering") EXCEPT !.fragments = found, !.shown = Merged])

(* Mutant of SearchFails: the data are lost with the fragments.            *)
SearchLosesData == At("search") /\ Step([Goes("answering") EXCEPT !.failed = TRUE])
(* No search, or no room for a fragment.                                   *)
SearchFails == At("search") /\ Step([Goes("answering") EXCEPT !.failed = TRUE, !.shown = Merged])

(* After an error of the database the session is rolled back, which makes  *)
(* every loaded row unreadable outside of a query: the payload of the      *)
(* failed turn reads the base's row, and the turn ends with that error.    *)
SearchBreaks == At("search") /\ Step(NoTurn)

(***************************************************************************)
(* _run_turn_middle, finalize_command_turn.                                *)
(***************************************************************************)
Finalized(quotes, results) == IF results /\ quotes = "picked" THEN "none" ELSE quotes

(* A turn that fails before any result takes its question back.            *)
ModelFails ==
  /\ At("answering") /\ turn' = NoTurn
  /\ branch' = SubSeq(branch, 1, Len(branch) - 1)
  /\ UNCHANGED <<settings, turns, changes>>

(* Tools succeeded, or the ticket was found: then quotes the model did not *)
(* write are dropped.                                                      *)
ModelAnswers ==
  /\ At("answering")
  /\ \E quotes \in IF turn.fragments THEN {"none", "picked", "written"} ELSE {"none"},
        called \in IF turn.tools = {} THEN {FALSE} ELSE BOOLEAN :
       branch' = Append(branch, Answer([turn EXCEPT !.quotes = Finalized(quotes, called \/ turn.lookup = "ok")]))
  /\ turn' = NoTurn
  /\ UNCHANGED <<settings, turns, changes>>

CommandNext ==
  \/ \E cmd \in Commands, asked \in BOOLEAN, ticket \in BOOLEAN, at \in {"socket", "locked"} : Sends(cmd, asked, ticket, at)
  \/ PlainTurn \/ SocketChecks \/ LockChecks \/ LoadsBase \/ StoresQuestion \/ LooksUp \/ Chooses \/ Connects
  \/ SearchFinds \/ SearchFails \/ SearchBreaks \/ ModelFails \/ ModelAnswers
  \/ BaseChanges \/ PutMark
  \/ \E c \in Commands : PutServers(c)
  \/ \E n \in ServerNames : CreateServer(n)
  \/ \E i \in DOMAIN servers : DeleteServer(i) \/ EnableServer(i)

CommandSpec == CommandInit /\ [][CommandNext]_commandVars

(***************************************************************************)
(* Properties.                                                             *)
(***************************************************************************)
Answers == {k \in DOMAIN branch : branch[k].role = "assistant" /\ branch[k].turn.cmd \in Commands}
AnswerOf(k) == branch[k].turn

(* Every server that was chosen, or the one that has its id by then, gave  *)
(* its tools to the turn, or it is named in a warning of the answer; and   *)
(* no tool comes from a server whose id was not chosen, whatever happens   *)
(* to the rows meanwhile.                                                  *)
Accounted(t) ==
  /\ \A e \in t.chosen : e.name \in t.warned \/ \E s \in t.tools : s.id = e.id
  /\ t.missing \subseteq t.warned
  /\ \A s \in t.tools : \E e \in t.chosen : e.id = s.id
ServersAccounted == \A k \in Answers : Accounted(AnswerOf(k))

(* Data of a ticket that was found reach the model exactly once, with or   *)
(* without fragments, and never when the lookup failed.                    *)
TicketReachesModel == \A k \in Answers : AnswerOf(k).shown = IF AnswerOf(k).lookup = "ok" THEN 1 ELSE 0

(* The replay of a /support turn holds whole answered /support exchanges   *)
(* of its branch, and no newer one is left out for an older one.           *)
ReplayIsRecent ==
  \A k \in Answers : LET earlier == SupportPairs(SubSeq(branch, 1, k - 2)) IN
    /\ AnswerOf(k).replay \subseteq earlier /\ Cardinality(AnswerOf(k).replay) <= HistoryPairs
    /\ \A j \in AnswerOf(k).replay : {i \in earlier : i > j} \subseteq AnswerOf(k).replay

(* Quotes that the model did not write stand only under an answer that     *)
(* came from the fragments alone.                                          *)
QuotesEarned ==
  \A k \in Answers : AnswerOf(k).quotes = "picked" => AnswerOf(k).fragments /\ AnswerOf(k).lookup # "ok"

(* A question is always directly before its answer.                        *)
AnsweredInPlace == \A k \in Answers : k > 1 /\ branch[k - 1].role = "user" /\ branch[k - 1].turn.cmd = AnswerOf(k).cmd

CommandSound == ServersAccounted /\ TicketReachesModel /\ ReplayIsRecent /\ QuotesEarned /\ AnsweredInPlace
=============================================================================
