------------------------------ MODULE UserRules ------------------------------
(***************************************************************************)
(* The ground rules of the assistant: global ones, shared by every account,*)
(* and rules of a chat, each of which may override a global one.  They are *)
(* edited while a turn resolves them, lets the model judge its own answer  *)
(* against them, and records the conflict it cites                         *)
(* (src/agent/invariants.py, the routes of src/agent/main.py, the end of a *)
(* turn in src/agent/ws.py).                                               *)
(*                                                                         *)
(* The statements of a request are steps of their own.  The id of a new row*)
(* is one above the largest in use, so an id that was freed comes back;    *)
(* deleting a global rule clears the links to it.                          *)
(***************************************************************************)
EXTENDS Naturals, FiniteSets, FiniteSetsExt

CONSTANTS RuleRequests, MaxRules   \* at most MaxRules rules of a kind at once

VARIABLES globals,   \* the ids of the global rules
          rules,     \* the rules of the chat: id -> the id it overrides, or 0
          ruleEdits,     \* the requests
          judge      \* the turn that judges its answer

ruleVars == <<globals, rules, ruleEdits, judge>>

RuleNewId(ids) == IF ids = {} THEN 1 ELSE Max(ids) + 1
Uncited == [scope |-> "none", id |-> 0]
NoRules == [i \in {} |-> 0]
RulesWithout(f, id) == [i \in DOMAIN f \ {id} |-> f[i]]
Extended(f, id, value) == [i \in DOMAIN f \cup {id} |-> IF i = id THEN value ELSE f[i]]

RulesInit ==
  /\ globals = {} /\ rules = NoRules
  /\ ruleEdits = [r \in RuleRequests |-> [op |-> "none", id |-> 0, link |-> 0, was |-> 0, step |-> "idle"]]
  /\ judge = [step |-> "idle", globals |-> {}, rules |-> NoRules, cites |-> Uncited,
              conflict |-> <<>>]

-----------------------------------------------------------------------------
(* Edits *)

EditBegins(r, op, id, link, was) ==
  /\ ruleEdits[r].step = "idle"
  /\ ruleEdits' = [ruleEdits EXCEPT ![r] =
                 [op |-> op, id |-> id, link |-> link, was |-> was, step |-> "loaded"]]
  /\ UNCHANGED <<globals, rules, judge>>

EditEnds(r, op, step) == /\ ruleEdits[r].op = op /\ ruleEdits[r].step = "loaded"
                         /\ ruleEdits' = [ruleEdits EXCEPT ![r].step = step]
                         /\ UNCHANGED judge

CreatesGlobal(r) == /\ ruleEdits[r].step = "idle"
                    /\ Cardinality(globals) < MaxRules
                    /\ globals' = globals \cup {RuleNewId(globals)}
                    /\ ruleEdits' = [ruleEdits EXCEPT ![r].step = "done"]
                    /\ UNCHANGED <<rules, judge>>

\* The row is loaded, then deleted; its links are cleared with it, and a row that is gone
\* by then is no error.
LoadsGlobal(r) == \E id \in globals : EditBegins(r, "delete_global", id, 0, 0)
DeletesGlobal(r) ==
  /\ EditEnds(r, "delete_global", "done")
  /\ globals' = globals \ {ruleEdits[r].id}
  /\ rules' = [i \in DOMAIN rules |->
                 IF rules[i] = ruleEdits[r].id THEN 0 ELSE rules[i]]

\* The rule it overrides is looked up before the insert; the foreign key is checked by it.
ChecksLink(r) == \E link \in globals \cup {0} : EditBegins(r, "create_rule", 0, link, 0)
CreatesRule(r) ==
  LET link == ruleEdits[r].link
  IN  /\ Cardinality(DOMAIN rules) < MaxRules
      /\ \/ /\ link \in globals \cup {0}
            /\ EditEnds(r, "create_rule", "done")
            /\ rules' = Extended(rules, RuleNewId(DOMAIN rules), link)
         \/ /\ link \notin globals \cup {0}
            /\ EditEnds(r, "create_rule", "failed")
            /\ UNCHANGED rules
      /\ UNCHANGED globals

LoadsRule(r) == \E id \in DOMAIN rules, link \in globals \cup {0} :
                  EditBegins(r, "update_rule", id, link, rules[id])
\* A link that is the one of the copy is not written, nor checked again.
UpdatesRule(r) ==
  LET written == ruleEdits[r].link # ruleEdits[r].was
      ok == ruleEdits[r].id \in DOMAIN rules /\ (written => ruleEdits[r].link \in globals \cup {0})
  IN  /\ EditEnds(r, "update_rule", IF ok THEN "done" ELSE "failed")
      /\ rules' = IF ok /\ written THEN Extended(rules, ruleEdits[r].id, ruleEdits[r].link) ELSE rules
      /\ UNCHANGED globals

FindsRule(r) == \E id \in DOMAIN rules : EditBegins(r, "delete_rule", id, 0, 0)
DeletesRule(r) == /\ EditEnds(r, "delete_rule", "done")
                  /\ rules' = RulesWithout(rules, ruleEdits[r].id)
                  /\ UNCHANGED globals

-----------------------------------------------------------------------------
(* resolve_active_invariants.  The oldest rule that overrides a global one  *)
(* takes its place (ids stand for age); the others stand by themselves.     *)

Overriders(links, g) == {i \in DOMAIN links : links[i] = g}
Chosen(links) == {Min(Overriders(links, g)) : g \in {links[i] : i \in DOMAIN links} \ {0}}
Item(scope, id, by) == [scope |-> scope, id |-> id, by |-> by]
Active(gs, links) ==
  {Item("global", g, IF Overriders(links, g) = {} THEN 0 ELSE Min(Overriders(links, g))) : g \in gs}
    \cup {Item("chat", i, 0) : i \in DOMAIN links \ Chosen(links)}

\* Both tables are read one after the other.
ReadsGlobals == /\ judge.step = "idle"
                /\ judge' = [judge EXCEPT !.step = "rules", !.globals = globals]
                /\ UNCHANGED <<globals, rules, ruleEdits>>

\* Nothing is asked when no rule is active.
ReadsRules == /\ judge.step = "rules"
              /\ judge' = [judge EXCEPT !.rules = rules,
                             !.step = IF Active(judge.globals, rules) = {} THEN "done" ELSE "asked"]
              /\ UNCHANGED <<globals, rules, ruleEdits>>

-----------------------------------------------------------------------------
(* The critique.  The model cites a rule by scope and id, one that was shown *)
(* to it or not; a failed call is an answer without a conflict.              *)

Cited == [scope : {"global", "chat"}, id : 1 .. MaxRules + 1]

\* match_flagged_invariant: the cited entry of the resolved set.
Matching(cited) == {item \in Active(judge.globals, judge.rules) :
                      item.scope = cited.scope /\ item.id = cited.id}

Judged == /\ judge.step = "asked"
          /\ \/ judge' = [judge EXCEPT !.step = "done"]
             \/ \E cited \in Cited :
                  judge' = [judge EXCEPT !.cites = cited,
                              !.step = IF Matching(cited) = {} THEN "done" ELSE "justify"]
          /\ UNCHANGED <<globals, rules, ruleEdits>>

\* The answer is justified or retracted, persisted, and the conflict recorded with it.
RecordsConflict ==
  /\ judge.step = "justify"
  /\ \E item \in Matching(judge.cites) :
       judge' = [judge EXCEPT !.step = "done", !.conflict = <<item.scope, item.id>>]
  /\ UNCHANGED <<globals, rules, ruleEdits>>

RulesNext ==
  \/ \E r \in RuleRequests :
       \/ CreatesGlobal(r) \/ LoadsGlobal(r) \/ DeletesGlobal(r)
       \/ ChecksLink(r) \/ CreatesRule(r) \/ LoadsRule(r) \/ UpdatesRule(r)
       \/ FindsRule(r) \/ DeletesRule(r)
  \/ ReadsGlobals \/ ReadsRules \/ Judged \/ RecordsConflict

RulesSpec == RulesInit /\ [][RulesNext]_ruleVars

-----------------------------------------------------------------------------
(* Properties *)

\* A link always names a global rule that exists, whatever was deleted meanwhile.
LinksLead == \A i \in DOMAIN rules : rules[i] \in globals \cup {0}

\* What the prompt of a turn lists: the entries of the resolved set and, below an overridden
\* one, the rule that takes its place.
Shown == {<<i.scope, i.id>> : i \in Active(judge.globals, judge.rules)}
           \cup {<<"chat", i.by>> : i \in {a \in Active(judge.globals, judge.rules) : a.by # 0}}

\* A conflict is recorded only against a rule that was shown to the model: a made-up number
\* never reaches the database, even when a rule of the other scope has it.
ConflictWasShown == judge.conflict = <<>> \/ judge.conflict \in Shown

\* Every rule of the chat is shown, once, by itself or in the place of the one it overrides,
\* unless that one was created after the global rules were read.
EveryRuleShown ==
  judge.step \in {"asked", "justify"} =>
    \A i \in DOMAIN judge.rules :
      judge.rules[i] \in judge.globals \cup {0} =>
        Cardinality({a \in Active(judge.globals, judge.rules) :
                       (a.scope = "chat" /\ a.id = i) \/ a.by = i}) = 1

RulesSound == LinksLead /\ ConflictWasShown /\ EveryRuleShown
=============================================================================
