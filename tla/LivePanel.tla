------------------------------ MODULE LivePanel ------------------------------
(***************************************************************************)
(* A list of the browser tab that is kept current (ui/static/app.js): the  *)
(* scheduled tasks and the knowledge bases.  Answers to GET requests       *)
(* replace the whole list, frames of the events socket replace one item,   *)
(* and the two arrive independently of each other.                         *)
(*                                                                         *)
(* An item is the number of its last change; 0 is not in the list.         *)
(***************************************************************************)
EXTENDS Naturals, Sequences

CONSTANTS
  PanelItems,       \* tasks or bases
  MaxItemChanges,   \* bound: changes of an item
  MaxLoads,         \* bound: requests for the list
  MaxItemActions,   \* bound: what the user does in this tab
  EventsQueue       \* EVENTS_QUEUE_MAXSIZE, of the events hub

ASSUME PanelAssumption == {MaxItemChanges, MaxLoads, MaxItemActions} \subseteq Nat /\ EventsQueue \in Nat \ {0}

VARIABLES
  panelOf,   \* which list: "scheduler" or "kb"
  panelRows,      \* the Agent's rows: item -> change
  panel,     \* state.lastSchedulerTasks or state.lastKbs
  link,      \* the events socket is open and subscribed
  wire,      \* frames on their way to the tab
  polls,     \* state.schedulerPollTimer
  loads,     \* requests for the list without their answer
  actions,   \* requests for one item without their answer
  loadsMade, actionsMade,
  slipped    \* an answer older than what the list showed has been applied, or one was lost

panelVars == <<panelOf, panelRows, panel, link, wire, polls, loads, actions, loadsMade, actionsMade, slipped>>

Gone == MaxItemChanges + 1
NotLoaded == [i \in PanelItems |-> Gone + 1]
Current == [i \in PanelItems |-> IF panelRows[i] = Gone THEN 0 ELSE panelRows[i]]
Asked == NotLoaded   \* the Agent has not read the rows yet
Frame == [item : PanelItems, change : 1..Gone]

PanelTypeOK ==
  /\ panelOf \in {"scheduler", "kb"} /\ {link, polls, slipped} \subseteq BOOLEAN
  /\ panelRows \in [PanelItems -> 0..Gone]
  /\ panel \in [PanelItems -> 0..MaxItemChanges] \cup {NotLoaded}
  /\ wire \in Seq(Frame) /\ Len(wire) <= EventsQueue
  /\ \A l \in loads : l.got \in [PanelItems -> 0..MaxItemChanges] \cup {Asked} /\ l.current \in BOOLEAN
  /\ \A a \in actions : [item |-> a.item, change |-> a.change] \in Frame /\ a.current \in BOOLEAN
  /\ loadsMade <= MaxLoads /\ actionsMade <= MaxItemActions

PanelInit ==
  /\ panelOf \in {"scheduler", "kb"}
  /\ panelRows \in [PanelItems -> {0, 1}] /\ panel = NotLoaded
  /\ link = FALSE /\ wire = <<>> /\ polls = FALSE
  /\ loads = {} /\ actions = {} /\ loadsMade = 0 /\ actionsMade = 0 /\ slipped = FALSE

(***************************************************************************)
(* The Agent: a change is committed and published in one step of its loop; *)
(* a full queue of the hub loses its oldest frame.                         *)
(***************************************************************************)
Overtaken(waiting) == {[w EXCEPT !.current = FALSE] : w \in waiting}
ItemsOf(frames) == {frames[k].item : k \in DOMAIN frames}

Changes(i, change) ==
  /\ panelRows' = [panelRows EXCEPT ![i] = change]
  /\ IF link
       THEN LET full == Len(wire) = EventsQueue
                kept == Append(IF full THEN Tail(wire) ELSE wire, [item |-> i, change |-> change])
                lost == full /\ Head(wire).item \notin ItemsOf(kept)
            IN /\ wire' = kept
               /\ slipped' = (slipped \/ lost)
               /\ loads' = IF lost THEN Overtaken(loads) ELSE loads
       ELSE UNCHANGED <<wire, slipped, loads>>

NextChanges(i) ==
  IF panelRows[i] = Gone THEN {} ELSE {c \in 1..Gone : c = panelRows[i] + 1 \/ (c = Gone /\ panelRows[i] > 0)}

(* The scheduler, an indexing job or another tab.                          *)
AgentChanges(i) ==
  /\ \E c \in NextChanges(i) : Changes(i, c)
  /\ UNCHANGED <<panelOf, panel, link, polls, actions, loadsMade, actionsMade>>

ReadsRows(l) ==
  /\ l.got = Asked
  /\ loads' = (loads \ {l}) \cup {[l EXCEPT !.got = Current]}
  /\ UNCHANGED <<panelOf, panelRows, panel, link, wire, polls, actions, loadsMade, actionsMade, slipped>>

(***************************************************************************)
(* loadSchedulerTasks, loadKbList.                                         *)
(***************************************************************************)
Loads(waiting) ==
  /\ loadsMade < MaxLoads /\ loadsMade' = loadsMade + 1
  /\ loads' = waiting \cup {[id |-> loadsMade, got |-> Asked, current |-> TRUE]}

(* An answer that comes after a newer one, or after a frame that it does   *)
(* not contain, shows the list as it was.                                  *)
PanelListArrives(l) ==
  /\ l.got # Asked /\ panel' = l.got
  /\ loads' = {IF k.id < l.id THEN [k EXCEPT !.current = FALSE] ELSE k : k \in loads \ {l}}
  /\ slipped' = ~l.current /\ actions' = Overtaken(actions)
  /\ UNCHANGED <<panelOf, panelRows, link, wire, polls, loadsMade, actionsMade>>

ListFails(l) ==
  /\ loads' = Overtaken(loads \ {l}) /\ slipped' = TRUE
  /\ UNCHANGED <<panelOf, panelRows, panel, link, wire, polls, actions, loadsMade, actionsMade>>

(***************************************************************************)
(* connectEventsWs: what was published while the socket was down is not    *)
(* repeated, so the lists are asked for again when it opens.               *)
(***************************************************************************)
PanelEventsOpen ==
  /\ ~link /\ link' = TRUE /\ polls' = FALSE /\ wire' = <<>>
  /\ Loads(loads)
  /\ UNCHANGED <<panelOf, panelRows, panel, actions, actionsMade, slipped>>

EventsDrop ==
  /\ link /\ link' = FALSE /\ polls' = TRUE /\ wire' = <<>>
  /\ UNCHANGED <<panelOf, panelRows, panel, loads, actions, loadsMade, actionsMade, slipped>>

(* Only the scheduler's list is polled.                                    *)
Polls ==
  /\ polls /\ panelOf = "scheduler" /\ Loads(loads)
  /\ UNCHANGED <<panelOf, panelRows, panel, link, wire, polls, actions, actionsMade, slipped>>

(***************************************************************************)
(* Frames and the user's own actions.                                      *)
(***************************************************************************)
(* upsertSchedulerTask, upsertKb; removeSchedulerTask, removeKb.           *)
WithItem(i, change) == [panel EXCEPT ![i] = IF change = Gone THEN 0 ELSE change]

(* Before the list has been loaded a frame makes the tab load it; removeKb *)
(* has nothing to remove.                                                  *)
FrameArrives ==
  /\ wire # <<>> /\ wire' = Tail(wire)
  /\ LET frame == Head(wire) IN
       IF panel = NotLoaded
         THEN /\ IF panelOf = "kb" /\ frame.change = Gone
                   THEN loads' = Overtaken(loads) /\ UNCHANGED loadsMade
                   ELSE Loads(Overtaken(loads))
              /\ UNCHANGED <<panel, actions>>
         ELSE /\ panel' = WithItem(frame.item, frame.change)
              /\ loads' = Overtaken(loads) /\ actions' = Overtaken(actions)
              /\ UNCHANGED loadsMade
  /\ UNCHANGED <<panelOf, panelRows, link, polls, actionsMade, slipped>>

(* The Agent handles the request and publishes its change like any other.  *)
UserActs(i) ==
  /\ actionsMade < MaxItemActions /\ actionsMade' = actionsMade + 1
  /\ panel # NotLoaded /\ (panel[i] > 0 \/ panelRows[i] = 0)
  /\ \E c \in NextChanges(i) :
       /\ Changes(i, c)
       /\ actions' = actions \cup {[item |-> i, change |-> c, current |-> TRUE]}
  /\ UNCHANGED <<panelOf, panel, link, polls, loadsMade>>

(* runSchedulerAction and submitSchedulerCreate ask for the list again;    *)
(* submitKbCreate, submitKbAdd and deleteKb apply the answer itself.       *)
ActionAnswered(a) ==
  /\ IF panelOf = "scheduler"
       THEN Loads(loads) /\ UNCHANGED <<panel, slipped>>
       ELSE /\ panel' = WithItem(a.item, a.change)
            /\ slipped' = (slipped \/ ~a.current)
            /\ loads' = Overtaken(loads) /\ UNCHANGED loadsMade
  /\ actions' = actions \ {a}
  /\ UNCHANGED <<panelOf, panelRows, link, wire, polls, actionsMade>>

PanelNext ==
  \/ PanelEventsOpen \/ EventsDrop \/ Polls \/ FrameArrives
  \/ \E i \in PanelItems : AgentChanges(i) \/ UserActs(i)
  \/ \E l \in loads : ReadsRows(l) \/ PanelListArrives(l) \/ ListFails(l)
  \/ \E a \in actions : ActionAnswered(a)

PanelSpec == PanelInit /\ [][PanelNext]_panelVars

(***************************************************************************)
(* Properties.                                                             *)
(***************************************************************************)
(* A list that was loaded, whose socket is open and for which nothing is   *)
(* on its way shows what the Agent has, whatever was changed while the     *)
(* socket was down: unless an older answer was applied over a newer frame, *)
(* an answer or a frame was lost, and no list has been loaded since.       *)
PanelSound ==
  panel # NotLoaded /\ link /\ wire = <<>> /\ loads = {} /\ actions = {} /\ ~slipped => panel = Current
=============================================================================
