---------------------------- MODULE BoundedSlots ----------------------------
(***************************************************************************)
(* What a cap on concurrent work promises, however it is implemented:      *)
(* clients ask for a slot, at most Cap of them work at a time, and each    *)
(* one that asked works or gives up.                                       *)
(***************************************************************************)
EXTENDS Naturals, FiniteSets

CONSTANTS
  Clients,  \* who may ask for a slot
  Cap       \* how many may work at a time

VARIABLES
  asking,   \* clients that wait for a slot
  working   \* clients that have one

slotVars == <<asking, working>>

SlotsInit == asking = {} /\ working = {}

Ask(c) ==
  /\ c \notin asking \cup working
  /\ asking' = asking \cup {c}
  /\ UNCHANGED working

(* A client starts at once when a slot is free, or after it asked. *)
Enter(c) ==
  /\ c \notin working
  /\ Cardinality(working) < Cap
  /\ working' = working \cup {c}
  /\ asking' = asking \ {c}

Abandon(c) ==
  /\ c \in asking
  /\ asking' = asking \ {c}
  /\ UNCHANGED working

Leave(c) ==
  /\ c \in working
  /\ working' = working \ {c}
  /\ UNCHANGED asking

SlotsNext == \E c \in Clients : Ask(c) \/ Enter(c) \/ Abandon(c) \/ Leave(c)

SlotsSpec == SlotsInit /\ [][SlotsNext]_slotVars

(* Never more than Cap clients work, and none works and waits at once. *)
CapKept ==
  /\ asking \cap working = {}
  /\ working \subseteq Clients
  /\ Cardinality(working) <= Cap
=============================================================================
