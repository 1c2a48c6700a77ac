------------------------- MODULE BoundedSlotsProofs -------------------------
(***************************************************************************)
(* The abstract cap keeps its bound for any clients and any cap.           *)
(***************************************************************************)
EXTENDS BoundedSlots, FiniteSetTheorems, TLAPS

(* Whoever asks, gives up or leaves in whatever order: never more than Cap *)
(* clients work, and none works and waits at once.  It is what every       *)
(* implementation of the cap inherits (GenerationGate.slot).               *)
THEOREM CapHolds ==
  ASSUME Cap \in Nat, IsFiniteSet(Clients)
  PROVE  SlotsSpec => []CapKept
<1> DEFINE IInv == asking \subseteq Clients /\ CapKept
<1>1. SlotsInit => IInv
  <2>1. Cardinality({}) = 0
    BY FS_EmptySet
  <2> QED
    BY <2>1 DEF SlotsInit, CapKept
<1>2. ASSUME IInv, [SlotsNext]_slotVars PROVE IInv'
  <2>1. IsFiniteSet(working) /\ Cardinality(working) \in Nat
    BY <1>2, FS_Subset, FS_CardinalityType DEF CapKept
  <2>2. ASSUME NEW c \in Clients, Ask(c) PROVE IInv'
    BY <1>2, <2>2 DEF Ask, CapKept
  <2>3. ASSUME NEW c \in Clients, Enter(c) PROVE IInv'
    <3>1. Cardinality(working') = Cardinality(working) + 1
      BY <2>1, <2>3, FS_AddElement DEF Enter
    <3>2. Cardinality(working') <= Cap
      BY <2>1, <2>3, <3>1 DEF Enter
    <3> QED
      BY <1>2, <2>3, <3>2 DEF Enter, CapKept
  <2>4. ASSUME NEW c \in Clients, Abandon(c) PROVE IInv'
    BY <1>2, <2>4 DEF Abandon, CapKept
  <2>5. ASSUME NEW c \in Clients, Leave(c) PROVE IInv'
    <3>1. Cardinality(working') = Cardinality(working) - 1
      BY <2>1, <2>5, FS_RemoveElement DEF Leave
    <3>2. Cardinality(working') <= Cap
      BY <1>2, <2>1, <3>1 DEF CapKept
    <3> QED
      BY <1>2, <2>5, <3>2 DEF Leave, CapKept
  <2>6. CASE UNCHANGED slotVars
    BY <1>2, <2>6 DEF slotVars, CapKept
  <2> QED
    BY <1>2, <2>2, <2>3, <2>4, <2>5, <2>6 DEF SlotsNext
<1>3. IInv => CapKept
  OBVIOUS
<1> QED
  BY <1>1, <1>2, <1>3, PTL DEF SlotsSpec
=============================================================================
