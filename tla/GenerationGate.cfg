\* Two turns that hold a slot and two that wait.
SPECIFICATION FairSpec
CONSTANTS
  Turns = {t1, t2, t3, t4}
  Cap = 2
INVARIANT GateSound
PROPERTIES ImplementsSlots WaiterProceeds
