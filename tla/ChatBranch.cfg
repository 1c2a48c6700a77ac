\* A turn over the WebSocket and a branch request of one chat.
SPECIFICATION Spec
CONSTANTS
  Chats = {c1}
  Requests = {q1, q2}
  Ops = {"ws", "branch"}
  Leavers = {}
  GateCap = 1
  MaxFaults = 0
  MaxMsg = 4
PROPERTY BranchSwitches
CHECK_DEADLOCK FALSE
