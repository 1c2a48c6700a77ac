\* Two exchanges of one chat, over HTTP or the WebSocket, whose clients may leave.
SPECIFICATION Spec
CONSTANTS
  Chats = {c1}
  Requests = {q1, q2}
  Ops = {"ws", "http", "branch", "delete"}
  Leavers = {q1, q2}
  GateCap = 1
  MaxFaults = 0
  MaxMsg = 4
INVARIANT QuestionAnswered
CHECK_DEADLOCK FALSE
