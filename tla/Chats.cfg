\* Three requests on a chat, its memory, its releases and the reviews.
SPECIFICATION ChatsSpec
CONSTANTS
  Chats = {c1}
  Requests = {r1, r2, r3}
  Ops <- AllOps
  Leavers = {}
  GateCap = 1
  MaxFaults = 0
  MaxMsg = 8
  MemRequests = {r1, r2, r3}
  Texts = {k1, k2}
  NoText = NoText
  ListCap = 1
  MaxMessages = 6
  ReleaseRequests = {r1, r2, r3}
  ReleaseChats = {k1, k2}
  Versions <- MCVersions
  FirstVersion <- MCFirst
  MaxForeign = 1
  ReviewRequests = {r1, r2, r3}
  PullRequests = {p1}
  Branches = {b1, b2}
  RepoOf <- MCRepoOf
  Trees <- MCTrees
  Models = {1}
  MaxBaseRefs = 1
  MaxPushes = 1
SYMMETRY Symmetry
INVARIANTS OneAtATime QuestionAnswered  TaskMemorySound  
PROPERTIES AttachedToLeaf NewerTipsStay
CHECK_DEADLOCK FALSE
