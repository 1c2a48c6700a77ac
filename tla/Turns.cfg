\* What a turn is made of, part by part.
SPECIFICATION TurnsSpec
CONSTANTS
  Signatures = {s1, s2}
  MaxRounds = 3
  Worlds <- MCWorlds
  Quotes <- MCQuotes
  Threshold = 1
  CandidateK = 2
  TopKs = {1, 2}
  RerankTopN = 1
  ContextLength = 20
  UsedTokens = {4, 13}
  MaxTokens = {2, 20}
  MaxTurns = 2
  MaxChanges = 1
  ServerNames = {"local-git", "support"}
  HistoryPairs = 1
  Tables <- MCTables
  Users = {"ann", "bob"}
  TicketIds = {1, 2, 3}
  Statuses = {"open", "closed", "waiting"}
  OpenStatuses = {"open", "waiting"}
  MaxHits = 2
  MaxEdits = 2
  MaxCalls = 2
  Histories <- MCHistories
  PerPage = 2
  MaxPages = 2
  Available = 8
  HeaderSize = 1
  MaxParts = 6
  AnswerSizes = {3, 5}
  ToolCalls = {k1, k2}
  Paths = {p1}
  Letters = {"a", "b"}
  Fragments <- MCFragments
  MaxLetters = 2
  ReadWindow = 1
  LineChars <- MCLineChars
  BodyChars <- MCBodyChars
  MaxChars = 1000
  MarkerChars = 240
  ChunkTexts <- MCTexts
  Windows <- MCWindows
  Room = 3
  SubOverlap = 1
  CodeFiles <- MCFiles
  WindowLines = 3
  WindowOverlap = 1
  Recent = 2
  CtxLength = 16
  Trigger = 8
  MaxLength = 5
  CallIndexes = {0, 1}
  MaxLines = 4
  Sockets = {s1}
  QueueMax = 1
  MaxBgTurns = 2
  MaxChats = 2
  MaxUpdates = 1
INVARIANTS RequestsBounded WorkIsReported ShownIsSaved RetrievalSound CommandsSound PartsSound FileAnswersSound  BackgroundSound
PROPERTIES RepeatNotDispatched NothingOverwritten
CHECK_DEADLOCK FALSE
