------------------------------ MODULE MCTurns -------------------------------
(***************************************************************************)
(* What a turn does, component by component: they share no state with each *)
(* other, and in a behaviour one of them, the focus, moves.                *)
(***************************************************************************)
EXTENDS ToolRounds, RetrievalTurn, CommandTurn, SupportDesk, ReviewParts, ProjectFiles,
        Chunking, ContextWindow, LlmStream, ChatBackground, TLC

VARIABLE focus

Components == {"rounds", "rag", "command", "desk", "parts", "files", "chunking",
               "context", "stream", "background"}

turnsVars == <<focus, vars, ragVars, commandVars, deskVars, partVars, fileVars, chunkVars,
  contextVars, streamVars, bgVars>>

\* A variable of a component that is not the focus is 0.
TurnsInit ==
  /\ focus \in Components
  /\ Init
  /\ focus # "rounds" => mode = "chat" /\ offered
  /\ IF focus = "rag" THEN RagInit
     ELSE ragConfig = 0 /\ world = 0 /\ ragPc = 0 /\ candidates = 0 /\ survivors = 0
          /\ skipped = 0 /\ outbound = 0 /\ payload = 0
  /\ IF focus = "command" THEN CommandInit
     ELSE marked = 0 /\ docBase = 0 /\ servers = 0 /\ choices = 0 /\ branch = 0
          /\ turn = 0 /\ turns = 0 /\ changes = 0
  /\ IF focus = "desk" THEN DeskInit
     ELSE deskFile = 0 /\ deskEdits = 0 /\ deskCache = 0 /\ deskCall = 0
          /\ deskCalls = 0 /\ deskAnswer = 0
  /\ IF focus = "parts" THEN PartsInit
     ELSE history = 0 /\ tip = 0 /\ step = 0 /\ pr = 0 /\ parts = 0 /\ plan = 0
          /\ docs = 0 /\ tries = 0 /\ partials = 0 /\ groups = 0 /\ reply = 0
  /\ IF focus = "files" THEN FilesInit
     ELSE disk = 0 /\ ignored = 0 /\ toolCalls = 0 /\ answers = 0
  /\ IF focus = "chunking" THEN ChunkInit
     ELSE cutting = 0 /\ chunks = 0
  /\ IF focus = "context" THEN ContextInit
     ELSE ctxBranch = 0 /\ strategy = 0 /\ sent = 0 /\ stats = 0
  /\ IF focus = "stream" THEN StreamInit
     ELSE streamState = 0 /\ lines = 0 /\ sentText = 0 /\ sentCalls = 0
          /\ accumulated = 0 /\ emitted = 0 /\ gotText = 0 /\ gotCalls = 0
  /\ IF focus = "background" THEN BgInit
     ELSE bgChat = 0 /\ dropping = 0 /\ titleTask = 0 /\ titles = 0 /\ own = 0
          /\ global = 0 /\ pendingMsg = 0 /\ debounce = 0 /\ facts = 0 /\ queue = 0
          /\ turnsEnded = 0 /\ update = 0 /\ updates = 0 /\ chosen = 0

OnlyMoves(c) ==
  /\ UNCHANGED focus
  /\ c # "rounds" => UNCHANGED vars
  /\ c # "rag" => UNCHANGED ragVars
  /\ c # "command" => UNCHANGED commandVars
  /\ c # "desk" => UNCHANGED deskVars
  /\ c # "parts" => UNCHANGED partVars
  /\ c # "files" => UNCHANGED fileVars
  /\ c # "chunking" => UNCHANGED chunkVars
  /\ c # "context" => UNCHANGED contextVars
  /\ c # "stream" => UNCHANGED streamVars
  /\ c # "background" => UNCHANGED bgVars

TurnsNext ==
  \/ focus = "rounds" /\ Next /\ OnlyMoves("rounds")
  \/ focus = "rag" /\ RagNext /\ OnlyMoves("rag")
  \/ focus = "command" /\ CommandNext /\ OnlyMoves("command")
  \/ focus = "desk" /\ DeskNext /\ OnlyMoves("desk")
  \/ focus = "parts" /\ PartsNext /\ OnlyMoves("parts")
  \/ focus = "files" /\ FilesNext /\ OnlyMoves("files")
  \/ focus = "chunking" /\ ChunkNext /\ OnlyMoves("chunking")
  \/ focus = "context" /\ ContextNext /\ OnlyMoves("context")
  \/ focus = "stream" /\ StreamNext /\ OnlyMoves("stream")
  \/ focus = "background" /\ BgNext /\ OnlyMoves("background")

TurnsSpec == TurnsInit /\ [][TurnsNext]_turnsVars
-----------------------------------------------------------------------------
\* Fragments by their relevance to the question as asked and as rewritten, a hit of the
\* keywords, and their size; the last world has none.
Attr(original, rewritten, keyword, size) ==
  [original |-> original, rewritten |-> rewritten, keyword |-> keyword, size |-> size]
MCWorlds ==
  {<<Attr(2, 0, TRUE, 2), Attr(0, 1, FALSE, 2), Attr(0, 0, TRUE, 1)>>,
   <<Attr(1, 2, FALSE, 9), Attr(2, 1, TRUE, 1)>>, <<>>}
MCQuotes ==
  {[c \in 1..3 |-> IF c = 1 THEN "exact" ELSE "unverified"],
   [c \in 1..3 |-> IF c = 2 THEN "fuzzy" ELSE IF c = 3 THEN "exact" ELSE "unverified"]}

\* Tickets of two users, before and after an edit of the desk's file.
Ticket(i, u, s, n) == [id |-> i, client |-> u, status |-> s, updated |-> n]
MCTables ==
  {{Ticket(1, "ann", "open", 1), Ticket(2, "ann", "closed", 2), Ticket(3, "bob", "open", 3)},
   {Ticket(1, "ann", "open", 4), Ticket(3, "bob", "open", 3)}}

\* Pull requests, and what another push makes of them: the sizes of the lines of each hunk.
Altered(path, patch, hunks) == [path |-> path, patch |-> patch, hunks |-> hunks]
MCHistories ==
  LET small == <<Altered("a", TRUE, <<<<1, 1>>>>)>>
      three == <<Altered("a", TRUE, <<<<2, 2>>, <<1, 2>>>>), Altered("b", FALSE, <<<<3>>>>), Altered("c", TRUE, <<<<2, 1>>>>)>>
      big == <<Altered("a", TRUE, <<<<1>>, <<9, 2>>, <<1>>, <<1>>>>), Altered("b", TRUE, <<<<4>>, <<2>>>>)>>
      gone == <<Altered("b", TRUE, <<<<3>>, <<4>>, <<2>>>>), Altered("c", TRUE, <<<<2, 1>>>>)>>
      huge == <<Altered("a", TRUE, <<<<9>>, <<9>>, <<9>>>>)>>
      four == <<Altered("a", TRUE, <<<<1>>>>), Altered("b", FALSE, <<<<3>>>>), Altered("c", TRUE, <<<<2>>>>), Altered("d", TRUE, <<<<1>>>>)>>
  IN {<<small, <<>>>>, <<three, gone>>, <<gone, three>>, <<big>>, <<three, gone, big>>, <<four>>, <<huge>>}

\* Letters of a line that a window of read_file holds, and one that it does not.
MCFragments == {<<>>, <<"a">>, <<"a", "a">>, <<"b", "a">>}
MCLineChars == "a" :> 300 @@ "b" :> 2000
MCBodyChars == {0, 758, 759, 5000}

\* Texts to cut at windows, and lines of code files to cut at definitions.
MCTexts == UNION {[1..n -> {"a", "space", "newline", "stop"}] : n \in 1..4}
             \cup {<<"a", "C", "newline", "A", "newline", "a", "stop", "space", "a", "a", "a", "C", "a">>}
             \cup [1..6 -> {"a", "space", "C"}]
MCWindows == {<<2, 1>>, <<3, 0>>, <<5, 2>>}
TextLine == [size : {0, 1, 3, 7}, solid : BOOLEAN]
TextLines == {s \in UNION {[1..n -> {l \in TextLine : l.size = 0 => ~l.solid}] : n \in 1..4} :
             Cardinality({i \in DOMAIN s : ~s[i].solid}) <= 2}
MCFiles == [lines : TextLines, defs : {<<>>}]
             \cup [lines : {s \in TextLines : Len(s) >= 3}, defs : {<<<<1, 2>>>>, <<<<2, 2>>, <<3, 3>>>>}]

-----------------------------------------------------------------------------
\* What a strict answer rests on, which fragments it is said to rest on and which quotes
\* stand (rag_turn.py, rag_pipeline.py, rag_cite.py).
RetrievalSound == focus = "rag" => RagSound

\* Answers of /help and /support: their servers, tickets and quotes (command_turn.py), and
\* the desk they ask (support_desk.py).
CommandsSound ==
  /\ focus = "command" => CommandTypeOK /\ CommandSound
  /\ focus = "desk" => AnswersAreCurrent /\ HitsAreNewest

\* A review shows every line of the pull request it names and rests on every part
\* (review_pipeline.py).
PartsSound == focus = "parts" => ReviewWhole

\* Answers of the file tools fit and say how to go on (project_git.py).
FileAnswersSound == focus = "files" => AnswersFit /\ ReadGoesOn

\* Neither an edit of a file (project_git.py) nor the newest event of an open tab (events.py)
\* is lost to another one that comes at the same time.
NothingOverwritten ==
  /\ [][focus = "files" => NoLostEdit]_fileVars
  /\ [][focus = "background" => NewestFrameKept]_bgVars

\* Nothing of a text is lost when it is cut into fragments (kb_chunking.py,
\* code_chunking.py), sent to the model in part (context_engine.py) or streamed back
\* (llm_client.py).
TextsSound ==
  /\ focus = "chunking" => ChunksSound
  /\ focus = "context" => ContextSound
  /\ focus = "stream" => NothingLostInStream

\* Title jobs are found by the deletion of their chat (titles.py), and what the user set for
\* a chat outlives the facts jobs that write the same row (context_engine.py).
BackgroundSound == focus = "background" => TitleJobKnown /\ UserSettingsKept
=============================================================================
