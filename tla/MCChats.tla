------------------------------ MODULE MCChats -------------------------------
(***************************************************************************)
(* Chats and the commands that work beside them: the components share no   *)
(* state with each other, and in a behaviour one of them, the focus, moves.*)
(***************************************************************************)
EXTENDS ChatTurn, TaskMemory, Release, CodeReview, TLC

VARIABLE focus

Components == {"chat", "memory", "release", "review"}

chatsVars == <<focus, vars, memVars, relVars, crVars>>

\* A variable of a component that is not the focus is 0.
ChatsInit ==
  /\ focus \in Components
  /\ Init
  /\ focus # "chat" => \A q \in Requests : request[q].op = "delete" /\ chat[request[q].chat].leaf = NoMsg
  /\ IF focus = "memory" THEN MemInit
     ELSE doc = 0 /\ rag = 0 /\ tree = 0 /\ leaf = 0 /\ memLock = 0 /\ edit = 0
          /\ byHand = 0 /\ stated = 0
  /\ IF focus = "release" THEN RelInit
     ELSE repo = 0 /\ remote = 0 /\ drafts = 0 /\ plans = 0 /\ latest = 0
          /\ waitline = 0 /\ relRequest = 0 /\ tool = 0 /\ foreign = 0
  /\ IF focus = "review" THEN CrInit
     ELSE origin = 0 /\ link = 0 /\ codeBase = 0 /\ codeFile = 0 /\ prLock = 0
          /\ refresher = 0 /\ rev = 0 /\ unswapped = 0

OnlyMoves(c) ==
  /\ UNCHANGED focus
  /\ c # "chat" => UNCHANGED vars
  /\ c # "memory" => UNCHANGED memVars
  /\ c # "release" => UNCHANGED relVars
  /\ c # "review" => UNCHANGED crVars

ChatsNext ==
  \/ focus = "chat" /\ Next /\ OnlyMoves("chat")
  \/ focus = "memory" /\ MemNext /\ OnlyMoves("memory")
  \/ focus = "release" /\ RelNext /\ OnlyMoves("release")
  \/ focus = "review" /\ CrNext /\ OnlyMoves("review")

ChatsSpec == ChatsInit /\ [][ChatsNext]_chatsVars

Symmetry == Permutations(Requests)
-----------------------------------------------------------------------------
AllOps == {"ws", "http", "branch", "delete"}

\* Two branches of one repository; the trees a push may bring.
MCRepoOf == [b \in Branches |-> 1]
MCTrees == {"a" :> 1 @@ "b" :> 1, "a" :> 2 @@ "c" :> 1}
MCFirst == <<1, 0>>
MCVersions == {<<1, 0>>, <<1, 1>>, <<2, 0>>}

-----------------------------------------------------------------------------
\* The task memory is what its rules allow, follows the branch that is open and holds only
\* what a user stated (task_memory.py).
TaskMemorySound == focus = "memory" => MemTypeOK /\ MemoryFollowsLeaf /\ MemoryIsStated

\* What a release noted as done was done, once and for the version it names
\* (release_executor.py, project_git.py).
ReleaseSound ==
  focus = "release" => RelTypeOK /\ TagHasItsSection /\ DraftIsPushed /\ NothingTwice /\ RecordedIsReal

\* Code bases are of the commit their link names, bounded and without leftovers, and a pull
\* request is reviewed once at a time (code_index.py, review_api.py).
ReviewsSound ==
  focus = "review" =>
    CrTypeOK /\ BaseIsItsCommit /\ IndexMatchesRows /\ NoStrayBase /\ BasesBounded /\ ReviewsExclusive

\* An older tip of a branch never takes the place of a newer one (code_index.py).
NewerTipsStay == [][focus = "review" => NewestTipWins]_crVars
=============================================================================
