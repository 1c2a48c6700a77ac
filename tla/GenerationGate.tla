--------------------------- MODULE GenerationGate ---------------------------
(***************************************************************************)
(* GenerationGate.slot of agent/limits.py: the process-wide cap on turns   *)
(* that generate at the same time, an asyncio.Semaphore whose queue a turn *)
(* joins through a task of its own (ensure_future), so that it can tell    *)
(* its client "queued" meanwhile.                                          *)
(*                                                                         *)
(* The semaphore is CPython's (locks.py of 3.11): its deque of waiters     *)
(* keeps a waiter from the step that joins it to the step that resumes it, *)
(* whatever happened to the waiter's future in between.  A step here is    *)
(* what one coroutine does between two suspensions.                        *)
(***************************************************************************)
EXTENDS Naturals, Sequences, FiniteSets

CONSTANTS
  Turns,  \* the callers of slot(): chat turns and review jobs
  Cap     \* MAX_CONCURRENT_GENERATIONS, the cap that is in force

ASSUME GateAssumption == Cap \in Nat \ {0} /\ IsFiniteSet(Turns)

VARIABLES
  pc,        \* the caller: idle, announcing (in on_wait), awaiting, holding
  acq,       \* its acquire task, see AcqState
  starting,  \* acquire tasks the loop has not run yet, oldest first
  value,     \* Semaphore._value
  waiters,   \* Semaphore._waiters, oldest first
  line       \* history: callers that found the gate full, in arrival order

vars == <<pc, acq, starting, value, waiters, line>>

(* The acquire task and its future:                                        *)
(*   new, newCancelled          created, its first step is still to run    *)
(*   pending, dropped           suspended on a future nobody set, cancelled*)
(*   granted, grantedCancelled  the future is set, the task not resumed;   *)
(*                              a cancel that comes now is thrown into it  *)
(*   done, cancelled            ended; the caller has not looked yet       *)
AcqState == {"none", "new", "newCancelled", "pending", "dropped", "granted",
             "grantedCancelled", "done", "cancelled"}

PcState == {"idle", "announcing", "awaiting", "holding"}

Init ==
  /\ pc = [c \in Turns |-> "idle"]
  /\ acq = [c \in Turns |-> "none"]
  /\ starting = <<>>
  /\ value = Cap
  /\ waiters = <<>>
  /\ line = <<>>

----------------------------------------------------------------------------
(* The semaphore. *)

(* Semaphore.locked: a waiter whose future is not cancelled keeps it shut. *)
Locked == value = 0 \/ \E i \in DOMAIN waiters : acq[waiters[i]] # "dropped"

(* deque.remove, of a caller that is in the deque. *)
Without(seq, c) ==
  LET at == CHOOSE i \in DOMAIN seq : seq[i] = c
  IN  [i \in 1..(Len(seq) - 1) |-> IF i < at THEN seq[i] ELSE seq[i + 1]]

(* _wake_up_next, on the deque ws, the tasks a and the counter v: the first *)
(* waiter whose future is open gets one unit of the counter.               *)
FirstOpen(ws, a, c) ==
  \E i \in DOMAIN ws :
    /\ ws[i] = c
    /\ a[c] = "pending"
    /\ \A j \in 1..(i - 1) : a[ws[j]] # "pending"

WakeUpNext(ws, a, v) ==
  \/ \E c \in Turns :
       /\ FirstOpen(ws, a, c)
       /\ acq' = [a EXCEPT ![c] = "granted"]
       /\ value' = v - 1
  \/ /\ \A i \in DOMAIN ws : a[ws[i]] # "pending"
     /\ acq' = a
     /\ value' = v

(* Mutant: a release that counts up and wakes nobody. *)
ReleaseSlotSilently(a) ==
  /\ acq' = a
  /\ value' = value + 1
  /\ UNCHANGED waiters

(* release *)
ReleaseSlot(a) == WakeUpNext(waiters, a, value + 1) /\ UNCHANGED waiters

(* Task.cancel on the acquire task of c. *)
CancelAcquire(c) ==
  [acq EXCEPT ![c] = CASE @ = "new" -> "newCancelled"
                       [] @ = "pending" -> "dropped"
                       [] @ = "granted" -> "grantedCancelled"
                       [] OTHER -> @]

----------------------------------------------------------------------------
(* The caller. *)

(* slot() on a full semaphore: the acquire task is created, on_wait starts. *)
Queues(c) ==
  /\ pc[c] = "idle"
  /\ acq[c] = "none"
  /\ Locked
  /\ pc' = [pc EXCEPT ![c] = "announcing"]
  /\ acq' = [acq EXCEPT ![c] = "new"]
  /\ starting' = Append(starting, c)
  /\ line' = Append(line, c)
  /\ UNCHANGED <<value, waiters>>

(* slot() on an open semaphore: acquire returns without a suspension. *)
EntersAtOnce(c) ==
  /\ pc[c] = "idle"
  /\ acq[c] = "none"
  /\ ~Locked
  /\ pc' = [pc EXCEPT ![c] = "holding"]
  /\ value' = value - 1
  /\ UNCHANGED <<acq, starting, waiters, line>>

(* on_wait has sent its frame. *)
Announced(c) ==
  /\ pc[c] = "announcing"
  /\ pc' = [pc EXCEPT ![c] = "awaiting"]
  /\ UNCHANGED <<acq, starting, value, waiters, line>>

(* await acquire returns. *)
EntersAfterWait(c) ==
  /\ pc[c] = "awaiting"
  /\ acq[c] = "done"
  /\ pc' = [pc EXCEPT ![c] = "holding"]
  /\ acq' = [acq EXCEPT ![c] = "none"]
  /\ line' = Without(line, c)
  /\ UNCHANGED <<starting, value, waiters>>

(* Mutant: the except branch only cancels; a slot acquired before the      *)
(* failure is lost.                                                        *)
GivesUpCancelOnly(c) ==
  /\ pc' = [pc EXCEPT ![c] = "idle"]
  /\ line' = Without(line, c)
  /\ acq' = IF acq[c] \in {"done", "cancelled"} THEN [acq EXCEPT ![c] = "none"]
            ELSE CancelAcquire(c)
  /\ UNCHANGED <<starting, value, waiters>>

(* Mutant: the except branch releases whether or not a slot was acquired. *)
GivesUpReleasing(c) ==
  /\ pc' = [pc EXCEPT ![c] = "idle"]
  /\ line' = Without(line, c)
  /\ ReleaseSlot(IF acq[c] \in {"done", "cancelled"} THEN [acq EXCEPT ![c] = "none"]
                 ELSE CancelAcquire(c))
  /\ UNCHANGED starting

(* The except branch: a slot that was acquired goes back, an acquire that  *)
(* is still under way is cancelled.                                        *)
GivesUp(c) ==
  /\ pc' = [pc EXCEPT ![c] = "idle"]
  /\ line' = Without(line, c)
  /\ IF acq[c] = "done"
     THEN ReleaseSlot([acq EXCEPT ![c] = "none"])
     ELSE /\ acq' = IF acq[c] = "cancelled" THEN [acq EXCEPT ![c] = "none"]
                    ELSE CancelAcquire(c)
          /\ UNCHANGED <<value, waiters>>
  /\ UNCHANGED starting

(* on_wait fails (the client is gone) or the caller is cancelled in it. *)
AnnouncementFails(c) == pc[c] = "announcing" /\ GivesUp(c)

(* The caller is cancelled in await acquire.  An acquire task that has not *)
(* ended takes the cancel first, and the caller hears of it by its end.    *)
CancelledAwaiting(c) ==
  /\ pc[c] = "awaiting"
  /\ IF acq[c] \in {"done", "cancelled"} THEN GivesUp(c)
     ELSE /\ acq' = CancelAcquire(c)
          /\ acq' # acq
          /\ UNCHANGED <<pc, starting, value, waiters, line>>

(* A cancelled acquire raises in its caller without a further cancel. *)
AcquireRaises(c) == pc[c] = "awaiting" /\ acq[c] = "cancelled" /\ GivesUp(c)

(* The body ends, by its result or by any exception. *)
Leaves(c) ==
  /\ pc[c] = "holding"
  /\ pc' = [pc EXCEPT ![c] = "idle"]
  /\ ReleaseSlot(acq)
  /\ UNCHANGED <<starting, line>>

----------------------------------------------------------------------------
(* The acquire task. *)

(* An ended task that nobody awaits is gone. *)
Ended(c, end) == IF pc[c] = "idle" THEN "none" ELSE end

(* Its first step; the loop runs the tasks in the order they were created. *)
AcquireStarts(c) ==
  /\ starting # <<>>
  /\ c = Head(starting)
  /\ starting' = Tail(starting)
  /\ \/ /\ acq[c] = "newCancelled"
        /\ acq' = [acq EXCEPT ![c] = Ended(c, "cancelled")]
        /\ UNCHANGED <<value, waiters>>
     \/ /\ acq[c] = "new"
        /\ ~Locked
        /\ acq' = [acq EXCEPT ![c] = "done"]
        /\ value' = value - 1
        /\ UNCHANGED waiters
     \/ /\ acq[c] = "new"
        /\ Locked
        /\ acq' = [acq EXCEPT ![c] = "pending"]
        /\ waiters' = Append(waiters, c)
        /\ UNCHANGED value
  /\ UNCHANGED <<pc, line>>

(* It resumes with its unit; one that is left over wakes the next waiter. *)
AcquireResumes(c) ==
  LET rest == Without(waiters, c)
      a == [acq EXCEPT ![c] = "done"]
  IN /\ acq[c] = "granted"
     /\ waiters' = rest
     /\ IF value > 0 THEN WakeUpNext(rest, a, value)
        ELSE acq' = a /\ UNCHANGED value
     /\ UNCHANGED <<pc, starting, line>>

(* It resumes by CancelledError: a unit it had been given goes on. *)
AcquireUnwinds(c) ==
  LET rest == Without(waiters, c)
      a == [acq EXCEPT ![c] = Ended(c, "cancelled")]
  IN /\ \/ acq[c] = "dropped" /\ acq' = a /\ UNCHANGED value
        \/ acq[c] = "grantedCancelled" /\ WakeUpNext(rest, a, value + 1)
     /\ waiters' = rest
     /\ UNCHANGED <<pc, starting, line>>

----------------------------------------------------------------------------
AcquireStep(c) == AcquireStarts(c) \/ AcquireResumes(c) \/ AcquireUnwinds(c)

CallerProceeds(c) == Announced(c) \/ EntersAfterWait(c) \/ AcquireRaises(c)

Next ==
  \E c \in Turns :
    \/ Queues(c) \/ EntersAtOnce(c) \/ CallerProceeds(c)
    \/ AnnouncementFails(c) \/ CancelledAwaiting(c) \/ Leaves(c)
    \/ AcquireStep(c)

(* The loop runs what is ready, the send of a frame ends, and so does a    *)
(* generation: the model's client has timeouts and the rounds a bound.     *)
Fairness ==
  \A c \in Turns :
    WF_vars(AcquireStep(c)) /\ WF_vars(CallerProceeds(c)) /\ WF_vars(Leaves(c))

Spec == Init /\ [][Next]_vars
FairSpec == Spec /\ Fairness

----------------------------------------------------------------------------
(* Every variable has its type. *)
TypeOK ==
  /\ pc \in [Turns -> PcState]
  /\ acq \in [Turns -> AcqState]
  /\ starting \in Seq(Turns)
  /\ value \in 0..Cap
  /\ waiters \in Seq(Turns)
  /\ line \in Seq(Turns)

(* The turns a unit of the semaphore has been given to. *)
HasSlot(c) == pc[c] = "holding" \/ acq[c] \in {"granted", "grantedCancelled", "done"}

(* No failure, disconnect or cancellation at any point of the wait loses a *)
(* slot or makes one up: free units and those given out are the cap.       *)
SlotsAccounted == value + Cardinality({c \in Turns : HasSlot(c)}) = Cap

(* A free unit and an open waiter meet only while some waiter before has a *)
(* grant it has not resumed on, whose step passes the unit on.             *)
NoLostWakeup ==
  value > 0 /\ (\E c \in Turns : acq[c] = "pending") =>
    \E c \in Turns : acq[c] \in {"granted", "grantedCancelled"}

(* "waiters queue in arrival order": of two turns that found the gate full *)
(* the later gets no slot before the earlier, unless that one is leaving.  *)
Leaving == {"newCancelled", "dropped", "grantedCancelled", "cancelled"}

WaitersServedInOrder ==
  \A i, j \in DOMAIN line :
    i < j /\ HasSlot(line[j]) => HasSlot(line[i]) \/ acq[line[i]] \in Leaving

(* Whatever fails or is cancelled at whatever await, the slots and the     *)
(* wakeups of the semaphore are kept, and those that wait are served in    *)
(* order (GenerationGate.slot).                                            *)
GateSound == TypeOK /\ SlotsAccounted /\ NoLostWakeup /\ WaitersServedInOrder

(* "never dropped": a turn that waits gets its slot or gives up by itself. *)
WaiterProceeds ==
  \A c \in Turns : pc[c] \in {"announcing", "awaiting"} ~> pc[c] \in {"holding", "idle"}

(* The gate is a cap on concurrent work. *)
Slots == INSTANCE BoundedSlots WITH
  Clients <- Turns,
  asking <- {c \in Turns : pc[c] \in {"announcing", "awaiting"}},
  working <- {c \in Turns : pc[c] = "holding"}

ImplementsSlots == Slots!SlotsSpec
=============================================================================
