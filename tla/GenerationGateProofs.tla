------------------------ MODULE GenerationGateProofs ------------------------
(***************************************************************************)
(* Proofs about GenerationGate for any turns and any cap: no failure or    *)
(* cancellation loses a slot or a wakeup, turns are served in the order    *)
(* they came, and the gate implements the abstract cap of BoundedSlots.    *)
(*                                                                         *)
(* A release hands its unit on within one step, so the invariant is said   *)
(* of values as well as of the variables: p, a, v, s, w and l stand for    *)
(* pc, acq, value, starting, waiters and line.                             *)
(***************************************************************************)
EXTENDS GenerationGate, FiniteSetTheorems, SequenceTheorems, TLAPS

(* c is in front of d in the queue s. *)
Before(s, c, d) == \E i, j \in DOMAIN s : i < j /\ s[i] = c /\ s[j] = d

(* Who is in the queue s, and that nobody is there twice. *)
Members(s) == {s[i] : i \in DOMAIN s}
Distinct(s) == \A i, j \in DOMAIN s : s[i] = s[j] => i = j

Fresh == {"new", "newCancelled"}
Joined == {"pending", "dropped", "granted", "grantedCancelled"}
Given == {"granted", "grantedCancelled", "done"}

Typed(p, a, v, s, w, l) ==
  /\ p \in [Turns -> PcState] /\ a \in [Turns -> AcqState] /\ v \in Nat
  /\ s \in Seq(Turns) /\ w \in Seq(Turns) /\ l \in Seq(Turns)

(* Those that have a unit, and no unit is lost or made up. *)
WithUnit(p, a) == {c \in Turns : p[c] = "holding" \/ a[c] \in Given}
Counted(p, a, v) == v + Cardinality(WithUnit(p, a)) = Cap

(* Where a turn stands in the code says in which queues it is. *)
InQueues(p, a, s, w, l) ==
  /\ Distinct(s) /\ Members(s) = {c \in Turns : a[c] \in Fresh}
  /\ Distinct(w) /\ Members(w) = {c \in Turns : a[c] \in Joined}
  /\ Distinct(l) /\ Members(l) = {c \in Turns : p[c] \in {"announcing", "awaiting"}}

(* What the acquire task of a caller may be. *)
TasksFit(p, a) ==
  \A c \in Turns :
    /\ p[c] = "holding" => a[c] = "none"
    /\ p[c] = "idle" => a[c] \in {"none", "newCancelled", "dropped", "grantedCancelled"}
    /\ p[c] \in {"announcing", "awaiting"} => a[c] # "none"

(* Both queues of the semaphore keep the order in which the turns came,    *)
(* nobody leaves the first queue before those that came earlier, and       *)
(* nobody has a unit before an earlier turn that wants one.                *)
OrderKept(a, s, w, l) ==
  \A c, d \in Turns : Before(l, c, d) =>
    /\ ~Before(s, d, c)
    /\ ~Before(w, d, c)
    /\ a[c] \in Fresh => a[d] \in Fresh
    /\ a[d] \in Given => a[c] \in Given \cup Leaving

Shape(p, a, v, s, w, l) ==
  Typed(p, a, v, s, w, l) /\ Counted(p, a, v) /\ InQueues(p, a, s, w, l)
    /\ TasksFit(p, a) /\ OrderKept(a, s, w, l)

Awake(a, v) ==
  v > 0 /\ (\E c \in Turns : a[c] = "pending") =>
    \E c \in Turns : a[c] \in {"granted", "grantedCancelled"}

IInv == Shape(pc, acq, value, starting, waiters, line) /\ Awake(acq, value)

----------------------------------------------------------------------------
(* Queues. *)

LEMMA EmptyQueue == Members(<<>>) = {} /\ Distinct(<<>>) /\ \A c, d : ~Before(<<>>, c, d)
BY DEF Members, Distinct, Before

LEMMA JoinedQueue ==
  ASSUME NEW S, NEW s \in Seq(S), NEW c \in S, Distinct(s), c \notin Members(s)
  PROVE  /\ Append(s, c) \in Seq(S)
         /\ Distinct(Append(s, c))
         /\ Members(Append(s, c)) = Members(s) \cup {c}
         /\ \A x, y : Before(Append(s, c), x, y) => Before(s, x, y) \/ (x \in Members(s) /\ y = c)
<1> DEFINE t == Append(s, c)
<1>1. /\ t \in Seq(S) /\ Len(t) = Len(s) + 1 /\ Len(s) \in Nat
      /\ DOMAIN s = 1..Len(s) /\ DOMAIN t = 1..(Len(s) + 1)
      /\ \A i \in 1..Len(s) : t[i] = s[i]
      /\ t[Len(s) + 1] = c
  BY AppendProperties, LenProperties
<1> HIDE DEF t
<1>2. Distinct(t)
  BY <1>1 DEF Distinct, Members
<1>3. Members(t) = Members(s) \cup {c}
  BY <1>1 DEF Members
<1>4. ASSUME NEW x, NEW y, Before(t, x, y) PROVE Before(s, x, y) \/ (x \in Members(s) /\ y = c)
  BY <1>1, <1>4 DEF Before, Members
<1> QED
  BY <1>1, <1>2, <1>3, <1>4 DEF t

LEMMA TailQueue ==
  ASSUME NEW S, NEW s \in Seq(S), s # <<>>, Distinct(s)
  PROVE  /\ Head(s) \in Members(s)
         /\ Tail(s) \in Seq(S)
         /\ Distinct(Tail(s))
         /\ Members(Tail(s)) = Members(s) \ {Head(s)}
         /\ \A x, y : Before(Tail(s), x, y) => Before(s, x, y)
         /\ \A x \in Members(s) : x # Head(s) => Before(s, Head(s), x)
<1> DEFINE t == Tail(s)
<1>1. /\ t \in Seq(S) /\ Len(s) \in Nat /\ Len(s) > 0
      /\ DOMAIN s = 1..Len(s) /\ DOMAIN t = 1..(Len(s) - 1)
      /\ \A i \in 1..(Len(s) - 1) : t[i] = s[i + 1]
      /\ Head(s) = s[1]
  BY HeadTailProperties, EmptySeq, LenProperties
<1> HIDE DEF t
<1>2. Head(s) \in Members(s)
  BY <1>1 DEF Members
<1>3. Distinct(t)
  <2>1. ASSUME NEW i \in DOMAIN t, NEW j \in DOMAIN t, t[i] = t[j] PROVE i = j
    <3>1. i + 1 \in DOMAIN s /\ j + 1 \in DOMAIN s /\ s[i + 1] = s[j + 1]
      BY <1>1, <2>1
    <3>2. i + 1 = j + 1
      BY <3>1 DEF Distinct
    <3> QED
      BY <1>1, <3>2
  <2> QED
    BY <2>1 DEF Distinct
<1>4. Members(t) = Members(s) \ {Head(s)}
  <2>1. ASSUME NEW x \in Members(t) PROVE x \in Members(s) \ {Head(s)}
    BY <1>1, <2>1 DEF Members, Distinct
  <2>2. ASSUME NEW x \in Members(s) \ {Head(s)} PROVE x \in Members(t)
    <3>1. PICK i \in 1..Len(s) : s[i] = x
      BY <1>1 DEF Members
    <3>2. i - 1 \in 1..(Len(s) - 1) /\ t[i - 1] = x
      BY <1>1, <2>2, <3>1
    <3> QED
      BY <1>1, <3>2 DEF Members
  <2> QED
    BY <2>1, <2>2
<1>5. ASSUME NEW x, NEW y, Before(t, x, y) PROVE Before(s, x, y)
  <2>1. PICK i, j \in 1..(Len(s) - 1) : i < j /\ t[i] = x /\ t[j] = y
    BY <1>1, <1>5 DEF Before
  <2>2. i + 1 \in DOMAIN s /\ j + 1 \in DOMAIN s /\ i + 1 < j + 1 /\ s[i + 1] = x /\ s[j + 1] = y
    BY <1>1, <2>1
  <2> QED
    BY <2>2 DEF Before
<1>6. ASSUME NEW x \in Members(s), x # Head(s) PROVE Before(s, Head(s), x)
  BY <1>1, <1>6 DEF Members, Before
<1> QED
  BY <1>1, <1>2, <1>3, <1>4, <1>5, <1>6 DEF t

LEMMA LeftQueue ==
  ASSUME NEW S, NEW s \in Seq(S), NEW c \in Members(s), Distinct(s)
  PROVE  /\ Without(s, c) \in Seq(S)
         /\ Distinct(Without(s, c))
         /\ Members(Without(s, c)) = Members(s) \ {c}
         /\ \A x, y : Before(Without(s, c), x, y) => Before(s, x, y) /\ x # c /\ y # c
<1> DEFINE t == Without(s, c)
           n == Len(s)
           k == CHOOSE i \in DOMAIN s : s[i] = c
<1>1. n \in Nat /\ DOMAIN s = 1..n /\ \A i \in 1..n : s[i] \in S
  BY LenProperties
<1>2. k \in 1..n /\ s[k] = c
  BY <1>1 DEF Members
<1>3. t = [i \in 1..(n - 1) |-> IF i < k THEN s[i] ELSE s[i + 1]]
  BY DEF Without
<1> HIDE DEF t, n, k
<1>4. n - 1 \in Nat /\ DOMAIN t = 1..(n - 1)
  BY <1>1, <1>2, <1>3
<1>5. t \in Seq(S)
  BY <1>1, <1>2, <1>3, <1>4, IsASeq
<1> DEFINE Old(i) == IF i < k THEN i ELSE i + 1
<1>6. \A i \in 1..(n - 1) : Old(i) \in 1..n /\ Old(i) # k /\ t[i] = s[Old(i)]
  BY <1>1, <1>2, <1>3
<1>7. \A i, j \in 1..(n - 1) : i < j <=> Old(i) < Old(j)
  BY <1>1, <1>2
<1>8. \A m \in 1..n : m # k => \E i \in 1..(n - 1) : t[i] = s[m]
  <2> TAKE m \in 1..n
  <2> HAVE m # k
  <2>1. CASE m < k
    BY <1>1, <1>2, <1>3, <2>1
  <2>2. CASE m > k
    <3>1. m - 1 \in 1..(n - 1) /\ t[m - 1] = s[m]
      BY <1>1, <1>2, <1>3, <2>2
    <3> QED
      BY <3>1
  <2> QED
    BY <1>1, <1>2, <2>1, <2>2
<1> HIDE DEF Old
<1>9. \A m \in 1..n : s[m] = c => m = k
  BY <1>1, <1>2 DEF Distinct
<1>10. \A i, j \in 1..(n - 1) : Old(i) = Old(j) => i = j
  BY <1>4, <1>7 DEF Old
<1>11. Distinct(t)
  BY <1>1, <1>4, <1>6, <1>10 DEF Distinct
<1>12. Members(t) = Members(s) \ {c}
  <2>1. ASSUME NEW x \in Members(t) PROVE x \in Members(s) \ {c}
    BY <1>1, <1>4, <1>6, <1>9 DEF Members
  <2>2. ASSUME NEW x \in Members(s) \ {c} PROVE x \in Members(t)
    BY <1>1, <1>2, <1>4, <1>8 DEF Members
  <2> QED
    BY <2>1, <2>2
<1>13. ASSUME NEW x, NEW y, Before(t, x, y) PROVE Before(s, x, y) /\ x # c /\ y # c
  <2>1. PICK i, j \in 1..(n - 1) : i < j /\ t[i] = x /\ t[j] = y
    BY <1>4, <1>13 DEF Before
  <2>2. /\ Old(i) \in 1..n /\ s[Old(i)] = x /\ x # c
        /\ Old(j) \in 1..n /\ s[Old(j)] = y /\ y # c
        /\ Old(i) < Old(j)
    BY <1>6, <1>7, <1>9, <2>1
  <2> QED
    BY <1>1, <2>2 DEF Before
<1> QED
  BY <1>5, <1>11, <1>12, <1>13 DEF t

----------------------------------------------------------------------------
(* Units. *)

LEMMA Units ==
  ASSUME NEW p, NEW a
  PROVE  IsFiniteSet(WithUnit(p, a)) /\ Cardinality(WithUnit(p, a)) \in Nat
BY GateAssumption, FS_Subset, FS_CardinalityType DEF WithUnit

LEMMA UnitTaken ==
  ASSUME NEW p, NEW a, NEW v \in Nat, Counted(p, a, v), v > 0,
         NEW q, NEW b, NEW c, c \notin WithUnit(p, a), WithUnit(q, b) = WithUnit(p, a) \cup {c}
  PROVE  v - 1 \in Nat /\ Counted(q, b, v - 1)
<1>1. Cardinality(WithUnit(q, b)) = Cardinality(WithUnit(p, a)) + 1
  BY Units, FS_AddElement
<1> QED
  BY <1>1, Units DEF Counted

LEMMA UnitReturned ==
  ASSUME NEW p, NEW a, NEW v \in Nat, Counted(p, a, v),
         NEW q, NEW b, NEW c \in WithUnit(p, a), WithUnit(q, b) = WithUnit(p, a) \ {c}
  PROVE  v + 1 \in Nat /\ Counted(q, b, v + 1)
<1>1. Cardinality(WithUnit(q, b)) = Cardinality(WithUnit(p, a)) - 1
  BY Units, FS_RemoveElement
<1> QED
  BY <1>1, Units DEF Counted

(* A turn in front of another: both are in the queue. *)
LEMMA BeforeMembers ==
  ASSUME NEW s, Distinct(s), NEW c, NEW d, Before(s, c, d)
  PROVE  c \in Members(s) /\ d \in Members(s)
BY DEF Before, Members

(* Two turns in a queue stand in some order. *)
LEMMA BeforeTotal ==
  ASSUME NEW S, NEW s \in Seq(S), NEW c \in Members(s), NEW d \in Members(s), c # d
  PROVE  Before(s, c, d) \/ Before(s, d, c)
<1>1. PICK i \in DOMAIN s, j \in DOMAIN s : s[i] = c /\ s[j] = d
  BY DEF Members
<1>2. i \in Int /\ j \in Int /\ i # j
  BY <1>1, LenProperties
<1> QED
  BY <1>1, <1>2 DEF Before

(* _wake_up_next keeps the shape, and with a unit to give it leaves nobody *)
(* that should be awake asleep.                                            *)
LEMMA WakeKeeps ==
  ASSUME NEW p, NEW a, NEW v \in Nat, v > 0, NEW s, NEW w, NEW l,
         Shape(p, a, v, s, w, l), WakeUpNext(w, a, v)
  PROVE  Shape(p, acq', value', s, w, l) /\ Awake(acq', value')
<1>1. CASE \E c \in Turns : FirstOpen(w, a, c) /\ acq' = [a EXCEPT ![c] = "granted"] /\ value' = v - 1
  <2>1. PICK c \in Turns : FirstOpen(w, a, c) /\ acq' = [a EXCEPT ![c] = "granted"] /\ value' = v - 1
    BY <1>1
  <2>2. a[c] = "pending" /\ p[c] # "idle" /\ p[c] # "holding"
    BY <2>1 DEF Shape, TasksFit, FirstOpen
  <2>3. /\ a \in [Turns -> AcqState]
        /\ acq'[c] = "granted"
        /\ \A x \in Turns : x # c => acq'[x] = a[x]
    BY <2>1 DEF Shape, Typed
  <2>4. WithUnit(p, acq') = WithUnit(p, a) \cup {c} /\ c \notin WithUnit(p, a)
    BY <2>2, <2>3 DEF WithUnit, Given
  <2>5. Counted(p, acq', value') /\ value' \in Nat
    BY <2>1, <2>4, UnitTaken DEF Shape
  <2>6. Typed(p, acq', value', s, w, l)
    BY <2>1, <2>5 DEF Shape, Typed, AcqState
  <2>7. InQueues(p, acq', s, w, l)
    BY <2>2, <2>3 DEF Shape, InQueues, Fresh, Joined
  <2>8. TasksFit(p, acq')
    BY <2>2, <2>3 DEF Shape, TasksFit
  <2>9. OrderKept(acq', s, w, l)
    <3> SUFFICES ASSUME NEW x \in Turns, NEW y \in Turns, Before(l, x, y)
                 PROVE  /\ ~Before(s, y, x) /\ ~Before(w, y, x)
                        /\ acq'[x] \in Fresh => acq'[y] \in Fresh
                        /\ acq'[y] \in Given => acq'[x] \in Given \cup Leaving
      BY DEF OrderKept
    <3>1. /\ ~Before(s, y, x) /\ ~Before(w, y, x)
          /\ a[x] \in Fresh => a[y] \in Fresh
          /\ a[y] \in Given => a[x] \in Given \cup Leaving
      BY DEF Shape, OrderKept
    <3>2. acq'[x] \in Fresh => acq'[y] \in Fresh
      BY <2>2, <2>3, <3>1 DEF Fresh
    <3>3. CASE x = c \/ y # c
      BY <2>2, <2>3, <3>1, <3>2, <3>3 DEF Given
    <3>4. CASE y = c /\ x # c
      <4>1. x \in Members(l)
        BY BeforeMembers DEF Shape, InQueues
      <4>2. a[x] # "none" /\ a[x] \notin Fresh
        BY <2>2, <3>1, <3>4, <4>1 DEF Shape, InQueues, TasksFit, Fresh
      <4>3. a[x] # "pending"
        <5> SUFFICES ASSUME a[x] = "pending" PROVE FALSE
          OBVIOUS
        <5>1. x \in Members(w) /\ c \in Members(w) /\ w \in Seq(Turns)
          BY <2>2 DEF Shape, InQueues, Joined, Typed
        <5>2. Before(w, x, c)
          BY <3>1, <3>4, <5>1, BeforeTotal
        <5>3. PICK i \in DOMAIN w, j \in DOMAIN w : i < j /\ w[i] = x /\ w[j] = c
          BY <5>2 DEF Before
        <5>4. PICK k \in DOMAIN w : w[k] = c /\ \A m \in 1..(k - 1) : a[w[m]] # "pending"
          BY <2>1 DEF FirstOpen
        <5>5. k = j
          BY <5>3, <5>4 DEF Shape, InQueues, Distinct
        <5>6. i \in 1..(k - 1)
          BY <5>1, <5>3, <5>5, LenProperties
        <5> QED
          BY <5>3, <5>4, <5>6
      <4>4. a[x] \in Given \cup Leaving
        BY <2>3, <4>2, <4>3 DEF AcqState, Given, Leaving, Fresh
      <4> QED
        BY <2>3, <3>1, <3>2, <3>4, <4>4
    <3> QED
      BY <3>3, <3>4
  <2> QED
    BY <2>3, <2>5, <2>6, <2>7, <2>8, <2>9 DEF Shape, Awake
<1>2. CASE (\A i \in DOMAIN w : a[w[i]] # "pending") /\ acq' = a /\ value' = v
  <2>1. \A c \in Turns : a[c] # "pending"
    BY <1>2 DEF Shape, InQueues, Members, Joined
  <2> QED
    BY <1>2, <2>1 DEF Awake
<1> QED
  BY <1>1, <1>2 DEF WakeUpNext

----------------------------------------------------------------------------
(* One lemma per action. *)

LEMMA TypesOfIInv ==
  ASSUME IInv
  PROVE  /\ pc \in [Turns -> PcState] /\ acq \in [Turns -> AcqState] /\ value \in Nat
         /\ starting \in Seq(Turns) /\ waiters \in Seq(Turns) /\ line \in Seq(Turns)
BY DEF IInv, Shape, Typed

(* A shut gate has a unit out or a turn in its queue that may want one. *)
LEMMA LockedMeans ==
  ASSUME IInv
  PROVE  Locked <=> value = 0 \/ \E c \in Turns : acq[c] \in Joined \ {"dropped"}
<1>1. (\E i \in DOMAIN waiters : acq[waiters[i]] # "dropped")
        <=> \E c \in Members(waiters) : acq[c] # "dropped"
  BY DEF Members
<1>2. Members(waiters) = {c \in Turns : acq[c] \in Joined}
  BY DEF IInv, Shape, InQueues
<1> QED
  BY <1>1, <1>2 DEF Locked

LEMMA QueuesKeeps ==
  ASSUME IInv, NEW c \in Turns, Queues(c)
  PROVE  IInv'
<1>1. /\ pc[c] = "idle" /\ pc'[c] = "announcing" /\ acq[c] = "none" /\ acq'[c] = "new"
      /\ \A x \in Turns : x # c => pc'[x] = pc[x] /\ acq'[x] = acq[x]
      /\ pc' \in [Turns -> PcState] /\ acq' \in [Turns -> AcqState]
  BY TypesOfIInv DEF Queues, PcState, AcqState
<1>2. /\ c \notin Members(starting) /\ c \notin Members(waiters) /\ c \notin Members(line)
      /\ Distinct(starting) /\ Distinct(waiters) /\ Distinct(line)
  BY <1>1 DEF IInv, Shape, InQueues, Fresh, Joined
<1>3. /\ starting' \in Seq(Turns)
      /\ Distinct(starting')
      /\ Members(starting') = Members(starting) \cup {c}
      /\ \A x, y : Before(starting', x, y)
           => Before(starting, x, y) \/ (x \in Members(starting) /\ y = c)
  BY <1>2, TypesOfIInv, JoinedQueue DEF Queues
<1>4. /\ line' \in Seq(Turns)
      /\ Distinct(line')
      /\ Members(line') = Members(line) \cup {c}
      /\ \A x, y : Before(line', x, y)
           => Before(line, x, y) \/ (x \in Members(line) /\ y = c)
  BY <1>2, TypesOfIInv, JoinedQueue DEF Queues
<1>5. value' = value /\ waiters' = waiters
  BY DEF Queues
<1>6. Typed(pc, acq, value, starting, waiters, line)'
  BY <1>1, <1>3, <1>4, <1>5, TypesOfIInv DEF Typed
<1>7. WithUnit(pc, acq)' = WithUnit(pc, acq)
  BY <1>1 DEF WithUnit, Given
<1>8. Counted(pc, acq, value)'
  BY <1>5, <1>7 DEF IInv, Shape, Counted
<1>9. InQueues(pc, acq, starting, waiters, line)'
  BY <1>1, <1>2, <1>3, <1>4, <1>5 DEF IInv, Shape, InQueues, Fresh, Joined
<1>10. TasksFit(pc, acq)'
  BY <1>1 DEF IInv, Shape, TasksFit
<1>11. OrderKept(acq, starting, waiters, line)'
  <2> SUFFICES ASSUME NEW x \in Turns, NEW y \in Turns, Before(line', x, y)
               PROVE  /\ ~Before(starting', y, x) /\ ~Before(waiters, y, x)
                      /\ acq'[x] \in Fresh => acq'[y] \in Fresh
                      /\ acq'[y] \in Given => acq'[x] \in Given \cup Leaving
    BY <1>5 DEF OrderKept
  <2>1. CASE Before(line, x, y)
    <3>1. x # c /\ y # c
      BY <1>2, <2>1, BeforeMembers
    <3> QED
      BY <1>1, <1>3, <2>1, <3>1 DEF IInv, Shape, OrderKept
  <2>2. CASE x \in Members(line) /\ y = c
    <3>1. ~Before(starting', c, x)
      BY <1>2, <1>3, <2>2, BeforeMembers
    <3>2. ~Before(waiters, c, x)
      BY <1>2, BeforeMembers
    <3> QED
      BY <1>1, <2>2, <3>1, <3>2 DEF Fresh, Given
  <2> QED
    BY <1>4, <2>1, <2>2
<1>12. Awake(acq, value)'
  BY <1>1, <1>5 DEF IInv, Awake
<1> QED
  BY <1>6, <1>8, <1>9, <1>10, <1>11, <1>12 DEF IInv, Shape

LEMMA EntersAtOnceKeeps ==
  ASSUME IInv, NEW c \in Turns, EntersAtOnce(c)
  PROVE  IInv'
<1>1. /\ pc[c] = "idle" /\ pc'[c] = "holding" /\ acq[c] = "none" /\ acq' = acq
      /\ \A x \in Turns : x # c => pc'[x] = pc[x]
      /\ pc' \in [Turns -> PcState]
      /\ starting' = starting /\ waiters' = waiters /\ line' = line
  BY TypesOfIInv DEF EntersAtOnce, PcState
<1>2. value > 0 /\ value' = value - 1
  BY TypesOfIInv, LockedMeans DEF EntersAtOnce
<1>3. WithUnit(pc', acq') = WithUnit(pc, acq) \cup {c} /\ c \notin WithUnit(pc, acq)
  BY <1>1 DEF WithUnit, Given
<1>4. value' \in Nat /\ Counted(pc', acq', value')
  BY <1>2, <1>3, TypesOfIInv, UnitTaken DEF IInv, Shape
<1>5. Typed(pc, acq, value, starting, waiters, line)'
  BY <1>1, <1>4, TypesOfIInv DEF Typed
<1>6. InQueues(pc, acq, starting, waiters, line)'
  BY <1>1 DEF IInv, Shape, InQueues
<1>7. TasksFit(pc, acq)'
  BY <1>1 DEF IInv, Shape, TasksFit
<1>8. OrderKept(acq, starting, waiters, line)'
  BY <1>1 DEF IInv, Shape, OrderKept
<1>9. Awake(acq, value)'
  BY <1>1, <1>2, TypesOfIInv DEF IInv, Awake
<1> QED
  BY <1>4, <1>5, <1>6, <1>7, <1>8, <1>9 DEF IInv, Shape

LEMMA AnnouncedKeeps ==
  ASSUME IInv, NEW c \in Turns, Announced(c)
  PROVE  IInv'
<1>1. /\ pc[c] = "announcing" /\ pc'[c] = "awaiting" /\ acq' = acq /\ value' = value
      /\ \A x \in Turns : x # c => pc'[x] = pc[x]
      /\ pc' \in [Turns -> PcState]
      /\ starting' = starting /\ waiters' = waiters /\ line' = line
  BY TypesOfIInv DEF Announced, PcState
<1>2. WithUnit(pc', acq') = WithUnit(pc, acq)
  BY <1>1 DEF WithUnit
<1>3. Counted(pc, acq, value)'
  BY <1>1, <1>2 DEF IInv, Shape, Counted
<1>4. Typed(pc, acq, value, starting, waiters, line)'
  BY <1>1, TypesOfIInv DEF Typed
<1>5. InQueues(pc, acq, starting, waiters, line)'
  BY <1>1 DEF IInv, Shape, InQueues
<1>6. TasksFit(pc, acq)'
  BY <1>1 DEF IInv, Shape, TasksFit
<1>7. OrderKept(acq, starting, waiters, line)' /\ Awake(acq, value)'
  BY <1>1 DEF IInv, Shape, OrderKept, Awake
<1> QED
  BY <1>3, <1>4, <1>5, <1>6, <1>7 DEF IInv, Shape

(* A turn that leaves the line: what is left of the order. *)
LEMMA LineLeft ==
  ASSUME IInv, NEW c \in Turns, pc[c] \in {"announcing", "awaiting"},
         NEW m, m = Without(line, c)
  PROVE  /\ m \in Seq(Turns) /\ Distinct(m) /\ Members(m) = Members(line) \ {c}
         /\ \A x, y : Before(m, x, y) => Before(line, x, y) /\ x # c /\ y # c
<1>1. c \in Members(line) /\ Distinct(line) /\ line \in Seq(Turns)
  BY TypesOfIInv DEF IInv, Shape, InQueues
<1> QED
  BY <1>1, LeftQueue

LEMMA EntersAfterWaitKeeps ==
  ASSUME IInv, NEW c \in Turns, EntersAfterWait(c)
  PROVE  IInv'
<1>1. /\ pc[c] = "awaiting" /\ pc'[c] = "holding" /\ acq[c] = "done" /\ acq'[c] = "none"
      /\ \A x \in Turns : x # c => pc'[x] = pc[x] /\ acq'[x] = acq[x]
      /\ pc' \in [Turns -> PcState] /\ acq' \in [Turns -> AcqState]
      /\ starting' = starting /\ waiters' = waiters /\ value' = value
  BY TypesOfIInv DEF EntersAfterWait, PcState, AcqState
<1>2. /\ line' \in Seq(Turns) /\ Distinct(line') /\ Members(line') = Members(line) \ {c}
      /\ \A x, y : Before(line', x, y) => Before(line, x, y) /\ x # c /\ y # c
  BY <1>1, LineLeft DEF EntersAfterWait
<1>3. WithUnit(pc', acq') = WithUnit(pc, acq)
  BY <1>1 DEF WithUnit, Given
<1>4. Counted(pc, acq, value)'
  BY <1>1, <1>3 DEF IInv, Shape, Counted
<1>5. Typed(pc, acq, value, starting, waiters, line)'
  BY <1>1, <1>2, TypesOfIInv DEF Typed
<1>6. InQueues(pc, acq, starting, waiters, line)'
  BY <1>1, <1>2 DEF IInv, Shape, InQueues, Fresh, Joined
<1>7. TasksFit(pc, acq)'
  BY <1>1 DEF IInv, Shape, TasksFit
<1>8. OrderKept(acq, starting, waiters, line)'
  BY <1>1, <1>2 DEF IInv, Shape, OrderKept
<1>9. Awake(acq, value)'
  BY <1>1 DEF IInv, Awake
<1> QED
  BY <1>4, <1>5, <1>6, <1>7, <1>8, <1>9 DEF IInv, Shape

LEMMA GivesUpKeeps ==
  ASSUME IInv, NEW c \in Turns, pc[c] \in {"announcing", "awaiting"}, GivesUp(c)
  PROVE  IInv'
<1>1. /\ pc'[c] = "idle" /\ starting' = starting /\ pc' \in [Turns -> PcState]
      /\ \A x \in Turns : x # c => pc'[x] = pc[x]
  BY TypesOfIInv DEF GivesUp, PcState
<1>2. /\ line' \in Seq(Turns) /\ Distinct(line') /\ Members(line') = Members(line) \ {c}
      /\ \A x, y : Before(line', x, y) => Before(line, x, y) /\ x # c /\ y # c
  BY LineLeft DEF GivesUp
<1>3. CASE acq[c] = "done"
  <2> DEFINE a == [acq EXCEPT ![c] = "none"]
  <2>1. /\ a[c] = "none" /\ a \in [Turns -> AcqState]
        /\ \A x \in Turns : x # c => a[x] = acq[x]
    BY TypesOfIInv DEF AcqState
  <2>2. WakeUpNext(waiters, a, value + 1) /\ waiters' = waiters
    BY <1>3 DEF GivesUp, ReleaseSlot
  <2> HIDE DEF a
  <2>3. c \in WithUnit(pc, acq) /\ WithUnit(pc', a) = WithUnit(pc, acq) \ {c}
    BY <1>1, <1>3, <2>1 DEF WithUnit, Given
  <2>4. value + 1 \in Nat /\ value + 1 > 0 /\ Counted(pc', a, value + 1)
    BY <2>3, TypesOfIInv, UnitReturned DEF IInv, Shape
  <2>5. Typed(pc', a, value + 1, starting, waiters, line')
    BY <1>1, <1>2, <2>1, <2>4, TypesOfIInv DEF Typed
  <2>6. InQueues(pc', a, starting, waiters, line')
    BY <1>1, <1>2, <1>3, <2>1 DEF IInv, Shape, InQueues, Fresh, Joined
  <2>7. TasksFit(pc', a)
    BY <1>1, <2>1 DEF IInv, Shape, TasksFit
  <2>8. OrderKept(a, starting, waiters, line')
    BY <1>2, <2>1 DEF IInv, Shape, OrderKept
  <2>9. Shape(pc', a, value + 1, starting, waiters, line')
    BY <2>4, <2>5, <2>6, <2>7, <2>8 DEF Shape
  <2>10. Shape(pc', acq', value', starting, waiters, line') /\ Awake(acq', value')
    BY <2>2, <2>4, <2>9, WakeKeeps
  <2> QED
    BY <1>1, <2>2, <2>10 DEF IInv
<1>4. CASE acq[c] # "done"
  <2>1. /\ acq' = IF acq[c] = "cancelled" THEN [acq EXCEPT ![c] = "none"] ELSE CancelAcquire(c)
        /\ value' = value /\ waiters' = waiters
    BY <1>4 DEF GivesUp
  <2>2. acq[c] \in {"new", "newCancelled", "pending", "dropped", "granted", "grantedCancelled",
                    "cancelled"}
    BY <1>4, TypesOfIInv DEF IInv, Shape, TasksFit, AcqState
  <2>3. /\ \A x \in Turns : x # c => acq'[x] = acq[x]
        /\ acq'[c] \in {"none", "newCancelled", "dropped", "grantedCancelled"}
        /\ acq' \in [Turns -> AcqState]
        /\ acq[c] \in Fresh <=> acq'[c] \in Fresh
        /\ acq[c] \in Joined <=> acq'[c] \in Joined
        /\ acq[c] \in Given <=> acq'[c] \in Given
        /\ acq[c] \in {"granted", "grantedCancelled"} => acq'[c] = "grantedCancelled"
    BY <2>1, <2>2, TypesOfIInv DEF CancelAcquire, AcqState, Fresh, Joined, Given
  <2>4. WithUnit(pc', acq') = WithUnit(pc, acq)
    BY <1>1, <2>3 DEF WithUnit
  <2>5. Counted(pc, acq, value)'
    BY <2>1, <2>4 DEF IInv, Shape, Counted
  <2>6. Typed(pc, acq, value, starting, waiters, line)'
    BY <1>1, <1>2, <2>1, <2>3, TypesOfIInv DEF Typed
  <2>7. InQueues(pc, acq, starting, waiters, line)'
    BY <1>1, <1>2, <2>1, <2>3 DEF IInv, Shape, InQueues
  <2>8. TasksFit(pc, acq)'
    BY <1>1, <2>3 DEF IInv, Shape, TasksFit
  <2>9. OrderKept(acq, starting, waiters, line)'
    BY <1>1, <1>2, <2>1, <2>3 DEF IInv, Shape, OrderKept
  <2>10. Awake(acq, value)'
    BY <2>1, <2>3 DEF IInv, Awake
  <2> QED
    BY <2>5, <2>6, <2>7, <2>8, <2>9, <2>10 DEF IInv, Shape
<1> QED
  BY <1>3, <1>4

(* The caller is cancelled while its acquire task has not ended. *)
LEMMA CancelKeeps ==
  ASSUME IInv, NEW c \in Turns, pc[c] = "awaiting", acq[c] \notin {"done", "cancelled"},
         acq' = CancelAcquire(c), UNCHANGED <<pc, starting, value, waiters, line>>
  PROVE  IInv'
<1>1. acq[c] \in {"new", "newCancelled", "pending", "dropped", "granted", "grantedCancelled"}
  BY TypesOfIInv DEF IInv, Shape, TasksFit, AcqState
<1>2. /\ \A x \in Turns : x # c => acq'[x] = acq[x]
      /\ acq'[c] \in {"newCancelled", "dropped", "grantedCancelled"}
      /\ acq' \in [Turns -> AcqState]
      /\ acq[c] \in Fresh <=> acq'[c] \in Fresh
      /\ acq[c] \in Joined <=> acq'[c] \in Joined
      /\ acq[c] \in Given <=> acq'[c] \in Given
      /\ acq[c] \in {"granted", "grantedCancelled"} => acq'[c] = "grantedCancelled"
  BY <1>1, TypesOfIInv DEF CancelAcquire, AcqState, Fresh, Joined, Given
<1>3. WithUnit(pc', acq') = WithUnit(pc, acq)
  BY <1>2 DEF WithUnit
<1>4. Counted(pc, acq, value)'
  BY <1>3 DEF IInv, Shape, Counted
<1>5. Typed(pc, acq, value, starting, waiters, line)'
  BY <1>2, TypesOfIInv DEF Typed
<1>6. InQueues(pc, acq, starting, waiters, line)'
  BY <1>2 DEF IInv, Shape, InQueues
<1>7. TasksFit(pc, acq)'
  BY <1>2 DEF IInv, Shape, TasksFit
<1>8. OrderKept(acq, starting, waiters, line)'
  <2> SUFFICES ASSUME NEW x \in Turns, NEW y \in Turns, Before(line, x, y)
               PROVE  /\ acq'[x] \in Fresh => acq'[y] \in Fresh
                      /\ acq'[y] \in Given => acq'[x] \in Given \cup Leaving
    BY DEF IInv, Shape, OrderKept
  <2>1. /\ acq[x] \in Fresh => acq[y] \in Fresh
        /\ acq[y] \in Given => acq[x] \in Given \cup Leaving
    BY DEF IInv, Shape, OrderKept
  <2> QED
    BY <1>2, <2>1 DEF Leaving
<1>9. Awake(acq, value)'
  BY <1>2 DEF IInv, Awake
<1> QED
  BY <1>4, <1>5, <1>6, <1>7, <1>8, <1>9 DEF IInv, Shape

LEMMA CancelledAwaitingKeeps ==
  ASSUME IInv, NEW c \in Turns, CancelledAwaiting(c)
  PROVE  IInv'
<1>1. pc[c] = "awaiting"
  BY DEF CancelledAwaiting
<1>2. CASE acq[c] \in {"done", "cancelled"}
  BY <1>1, <1>2, GivesUpKeeps DEF CancelledAwaiting
<1>3. CASE acq[c] \notin {"done", "cancelled"}
  BY <1>1, <1>3, CancelKeeps DEF CancelledAwaiting
<1> QED
  BY <1>2, <1>3

LEMMA LeavesKeeps ==
  ASSUME IInv, NEW c \in Turns, Leaves(c)
  PROVE  IInv'
<1>1. /\ pc[c] = "holding" /\ pc'[c] = "idle" /\ pc' \in [Turns -> PcState]
      /\ \A x \in Turns : x # c => pc'[x] = pc[x]
      /\ starting' = starting /\ line' = line
      /\ WakeUpNext(waiters, acq, value + 1) /\ waiters' = waiters
  BY TypesOfIInv DEF Leaves, ReleaseSlot, PcState
<1>2. acq[c] = "none"
  BY <1>1 DEF IInv, Shape, TasksFit
<1>3. c \in WithUnit(pc, acq) /\ WithUnit(pc', acq) = WithUnit(pc, acq) \ {c}
  BY <1>1, <1>2 DEF WithUnit, Given
<1>4. value + 1 \in Nat /\ value + 1 > 0 /\ Counted(pc', acq, value + 1)
  BY <1>3, TypesOfIInv, UnitReturned DEF IInv, Shape
<1>5. Typed(pc', acq, value + 1, starting, waiters, line)
  BY <1>1, <1>4, TypesOfIInv DEF Typed
<1>6. InQueues(pc', acq, starting, waiters, line)
  BY <1>1 DEF IInv, Shape, InQueues
<1>7. TasksFit(pc', acq)
  BY <1>1, <1>2 DEF IInv, Shape, TasksFit
<1>8. Shape(pc', acq, value + 1, starting, waiters, line)
  BY <1>4, <1>5, <1>6, <1>7 DEF IInv, Shape
<1>9. Shape(pc', acq', value', starting, waiters, line) /\ Awake(acq', value')
  BY <1>1, <1>4, <1>8, WakeKeeps
<1> QED
  BY <1>1, <1>9 DEF IInv

(* The task the loop runs next is of the turn that came first. *)
LEMMA StartsKeeps ==
  ASSUME IInv, NEW c \in Turns, AcquireStarts(c)
  PROVE  IInv'
<1>1. /\ starting # <<>> /\ c = Head(starting) /\ starting' = Tail(starting)
      /\ pc' = pc /\ line' = line
  BY DEF AcquireStarts
<1>2. /\ c \in Members(starting) /\ starting' \in Seq(Turns) /\ Distinct(starting')
      /\ Members(starting') = Members(starting) \ {c}
      /\ \A x, y : Before(starting', x, y) => Before(starting, x, y)
      /\ \A x \in Members(starting) : x # c => Before(starting, c, x)
  BY <1>1, TypesOfIInv, TailQueue DEF IInv, Shape, InQueues
<1>3. /\ acq[c] \in Fresh /\ c \notin Members(waiters) /\ pc[c] # "holding"
      /\ pc[c] = "idle" => acq[c] = "newCancelled"
  BY <1>2 DEF IInv, Shape, InQueues, TasksFit, Fresh, Joined
<1>4. ASSUME NEW x \in Turns, Before(line, x, c)
      PROVE  x # c /\ acq[x] \notin Fresh /\ acq[x] # "none"
  <2>1. x \in Members(line) /\ c \in Members(line) /\ x # c
    <3>1. Distinct(line) /\ DOMAIN line = 1..Len(line)
      BY TypesOfIInv, LenProperties DEF IInv, Shape, InQueues
    <3>2. x \in Members(line) /\ c \in Members(line)
      BY <1>4, <3>1, BeforeMembers
    <3>3. PICK i \in DOMAIN line, j \in DOMAIN line : i < j /\ line[i] = x /\ line[j] = c
      BY <1>4 DEF Before
    <3>4. i # j
      BY <3>1, <3>3
    <3> QED
      BY <3>1, <3>2, <3>3, <3>4 DEF Distinct
  <2>2. ~Before(starting, c, x)
    BY <1>4 DEF IInv, Shape, OrderKept
  <2>3. x \notin Members(starting)
    BY <1>2, <2>1, <2>2
  <2> QED
    BY <2>1, <2>3 DEF IInv, Shape, InQueues, TasksFit
<1>5. CASE acq[c] = "newCancelled" /\ acq' = [acq EXCEPT ![c] = Ended(c, "cancelled")]
           /\ UNCHANGED <<value, waiters>>
  <2>1. /\ \A x \in Turns : x # c => acq'[x] = acq[x]
        /\ acq'[c] = IF pc[c] = "idle" THEN "none" ELSE "cancelled"
        /\ acq' \in [Turns -> AcqState]
    BY <1>5, TypesOfIInv DEF Ended, AcqState
  <2>2. WithUnit(pc', acq') = WithUnit(pc, acq)
    BY <1>1, <1>5, <2>1 DEF WithUnit, Given
  <2>3. Counted(pc, acq, value)'
    BY <1>5, <2>2 DEF IInv, Shape, Counted
  <2>4. Typed(pc, acq, value, starting, waiters, line)'
    BY <1>1, <1>2, <1>5, <2>1, TypesOfIInv DEF Typed
  <2>5. InQueues(pc, acq, starting, waiters, line)'
    BY <1>1, <1>2, <1>3, <1>5, <2>1 DEF IInv, Shape, InQueues, Fresh, Joined
  <2>6. TasksFit(pc, acq)'
    BY <1>1, <1>3, <2>1 DEF IInv, Shape, TasksFit
  <2>7. OrderKept(acq, starting, waiters, line)'
    BY <1>1, <1>2, <1>4, <1>5, <2>1 DEF IInv, Shape, OrderKept, Fresh, Given, Leaving
  <2>8. Awake(acq, value)'
    BY <1>5, <2>1 DEF IInv, Awake
  <2> QED
    BY <2>3, <2>4, <2>5, <2>6, <2>7, <2>8 DEF IInv, Shape
<1>6. CASE acq[c] = "new" /\ ~Locked /\ acq' = [acq EXCEPT ![c] = "done"]
           /\ value' = value - 1 /\ UNCHANGED waiters
  <2>1. /\ \A x \in Turns : x # c => acq'[x] = acq[x]
        /\ acq'[c] = "done" /\ acq' \in [Turns -> AcqState]
    BY <1>6, TypesOfIInv DEF AcqState
  <2>2. value > 0 /\ \A x \in Turns : acq[x] \notin Joined \ {"dropped"}
    BY <1>6, TypesOfIInv, LockedMeans
  <2>3. c \notin WithUnit(pc, acq) /\ WithUnit(pc', acq') = WithUnit(pc, acq) \cup {c}
    BY <1>1, <1>3, <1>6, <2>1 DEF WithUnit, Given
  <2>4. value' \in Nat /\ Counted(pc, acq, value)'
    BY <1>6, <2>2, <2>3, TypesOfIInv, UnitTaken DEF IInv, Shape
  <2>5. Typed(pc, acq, value, starting, waiters, line)'
    BY <1>1, <1>2, <1>6, <2>1, <2>4, TypesOfIInv DEF Typed
  <2>6. InQueues(pc, acq, starting, waiters, line)'
    BY <1>1, <1>2, <1>3, <1>6, <2>1 DEF IInv, Shape, InQueues, Fresh, Joined
  <2>7. TasksFit(pc, acq)'
    BY <1>1, <1>3, <1>6, <2>1 DEF IInv, Shape, TasksFit
  <2>8. OrderKept(acq, starting, waiters, line)'
    <3> SUFFICES ASSUME NEW x \in Turns, NEW y \in Turns, Before(line, x, y)
                 PROVE  /\ ~Before(starting', y, x) /\ ~Before(waiters, y, x)
                        /\ acq'[x] \in Fresh => acq'[y] \in Fresh
                        /\ acq'[y] \in Given => acq'[x] \in Given \cup Leaving
      BY <1>1, <1>6 DEF OrderKept
    <3>1. /\ ~Before(starting', y, x) /\ ~Before(waiters, y, x)
          /\ acq[x] \in Fresh => acq[y] \in Fresh
          /\ acq[y] \in Given => acq[x] \in Given \cup Leaving
      BY <1>2 DEF IInv, Shape, OrderKept
    <3>2. CASE y = c
      <4>1. x # c /\ acq[x] \notin Fresh /\ acq[x] # "none" /\ acq[x] \in AcqState
        BY <1>4, <3>2, TypesOfIInv
      <4>2. acq[x] \in Given \cup Leaving
        BY <2>2, <4>1 DEF AcqState, Fresh, Joined, Given, Leaving
      <4> QED
        BY <2>1, <3>1, <4>1, <4>2
    <3>3. CASE y # c
      BY <2>1, <3>1, <3>3 DEF Fresh, Given
    <3> QED
      BY <3>2, <3>3
  <2>9. Awake(acq, value)'
    BY <2>1, <2>2 DEF Awake, Joined
  <2> QED
    BY <2>4, <2>5, <2>6, <2>7, <2>8, <2>9 DEF IInv, Shape
<1>7. CASE acq[c] = "new" /\ Locked /\ acq' = [acq EXCEPT ![c] = "pending"]
           /\ waiters' = Append(waiters, c) /\ UNCHANGED value
  <2>1. /\ \A x \in Turns : x # c => acq'[x] = acq[x]
        /\ acq'[c] = "pending" /\ acq' \in [Turns -> AcqState]
    BY <1>7, TypesOfIInv DEF AcqState
  <2>2. /\ waiters' \in Seq(Turns) /\ Distinct(waiters')
        /\ Members(waiters') = Members(waiters) \cup {c}
        /\ \A x, y : Before(waiters', x, y)
             => Before(waiters, x, y) \/ (x \in Members(waiters) /\ y = c)
    BY <1>3, <1>7, TypesOfIInv, JoinedQueue DEF IInv, Shape, InQueues
  <2>3. WithUnit(pc', acq') = WithUnit(pc, acq)
    BY <1>1, <1>7, <2>1 DEF WithUnit, Given
  <2>4. Counted(pc, acq, value)'
    BY <1>7, <2>3 DEF IInv, Shape, Counted
  <2>5. Typed(pc, acq, value, starting, waiters, line)'
    BY <1>1, <1>2, <1>7, <2>1, <2>2, TypesOfIInv DEF Typed
  <2>6. InQueues(pc, acq, starting, waiters, line)'
    BY <1>1, <1>2, <1>7, <2>1, <2>2 DEF IInv, Shape, InQueues, Fresh, Joined
  <2>7. TasksFit(pc, acq)'
    BY <1>1, <1>3, <1>7, <2>1 DEF IInv, Shape, TasksFit
  <2>8. OrderKept(acq, starting, waiters, line)'
    <3> SUFFICES ASSUME NEW x \in Turns, NEW y \in Turns, Before(line, x, y)
                 PROVE  /\ ~Before(starting', y, x) /\ ~Before(waiters', y, x)
                        /\ acq'[x] \in Fresh => acq'[y] \in Fresh
                        /\ acq'[y] \in Given => acq'[x] \in Given \cup Leaving
      BY <1>1 DEF OrderKept
    <3>1. /\ ~Before(starting', y, x) /\ ~Before(waiters, y, x)
          /\ acq[x] \in Fresh => acq[y] \in Fresh
          /\ acq[y] \in Given => acq[x] \in Given \cup Leaving
      BY <1>2 DEF IInv, Shape, OrderKept
    <3>2. ~(y \in Members(waiters) /\ x = c)
      BY <1>3, <3>1 DEF IInv, Shape, InQueues, Fresh, Joined
    <3>3. ~Before(waiters', y, x)
      BY <2>2, <3>1, <3>2
    <3>4. acq'[x] \in Fresh => acq'[y] \in Fresh
      BY <1>4, <2>1, <3>1 DEF Fresh
    <3>5. acq'[y] \in Given => acq'[x] \in Given \cup Leaving
      <4>1. acq'[y] \in Given => y # c /\ acq[y] \in Given
        BY <2>1 DEF Given
      <4>2. acq[c] \notin Given \cup Leaving
        BY <1>7 DEF Given, Leaving
      <4> QED
        BY <2>1, <3>1, <4>1, <4>2
    <3> QED
      BY <3>1, <3>3, <3>4, <3>5
  <2>9. Awake(acq, value)'
    <3> SUFFICES ASSUME value > 0 PROVE \E x \in Turns : acq'[x] \in {"granted", "grantedCancelled"}
      BY <1>7 DEF Awake
    <3>1. PICK x \in Turns : acq[x] \in Joined \ {"dropped"}
      BY <1>7, TypesOfIInv, LockedMeans
    <3>2. \E y \in Turns : acq[y] \in {"granted", "grantedCancelled"}
      BY <3>1 DEF IInv, Awake, Joined
    <3> QED
      BY <1>7, <2>1, <3>2
  <2> QED
    BY <2>4, <2>5, <2>6, <2>7, <2>8, <2>9 DEF IInv, Shape
<1> QED
  BY <1>5, <1>6, <1>7 DEF AcquireStarts

(* A waiter that leaves the deque of the semaphore. *)
LEMMA WaiterLeft ==
  ASSUME IInv, NEW c \in Turns, acq[c] \in Joined,
         NEW m, m = Without(waiters, c)
  PROVE  /\ m \in Seq(Turns) /\ Distinct(m) /\ Members(m) = Members(waiters) \ {c}
         /\ \A x, y : Before(m, x, y) => Before(waiters, x, y)
<1>1. c \in Members(waiters) /\ Distinct(waiters) /\ waiters \in Seq(Turns)
  BY TypesOfIInv DEF IInv, Shape, InQueues
<1> QED
  BY <1>1, LeftQueue

LEMMA ResumesKeeps ==
  ASSUME IInv, NEW c \in Turns, AcquireResumes(c)
  PROVE  IInv'
<1> DEFINE a == [acq EXCEPT ![c] = "done"]
           w == Without(waiters, c)
<1>1. /\ acq[c] = "granted" /\ waiters' = w
      /\ pc' = pc /\ starting' = starting /\ line' = line
      /\ IF value > 0 THEN WakeUpNext(w, a, value) ELSE acq' = a /\ UNCHANGED value
  BY DEF AcquireResumes
<1>2. /\ \A x \in Turns : x # c => a[x] = acq[x]
      /\ a[c] = "done" /\ a \in [Turns -> AcqState]
  BY TypesOfIInv DEF AcqState
<1>3. /\ w \in Seq(Turns) /\ Distinct(w) /\ Members(w) = Members(waiters) \ {c}
      /\ \A x, y : Before(w, x, y) => Before(waiters, x, y)
  BY <1>1, WaiterLeft DEF Joined
<1> HIDE DEF a, w
<1>4. WithUnit(pc, a) = WithUnit(pc, acq)
  BY <1>1, <1>2 DEF WithUnit, Given
<1>5. Counted(pc, a, value)
  BY <1>4 DEF IInv, Shape, Counted
<1>6. Typed(pc, a, value, starting, w, line)
  BY <1>2, <1>3, TypesOfIInv DEF Typed
<1>7. InQueues(pc, a, starting, w, line)
  BY <1>1, <1>2, <1>3 DEF IInv, Shape, InQueues, Fresh, Joined
<1>8. TasksFit(pc, a)
  BY <1>1, <1>2 DEF IInv, Shape, TasksFit
<1>9. OrderKept(a, starting, w, line)
  <2> SUFFICES ASSUME NEW x \in Turns, NEW y \in Turns, Before(line, x, y)
               PROVE  /\ ~Before(starting, y, x) /\ ~Before(w, y, x)
                      /\ a[x] \in Fresh => a[y] \in Fresh
                      /\ a[y] \in Given => a[x] \in Given \cup Leaving
    BY DEF OrderKept
  <2>1. /\ ~Before(starting, y, x) /\ ~Before(waiters, y, x)
        /\ acq[x] \in Fresh => acq[y] \in Fresh
        /\ acq[y] \in Given => acq[x] \in Given \cup Leaving
    BY DEF IInv, Shape, OrderKept
  <2>2. acq[c] \in Given /\ a[c] \in Given /\ acq[c] \notin Fresh /\ a[c] \notin Fresh
    BY <1>1, <1>2 DEF Given, Fresh
  <2> QED
    BY <1>2, <1>3, <2>1, <2>2
<1>10. Shape(pc, a, value, starting, w, line)
  BY <1>5, <1>6, <1>7, <1>8, <1>9 DEF Shape
<1>11. CASE value > 0
  BY <1>1, <1>10, <1>11, TypesOfIInv, WakeKeeps DEF IInv
<1>12. CASE ~(value > 0)
  <2>1. acq' = a /\ value' = value
    BY <1>1, <1>12
  <2>2. Awake(acq', value')
    BY <1>12, <2>1 DEF Awake
  <2> QED
    BY <1>1, <1>10, <2>1, <2>2 DEF IInv
<1> QED
  BY <1>11, <1>12

LEMMA UnwindsKeeps ==
  ASSUME IInv, NEW c \in Turns, AcquireUnwinds(c)
  PROVE  IInv'
<1> DEFINE a == [acq EXCEPT ![c] = Ended(c, "cancelled")]
           w == Without(waiters, c)
<1>1. /\ pc' = pc /\ starting' = starting /\ line' = line /\ waiters' = w
      /\ \/ acq[c] = "dropped" /\ acq' = a /\ value' = value
         \/ acq[c] = "grantedCancelled" /\ WakeUpNext(w, a, value + 1)
  BY DEF AcquireUnwinds
<1>2. /\ \A x \in Turns : x # c => a[x] = acq[x]
      /\ a[c] = IF pc[c] = "idle" THEN "none" ELSE "cancelled"
      /\ a \in [Turns -> AcqState]
  BY TypesOfIInv DEF Ended, AcqState
<1>3. /\ w \in Seq(Turns) /\ Distinct(w) /\ Members(w) = Members(waiters) \ {c}
      /\ \A x, y : Before(w, x, y) => Before(waiters, x, y)
  BY <1>1, WaiterLeft DEF Joined
<1> HIDE DEF a, w
<1>4. acq[c] \in {"dropped", "grantedCancelled"}
  BY <1>1
<1>5. InQueues(pc, a, starting, w, line)
  BY <1>2, <1>3, <1>4 DEF IInv, Shape, InQueues, Fresh, Joined
<1>6. TasksFit(pc, a)
  BY <1>2, <1>4 DEF IInv, Shape, TasksFit
<1>7. OrderKept(a, starting, w, line)
  <2> SUFFICES ASSUME NEW x \in Turns, NEW y \in Turns, Before(line, x, y)
               PROVE  /\ ~Before(starting, y, x) /\ ~Before(w, y, x)
                      /\ a[x] \in Fresh => a[y] \in Fresh
                      /\ a[y] \in Given => a[x] \in Given \cup Leaving
    BY DEF OrderKept
  <2>1. /\ ~Before(starting, y, x) /\ ~Before(waiters, y, x)
        /\ acq[x] \in Fresh => acq[y] \in Fresh
        /\ acq[y] \in Given => acq[x] \in Given \cup Leaving
    BY DEF IInv, Shape, OrderKept
  <2>2. x = c => a[c] = "cancelled"
    BY <1>2, BeforeMembers DEF IInv, Shape, InQueues
  <2>3. acq[c] \notin Fresh /\ a[c] \notin Fresh /\ a[c] \notin Given
    BY <1>2, <1>4 DEF Fresh, Given
  <2>4. a[y] \in Given => a[x] \in Given \cup Leaving
    BY <1>2, <2>1, <2>2, <2>3 DEF Leaving
  <2> QED
    BY <1>2, <1>3, <2>1, <2>3, <2>4
<1>8. CASE acq[c] = "dropped" /\ acq' = a /\ value' = value
  <2>1. WithUnit(pc, a) = WithUnit(pc, acq)
    BY <1>2, <1>8 DEF WithUnit, Given
  <2>2. Counted(pc, a, value)
    BY <2>1 DEF IInv, Shape, Counted
  <2>3. Typed(pc, a, value, starting, w, line)
    BY <1>2, <1>3, TypesOfIInv DEF Typed
  <2>4. Awake(a, value)
    BY <1>2, <1>8 DEF IInv, Awake
  <2> QED
    BY <1>1, <1>5, <1>6, <1>7, <1>8, <2>2, <2>3, <2>4 DEF IInv, Shape
<1>9. CASE acq[c] = "grantedCancelled" /\ WakeUpNext(w, a, value + 1)
  <2>1. pc[c] # "holding"
    BY <1>9 DEF IInv, Shape, TasksFit
  <2>2. c \in WithUnit(pc, acq) /\ WithUnit(pc, a) = WithUnit(pc, acq) \ {c}
    BY <1>2, <1>9, <2>1 DEF WithUnit, Given
  <2>3. value + 1 \in Nat /\ value + 1 > 0 /\ Counted(pc, a, value + 1)
    BY <2>2, TypesOfIInv, UnitReturned DEF IInv, Shape
  <2>4. Typed(pc, a, value + 1, starting, w, line)
    BY <1>2, <1>3, <2>3, TypesOfIInv DEF Typed
  <2>5. Shape(pc, a, value + 1, starting, w, line)
    BY <1>5, <1>6, <1>7, <2>3, <2>4 DEF Shape
  <2>6. Shape(pc, acq', value', starting, w, line) /\ Awake(acq', value')
    BY <1>9, <2>3, <2>5, WakeKeeps
  <2> QED
    BY <1>1, <2>6 DEF IInv
<1> QED
  BY <1>1, <1>8, <1>9

----------------------------------------------------------------------------
(* The invariant. *)

LEMMA InitIInv == Init => IInv
<1> SUFFICES ASSUME Init PROVE IInv
  OBVIOUS
<1>1. <<>> \in Seq(Turns)
  OBVIOUS
<1>2. WithUnit(pc, acq) = {}
  BY DEF Init, WithUnit, Given
<1>3. Counted(pc, acq, value) /\ value \in Nat
  BY <1>2, GateAssumption, FS_EmptySet DEF Init, Counted
<1>4. Typed(pc, acq, value, starting, waiters, line)
  BY <1>1, <1>3 DEF Init, Typed, PcState, AcqState
<1>5. InQueues(pc, acq, starting, waiters, line)
  BY EmptyQueue DEF Init, InQueues, Fresh, Joined
<1>6. OrderKept(acq, starting, waiters, line)
  BY EmptyQueue DEF Init, OrderKept
<1> QED
  BY <1>3, <1>4, <1>5, <1>6 DEF Init, IInv, Shape, TasksFit, Awake

LEMMA NextKeepsIInv == IInv /\ [Next]_vars => IInv'
<1> SUFFICES ASSUME IInv, [Next]_vars PROVE IInv'
  OBVIOUS
<1>1. CASE UNCHANGED vars
  BY <1>1 DEF vars, IInv, Shape, Typed, Counted, WithUnit, InQueues, TasksFit, OrderKept, Awake
<1>2. ASSUME NEW c \in Turns, AnnouncementFails(c) \/ AcquireRaises(c) PROVE IInv'
  BY <1>2, GivesUpKeeps DEF AnnouncementFails, AcquireRaises
<1>3. ASSUME NEW c \in Turns, AcquireStep(c) PROVE IInv'
  BY <1>3, StartsKeeps, ResumesKeeps, UnwindsKeeps DEF AcquireStep
<1> QED
  BY <1>1, <1>2, <1>3, QueuesKeeps, EntersAtOnceKeeps, AnnouncedKeeps, EntersAfterWaitKeeps,
     CancelledAwaitingKeeps, LeavesKeeps DEF Next, CallerProceeds

(* Whatever fails or is cancelled at whatever await of GenerationGate.slot *)
(* (agent/limits.py), for any number of turns and any cap: the free units  *)
(* and those given out are the cap, no turn sleeps while a unit is free    *)
(* and nobody is on the way to pass it on, and turns that found the gate   *)
(* full get their slots in the order they came.                            *)
THEOREM GateIsSound == Spec => []GateSound
<1>1. IInv => GateSound
  <2> SUFFICES ASSUME IInv PROVE GateSound
    OBVIOUS
  <2>1. WithUnit(pc, acq) = {c \in Turns : HasSlot(c)}
    BY DEF WithUnit, HasSlot, Given
  <2>2. SlotsAccounted
    BY <2>1 DEF IInv, Shape, Counted, SlotsAccounted
  <2>3. TypeOK
    BY TypesOfIInv, Units, GateAssumption DEF TypeOK, IInv, Shape, Counted
  <2>4. NoLostWakeup
    BY DEF IInv, Awake, NoLostWakeup
  <2>5. WaitersServedInOrder
    <3> SUFFICES ASSUME NEW i \in DOMAIN line, NEW j \in DOMAIN line, i < j, HasSlot(line[j])
                 PROVE  HasSlot(line[i]) \/ acq[line[i]] \in Leaving
      BY DEF WaitersServedInOrder
    <3>1. Before(line, line[i], line[j])
      BY DEF Before
    <3>2. line[i] \in Turns /\ line[j] \in Turns
      BY TypesOfIInv, ElementOfSeq, LenProperties
    <3>3. pc[line[j]] # "holding"
      BY DEF IInv, Shape, InQueues, Members
    <3>4. acq[line[j]] \in Given
      BY <3>3 DEF HasSlot, Given
    <3>5. acq[line[i]] \in Given \cup Leaving
      BY <3>1, <3>2, <3>4 DEF IInv, Shape, OrderKept
    <3> QED
      BY <3>5 DEF HasSlot, Given
  <2> QED
    BY <2>2, <2>3, <2>4, <2>5 DEF GateSound
<1> QED
  BY <1>1, InitIInv, NextKeepsIInv, PTL DEF Spec

LEMMA SameCardinality == \A S : Slots!Cardinality(S) = Cardinality(S)
BY DEF Slots!Cardinality, Cardinality

(* Every step of the gate, the hand-over of a unit, a cancel or a failure  *)
(* in whatever state included, is a step of the abstract cap of            *)
(* BoundedSlots or changes nothing it sees: who asks for a slot, who has   *)
(* one, and that there are never more than Cap of them.                    *)
THEOREM GateImplementsSlots == Spec => ImplementsSlots
<1> DEFINE Asking == {c \in Turns : pc[c] \in {"announcing", "awaiting"}}
           Working == {c \in Turns : pc[c] = "holding"}
<1>1. Init => Slots!SlotsInit
  BY DEF Init, Slots!SlotsInit
<1>2. IInv /\ IInv' /\ [Next]_vars => [Slots!SlotsNext]_Slots!slotVars
  <2> SUFFICES ASSUME IInv, IInv', [Next]_vars PROVE [Slots!SlotsNext]_Slots!slotVars
    OBVIOUS
  <2>1. ASSUME pc' = pc PROVE UNCHANGED Slots!slotVars
    BY <2>1 DEF Slots!slotVars
  <2>2. ASSUME NEW c \in Turns, pc[c] = "idle", pc' = [pc EXCEPT ![c] = "announcing"]
        PROVE  Slots!Ask(c)
    BY <2>2, TypesOfIInv DEF Slots!Ask
  <2>3. ASSUME NEW c \in Turns, pc[c] # "holding", pc' = [pc EXCEPT ![c] = "holding"],
               c \notin WithUnit(pc, acq) => value > 0
        PROVE  Slots!Enter(c)
    <3>1. Working \subseteq WithUnit(pc, acq) /\ c \notin Working
      BY <2>3 DEF WithUnit
    <3>2. Cardinality(Working) < Cap
      <4>1. CASE c \in WithUnit(pc, acq)
        <5>1. Working \subseteq WithUnit(pc, acq) \ {c}
          BY <3>1
        <5>2. /\ IsFiniteSet(WithUnit(pc, acq) \ {c})
              /\ Cardinality(WithUnit(pc, acq) \ {c}) = Cardinality(WithUnit(pc, acq)) - 1
          BY <4>1, Units, FS_RemoveElement
        <5>3. Cardinality(Working) <= Cardinality(WithUnit(pc, acq)) - 1
          BY <5>1, <5>2, FS_Subset
        <5> QED
          BY <5>3, Units, FS_Subset, FS_CardinalityType, <3>1, TypesOfIInv, GateAssumption
             DEF IInv, Shape, Counted
      <4>2. CASE value > 0
        BY <3>1, <4>2, Units, FS_Subset, FS_CardinalityType, TypesOfIInv, GateAssumption
           DEF IInv, Shape, Counted
      <4> QED
        BY <2>3, <4>1, <4>2
    <3>3. Working' = Working \cup {c} /\ Asking' = Asking \ {c}
      BY <2>3, TypesOfIInv
    <3> QED
      BY <3>1, <3>2, <3>3, SameCardinality DEF Slots!Enter
  <2>4. ASSUME NEW c \in Turns, pc[c] \in {"announcing", "awaiting"},
               pc' = [pc EXCEPT ![c] = "idle"]
        PROVE  Slots!Abandon(c)
    BY <2>4, TypesOfIInv DEF Slots!Abandon
  <2>5. ASSUME NEW c \in Turns, Leaves(c) PROVE Slots!Leave(c)
    BY <2>5, TypesOfIInv DEF Leaves, Slots!Leave
  <2>6. ASSUME NEW c \in Turns, Queues(c) PROVE Slots!Ask(c)
    BY <2>2, <2>6 DEF Queues
  <2>7. ASSUME NEW c \in Turns, EntersAtOnce(c) PROVE Slots!Enter(c)
    <3>1. pc[c] # "holding" /\ pc' = [pc EXCEPT ![c] = "holding"] /\ value > 0
      BY <2>7, LockedMeans, TypesOfIInv DEF EntersAtOnce
    <3> QED
      BY <2>3, <3>1
  <2>8. ASSUME NEW c \in Turns, EntersAfterWait(c) PROVE Slots!Enter(c)
    BY <2>3, <2>8 DEF EntersAfterWait, WithUnit, Given
  <2>9. ASSUME NEW c \in Turns, Announced(c) PROVE UNCHANGED Slots!slotVars
    BY <2>9, TypesOfIInv DEF Announced, Slots!slotVars
  <2>10. ASSUME NEW c \in Turns, AcquireRaises(c) \/ AnnouncementFails(c) PROVE Slots!Abandon(c)
    BY <2>4, <2>10 DEF AcquireRaises, AnnouncementFails, GivesUp
  <2>11. ASSUME NEW c \in Turns, CancelledAwaiting(c)
         PROVE  Slots!Abandon(c) \/ UNCHANGED Slots!slotVars
    <3>1. CASE acq[c] \in {"done", "cancelled"}
      BY <2>4, <2>11, <3>1 DEF CancelledAwaiting, GivesUp
    <3>2. CASE acq[c] \notin {"done", "cancelled"}
      BY <2>1, <2>11, <3>2 DEF CancelledAwaiting
    <3> QED
      BY <3>1, <3>2
  <2>12. ASSUME NEW c \in Turns, AcquireStep(c) PROVE UNCHANGED Slots!slotVars
    BY <2>1, <2>12 DEF AcquireStep, AcquireStarts, AcquireResumes, AcquireUnwinds
  <2>13. CASE UNCHANGED vars
    BY <2>1, <2>13 DEF vars
  <2> QED
    BY <2>5, <2>6, <2>7, <2>8, <2>9, <2>10, <2>11, <2>12, <2>13
       DEF Next, CallerProceeds, Slots!SlotsNext
<1> QED
  BY <1>1, <1>2, InitIInv, NextKeepsIInv, PTL DEF Spec, ImplementsSlots, Slots!SlotsSpec
=============================================================================
