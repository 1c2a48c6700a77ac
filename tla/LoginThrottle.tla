--------------------------- MODULE LoginThrottle ---------------------------
(***************************************************************************)
(* The login lockout: LoginThrottle of agent/limits.py and its use by the  *)
(* login endpoint of agent/main.py.  An attempt is registered in one step, *)
(* before its password is looked at; the user is then loaded (an await)    *)
(* and the password verified.                                              *)
(***************************************************************************)
EXTENDS Integers, Sequences, FiniteSets

CONSTANTS
  Users, Addresses,
  Threshold,   \* LOGIN_MAX_FAILED_ATTEMPTS, 0 switches the lockout off
  Lockout,     \* LOGIN_LOCKOUT_SECONDS
  MaxEntries,  \* MAX_ENTRIES
  MaxPairs,    \* MAX_PAIRS_PER_ADDRESS
  MaxTime,     \* bound: the clock
  MaxAttempts  \* bound: login requests

ASSUME ThrottleAssumption ==
  /\ Threshold \in Nat /\ Lockout \in Nat \ {0} /\ MaxTime \in Nat \ {0}
  /\ MaxAttempts \in Nat
  /\ MaxEntries \in Nat \ {0} /\ MaxPairs \in Nat \ {0}

VARIABLES
  now,      \* the monotonic clock
  entries,  \* _entries, a function of the pairs that have one
  pending,  \* requests of each pair whose password is not verified yet
  made,     \* login requests so far
  guesses   \* history: when attempts of a pair went ahead, see Forgiven

throttleVars == <<now, entries, pending, made, guesses>>

Keys == Users \X Addresses
Entry == [failures : Nat, last : Nat, until : Nat]

ThrottleInit ==
  /\ now = 1
  /\ entries = <<>>
  /\ pending = [k \in Keys |-> 0]
  /\ made = 0
  /\ guesses = [k \in Keys |-> <<>>]

Without(f, S) == [k \in DOMAIN f \ S |-> f[k]]

Blocked(f, k) == k \in DOMAIN f /\ f[k].until > now
Expired(f, k) == k \in DOMAIN f /\ 0 < f[k].until /\ f[k].until <= now

(* blocked_seconds drops the pair's own block when it has ended. *)
Current(k) == IF Expired(entries, k) THEN Without(entries, {k}) ELSE entries

----------------------------------------------------------------------------
(* record_failure, up to the eviction. *)
Counted(k) ==
  LET old == IF k \in DOMAIN Current(k) THEN entries[k].failures ELSE 0
      e == [failures |-> old + 1, last |-> now,
            until |-> IF old + 1 >= Threshold THEN now + Lockout ELSE 0]
  IN [j \in DOMAIN entries \cup {k} |-> IF j = k THEN e ELSE entries[j]]

(* Mutant: the victim is the pair with the oldest failure, blocked or not. *)
VictimsOldest(f, k) ==
  LET others == DOMAIN f \ {k}
  IN {v \in others : \A o \in others : f[v].last <= f[o].last}

(* Whom _evict may drop from f after k was recorded (ties: either). *)
Victims(f, k) ==
  LET others == DOMAIN f \ {k}
      open == {o \in others : ~Blocked(f, o)}
  IN IF open # {} THEN {v \in open : \A o \in open : f[v].last <= f[o].last}
     ELSE {v \in others : \A o \in others : f[v].until <= f[o].until}

(* _evict: the ended blocks, then one victim if there are still too many   *)
(* (a call adds at most one pair).                                         *)
Swept(f) == Without(f, {j \in DOMAIN f : Expired(f, j)})

MayEvict(f, k, gone) ==
  IF Cardinality(DOMAIN f) > MaxEntries /\ DOMAIN f # {k}
  THEN \E v \in Victims(f, k) : gone = {v}
  ELSE gone = {}

TooManyPairs(k) ==
  /\ k \notin DOMAIN Current(k)
  /\ Cardinality({j \in DOMAIN entries : j[2] = k[2] /\ j # k}) >= MaxPairs

(* The pair's past is forgotten: a successful login, or an eviction. *)
Forgiven(S, g) == [k \in Keys |-> IF k \in S THEN <<>> ELSE g[k]]

----------------------------------------------------------------------------
(* register_attempt *)
Registers(k) ==
  /\ made < MaxAttempts
  /\ made' = made + 1
  /\ IF Threshold > 0 /\ (Blocked(entries, k) \/ TooManyPairs(k))
     THEN entries' = Current(k) /\ UNCHANGED <<pending, guesses>>
     ELSE /\ pending' = [pending EXCEPT ![k] = @ + 1]
          /\ IF Threshold = 0 THEN UNCHANGED <<entries, guesses>>
             ELSE \E gone \in SUBSET (DOMAIN entries \ {k}) :
                    /\ Cardinality(gone) <= 1
                    /\ entries' = Without(Swept(Counted(k)), gone)
                    /\ MayEvict(Swept(Counted(k)), k, gone)
                    /\ guesses' = Forgiven(gone, [guesses EXCEPT ![k] = Append(@, now)])
  /\ UNCHANGED now

Answered(k) ==
  /\ pending[k] > 0
  /\ pending' = [pending EXCEPT ![k] = @ - 1]
  /\ UNCHANGED <<now, made>>

(* The password is right. *)
LogsIn(k) ==
  /\ Answered(k)
  /\ entries' = Without(entries, {k})
  /\ guesses' = Forgiven({k}, guesses)

(* The password is wrong, or loading the user raises: it stays counted. *)
Fails(k) == Answered(k) /\ UNCHANGED <<entries, guesses>>

Tick ==
  /\ now < MaxTime
  /\ now' = now + 1
  /\ UNCHANGED <<entries, pending, made, guesses>>

ThrottleNext == Tick \/ \E k \in Keys : Registers(k) \/ LogsIn(k) \/ Fails(k)

ThrottleSpec == ThrottleInit /\ [][ThrottleNext]_throttleVars

----------------------------------------------------------------------------
(* Every variable has its type. *)
ThrottleTypeOK ==
  /\ now \in 1..MaxTime
  /\ DOMAIN entries \subseteq Keys
  /\ \A k \in DOMAIN entries : entries[k] \in Entry
  /\ made \in 0..MaxAttempts
  /\ pending \in [Keys -> 0..MaxAttempts]
  /\ guesses \in [Keys -> Seq(1..MaxTime)]

(* The lockout's promise, however attempts overlap: of Threshold + 1       *)
(* attempts in a row that went ahead for a pair, with neither a success nor *)
(* an eviction between, the last comes at least Lockout after the first.   *)
GuessesRationed ==
  Threshold > 0 =>
    \A k \in Keys : \A i \in DOMAIN guesses[k] :
      i + Threshold <= Len(guesses[k]) => guesses[k][i + Threshold] - guesses[k][i] >= Lockout

(* The table keeps its two bounds: in all, and pairs of one address.       *)
TableBounded ==
  /\ Cardinality(DOMAIN entries) <= MaxEntries
  /\ \A h \in Addresses : Cardinality({k \in DOMAIN entries : k[2] = h}) <= MaxPairs

(* Other pairs' attempts end no block while there is a pair without one:   *)
(* the eviction takes a blocked pair only if all pairs left are blocked.   *)
BlockedSpared ==
  \A j, k \in Keys :
    pending'[j] > pending[j] /\ Blocked(entries, k) /\ k \notin DOMAIN entries' =>
      \A o \in DOMAIN entries' \ {j} : entries'[o].until > now
=============================================================================
