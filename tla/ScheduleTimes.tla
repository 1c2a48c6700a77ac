--------------------------- MODULE ScheduleTimes ---------------------------
(***************************************************************************)
(* When a scheduled job runs next (src/agent/schedule.py): an interval     *)
(* keeps the cadence of the slot it claims, a cron expression is walked    *)
(* in local wall time, and a night on which the clocks change repeats an   *)
(* hour or skips one.                                                      *)
(*                                                                         *)
(* An instant is a number; the wall shows it plus an offset that changes   *)
(* once, at zone.change, from zone.before to zone.after.  A cron           *)
(* expression is the set of times of day it names, out of Day many.        *)
(***************************************************************************)
EXTENDS Integers, FiniteSetsExt

CONSTANTS Day,          \* instants in a day
          Horizon,      \* the clock runs from Day up to here
          Zones,        \* [change, before, after]
          CronExprs,    \* nonempty subsets of 0 .. Day - 1
          Intervals,    \* interval_seconds, at least SCHEDULER_MIN_INTERVAL_SECONDS
          MaxSleep      \* what may pass between two looks at the clock

\* An offset from UTC is at most a day; an expression names a time of the day.
ASSUME TimesAssumption ==
  /\ Day \in Nat \ {0} /\ {Horizon, MaxSleep} \subseteq Nat
  /\ Zones \subseteq [change : Nat, before : -Day .. Day, after : -Day .. Day]
  /\ CronExprs \subseteq (SUBSET (0 .. Day - 1)) \ {{}}
  /\ Intervals \subseteq Nat \ {0}

VARIABLES zone, clock,
          timed,     \* [kind |-> "once" | "interval" | "cron", spec]
          due,     \* next_run_at: an instant, or NoTime
          since    \* when it was computed, and the slot that was claimed then

timeVars == <<zone, clock, timed, due, since>>

NoTime == -1
NoOccurrence == -1

-----------------------------------------------------------------------------
(* Wall time *)

\* _to_local_naive
Wall(z, u) == u + (IF u < z.change THEN z.before ELSE z.after)

\* _from_local_naive: a repeated wall time is its first occurrence with fold 0 and its
\* second with fold 1; a skipped one takes the offset of before, or of after.
FirstAt(z, w) == IF w - z.before < z.change \/ w - z.after < z.change THEN w - z.before ELSE w - z.after
SecondAt(z, w) == IF w - z.before < z.change /\ w - z.after < z.change THEN w - z.before ELSE w - z.after

\* Mutant: the wall time found is taken as it stands, without a look at the instant.
NextCronUnfolded(z, expr, after) ==
  FirstAt(z, Min({w \in Wall(z, after) + 1 .. Wall(z, after) + Day : w % Day \in expr}))

\* The wall times the walk of next_cron_run stops at: one of their instants is behind `after`.
WalkStops(z, expr, after) ==
  {w \in Wall(z, after) + 1 .. Wall(z, after) + 4 * Day :
     w % Day \in expr /\ (FirstAt(z, w) > after \/ SecondAt(z, w) > after)}

\* next_cron_run: CronSim walks the wall until an occurrence lies behind `after`.
NextCron(z, expr, after) ==
  LET next == Min(WalkStops(z, expr, after))
  IN  IF FirstAt(z, next) > after THEN FirstAt(z, next) ELSE SecondAt(z, next)

\* next_interval_run: the next slot of the anchor's cadence.
NextInterval(anchor, every, now) ==
  IF anchor > now THEN anchor ELSE anchor + every * ((now - anchor) \div every + 1)

\* initial_next_run, and next_run_on_resume of a job that recurs.
Fresh(now) == IF timed.kind = "interval" THEN now + timed.spec ELSE NextCron(zone, timed.spec, now)

-----------------------------------------------------------------------------
TimesInit ==
  /\ zone \in Zones /\ clock = Day
  /\ timed \in [kind : {"cron"}, spec : CronExprs] \cup [kind : {"interval"}, spec : Intervals]
             \cup [kind : {"once"}, spec : Day + 1 .. 2 * Day]
  /\ due = NoTime /\ since = [at |-> NoTime, slot |-> NoOccurrence]

\* build_schedule_spec and the first fire time; a run_at that has passed is refused.
CreatesJob ==
  /\ due = NoTime /\ since.at = NoTime
  /\ timed.kind = "once" => timed.spec > clock
  /\ due' = IF timed.kind = "once" THEN timed.spec ELSE Fresh(clock)
  /\ since' = [at |-> clock, slot |-> NoOccurrence]
  /\ UNCHANGED <<zone, clock, timed>>

\* Time passes: to the next tick of the loop, or a long outage.
Passes ==
  \E d \in 1 .. MaxSleep :
    /\ clock + d <= Horizon
    /\ clock' = clock + d /\ UNCHANGED <<zone, timed, due, since>>

\* next_run_after_claim: from now, never from the slot that was due.
ClaimsRun ==
  /\ due # NoTime /\ due <= clock
  /\ due' = CASE timed.kind = "once" -> NoTime
              [] timed.kind = "interval" -> NextInterval(due, timed.spec, clock)
              [] timed.kind = "cron" -> NextCron(zone, timed.spec, clock)
  /\ since' = [at |-> clock, slot |-> due]
  /\ UNCHANGED <<zone, clock, timed>>

\* next_run_on_resume; a one-shot job keeps its time, even one that has passed.
ResumesJob ==
  /\ due # NoTime
  /\ due' = IF timed.kind = "once" THEN timed.spec ELSE Fresh(clock)
  /\ since' = [at |-> clock, slot |-> NoOccurrence]
  /\ UNCHANGED <<zone, clock, timed>>

TimesNext == CreatesJob \/ Passes \/ ClaimsRun \/ ResumesJob
TimesSpec == TimesInit /\ [][TimesNext]_timeVars

-----------------------------------------------------------------------------
(* Properties *)

\* A recurring job is due strictly later than the moment its time was computed, so an
\* outage is followed by one run and never by a burst of the slots that were missed.
DueAhead == due # NoTime /\ timed.kind # "once" => due > since.at

\* An interval keeps its cadence over late claims and skips no slot ahead of it.
OnCadence ==
  due # NoTime /\ timed.kind = "interval" =>
    /\ due - timed.spec <= since.at
    /\ since.slot # NoOccurrence => (due - since.slot) % timed.spec = 0

\* A cron job is due when the wall shows one of its times, or when the wall skips it.
OnTheWall ==
  due # NoTime /\ timed.kind = "cron" =>
    \/ Wall(zone, due) % Day \in timed.spec
    \/ /\ (due + zone.before) % Day \in timed.spec
       /\ due >= zone.change /\ due + zone.before - zone.after < zone.change

\* The clocks change after the job is due, or no wall time after `since` comes twice.
Quiet ==
  \/ due < zone.change
  \/ since.at >= zone.change /\ since.at - zone.before + zone.after >= zone.change

\* Away from a change of the clocks it is the first such instant.
FirstOfQuietDay ==
  due # NoTime /\ timed.kind = "cron" /\ Quiet =>
    \A u \in since.at + 1 .. due - 1 : Wall(zone, u) % Day \notin timed.spec

\* A claimed or resumed job is due at the time its schedule says.
TimesSound == DueAhead /\ OnCadence /\ OnTheWall /\ FirstOfQuietDay
=============================================================================
