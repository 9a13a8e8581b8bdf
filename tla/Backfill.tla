------------------------------ MODULE Backfill ------------------------------
(***************************************************************************)
(* `sat backfill plan` and `sat backfill submit`: a range of days is cut   *)
(* into weekly or daily windows (sat_backfill.py), those with a request on *)
(* file are left out and the first of the others is submitted, one per     *)
(* call, if the guard (cli.py), the permit and the adapter                 *)
(* (sat_live_smoke.py) agree with its length.  An operator repeats the     *)
(* call, with the same or with another range, until nothing is left.       *)
(***************************************************************************)
EXTENDS Integers, Sequences, SequencesExt

CONSTANTS
  Days,          \* an interval of days
  FromDays,      \* the days operators begin a range with
  Directions,    \* issued, received
  MaxSubmits     \* bound on submissions

ASSUME BackfillAssumption == Days \subseteq Nat /\ FromDays \subseteq Days /\ MaxSubmits \in Nat

WindowKinds == {"weekly", "daily"}
MaxBackfillRangeDays == 7

\* Times in half seconds: time.max, 23:59:59.999999, lies between two full seconds.
DayLength == 2 * 86400
StartOf(day) == day * DayLength
EndOf(day) == (day + 1) * DayLength - 1

VARIABLE requested     \* the windows on file: direction, first and last day

backfillVars == requested

BackfillInit == requested = <<>>

\* Mutant: a window begins a day after it should.
GapAfterWindow(first, last, kind) ==
  LET step == IF kind = "daily" THEN 1 ELSE 7
      from[current \in first..(last + 2)] ==
        IF current > last THEN <<>>
        ELSE LET end == IF current + step - 1 < last THEN current + step - 1 ELSE last
             IN  <<[first |-> current, last |-> end]>> \o from[end + 2]
  IN  from[first]

\* generate_backfill_periods
GeneratePeriods(first, last, kind) ==
  LET step == IF kind = "daily" THEN 1 ELSE 7
      from[current \in first..(last + 1)] ==
        IF current > last THEN <<>>
        ELSE LET end == IF current + step - 1 < last THEN current + step - 1 ELSE last
             IN  <<[first |-> current, last |-> end]>> \o from[end + 1]
  IN  from[first]

\* The ranges and windows an operator may ask for, and their plans (--to is not before
\* --from, else the command ends).
Ranges == {q \in FromDays \X Days \X WindowKinds : q[2] >= q[1]}
Plans == [q \in Ranges |-> GeneratePeriods(q[1], q[2], q[3])]

WindowCriteria(direction, w) == [direction |-> direction, first |-> w.first, last |-> w.last]

\* build_backfill_plan and the selection of `submit`: the places of the windows without a
\* request; requests are recognised by the hash of direction and exact period.
Pending(direction, plan) ==
  {i \in DOMAIN plan : ~Contains(requested, WindowCriteria(direction, plan[i]))}

\* _is_backfill_submit_range, and _validate_v15_live_metadata_query of the adapter.
SubmitRangeOK(w) ==
  /\ EndOf(w.last) - StartOf(w.first) >= 4
  /\ w.last - w.first + 1 <= MaxBackfillRangeDays
AdapterRangeOK(w) ==
  /\ EndOf(w.last) - StartOf(w.first) >= 4
  /\ EndOf(w.last) - StartOf(w.first) <= DayLength * MaxBackfillRangeDays

\* sat_backfill_submit, accepted by SAT (SubmitAccepted of VerifyScheduler records it).
SubmitWindow(direction, plan) ==
  /\ Len(requested) < MaxSubmits
  /\ Pending(direction, plan) # {}
  /\ LET w == plan[Min(Pending(direction, plan))]
     IN  /\ SubmitRangeOK(w) /\ AdapterRangeOK(w)
         /\ requested' = Append(requested, WindowCriteria(direction, w))

BackfillNext == \E d \in Directions, q \in Ranges : SubmitWindow(d, Plans[q])

BackfillSpec == BackfillInit /\ [][BackfillNext]_backfillVars

-----------------------------------------------------------------------------
Covered(direction, day) ==
  \E i \in DOMAIN requested :
    requested[i].direction = direction /\ day \in requested[i].first..requested[i].last

\* The windows of a plan run from the first to the last day, leave out no second between
\* them, so that nothing that happened at midnight is missed, and none is refused by a
\* range check, which would have cost the operator a permit.
SoundPlan(q) ==
  LET plan == Plans[q]
  IN  /\ plan[1].first = q[1] /\ plan[Len(plan)].last = q[2]
      /\ \A i \in 1..(Len(plan) - 1) : StartOf(plan[i + 1].first) - EndOf(plan[i].last) = 1
      /\ \A i \in DOMAIN plan : SubmitRangeOK(plan[i]) /\ AdapterRangeOK(plan[i])
PlansAreSound == \A q \in Ranges : SoundPlan(q)

\* Plans are sound, and when a plan has nothing left to submit, every day of its range is
\* requested from SAT, whatever mixture of ranges, windows and directions was submitted
\* before (generate_backfill_periods, build_backfill_plan, sat_backfill_submit).
BackfillCovers ==
  /\ PlansAreSound
  /\ \A d \in Directions, q \in Ranges :
       Pending(d, Plans[q]) = {} => \A day \in q[1]..q[2] : Covered(d, day)
=============================================================================
