------------------------------- MODULE Probe -------------------------------
(***************************************************************************)
(* The complexity probe (apps/executor/src/executor/complexity.py): the    *)
(* sweep its driver runs inside the sandbox and the verdict on what it     *)
(* measured.                                                               *)
(*                                                                         *)
(* A submission takes cost at the smallest size and 2^growth times as long *)
(* at each next one, for the sizes of a sweep double.  Time is in tenths   *)
(* of a millisecond, a slope in hundredths.  Real measurements are noisy;  *)
(* the margin between bands is what the code keeps for that.               *)
(***************************************************************************)
EXTENDS Integers, Sequences, FiniteSets, SequencesExt, FiniteSetsExt

CONSTANTS
    Ceiling,      \* _BAND_CEILING, the slope up to which a band reaches
    Margin,       \* _MARGIN
    NoiseFloor,   \* _MIN_SIGNIFICANT_SECONDS
    SlowRun,      \* slow_run_s, and _ABSURD_FIRST_SIZE_SECONDS which is as long
    ProbeBudget,  \* budget_s
    ProbeWall,    \* PROBE_WALL_MS
    Repeats

\* The wall leaves room for a sweep that has spent its budget to end the size it is at.
ASSUME ProbeAssumption ==
    /\ \A band \in DOMAIN Ceiling : Ceiling[band] \in Nat
    /\ Margin \in Nat \ {0} /\ NoiseFloor \in Nat \ {0} /\ Repeats \in Nat \ {0}
    /\ SlowRun \in Nat /\ ProbeBudget \in Nat /\ ProbeWall \in Nat
    /\ ProbeBudget + Repeats * SlowRun <= ProbeWall

Clamp(low, high, n) == Max({low, Min({high, n})})

\* The growth the driver expects of the next size: the worst after one size, then what it saw.
Projected(times, growth) ==
    Last(times) * 2 ^ (IF Len(times) = 1 THEN 3 ELSE Clamp(1, 3, growth))

\* The sweep: it refuses to start a size it cannot afford and stops when it has overspent.
Sweep(cost, growth, sizes) ==
    LET measure(sweep) ==
            LET time == IF sweep.times = <<>> THEN cost ELSE Last(sweep.times) * 2 ^ growth
                spent == sweep.spent + time * (IF time > SlowRun THEN 1 ELSE Repeats)
            IN  IF sweep.truncated THEN sweep
                ELSE IF sweep.times # <<>> /\ Projected(sweep.times, growth) > ProbeBudget - sweep.spent
                THEN [sweep EXCEPT !.truncated = TRUE]
                ELSE [times |-> Append(sweep.times, time), spent |-> spent,
                      truncated |-> spent > ProbeBudget]
        after[n \in 0 .. Len(sizes)] ==
            IF n = 0 THEN [times |-> <<>>, spent |-> 0, truncated |-> FALSE] ELSE measure(after[n - 1])
    IN  after[Len(sizes)]

\* Seeded fault: a sweep cut short is judged on its slope alone.
JudgeCompleteOnly(sweep, growth, band) ==
    LET slope == 100 * growth IN
    IF sweep.times # <<>> /\ sweep.times[1] > SlowRun THEN "slower_than_target"
    ELSE IF Len(sweep.times) < 3 \/ Max(Range(sweep.times)) < NoiseFloor THEN "inconclusive"
    ELSE IF slope <= Ceiling[band] THEN "matches"
    ELSE IF slope >= Ceiling[band] + Margin THEN "slower_than_target"
    ELSE "inconclusive"

\* judge, for a band that is recognised.  The cases are tried in this order.
Judge(sweep, growth, band) ==
    LET slope == 100 * growth IN
    IF sweep.times # <<>> /\ (sweep.truncated \/ sweep.times[1] > SlowRun) THEN "slower_than_target"
    ELSE IF Len(sweep.times) < 3 \/ Max(Range(sweep.times)) < NoiseFloor THEN "inconclusive"
    ELSE IF slope <= Ceiling[band] THEN "matches"
    ELSE IF slope >= Ceiling[band] + Margin THEN "slower_than_target"
    ELSE "inconclusive"

\* run_probe: a sandbox that ran out of time, or a submission that failed at some size, leaves
\* nothing to judge.
ProbeVerdict(run, sizes, band) ==
    LET sweep == Sweep(run.cost, run.growth, sizes)
    IN  IF band \notin DOMAIN Ceiling \/ ~run.measurable \/ sweep.spent > ProbeWall
        THEN "inconclusive"
        ELSE Judge(sweep, run.growth, band)

\* How long it takes at each size.
Times(cost, growth, sizes) ==
    LET time[n \in DOMAIN sizes] == IF n = 1 THEN cost ELSE time[n - 1] * 2 ^ growth IN time

\* The submission survives every size, ends the first in time and clears the noise at some size.
Measurable(run, sizes) ==
    /\ run.measurable /\ run.cost <= ProbeWall
    /\ \E n \in DOMAIN sizes : Times(run.cost, run.growth, sizes)[n] >= NoiseFloor
=============================================================================
