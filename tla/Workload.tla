------------------------------ MODULE Workload ------------------------------
(***************************************************************************)
(* The workload benchmarks of the EBR domain: which thread counts a        *)
(* machine is measured at (bench/topology), the schedule of a profile      *)
(* (workloads/workload.cpp), the shares of the threads, the table that     *)
(* announces them and the threshold sweep (workloads/workload_runner.cpp). *)
(***************************************************************************)
EXTENDS Integers, Sequences, FiniteSetsExt

CONSTANTS
    Profiles,     \* the sequence of [name, reader, retire, sync], in percent
    ScheduleSize, \* operations_per_iteration
    TotalOps,     \* kTotalOps
    Topologies,   \* [logical, performance, efficiency]: CPUs
    Thresholds,   \* of the sweep
    SweepRepeats, \* bound: schedules a sweeping thread runs
    NoJob

\* Percentages sum to 100 (workload.cpp:12), and some of the work is to read.
ASSUME WorkAssumption ==
    /\ ScheduleSize \in Nat \ {0} /\ TotalOps \in Nat /\ SweepRepeats \in Nat
    /\ Profiles \in Seq([name : STRING, reader : 1..100, retire : 0..100, sync : 0..100])
    /\ \A i \in DOMAIN Profiles : Profiles[i].reader + Profiles[i].retire + Profiles[i].sync = 100
    /\ Topologies \subseteq [logical : Nat \ {0}, performance : Nat, efficiency : Nat]
    /\ Thresholds \subseteq Nat \ {0}

VARIABLES
    storage,   \* the static vector of generate_schedule(), <<>> before the first call
    schedules, \* what the calls so far returned, by profile
    job        \* the benchmark that is looked at, or a sweep in progress

workVars == <<storage, schedules, job>>

WorkInit == storage = <<>> /\ schedules = <<>> /\ job = NoJob
-----------------------------------------------------------------------------
(* bench/topology/topology.cpp                                             *)
\* Powers of two, where the P-cores end and one more, the E-cores, half and all.
default_thread_counts(t) ==
    LET n == t.logical
        p == IF t.performance > 0 THEN {t.performance, t.performance + 1} ELSE {}
        e == IF t.efficiency > 0 THEN {t.efficiency} ELSE {}
        mid == IF n \div 2 > 8 THEN {n \div 2} ELSE {}
        full == IF n > 8 THEN {n} ELSE {}
    IN ({1, 2, 4, 8} \union p \union e \union mid \union full) \intersect 1..n
-----------------------------------------------------------------------------
(* workloads/workload.cpp                                                  *)
\* The places for a share of the operations: one every stride.
Places(percent) ==
    IF percent = 0 THEN {}
    ELSE LET stride == 100 \div percent
         IN {stride \div 2 + i * stride : i \in 0..((percent * ScheduleSize) \div 100 - 1)}

Placed(p) ==
    [pos \in 1..ScheduleSize |->
        IF pos - 1 \in Places(p.sync) THEN "sync"
        ELSE IF pos - 1 \in Places(p.retire) THEN "retire" ELSE "read"]

\* The vector is initialised by the first call.
generate_schedule(p) == IF storage = <<>> THEN Placed(p) ELSE storage

\* The profiles are asked for in order.
Generate ==
    /\ Len(schedules) < Len(Profiles)
    /\ LET given == generate_schedule(Profiles[Len(schedules) + 1])
       IN storage' = given /\ schedules' = Append(schedules, given)
    /\ UNCHANGED job
-----------------------------------------------------------------------------
(* workloads/workload_runner.cpp                                           *)
Count(schedule, op) == Cardinality({i \in DOMAIN schedule : schedule[i] = op})

\* Mutation of execute_schedule: readers retire as well.
execute_scheduleAll(schedule, is_writer) ==
    [reads |-> Count(schedule, "read"), retires |-> Count(schedule, "retire"), syncs |-> Count(schedule, "sync")]

\* The operations of one pass; only a writer retires and synchronizes.
execute_schedule(schedule, is_writer) ==
    [reads |-> Count(schedule, "read"), retires |-> IF is_writer THEN Count(schedule, "retire") ELSE 0,
     syncs |-> IF is_writer THEN Count(schedule, "sync") ELSE 0]

Times(n, o) == [reads |-> n * o.reads, retires |-> n * o.retires, syncs |-> n * o.syncs]
Plus(o, q) == [reads |-> o.reads + q.reads, retires |-> o.retires + q.retires, syncs |-> o.syncs + q.syncs]
Ops(o) == o.reads + o.retires + o.syncs

\* How often a thread passes through the schedule for its share.
repeats(schedule, threads, is_writer) ==
    LET thread_ops == TotalOps \div threads
        reads == Count(schedule, "read")
    IN IF is_writer THEN thread_ops \div Len(schedule)
       ELSE IF reads > 0 THEN thread_ops \div reads ELSE 0

\* What the threads of a registered benchmark do: all of them write in the synthetic
\* one, the first in the role-based one.
Executed(schedule, threads, synthetic_mixed) ==
    LET of(t) == synthetic_mixed \/ t = 0
        did(t) == Times(repeats(schedule, threads, of(t)), execute_schedule(schedule, of(t)))
        upto[n \in 1..threads] == IF n = 1 THEN did(0) ELSE Plus(upto[n - 1], did(n - 1))
    IN upto[threads]

\* The rows of verify_workload_profiles().
SyntheticRow(schedule, threads) ==
    LET reps == (TotalOps \div threads) \div Len(schedule)
    IN [reads |-> reps * Count(schedule, "read") * threads, retires |-> reps * Count(schedule, "retire") * threads,
        syncs |-> reps * Count(schedule, "sync") * threads]
RoleRow(schedule, threads) ==
    LET thread_ops == TotalOps \div threads
        writer_reps == thread_ops \div Len(schedule)
        reads == Count(schedule, "read")
        reader_reps == IF reads > 0 THEN thread_ops \div reads ELSE 0
    IN [reads |-> writer_reps * reads + reader_reps * reads * (threads - 1),
        retires |-> writer_reps * Count(schedule, "retire"), syncs |-> writer_reps * Count(schedule, "sync")]

\* register_ebr_workload(): a profile at one of the thread counts of a machine.
Register ==
    /\ job = NoJob
    /\ \E i \in DOMAIN schedules, t \in Topologies, mixed \in BOOLEAN :
          \E threads \in default_thread_counts(t) :
              job' = [kind |-> "bench", profile |-> i, machine |-> t, threads |-> threads, mixed |-> mixed]
    /\ UNCHANGED <<storage, schedules>>

\* register_threshold_sweep(): a thread that synchronizes by its own count.
StartSweep ==
    /\ job = NoJob
    /\ \E i \in DOMAIN schedules, threshold \in Thresholds :
          job' = [kind |-> "sweep", profile |-> i, threshold |-> threshold, pos |-> 1, pass |-> 1,
                  since_sync |-> 0, pending |-> 0]
    /\ UNCHANGED <<storage, schedules>>

Sweeping == job # NoJob /\ job.kind = "sweep" /\ job.pass <= SweepRepeats
Advanced(j) == IF j.pos < ScheduleSize THEN [j EXCEPT !.pos = @ + 1] ELSE [j EXCEPT !.pos = 1, !.pass = @ + 1]

Due(count, threshold) == count >= threshold

\* The schedule's own synchronizations are left out; `pending` is what the domain
\* holds of the thread since its last one.
SweepStep ==
    /\ Sweeping
    /\ LET op == schedules[job.profile][job.pos]
           count == job.since_sync + 1
       IN job' = CASE op # "retire" -> Advanced(job)
                   [] op = "retire" /\ Due(count, job.threshold) -> Advanced([job EXCEPT !.since_sync = 0, !.pending = 0])
                   [] OTHER -> Advanced([job EXCEPT !.since_sync = count, !.pending = @ + 1])
    /\ UNCHANGED <<storage, schedules>>

\* What is left over is synchronized at the end.
SweepEnds ==
    /\ job # NoJob /\ job.kind = "sweep" /\ job.pass = SweepRepeats + 1
    /\ job' = [job EXCEPT !.pass = @ + 1, !.pending = IF job.since_sync > 0 THEN 0 ELSE @]
    /\ UNCHANGED <<storage, schedules>>

WorkNext == Generate \/ Register \/ StartSweep \/ SweepStep \/ SweepEnds

WorkSpec == WorkInit /\ [][WorkNext]_workVars
-----------------------------------------------------------------------------
IsBench == job # NoJob /\ job.kind = "bench"

\* The table that "Running bench_all directly prints" first (benchmark.md:65) tells
\* what the threads then do, for every profile, kind and thread count, and no benchmark
\* does more than the total it divides, nor loses a pass of the schedule per thread.
TableTellsTheWork ==
    IsBench =>
        LET s == schedules[job.profile]
            did == Executed(s, job.threads, job.mixed)
        IN /\ did = IF job.mixed THEN SyntheticRow(s, job.threads) ELSE RoleRow(s, job.threads)
           /\ Ops(did) <= TotalOps
           /\ TotalOps - Ops(did) <= job.threads * (ScheduleSize + 1)

\* The scaling runs measure real thread counts of the machine, from one to all of its
\* CPUs when there are more than eight, and where its P-cores end.
ThreadCountsFit ==
    IsBench =>
        LET counts == default_thread_counts(job.machine)
            n == job.machine.logical
        IN /\ job.threads \in 1..n /\ 1 \in counts
           /\ n > 8 => n \in counts
           /\ job.machine.performance \in 1..(n - 1) =>
                 {job.machine.performance, job.machine.performance + 1} \subseteq counts

\* A sweeping thread never has as many nodes retired and unsynchronized as its
\* threshold, and none when it ends.
SweepKeepsThreshold ==
    (job # NoJob /\ job.kind = "sweep") =>
        /\ job.pending < job.threshold
        /\ job.pass = SweepRepeats + 2 => job.pending = 0

\* "The schedule is balanced so that the actual operation ratios match the profile as
\* closely as possible." (workload.hpp:46): the counts are the profile's.
ScheduleMatchesProfile ==
    \A i \in DOMAIN schedules :
        /\ Count(schedules[i], "retire") = Profiles[i].retire
        /\ Count(schedules[i], "sync") = Profiles[i].sync

\* The benchmarks do the work they announce, on thread counts the machine has,
\* and a sweep keeps below its threshold.
WorkSound ==
    /\ TableTellsTheWork
    /\ ThreadCountsFit
    /\ SweepKeepsThreshold
=============================================================================
