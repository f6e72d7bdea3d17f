---------------------------- MODULE StressBench ----------------------------
(***************************************************************************)
(* The stress benchmarks of the domain (bench/stress_bench.cpp): worker    *)
(* threads that enter sections or synchronize until they are told to stop, *)
(* the thread that starts, stops and joins them, and the latency           *)
(* statistics each worker records and the main thread merges.              *)
(*                                                                         *)
(* A call of the domain takes some time and returns: that it does is the   *)
(* domain's own liveness, and the time is the sample.                      *)
(***************************************************************************)
EXTENDS Integers, FiniteSets, FiniteSetsExt, Functions

CONSTANTS
    BenchReaders, BenchWriters, \* the worker threads
    BenchMain,                  \* the benchmark's own thread, which records in the mixed mode
    Latencies,                  \* what a call may take, in ns
    Buckets,                    \* the number of buckets, 32 in the code
    WriterInterval,             \* of the mixed mode
    MaxSamples                  \* bounds the samples of a thread

Recorders == BenchReaders \union BenchWriters \union {BenchMain}

VARIABLES
    bench,   \* the benchmark that runs: "none", "ratio", "mixed" or "ops"
    stage,   \* per worker: "new", "spin", "loop", "inside", "done" or "joined"
    ready, start, running,
    iter,    \* the iterations of the main thread
    stats,   \* per recorder, its LatencyStats
    samples, \* per recorder, how often it measured each latency
    report   \* what report_latency() was given for the readers, or <<>>

stressVars == <<bench, stage, ready, start, running, iter, stats, samples, report>>

TeamOf(b) == IF b = "mixed" THEN BenchReaders ELSE BenchReaders \union BenchWriters
Team == TeamOf(bench)

\* LatencyStats; no_min stands for UINT64_MAX.
no_min == Max(Latencies) + 1
NoStats == [count |-> 0, total |-> 0, min |-> no_min, max |-> 0,
            buckets |-> [b \in 0..(Buckets - 1) |-> 0]]

StressInit ==
    /\ bench = "none"
    /\ stage = [w \in BenchReaders \union BenchWriters |-> "new"]
    /\ ready = 0 /\ start = FALSE /\ running = TRUE /\ iter = 0
    /\ stats = [r \in Recorders |-> NoStats]
    /\ samples = [r \in Recorders |-> [ns \in Latencies |-> 0]]
    /\ report = <<>>

-----------------------------------------------------------------------------
(***************************************************************************)
(* LatencyStats.                                                           *)
(***************************************************************************)
Smaller(a, b) == IF b < a THEN b ELSE a
Larger(a, b) == IF b > a THEN b ELSE a

\* The index of the highest set bit, the last bucket for what lies beyond.
Bucket(ns) ==
    Smaller(Buckets - 1, IF ns = 0 THEN 0 ELSE CHOOSE b \in 0..ns : 2^b <= ns /\ ns < 2^(b + 1))

record(s, ns) ==
    [count |-> s.count + 1, total |-> s.total + ns,
     min |-> Smaller(s.min, ns), max |-> Larger(s.max, ns),
     buckets |-> [s.buckets EXCEPT ![Bucket(ns)] = @ + 1]]

\* The test of the loop over the buckets.
Reached(cum, target) == cum > target

\* The p-th percentile, p in hundredths: the lower end of the first bucket with
\* which more than target samples are counted.
percentile(s, p) ==
    IF s.count = 0 THEN 0
    ELSE LET target == Smaller((s.count * p) \div 100, s.count - 1)
             Upto(b) == FoldFunctionOnSet(+, 0, s.buckets, 0..b)
             hits == {b \in 0..(Buckets - 1) : Reached(Upto(b), target)}
         IN IF hits = {} THEN s.max ELSE 2^Min(hits)

\* The loop that adds one thread's statistics to the total.
merge(t, s) ==
    [count |-> t.count + s.count, total |-> t.total + s.total,
     min |-> Smaller(t.min, s.min), max |-> Larger(t.max, s.max),
     buckets |-> [b \in 0..(Buckets - 1) |-> t.buckets[b] + s.buckets[b]]]

-----------------------------------------------------------------------------
(***************************************************************************)
(* The threads.                                                            *)
(***************************************************************************)

\* The benchmark spawns its workers.  BM_EBR_ReadWriteOps has no start barrier.
Spawn(b) ==
    /\ bench = "none"
    /\ bench' = b
    /\ stage' = [w \in DOMAIN stage |->
                 IF w \notin TeamOf(b) THEN "joined" ELSE IF b = "ops" THEN "loop" ELSE "new"]
    /\ start' = (b = "ops")
    /\ UNCHANGED <<ready, running, iter, stats, samples, report>>

Arrive(w) ==
    /\ bench # "none" /\ stage[w] = "new"
    /\ ready' = ready + 1
    /\ stage' = [stage EXCEPT ![w] = "spin"]
    /\ UNCHANGED <<bench, start, running, iter, stats, samples, report>>

SeeStart(w) ==
    /\ stage[w] = "spin" /\ start
    /\ stage' = [stage EXCEPT ![w] = "loop"]
    /\ UNCHANGED <<bench, ready, start, running, iter, stats, samples, report>>

Sampled(r) == stats[r].count

\* The loop's test of `running`, the call of the domain and what it took.
BeginOp(w) ==
    /\ stage[w] = "loop"
    /\ IF running THEN Sampled(w) < MaxSamples /\ stage' = [stage EXCEPT ![w] = "inside"]
       ELSE stage' = [stage EXCEPT ![w] = "done"]
    /\ UNCHANGED <<bench, ready, start, running, iter, stats, samples, report>>

\* BM_EBR_ReadWriteOps only counts, in a counter per kind: the count here.
Measure(r, ns) ==
    /\ stats' = [stats EXCEPT ![r] = record(@, ns)]
    /\ samples' = [samples EXCEPT ![r][ns] = @ + 1]

EndOp(w, ns) ==
    /\ stage[w] = "inside"
    /\ Measure(w, ns)
    /\ stage' = [stage EXCEPT ![w] = "loop"]
    /\ UNCHANGED <<bench, ready, start, running, iter, report>>

\* All workers have arrived.
OpenGate ==
    /\ bench \in {"ratio", "mixed"} /\ ~start
    /\ ready = Cardinality(Team)
    /\ start' = TRUE
    /\ UNCHANGED <<bench, stage, ready, running, iter, stats, samples, report>>

\* An iteration of the mixed mode: every WriterInterval-th synchronizes and
\* records.  In the other modes an iteration only enters and leaves a section.
Iterate(ns) ==
    /\ bench = "mixed" /\ start /\ running
    /\ iter < MaxSamples * WriterInterval
    /\ iter' = iter + 1
    /\ IF iter' % WriterInterval = 0 THEN Measure(BenchMain, ns)
       ELSE UNCHANGED <<stats, samples>>
    /\ UNCHANGED <<bench, stage, ready, start, running, report>>

Stop ==
    /\ bench # "none" /\ start /\ running
    /\ running' = FALSE
    /\ UNCHANGED <<bench, stage, ready, start, iter, stats, samples, report>>

JoinWorker(w) ==
    /\ ~running /\ stage[w] = "done"
    /\ stage' = [stage EXCEPT ![w] = "joined"]
    /\ UNCHANGED <<bench, ready, start, running, iter, stats, samples, report>>

\* Mutation of Joined: the workers have only been told to stop.
JoinedTold == ~running

\* The loop of join() is over.
Joined == ~running /\ \A w \in DOMAIN stage : stage[w] = "joined"

\* The totals, in the order of the vectors; addition does not depend on it.
Totals(group) ==
    MapThenFoldSet(merge, NoStats, LAMBDA w : stats[w], LAMBDA S : CHOOSE w \in S : TRUE, group)

Report ==
    /\ Joined /\ report = <<>>
    /\ report' = [reader |-> Totals(BenchReaders),
                  writer |-> IF bench = "mixed" THEN stats[BenchMain] ELSE Totals(BenchWriters)]
    /\ UNCHANGED <<bench, stage, ready, start, running, iter, stats, samples>>

StressNext ==
    \/ \E b \in {"ratio", "mixed", "ops"} : Spawn(b)
    \/ \E w \in BenchReaders \union BenchWriters :
           Arrive(w) \/ SeeStart(w) \/ BeginOp(w) \/ JoinWorker(w) \/ \E ns \in Latencies : EndOp(w, ns)
    \/ OpenGate \/ Stop \/ Report \/ \E ns \in Latencies : Iterate(ns)
-----------------------------------------------------------------------------
(***************************************************************************)
(* Properties.                                                             *)
(***************************************************************************)

\* How many of the samples of a group satisfy P.
Samples(group, P(_)) ==
    FoldSet(LAMBDA r, n : n + FoldFunctionOnSet(+, 0, samples[r], {ns \in Latencies : P(ns)}),
            0, group)

Of == [reader |-> BenchReaders,
       writer |-> IF bench = "mixed" THEN {BenchMain} ELSE BenchWriters]

\* What is reported is what was measured, by all the threads of a kind and by
\* nobody after: the count, the extremes and every bucket.
ReportIsMeasured ==
    report # <<>> => \A kind \in DOMAIN report :
        LET s == report[kind] IN
        /\ s.count = Samples(Of[kind], LAMBDA ns : TRUE)
        /\ \A b \in 0..(Buckets - 1) : s.buckets[b] = Samples(Of[kind], LAMBDA ns : Bucket(ns) = b)
        /\ s.count # 0 =>
               /\ Samples(Of[kind], LAMBDA ns : ns = s.min) > 0
               /\ Samples(Of[kind], LAMBDA ns : ns = s.max) > 0
               /\ Samples(Of[kind], LAMBDA ns : ns < s.min \/ ns > s.max) = 0

\* A reported percentile is the bucket of the sample of that rank: as many
\* samples as the rank lie at or below the bucket, and fewer lie below it.
PercentilesHaveRank ==
    report # <<>> => \A kind \in DOMAIN report, p \in {50, 95, 99} :
        LET s == report[kind]
            rank == Smaller((s.count * p) \div 100, s.count - 1)
            value == percentile(s, p)
        IN s.count # 0 =>
               /\ Samples(Of[kind], LAMBDA ns : 2^Bucket(ns) <= value) > rank
               /\ Samples(Of[kind], LAMBDA ns : 2^Bucket(ns) < value) <= rank

\* The printed statistics are those of all samples of all joined workers, and a
\* percentile has its rank among them.
StatisticsSound ==
    /\ ReportIsMeasured
    /\ PercentilesHaveRank
=============================================================================
