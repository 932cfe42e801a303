----------------------------- MODULE MCBenchmarks -----------------------------
(* Model-checking instance of Workloads and LatencyHarness: either program, *)
(* with its numbers scaled down.                                            *)
EXTENDS LatencyHarness

VARIABLE program   \* "bench_book" or "latency_harness"

MCPrices == 1 .. 10
MCRefs == 1 .. 2 * kWarm + kN + kGap + MaxIter + 2
MCSlots == 1 .. 2 * kWarm + kN + 2

BenchInit ==
    \/ program = "latency_harness" /\ HarnessInit
    \/ program = "bench_book" /\ WorkloadInit /\ HistogramInit /\ row = NoRow

(* A loop of bench_book ends when the library has had its iterations. *)
LoopEnds == bench \in Benchmarks /\ iter = MaxIter /\ todo = <<>> /\ UNCHANGED state

BenchNext ==
    /\ \/ program = "latency_harness" /\ HarnessNext
       \/ program = "bench_book" /\ WorkloadNext /\ UNCHANGED <<hist, row>>
       \/ program = "bench_book" /\ LoopEnds
    /\ UNCHANGED program

BenchSpec == BenchInit /\ [][BenchNext]_<<state, program>>
=============================================================================
