----------------------------- MODULE Calculator -----------------------------
(***************************************************************************)
(* The arithmetic behind a verdict: percentiles of the Prometheus samples  *)
(* and the sizes Analyze derives from them.  The same arithmetic serves    *)
(* CPU (in cores) and memory (in GiB).                                     *)
(*                                                                         *)
(* Samples are integers, in hundredths of a core or of a GiB; what is      *)
(* computed from them is in hundredths of that.  Percentages are kept as   *)
(* fractions.  The code computes in float64, whose error shows at exact    *)
(* integers only: math.Ceil may give the next one, and a comparison with   *)
(* an equal number may go either way.  Operators that depend on it are     *)
(* sets of the possible results.                                           *)
(***************************************************************************)
EXTENDS Integers, FiniteSets, FiniteSetsExt, Functions

One == 10000   \* one core, one GiB

(* Samples are a function from their positions.  Sorting chooses an order  *)
(* of the positions.                                                       *)
Float64s(samples) ==
    LET n == Cardinality(DOMAIN samples)
        order == CHOOSE p \in [1 .. n -> DOMAIN samples] :
                     \A i, j \in 1 .. n : i < j =>
                         p[i] # p[j] /\ samples[p[i]] <= samples[p[j]]
    IN  [k \in 1 .. n |-> samples[order[k]]]

(* Mutant of ComputePercentile: the rank counts from one.                  *)
ComputePercentileFromOne(samples, percentile) ==
    LET n == Cardinality(DOMAIN samples)
        sorted == Float64s(samples)
    IN  IF n = 0 THEN 0 ELSE 100 * sorted[(percentile * n + 99) \div 100]

(* Linear interpolation between the two nearest ranks.                     *)
ComputePercentile(samples, percentile) ==
    LET n == Cardinality(DOMAIN samples)
        sorted == Float64s(samples)
        rank == percentile * (n - 1)
        lower == rank \div 100
        fraction == rank % 100
    IN  IF n = 0 THEN 0
        ELSE IF fraction = 0 THEN 100 * sorted[lower + 1]
        ELSE (100 - fraction) * sorted[lower + 1] + fraction * sorted[lower + 2]

maxValue(samples) ==
    IF DOMAIN samples = {} THEN 0 ELSE 100 * Max(Range(samples))

(* What GetVMUtilization makes of the samples of one resource.             *)
Utilization(samples) ==
    [p95 |-> ComputePercentile(samples, 95), max |-> maxValue(samples)]

----------------------------------------------------------------------------
Ceilings(num, den) ==
    LET c == (num + den - 1) \div den
    IN  IF num % den = 0 /\ num > 0 THEN {c, c + 1} ELSE {c}

(* toPercent leaves samples alone when the size is 0: cores (or bytes) are *)
(* then compared as if they were percent.  raw is the raw value of one     *)
(* core or GiB, or something smaller that passes every threshold as well.  *)
AtLeast(size, used, threshold, raw) ==
    IF size > 0 THEN 100 * used >= threshold * size * One
                ELSE used * raw >= threshold * One

AtMost(size, used, threshold, raw) ==
    IF size > 0 THEN 100 * used <= threshold * size * One
                ELSE used * raw <= threshold * One

(* The size times the percentage.                                          *)
Used(size, used) == IF size > 0 THEN used ELSE 0

(* Mutant of DownsizeTo: the headroom is forgotten.                        *)
DownsizeToBare(size, u, headroom) ==
    {Min({Max({c, 1}), size}) : c \in Ceilings(Used(size, u.p95), One)}

DownsizeTo(size, u, headroom) ==
    {Min({Max({c, 1}), size}) :
        c \in Ceilings(Used(size, u.p95) * (100 + headroom), 100 * One)}

(* Mutant of UpsizeTo: the new size is to be used up.                      *)
UpsizeToBare(size, u) ==
    {Max({c, size}) : c \in Ceilings(Used(size, Max({u.p95, u.max})), One)}

(* The larger of the two is to be 70 percent of the new size.              *)
UpsizeTo(size, u) ==
    {Max({c, size}) :
        c \in Ceilings(Used(size, Max({u.p95, u.max})) * 10, 7 * One)}

Nil == [direction |-> "none", cores |-> 0, memory |-> 0]

analyzeDownsize(vm, cpu, mem, policy) ==
    {IF \/ vm.cores - c < policy.minCores
        \/ vm.memory - m < policy.minMemory
     THEN Nil ELSE [direction |-> "downsize", cores |-> c, memory |-> m] :
        c \in DownsizeTo(vm.cores, cpu, policy.headroom),
        m \in DownsizeTo(vm.memory, mem, policy.headroom)}

analyzeUpsize(vm, cpu, mem, policy) ==
    {IF /\ c - vm.cores < policy.minCores
        /\ m - vm.memory < policy.minMemory
     THEN Nil ELSE [direction |-> "upsize", cores |-> c, memory |-> m] :
        c \in UpsizeTo(vm.cores, cpu), m \in UpsizeTo(vm.memory, mem)}

(* Upsize when any of the four utilizations reaches the threshold.         *)
Analyze(vm, cpu, mem, policy) ==
    LET t == policy.threshold
        rawMemory == 10000   \* any memory in use is more bytes than percent
        upsize == \/ \E k \in {"p95", "max"} : AtLeast(vm.cores, cpu[k], t, 1)
                  \/ \E k \in {"p95", "max"} :
                         AtLeast(vm.memory, mem[k], t, rawMemory)
        downsize == /\ \A k \in {"p95", "max"} : AtMost(vm.cores, cpu[k], t, 1)
                    /\ \A k \in {"p95", "max"} :
                           AtMost(vm.memory, mem[k], t, rawMemory)
    IN  (IF upsize THEN analyzeUpsize(vm, cpu, mem, policy) ELSE {})
        \cup
        (IF downsize THEN analyzeDownsize(vm, cpu, mem, policy) ELSE {})

=============================================================================
