------------------------------- MODULE Sizing -------------------------------
(***************************************************************************)
(* How the size of one VM develops when it is analysed and changed again   *)
(* and again under the same load: the fields getVM reads, what the client  *)
(* makes of the metrics, the verdict of Analyze (or, in demo mode, the one *)
(* made up from the VM's name) and the fields PatchVMResources writes.     *)
(*                                                                         *)
(* An applied recommendation is not looked at again until it is gone, so a *)
(* round of this module may take months; Operator has the rest of the      *)
(* story.                                                                  *)
(***************************************************************************)
EXTENDS Prometheus

CONSTANTS
    Cores,          \* cpu.cores a VM may start with; 0: none given
    Memories,       \* memory it may start with, in GiB; 0: less than 1Gi
    Responses,      \* answers Prometheus may give
    Policies,       \* [headroom, threshold, minCores, minMemory]
    MinDataPoints,  \* samples needed for a verdict
    MaxRounds       \* bound on analyses that are applied

VARIABLES
    vm,      \* spec of the VM: cores, memory.guest, requests.memory
    load,    \* Prometheus' answers for CPU and memory
    demo,    \* "off", or the direction demo mode reads from the VM's name
    policy,
    found,   \* the latest verdict
    applied, \* the direction applied last
    rounds

vars == <<vm, load, demo, policy, found, applied, rounds>>

NoRequest == -1

ASSUME SizingAssumption ==
    /\ Cores \subseteq Nat /\ Memories \subseteq Nat
    /\ MinDataPoints \in Nat /\ MaxRounds \in Nat
    /\ \A r \in Responses : r.series \in Seq(Seq(Nat \cup {NotANumber}))
    /\ \A p \in Policies :
           /\ p.headroom \in Nat /\ p.threshold \in 1 .. 100
           /\ p.minCores \in Nat /\ p.minMemory \in Nat

Init ==
    /\ vm \in {[cores |-> c, guest |-> m, requests |-> r] :
                   c \in Cores, m \in Memories, r \in Memories \cup {NoRequest}}
    /\ \/ demo = "off" /\ load \in [cpu: Responses, memory: Responses]
       \/ /\ demo \in {"downsize", "upsize"}
          /\ load = [cpu |-> Failure, memory |-> Failure]
    /\ policy \in Policies
    /\ found = Nil /\ applied = "none" /\ rounds = 0

(* The memory request wins over the guest memory.                          *)
getVM ==
    [cores |-> vm.cores,
     memory |-> IF vm.requests # NoRequest THEN vm.requests ELSE vm.guest]

(* Mutant of DemoSize: the smallest size is not looked after.              *)
DemoSizeToZero(current) ==
    IF demo = "downsize" THEN current \div 2 ELSE current * 2

(* demoRecommendedCPU and demoRecommendedMem: half of it, or twice.        *)
DemoSize(current) ==
    IF demo = "downsize" THEN Max({current \div 2, 1}) ELSE current * 2

demoResult ==
    [direction |-> demo, cores |-> DemoSize(getVM.cores),
     memory |-> DemoSize(getVM.memory)]

(* Only the CPU samples are counted.  Without enough of them, or without   *)
(* an answer, there is no verdict this time.                               *)
Reconcile ==
    /\ found = Nil
    /\ \/ demo # "off" /\ found' = demoResult
       \/ LET u == GetVMUtilization(load.cpu, load.memory)
          IN  /\ demo = "off"
              /\ ~u.failed
              /\ u.dataPoints >= MinDataPoints
              /\ found' \in Analyze(getVM, u.cpu, u.memory, policy)
    /\ UNCHANGED <<vm, load, demo, policy, applied, rounds>>

(* PatchVMResources writes the guest memory.                               *)
Patch ==
    /\ found # Nil
    /\ rounds < MaxRounds /\ rounds' = rounds + 1
    /\ vm' = [vm EXCEPT !.cores = found.cores, !.guest = found.memory]
    /\ applied' = found.direction
    /\ found' = Nil
    /\ UNCHANGED <<load, demo, policy>>

Next == Reconcile \/ Patch

Spec == Init /\ [][Next]_vars

----------------------------------------------------------------------------
(* The samples of an answer that the analysis sees.                        *)
Samples == {FirstSeries(load.cpu), FirstSeries(load.memory)}

(* The k-th smallest sample, by counting.                                  *)
Ranked(samples, k) ==
    Min({v \in Range(samples) :
            Cardinality({i \in DOMAIN samples : samples[i] <= v}) >= k})

(* ComputePercentile is what its comment says: the 95th percentile lies    *)
(* between the two samples of the nearest ranks, as far from each as the   *)
(* rank is, whatever the order the samples arrive in.                      *)
PercentileIsRanked ==
    \A s \in Samples : DOMAIN s # {} =>
        LET n == Cardinality(DOMAIN s) - 1
            low == (95 * n) \div 100
            high == (95 * n + 99) \div 100
            p == ComputePercentile(s, 95)
        IN  /\ p \in 100 * Ranked(s, low + 1) .. 100 * Ranked(s, high + 1)
            /\ p - 100 * Ranked(s, low + 1)
               = (95 * n - 100 * low)
                 * (Ranked(s, high + 1) - Ranked(s, low + 1))

(* A recommendation carries the load it was computed from: smaller sizes   *)
(* leave the policy's headroom over the 95th percentile unless nothing is  *)
(* taken away, larger ones are at most 70 percent used at the peak.  The   *)
(* load is what the numbers among the values of the first series say.      *)
CoversLoad ==
    LET Numbers(r) == IF r.series = <<>> THEN <<>>
                      ELSE Restrict(r.series[1],
                                    {k \in DOMAIN r.series[1] :
                                        r.series[1][k] # NotANumber})
        cpu == Utilization(Numbers(load.cpu))
        mem == Utilization(Numbers(load.memory))
        Fits(new, old, u) ==
            \/ old = 0
            \/ /\ found.direction = "downsize"
               /\ new = old \/ new * 100 * One >= u.p95 * (100 + policy.headroom)
               /\ new * One >= u.p95
            \/ /\ found.direction = "upsize"
               /\ new * 7 * One >= u.max * 10
    IN  demo = "off" /\ found # Nil =>
            /\ Fits(found.cores, vm.cores, cpu)
            /\ Fits(found.memory, getVM.memory, mem)

(* A downsize never adds and an upsize never takes away, for CPU or for    *)
(* memory, in demo mode or by analysis, as long as the VM says its size;   *)
(* and no recommendation brings a VM that has a size down to none.         *)
DirectionIsTrue ==
    found # Nil =>
        \A s \in {<<vm.cores, found.cores>>, <<getVM.memory, found.memory>>} :
            s[1] > 0 =>
                /\ s[2] > 0
                /\ found.direction = "downsize" => s[2] <= s[1]
                /\ found.direction = "upsize" => s[2] >= s[1]

Steady == \A s \in Samples : \A i, j \in DOMAIN s : s[i] = s[j]

(* The headroom of the policy keeps a VM below its upsize threshold.       *)
Roomy == 100 * 100 < policy.threshold * (100 + policy.headroom)

(* A utilization is the threshold itself, as near as float64 can tell.     *)
Borderline ==
    LET u == GetVMUtilization(load.cpu, load.memory)
        Meets(size, used) == 100 * used = policy.threshold * size * One
    IN  \E k \in {"p95", "max"} : \/ Meets(getVM.cores, u.cpu[k])
                                 \/ Meets(getVM.memory, u.memory[k])

(* A VM whose size was changed is not found too small afterwards, under    *)
(* the same load, by the very analysis that chose the size.  After an      *)
(* upsize this holds for every load when the threshold is above 70, after  *)
(* a downsize for a steady load and a roomy policy, unless the load is at  *)
(* the threshold itself.  The VM says its size in the fields that the      *)
(* operator changes.  Demo mode is left out: it finds a VM too small, or   *)
(* too large, for ever.                                                    *)
NoFlapping ==
    /\ demo = "off" /\ vm.cores > 0 /\ vm.guest > 0 /\ vm.requests = NoRequest
    /\ \/ applied = "upsize" /\ policy.threshold > 70
       \/ applied = "downsize" /\ Steady /\ Roomy /\ ~Borderline
    => found.direction # "upsize"

=============================================================================
