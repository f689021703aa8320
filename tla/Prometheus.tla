----------------------------- MODULE Prometheus -----------------------------
(***************************************************************************)
(* What the Prometheus client makes of an answer.  An answer is an error   *)
(* or a list of series, one for every set of labels that matches the       *)
(* query; a series is a list of values, some of which may not be numbers.  *)
(* A VM has more than one series when its metrics have changed labels,     *)
(* for instance because it has moved to another node.                      *)
(***************************************************************************)
EXTENDS Calculator, Sequences

NotANumber == -1

Failure == [ok |-> FALSE, series |-> <<>>]

Answer(series) == [ok |-> TRUE, series |-> series]

(* Values that cannot be parsed are left out, series are not.  The others  *)
(* are kept by their positions, which nothing depends on.                  *)
QueryRange(response) ==
    [i \in DOMAIN response.series |->
        LET values == response.series[i]
        IN  Restrict(values, {k \in DOMAIN values : values[k] # NotANumber})]

(* Only the first series is used, whatever the others say.                 *)
FirstSeries(response) ==
    IF response.series = <<>> THEN <<>> ELSE QueryRange(response)[1]

GetVMMetrics(cpu, memory) ==
    [cpu |-> FirstSeries(cpu), memory |-> FirstSeries(memory)]

(* Both resources, or neither when one of the two queries fails.           *)
GetVMUtilization(cpu, memory) ==
    LET metrics == GetVMMetrics(cpu, memory)
    IN  [failed |-> ~(cpu.ok /\ memory.ok),
         cpu |-> Utilization(metrics.cpu),
         memory |-> Utilization(metrics.memory),
         dataPoints |-> Cardinality(DOMAIN metrics.cpu)]

=============================================================================
