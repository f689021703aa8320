------------------------------ MODULE MCSizing ------------------------------
(***************************************************************************)
(* An instance of Sizing for TLC: VMs of up to four cores and GiB, up to   *)
(* three samples; the default policy, a cautious one and one that leaves   *)
(* no headroom.                                                            *)
(***************************************************************************)
EXTENDS Sizing, SequencesExt

(* One series of up to three numbers, or of one that is three quarters of  *)
(* the largest VM; and the answers that are not that.                      *)
SmallResponses ==
    {Answer(<<s>>) : s \in BoundedSeq({0, 120, 350}, 3)}
        \cup {Answer(<<<<300>>>>), Failure, Answer(<<>>),
              Answer(<<<<NotANumber, 120>>>>), Answer(<<<<350>>, <<0>>>>),
              Answer(<<<<>>, <<350>>>>)}

ThreePolicies ==
    {[headroom |-> 20, threshold |-> 90, minCores |-> 1, minMemory |-> 1],
     [headroom |-> 50, threshold |-> 75, minCores |-> 2, minMemory |-> 0],
     [headroom |-> 0, threshold |-> 60, minCores |-> 1, minMemory |-> 1]}

=============================================================================
