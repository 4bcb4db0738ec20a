------------------------------- MODULE MCCarry -------------------------------
(* Two things a request leaves for the one after it, in one run: the       *)
(* rolling state that CUDA's chunks carry on from, in the order of their   *)
(* tickets (RollTurns), and the weight maps of the Vulkan NLM filter       *)
(* (WeightCache).  A behaviour is about one; the other stays in an initial *)
(* state.                                                                  *)
EXTENDS RollTurns, WeightCache, TLC

VARIABLE part

MCSlots == {1, 2}
MCPlanes == {0, 1}
MCSets == {1, 2}
\* Requests that fail while they record, and those whose download stage cannot
\* be submitted behind the compute stage.
MCFaultSets == {{"record"}, {"record", "partial"}}
Symmetric == Permutations(Threads)
ASSUME TurnsAssumption /\ WeightAssumption

MCInit ==
    /\ part \in {"turns", "weights"}
    /\ Init /\ (part = "weights" => together)
    /\ WeightInit /\ (part = "turns" => faults = {"record"})
MCNext ==
    \/ part = "turns" /\ Next /\ UNCHANGED <<part, weightVars>>
    \/ part = "weights" /\ WeightNext /\ UNCHANGED <<part, vars>>
MCSpec == MCInit /\ [][MCNext]_<<part, vars, weightVars>>
==============================================================================
