------------------------------ MODULE MCVulkan -------------------------------
(* The device's source frames in two kinds of Vulkan filters, in one run:  *)
(* the rings that rolling chunks upload into and compute from (VkRolling)  *)
(* and the frames of NLM's window cache (WindowCache).  A behaviour is     *)
(* about one; the other stays in an initial state.                         *)
EXTENDS VkRolling, WindowCache, TLC

VARIABLE part

Node(radius, frames, chunks, two_stage, bound) ==
    [radius |-> radius, frames |-> frames, chunk |-> chunks, two_stage |-> two_stage, turns |-> bound]

MCNodes == {Node(1, 6, 1, FALSE, 3), Node(1, 4, 2, FALSE, 4), Node(1, 5, 1, TRUE, 3), Node(2, 6, 2, FALSE, 3)}
MCClip == 0 .. 4
MCRegions == 1 .. 4
Symmetric == Permutations(Threads)

ASSUME WindowAssumption

MCInit ==
    /\ part \in {"rolling", "windows"}
    /\ Init /\ (part = "windows" => d = CHOOSE node \in Nodes : TRUE)
    /\ WindowInit /\ (part = "rolling" => ~staged)
MCNext ==
    \/ part = "rolling" /\ Next /\ UNCHANGED <<part, windowVars>>
    \/ part = "windows" /\ WindowNext /\ UNCHANGED <<part, vars>>
MCSpec == MCInit /\ [][MCNext]_<<part, vars, windowVars>>

\* While a chunk or a frame is computed, some thread can go on or the device
\* can: tickets, lanes and semaphores never wait in a circle (enter,
\* group_driver.cpp), and neither do pins, uploads, slots and permits
\* (WindowCache::lookup, wait_queued).
SomeoneGoesOn == SomeoneMoves /\ SomeoneRuns
==============================================================================
