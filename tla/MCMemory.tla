------------------------------ MODULE MCMemory -------------------------------
(* Two kinds of memory in one run: what a node's accounts are charged for  *)
(* (MemoryAccounts) and the blocks of VapourSynth's pool that a backend    *)
(* locks (FrameMemory).  A behaviour is about one; the other stays in its  *)
(* initial state.  The users of the accounts meet only in the budget: a    *)
(* request's frames and the device's buffers each compete with the scratch *)
(* and the chunks, in behaviours of their own.                             *)
EXTENDS MemoryAccounts, FrameMemory, TLC

CONSTANTS d1, d2, i1, i2, i3
VARIABLE part

\* The sum of the two input frames overflows a size; 12 on top of 4 owned wraps.
MCFrameBytes == [f \in Outputs \cup Inputs |-> IF f \in Outputs THEN 2 ELSE 8]
MCAccounts == TheAccounts
MCFirstKind == TheFirstKind
Symmetric == Permutations(Threads) \cup Permutations(Buffers) \cup Permutations(Inputs) \cup Permutations(Blocks)

\* Two instances on one device, one on another.
MCDomains == {d1, d2}
MCInstances == {i1, i2, i3}
MCDomainOf == i1 :> d1 @@ i2 :> d1 @@ i3 :> d2
ASSUME AccountsAssumption /\ MemoryAssumption

MCInit == part \in {"frames", "buffers", "pool"} /\ Init /\ LockInit
MCNext ==
    \/ part = "frames" /\ (WorkspaceNext \/ FrameNext \/ ChunkNext) /\ UNCHANGED <<part, lockVars>>
    \/ part = "buffers" /\ (WorkspaceNext \/ BufferNext \/ ChunkNext) /\ UNCHANGED <<part, lockVars>>
    \/ part = "pool" /\ LockNext /\ UNCHANGED <<part, vars>>
MCSpec == MCInit /\ [][MCNext]_<<part, vars, lockVars>>
==============================================================================
