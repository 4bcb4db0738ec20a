------------------------------ MODULE MCVkSlots ------------------------------
(* Two questions about slots in one run: who gets one (SlotPool, on both   *)
(* backends) and what a Vulkan slot's frame leaves behind (VkSlot).  A     *)
(* behaviour is about one of them; the other stays in an initial state.    *)
EXTENDS VkSlot

CONSTANTS PoolThreads, Orders, Modes, PoolBudget
VARIABLES part, mode, unleased, waiting, pc, slot, asked

poolVars == <<mode, unleased, waiting, pc, slot, asked>>
Pool == INSTANCE SlotPool WITH Threads <- PoolThreads, Budget <- PoolBudget, free <- unleased
ASSUME Pool!PoolAssumption

MCSlots == {1, 2}
\* The layouts that differ in what waits behind what: VapourSynth's queue, one
\* copy queue with and without deferred downloads, one per direction.
MCLayouts == {<<-1, "">>, <<1, "">>, <<1, "shared">>, <<2, "">>}
MCFrames == {{}, Stages}

MCInit ==
    /\ part \in {"pool", "frame"}
    /\ Init /\ (part = "pool" => layout = QueueLayout(-1, ""))
    /\ Pool!Init /\ (part = "frame" => mode = "lifo")
MCNext ==
    \/ part = "frame" /\ Next /\ UNCHANGED <<part, poolVars>>
    \/ part = "pool" /\ Pool!Next /\ UNCHANGED <<part, vars>>
MCSpec == MCInit /\ [][MCNext]_<<part, vars, poolVars>> /\ Fairness /\ Pool!Fairness

\* The pool keeps the promise of SlotTurns: slots go out in turn, the lowest
\* order first, and no free slot is kept from the threads that ask (SlotPool).
PoolTakesTurns == Pool!PoolTakesTurns
==============================================================================
