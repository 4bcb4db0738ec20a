----------------------------- MODULE SlotTurns -----------------------------
(***************************************************************************)
(* What a slot pool promises its callers, with no queue, no condition      *)
(* variable and no notification: a thread that asks gets a free slot, in   *)
(* ordered mode the one with the lowest order first, and a slot that is    *)
(* free while somebody asks does not stay free.  SlotPool implements it.   *)
(***************************************************************************)
EXTENDS Integers, FiniteSets

CONSTANTS Threads, Slots, Orders, Modes

VARIABLES mode,     \* how the pool is used; fixed
          asks,     \* thread -> the order it asks with, NoOrder when it does not ask
          lease     \* thread -> the slot it has, NoSlot

turnVars == <<mode, asks, lease>>

NoOrder == -1
NoSlot == 0

Free == Slots \ {lease[t] : t \in Threads}

TurnsInit ==
    /\ mode \in Modes
    /\ asks = [t \in Threads |-> NoOrder]
    /\ lease = [t \in Threads |-> NoSlot]

Ask(t, o) ==
    /\ asks[t] = NoOrder /\ lease[t] = NoSlot
    /\ asks' = [asks EXCEPT ![t] = o]
    /\ UNCHANGED <<mode, lease>>

\* t is next: any asking thread, or a lowest one.
IsNext(t) ==
    /\ asks[t] # NoOrder
    /\ mode = "ordered" => \A u \in Threads : asks[u] # NoOrder => asks[t] <= asks[u]

Grant(t) ==
    /\ IsNext(t)
    /\ \E s \in Free : lease' = [lease EXCEPT ![t] = s]
    /\ asks' = [asks EXCEPT ![t] = NoOrder]
    /\ UNCHANGED mode

\* A thread that finds a slot free asks and gets it in one step.
AskAndGet(t, o) ==
    /\ asks[t] = NoOrder /\ lease[t] = NoSlot
    /\ mode = "ordered" => \A u \in Threads : asks[u] # NoOrder => o <= asks[u]
    /\ \E s \in Free : lease' = [lease EXCEPT ![t] = s]
    /\ UNCHANGED <<mode, asks>>

Return(t) ==
    /\ lease[t] # NoSlot
    /\ lease' = [lease EXCEPT ![t] = NoSlot]
    /\ UNCHANGED <<mode, asks>>

TurnsNext ==
    \E t \in Threads : \/ Grant(t)
                       \/ Return(t)
                       \/ \E o \in Orders : Ask(t, o) \/ AskAndGet(t, o)

\* A free slot goes to somebody, and whoever has one gives it back.
TurnsFairness ==
    /\ WF_turnVars(\E t \in Threads : Grant(t))
    /\ \A t \in Threads : WF_turnVars(Return(t))

TurnsSpec == TurnsInit /\ [][TurnsNext]_turnVars /\ TurnsFairness
=============================================================================
