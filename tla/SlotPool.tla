------------------------------ MODULE SlotPool -----------------------------
(***************************************************************************)
(* The pool of execution slots that every GPU filter leases its streams,   *)
(* staging sets and permits from: SlotPool of cuda/runtime/stream_pool.hpp *)
(* with acquire() ("fifo") or acquire(order) ("ordered"), and SlotPool of  *)
(* vulkan/runtime/slot.hpp ("lifo").  A pool is used with one of them.     *)
(*                                                                         *)
(* A critical section of mutex_ is one action; the notification that       *)
(* follows an unlock is a step of its own, so that other threads come      *)
(* between.  A sleeper has left the mutex in available_.wait and a ready   *)
(* thread has been woken and will evaluate its predicate again.            *)
(***************************************************************************)
EXTENDS Integers, Sequences, FiniteSets, SequencesExt

CONSTANTS Threads,    \* VapourSynth's threads
          Slots,      \* the pool's slots: 1 .. size
          Orders,     \* orders (frame numbers)
          Modes,      \* the uses to try: "fifo", "ordered", "lifo"
          Budget      \* bound: leases in one behaviour

\* What the constants have to be.
PoolAssumption ==
    /\ IsFiniteSet(Slots) /\ Slots = 1 .. Cardinality(Slots)
    /\ Orders \subseteq Nat

VARIABLES mode,       \* how the pool is used; fixed
          free,       \* free_: the free slots, the longest free first
          waiting,    \* waiting_: thread -> the order it put into the multiset, NoOrder
          pc, slot,   \* per thread; slot is its lease
          asked       \* leases asked for, for Budget

vars == <<mode, free, waiting, pc, slot, asked>>

NoOrder == -1
NoSlot == 0

Asking == {t \in Threads : waiting[t] # NoOrder}

Init ==
    /\ mode \in Modes
    /\ free = [i \in Slots |-> i]
    /\ waiting = [t \in Threads |-> NoOrder]
    /\ pc = [t \in Threads |-> "idle"]
    /\ slot = [t \in Threads |-> NoSlot]
    /\ asked = 0

\* Mutant: a waiter goes on whatever its order.
MayTakeAny(t, asking) == free # <<>>

\* The predicate of available_.wait, with the orders of the multiset in asking.
MayTake(t, asking) ==
    /\ free # <<>>
    /\ mode = "ordered" => \A u \in Threads : asking[u] # NoOrder => asking[t] <= asking[u]

Taken == IF mode = "lifo" THEN Last(free) ELSE Head(free)

Left == IF mode = "lifo" THEN Front(free) ELSE Tail(free)

\* Whether a thread that has taken a slot wakes the others (more).
PassesOn(asking) ==
    mode = "ordered" /\ Left # <<>> /\ \E u \in Threads : asking[u] # NoOrder

\* The end of acquire(): t leaves the multiset with the slot.
Take(t, asking) ==
    /\ MayTake(t, asking)
    /\ waiting' = [asking EXCEPT ![t] = NoOrder]
    /\ slot' = [slot EXCEPT ![t] = Taken]
    /\ free' = Left
    /\ pc' = [pc EXCEPT ![t] = IF PassesOn([asking EXCEPT ![t] = NoOrder]) THEN "passOn" ELSE "holds"]

\* available_.wait with a predicate that does not hold: t sleeps.
Sleep(t, asking) ==
    /\ ~MayTake(t, asking)
    /\ waiting' = asking
    /\ pc' = [pc EXCEPT ![t] = "asleep"]
    /\ UNCHANGED <<free, slot>>

-----------------------------------------------------------------------------
(* acquire(), acquire(order).  The plain pools keep no multiset: the       *)
(* thread's entry only says that it asks.                                  *)

Acquire(t, o) ==
    /\ pc[t] = "idle" /\ asked < Budget
    /\ asked' = asked + 1 /\ UNCHANGED mode
    /\ LET asking == [waiting EXCEPT ![t] = o]
       IN  Take(t, asking) \/ Sleep(t, asking)

Recheck(t) ==
    /\ pc[t] = "ready"
    /\ Take(t, waiting) \/ Sleep(t, waiting)
    /\ UNCHANGED <<mode, asked>>

Spurious(t) ==
    /\ pc[t] = "asleep"
    /\ pc' = [pc EXCEPT ![t] = "ready"]
    /\ UNCHANGED <<mode, free, waiting, slot, asked>>

Woken(threads) == [t \in Threads |-> IF t \in threads /\ pc[t] = "asleep" THEN "ready" ELSE pc[t]]

\* notify_all, by a thread that goes on to next.
NotifyAll(t, next) ==
    /\ pc' = [Woken(Threads) EXCEPT ![t] = next]
    /\ UNCHANGED <<mode, free, waiting, slot, asked>>

NotifyOne(t, next) ==
    /\ \/ \E u \in Threads : pc[u] = "asleep" /\ pc' = [Woken({u}) EXCEPT ![t] = next]
       \/ (\A u \in Threads : pc[u] # "asleep") /\ pc' = [pc EXCEPT ![t] = next]
    /\ UNCHANGED <<mode, free, waiting, slot, asked>>

PassOn(t) == pc[t] = "passOn" /\ NotifyAll(t, "holds")

\* ordered, as give_back reads it under the mutex.
WakesAll == mode = "ordered" /\ Asking # {}

\* ~Lease and the critical section of give_back.
GiveBack(t) ==
    /\ pc[t] = "holds"
    /\ free' = Append(free, slot[t])
    /\ slot' = [slot EXCEPT ![t] = NoSlot]
    /\ pc' = [pc EXCEPT ![t] = IF WakesAll THEN "wakeAll" ELSE "wakeOne"]
    /\ UNCHANGED <<mode, waiting, asked>>

Wake(t) ==
    \/ pc[t] = "wakeAll" /\ NotifyAll(t, "idle")
    \/ pc[t] = "wakeOne" /\ NotifyOne(t, "idle")

Step(t) == Recheck(t) \/ PassOn(t) \/ GiveBack(t) \/ Wake(t)

Next == \E t \in Threads : \/ Step(t)
                           \/ Spurious(t)
                           \/ \E o \in Orders : Acquire(t, o)

\* A woken thread runs, a leaseholder ends its frame (its own waits are
\* bounded), and a thread does not stop between an unlock and its notification.
Fairness == \A t \in Threads : WF_vars(Step(t))

Spec == Init /\ [][Next]_vars /\ Fairness

-----------------------------------------------------------------------------
\* The pool keeps the promise of SlotTurns: slots go out in turn, the lowest
\* order first, and no free slot is kept from the threads that ask.
Turns == INSTANCE SlotTurns WITH asks <- waiting, lease <- slot
PoolTakesTurns == Turns!TurnsSpec
=============================================================================
