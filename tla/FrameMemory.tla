----------------------------- MODULE FrameMemory ----------------------------
(***************************************************************************)
(* Direct DMA between a device and VapourSynth's frames                    *)
(* (src/frontend/frame_memory.cpp): the blocks of a core's frame pool are  *)
(* locked the second time one is transferred, at most up to a cap, and are *)
(* unlocked by the pool's release hook or when the domain's last instance  *)
(* on the core goes.  One core; a block counts one unit of the cap.        *)
(*                                                                         *)
(* External: the pool.  A block is live while the pool has it; the pool    *)
(* gives a block that no frame is in back to the system, after the release *)
(* hook when one is installed, and may get the same address again.         *)
(***************************************************************************)
EXTENDS Integers, FiniteSets

CONSTANTS Users,       \* threads that transfer frames
          Blocks,      \* of the pool
          Domains,     \* what a lock serves: devices
          Instances,   \* FrameMemory objects that may exist
          DomainOf,    \* instance -> domain
          Cap          \* CoreLocks::cap

NoBlock == "no block"
Nobody == "nobody"

\* What the constants have to be.
MemoryAssumption ==
    /\ DomainOf \in [Instances -> Domains]
    /\ Cap \in Nat
    /\ IsFiniteSet(Blocks) /\ IsFiniteSet(Domains)
    /\ NoBlock \notin Blocks /\ Nobody \notin Instances

VARIABLES table,      \* State::blocks: block -> domain -> BlockState or "none"
          lock_bytes, \* CoreLocks::bytes
          attached,   \* instances (State::domains counts them per domain)
          hook,       \* the release hook is installed
          removing,   \* a destructor (holding attach_mu) that is to remove the hook
          live,       \* external: the blocks the pool has
          locks,      \* external: what the backend has locked, <<block, domain>>
          pc, holds, by    \* per thread: its step, its frame's block, its instance

poolVars == <<live, locks>>
lockVars == <<table, lock_bytes, attached, hook, removing, poolVars, pc, holds, by>>

LockInit ==
    /\ table = [b \in Blocks |-> [m \in Domains |-> "none"]]
    /\ lock_bytes = 0
    /\ attached = {} /\ hook = FALSE /\ removing = FALSE
    /\ live = {} /\ locks = {}
    /\ pc = [t \in Users |-> "idle"]
    /\ holds = [t \in Users |-> NoBlock]
    /\ by = [t \in Users |-> Nobody]

Domain(t) == DomainOf[by[t]]
Entry(t) == table[holds[t]][Domain(t)]
Goto(t, place) == pc' = [pc EXCEPT ![t] = place]

-----------------------------------------------------------------------------
\* FrameMemory(): the first instance adds the hook.
Attach(i) ==
    /\ i \notin attached /\ ~removing
    /\ attached' = attached \union {i}
    /\ hook' = TRUE
    /\ lock_bytes' = IF attached = {} THEN 0 ELSE lock_bytes
    /\ UNCHANGED <<table, removing, poolVars, pc, holds, by>>

\* The domains that have no instance once i has gone.
LeavesDomain(i) == {DomainOf[i]} \ {DomainOf[j] : j \in attached \ {i}}

LockedIn(m) == {b \in Blocks : table[b][m] = "Locked"}

\* ~FrameMemory, up to the removal of the hook: the last instance of a domain
\* unlocks the domain's blocks and forgets them.
Detach(i) ==
    /\ i \in attached /\ ~removing
    /\ \A t \in Users : by[t] # i
    /\ attached' = attached \ {i}
    /\ table' = [b \in Blocks |-> [m \in Domains |-> IF m \in LeavesDomain(i) THEN "none" ELSE table[b][m]]]
    /\ locks' = {l \in locks : ~(l[2] \in LeavesDomain(i) /\ l[1] \in LockedIn(l[2]))}
    /\ lock_bytes' = lock_bytes - Cardinality({l \in Blocks \X LeavesDomain(i) : l[1] \in LockedIn(l[2])})
    /\ removing' = (attached = {i})
    /\ UNCHANGED <<hook, live, pc, holds, by>>

\* The core's last instance: locks.erase(core_), remove_release_hook.
RemoveHook ==
    /\ removing
    /\ hook' = FALSE /\ removing' = FALSE /\ lock_bytes' = 0
    /\ UNCHANGED <<table, attached, poolVars, pc, holds, by>>

-----------------------------------------------------------------------------
\* A request of instance i has a frame with a plane in block b.
Hold(t, i, b) ==
    /\ pc[t] = "idle" /\ i \in attached
    /\ holds' = [holds EXCEPT ![t] = b]
    /\ by' = [by EXCEPT ![t] = i]
    /\ live' = live \union {b}
    /\ Goto(t, "pinned")
    /\ UNCHANGED <<table, lock_bytes, attached, hook, removing, locks>>

Set(t, state) == table' = [table EXCEPT ![holds[t]][Domain(t)] = state]

\* pinned() at the first use of a block: staged.
FirstUse(t) ==
    /\ pc[t] = "pinned" /\ Entry(t) = "none"
    /\ Set(t, "Seen")
    /\ Goto(t, "staged")
    /\ UNCHANGED <<lock_bytes, attached, hook, removing, poolVars, holds, by>>

\* pinned() of a locked block, or of one that is being locked or cannot be.
KnownBlock(t) ==
    /\ pc[t] = "pinned" /\ Entry(t) \in {"Locking", "Locked", "Failed"}
    /\ Goto(t, IF Entry(t) = "Locked" THEN "direct" ELSE "staged")
    /\ UNCHANGED <<table, lock_bytes, attached, hook, removing, poolVars, holds, by>>

AtCap(t) ==
    /\ pc[t] = "pinned" /\ Entry(t) = "Seen" /\ lock_bytes + 1 > Cap
    /\ Goto(t, "staged")
    /\ UNCHANGED <<table, lock_bytes, attached, hook, removing, poolVars, holds, by>>

Reserved == lock_bytes + 1

\* pinned() at the second use: the bytes are reserved, the block is locked
\* outside the mutex.
BeginLock(t) ==
    /\ pc[t] = "pinned" /\ Entry(t) = "Seen" /\ lock_bytes + 1 <= Cap
    /\ Set(t, "Locking")
    /\ lock_bytes' = Reserved
    /\ Goto(t, "lock")
    /\ UNCHANGED <<attached, hook, removing, poolVars, holds, by>>

\* backend_->lock(), which may fail.
BackendLock(t) ==
    /\ pc[t] = "lock"
    /\ \/ /\ locks' = locks \union {<<holds[t], Domain(t)>>}
          /\ Goto(t, "locked")
       \/ UNCHANGED locks /\ Goto(t, "refused")
    /\ UNCHANGED <<table, lock_bytes, attached, hook, removing, live, holds, by>>

AfterRefusal == lock_bytes - 1

\* pinned() takes the mutex again.
EndLock(t) ==
    /\ pc[t] \in {"locked", "refused"}
    /\ Set(t, IF pc[t] = "locked" THEN "Locked" ELSE "Failed")
    /\ lock_bytes' = IF pc[t] = "locked" THEN lock_bytes ELSE AfterRefusal
    /\ Goto(t, IF pc[t] = "locked" THEN "direct" ELSE "staged")
    /\ UNCHANGED <<attached, hook, removing, poolVars, holds, by>>

\* The transfer is over and the frame freed.
Transferred(t) ==
    /\ pc[t] \in {"direct", "staged"}
    /\ Goto(t, "idle")
    /\ holds' = [holds EXCEPT ![t] = NoBlock]
    /\ by' = [by EXCEPT ![t] = Nobody]
    /\ UNCHANGED <<table, lock_bytes, attached, hook, removing, poolVars>>

\* Mutant: on_release looks at the block's first domain only.
ReleasedDomainsFirst(b) ==
    LET known == {m \in Domains : table[b][m] # "none"}
    IN  IF known = {} THEN {} ELSE {CHOOSE m \in known : TRUE}

\* on_release: every domain's entry of the block.
ReleasedDomains(b) == Domains

\* The pool gives a block back to the system; on_release unlocks it first.
PoolRelease(b) ==
    /\ b \in live /\ \A t \in Users : holds[t] # b
    /\ live' = live \ {b}
    /\ IF hook
       THEN LET unlocked == {m \in ReleasedDomains(b) : table[b][m] = "Locked"}
            IN  /\ table' = [table EXCEPT ![b] = [m \in Domains |-> IF m \in ReleasedDomains(b) THEN "none" ELSE @[m]]]
                /\ locks' = locks \ ({b} \X unlocked)
                /\ lock_bytes' = lock_bytes - Cardinality(unlocked)
       ELSE UNCHANGED <<table, locks, lock_bytes>>
    /\ UNCHANGED <<attached, hook, removing, pc, holds, by>>

Transfer(t) == \/ \E i \in Instances, b \in Blocks : Hold(t, i, b)
               \/ FirstUse(t) \/ KnownBlock(t) \/ AtCap(t) \/ BeginLock(t)
               \/ BackendLock(t) \/ EndLock(t) \/ Transferred(t)

LockNext == \/ \E i \in Instances : Attach(i) \/ Detach(i)
            \/ RemoveHook
            \/ \E t \in Users : Transfer(t)
            \/ \E b \in Blocks : PoolRelease(b)

LockSpec == LockInit /\ [][LockNext]_lockVars

-----------------------------------------------------------------------------
\* Memory is never given back to the system while a backend has it locked,
\* and what is locked is known to the table, so that every handle is undone
\* once: by the hook, or by the domain's last instance.
LocksCovered ==
    \A l \in locks : /\ l[1] \in live
                     /\ \/ table[l[1]][l[2]] = "Locked"
                        \/ \E t \in Users : pc[t] = "locked" /\ holds[t] = l[1] /\ Domain(t) = l[2]

\* A block that is being locked has its entry until the locking thread takes
\* the mutex again ("Never Locking: the locking thread holds a frame whose
\* plane is in the block", frame_memory.cpp:153): neither the pool's hook nor
\* a destructor meets it, and one thread locks it.
LockingHeld ==
    \A b \in Blocks, m \in Domains :
        (IF table[b][m] = "Locking" THEN 1 ELSE 0) =
            Cardinality({t \in Users : pc[t] \in {"lock", "locked", "refused"} /\ holds[t] = b /\ Domain(t) = m})

\* The locked bytes are those of the blocks that are locked or being locked,
\* and stay within the cap however many threads lock at once.
CapHolds ==
    /\ lock_bytes = Cardinality({l \in Blocks \X Domains : table[l[1]][l[2]] \in {"Locking", "Locked"}})
    /\ lock_bytes <= Cap

\* A transfer that uses a block's lock finds the block locked for its domain
\* until it is over.
DirectLocked == \A t \in Users : pc[t] = "direct" => <<holds[t], Domain(t)>> \in locks

\* Without an instance on the core nothing is locked and no entry is left.
NothingLeft == attached = {} => locks = {} /\ \A b \in Blocks, m \in Domains : table[b][m] = "none"

\* Locked memory is accounted for: with the pool, the table, the cap, the
\* transfers that use it and the instances that are to undo it.
LocksKept == LocksCovered /\ LockingHeld /\ CapHolds /\ DirectLocked /\ NothingLeft
=============================================================================
