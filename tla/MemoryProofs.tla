---------------------------- MODULE MemoryProofs ----------------------------
(***************************************************************************)
(* Proofs about a node's memory: the blocks of VapourSynth's pool that a   *)
(* backend locks (FrameMemory), for every set of threads, blocks, domains  *)
(* and instances and every cap; what its accounts are charged for          *)
(* (MemoryAccounts), for every set of users, sizes and every limit; and    *)
(* BM4D's chunk stores (Bm4dChunks), for every set of requests and         *)
(* prefetch threads, every node and every limit.                           *)
(***************************************************************************)
EXTENDS MemoryAccounts, FrameMemory, Bm4dInvariant, FoldLemmas, SequenceTheorems

-----------------------------------------------------------------------------
(* Locked blocks.                                                          *)

States == {"none", "Seen", "Locking", "Locked", "Failed"}
LockSteps == {"lock", "locked", "refused"}

TypeOK ==
    /\ table \in [Blocks -> [Domains -> States]]
    /\ lock_bytes \in Int
    /\ attached \subseteq Instances
    /\ hook \in BOOLEAN /\ removing \in BOOLEAN
    /\ live \subseteq Blocks /\ locks \subseteq Blocks \X Domains
    /\ pc \in [Users -> {"idle", "pinned", "staged", "direct"} \cup LockSteps]
    /\ holds \in [Users -> Blocks \cup {NoBlock}]
    /\ by \in [Users -> Instances \cup {Nobody}]

\* A thread in a transfer holds a live block for an attached instance.
TransfersHold ==
    \A t \in Users : IF pc[t] = "idle" THEN holds[t] = NoBlock /\ by[t] = Nobody
                                         ELSE holds[t] \in live /\ by[t] \in attached

\* The hook is there while the core has an instance, and until it is removed.
HookKept ==
    /\ hook <=> attached # {} \/ removing
    /\ removing => attached = {}

\* An entry is about a live block and a domain that has an instance.
EntriesKept ==
    \A b \in Blocks, m \in Domains :
        table[b][m] # "none" => b \in live /\ \E i \in attached : DomainOf[i] = m

\* The pairs of a block and a domain that threads at these steps lock.
AtSteps(steps) == {<<holds[t], Domain(t)>> : t \in {u \in Users : pc[u] \in steps}}
BeingLocked == AtSteps(LockSteps)
Unentered == AtSteps({"locked"})

\* An entry that is being locked has one thread that locks it.
LockersKnown ==
    /\ \A b \in Blocks, m \in Domains : table[b][m] = "Locking" => <<b, m>> \in BeingLocked
    /\ \A t \in Users : pc[t] \in LockSteps => Entry(t) = "Locking"
    /\ \A t, u \in Users : /\ pc[t] \in LockSteps /\ pc[u] \in LockSteps
                            /\ holds[t] = holds[u] /\ Domain(t) = Domain(u)
                            => t = u

\* The backend has locked the blocks with a locked entry and those that a
\* thread has locked and not entered yet.
LocksExact ==
    \A b \in Blocks, m \in Domains :
        <<b, m>> \in locks <=> table[b][m] = "Locked" \/ <<b, m>> \in Unentered

DirectEntry == \A t \in Users : pc[t] = "direct" => Entry(t) = "Locked"

Counted == {l \in Blocks \X Domains : table[l[1]][l[2]] \in {"Locking", "Locked"}}

IInv == /\ TypeOK /\ TransfersHold /\ HookKept /\ EntriesKept
        /\ LockersKnown /\ LocksExact /\ DirectEntry /\ CapHolds

-----------------------------------------------------------------------------
\* What pinned() works on: a thread in a transfer has a block and a domain.
LEMMA Holding ==
    ASSUME MemoryAssumption, TypeOK, TransfersHold, NEW t \in Users, pc[t] # "idle"
    PROVE  /\ holds[t] \in Blocks /\ holds[t] \in live
           /\ by[t] \in Instances /\ by[t] \in attached
           /\ Domain(t) \in Domains /\ Domain(t) = DomainOf[by[t]]
  BY DEF MemoryAssumption, TypeOK, TransfersHold, Domain

\* Set changes the thread's entry and no other.
LEMMA SetEntry ==
    ASSUME TypeOK, NEW t \in Users, NEW state \in States,
           holds[t] \in Blocks, Domain(t) \in Domains, Set(t, state)
    PROVE  /\ table' \in [Blocks -> [Domains -> States]]
           /\ \A b \in Blocks, m \in Domains :
                table'[b][m] = IF b = holds[t] /\ m = Domain(t) THEN state ELSE table[b][m]
<1> DEFINE b0 == holds[t]  m0 == Domain(t)
<1>1. table' = [table EXCEPT ![b0][m0] = state]
  BY DEF Set
<1>2. b0 \in Blocks /\ m0 \in Domains
  OBVIOUS
<1> HIDE DEF b0, m0
<1>3. /\ table' \in [Blocks -> [Domains -> States]]
      /\ \A b \in Blocks, m \in Domains :
            table'[b][m] = IF b = b0 /\ m = m0 THEN state ELSE table[b][m]
  BY <1>1, <1>2 DEF TypeOK
<1> QED BY <1>3 DEF b0, m0

\* A step that none of the steps is entered or left by locks the same pairs.
LEMMA SameSteps ==
    ASSUME NEW steps, \A t \in Users : pc'[t] \in steps <=> pc[t] \in steps,
           \A t \in Users : pc[t] \in steps => holds'[t] = holds[t] /\ Domain(t)' = Domain(t)
    PROVE  AtSteps(steps)' = AtSteps(steps)
  BY DEF AtSteps

\* What is counted is finite.
LEMMA CountedFinite ==
    ASSUME MemoryAssumption
    PROVE  /\ IsFiniteSet(Counted) /\ Cardinality(Counted) \in Nat
           /\ Counted \subseteq Blocks \X Domains
<1>1. IsFiniteSet(Blocks \X Domains)
  BY FS_Product DEF MemoryAssumption
<1>2. Counted \in SUBSET (Blocks \X Domains)
  BY DEF Counted
<1> QED BY <1>1, <1>2, FS_Subset, FS_CardinalityType

\* CapHolds when the counted pairs change by one, or not at all.
LEMMA CapSame ==
    ASSUME CapHolds, lock_bytes' = lock_bytes, Counted' = Counted
    PROVE  CapHolds'
  BY DEF CapHolds, Counted

LEMMA CapLess ==
    ASSUME MemoryAssumption, TypeOK, CapHolds, NEW gone, gone \subseteq Counted,
           Counted' = Counted \ gone, lock_bytes' = lock_bytes - Cardinality(gone)
    PROVE  CapHolds' /\ lock_bytes' \in Int
<1>1. /\ IsFiniteSet(Counted) /\ Cardinality(Counted) \in Nat
  BY CountedFinite
<1>2. Cardinality(Counted \ gone) = Cardinality(Counted) - Cardinality(Counted \cap gone)
  BY <1>1, FS_Difference
<1>3. Counted \cap gone = gone
  OBVIOUS
<1>4. gone \in SUBSET Counted
  OBVIOUS
<1>5. Cardinality(gone) \in Nat
  BY <1>1, <1>4, FS_Subset, FS_CardinalityType
<1>6. lock_bytes = Cardinality(Counted) /\ lock_bytes <= Cap /\ Cap \in Nat
  BY DEF CapHolds, Counted, MemoryAssumption
<1>7. Cardinality(Counted') = Cardinality(Counted) - Cardinality(gone)
  BY <1>2, <1>3
<1>8. lock_bytes' = Cardinality(Counted')
  BY <1>6, <1>7
<1>9. lock_bytes' <= Cap /\ lock_bytes' \in Int
  BY <1>1, <1>5, <1>6, <1>7, <1>8
<1> QED BY <1>8, <1>9 DEF CapHolds, Counted

LEMMA CapMore ==
    ASSUME MemoryAssumption, TypeOK, CapHolds, NEW l, l \notin Counted,
           Counted' = Counted \cup {l}, lock_bytes' = lock_bytes + 1, lock_bytes + 1 <= Cap
    PROVE  CapHolds'
<1>1. /\ IsFiniteSet(Counted) /\ Cardinality(Counted) \in Nat
  BY CountedFinite
<1>2. Cardinality(Counted \cup {l}) = Cardinality(Counted) + 1
  BY <1>1, FS_AddElement
<1>3. lock_bytes = Cardinality(Counted)
  BY DEF CapHolds, Counted
<1>4. lock_bytes' = Cardinality(Counted') /\ lock_bytes' <= Cap
  BY <1>2, <1>3
<1> QED BY <1>4 DEF CapHolds, Counted

-----------------------------------------------------------------------------
(* Each action keeps the invariant.                                        *)

\* Without an instance nothing is counted.
LEMMA NothingCounted ==
    ASSUME MemoryAssumption, IInv, attached = {}
    PROVE  /\ \A b \in Blocks, m \in Domains : table[b][m] = "none"
           /\ \A t \in Users : pc[t] = "idle"
           /\ locks = {} /\ lock_bytes = 0
<1>1. \A b \in Blocks, m \in Domains : table[b][m] = "none"
  BY DEF IInv, EntriesKept
<1>2. \A t \in Users : pc[t] = "idle"
  BY DEF IInv, TransfersHold
<1>3. locks = {}
  BY <1>1, <1>2 DEF IInv, LocksExact, Unentered, AtSteps, TypeOK
<1>4. Counted = {}
  BY <1>1 DEF Counted
<1>5. lock_bytes = 0
  BY <1>4, FS_EmptySet DEF IInv, CapHolds, Counted
<1> QED BY <1>1, <1>2, <1>3, <1>5

LEMMA AttachKeeps ==
    ASSUME MemoryAssumption, IInv, NEW i \in Instances, Attach(i)
    PROVE  IInv'
<1> USE DEF Attach, poolVars
<1>1. lock_bytes' = lock_bytes
  BY NothingCounted
<1>2. TypeOK'
  BY <1>1 DEF IInv, TypeOK
<1>3. TransfersHold'
  BY DEF IInv, TransfersHold
<1>4. HookKept'
  BY DEF IInv, HookKept
<1>5. EntriesKept'
  BY DEF IInv, EntriesKept
<1>6. LockersKnown'
  BY DEF IInv, LockersKnown, BeingLocked, AtSteps, Domain, Entry
<1>7. LocksExact' /\ DirectEntry'
  BY DEF IInv, LocksExact, Unentered, AtSteps, DirectEntry, Domain, Entry
<1>8. CapHolds'
  BY <1>1, CapSame DEF IInv, Counted
<1> QED BY <1>2, <1>3, <1>4, <1>5, <1>6, <1>7, <1>8 DEF IInv

LEMMA RemoveHookKeeps ==
    ASSUME MemoryAssumption, IInv, RemoveHook
    PROVE  IInv'
<1> USE DEF RemoveHook, poolVars
<1>1. lock_bytes' = lock_bytes
  BY NothingCounted DEF IInv, HookKept
<1>2. TypeOK'
  BY <1>1 DEF IInv, TypeOK
<1>3. TransfersHold' /\ HookKept' /\ EntriesKept'
  BY DEF IInv, TransfersHold, HookKept, EntriesKept
<1>4. LockersKnown'
  BY DEF IInv, LockersKnown, BeingLocked, AtSteps, Domain, Entry
<1>5. LocksExact' /\ DirectEntry'
  BY DEF IInv, LocksExact, Unentered, AtSteps, DirectEntry, Domain, Entry
<1>6. CapHolds'
  BY <1>1, CapSame DEF IInv, Counted
<1> QED BY <1>2, <1>3, <1>4, <1>5, <1>6 DEF IInv

LEMMA HoldKeeps ==
    ASSUME MemoryAssumption, IInv,
           NEW t \in Users, NEW i \in Instances, NEW b \in Blocks, Hold(t, i, b)
    PROVE  IInv'
<1> USE DEF Hold, Goto
<1>1. /\ \A u \in Users \ {t} : pc'[u] = pc[u] /\ holds'[u] = holds[u] /\ by'[u] = by[u]
      /\ pc'[t] = "pinned" /\ holds'[t] = b /\ by'[t] = i
  BY DEF IInv, TypeOK
<1>2. TypeOK'
  BY DEF IInv, TypeOK
<1>3. TransfersHold'
  BY <1>1 DEF IInv, TransfersHold
<1>4. HookKept' /\ EntriesKept'
  BY DEF IInv, HookKept, EntriesKept
<1>5. \A u \in Users \ {t} : Domain(u)' = Domain(u) /\ Entry(u)' = Entry(u)
  BY <1>1 DEF Domain, Entry
<1>6. BeingLocked' = BeingLocked /\ Unentered' = Unentered
  BY <1>1, <1>5, SameSteps DEF LockSteps, BeingLocked, Unentered
<1>7. LockersKnown'
  <2>1. \A c \in Blocks, m \in Domains : table'[c][m] = "Locking" => <<c, m>> \in BeingLocked'
    BY <1>6 DEF IInv, LockersKnown
  <2>2. \A u \in Users : pc'[u] \in LockSteps => u # t
    BY <1>1 DEF LockSteps
  <2>3. \A u \in Users : pc'[u] \in LockSteps => Entry(u)' = "Locking"
    BY <2>2, <1>1, <1>5 DEF IInv, LockersKnown
  <2> QED BY <2>1, <2>2, <2>3, <1>1, <1>5 DEF IInv, LockersKnown
<1>8. LocksExact'
  BY <1>6 DEF IInv, LocksExact
<1>9. DirectEntry'
  BY <1>1, <1>5 DEF IInv, DirectEntry
<1>10. CapHolds'
  BY CapSame DEF IInv, Counted
<1> QED BY <1>2, <1>3, <1>4, <1>7, <1>8, <1>9, <1>10 DEF IInv

\* A step of a transfer that changes neither the table nor what is locked:
\* it neither begins nor ends the locking of a block, and a thread that goes
\* on directly has found its entry locked.
LEMMA PlaceKeeps ==
    ASSUME MemoryAssumption, IInv, NEW t \in Users, NEW next \in {"staged", "direct"},
           pc[t] \in {"pinned"}, Goto(t, next), next = "direct" => Entry(t) = "Locked",
           UNCHANGED <<table, lock_bytes, attached, hook, removing, live, locks, holds, by>>
    PROVE  IInv'
<1>1. (\A u \in Users \ {t} : pc'[u] = pc[u]) /\ pc'[t] = next
  BY DEF IInv, TypeOK, Goto
<1>2. TypeOK'
  BY DEF IInv, TypeOK, Goto
<1>3. TransfersHold' /\ HookKept' /\ EntriesKept'
  BY <1>1 DEF IInv, TransfersHold, HookKept, EntriesKept
<1>4. \A u \in Users : Domain(u)' = Domain(u) /\ Entry(u)' = Entry(u)
  BY DEF Domain, Entry
<1>5. BeingLocked' = BeingLocked /\ Unentered' = Unentered
  BY <1>1, <1>4, SameSteps DEF LockSteps, BeingLocked, Unentered
<1>6. LockersKnown'
  <2>1. \A u \in Users : pc'[u] \in LockSteps => u # t
    BY <1>1 DEF LockSteps
  <2> QED BY <2>1, <1>1, <1>4, <1>5 DEF IInv, LockersKnown
<1>7. LocksExact'
  BY <1>5 DEF IInv, LocksExact
<1>8. DirectEntry'
  BY <1>1, <1>4 DEF IInv, DirectEntry
<1>9. CapHolds'
  BY CapSame DEF IInv, Counted
<1> QED BY <1>2, <1>3, <1>6, <1>7, <1>8, <1>9 DEF IInv

LEMMA KnownBlockKeeps ==
    ASSUME MemoryAssumption, IInv, NEW t \in Users, KnownBlock(t) \/ AtCap(t)
    PROVE  IInv'
  BY PlaceKeeps DEF KnownBlock, AtCap, poolVars

LEMMA FirstUseKeeps ==
    ASSUME MemoryAssumption, IInv, NEW t \in Users, FirstUse(t)
    PROVE  IInv'
<1> USE DEF FirstUse, poolVars
<1>1. (\A u \in Users \ {t} : pc'[u] = pc[u]) /\ pc'[t] = "staged"
  BY DEF IInv, TypeOK, Goto
<1>2. /\ holds[t] \in Blocks /\ holds[t] \in live /\ by[t] \in attached
      /\ Domain(t) \in Domains /\ Domain(t) = DomainOf[by[t]]
  BY Holding DEF IInv
<1>3. /\ table' \in [Blocks -> [Domains -> States]]
      /\ \A b \in Blocks, m \in Domains :
            table'[b][m] = IF b = holds[t] /\ m = Domain(t) THEN "Seen" ELSE table[b][m]
  BY <1>2, SetEntry DEF IInv, States
<1>4. table[holds[t]][Domain(t)] = "none"
  BY DEF Entry
<1>5. TypeOK'
  BY <1>3 DEF IInv, TypeOK, Goto
<1>6. TransfersHold' /\ HookKept'
  BY <1>1 DEF IInv, TransfersHold, HookKept
<1>7. EntriesKept'
  BY <1>2, <1>3 DEF IInv, EntriesKept
<1>8. \A u \in Users : Domain(u)' = Domain(u)
  BY DEF Domain
<1>9. BeingLocked' = BeingLocked /\ Unentered' = Unentered
  BY <1>1, <1>8, SameSteps DEF LockSteps, BeingLocked, Unentered
<1>10. ASSUME NEW u \in Users, pc[u] # "idle", Entry(u) # "none"
       PROVE  Entry(u)' = Entry(u)
  BY <1>10, <1>3, <1>4, <1>8, Holding DEF IInv, Entry
<1>11. LockersKnown'
  <2>1. \A u \in Users : pc'[u] \in LockSteps => u # t
    BY <1>1 DEF LockSteps
  <2>2. \A b \in Blocks, m \in Domains : table'[b][m] = "Locking" => table[b][m] = "Locking"
    BY <1>3
  <2>3. \A u \in Users : pc'[u] \in LockSteps => pc[u] \in LockSteps /\ Entry(u)' = "Locking"
    BY <2>1, <1>1, <1>10 DEF IInv, LockersKnown, LockSteps
  <2> QED BY <2>2, <2>3, <1>8, <1>9 DEF IInv, LockersKnown
<1>12. LocksExact'
  BY <1>3, <1>4, <1>9 DEF IInv, LocksExact
<1>13. DirectEntry'
  BY <1>1, <1>10 DEF IInv, DirectEntry
<1>14. Counted' = Counted
  BY <1>3, <1>4 DEF Counted
<1>15. CapHolds'
  BY <1>14, CapSame DEF IInv
<1> QED BY <1>5, <1>6, <1>7, <1>11, <1>12, <1>13, <1>15 DEF IInv

LEMMA BeginLockKeeps ==
    ASSUME MemoryAssumption, IInv, NEW t \in Users, BeginLock(t)
    PROVE  IInv'
<1> USE DEF BeginLock, poolVars
<1>1. (\A u \in Users \ {t} : pc'[u] = pc[u]) /\ pc'[t] = "lock"
  BY DEF IInv, TypeOK, Goto
<1>2. /\ holds[t] \in Blocks /\ holds[t] \in live /\ by[t] \in attached
      /\ Domain(t) \in Domains /\ Domain(t) = DomainOf[by[t]]
  BY Holding DEF IInv
<1>3. /\ table' \in [Blocks -> [Domains -> States]]
      /\ \A b \in Blocks, m \in Domains :
            table'[b][m] = IF b = holds[t] /\ m = Domain(t) THEN "Locking" ELSE table[b][m]
  BY <1>2, SetEntry DEF IInv, States
<1>4. table[holds[t]][Domain(t)] = "Seen"
  BY DEF Entry
<1>5. TypeOK'
  BY <1>3 DEF IInv, TypeOK, Goto, LockSteps, Reserved
<1>6. TransfersHold' /\ HookKept'
  BY <1>1 DEF IInv, TransfersHold, HookKept
<1>7. EntriesKept'
  BY <1>2, <1>3 DEF IInv, EntriesKept
<1>8. \A u \in Users : Domain(u)' = Domain(u)
  BY DEF Domain
<1>9. ASSUME NEW u \in Users, pc[u] # "idle", Entry(u) # "Seen"
      PROVE  Entry(u)' = Entry(u)
  BY <1>9, <1>3, <1>4, <1>8, Holding DEF IInv, Entry
<1>10. Unentered' = Unentered
  BY <1>1, <1>8, SameSteps DEF Unentered
<1>11. \A u \in Users : pc[u] \in LockSteps => ~(holds[u] = holds[t] /\ Domain(u) = Domain(t))
  BY <1>4 DEF IInv, LockersKnown, Entry
<1>12. LockersKnown'
  <2>1. ASSUME NEW b \in Blocks, NEW m \in Domains, table'[b][m] = "Locking"
        PROVE  <<b, m>> \in BeingLocked'
    <3>1. CASE b = holds[t] /\ m = Domain(t)
      BY <3>1, <1>1, <1>8 DEF BeingLocked, AtSteps, LockSteps
    <3>2. CASE ~(b = holds[t] /\ m = Domain(t))
      <4>1. <<b, m>> \in BeingLocked
        BY <3>2, <2>1, <1>3 DEF IInv, LockersKnown
      <4>2. PICK u \in Users : pc[u] \in LockSteps /\ b = holds[u] /\ m = Domain(u)
        BY <4>1 DEF BeingLocked, AtSteps
      <4> QED BY <4>2, <3>2, <1>1, <1>8 DEF BeingLocked, AtSteps
    <3> QED BY <3>1, <3>2
  <2>2. \A u \in Users : pc'[u] \in LockSteps => Entry(u)' = "Locking"
    <3>1. Entry(t)' = "Locking"
      BY <1>2, <1>3, <1>8 DEF Entry
    <3>2. ASSUME NEW u \in Users, u # t, pc'[u] \in LockSteps
          PROVE  Entry(u)' = "Locking"
      BY <3>2, <1>1, <1>9 DEF IInv, LockersKnown, LockSteps
    <3> QED BY <3>1, <3>2
  <2> QED BY <2>1, <2>2, <1>1, <1>8, <1>11 DEF IInv, LockersKnown
<1>13. LocksExact'
  BY <1>3, <1>4, <1>10 DEF IInv, LocksExact
<1>14. DirectEntry'
  BY <1>1, <1>9 DEF IInv, DirectEntry
<1>15. CapHolds'
  <2>1. Counted' = Counted \cup {<<holds[t], Domain(t)>>}
    BY <1>2, <1>3 DEF Counted
  <2>2. <<holds[t], Domain(t)>> \notin Counted
    BY <1>4 DEF Counted
  <2> QED BY <2>1, <2>2, CapMore DEF IInv, Reserved
<1> QED BY <1>5, <1>6, <1>7, <1>12, <1>13, <1>14, <1>15 DEF IInv

LEMMA BackendLockKeeps ==
    ASSUME MemoryAssumption, IInv, NEW t \in Users, BackendLock(t)
    PROVE  IInv'
<1> DEFINE pair == <<holds[t], Domain(t)>>
<1>1. PICK next \in {"locked", "refused"} :
          /\ pc' = [pc EXCEPT ![t] = next]
          /\ locks' = IF next = "locked" THEN locks \cup {pair} ELSE locks
  BY DEF BackendLock, Goto
<1>2. UNCHANGED <<table, lock_bytes, attached, hook, removing, live, holds, by>> /\ pc[t] = "lock"
  BY DEF BackendLock
<1>3. (\A u \in Users \ {t} : pc'[u] = pc[u]) /\ pc'[t] = next
  BY <1>1 DEF IInv, TypeOK
<1>4. pair \in Blocks \X Domains
  BY <1>2, Holding DEF IInv
<1>5. \A u \in Users : Domain(u)' = Domain(u) /\ Entry(u)' = Entry(u)
  BY <1>2 DEF Domain, Entry
<1>6. \A u \in Users : pc'[u] \in LockSteps <=> pc[u] \in LockSteps
  BY <1>2, <1>3 DEF LockSteps
<1>7. TypeOK'
  BY <1>1, <1>2, <1>4 DEF IInv, TypeOK, LockSteps
<1>8. TransfersHold' /\ HookKept' /\ EntriesKept'
  BY <1>2, <1>3 DEF IInv, TransfersHold, HookKept, EntriesKept
<1>9. BeingLocked' = BeingLocked
  BY <1>2, <1>5, <1>6, SameSteps DEF BeingLocked
<1>10. LockersKnown'
  BY <1>2, <1>5, <1>6, <1>9 DEF IInv, LockersKnown
<1>11. LocksExact'
  <2>1. CASE next = "locked"
    <3>1. Unentered' = Unentered \cup {pair}
      <4>1. \A u \in Users : pc'[u] \in {"locked"} <=> pc[u] \in {"locked"} \/ u = t
        BY <1>3, <2>1
      <4> QED BY <4>1, <1>2, <1>5 DEF Unentered, AtSteps
    <3> QED BY <3>1, <2>1, <1>1, <1>2 DEF IInv, LocksExact
  <2>2. CASE next = "refused"
    <3>1. Unentered' = Unentered
      BY <1>2, <1>3, <1>5, <2>2, SameSteps DEF Unentered
    <3> QED BY <3>1, <2>2, <1>1, <1>2 DEF IInv, LocksExact
  <2> QED BY <2>1, <2>2
<1>12. DirectEntry'
  BY <1>3, <1>5 DEF IInv, DirectEntry
<1>13. CapHolds'
  BY <1>2, CapSame DEF IInv, Counted
<1> QED BY <1>7, <1>8, <1>10, <1>11, <1>12, <1>13 DEF IInv

LEMMA EndLockKeeps ==
    ASSUME MemoryAssumption, IInv, NEW t \in Users, EndLock(t)
    PROVE  IInv'
<1> DEFINE locked == pc[t] = "locked"
           state == IF locked THEN "Locked" ELSE "Failed"
           next == IF locked THEN "direct" ELSE "staged"
           pair == <<holds[t], Domain(t)>>
<1>1. /\ pc[t] \in {"locked", "refused"} /\ Set(t, state) /\ state \in States
      /\ lock_bytes' = IF locked THEN lock_bytes ELSE lock_bytes - 1
      /\ pc' = [pc EXCEPT ![t] = next]
      /\ UNCHANGED <<attached, hook, removing, live, locks, holds, by>>
  BY DEF EndLock, AfterRefusal, Goto, poolVars, States
<1>2. (\A u \in Users \ {t} : pc'[u] = pc[u]) /\ pc'[t] = next
  BY <1>1 DEF IInv, TypeOK
<1>3. /\ holds[t] \in Blocks /\ holds[t] \in live /\ by[t] \in attached
      /\ Domain(t) \in Domains /\ Domain(t) = DomainOf[by[t]]
  BY <1>1, Holding DEF IInv
<1>4. /\ table' \in [Blocks -> [Domains -> States]]
      /\ \A b \in Blocks, m \in Domains :
            table'[b][m] = IF b = holds[t] /\ m = Domain(t) THEN state ELSE table[b][m]
  <2> HIDE DEF state
  <2> QED BY <1>1, <1>3, SetEntry DEF IInv
<1>5. table[holds[t]][Domain(t)] = "Locking"
  BY <1>1 DEF IInv, LockersKnown, LockSteps, Entry
<1>6. TypeOK'
  BY <1>1, <1>4 DEF IInv, TypeOK
<1>7. TransfersHold' /\ HookKept'
  BY <1>1, <1>2 DEF IInv, TransfersHold, HookKept
<1>8. EntriesKept'
  BY <1>1, <1>3, <1>4 DEF IInv, EntriesKept
<1>9. \A u \in Users : Domain(u)' = Domain(u)
  BY <1>1 DEF Domain
<1>10. ASSUME NEW u \in Users, pc[u] # "idle", ~(holds[u] = holds[t] /\ Domain(u) = Domain(t))
       PROVE  Entry(u)' = Entry(u)
  BY <1>10, <1>1, <1>4, <1>9, Holding DEF IInv, Entry
<1>11. \A u \in Users \ {t} : pc[u] \in LockSteps => ~(holds[u] = holds[t] /\ Domain(u) = Domain(t))
  BY <1>1 DEF IInv, LockersKnown, LockSteps
<1>12. LockersKnown'
  <2>1. \A u \in Users : pc'[u] \in LockSteps => u # t /\ pc[u] \in LockSteps
    BY <1>1, <1>2 DEF LockSteps
  <2>2. \A u \in Users : pc'[u] \in LockSteps => Entry(u)' = "Locking"
    BY <2>1, <1>10, <1>11 DEF IInv, LockersKnown, LockSteps
  <2>3. ASSUME NEW b \in Blocks, NEW m \in Domains, table'[b][m] = "Locking"
        PROVE  <<b, m>> \in BeingLocked'
    <3>1. ~(b = holds[t] /\ m = Domain(t)) /\ table[b][m] = "Locking"
      BY <2>3, <1>4
    <3>2. PICK u \in Users : pc[u] \in LockSteps /\ b = holds[u] /\ m = Domain(u)
      BY <3>1 DEF IInv, LockersKnown, BeingLocked, AtSteps
    <3>3. u # t
      BY <3>1, <3>2
    <3> QED BY <3>2, <3>3, <1>1, <1>2, <1>9 DEF BeingLocked, AtSteps
  <2> QED BY <2>1, <2>2, <2>3, <1>1, <1>9 DEF IInv, LockersKnown
<1>13. LocksExact'
  <2>1. CASE locked
    <3>1. Unentered' = Unentered \ {pair}
      <4>1. \A u \in Users : pc'[u] = "locked" <=> u # t /\ pc[u] = "locked"
        BY <1>2, <2>1
      <4>2. \A u \in Users \ {t} : pc[u] = "locked" => <<holds[u], Domain(u)>> # pair
        BY <1>11 DEF LockSteps
      <4> HIDE DEF pair, next, locked
      <4> QED BY <4>1, <4>2, <1>1, <1>9 DEF Unentered, AtSteps, pair
    <3>2. pair \in Unentered
      BY <2>1 DEF Unentered, AtSteps
    <3> QED BY <3>1, <3>2, <2>1, <1>1, <1>4, <1>5 DEF IInv, LocksExact
  <2>2. CASE ~locked
    <3>1. Unentered' = Unentered
      BY <1>1, <1>2, <1>9, <2>2, SameSteps DEF Unentered
    <3> QED BY <3>1, <2>2, <1>1, <1>4, <1>5 DEF IInv, LocksExact
  <2> QED BY <2>1, <2>2
<1>14. DirectEntry'
  <2>1. CASE locked
    <3>1. Entry(t)' = "Locked"
      BY <2>1, <1>1, <1>3, <1>4, <1>9 DEF Entry
    <3>2. ASSUME NEW u \in Users, u # t, pc'[u] = "direct"
          PROVE  Entry(u)' = "Locked"
      BY <3>2, <1>2, <1>5, <1>10 DEF IInv, DirectEntry, Entry
    <3> QED BY <3>1, <3>2 DEF DirectEntry
  <2>2. CASE ~locked
    <3>1. \A u \in Users : pc'[u] = "direct" => pc[u] = "direct"
      BY <1>2, <2>2
    <3> QED BY <3>1, <1>5, <1>10 DEF IInv, DirectEntry, Entry
  <2> QED BY <2>1, <2>2
<1>15. CapHolds'
  <2>1. CASE locked
    <3>1. Counted' = Counted
      BY <2>1, <1>4, <1>5 DEF Counted
    <3> QED BY <3>1, <2>1, <1>1, CapSame DEF IInv
  <2>2. CASE ~locked
    <3>1. Counted' = Counted \ {pair} /\ {pair} \subseteq Counted
      BY <2>2, <1>3, <1>4, <1>5 DEF Counted
    <3>2. lock_bytes' = lock_bytes - Cardinality({pair})
      BY <2>2, <1>1, FS_Singleton DEF IInv, TypeOK
    <3> QED BY <3>1, <3>2, CapLess DEF IInv
  <2> QED BY <2>1, <2>2
<1> QED BY <1>6, <1>7, <1>8, <1>12, <1>13, <1>14, <1>15 DEF IInv

LEMMA TransferredKeeps ==
    ASSUME MemoryAssumption, IInv, NEW t \in Users, Transferred(t)
    PROVE  IInv'
<1> USE DEF Transferred, Goto, poolVars
<1>1. /\ \A u \in Users \ {t} : pc'[u] = pc[u] /\ holds'[u] = holds[u] /\ by'[u] = by[u]
      /\ pc'[t] = "idle" /\ holds'[t] = NoBlock /\ by'[t] = Nobody
  BY DEF IInv, TypeOK
<1>2. TypeOK'
  BY DEF IInv, TypeOK
<1>3. TransfersHold' /\ HookKept' /\ EntriesKept'
  BY <1>1 DEF IInv, TransfersHold, HookKept, EntriesKept
<1>4. \A u \in Users \ {t} : Domain(u)' = Domain(u) /\ Entry(u)' = Entry(u)
  BY <1>1 DEF Domain, Entry
<1>5. BeingLocked' = BeingLocked /\ Unentered' = Unentered
  BY <1>1, <1>4, SameSteps DEF LockSteps, BeingLocked, Unentered
<1>6. LockersKnown'
  <2>1. \A u \in Users : pc'[u] \in LockSteps => u # t
    BY <1>1 DEF LockSteps
  <2> QED BY <2>1, <1>1, <1>4, <1>5 DEF IInv, LockersKnown
<1>7. LocksExact'
  BY <1>5 DEF IInv, LocksExact
<1>8. DirectEntry'
  BY <1>1, <1>4 DEF IInv, DirectEntry
<1>9. CapHolds'
  BY CapSame DEF IInv, Counted
<1> QED BY <1>2, <1>3, <1>6, <1>7, <1>8, <1>9 DEF IInv

\* ~FrameMemory: the domains that lose their last instance are in no transfer.
LEMMA DetachKeeps ==
    ASSUME MemoryAssumption, IInv, NEW i \in Instances, Detach(i)
    PROVE  IInv'
<1> DEFINE D == LeavesDomain(i)
           gone == {l \in Blocks \X D : l[1] \in LockedIn(l[2])}
<1>1. /\ i \in attached /\ ~removing /\ \A t \in Users : by[t] # i
      /\ attached' = attached \ {i}
      /\ table' = [b \in Blocks |-> [m \in Domains |-> IF m \in D THEN "none" ELSE table[b][m]]]
      /\ lock_bytes' = lock_bytes - Cardinality(gone)
      /\ removing' = (attached = {i})
      /\ UNCHANGED <<hook, live, pc, holds, by>>
  BY DEF Detach
<1>2. locks' = {l \in locks : ~(l[2] \in D /\ l[1] \in LockedIn(l[2]))}
  BY DEF Detach
<1>3. D \subseteq Domains /\ \A j \in attached \ {i} : DomainOf[j] \notin D
  BY <1>1 DEF LeavesDomain, MemoryAssumption
<1>4. \A m \in Domains \ D : (\E j \in attached : DomainOf[j] = m) => \E j \in attached' : DomainOf[j] = m
  BY <1>1 DEF LeavesDomain
<1> HIDE DEF D
<1>5. \A t \in Users : pc[t] # "idle" => Domain(t) \notin D /\ by[t] # i
  BY <1>1, <1>3, Holding DEF IInv
<1>6. \A b \in Blocks, m \in Domains : table'[b][m] = IF m \in D THEN "none" ELSE table[b][m]
  BY <1>1
<1>7. \A b \in Blocks, m \in D : table[b][m] # "Locking" /\ <<b, m>> \notin Unentered
  BY <1>3, <1>5 DEF IInv, LockersKnown, BeingLocked, Unentered, AtSteps, LockSteps
<1>8. \A t \in Users : Domain(t)' = Domain(t)
  BY <1>1 DEF Domain
<1>9. ASSUME NEW t \in Users, pc[t] # "idle"
      PROVE  Entry(t)' = Entry(t)
  BY <1>9, <1>1, <1>5, <1>6, <1>8, Holding DEF IInv, Entry
<1>10. BeingLocked' = BeingLocked /\ Unentered' = Unentered
  BY <1>1, <1>8 DEF BeingLocked, Unentered, AtSteps
<1>11. TransfersHold'
  BY <1>1 DEF IInv, TransfersHold
<1>12. HookKept'
  BY <1>1 DEF IInv, HookKept
<1>13. EntriesKept'
  BY <1>1, <1>4, <1>6 DEF IInv, EntriesKept
<1>14. LockersKnown'
  <2>1. \A t \in Users : pc'[t] \in LockSteps => Entry(t)' = "Locking"
    BY <1>1, <1>9 DEF IInv, LockersKnown, LockSteps
  <2> QED BY <2>1, <1>1, <1>6, <1>8, <1>10 DEF IInv, LockersKnown
<1>15. LocksExact'
  <2>1. ASSUME NEW b \in Blocks, NEW m \in Domains
        PROVE  <<b, m>> \in locks' <=> table'[b][m] = "Locked" \/ <<b, m>> \in Unentered'
    <3>1. <<b, m>> \in locks' <=> <<b, m>> \in locks /\ ~(m \in D /\ table[b][m] = "Locked")
      BY <1>2 DEF LockedIn
    <3> QED BY <3>1, <1>6, <1>7, <1>10 DEF IInv, LocksExact
  <2> QED BY <2>1 DEF LocksExact
<1>16. DirectEntry'
  BY <1>1, <1>9 DEF IInv, DirectEntry
<1>17. CapHolds' /\ lock_bytes' \in Int
  <2>1. \A l : l \in gone <=> l \in Blocks \X D /\ table[l[1]][l[2]] = "Locked"
    BY <1>3 DEF LockedIn
  <2>2. gone \subseteq Counted
    BY <2>1, <1>3 DEF Counted
  <2>3. Counted' = Counted \ gone
    BY <2>1, <1>3, <1>6, <1>7 DEF Counted
  <2> HIDE DEF gone
  <2> QED BY <2>2, <2>3, <1>1, CapLess DEF IInv
<1>18. TypeOK'
  <2>1. table' \in [Blocks -> [Domains -> States]]
    <3>1. \A b \in Blocks, m \in Domains : (IF m \in D THEN "none" ELSE table[b][m]) \in States
      BY DEF IInv, TypeOK, States
    <3> QED BY <3>1, <1>1
  <2> QED BY <2>1, <1>1, <1>2, <1>17 DEF IInv, TypeOK
<1> QED BY <1>11, <1>12, <1>13, <1>14, <1>15, <1>16, <1>17, <1>18 DEF IInv

\* The release hook: nobody is in a transfer with the block.
LEMMA PoolReleaseKeeps ==
    ASSUME MemoryAssumption, IInv, NEW b \in Blocks, PoolRelease(b)
    PROVE  IInv'
<1> DEFINE unlocked == {m \in Domains : table[b][m] = "Locked"}
           gone == {b} \X unlocked
<1>1. /\ b \in live /\ \A t \in Users : holds[t] # b
      /\ live' = live \ {b}
      /\ UNCHANGED <<attached, hook, removing, pc, holds, by>>
  BY DEF PoolRelease
<1>2. \A c \in Blocks, m \in Domains : table'[c][m] = IF c = b THEN "none" ELSE table[c][m]
  <2>1. CASE hook
    BY <2>1 DEF PoolRelease, ReleasedDomains, IInv, TypeOK
  <2>2. CASE ~hook
    <3>1. table' = table
      BY <2>2 DEF PoolRelease
    <3>2. attached = {}
      BY <2>2 DEF IInv, HookKept
    <3> QED BY <3>1, <3>2, NothingCounted
  <2> QED BY <2>1, <2>2
<1>3. locks' = locks \ gone /\ lock_bytes' = lock_bytes - Cardinality(gone)
  <2>1. Cardinality(gone) = Cardinality(unlocked)
    <3>1. IsFiniteSet(unlocked)
      BY FS_Subset, unlocked \in SUBSET Domains DEF MemoryAssumption
    <3>2. IsFiniteSet({b}) /\ Cardinality({b}) = 1
      BY FS_Singleton
    <3>3. Cardinality(gone) = Cardinality({b}) * Cardinality(unlocked)
      BY <3>1, <3>2, FS_Product
    <3> QED BY <3>1, <3>2, <3>3, FS_CardinalityType
  <2>2. CASE hook
    BY <2>1, <2>2 DEF PoolRelease, ReleasedDomains
  <2>3. CASE ~hook
    <3>1. locks' = locks /\ lock_bytes' = lock_bytes
      BY <2>3 DEF PoolRelease
    <3>2. unlocked = {}
      BY <2>3, NothingCounted DEF IInv, HookKept
    <3>3. Cardinality(unlocked) = 0
      BY <3>2, FS_EmptySet
    <3> QED BY <2>1, <3>1, <3>2, <3>3 DEF IInv, TypeOK
  <2> QED BY <2>2, <2>3
<1>4. table' \in [Blocks -> [Domains -> States]]
  <2>1. CASE hook
    <3>1. table' = [table EXCEPT ![b] = [m \in Domains |-> "none"]]
      BY <2>1 DEF PoolRelease, ReleasedDomains
    <3> QED BY <3>1 DEF IInv, TypeOK, States
  <2>2. CASE ~hook
    BY <2>2 DEF PoolRelease, IInv, TypeOK
  <2> QED BY <2>1, <2>2
<1>5. \A t \in Users : Domain(t)' = Domain(t)
  BY <1>1 DEF Domain
<1>6. ASSUME NEW t \in Users, pc[t] # "idle"
      PROVE  Entry(t)' = Entry(t)
  BY <1>6, <1>1, <1>2, <1>5, Holding DEF IInv, Entry
<1>7. BeingLocked' = BeingLocked /\ Unentered' = Unentered
  BY <1>1, <1>5 DEF BeingLocked, Unentered, AtSteps
<1>8. \A m \in Domains : table[b][m] # "Locking" /\ <<b, m>> \notin Unentered
  BY <1>1 DEF IInv, LockersKnown, BeingLocked, Unentered, AtSteps
<1>9. TransfersHold'
  BY <1>1 DEF IInv, TransfersHold
<1>10. HookKept' /\ EntriesKept'
  BY <1>1, <1>2 DEF IInv, HookKept, EntriesKept
<1>11. LockersKnown'
  <2>1. \A t \in Users : pc'[t] \in LockSteps => Entry(t)' = "Locking"
    BY <1>1, <1>6 DEF IInv, LockersKnown, LockSteps
  <2> QED BY <2>1, <1>1, <1>2, <1>5, <1>7 DEF IInv, LockersKnown
<1>12. LocksExact'
  <2>1. ASSUME NEW c \in Blocks, NEW m \in Domains
        PROVE  <<c, m>> \in locks' <=> table'[c][m] = "Locked" \/ <<c, m>> \in Unentered'
    <3>1. <<c, m>> \in locks' <=> <<c, m>> \in locks /\ ~(c = b /\ table[b][m] = "Locked")
      BY <1>3
    <3> QED BY <3>1, <1>2, <1>7, <1>8 DEF IInv, LocksExact
  <2> QED BY <2>1 DEF LocksExact
<1>13. DirectEntry'
  BY <1>1, <1>6 DEF IInv, DirectEntry
<1>14. CapHolds' /\ lock_bytes' \in Int
  <2>1. gone \subseteq Counted
    BY DEF Counted
  <2>2. Counted' = Counted \ gone
    BY <1>2, <1>8 DEF Counted
  <2> HIDE DEF gone
  <2> QED BY <2>1, <2>2, <1>3, CapLess DEF IInv
<1>15. TypeOK'
  BY <1>1, <1>3, <1>4, <1>14 DEF IInv, TypeOK
<1> QED BY <1>9, <1>10, <1>11, <1>12, <1>13, <1>14, <1>15 DEF IInv

-----------------------------------------------------------------------------
LEMMA InitHolds ==
    ASSUME MemoryAssumption, LockInit
    PROVE  IInv
<1> USE DEF LockInit
<1>1. TypeOK
  <2>1. table \in [Blocks -> [Domains -> States]]
    BY DEF States
  <2>2. /\ pc \in [Users -> {"idle", "pinned", "staged", "direct"} \cup LockSteps]
        /\ holds \in [Users -> Blocks \cup {NoBlock}]
        /\ by \in [Users -> Instances \cup {Nobody}]
    OBVIOUS
  <2>3. hook \in BOOLEAN /\ removing \in BOOLEAN
    OBVIOUS
  <2>4. lock_bytes \in Int /\ attached \subseteq Instances /\ live \subseteq Blocks /\ locks \subseteq Blocks \X Domains
    OBVIOUS
  <2> QED BY ONLY <2>1, <2>2, <2>3, <2>4 DEF TypeOK
<1>2. TransfersHold /\ HookKept /\ EntriesKept
  BY DEF TransfersHold, HookKept, EntriesKept
<1>3. BeingLocked = {} /\ Unentered = {}
  BY DEF BeingLocked, Unentered, AtSteps, LockSteps
<1>4. LockersKnown /\ LocksExact /\ DirectEntry
  BY <1>3 DEF LockersKnown, LocksExact, DirectEntry, LockSteps
<1>5. CapHolds
  <2>1. Counted = {}
    BY DEF Counted
  <2>2. Cardinality(Counted) = 0
    BY <2>1, FS_EmptySet
  <2>3. lock_bytes = Cardinality(Counted) /\ lock_bytes <= Cap
    BY <2>2 DEF MemoryAssumption
  <2> QED BY <2>3 DEF CapHolds, Counted
<1> QED BY <1>1, <1>2, <1>4, <1>5 DEF IInv

LEMMA StepKeeps ==
    ASSUME MemoryAssumption, IInv, [LockNext]_lockVars
    PROVE  IInv'
<1>1. CASE UNCHANGED lockVars
  BY <1>1 DEF IInv, lockVars, poolVars, TypeOK, TransfersHold, HookKept, EntriesKept, LockersKnown,
              LocksExact, DirectEntry, CapHolds, BeingLocked, Unentered, AtSteps, Domain, Entry
<1>2. ASSUME NEW i \in Instances, Attach(i) \/ Detach(i)
      PROVE  IInv'
  BY <1>2, AttachKeeps, DetachKeeps
<1>3. CASE RemoveHook
  BY <1>3, RemoveHookKeeps
<1>4. ASSUME NEW t \in Users, Transfer(t)
      PROVE  IInv'
  BY <1>4, HoldKeeps, FirstUseKeeps, KnownBlockKeeps, BeginLockKeeps, BackendLockKeeps,
     EndLockKeeps, TransferredKeeps DEF Transfer
<1>5. ASSUME NEW b \in Blocks, PoolRelease(b)
      PROVE  IInv'
  BY <1>5, PoolReleaseKeeps
<1> QED BY <1>1, <1>2, <1>3, <1>4, <1>5 DEF LockNext

\* One thread locks an entry that is being locked, none any other.
LEMMA LockersCounted ==
    ASSUME IInv
    PROVE  LockingHeld
<1> SUFFICES ASSUME NEW b \in Blocks, NEW m \in Domains
             PROVE  (IF table[b][m] = "Locking" THEN 1 ELSE 0) =
                      Cardinality({t \in Users : pc[t] \in {"lock", "locked", "refused"} /\ holds[t] = b /\ Domain(t) = m})
  BY DEF LockingHeld
<1> DEFINE lockers == {t \in Users : pc[t] \in {"lock", "locked", "refused"} /\ holds[t] = b /\ Domain(t) = m}
<1>1. CASE table[b][m] = "Locking"
  <2>1. PICK t \in Users : pc[t] \in LockSteps /\ holds[t] = b /\ Domain(t) = m
    BY <1>1 DEF IInv, LockersKnown, BeingLocked, AtSteps
  <2>2. lockers = {t}
    BY <2>1 DEF IInv, LockersKnown, LockSteps
  <2> QED BY <2>2, <1>1, FS_Singleton
<1>2. CASE table[b][m] # "Locking"
  <2>1. lockers = {}
    BY <1>2 DEF IInv, LockersKnown, LockSteps, Entry
  <2> QED BY <2>1, <1>2, FS_EmptySet
<1> QED BY <1>1, <1>2

LEMMA InvariantKeepsLocks ==
    ASSUME MemoryAssumption, IInv
    PROVE  LocksKept
<1>1. LocksCovered
  <2> SUFFICES ASSUME NEW l \in locks
               PROVE  /\ l[1] \in live
                      /\ \/ table[l[1]][l[2]] = "Locked"
                         \/ \E t \in Users : pc[t] = "locked" /\ holds[t] = l[1] /\ Domain(t) = l[2]
    BY DEF LocksCovered
  <2>1. l[1] \in Blocks /\ l[2] \in Domains /\ l = <<l[1], l[2]>>
    BY DEF IInv, TypeOK
  <2>2. CASE table[l[1]][l[2]] = "Locked"
    BY <2>1, <2>2 DEF IInv, EntriesKept
  <2>3. CASE <<l[1], l[2]>> \in Unentered
    <3>1. PICK t \in Users : pc[t] = "locked" /\ holds[t] = l[1] /\ Domain(t) = l[2]
      BY <2>3 DEF Unentered, AtSteps
    <3> QED BY <3>1 DEF IInv, TransfersHold
  <2> QED BY <2>1, <2>2, <2>3 DEF IInv, LocksExact
<1>2. DirectLocked
  <2> SUFFICES ASSUME NEW t \in Users, pc[t] = "direct"
               PROVE  <<holds[t], Domain(t)>> \in locks
    BY DEF DirectLocked
  <2>1. holds[t] \in Blocks /\ Domain(t) \in Domains /\ Entry(t) = "Locked"
    BY Holding DEF IInv, DirectEntry
  <2> QED BY <2>1 DEF IInv, LocksExact, Entry
<1>3. NothingLeft
  BY NothingCounted DEF NothingLeft
<1>4. LockingHeld
  BY LockersCounted
<1>5. CapHolds
  BY DEF IInv
<1> QED BY <1>1, <1>2, <1>3, <1>4, <1>5 DEF LocksKept

LEMMA InvariantHolds ==
    ASSUME MemoryAssumption
    PROVE  LockSpec => []IInv
<1>1. LockInit => IInv
  BY InitHolds
<1>2. IInv /\ [LockNext]_lockVars => IInv'
  BY StepKeeps
<1> QED BY <1>1, <1>2, PTL DEF LockSpec

\* However many threads transfer planes, instances come and go and blocks are
\* given back by the pool (pinned(), on_release and ~FrameMemory of
\* frame_memory.cpp): memory that a backend has locked stays with the pool and
\* known to the table, an entry in the making belongs to one thread, the
\* reserved bytes are those of the locked blocks and within the cap, a direct
\* transfer has its lock to the end, and the last instance leaves nothing.
THEOREM LocksKeptHolds ==
    ASSUME MemoryAssumption
    PROVE  LockSpec => []LocksKept
<1>1. LockSpec => []IInv
  BY InvariantHolds
<1>2. IInv => LocksKept
  BY InvariantKeepsLocks
<1> QED BY <1>1, <1>2, PTL

-----------------------------------------------------------------------------
(* The budget's books, for every set of accounts and every limit.          *)

AccountsTyped == account \in [Accounts -> [kind : Kinds, bytes : Sizes]]

BooksTyped ==
    /\ AccountsTyped
    /\ bytes \in [Kinds -> Sizes] /\ owned \in Sizes /\ peak \in Sizes

BooksInv == BooksTyped /\ Reckoned

OwnedAccounts == {a \in Accounts : account[a].kind # "Framework"}

LEMMA WrapSmall ==
    ASSUME NEW n \in Sizes
    PROVE  Wrap(n) = n
<1>1. SizeMax \in Nat /\ n \in Nat /\ n < SizeMax + 1
  BY BudgetAssumption DEF Sizes
<1> QED BY <1>1 DEF Wrap

LEMMA MaxOfTwo ==
    ASSUME NEW m \in Int, NEW n \in Int
    PROVE  Max({m, n}) = IF m >= n THEN m ELSE n
<1> DEFINE top == IF m >= n THEN m ELSE n
<1>1. top \in {m, n} /\ \A y \in {m, n} : top >= y
  OBVIOUS
<1>2. \A z \in {m, n} : (\A y \in {m, n} : z >= y) => z = top
  OBVIOUS
<1> HIDE DEF top
<1>3. Max({m, n}) = top
  BY <1>1, <1>2 DEF Max
<1> QED BY <1>3 DEF top

\* acquire() that does not throw: nothing wraps in the account.
LEMMA AcquireAccount ==
    ASSUME AccountsTyped, NEW a \in Accounts, NEW n \in Nat, Acquire(a, n)
    PROVE  /\ AccountsTyped' /\ n \in Sizes
           /\ account'[a].bytes = account[a].bytes + n
           /\ \A b \in Accounts : account'[b].kind = account[b].kind /\ (b # a => account'[b] = account[b])
<1>1. SizeMax \in Nat
  BY BudgetAssumption
<1>2. account[a].bytes \in Sizes /\ n <= SizeMax - account[a].bytes
  BY <1>1 DEF AccountsTyped, Acquire, Refuses, Overflows, Sizes
<1>3. n \in Sizes /\ account[a].bytes + n \in Sizes
  BY <1>1, <1>2 DEF Sizes
<1>4. account' = [account EXCEPT ![a].bytes = @ + n]
  BY DEF Acquire
<1> QED BY <1>3, <1>4 DEF AccountsTyped

\* release() of no more than the account has.
LEMMA ReleaseAccount ==
    ASSUME AccountsTyped, NEW a \in Accounts, NEW n \in Nat, n <= account[a].bytes, Release(a, n)
    PROVE  /\ AccountsTyped' /\ n \in 0 .. account[a].bytes
           /\ account'[a].bytes = account[a].bytes - n
           /\ \A b \in Accounts : account'[b].kind = account[b].kind /\ (b # a => account'[b] = account[b])
<1>1. SizeMax \in Nat
  BY BudgetAssumption
<1>2. account[a].bytes \in Sizes /\ account[a].bytes - n \in Sizes /\ n \in 0 .. account[a].bytes
  BY <1>1 DEF AccountsTyped, Sizes
<1>3. account' = [account EXCEPT ![a].bytes = @ - n]
  BY <1>2, WrapSmall DEF Release
<1> QED BY <1>2, <1>3 DEF AccountsTyped

\* Totals, when one account's bytes change.
LEMMA TotalChange ==
    ASSUME AccountsTyped, AccountsTyped', NEW a \in Accounts, NEW T \in SUBSET Accounts,
           \A b \in Accounts : b # a => account'[b].bytes = account[b].bytes
    PROVE  SumFunctionOnSet(Charged', T) =
              IF a \in T THEN Total(T) - account[a].bytes + account'[a].bytes ELSE Total(T)
<1>1. Charged \in [Accounts -> Nat] /\ Charged' \in [Accounts -> Nat]
  BY BudgetAssumption DEF Charged, AccountsTyped, Sizes
<1>2. \A b \in Accounts \ {a} : Charged[b] = Charged'[b]
  BY DEF Charged
<1>3. Charged[a] = account[a].bytes /\ Charged'[a] = account'[a].bytes
  BY DEF Charged
<1>4. IsFiniteSet(Accounts)
  BY BudgetAssumption
<1> HIDE DEF Charged
<1>5. SumFunctionOnSet(Charged', T) =
        IF a \in T THEN SumFunctionOnSet(Charged, T) - Charged[a] + Charged'[a] ELSE SumFunctionOnSet(Charged, T)
  BY <1>1, <1>2, <1>4, SumChange
<1> QED BY <1>3, <1>5 DEF Total

LEMMA TotalFacts ==
    ASSUME AccountsTyped, NEW T \in SUBSET Accounts
    PROVE  /\ Total(T) \in Nat
           /\ \A a \in T : Total(T) = account[a].bytes + Total(T \ {a}) /\ account[a].bytes <= Total(T)
           /\ \A U \in SUBSET T : Total(U) <= Total(T)
<1>1. Charged \in [Accounts -> Nat] /\ \A a \in Accounts : Charged[a] = account[a].bytes
  BY BudgetAssumption DEF Charged, AccountsTyped, Sizes
<1>2. IsFiniteSet(Accounts)
  BY BudgetAssumption
<1> HIDE DEF Charged
<1>3. \A U \in SUBSET Accounts : SumFunctionOnSet(Charged, U) \in Nat
  BY <1>1, <1>2, SumType
<1>4. \A a \in T : Total(T) = account[a].bytes + Total(T \ {a}) /\ Total(T \ {a}) \in Nat
  BY <1>1, <1>2, <1>3, SumRemove DEF Total
<1>5. \A U \in SUBSET T : Total(U) <= Total(T)
  BY <1>1, <1>2, SumOfPart DEF Total
<1>6. \A a \in T : account[a].bytes \in Nat
  BY <1>1
<1> QED BY <1>3, <1>4, <1>5, <1>6 DEF Total

LEMMA OwnedUnion ==
    ASSUME AccountsTyped
    PROVE  UNION {OfKind(k) : k \in OwnedKinds} = OwnedAccounts
  BY DEF AccountsTyped, OfKind, OwnedKinds, OwnedAccounts

\* What is booked covers each account.
LEMMA Booked ==
    ASSUME BooksInv, NEW a \in Accounts
    PROVE  /\ account[a].kind \in Kinds /\ account[a].bytes \in Sizes
           /\ account[a].bytes <= bytes[account[a].kind]
           /\ account[a].kind # "Framework" => account[a].bytes <= owned
           /\ owned <= Limit /\ Limit <= SizeMax /\ owned = Total(OwnedAccounts)
<1>1. a \in OfKind(account[a].kind) /\ OfKind(account[a].kind) \in SUBSET Accounts
  BY DEF OfKind
<1>2. account[a].kind \in Kinds /\ account[a].bytes \in Sizes
  BY DEF BooksInv, BooksTyped, AccountsTyped
<1>3. owned = Total(OwnedAccounts) /\ OwnedAccounts \in SUBSET Accounts
  BY OwnedUnion DEF BooksInv, BooksTyped, Reckoned, OwnedAccounts
<1>4. account[a].kind # "Framework" => a \in OwnedAccounts
  BY DEF OwnedAccounts
<1>5. /\ account[a].bytes <= Total(OfKind(account[a].kind))
      /\ account[a].kind # "Framework" => account[a].bytes <= Total(OwnedAccounts)
  BY <1>1, <1>3, <1>4, TotalFacts DEF BooksInv, BooksTyped
<1>6. bytes[account[a].kind] = Total(OfKind(account[a].kind)) /\ owned <= Limit
  BY <1>2 DEF BooksInv, Reckoned
<1>7. Limit <= SizeMax
  BY BudgetAssumption
<1> QED BY <1>2, <1>3, <1>5, <1>6, <1>7

\* One account's bytes change: the books follow.
LEMMA BooksFollow ==
    ASSUME BooksInv, NEW a \in Accounts, AccountsTyped', NEW d \in Int,
           account'[a].bytes = account[a].bytes + d,
           \A b \in Accounts : account'[b].kind = account[b].kind /\ (b # a => account'[b] = account[b]),
           bytes' = [bytes EXCEPT ![account[a].kind] = @ + d],
           owned' = IF account[a].kind = "Framework" THEN owned ELSE owned + d,
           bytes[account[a].kind] + d \in Sizes, owned' \in Sizes, peak' \in Sizes,
           owned' <= Limit, owned' <= peak', peak' <= Limit
    PROVE  BooksInv'
<1>1. account[a].kind \in Kinds /\ account[a].bytes \in Sizes
  BY Booked
<1>2. BooksTyped'
  BY <1>1 DEF BooksInv, BooksTyped
<1>3. \A k \in Kinds : OfKind(k)' = OfKind(k) /\ OfKind(k) \in SUBSET Accounts
  BY DEF OfKind
<1>4. OwnedAccounts' = OwnedAccounts /\ OwnedAccounts \in SUBSET Accounts
  BY DEF OwnedAccounts
<1>5. \A T \in SUBSET Accounts :
         /\ Total(T) \in Nat
         /\ SumFunctionOnSet(Charged', T) = IF a \in T THEN Total(T) + d ELSE Total(T)
  <2> TAKE T \in SUBSET Accounts
  <2>1. SumFunctionOnSet(Charged', T) =
           IF a \in T THEN Total(T) - account[a].bytes + account'[a].bytes ELSE Total(T)
    BY TotalChange DEF BooksInv, BooksTyped
  <2>2. Total(T) \in Nat
    BY TotalFacts DEF BooksInv, BooksTyped
  <2>3. account[a].bytes \in Int
    BY <1>1 DEF Sizes
  <2> QED BY <2>1, <2>2, <2>3
<1>6. ASSUME NEW k \in Kinds
      PROVE  bytes'[k] = SumFunctionOnSet(Charged', OfKind(k))
  <2>1. bytes[k] = Total(OfKind(k)) /\ bytes'[k] = IF k = account[a].kind THEN bytes[k] + d ELSE bytes[k]
    BY <1>1 DEF BooksInv, BooksTyped, Reckoned
  <2>2. a \in OfKind(k) <=> k = account[a].kind
    BY DEF OfKind
  <2>3. SumFunctionOnSet(Charged', OfKind(k)) = IF a \in OfKind(k) THEN Total(OfKind(k)) + d ELSE Total(OfKind(k))
    BY <1>3, <1>5
  <2> QED BY <2>1, <2>2, <2>3
<1>7. owned' = SumFunctionOnSet(Charged', OwnedAccounts)
  <2>1. owned = Total(OwnedAccounts)
    BY Booked
  <2>2. a \in OwnedAccounts <=> account[a].kind # "Framework"
    BY DEF OwnedAccounts
  <2> QED BY <1>4, <1>5, <2>1, <2>2
<1>8. (UNION {OfKind(k) : k \in OwnedKinds})' = OwnedAccounts'
  BY DEF AccountsTyped, OfKind, OwnedKinds, OwnedAccounts
<1>9. Reckoned'
  BY <1>3, <1>4, <1>6, <1>7, <1>8 DEF Reckoned, Total
<1> QED BY <1>2, <1>9 DEF BooksInv

LEMMA AcquireReckons ==
    ASSUME BooksInv, NEW a \in Accounts, NEW n \in Nat, Acquire(a, n)
    PROVE  BooksInv'
<1> DEFINE kind == account[a].kind
<1>1. /\ AccountsTyped' /\ n \in Sizes /\ account'[a].bytes = account[a].bytes + n
      /\ \A b \in Accounts : account'[b].kind = account[b].kind /\ (b # a => account'[b] = account[b])
  BY AcquireAccount DEF BooksInv, BooksTyped
<1>2. /\ kind \in Kinds /\ owned <= Limit /\ Limit <= SizeMax
      /\ owned \in Sizes /\ peak \in Sizes /\ owned <= peak /\ peak <= Limit /\ bytes[kind] \in Sizes
      /\ SizeMax \in Nat /\ Limit \in Nat
  BY Booked, BudgetAssumption DEF BooksInv, BooksTyped, Reckoned
<1>3. bytes' = [bytes EXCEPT ![kind] = @ + n] /\ bytes[kind] + n \in Sizes
  BY <1>2 DEF Acquire, Refuses, Overflows, Sizes
<1>4. CASE kind = "Framework"
  <2>1. owned' = owned /\ peak' = peak
    BY <1>4 DEF Acquire
  <2>2. owned' \in Sizes /\ peak' \in Sizes /\ owned' <= Limit /\ owned' <= peak' /\ peak' <= Limit /\ n \in Int
    BY <1>2, <2>1
  <2>3. owned' = IF kind = "Framework" THEN owned ELSE owned + n
    BY <1>4, <2>1
  <2> QED BY <1>1, <1>3, <2>2, <2>3, BooksFollow
<1>5. CASE kind # "Framework"
  <2>1. Limit - owned \in Sizes
    BY <1>2 DEF Sizes
  <2>2. n <= Limit - owned
    BY <1>5, <1>1, <2>1, WrapSmall DEF Acquire, Refuses, Exceeds, Sizes
  <2>3. owned + n \in Sizes /\ owned + n <= Limit
    BY <1>2, <2>2 DEF Sizes
  <2>4. owned' = owned + n /\ peak' = Max({peak, owned'})
    BY <1>5, <2>3, WrapSmall DEF Acquire
  <2>5. peak' = IF peak >= owned + n THEN peak ELSE owned + n
    BY <2>3, <2>4, <1>2, MaxOfTwo DEF Sizes
  <2>6. peak' \in Sizes /\ owned' <= peak' /\ peak' <= Limit
    BY <1>2, <2>3, <2>4, <2>5 DEF Sizes
  <2>7. owned' \in Sizes /\ owned' <= Limit /\ n \in Int
    BY <2>3, <2>4
  <2>8. owned' = IF kind = "Framework" THEN owned ELSE owned + n
    BY <1>5, <2>4
  <2> QED BY <1>1, <1>3, <2>6, <2>7, <2>8, BooksFollow
<1> QED BY <1>4, <1>5

LEMMA ReleaseReckons ==
    ASSUME BooksInv, NEW a \in Accounts, NEW n \in 0 .. account[a].bytes, Release(a, n)
    PROVE  BooksInv'
<1> DEFINE kind == account[a].kind  d == 0 - n
<1>1. /\ kind \in Kinds /\ owned <= Limit /\ Limit <= SizeMax
      /\ owned \in Sizes /\ peak \in Sizes /\ owned <= peak /\ peak <= Limit /\ bytes[kind] \in Sizes
      /\ SizeMax \in Nat /\ Limit \in Nat
      /\ account[a].bytes \in Sizes /\ account[a].bytes <= bytes[kind]
      /\ kind # "Framework" => account[a].bytes <= owned
  BY Booked, BudgetAssumption DEF BooksInv, BooksTyped, Reckoned
<1>2. n \in Nat /\ n <= account[a].bytes
  BY <1>1 DEF Sizes
<1>3. /\ AccountsTyped' /\ account'[a].bytes = account[a].bytes - n
      /\ \A b \in Accounts : account'[b].kind = account[b].kind /\ (b # a => account'[b] = account[b])
  BY <1>2, ReleaseAccount DEF BooksInv, BooksTyped
<1>4. bytes[kind] - n \in Sizes /\ bytes[kind] - n = bytes[kind] + d /\ d \in Int
      /\ account'[a].bytes = account[a].bytes + d
  BY <1>1, <1>2, <1>3 DEF Sizes
<1>5. bytes' = [bytes EXCEPT ![kind] = @ + d]
  BY <1>4, WrapSmall DEF Release
<1>6. /\ owned' = IF kind = "Framework" THEN owned ELSE owned + d
      /\ owned' \in Sizes /\ owned' <= owned /\ peak' = peak
  <2>1. CASE kind = "Framework"
    BY <1>1, <2>1 DEF Release, Sizes
  <2>2. CASE kind # "Framework"
    <3>1. owned - n \in Sizes /\ owned - n = owned + d /\ owned - n <= owned
      BY <1>1, <1>2, <2>2 DEF Sizes
    <3> QED BY <2>2, <3>1, WrapSmall DEF Release
  <2> QED BY <2>1, <2>2
<1>7. owned' <= Limit /\ owned' <= peak' /\ peak' <= Limit /\ peak' \in Sizes
  BY <1>1, <1>6 DEF Sizes
<1> HIDE DEF d
<1> QED BY <1>1, <1>3, <1>4, <1>5, <1>6, <1>7, BooksFollow

Totals == [c \in Kinds |-> Total(OfKind(c))]
TakesKind(a, k) == account' = [account EXCEPT ![a].kind = k]

\* An account changes its kind: its bytes move from one total to the other.
LEMMA KindMoves ==
    ASSUME BooksInv, NEW a \in Accounts, NEW old \in Kinds, old = account[a].kind,
           NEW k \in Kinds \ {old},
           TakesKind(a, k)
    PROVE  /\ AccountsTyped'
           /\ \A b \in Accounts : account'[b].kind = IF b = a THEN k ELSE account[b].kind
           /\ Totals'[k] = Totals[k] + account[a].bytes
           /\ Totals'[old] = Totals[old] - account[a].bytes
           /\ \A c \in Kinds \ {k, old} :
                 Totals'[c] = Totals[c]
<1>1. account[a].bytes \in Nat /\ old \in Kinds /\ AccountsTyped
  BY Booked, BudgetAssumption DEF Sizes, BooksInv, BooksTyped
<1>2. /\ AccountsTyped'
      /\ \A b \in Accounts : account'[b].kind = IF b = a THEN k ELSE account[b].kind
      /\ \A b \in Accounts : account'[b].bytes = account[b].bytes
  <2>1. \A b \in Accounts : account[b] \in [kind : Kinds, bytes : Sizes]
    BY <1>1 DEF AccountsTyped
  <2>2. [account[a] EXCEPT !.kind = k] \in [kind : Kinds, bytes : Sizes]
    BY <2>1
  <2>3. \A b \in Accounts : account'[b] = IF b = a THEN [account[a] EXCEPT !.kind = k] ELSE account[b]
    BY <1>1 DEF AccountsTyped, TakesKind
  <2>4. account' \in [Accounts -> [kind : Kinds, bytes : Sizes]]
    BY <1>1, <2>1, <2>2 DEF AccountsTyped, TakesKind
  <2>5. account[a].bytes = [account[a] EXCEPT !.kind = k].bytes /\ [account[a] EXCEPT !.kind = k].kind = k
    BY <2>1
  <2>6. account'[a] = [account[a] EXCEPT !.kind = k] /\ \A b \in Accounts : b # a => account'[b] = account[b]
    BY <2>3
  <2>7. account'[a].kind = k /\ account'[a].bytes = account[a].bytes
    BY <2>5, <2>6
  <2>8. AccountsTyped'
    BY <2>4 DEF AccountsTyped
  <2> QED BY <2>6, <2>7, <2>8
<1>3. Charged' = Charged
  BY <1>2 DEF Charged
<1>4. \A c \in Kinds : OfKind(c) \in SUBSET Accounts
  BY DEF OfKind
<1>5. OfKind(k)' \in SUBSET Accounts /\ a \in OfKind(k)' /\ OfKind(k)' \ {a} = OfKind(k)
  BY <1>2 DEF OfKind
<1>6. OfKind(old)' = OfKind(old) \ {a} /\ a \in OfKind(old)
  BY <1>2 DEF OfKind
<1>7. \A c \in Kinds \ {k, old} : OfKind(c)' = OfKind(c)
  BY <1>2 DEF OfKind
<1>8. Total(OfKind(k)') = account[a].bytes + Total(OfKind(k))
  <2> DEFINE now == OfKind(k)'
  <2>1. now \in SUBSET Accounts /\ a \in now /\ now \ {a} = OfKind(k)
    BY <1>5
  <2> HIDE DEF now
  <2>2. Total(now) = account[a].bytes + Total(OfKind(k))
    BY <1>1, <2>1, TotalFacts
  <2> QED BY <2>2 DEF now
<1>9. Total(OfKind(old)) = account[a].bytes + Total(OfKind(old) \ {a}) /\ Total(OfKind(old)) \in Nat
  BY <1>1, <1>4, <1>6, TotalFacts
<1>10. Total(OfKind(old) \ {a}) = Total(OfKind(old)) - account[a].bytes
  <2>1. OfKind(old) \ {a} \in SUBSET Accounts
    BY <1>4, <1>1
  <2>2. Total(OfKind(old) \ {a}) \in Nat
    BY <1>1, <2>1, TotalFacts
  <2> QED BY <1>1, <1>9, <2>2
<1>11. Total(OfKind(k)) \in Nat
  BY <1>1, <1>4, TotalFacts
<1>12. \A c \in Kinds : Totals[c] = Total(OfKind(c))
  BY DEF Totals
<1>13. \A c \in Kinds : Total(OfKind(c)') = Totals'[c]
  BY <1>3 DEF Totals, Total
<1>14. Totals'[k] = Totals[k] + account[a].bytes
  BY <1>1, <1>8, <1>11, <1>12, <1>13
<1>15. Totals'[old] = Totals[old] - account[a].bytes
  BY <1>6, <1>10, <1>12, <1>13
<1>16. \A c \in Kinds \ {k, old} : Totals'[c] = Totals[c]
  BY <1>7, <1>12, <1>13
<1> QED BY <1>2, <1>14, <1>15, <1>16

LEMMA RetagReckons ==
    ASSUME BooksInv, NEW a \in Accounts, NEW k \in OwnedKinds, account[a].kind \in OwnedKinds, Retag(a, k)
    PROVE  BooksInv'
<1>0. PICK old \in OwnedKinds : old = account[a].kind
  OBVIOUS
<1>1. CASE k = old
  BY <1>0, <1>1 DEF Retag, BooksInv, BooksTyped, AccountsTyped, Reckoned, Total, Charged, OfKind
<1>2. CASE k # old
  <2>1. /\ account' = [account EXCEPT ![a].kind = k] /\ UNCHANGED <<owned, peak>>
        /\ bytes' = [bytes EXCEPT ![old] = Wrap(@ - account[a].bytes), ![k] = Wrap(@ + account[a].bytes)]
    BY <1>0, <1>2 DEF Retag
  <2>2. k \in Kinds /\ old \in Kinds /\ k # "Framework" /\ old # "Framework"
    BY DEF OwnedKinds, Kinds
  <2>3. /\ AccountsTyped'
        /\ \A b \in Accounts : account'[b].kind = IF b = a THEN k ELSE account[b].kind
        /\ Totals'[k] = Totals[k] + account[a].bytes
        /\ Totals'[old] = Totals[old] - account[a].bytes
        /\ \A c \in Kinds \ {k, old} : Totals'[c] = Totals[c]
    <3>1. k \in Kinds \ {old} /\ old \in Kinds /\ old = account[a].kind /\ BooksInv
      BY <1>0, <1>2, <2>2
    <3>2. TakesKind(a, k)
      BY <2>1 DEF TakesKind
    <3> QED BY <3>1, <3>2, KindMoves
  <2>4. /\ owned \in Sizes /\ peak \in Sizes /\ SizeMax \in Nat /\ owned <= SizeMax
        /\ account[a].bytes \in Sizes /\ account[a].bytes <= bytes[old] /\ owned = Total(OwnedAccounts)
        /\ \A c \in Kinds : bytes[c] \in Sizes /\ bytes[c] = Totals[c]
    BY <1>0, Booked, BudgetAssumption DEF BooksInv, BooksTyped, Reckoned, Sizes, Totals
  <2>5. bytes[k] + account[a].bytes <= owned
    <3> DEFINE both == OfKind(k) \cup {a}
    <3>1. both \in SUBSET OwnedAccounts /\ a \in both /\ both \ {a} = OfKind(k) /\ OwnedAccounts \in SUBSET Accounts
      BY <1>0, <1>2, <2>2 DEF OfKind, OwnedAccounts
    <3> HIDE DEF both
    <3>2. Total(both) = account[a].bytes + Total(OfKind(k)) /\ Total(both) <= Total(OwnedAccounts)
      BY <3>1, TotalFacts DEF BooksInv, BooksTyped
    <3> QED BY <2>2, <2>4, <3>2 DEF Sizes, Totals
  <2>6. bytes[k] + account[a].bytes \in Sizes /\ bytes[old] - account[a].bytes \in Sizes
    BY <2>2, <2>4, <2>5 DEF Sizes
  <2>7. bytes' = [bytes EXCEPT ![old] = @ - account[a].bytes, ![k] = @ + account[a].bytes]
    BY <1>2, <2>1, <2>6, WrapSmall
  <2>8. BooksTyped'
    BY <2>1, <2>2, <2>3, <2>6, <2>7 DEF BooksInv, BooksTyped
  <2>9. \A c \in Kinds : bytes'[c] = Totals'[c]
    BY <1>2, <2>2, <2>3, <2>4, <2>7 DEF BooksInv, BooksTyped
  <2>10. OwnedAccounts' = OwnedAccounts /\ Charged' = Charged
    BY <1>0, <2>1, <2>2, <2>3 DEF OwnedAccounts, Charged, BooksInv, BooksTyped, AccountsTyped
  <2>11. (UNION {OfKind(c) : c \in OwnedKinds})' = OwnedAccounts'
    BY <2>3 DEF AccountsTyped, OfKind, OwnedKinds, OwnedAccounts
  <2>12. Reckoned'
    BY <2>1, <2>4, <2>9, <2>10, <2>11 DEF Reckoned, Total, Totals, BooksInv
  <2> QED BY <2>8, <2>12 DEF BooksInv
<1> QED BY <1>1, <1>2

LEMMA RenewReckons ==
    ASSUME BooksInv, NEW a \in Accounts, Renew(a)
    PROVE  BooksInv'
<1>0. PICK old \in Kinds : old = account[a].kind
  BY Booked
<1>00. PICK k \in Kinds : k = FirstKind[a]
  BY BudgetAssumption
<1>1. /\ account[a].bytes = 0 /\ account' = [account EXCEPT ![a].kind = k]
      /\ UNCHANGED <<bytes, owned, peak>> /\ k \in Kinds
  BY <1>00 DEF Renew
<1>2. CASE k = old
  <2>1. account' = account
    BY <1>0, <1>1, <1>2 DEF BooksInv, BooksTyped, AccountsTyped
  <2>2. Charged' = Charged /\ \A c \in Kinds : OfKind(c)' = OfKind(c)
    BY <2>1 DEF Charged, OfKind
  <2>3. (UNION {OfKind(c) : c \in OwnedKinds})' = UNION {OfKind(c) : c \in OwnedKinds}
    BY <2>1 DEF OfKind
  <2>4. BooksTyped'
    BY <1>1, <2>1 DEF BooksInv, BooksTyped, AccountsTyped
  <2> QED BY <1>1, <2>2, <2>3, <2>4 DEF BooksInv, Reckoned, Total
<1>3. CASE k # old
  <2>1. /\ AccountsTyped'
        /\ \A b \in Accounts : account'[b].kind = IF b = a THEN k ELSE account[b].kind
        /\ Totals'[k] = Totals[k] + account[a].bytes
        /\ Totals'[old] = Totals[old] - account[a].bytes
        /\ \A c \in Kinds \ {k, old} : Totals'[c] = Totals[c]
    <3>1. k \in Kinds \ {old} /\ old \in Kinds /\ old = account[a].kind /\ BooksInv
      BY <1>0, <1>3
    <3>2. TakesKind(a, k)
      BY <1>1 DEF TakesKind
    <3> QED BY <1>1, <3>1, <3>2, KindMoves
  <2>2. \A c \in Kinds : bytes[c] \in Sizes /\ bytes[c] = Totals[c]
    BY DEF BooksInv, BooksTyped, Reckoned, Totals
  <2>3. owned \in Sizes /\ owned = Total(OwnedAccounts)
    BY Booked DEF BooksInv, BooksTyped
  <2>4. \A c \in Kinds : bytes'[c] = Totals'[c]
    BY <1>1, <2>1, <2>2, <2>3 DEF Sizes
  <2>5. Charged' = Charged
    BY <1>1 DEF Charged, BooksInv, BooksTyped, AccountsTyped
  <2>6. Total(OwnedAccounts') = Total(OwnedAccounts)
    <3> DEFINE now == OwnedAccounts'
    <3>1. /\ now \in SUBSET Accounts /\ OwnedAccounts \in SUBSET Accounts
          /\ now \cup {a} = OwnedAccounts \cup {a}
      BY <2>1 DEF OwnedAccounts
    <3> HIDE DEF now
    <3>2. \A T \in SUBSET Accounts : Total(T \cup {a}) = Total(T)
      <4> TAKE T \in SUBSET Accounts
      <4>1. CASE a \in T
        <5>1. T \cup {a} = T
          BY <4>1
        <5> QED BY <5>1
      <4>2. CASE a \notin T
        <5>1. T \cup {a} \in SUBSET Accounts /\ a \in T \cup {a} /\ (T \cup {a}) \ {a} = T
          BY <4>2
        <5>2. Total(T \cup {a}) = account[a].bytes + Total(T) /\ Total(T) \in Nat
          BY <5>1, TotalFacts DEF BooksInv, BooksTyped
        <5> QED BY <1>1, <5>2
      <4> QED BY <4>1, <4>2
    <3>3. Total(now) = Total(OwnedAccounts)
      BY <3>1, <3>2
    <3> QED BY <3>3 DEF now
  <2>7. (UNION {OfKind(c) : c \in OwnedKinds})' = OwnedAccounts'
    BY <2>1 DEF AccountsTyped, OfKind, OwnedKinds, OwnedAccounts
  <2>8. Reckoned'
    BY <1>1, <2>3, <2>4, <2>5, <2>6, <2>7 DEF Reckoned, Total, Totals, BooksInv
  <2> QED BY <1>1, <2>1, <2>8 DEF BooksInv, BooksTyped
<1> QED BY <1>2, <1>3

LEMMA BooksInit ==
    ASSUME BudgetInit
    PROVE  BooksInv
<1>1. SizeMax \in Nat /\ Limit \in Nat /\ 0 \in Sizes /\ 0 <= Limit
  BY BudgetAssumption DEF Sizes
<1>2. BooksTyped
  BY <1>1, BudgetAssumption DEF BudgetInit, BooksTyped, AccountsTyped
<1>3. \A T \in SUBSET Accounts : Total(T) = 0
  <2> TAKE T \in SUBSET Accounts
  <2>1. IsFiniteSet(T)
    BY BudgetAssumption, FS_Subset
  <2>2. \A a \in T : Charged[a] = 0
    BY DEF BudgetInit, Charged
  <2> QED BY <2>1, <2>2, SumOfNone DEF Total
<1>4. \A k \in Kinds : OfKind(k) \in SUBSET Accounts
  BY DEF OfKind
<1>5. UNION {OfKind(k) : k \in OwnedKinds} \in SUBSET Accounts
  BY DEF OfKind
<1>6. Reckoned
  BY <1>1, <1>3, <1>4, <1>5 DEF Reckoned, BudgetInit
<1> QED BY <1>2, <1>6 DEF BooksInv

LEMMA BooksStep ==
    ASSUME BooksInv, [BudgetNext]_budget
    PROVE  BooksInv'
<1>1. CASE UNCHANGED budget
  BY <1>1 DEF budget, BooksInv, BooksTyped, AccountsTyped, Reckoned, Total, Charged, OfKind
<1>2. ASSUME NEW a \in Accounts, NEW n \in Sizes, Acquire(a, n)
      PROVE  BooksInv'
  <2>1. n \in Nat
    BY BudgetAssumption DEF Sizes
  <2> QED BY <1>2, <2>1, AcquireReckons
<1>3. ASSUME NEW a \in Accounts, NEW n \in 0 .. account[a].bytes, Release(a, n)
      PROVE  BooksInv'
  BY <1>3, ReleaseReckons
<1>4. ASSUME NEW a \in Accounts, NEW k \in OwnedKinds, account[a].kind \in OwnedKinds, Retag(a, k)
      PROVE  BooksInv'
  BY <1>4, RetagReckons
<1>5. ASSUME NEW a \in Accounts, Renew(a)
      PROVE  BooksInv'
  BY <1>5, RenewReckons
<1> QED BY <1>1, <1>2, <1>3, <1>4, <1>5 DEF BudgetNext

LEMMA BudgetReckons == BudgetSpec => []Reckoned
<1>1. BudgetInit => BooksInv
  BY BooksInit
<1>2. BooksInv /\ [BudgetNext]_budget => BooksInv'
  BY BooksStep
<1>3. BooksInv => Reckoned
  BY DEF BooksInv
<1> QED BY <1>1, <1>2, <1>3, PTL DEF BudgetSpec

-----------------------------------------------------------------------------
(* The users: each keeps its own account to what it has.                   *)

BufferSteps == {"none", "charged", "declared", "created", "corrected", "ready", "destroyed", "undeclared", "uncharged"}
GpuStates == [pc : BufferSteps, bytes : Nat, padding : Nat, paid : Nat]

UsersTyped ==
    /\ mu \in Threads \cup {None}
    /\ buf \in [Threads -> [p : BOOLEAN, n : Nat]]
    /\ get \in [Threads -> [pc : {"idle", "charge", "allocate", "swap"}, floats : Nat]]
    /\ fresh \in [Threads -> Nat]
    /\ frame \in [Outputs \cup Inputs -> {"none", "made", "charged", "held", "dropped"}]
    /\ gpu \in [Buffers -> GpuStates]
    /\ chunk \in {"none", "computed", "cached", "pinned", "freed"}

\* What a thread is charged for: its buffer, and from the charge to the swap
\* the one that is to replace it.
Bespoken == [t \in Threads |->
    (IF buf[t].p THEN BufBytes(buf[t].n) ELSE 0)
        + (IF get[t].pc \in {"allocate", "swap"} THEN BufBytes(get[t].floats) ELSE 0)]

ScratchKept ==
    /\ \A t \in Threads : get[t].pc # "idle" <=> mu = t
    /\ \A t \in Threads : fresh[t] = IF get[t].pc = "swap" THEN BufBytes(get[t].floats) ELSE 0
    /\ account[Scratch].bytes = SumFunctionOnSet(Bespoken, Threads)

HeldBytes == [f \in Outputs \cup Inputs |-> IF frame[f] \in {"charged", "held"} THEN FrameBytes[f] ELSE 0]

FramesKept ==
    /\ account[Output].bytes = SumFunctionOnSet(HeldBytes, Outputs)
    /\ account[Framework].bytes = SumFunctionOnSet(HeldBytes, Inputs)
    /\ \A f, g \in Outputs \cup Inputs : InCall(f) /\ InCall(g) => f = g

\* What a buffer in this state has cost its first account and has declared.
BufferCharged(g) == IF g.pc \in {"none", "uncharged"} THEN 0 ELSE g.bytes
BufferDeclared(g) == (IF g.pc \in {"declared", "created", "corrected", "ready", "destroyed"} THEN g.bytes ELSE 0)
                       + (IF g.pc \in {"corrected", "ready", "destroyed"} THEN g.padding ELSE 0)

\* Its padding is known from its creation on, and paid for when it is ready.
BufferSound(g) ==
    /\ g.pc \in {"none", "charged", "declared"} => g.padding = 0
    /\ g.pc \in {"none", "charged", "declared", "created", "corrected"} => g.paid = 0
    /\ g.pc = "ready" => g.paid = g.padding

BuffersKept ==
    \A b \in Buffers : /\ BufferSound(gpu[b])
                       /\ account[Charge(b)].bytes = BufferCharged(gpu[b])
                       /\ account[Padding(b)].bytes = gpu[b].paid

DeclaredBytes == [b \in Buffers |-> BufferDeclared(gpu[b])]
DeclaredKept == declared = SumFunctionOnSet(DeclaredBytes, Buffers)

\* Only a poisoned device leaks.
LostKept == leaked \in Nat /\ (leaked > 0 => poisoned)

ChunkKept ==
    /\ account[Chunk].bytes = IF chunk \in {"computed", "cached", "pinned"} THEN ChunkBytes ELSE 0
    /\ account[Chunk].kind \in OwnedKinds

UsersInv == /\ AccountsTyped /\ UsersTyped
            /\ ScratchKept /\ FramesKept /\ BuffersKept /\ DeclaredKept /\ LostKept /\ ChunkKept

LEMMA Names ==
    ASSUME AccountsAssumption
    PROVE  /\ Scratch \in Accounts /\ Output \in Accounts /\ Framework \in Accounts /\ Chunk \in Accounts
           /\ \A b \in Buffers : Charge(b) \in Accounts /\ Padding(b) \in Accounts
           /\ Scratch \notin {Output, Framework, Chunk} /\ Output \notin {Framework, Chunk} /\ Framework # Chunk
           /\ \A b \in Buffers : {Charge(b), Padding(b)} \cap {Scratch, Output, Framework, Chunk} = {}
           /\ \A b, c \in Buffers : Charge(b) # Padding(c)
           /\ \A b, c \in Buffers : b # c => Charge(b) # Charge(c) /\ Padding(b) # Padding(c)
<1>1. /\ Scratch \in Accounts /\ Output \in Accounts /\ Framework \in Accounts /\ Chunk \in Accounts
      /\ \A b \in Buffers : Charge(b) \in Accounts /\ Padding(b) \in Accounts
  BY DEF AccountsAssumption, TheAccounts
<1>2. Scratch \notin {Output, Framework, Chunk} /\ Output \notin {Framework, Chunk} /\ Framework # Chunk
  BY DEF Scratch, Output, Framework, Chunk
<1>3. \A b \in Buffers : {Charge(b), Padding(b)} \cap {Scratch, Output, Framework, Chunk} = {}
  <2>1. \A b : Len(Charge(b)) = 2 /\ Len(Padding(b)) = 2
    BY DEF Charge, Padding
  <2>2. Len(Scratch) = 1 /\ Len(Output) = 1 /\ Len(Framework) = 1 /\ Len(Chunk) = 1
    BY DEF Scratch, Output, Framework, Chunk
  <2> QED BY <2>1, <2>2
<1>4. \A b, c \in Buffers : Charge(b) # Padding(c)
  BY DEF Charge, Padding
<1>5. \A b, c \in Buffers : b # c => Charge(b) # Charge(c) /\ Padding(b) # Padding(c)
  BY DEF Charge, Padding
<1> QED BY <1>1, <1>2, <1>3, <1>4, <1>5

LEMMA BufBytesType ==
    ASSUME AccountsAssumption, NEW n \in Nat
    PROVE  BufBytes(n) \in Nat
  BY MaxOfTwo DEF AccountsAssumption, BufBytes

\* What a step of another user leaves alone.
LEMMA ScratchSame ==
    ASSUME ScratchKept, UNCHANGED <<mu, buf, get, fresh>>, account'[Scratch].bytes = account[Scratch].bytes
    PROVE  ScratchKept'
<1>1. Bespoken' = Bespoken
  BY DEF Bespoken
<1> QED BY <1>1 DEF ScratchKept

LEMMA FramesSame ==
    ASSUME FramesKept, UNCHANGED frame,
           account'[Output].bytes = account[Output].bytes, account'[Framework].bytes = account[Framework].bytes
    PROVE  FramesKept'
<1>1. HeldBytes' = HeldBytes
  BY DEF HeldBytes
<1> QED BY <1>1 DEF FramesKept, InCall

LEMMA DeviceSame ==
    ASSUME BuffersKept, DeclaredKept, UNCHANGED <<gpu, declared>>,
           \A b \in Buffers : /\ account'[Charge(b)].bytes = account[Charge(b)].bytes
                              /\ account'[Padding(b)].bytes = account[Padding(b)].bytes
    PROVE  BuffersKept' /\ DeclaredKept'
<1>1. DeclaredBytes' = DeclaredBytes
  BY DEF DeclaredBytes
<1> QED BY <1>1 DEF BuffersKept, DeclaredKept

LEMMA LostSame ==
    ASSUME LostKept, UNCHANGED lost
    PROVE  LostKept'
  BY DEF LostKept, lost

LEMMA ChunkSame ==
    ASSUME ChunkKept, UNCHANGED chunk, account'[Chunk].bytes = account[Chunk].bytes,
           account'[Chunk].kind = account[Chunk].kind
    PROVE  ChunkKept'
  BY DEF ChunkKept

\* A step of the contract that one user takes on one account, or none.
Charges(a) == /\ AccountsTyped' /\ [BudgetNext]_budget
              /\ \A b \in Accounts : account'[b].kind = account[b].kind /\ (b # a => account'[b] = account[b])

LEMMA AcquireCharges ==
    ASSUME AccountsTyped, NEW a \in Accounts, NEW n \in Nat, Acquire(a, n)
    PROVE  Charges(a) /\ account'[a].bytes = account[a].bytes + n
  BY AcquireAccount DEF Charges, BudgetNext

LEMMA ReleaseCharges ==
    ASSUME AccountsTyped, NEW a \in Accounts, NEW n \in Nat, n <= account[a].bytes, Release(a, n)
    PROVE  Charges(a) /\ account'[a].bytes = account[a].bytes - n
  BY ReleaseAccount DEF Charges, BudgetNext

LEMMA NoCharge ==
    ASSUME AccountsTyped, NEW a, UNCHANGED budget
    PROVE  Charges(a) /\ account' = account
  BY DEF Charges, budget, AccountsTyped

LEMMA OthersKept ==
    ASSUME AccountsAssumption, UsersInv, NEW a, Charges(a)
    PROVE  /\ UNCHANGED <<mu, buf, get, fresh>> /\ a # Scratch => ScratchKept'
           /\ UNCHANGED frame /\ a \notin {Output, Framework} => FramesKept'
           /\ UNCHANGED <<gpu, declared>> /\ (\A b \in Buffers : a \notin {Charge(b), Padding(b)})
                => BuffersKept' /\ DeclaredKept'
           /\ UNCHANGED lost => LostKept'
           /\ UNCHANGED chunk /\ a # Chunk => ChunkKept'
<1>1. \A b \in Accounts : b # a => account'[b].bytes = account[b].bytes /\ account'[b].kind = account[b].kind
  BY DEF Charges
<1> QED BY <1>1, Names, ScratchSame, FramesSame, DeviceSame, LostSame, ChunkSame DEF UsersInv

-----------------------------------------------------------------------------
(* Workspace::get.                                                         *)

\* A step of thread t changes what is bespoken by what it does to the account.
LEMMA BespokenChange ==
    ASSUME AccountsAssumption, UsersTyped, UsersTyped', NEW t \in Threads,
           \A u \in Threads : u # t => buf'[u] = buf[u] /\ get'[u] = get[u]
    PROVE  /\ SumFunctionOnSet(Bespoken', Threads) = SumFunctionOnSet(Bespoken, Threads) - Bespoken[t] + Bespoken'[t]
           /\ Bespoken[t] \in Nat /\ Bespoken'[t] \in Nat /\ SumFunctionOnSet(Bespoken, Threads) \in Nat
           /\ Bespoken[t] <= SumFunctionOnSet(Bespoken, Threads)
<1>1. Bespoken \in [Threads -> Nat]
  BY BufBytesType DEF Bespoken, UsersTyped
<1>2. Bespoken' \in [Threads -> Nat]
  <2>1. \A n \in Nat : Max({MinBytes, n}) \in Nat
    BY BufBytesType DEF BufBytes
  <2>2. \A u \in Threads : buf'[u].n \in Nat /\ get'[u].floats \in Nat
    BY DEF UsersTyped
  <2> QED BY <2>1, <2>2 DEF Bespoken, BufBytes
<1>3. \A u \in Threads \ {t} : Bespoken[u] = Bespoken'[u]
  BY DEF Bespoken, BufBytes
<1>4. IsFiniteSet(Threads)
  BY DEF AccountsAssumption
<1> HIDE DEF Bespoken
<1>5. SumFunctionOnSet(Bespoken', Threads) = SumFunctionOnSet(Bespoken, Threads) - Bespoken[t] + Bespoken'[t]
  BY <1>1, <1>2, <1>3, <1>4, SumChange
<1>6. SumFunctionOnSet(Bespoken, Threads) = Bespoken[t] + SumFunctionOnSet(Bespoken, Threads \ {t})
  BY <1>1, <1>4, SumRemove
<1>7. /\ SumFunctionOnSet(Bespoken, Threads) \in Nat /\ SumFunctionOnSet(Bespoken, Threads \ {t}) \in Nat
      /\ Bespoken[t] \in Nat /\ Bespoken'[t] \in Nat
  BY <1>1, <1>2, <1>4, SumType
<1> QED BY <1>5, <1>6, <1>7

\* A step of thread t, which takes or gives back d.
LEMMA ScratchFollows ==
    ASSUME AccountsAssumption, UsersInv, UsersTyped', NEW t \in Threads, Charges(Scratch),
           \A u \in Threads : u # t => buf'[u] = buf[u] /\ get'[u] = get[u] /\ fresh'[u] = fresh[u],
           account'[Scratch].bytes = account[Scratch].bytes - Bespoken[t] + Bespoken'[t],
           mu \in {None, t}, mu' \in {None, t}, get'[t].pc # "idle" <=> mu' = t,
           fresh'[t] = IF get'[t].pc = "swap" THEN BufBytes(get'[t].floats) ELSE 0,
           UNCHANGED <<frame, gpu, declared, chunk, lost>>
    PROVE  UsersInv' /\ [BudgetNext]_budget
<1>1. SumFunctionOnSet(Bespoken', Threads) = SumFunctionOnSet(Bespoken, Threads) - Bespoken[t] + Bespoken'[t]
  BY BespokenChange DEF UsersInv
<1>2. account'[Scratch].bytes = SumFunctionOnSet(Bespoken', Threads)
  BY <1>1 DEF UsersInv, ScratchKept
<1>3. \A u \in Threads : get'[u].pc # "idle" <=> mu' = u
  BY DEF UsersInv, ScratchKept, AccountsAssumption, None
<1>4. \A u \in Threads : fresh'[u] = IF get'[u].pc = "swap" THEN BufBytes(get'[u].floats) ELSE 0
  BY DEF UsersInv, ScratchKept
<1>5. ScratchKept'
  BY <1>2, <1>3, <1>4 DEF ScratchKept, BufBytes
<1>6. FramesKept' /\ BuffersKept' /\ DeclaredKept' /\ LostKept' /\ ChunkKept'
  BY OthersKept, Names
<1> QED BY <1>5, <1>6 DEF UsersInv, Charges

LEMMA GetKeeps ==
    ASSUME AccountsAssumption, UsersInv, NEW t \in Threads, NEW n \in Floats, Get(t, n)
    PROVE  UsersInv' /\ [BudgetNext]_budget
<1>1. /\ get[t].pc = "idle" /\ mu = None /\ mu' = t /\ n \in Nat
      /\ get' = [get EXCEPT ![t] = [pc |-> "charge", floats |-> n]]
      /\ UNCHANGED <<budget, buf, fresh, frame, gpu, declared, chunk, lost>>
  BY DEF Get, AccountsAssumption
<1>2. UsersTyped'
  BY <1>1 DEF UsersInv, UsersTyped
<1>3. Charges(Scratch) /\ account' = account
  BY <1>1, NoCharge DEF UsersInv
<1>4. get'[t] = [pc |-> "charge", floats |-> n] /\ \A u \in Threads : u # t => get'[u] = get[u]
  BY <1>1 DEF UsersInv, UsersTyped
<1>5. Bespoken'[t] = Bespoken[t]
  BY <1>1, <1>4 DEF Bespoken, BufBytes
<1>6. account[Scratch].bytes = account[Scratch].bytes - Bespoken[t] + Bespoken'[t]
  BY <1>2, <1>4, <1>1, <1>5, BespokenChange DEF UsersInv, ScratchKept
<1>7. fresh'[t] = 0
  BY <1>1 DEF UsersInv, ScratchKept
<1> QED BY <1>1, <1>2, <1>3, <1>4, <1>6, <1>7, ScratchFollows

LEMMA ChargeScratchKeeps ==
    ASSUME AccountsAssumption, UsersInv, NEW t \in Threads, ChargeScratch(t)
    PROVE  UsersInv' /\ [BudgetNext]_budget
<1> DEFINE n == BufBytes(get[t].floats)
<1>1. get[t].pc = "charge" /\ UNCHANGED <<buf, fresh, frame, gpu, declared, chunk, lost>>
  BY DEF ChargeScratch
<1>2. mu = t /\ t # None /\ get[t].floats \in Nat /\ fresh[t] = 0
  BY <1>1 DEF UsersInv, ScratchKept, UsersTyped, AccountsAssumption, None
<1>3. n \in Nat
  BY <1>2, BufBytesType
<1>4. CASE Acquire(Scratch, n) /\ get' = [get EXCEPT ![t].pc = "allocate"] /\ UNCHANGED mu
  <2>1. Charges(Scratch) /\ account'[Scratch].bytes = account[Scratch].bytes + n
    BY <1>3, <1>4, Names, AcquireCharges DEF UsersInv
  <2>2. UsersTyped'
    BY <1>1, <1>4 DEF UsersInv, UsersTyped
  <2>3. /\ get'[t].pc = "allocate" /\ get'[t].floats = get[t].floats
        /\ \A u \in Threads : u # t => get'[u] = get[u]
    BY <1>4 DEF UsersInv, UsersTyped
  <2>4. Bespoken'[t] = Bespoken[t] + n
    <3>1. Bespoken'[t] = (IF buf[t].p THEN BufBytes(buf[t].n) ELSE 0) + n
      BY <1>1, <2>3 DEF Bespoken, BufBytes
    <3>2. Bespoken[t] = (IF buf[t].p THEN BufBytes(buf[t].n) ELSE 0) + 0
      BY <1>1 DEF Bespoken
    <3>3. (IF buf[t].p THEN BufBytes(buf[t].n) ELSE 0) \in Nat
      BY BufBytesType DEF UsersInv, UsersTyped
    <3> QED BY <1>3, <3>1, <3>2, <3>3
  <2>5. account'[Scratch].bytes = account[Scratch].bytes - Bespoken[t] + Bespoken'[t]
    BY <1>1, <1>3, <2>1, <2>2, <2>3, <2>4, BespokenChange DEF UsersInv, ScratchKept
  <2> QED BY <1>1, <1>2, <1>4, <2>1, <2>2, <2>3, <2>5, ScratchFollows
<1>5. CASE get' = [get EXCEPT ![t].pc = "idle"] /\ mu' = None /\ UNCHANGED budget
  <2>1. Charges(Scratch) /\ account' = account
    BY <1>5, NoCharge DEF UsersInv
  <2>2. UsersTyped'
    BY <1>1, <1>5 DEF UsersInv, UsersTyped
  <2>3. get'[t].pc = "idle" /\ \A u \in Threads : u # t => get'[u] = get[u]
    BY <1>5 DEF UsersInv, UsersTyped
  <2>4. Bespoken'[t] = Bespoken[t]
    BY <1>1, <2>3 DEF Bespoken, BufBytes
  <2>5. account'[Scratch].bytes = account[Scratch].bytes - Bespoken[t] + Bespoken'[t]
    BY <1>1, <2>1, <2>2, <2>3, <2>4, BespokenChange DEF UsersInv, ScratchKept
  <2> QED BY <1>1, <1>2, <1>5, <2>1, <2>2, <2>3, <2>5, ScratchFollows
<1> QED BY <1>4, <1>5 DEF ChargeScratch

LEMMA AllocateScratchKeeps ==
    ASSUME AccountsAssumption, UsersInv, NEW t \in Threads, AllocateScratch(t)
    PROVE  UsersInv' /\ [BudgetNext]_budget
<1> DEFINE n == BufBytes(get[t].floats)
<1>1. /\ get[t].pc = "allocate" /\ UNCHANGED <<budget, mu, buf, frame, gpu, declared, chunk, lost>>
      /\ fresh' = [fresh EXCEPT ![t] = n] /\ get' = [get EXCEPT ![t].pc = "swap"]
  BY DEF AllocateScratch
<1>2. mu = t /\ get[t].floats \in Nat
  BY <1>1 DEF UsersInv, ScratchKept, UsersTyped
<1>3. n \in Nat
  BY <1>2, BufBytesType
<1>4. UsersTyped'
  BY <1>1, <1>3 DEF UsersInv, UsersTyped
<1>5. /\ get'[t].pc = "swap" /\ get'[t].floats = get[t].floats /\ fresh'[t] = n
      /\ \A u \in Threads : u # t => get'[u] = get[u] /\ fresh'[u] = fresh[u]
  BY <1>1 DEF UsersInv, UsersTyped
<1>6. Charges(Scratch) /\ account' = account
  BY <1>1, NoCharge DEF UsersInv
<1>7. Bespoken'[t] = Bespoken[t]
  BY <1>1, <1>5 DEF Bespoken, BufBytes
<1>8. account'[Scratch].bytes = account[Scratch].bytes - Bespoken[t] + Bespoken'[t]
  BY <1>1, <1>4, <1>5, <1>6, <1>7, BespokenChange DEF UsersInv, ScratchKept
<1>9. fresh'[t] = IF get'[t].pc = "swap" THEN BufBytes(get'[t].floats) ELSE 0
  BY <1>5
<1> QED BY <1>1, <1>2, <1>4, <1>5, <1>6, <1>8, <1>9, ScratchFollows

LEMMA AllocateFailsKeeps ==
    ASSUME AccountsAssumption, UsersInv, NEW t \in Threads, AllocateFails(t)
    PROVE  UsersInv' /\ [BudgetNext]_budget
<1> DEFINE n == BufBytes(get[t].floats)  old == IF buf[t].p THEN BufBytes(buf[t].n) ELSE 0
<1>1. /\ get[t].pc = "allocate" /\ Release(Scratch, n) /\ mu' = None
      /\ get' = [get EXCEPT ![t].pc = "idle"] /\ UNCHANGED <<buf, fresh, frame, gpu, declared, chunk, lost>>
  BY DEF AllocateFails
<1>2. mu = t /\ t # None /\ get[t].floats \in Nat /\ fresh[t] = 0
  BY <1>1 DEF UsersInv, ScratchKept, UsersTyped, AccountsAssumption, None
<1>3. n \in Nat /\ old \in Nat
  BY <1>2, BufBytesType DEF UsersInv, UsersTyped
<1>4. UsersTyped'
  BY <1>1 DEF UsersInv, UsersTyped
<1>5. get'[t].pc = "idle" /\ \A u \in Threads : u # t => get'[u] = get[u]
  BY <1>1 DEF UsersInv, UsersTyped
<1>6. Bespoken[t] = old + n /\ Bespoken'[t] = old + 0
  BY <1>1, <1>5 DEF Bespoken, BufBytes
<1>7. account[Scratch].bytes \in Nat /\ Bespoken[t] <= account[Scratch].bytes
  BY <1>1, <1>4, <1>5, BespokenChange DEF UsersInv, ScratchKept
<1>8. n <= account[Scratch].bytes
  BY <1>3, <1>6, <1>7
<1>9. Charges(Scratch) /\ account'[Scratch].bytes = account[Scratch].bytes - n
  BY <1>1, <1>3, <1>8, Names, ReleaseCharges DEF UsersInv
<1>10. account'[Scratch].bytes = account[Scratch].bytes - Bespoken[t] + Bespoken'[t]
  BY <1>3, <1>6, <1>7, <1>9
<1> QED BY <1>1, <1>2, <1>4, <1>5, <1>9, <1>10, ScratchFollows

LEMMA SwapScratchKeeps ==
    ASSUME AccountsAssumption, UsersInv, NEW t \in Threads, SwapScratch(t)
    PROVE  UsersInv' /\ [BudgetNext]_budget
<1> DEFINE n == BufBytes(get[t].floats)  old == IF buf[t].p THEN BufBytes(buf[t].n) ELSE 0
<1>1. /\ get[t].pc = "swap" /\ mu' = None /\ UNCHANGED <<frame, gpu, declared, chunk, lost>>
      /\ IF buf[t].p THEN Release(Scratch, OldBytes(t)) ELSE UNCHANGED budget
      /\ buf' = [buf EXCEPT ![t] = [p |-> TRUE, n |-> get[t].floats]]
      /\ fresh' = [fresh EXCEPT ![t] = 0] /\ get' = [get EXCEPT ![t].pc = "idle"]
  BY DEF SwapScratch
<1>2. mu = t /\ t # None /\ get[t].floats \in Nat
  BY <1>1 DEF UsersInv, ScratchKept, UsersTyped, AccountsAssumption, None
<1>3. n \in Nat /\ old \in Nat
  BY <1>2, BufBytesType DEF UsersInv, UsersTyped
<1>4. UsersTyped'
  BY <1>1, <1>2 DEF UsersInv, UsersTyped
<1>5. /\ get'[t].pc = "idle" /\ fresh'[t] = 0 /\ buf'[t] = [p |-> TRUE, n |-> get[t].floats]
      /\ \A u \in Threads : u # t => get'[u] = get[u] /\ buf'[u] = buf[u] /\ fresh'[u] = fresh[u]
  BY <1>1 DEF UsersInv, UsersTyped
<1>6. Bespoken[t] = old + n /\ Bespoken'[t] = n + 0
  BY <1>1, <1>5 DEF Bespoken, BufBytes
<1>7. account[Scratch].bytes \in Nat /\ Bespoken[t] <= account[Scratch].bytes
  BY <1>4, <1>5, BespokenChange DEF UsersInv, ScratchKept
<1>8. old <= account[Scratch].bytes
  BY <1>3, <1>6, <1>7
<1>9. Charges(Scratch) /\ account'[Scratch].bytes = account[Scratch].bytes - old
  <2>1. CASE buf[t].p
    <3>1. Release(Scratch, old)
      BY <1>1, <2>1 DEF OldBytes
    <3> HIDE DEF old
    <3> QED BY <1>3, <1>8, <3>1, Names, ReleaseCharges DEF UsersInv
  <2>2. CASE ~buf[t].p
    BY <1>1, <1>7, <2>2, NoCharge DEF UsersInv
  <2> QED BY <2>1, <2>2
<1>10. account'[Scratch].bytes = account[Scratch].bytes - Bespoken[t] + Bespoken'[t]
  BY <1>3, <1>6, <1>7, <1>9
<1> QED BY <1>1, <1>2, <1>4, <1>5, <1>9, <1>10, ScratchFollows

LEMMA FreeScratchKeeps ==
    ASSUME AccountsAssumption, UsersInv, NEW t \in Threads, FreeScratch(t)
    PROVE  UsersInv' /\ [BudgetNext]_budget
<1> DEFINE old == BufBytes(buf[t].n)
<1>1. /\ get[t].pc = "idle" /\ buf[t].p /\ Release(Scratch, old)
      /\ buf' = [buf EXCEPT ![t] = NoBuf] /\ UNCHANGED <<mu, get, fresh, frame, gpu, declared, chunk, lost>>
      /\ \A u \in Threads : get[u].pc = "idle"
  BY DEF FreeScratch, OldBytes
<1>2. mu = None /\ fresh[t] = 0
  BY <1>1 DEF UsersInv, ScratchKept, UsersTyped
<1>3. old \in Nat
  BY BufBytesType DEF UsersInv, UsersTyped
<1>4. UsersTyped'
  BY <1>1 DEF UsersInv, UsersTyped, NoBuf
<1>5. buf'[t] = NoBuf /\ \A u \in Threads : u # t => buf'[u] = buf[u]
  BY <1>1 DEF UsersInv, UsersTyped
<1>6. Bespoken[t] = old + 0 /\ Bespoken'[t] = 0 + 0
  BY <1>1, <1>5 DEF Bespoken, NoBuf
<1>7. account[Scratch].bytes \in Nat /\ Bespoken[t] <= account[Scratch].bytes
  BY <1>1, <1>4, <1>5, BespokenChange DEF UsersInv, ScratchKept
<1>8. Charges(Scratch) /\ account'[Scratch].bytes = account[Scratch].bytes - old
  BY <1>1, <1>3, <1>6, <1>7, Names, ReleaseCharges DEF UsersInv
<1>9. account'[Scratch].bytes = account[Scratch].bytes - Bespoken[t] + Bespoken'[t]
  BY <1>3, <1>6, <1>7, <1>8
<1>10. get[t].pc # "idle" <=> mu = t
  BY DEF UsersInv, ScratchKept
<1> QED BY <1>1, <1>2, <1>4, <1>5, <1>8, <1>9, <1>10, ScratchFollows

-----------------------------------------------------------------------------
(* FrameScope.                                                             *)

LEMMA FrameFacts ==
    ASSUME AccountsAssumption, NEW f \in Outputs \cup Inputs
    PROVE  /\ FrameBytes[f] \in Nat /\ FrameAccount(f) \in {Output, Framework} /\ FrameAccount(f) \in Accounts
           /\ FrameAccount(f) = Output <=> f \in Outputs
           /\ FrameAccount(f) = Framework <=> f \in Inputs
  BY Names DEF AccountsAssumption, FrameAccount

\* A step of frame f, which is charged or uncharged for it.
LEMMA FrameFollows ==
    ASSUME AccountsAssumption, UsersInv, UsersTyped', NEW f \in Outputs \cup Inputs, Charges(FrameAccount(f)),
           \A g \in Outputs \cup Inputs : g # f => frame'[g] = frame[g],
           account'[FrameAccount(f)].bytes = account[FrameAccount(f)].bytes - HeldBytes[f] + HeldBytes'[f],
           InCall(f)' => \A g \in Outputs \cup Inputs : InCall(g) => g = f,
           UNCHANGED <<mu, buf, get, fresh, gpu, declared, chunk, lost>>
    PROVE  UsersInv' /\ [BudgetNext]_budget
<1>1. HeldBytes \in [Outputs \cup Inputs -> Nat] /\ HeldBytes' \in [Outputs \cup Inputs -> Nat]
  BY FrameFacts DEF HeldBytes
<1>2. \A g \in (Outputs \cup Inputs) \ {f} : HeldBytes[g] = HeldBytes'[g]
  BY DEF HeldBytes
<1>3. IsFiniteSet(Outputs \cup Inputs)
  BY DEF AccountsAssumption
<1> HIDE DEF HeldBytes
<1>4. \A S \in SUBSET (Outputs \cup Inputs) :
         SumFunctionOnSet(HeldBytes', S) =
            IF f \in S THEN SumFunctionOnSet(HeldBytes, S) - HeldBytes[f] + HeldBytes'[f] ELSE SumFunctionOnSet(HeldBytes, S)
  BY <1>1, <1>2, <1>3, SumChange
<1>5. Outputs \in SUBSET (Outputs \cup Inputs) /\ Inputs \in SUBSET (Outputs \cup Inputs)
  OBVIOUS
<1>6. /\ f \in Outputs => account'[Output].bytes = account[Output].bytes - HeldBytes[f] + HeldBytes'[f]
      /\ f \notin Outputs => account'[Output].bytes = account[Output].bytes
  BY Names, FrameFacts DEF Charges
<1>7. /\ f \in Inputs => account'[Framework].bytes = account[Framework].bytes - HeldBytes[f] + HeldBytes'[f]
      /\ f \notin Inputs => account'[Framework].bytes = account[Framework].bytes
  BY Names, FrameFacts DEF Charges
<1>8. \A g, h \in Outputs \cup Inputs : InCall(g)' /\ InCall(h)' => g = h
  <2>1. \A g \in Outputs \cup Inputs : g # f => (InCall(g)' <=> InCall(g))
    BY DEF InCall
  <2>2. \A g, h \in Outputs \cup Inputs : InCall(g) /\ InCall(h) => g = h
    BY DEF UsersInv, FramesKept
  <2> QED BY <2>1, <2>2
<1>9. FramesKept'
  BY <1>4, <1>5, <1>6, <1>7, <1>8 DEF UsersInv, FramesKept
<1>10. ScratchKept' /\ BuffersKept' /\ DeclaredKept' /\ LostKept' /\ ChunkKept'
  BY OthersKept, Names, FrameFacts
<1> QED BY <1>9, <1>10 DEF UsersInv, Charges

\* An account has the bytes of each frame it holds.
LEMMA HeldCharged ==
    ASSUME AccountsAssumption, UsersInv, NEW f \in Outputs \cup Inputs
    PROVE  account[FrameAccount(f)].bytes \in Nat /\ HeldBytes[f] \in Nat /\ HeldBytes[f] <= account[FrameAccount(f)].bytes
<1>1. HeldBytes \in [Outputs \cup Inputs -> Nat]
  BY FrameFacts DEF HeldBytes
<1>2. IsFiniteSet(Outputs \cup Inputs)
  BY DEF AccountsAssumption
<1> HIDE DEF HeldBytes
<1>3. ASSUME NEW S \in SUBSET (Outputs \cup Inputs), f \in S
      PROVE  /\ SumFunctionOnSet(HeldBytes, S) \in Nat /\ HeldBytes[f] \in Nat
             /\ HeldBytes[f] <= SumFunctionOnSet(HeldBytes, S)
  <2>1. SumFunctionOnSet(HeldBytes, S) = HeldBytes[f] + SumFunctionOnSet(HeldBytes, S \ {f})
    BY <1>1, <1>2, <1>3, SumRemove
  <2>2. SumFunctionOnSet(HeldBytes, S) \in Nat /\ SumFunctionOnSet(HeldBytes, S \ {f}) \in Nat /\ HeldBytes[f] \in Nat
    BY <1>1, <1>2, SumType
  <2> QED BY <2>1, <2>2
<1>4. CASE f \in Outputs
  <2>1. Outputs \in SUBSET (Outputs \cup Inputs)
    OBVIOUS
  <2>2. account[FrameAccount(f)].bytes = SumFunctionOnSet(HeldBytes, Outputs)
    BY <1>4, FrameFacts DEF UsersInv, FramesKept
  <2> QED BY <1>3, <1>4, <2>1, <2>2
<1>5. CASE f \in Inputs
  <2>1. Inputs \in SUBSET (Outputs \cup Inputs)
    OBVIOUS
  <2>2. account[FrameAccount(f)].bytes = SumFunctionOnSet(HeldBytes, Inputs)
    BY <1>5, FrameFacts DEF UsersInv, FramesKept
  <2> QED BY <1>3, <1>5, <2>1, <2>2
<1> QED BY <1>4, <1>5

LEMMA FrameKeeps ==
    ASSUME AccountsAssumption, UsersInv, NEW f \in Outputs \cup Inputs,
           MakeFrame(f) \/ ChargeFrame(f) \/ HoldFrame(f) \/ ForgetFrame(f) \/ FreeFrame(f)
    PROVE  UsersInv' /\ [BudgetNext]_budget
<1> DEFINE a == FrameAccount(f)
           Paid == {"charged", "held"}
<1>1. account[a].bytes \in Nat /\ HeldBytes[f] \in Nat /\ HeldBytes[f] <= account[a].bytes
  BY HeldCharged
<1>2. HeldBytes[f] = (IF frame[f] \in Paid THEN FrameBytes[f] ELSE 0)
      /\ HeldBytes'[f] = (IF frame'[f] \in Paid THEN FrameBytes[f] ELSE 0)
  BY DEF HeldBytes
<1>3. FrameBytes[f] \in Nat /\ a \in Accounts
  BY FrameFacts
<1>4. UNCHANGED <<mu, buf, get, fresh, gpu, declared, chunk, lost>>
  BY DEF MakeFrame, ChargeFrame, HoldFrame, ForgetFrame, FreeFrame
<1>5. PICK next \in {"none", "made", "charged", "held", "dropped"} : frame' = [frame EXCEPT ![f] = next]
  BY DEF MakeFrame, ChargeFrame, HoldFrame, ForgetFrame, FreeFrame
<1>6. /\ UsersTyped' /\ frame'[f] = next
      /\ \A g \in Outputs \cup Inputs : g # f => frame'[g] = frame[g]
  BY <1>4, <1>5 DEF UsersInv, UsersTyped
<1>7. InCall(f)' => \A g \in Outputs \cup Inputs : InCall(g) => g = f
  <2>1. CASE MakeFrame(f) \/ ForgetFrame(f)
    BY <2>1 DEF MakeFrame, ForgetFrame, NoCall
  <2>2. CASE ChargeFrame(f) \/ HoldFrame(f)
    BY <2>2 DEF ChargeFrame, HoldFrame, InCall, UsersInv, FramesKept
  <2>3. CASE FreeFrame(f)
    BY <2>3, <1>6 DEF FreeFrame, InCall, UsersInv, UsersTyped
  <2> QED BY <2>1, <2>2, <2>3
<1>8. Charges(a) /\ account'[a].bytes = account[a].bytes - HeldBytes[f] + HeldBytes'[f]
  <2>1. CASE UNCHANGED budget /\ (frame[f] \in Paid <=> frame'[f] \in Paid)
    BY <1>1, <1>2, <2>1, NoCharge DEF UsersInv
  <2>2. CASE Acquire(a, FrameBytes[f]) /\ frame[f] \notin Paid /\ frame'[f] \in Paid
    <3>1. Charges(a) /\ account'[a].bytes = account[a].bytes + FrameBytes[f]
      BY <1>3, <2>2, AcquireCharges DEF UsersInv
    <3> QED BY <1>1, <1>2, <1>3, <2>2, <3>1
  <2>3. CASE Release(a, FrameBytes[f]) /\ frame[f] \in Paid /\ frame'[f] \notin Paid
    <3>1. Charges(a) /\ account'[a].bytes = account[a].bytes - FrameBytes[f]
      BY <1>1, <1>2, <1>3, <2>3, ReleaseCharges DEF UsersInv
    <3> QED BY <1>1, <1>2, <1>3, <2>3, <3>1
  <2> HIDE DEF a
  <2>4. CASE MakeFrame(f) \/ FreeFrame(f)
    BY <1>6, <2>1, <2>4 DEF MakeFrame, FreeFrame, UsersInv, UsersTyped
  <2>5. CASE ChargeFrame(f)
    BY <1>6, <2>1, <2>2, <2>5 DEF a, ChargeFrame, UsersInv, UsersTyped
  <2>6. CASE HoldFrame(f)
    BY <1>6, <2>1, <2>3, <2>6 DEF a, HoldFrame, Uncharge, UsersInv, UsersTyped
  <2>7. CASE ForgetFrame(f)
    BY <1>6, <2>3, <2>7 DEF a, ForgetFrame, Uncharge, UsersInv, UsersTyped
  <2> QED BY <2>4, <2>5, <2>6, <2>7
<1> QED BY <1>4, <1>6, <1>7, <1>8, FrameFollows

-----------------------------------------------------------------------------
(* Buffer.                                                                 *)

LEMMA BufferFacts ==
    ASSUME AccountsAssumption, UsersInv, NEW b \in Buffers
    PROVE  /\ gpu[b] \in GpuStates /\ BufferSound(gpu[b])
           /\ account[Charge(b)].bytes = BufferCharged(gpu[b]) /\ account[Padding(b)].bytes = gpu[b].paid
           /\ declared \in Nat /\ BufferDeclared(gpu[b]) \in Nat /\ BufferDeclared(gpu[b]) <= declared
<1>1. gpu[b] \in GpuStates
  BY DEF UsersInv, UsersTyped
<1>2. /\ BufferSound(gpu[b])
      /\ account[Charge(b)].bytes = BufferCharged(gpu[b]) /\ account[Padding(b)].bytes = gpu[b].paid
  BY DEF UsersInv, BuffersKept
<1>3. DeclaredBytes \in [Buffers -> Nat] /\ DeclaredBytes[b] = BufferDeclared(gpu[b])
  BY DEF DeclaredBytes, BufferDeclared, UsersInv, UsersTyped, GpuStates
<1>4. IsFiniteSet(Buffers) /\ declared = SumFunctionOnSet(DeclaredBytes, Buffers)
  BY DEF AccountsAssumption, UsersInv, DeclaredKept
<1> HIDE DEF DeclaredBytes
<1>5. declared = DeclaredBytes[b] + SumFunctionOnSet(DeclaredBytes, Buffers \ {b})
  BY <1>3, <1>4, SumRemove
<1>6. declared \in Nat /\ SumFunctionOnSet(DeclaredBytes, Buffers \ {b}) \in Nat /\ DeclaredBytes[b] \in Nat
  BY <1>3, <1>4, SumType
<1> QED BY <1>1, <1>2, <1>3, <1>5, <1>6

\* A step of buffer b, on one of its accounts.
LEMMA BufferFollows ==
    ASSUME AccountsAssumption, UsersInv, NEW b \in Buffers, NEW now \in GpuStates, BufferSound(now),
           NEW a \in {Charge(b), Padding(b)}, Charges(a),
           gpu' = [gpu EXCEPT ![b] = now],
           account'[Charge(b)].bytes = BufferCharged(now), account'[Padding(b)].bytes = now.paid,
           declared' = declared - BufferDeclared(gpu[b]) + BufferDeclared(now), LostKept',
           UNCHANGED <<mu, buf, get, fresh, frame, chunk>>
    PROVE  UsersInv' /\ [BudgetNext]_budget
<1>1. gpu'[b] = now /\ \A c \in Buffers : c # b => gpu'[c] = gpu[c]
  BY DEF UsersInv, UsersTyped
<1>2. UsersTyped'
  BY DEF UsersInv, UsersTyped
<1>3. \A c \in Buffers : c # b => account'[Charge(c)] = account[Charge(c)] /\ account'[Padding(c)] = account[Padding(c)]
  BY Names DEF Charges
<1>4. BuffersKept'
  BY <1>1, <1>3 DEF UsersInv, BuffersKept
<1>5. DeclaredBytes \in [Buffers -> Nat] /\ DeclaredBytes' \in [Buffers -> Nat]
  BY <1>2 DEF DeclaredBytes, BufferDeclared, UsersInv, UsersTyped, GpuStates
<1>6. /\ DeclaredBytes[b] = BufferDeclared(gpu[b]) /\ DeclaredBytes'[b] = BufferDeclared(now)
      /\ \A c \in Buffers \ {b} : DeclaredBytes[c] = DeclaredBytes'[c]
  BY <1>1 DEF DeclaredBytes
<1>7. IsFiniteSet(Buffers)
  BY DEF AccountsAssumption
<1> HIDE DEF DeclaredBytes
<1>8. SumFunctionOnSet(DeclaredBytes', Buffers) = SumFunctionOnSet(DeclaredBytes, Buffers) - DeclaredBytes[b] + DeclaredBytes'[b]
  BY <1>5, <1>6, <1>7, SumChange
<1>9. DeclaredKept'
  BY <1>6, <1>8 DEF UsersInv, DeclaredKept
<1>10. ScratchKept' /\ FramesKept' /\ ChunkKept'
  <2>1. a \notin {Scratch, Output, Framework, Chunk}
    BY Names
  <2> QED BY <2>1, OthersKept
<1> QED BY <1>2, <1>4, <1>9, <1>10 DEF UsersInv, Charges

\* A step of buffer b that no account sees.
LEMMA BufferQuiet ==
    ASSUME AccountsAssumption, UsersInv, NEW b \in Buffers, NEW now \in GpuStates, BufferSound(now),
           gpu' = [gpu EXCEPT ![b] = now],
           BufferCharged(now) = BufferCharged(gpu[b]), now.paid = gpu[b].paid,
           declared' = declared - BufferDeclared(gpu[b]) + BufferDeclared(now), LostKept',
           UNCHANGED <<budget, mu, buf, get, fresh, frame, chunk>>
    PROVE  UsersInv' /\ [BudgetNext]_budget
<1>1. Charges(Charge(b)) /\ account' = account
  BY NoCharge DEF UsersInv
<1>2. account'[Charge(b)].bytes = BufferCharged(now) /\ account'[Padding(b)].bytes = now.paid
  BY <1>1, BufferFacts
<1> QED BY <1>1, <1>2, BufferFollows

LEMMA PoisonKeeps ==
    ASSUME AccountsAssumption, UsersInv, Poison
    PROVE  UsersInv' /\ [BudgetNext]_budget
<1>1. UNCHANGED <<budget, mu, buf, get, fresh, frame, gpu, declared, chunk>> /\ LostKept'
  BY DEF Poison, UsersInv, LostKept
<1>2. Charges(Scratch) /\ account' = account
  BY <1>1, NoCharge DEF UsersInv
<1>3. UsersTyped'
  BY <1>1 DEF UsersInv, UsersTyped
<1>4. ScratchKept' /\ FramesKept' /\ BuffersKept' /\ DeclaredKept' /\ ChunkKept'
  BY <1>1, <1>2, ScratchSame, FramesSame, DeviceSame, ChunkSame DEF UsersInv
<1> QED BY <1>1, <1>2, <1>3, <1>4 DEF UsersInv, Charges

LEMMA ChargeBufferKeeps ==
    ASSUME AccountsAssumption, UsersInv, NEW b \in Buffers, NEW n \in BufferBytes, ChargeBuffer(b, n)
    PROVE  UsersInv' /\ [BudgetNext]_budget
<1> DEFINE now == [pc |-> "charged", bytes |-> n, padding |-> 0, paid |-> 0]
<1>1. n \in Nat /\ now \in GpuStates /\ BufferSound(now)
  BY DEF AccountsAssumption, GpuStates, BufferSteps, BufferSound
<1>2. /\ gpu[b].pc = "none" /\ Acquire(Charge(b), n) /\ gpu' = [gpu EXCEPT ![b] = now]
      /\ UNCHANGED <<mu, buf, get, fresh, frame, declared, chunk, lost>>
  BY DEF ChargeBuffer
<1>3. Charges(Charge(b)) /\ account'[Charge(b)].bytes = account[Charge(b)].bytes + n
  BY <1>1, <1>2, Names, AcquireCharges DEF UsersInv
<1>4. account'[Padding(b)] = account[Padding(b)]
  BY <1>3, Names DEF Charges
<1>5. account'[Charge(b)].bytes = BufferCharged(now) /\ account'[Padding(b)].bytes = now.paid
  BY <1>1, <1>2, <1>3, <1>4, BufferFacts DEF BufferCharged, BufferSound
<1>6. declared' = declared - BufferDeclared(gpu[b]) + BufferDeclared(now)
  BY <1>2, BufferFacts DEF BufferDeclared
<1>7. LostKept'
  BY <1>2, LostSame DEF UsersInv
<1> HIDE DEF now
<1> QED BY <1>1, <1>2, <1>3, <1>5, <1>6, <1>7, BufferFollows

LEMMA DeclareBufferKeeps ==
    ASSUME AccountsAssumption, UsersInv, NEW b \in Buffers, DeclareBuffer(b)
    PROVE  UsersInv' /\ [BudgetNext]_budget
<1> DEFINE now == [gpu[b] EXCEPT !.pc = "declared"]
<1>1. /\ gpu[b].pc = "charged" /\ gpu' = [gpu EXCEPT ![b] = now] /\ declared' = declared + gpu[b].bytes
      /\ UNCHANGED <<budget, mu, buf, get, fresh, frame, chunk, lost>>
  BY DEF DeclareBuffer
<1>2. /\ now \in GpuStates /\ now.pc = "declared" /\ now.bytes = gpu[b].bytes /\ now.padding = gpu[b].padding
      /\ now.paid = gpu[b].paid /\ gpu[b].bytes \in Nat
  BY BufferFacts DEF GpuStates, BufferSteps
<1> HIDE DEF now
<1>3. BufferSound(now) /\ BufferCharged(now) = BufferCharged(gpu[b])
  BY <1>1, <1>2, BufferFacts DEF BufferSound, BufferCharged
<1>4. declared' = declared - BufferDeclared(gpu[b]) + BufferDeclared(now)
  BY <1>1, <1>2, BufferFacts DEF BufferDeclared
<1>5. LostKept'
  BY <1>1, LostSame DEF UsersInv
<1> QED BY <1>1, <1>2, <1>3, <1>4, <1>5, BufferQuiet

LEMMA CreateBufferKeeps ==
    ASSUME AccountsAssumption, UsersInv, NEW b \in Buffers, NEW padding \in Paddings, CreateBuffer(b, padding)
    PROVE  UsersInv' /\ [BudgetNext]_budget
<1> DEFINE now == [gpu[b] EXCEPT !.pc = "created", !.padding = padding]
<1>1. /\ gpu[b].pc = "declared" /\ gpu' = [gpu EXCEPT ![b] = now]
      /\ UNCHANGED <<budget, mu, buf, get, fresh, frame, declared, chunk, lost>>
  <2>1. gpu' = [gpu EXCEPT ![b].pc = "created", ![b].padding = padding]
    BY DEF CreateBuffer
  <2>2. gpu = [c \in Buffers |-> gpu[c]] /\ gpu[b] \in GpuStates
    BY BufferFacts DEF UsersInv, UsersTyped
  <2>3. gpu' = [gpu EXCEPT ![b] = now]
    BY <2>1, <2>2 DEF GpuStates
  <2> QED BY <2>3 DEF CreateBuffer
<1>2. /\ now \in GpuStates /\ now.pc = "created" /\ now.bytes = gpu[b].bytes /\ now.padding = padding
      /\ now.paid = gpu[b].paid /\ gpu[b].bytes \in Nat
  BY BufferFacts DEF GpuStates, BufferSteps, AccountsAssumption
<1> HIDE DEF now
<1>3. BufferSound(now) /\ BufferCharged(now) = BufferCharged(gpu[b])
  BY <1>1, <1>2, BufferFacts DEF BufferSound, BufferCharged
<1>4. declared' = declared - BufferDeclared(gpu[b]) + BufferDeclared(now)
  BY <1>1, <1>2, BufferFacts DEF BufferDeclared
<1>5. LostKept'
  BY <1>1, LostSame DEF UsersInv
<1> QED BY <1>1, <1>2, <1>3, <1>4, <1>5, BufferQuiet

LEMMA DeclarePaddingKeeps ==
    ASSUME AccountsAssumption, UsersInv, NEW b \in Buffers, DeclarePadding(b)
    PROVE  UsersInv' /\ [BudgetNext]_budget
<1> DEFINE now == [gpu[b] EXCEPT !.pc = "corrected"]
<1>1. /\ gpu[b].pc = "created" /\ gpu' = [gpu EXCEPT ![b] = now] /\ declared' = declared + gpu[b].padding
      /\ UNCHANGED <<budget, mu, buf, get, fresh, frame, chunk, lost>>
  BY DEF DeclarePadding
<1>2. /\ now \in GpuStates /\ now.pc = "corrected" /\ now.bytes = gpu[b].bytes /\ now.padding = gpu[b].padding
      /\ now.paid = gpu[b].paid /\ gpu[b].bytes \in Nat /\ gpu[b].padding \in Nat
  BY BufferFacts DEF GpuStates, BufferSteps
<1> HIDE DEF now
<1>3. BufferSound(now) /\ BufferCharged(now) = BufferCharged(gpu[b])
  BY <1>1, <1>2, BufferFacts DEF BufferSound, BufferCharged
<1>4. declared' = declared - BufferDeclared(gpu[b]) + BufferDeclared(now)
  BY <1>1, <1>2, BufferFacts DEF BufferDeclared
<1>5. LostKept'
  BY <1>1, LostSame DEF UsersInv
<1> QED BY <1>1, <1>2, <1>3, <1>4, <1>5, BufferQuiet

\* What is undeclared was declared.
LEMMA UndeclaredExact ==
    ASSUME AccountsAssumption, UsersInv, NEW b \in Buffers, gpu[b].pc \in {"declared", "destroyed"}
    PROVE  Undeclared(b) = declared - BufferDeclared(gpu[b])
<1>1. gpu[b].bytes \in Nat /\ gpu[b].padding \in Nat /\ gpu[b].pc = "declared" => gpu[b].padding = 0
  BY BufferFacts DEF GpuStates, BufferSound
<1>2. gpu[b].bytes + gpu[b].padding = BufferDeclared(gpu[b])
  BY <1>1, BufferFacts DEF BufferDeclared, GpuStates
<1>3. declared - BufferDeclared(gpu[b]) \in Nat
  BY BufferFacts
<1> QED BY <1>2, <1>3, MaxOfTwo DEF Undeclared

LEMMA UndeclareFollows ==
    ASSUME AccountsAssumption, UsersInv, NEW b \in Buffers, gpu[b].pc \in {"declared", "destroyed"},
           declared' = Undeclared(b), gpu' = [gpu EXCEPT ![b].pc = "undeclared"],
           UNCHANGED <<budget, mu, buf, get, fresh, frame, chunk, lost>>
    PROVE  UsersInv' /\ [BudgetNext]_budget
<1> DEFINE now == [gpu[b] EXCEPT !.pc = "undeclared"]
<1>1. gpu' = [gpu EXCEPT ![b] = now]
  OBVIOUS
<1>2. /\ now \in GpuStates /\ now.pc = "undeclared" /\ now.bytes = gpu[b].bytes /\ now.padding = gpu[b].padding
      /\ now.paid = gpu[b].paid
  BY BufferFacts DEF GpuStates, BufferSteps
<1> HIDE DEF now
<1>3. BufferSound(now) /\ BufferCharged(now) = BufferCharged(gpu[b])
  BY <1>2 DEF BufferSound, BufferCharged
<1>4. declared' = declared - BufferDeclared(gpu[b]) + BufferDeclared(now)
  <2>1. declared' = declared - BufferDeclared(gpu[b])
    BY UndeclaredExact
  <2>2. BufferDeclared(now) = 0
    BY <1>2 DEF BufferDeclared
  <2> QED BY <2>1, <2>2, BufferFacts
<1>5. LostKept'
  BY LostSame DEF UsersInv
<1> QED BY <1>1, <1>2, <1>3, <1>4, <1>5, BufferQuiet

LEMMA CreateFailsKeeps ==
    ASSUME AccountsAssumption, UsersInv, NEW b \in Buffers, CreateFails(b)
    PROVE  UsersInv' /\ [BudgetNext]_budget
  BY UndeclareFollows DEF CreateFails

LEMMA UndeclareKeeps ==
    ASSUME AccountsAssumption, UsersInv, NEW b \in Buffers, Undeclare(b)
    PROVE  UsersInv' /\ [BudgetNext]_budget
  BY UndeclareFollows DEF Undeclare

LEMMA ChargePaddingKeeps ==
    ASSUME AccountsAssumption, UsersInv, NEW b \in Buffers, ChargePadding(b)
    PROVE  UsersInv' /\ [BudgetNext]_budget
<1>1. gpu[b].pc = "corrected" /\ UNCHANGED <<mu, buf, get, fresh, frame, declared, chunk, lost>>
  BY DEF ChargePadding
<1>2. gpu[b] \in GpuStates /\ gpu[b].paid = 0 /\ gpu[b].padding \in Nat /\ gpu[b].bytes \in Nat
  BY <1>1, BufferFacts DEF GpuStates, BufferSound
<1>3. LostKept'
  BY <1>1, LostSame DEF UsersInv
<1>4. CASE Acquire(Padding(b), gpu[b].padding) /\ gpu' = [gpu EXCEPT ![b].pc = "ready", ![b].paid = gpu[b].padding]
  <2> DEFINE now == [gpu[b] EXCEPT !.pc = "ready", !.paid = gpu[b].padding]
  <2>1. gpu' = [gpu EXCEPT ![b] = now]
    <3>1. gpu = [c \in Buffers |-> gpu[c]]
      BY DEF UsersInv, UsersTyped
    <3> QED BY <1>2, <1>4, <3>1 DEF GpuStates
  <2>2. /\ now \in GpuStates /\ now.pc = "ready" /\ now.bytes = gpu[b].bytes /\ now.padding = gpu[b].padding
        /\ now.paid = gpu[b].padding
    BY <1>2 DEF GpuStates, BufferSteps
  <2> HIDE DEF now
  <2>3. Charges(Padding(b)) /\ account'[Padding(b)].bytes = account[Padding(b)].bytes + gpu[b].padding
    BY <1>2, <1>4, Names, AcquireCharges DEF UsersInv
  <2>4. account'[Charge(b)] = account[Charge(b)]
    BY <2>3, Names DEF Charges
  <2>5. BufferSound(now) /\ account'[Charge(b)].bytes = BufferCharged(now) /\ account'[Padding(b)].bytes = now.paid
    BY <1>1, <1>2, <2>2, <2>3, <2>4, BufferFacts DEF BufferSound, BufferCharged
  <2>6. declared' = declared - BufferDeclared(gpu[b]) + BufferDeclared(now)
    BY <1>1, <1>2, <2>2, BufferFacts DEF BufferDeclared
  <2> QED BY <1>1, <1>3, <2>1, <2>2, <2>3, <2>5, <2>6, BufferFollows
<1>5. CASE UNCHANGED budget /\ gpu' = [gpu EXCEPT ![b].pc = "destroyed"]
  <2> DEFINE now == [gpu[b] EXCEPT !.pc = "destroyed"]
  <2>1. gpu' = [gpu EXCEPT ![b] = now]
    BY <1>5
  <2>2. /\ now \in GpuStates /\ now.pc = "destroyed" /\ now.bytes = gpu[b].bytes /\ now.padding = gpu[b].padding
        /\ now.paid = gpu[b].paid
    BY <1>2 DEF GpuStates, BufferSteps
  <2> HIDE DEF now
  <2>3. BufferSound(now) /\ BufferCharged(now) = BufferCharged(gpu[b])
    BY <1>1, <2>2 DEF BufferSound, BufferCharged
  <2>4. declared' = declared - BufferDeclared(gpu[b]) + BufferDeclared(now)
    BY <1>1, <1>2, <2>2, BufferFacts DEF BufferDeclared
  <2> QED BY <1>1, <1>3, <1>5, <2>1, <2>2, <2>3, <2>4, BufferQuiet
<1> QED BY <1>4, <1>5 DEF ChargePadding

LEMMA ResetBufferKeeps ==
    ASSUME AccountsAssumption, UsersInv, NEW b \in Buffers, ResetBuffer(b)
    PROVE  UsersInv' /\ [BudgetNext]_budget
<1> DEFINE now == [gpu[b] EXCEPT !.pc = "destroyed"]
<1>1. /\ gpu[b].pc = "ready" /\ gpu' = [gpu EXCEPT ![b] = now]
      /\ leaked' = (IF poisoned THEN leaked + gpu[b].bytes + gpu[b].padding ELSE leaked)
      /\ UNCHANGED <<budget, mu, buf, get, fresh, frame, declared, chunk, poisoned>>
  BY DEF ResetBuffer
<1>2. /\ now \in GpuStates /\ now.pc = "destroyed" /\ now.bytes = gpu[b].bytes /\ now.padding = gpu[b].padding
      /\ now.paid = gpu[b].paid /\ gpu[b].bytes \in Nat /\ gpu[b].padding \in Nat
  BY BufferFacts DEF GpuStates, BufferSteps
<1> HIDE DEF now
<1>3. BufferSound(now) /\ BufferCharged(now) = BufferCharged(gpu[b])
  BY <1>1, <1>2 DEF BufferSound, BufferCharged
<1>4. declared' = declared - BufferDeclared(gpu[b]) + BufferDeclared(now)
  BY <1>1, <1>2, BufferFacts DEF BufferDeclared
<1>5. LostKept'
  BY <1>1, <1>2 DEF UsersInv, LostKept
<1> QED BY <1>1, <1>2, <1>3, <1>4, <1>5, BufferQuiet

LEMMA ReturnChargeKeeps ==
    ASSUME AccountsAssumption, UsersInv, NEW b \in Buffers, ReturnCharge(b)
    PROVE  UsersInv' /\ [BudgetNext]_budget
<1> DEFINE now == [gpu[b] EXCEPT !.pc = "uncharged"]
<1>1. /\ gpu[b].pc = "undeclared" /\ Release(Charge(b), gpu[b].bytes) /\ gpu' = [gpu EXCEPT ![b] = now]
      /\ UNCHANGED <<mu, buf, get, fresh, frame, declared, chunk, lost>>
  BY DEF ReturnCharge
<1>2. /\ now \in GpuStates /\ now.pc = "uncharged" /\ now.paid = gpu[b].paid
      /\ gpu[b].bytes \in Nat /\ account[Charge(b)].bytes = gpu[b].bytes
  BY <1>1, BufferFacts DEF GpuStates, BufferSteps, BufferCharged
<1> HIDE DEF now
<1>3. Charges(Charge(b)) /\ account'[Charge(b)].bytes = account[Charge(b)].bytes - gpu[b].bytes
  BY <1>1, <1>2, Names, ReleaseCharges DEF UsersInv
<1>4. account'[Padding(b)] = account[Padding(b)]
  BY <1>3, Names DEF Charges
<1>5. BufferSound(now) /\ account'[Charge(b)].bytes = BufferCharged(now) /\ account'[Padding(b)].bytes = now.paid
  BY <1>1, <1>2, <1>3, <1>4, BufferFacts DEF BufferSound, BufferCharged
<1>6. declared' = declared - BufferDeclared(gpu[b]) + BufferDeclared(now)
  BY <1>1, <1>2, BufferFacts DEF BufferDeclared
<1>7. LostKept'
  BY <1>1, LostSame DEF UsersInv
<1> QED BY <1>1, <1>2, <1>3, <1>5, <1>6, <1>7, BufferFollows

LEMMA ReturnPaddingKeeps ==
    ASSUME AccountsAssumption, UsersInv, NEW b \in Buffers, ReturnPadding(b)
    PROVE  UsersInv' /\ [BudgetNext]_budget
<1>1. /\ gpu[b].pc = "uncharged" /\ Release(Padding(b), gpu[b].paid) /\ gpu' = [gpu EXCEPT ![b] = NoBuffer]
      /\ UNCHANGED <<mu, buf, get, fresh, frame, declared, chunk, lost>>
  BY DEF ReturnPadding
<1>2. gpu[b].paid \in Nat /\ account[Padding(b)].bytes = gpu[b].paid /\ account[Charge(b)].bytes = 0
  BY <1>1, BufferFacts DEF GpuStates, BufferCharged
<1>3. Charges(Padding(b)) /\ account'[Padding(b)].bytes = account[Padding(b)].bytes - gpu[b].paid
  BY <1>1, <1>2, Names, ReleaseCharges DEF UsersInv
<1>4. account'[Charge(b)] = account[Charge(b)]
  BY <1>3, Names DEF Charges
<1>5. NoBuffer \in GpuStates /\ NoBuffer.pc = "none" /\ NoBuffer.paid = 0 /\ NoBuffer.padding = 0
  BY DEF NoBuffer, GpuStates, BufferSteps
<1>6. BufferSound(NoBuffer) /\ account'[Charge(b)].bytes = BufferCharged(NoBuffer) /\ account'[Padding(b)].bytes = NoBuffer.paid
  BY <1>2, <1>3, <1>4, <1>5 DEF BufferSound, BufferCharged
<1>7. declared' = declared - BufferDeclared(gpu[b]) + BufferDeclared(NoBuffer)
  BY <1>1, <1>5, BufferFacts DEF BufferDeclared
<1>8. LostKept'
  BY <1>1, LostSame DEF UsersInv
<1> QED BY <1>1, <1>3, <1>5, <1>6, <1>7, <1>8, BufferFollows

-----------------------------------------------------------------------------
(* A chunk, and the theorems.                                              *)

LEMMA RetagCharges ==
    ASSUME AccountsAssumption, UsersInv, NEW k \in OwnedKinds, Retag(Chunk, k)
    PROVE  /\ AccountsTyped' /\ [BudgetNext]_budget /\ account'[Chunk].kind \in OwnedKinds
           /\ \A b \in Accounts : account'[b].bytes = account[b].bytes
<1>1. Chunk \in Accounts /\ account[Chunk].kind \in OwnedKinds
  BY Names DEF UsersInv, ChunkKept
<1>2. BudgetNext
  BY <1>1 DEF BudgetNext
<1>3. CASE k = account[Chunk].kind
  BY <1>1, <1>2, <1>3 DEF Retag, UsersInv, AccountsTyped
<1>4. CASE account' = [account EXCEPT ![Chunk].kind = k]
  <2>1. k \in Kinds
    BY DEF OwnedKinds
  <2>2. AccountsTyped'
    BY <1>1, <1>4, <2>1 DEF UsersInv, AccountsTyped
  <2>3. account'[Chunk].kind = k /\ \A b \in Accounts : account'[b].bytes = account[b].bytes
    BY <1>1, <1>4 DEF UsersInv, AccountsTyped
  <2> QED BY <1>2, <2>2, <2>3
<1> QED BY <1>3, <1>4 DEF Retag

LEMMA RenewCharges ==
    ASSUME AccountsAssumption, UsersInv, Renew(Chunk)
    PROVE  /\ AccountsTyped' /\ [BudgetNext]_budget /\ account'[Chunk].kind \in OwnedKinds
           /\ \A b \in Accounts : account'[b].bytes = account[b].bytes
<1>1. Chunk \in Accounts
  BY Names
<1>2. FirstKind[Chunk] = "Inflight"
  <2>1. FirstKind[Chunk] = CASE Chunk = Output -> "Output" [] Chunk = Framework -> "Framework"
                             [] Chunk = Chunk -> "Inflight" [] OTHER -> "Workspace"
    BY <1>1 DEF AccountsAssumption, TheFirstKind
  <2> QED BY <2>1, Names
<1>3. account' = [account EXCEPT ![Chunk].kind = "Inflight"]
  BY <1>2 DEF Renew
<1>4. "Inflight" \in OwnedKinds /\ "Inflight" \in Kinds
  BY DEF OwnedKinds, Kinds
<1>5. AccountsTyped' /\ account'[Chunk].kind = "Inflight" /\ \A b \in Accounts : account'[b].bytes = account[b].bytes
  BY <1>1, <1>3, <1>4 DEF UsersInv, AccountsTyped
<1> QED BY <1>1, <1>4, <1>5 DEF BudgetNext

LEMMA ChunkKeeps ==
    ASSUME AccountsAssumption, UsersInv,
           ComputeChunk \/ CacheChunk \/ EvictChunk \/ FreeChunk \/ NextChunk
    PROVE  UsersInv' /\ [BudgetNext]_budget
<1>1. UNCHANGED <<mu, buf, get, fresh, frame, gpu, declared, lost>> /\ UsersTyped'
  BY DEF UsersInv, UsersTyped, ComputeChunk, CacheChunk, EvictChunk, FreeChunk, NextChunk
<1>2. ChunkBytes \in Nat /\ Chunk \in Accounts
  BY Names DEF AccountsAssumption
<1>3. ASSUME AccountsTyped', [BudgetNext]_budget,
             \A b \in Accounts : b # Chunk => account'[b].bytes = account[b].bytes, ChunkKept'
      PROVE  UsersInv' /\ [BudgetNext]_budget
  <2>1. ScratchKept' /\ FramesKept' /\ BuffersKept' /\ DeclaredKept' /\ LostKept'
    BY <1>1, <1>3, Names, ScratchSame, FramesSame, DeviceSame, LostSame DEF UsersInv
  <2> QED BY <1>1, <1>3, <2>1 DEF UsersInv
<1>4. CASE ComputeChunk
  <2>1. Charges(Chunk) /\ account'[Chunk].bytes = account[Chunk].bytes + ChunkBytes
    BY <1>2, <1>4, AcquireCharges DEF UsersInv, ComputeChunk
  <2>2. ChunkKept'
    BY <1>2, <1>4, <2>1 DEF UsersInv, ChunkKept, ComputeChunk, Charges
  <2> QED BY <1>3, <2>1, <2>2 DEF Charges
<1>5. CASE FreeChunk
  <2>1. account[Chunk].bytes = ChunkBytes /\ Release(Chunk, ChunkBytes) /\ chunk' = "freed"
    BY <1>5 DEF UsersInv, ChunkKept, FreeChunk
  <2>2. Charges(Chunk) /\ account'[Chunk].bytes = account[Chunk].bytes - ChunkBytes
    BY <1>2, <2>1, ReleaseCharges DEF UsersInv
  <2>3. ChunkKept'
    BY <1>2, <2>1, <2>2 DEF UsersInv, ChunkKept, Charges
  <2> QED BY <1>3, <2>2, <2>3 DEF Charges
<1>6. CASE CacheChunk \/ EvictChunk
  <2>1. PICK k \in OwnedKinds : Retag(Chunk, k)
    BY <1>6 DEF CacheChunk, EvictChunk, OwnedKinds, Kinds
  <2>2. /\ AccountsTyped' /\ [BudgetNext]_budget /\ account'[Chunk].kind \in OwnedKinds
        /\ \A b \in Accounts : account'[b].bytes = account[b].bytes
    BY <2>1, RetagCharges
  <2>3. ChunkKept'
    BY <1>2, <1>6, <2>2 DEF UsersInv, ChunkKept, CacheChunk, EvictChunk
  <2> QED BY <1>3, <2>2, <2>3
<1>7. CASE NextChunk
  <2>1. /\ AccountsTyped' /\ [BudgetNext]_budget /\ account'[Chunk].kind \in OwnedKinds
        /\ \A b \in Accounts : account'[b].bytes = account[b].bytes
    BY <1>7, RenewCharges DEF NextChunk
  <2>2. ChunkKept'
    BY <1>2, <1>7, <2>1 DEF UsersInv, ChunkKept, NextChunk
  <2> QED BY <1>3, <2>1, <2>2
<1> QED BY <1>4, <1>5, <1>6, <1>7

LEMMA UsersStep ==
    ASSUME AccountsAssumption, UsersInv, [Next]_vars
    PROVE  UsersInv' /\ [BudgetNext]_budget
<1>1. CASE UNCHANGED vars
  <2>1. Charges(Scratch) /\ account' = account
    BY <1>1, NoCharge DEF vars, UsersInv
  <2>2. UsersTyped'
    BY <1>1 DEF vars, users, UsersInv, UsersTyped
  <2>3. ScratchKept' /\ FramesKept' /\ BuffersKept' /\ DeclaredKept' /\ LostKept' /\ ChunkKept'
    BY <1>1, <2>1, ScratchSame, FramesSame, DeviceSame, LostSame, ChunkSame DEF vars, users, UsersInv
  <2> QED BY <2>1, <2>2, <2>3 DEF UsersInv, Charges
<1>2. CASE WorkspaceNext
  BY <1>2, GetKeeps, ChargeScratchKeeps, AllocateScratchKeeps, AllocateFailsKeeps, SwapScratchKeeps, FreeScratchKeeps
     DEF WorkspaceNext
<1>3. CASE FrameNext
  BY <1>3, FrameKeeps DEF FrameNext
<1>4. CASE BufferNext
  BY <1>4, PoisonKeeps, ChargeBufferKeeps, DeclareBufferKeeps, CreateBufferKeeps, DeclarePaddingKeeps, CreateFailsKeeps,
     ChargePaddingKeeps, ResetBufferKeeps, UndeclareKeeps, ReturnChargeKeeps, ReturnPaddingKeeps DEF BufferNext
<1>5. CASE ChunkNext
  BY <1>5, ChunkKeeps DEF ChunkNext
<1> QED BY <1>1, <1>2, <1>3, <1>4, <1>5 DEF Next

LEMMA UsersInit ==
    ASSUME AccountsAssumption, Init
    PROVE  UsersInv /\ BudgetInit
<1>1. BooksInv /\ BudgetInit
  BY BooksInit DEF Init
<1>2. \A a \in Accounts : account[a].bytes = 0 /\ account[a].kind = FirstKind[a]
  BY <1>1 DEF BudgetInit
<1>3. UsersTyped
  BY DEF Init, UsersTyped, NoBuf, NoBuffer, GpuStates, BufferSteps
<1>4. IsFiniteSet(Threads) /\ IsFiniteSet(Outputs) /\ IsFiniteSet(Inputs) /\ IsFiniteSet(Buffers)
  BY FS_Subset DEF AccountsAssumption
<1>5. \A t \in Threads : Bespoken[t] = 0
  BY DEF Init, Bespoken, NoBuf
<1>6. ScratchKept
  <2>1. SumFunctionOnSet(Bespoken, Threads) = 0
    BY <1>4, <1>5, SumOfNone
  <2>2. \A t \in Threads : get[t].pc = "idle" /\ mu # t /\ fresh[t] = 0
    BY DEF Init, AccountsAssumption, None
  <2> QED BY <1>2, <2>1, <2>2, Names DEF ScratchKept
<1>7. FramesKept
  <2>1. \A f \in Outputs \cup Inputs : HeldBytes[f] = 0
    BY DEF Init, HeldBytes
  <2>2. SumFunctionOnSet(HeldBytes, Outputs) = 0 /\ SumFunctionOnSet(HeldBytes, Inputs) = 0
    BY <1>4, <2>1, SumOfNone
  <2> QED BY <1>2, <2>2, Names DEF FramesKept, InCall, Init
<1>8. BuffersKept
  BY <1>2, Names DEF Init, NoBuffer, BuffersKept, BufferSound, BufferCharged
<1>9. DeclaredKept
  <2>1. \A b \in Buffers : DeclaredBytes[b] = 0
    BY DEF Init, DeclaredBytes, NoBuffer, BufferDeclared
  <2>2. SumFunctionOnSet(DeclaredBytes, Buffers) = 0
    BY <1>4, <2>1, SumOfNone
  <2> QED BY <2>2 DEF DeclaredKept, Init
<1>10. ChunkKept
  <2>1. FirstKind[Chunk] = CASE Chunk = Output -> "Output" [] Chunk = Framework -> "Framework"
                             [] Chunk = Chunk -> "Inflight" [] OTHER -> "Workspace"
    BY Names DEF AccountsAssumption, TheFirstKind
  <2>2. FirstKind[Chunk] = "Inflight"
    BY <2>1, Names
  <2> QED BY <1>2, <2>2, Names DEF ChunkKept, Init, OwnedKinds, Kinds
<1>11. LostKept
  <2>1. leaked = 0
    BY DEF Init
  <2> QED BY <2>1 DEF LostKept
<1> QED BY <1>1, <1>3, <1>6, <1>7, <1>8, <1>9, <1>10, <1>11 DEF UsersInv, BooksInv, BooksTyped

LEMMA ScratchCovered ==
    ASSUME AccountsAssumption, UsersInv
    PROVE  account[Scratch].bytes >= ScratchMemory /\ (mu = None => account[Scratch].bytes = ScratchMemory)
<1> DEFINE had == [t \in Threads |-> (IF buf[t].p THEN BufBytes(buf[t].n) ELSE 0) + fresh[t]]
<1>1. ScratchMemory = SumFunctionOnSet(had, Threads)
  BY DEF ScratchMemory, SumFunction
<1>2. \A t \in Threads : (IF buf[t].p THEN BufBytes(buf[t].n) ELSE 0) \in Nat /\ BufBytes(get[t].floats) \in Nat
  BY BufBytesType DEF UsersInv, UsersTyped
<1>3. had \in [Threads -> Nat] /\ Bespoken \in [Threads -> Nat]
  BY <1>2 DEF Bespoken, UsersInv, UsersTyped
<1>4. \A t \in Threads : had[t] <= Bespoken[t] /\ (mu # t => had[t] = Bespoken[t])
  BY <1>2 DEF Bespoken, UsersInv, ScratchKept
<1>5. account[Scratch].bytes = SumFunctionOnSet(Bespoken, Threads) /\ IsFiniteSet(Threads) /\ mu \in Threads \cup {None}
  BY DEF UsersInv, ScratchKept, UsersTyped, AccountsAssumption
<1> HIDE DEF had, Bespoken
<1>6. SumFunctionOnSet(had, Threads) \in Nat /\ \A t \in Threads : had[t] \in Nat /\ Bespoken[t] \in Nat
  BY <1>3, <1>5, SumType
<1>7. CASE mu = None
  <2>1. \A t \in Threads : had[t] = Bespoken[t]
    BY <1>4, <1>7 DEF AccountsAssumption, None
  <2>2. SumFunctionOnSet(had, Threads) = SumFunctionOnSet(Bespoken, Threads)
    BY <1>5, <2>1, SumSame
  <2> QED BY <1>1, <1>5, <1>6, <2>2
<1>8. CASE mu \in Threads
  <2>1. SumFunctionOnSet(Bespoken, Threads) = SumFunctionOnSet(had, Threads) - had[mu] + Bespoken[mu]
    <3>1. PICK t \in Threads : t = mu
      BY <1>8
    <3>2. \A u \in Threads \ {t} : had[u] = Bespoken[u]
      BY <1>4, <3>1
    <3>3. SumFunctionOnSet(Bespoken, Threads) = SumFunctionOnSet(had, Threads) - had[t] + Bespoken[t]
      BY <1>3, <1>5, <3>2, SumChange
    <3> QED BY <3>1, <3>3
  <2>2. mu # None
    BY <1>8 DEF AccountsAssumption, None
  <2> QED BY <1>1, <1>4, <1>5, <1>6, <1>8, <2>1, <2>2
<1> QED BY <1>5, <1>7, <1>8

LEMMA UsersCover ==
    ASSUME AccountsAssumption, UsersInv
    PROVE  ChargesCoverMemory
<1>1. account[Scratch].bytes >= ScratchMemory /\ (mu = None => account[Scratch].bytes = ScratchMemory)
  BY ScratchCovered
<1>2. account[Output].bytes = ChargedFrames(Outputs) /\ account[Framework].bytes = ChargedFrames(Inputs)
  <2>1. ASSUME NEW S \in SUBSET (Outputs \cup Inputs)
        PROVE  ChargedFrames(S) = SumFunctionOnSet(HeldBytes, S)
    <3> DEFINE w == [f \in S |-> IF frame[f] \in {"charged", "held"} THEN FrameBytes[f] ELSE 0]
    <3>1. ChargedFrames(S) = SumFunctionOnSet(w, S)
      BY DEF ChargedFrames, SumFunction
    <3>2. IsFiniteSet(S) /\ \A f \in S : w[f] = HeldBytes[f]
      BY FS_Subset DEF AccountsAssumption, HeldBytes
    <3> HIDE DEF w
    <3> QED BY <3>1, <3>2, SumSame
  <2>2. Outputs \in SUBSET (Outputs \cup Inputs) /\ Inputs \in SUBSET (Outputs \cup Inputs)
    OBVIOUS
  <2> QED BY <2>1, <2>2 DEF UsersInv, FramesKept
<1>3. declared = SumFunction([b \in Buffers |-> Told(b)])
  <2>1. DeclaredBytes = [b \in Buffers |-> Told(b)]
    BY DEF DeclaredBytes, BufferDeclared, Told
  <2>2. declared = SumFunctionOnSet(DeclaredBytes, Buffers) /\ DOMAIN DeclaredBytes = Buffers
    BY DEF UsersInv, DeclaredKept, DeclaredBytes
  <2> QED BY <2>1, <2>2 DEF SumFunction
<1>4. ASSUME NEW b \in Buffers
      PROVE  LET charged == account[Charge(b)].bytes + account[Padding(b)].bytes
             IN  /\ charged >= BufferMemory(b) - (IF gpu[b].pc \in {"created", "corrected"} THEN gpu[b].padding ELSE 0)
                 /\ gpu[b].pc \in {"none", "ready"} => charged = BufferMemory(b)
  BY BufferFacts DEF BufferMemory, BufferCharged, BufferSound, GpuStates
<1>5. \A f, g \in Outputs \cup Inputs : InCall(f) /\ InCall(g) => f = g
  BY DEF UsersInv, FramesKept
<1>6. leaked > 0 => poisoned
  BY DEF UsersInv, LostKept
<1> QED BY <1>1, <1>2, <1>3, <1>4, <1>5, <1>6 DEF ChargesCoverMemory

LEMMA UsersHold ==
    ASSUME AccountsAssumption
    PROVE  Spec => []UsersInv /\ BudgetSpec
<1>1. Init => UsersInv /\ BudgetInit
  BY UsersInit
<1>2. UsersInv /\ [Next]_vars => UsersInv' /\ [BudgetNext]_budget
  BY UsersStep
<1> QED BY <1>1, <1>2, PTL DEF Spec, BudgetSpec

\* Whatever requests do with a node's scratch, frames, device buffers and
\* cached chunks (Workspace::get, FrameScope, Buffer, retag() in the chunk
\* cache), no account gives back more than it has taken, and only owned kinds
\* are retagged: every step is one the budget's contract allows.
THEOREM AccountsWellUsedHolds ==
    ASSUME AccountsAssumption
    PROVE  Spec => AccountsWellUsed
  BY UsersHold DEF AccountsWellUsed

\* ... so that no size wraps: the books are the sums over the accounts and
\* what is owned stays within the limit (ResourceAccount of resources.hpp).
THEOREM ReckonedHolds ==
    ASSUME AccountsAssumption
    PROVE  Spec => []Reckoned
  BY UsersHold, BudgetReckons

\* The charges follow what workspaces, frames and device buffers have, with the
\* code's gaps and no other: a growing workspace is charged for both buffers, a
\* frame is uncharged at both ends of a call that makes, hands over or frees it
\* (one at most), padding is charged after the allocation, and what a poisoned
\* device leaks is charged to nobody (Workspace::get, FrameScope, Buffer).
THEOREM ChargesCoverHolds ==
    ASSUME AccountsAssumption
    PROVE  Spec => []ChargesCoverMemory
<1>1. UsersInv => ChargesCoverMemory
  BY UsersCover
<1> QED BY <1>1, UsersHold, PTL

-----------------------------------------------------------------------------
(* BM4D's chunk stores (Bm4dChunks, Bm4dInvariant): lists of entries.       *)

StoresOf(c) == {c[i].store : i \in DOMAIN c}

\* What a list of the cache has for elements.
LEMMA ListFacts ==
    ASSUME NEW S, NEW c \in Seq(S)
    PROVE  /\ Len(c) \in Nat /\ DOMAIN c = 1 .. Len(c) /\ c \in [1 .. Len(c) -> S]
           /\ \A i \in DOMAIN c : i \in Nat /\ c[i] \in S
<1>1. Len(c) \in Nat /\ DOMAIN c = 1 .. Len(c) /\ c \in [1 .. Len(c) -> S]
  BY LenProperties
<1>2. \A i \in 1 .. Len(c) : i \in Nat /\ c[i] \in S
  BY <1>1
<1> QED BY <1>1, <1>2

\* A function on 1 .. n is a list of n elements.
LEMMA AList ==
    ASSUME NEW S, NEW n \in Nat, NEW c \in [1 .. n -> S]
    PROVE  c \in Seq(S) /\ Len(c) = n
<1>1. c \in Seq(S)
  BY SeqDef
<1> QED BY <1>1, ListFacts

\* An entry behind a list's front is where it was or one further.
Behind(c, i, e) == <<e>> \o RemoveAt(c, i)

LEMMA MovedInFront ==
    ASSUME NEW S, NEW c \in Seq(S), NEW i \in DOMAIN c, NEW e \in S
    PROVE  /\ Behind(c, i, e) \in Seq(S) /\ DOMAIN Behind(c, i, e) = DOMAIN c
           /\ Behind(c, i, e)[1] = e
           /\ \A k \in DOMAIN c \ {1} : Behind(c, i, e)[k] = IF k <= i THEN c[k - 1] ELSE c[k]
<1> DEFINE a == SubSeq(c, 1, i - 1)
           b == SubSeq(c, i + 1, Len(c))
           head == <<e>>
<1>1. Len(c) \in Nat /\ i \in 1 .. Len(c) /\ DOMAIN c = 1 .. Len(c) /\ \A k \in 1 .. Len(c) : c[k] \in S
  BY ListFacts
<1>2. a \in Seq(S) /\ Len(a) = i - 1 /\ \A k \in 1 .. i - 1 : a[k] = c[k]
  <2>1. 1 \in Int /\ i - 1 \in Int /\ \A k \in 1 .. i - 1 : c[k] \in S
    BY <1>1
  <2>2. /\ a \in Seq(S) /\ Len(a) = IF 1 <= i - 1 THEN i - 1 - 1 + 1 ELSE 0
        /\ \A k \in 1 .. i - 1 - 1 + 1 : a[k] = c[1 + k - 1]
    BY <2>1, SubSeqProperties
  <2> HIDE DEF a
  <2> QED BY <2>2, <1>1
<1>3. b \in Seq(S) /\ Len(b) = Len(c) - i /\ \A k \in 1 .. Len(c) - i : b[k] = c[i + k]
  <2>1. i + 1 \in Int /\ Len(c) \in Int /\ \A k \in i + 1 .. Len(c) : c[k] \in S
    BY <1>1
  <2>2. /\ b \in Seq(S) /\ Len(b) = IF i + 1 <= Len(c) THEN Len(c) - (i + 1) + 1 ELSE 0
        /\ \A k \in 1 .. Len(c) - (i + 1) + 1 : b[k] = c[i + 1 + k - 1]
    BY <2>1, SubSeqProperties
  <2>3. Len(c) - (i + 1) + 1 = Len(c) - i /\ (~(i + 1 <= Len(c)) => Len(c) - i = 0)
    BY <1>1
  <2> HIDE DEF b
  <2>4. Len(b) = Len(c) - i
    BY <2>2, <2>3, <1>1
  <2>5. ASSUME NEW k \in 1 .. Len(c) - i
        PROVE  b[k] = c[i + k]
    <3>1. i + 1 + k - 1 = i + k
      BY <1>1
    <3> QED BY <3>1, <2>2, <2>3
  <2> QED BY <2>2, <2>4, <2>5
<1>4. head \in Seq(S) /\ Len(head) = 1 /\ head[1] = e
  OBVIOUS
<1>5. Behind(c, i, e) = head \o (a \o b)
  BY DEF Behind, RemoveAt
<1> HIDE DEF a, b, head
<1>6. /\ a \o b \in Seq(S) /\ Len(a \o b) = Len(c) - 1
      /\ \A k \in 1 .. Len(c) - 1 : (a \o b)[k] = IF k <= i - 1 THEN a[k] ELSE b[k - (i - 1)]
  <2>1. /\ a \o b \in Seq(S) /\ Len(a \o b) = Len(a) + Len(b)
        /\ \A k \in 1 .. Len(a) + Len(b) : (a \o b)[k] = IF k <= Len(a) THEN a[k] ELSE b[k - Len(a)]
    BY <1>2, <1>3, ConcatProperties
  <2>2. Len(a) + Len(b) = Len(c) - 1
    BY <1>1, <1>2, <1>3
  <2> QED BY <2>1, <2>2, <1>2
<1> DEFINE rest == a \o b
<1>7. rest = a \o b
  OBVIOUS
<1> HIDE DEF rest
<1>8. /\ head \o rest \in Seq(S) /\ Len(head \o rest) = Len(c)
      /\ \A k \in 1 .. Len(c) : (head \o rest)[k] = IF k <= 1 THEN head[k] ELSE rest[k - 1]
  <2>1. /\ head \o rest \in Seq(S) /\ Len(head \o rest) = Len(head) + Len(rest)
        /\ \A k \in 1 .. Len(head) + Len(rest) : (head \o rest)[k] = IF k <= Len(head) THEN head[k] ELSE rest[k - Len(head)]
    BY <1>4, <1>6, <1>7, ConcatProperties
  <2>2. Len(rest) = Len(c) - 1
    BY <1>6, <1>7
  <2>3. Len(head) + Len(rest) = Len(c)
    BY <2>2, <1>1, <1>4
  <2> QED BY <2>1, <2>3, <1>4
<1>9. ASSUME NEW k \in 1 .. Len(c), k # 1
      PROVE  (head \o rest)[k] = IF k <= i THEN c[k - 1] ELSE c[k]
  <2>1. k - 1 \in 1 .. Len(c) - 1 /\ (head \o rest)[k] = rest[k - 1]
    BY <1>9, <1>1, <1>8
  <2>2. CASE k <= i
    <3>1. k - 1 \in 1 .. i - 1 /\ k - 1 <= i - 1
      BY <2>2, <2>1, <1>1
    <3> QED BY <3>1, <2>1, <2>2, <1>2, <1>6, <1>7
  <2>3. CASE ~(k <= i)
    <3>1. k - 1 - (i - 1) \in 1 .. Len(c) - i /\ ~(k - 1 <= i - 1) /\ i + (k - 1 - (i - 1)) = k
      BY <2>3, <2>1, <1>1
    <3>2. rest[k - 1] = b[k - 1 - (i - 1)]
      BY <3>1, <2>1, <1>6, <1>7
    <3> QED BY <3>1, <3>2, <2>1, <2>3, <1>3
  <2> QED BY <2>2, <2>3
<1>10. DOMAIN (head \o rest) = 1 .. Len(c)
  BY <1>8, ListFacts
<1>11. (head \o rest)[1] = e
  BY <1>1, <1>4, <1>8
<1> QED BY <1>1, <1>5, <1>7, <1>8, <1>9, <1>10, <1>11

\* A list that is read, extended, shortened or unread has the entries it had,
\* each once, but for what the operation is about.

\* The entries of d are those of c, entry i read once more.
ReadOf(d, c, i) ==
    \A k \in DOMAIN d : \E j \in DOMAIN c :
        d[k].store = c[j].store /\ d[k].readers = IF j = i THEN c[j].readers + 1 ELSE c[j].readers
\* The entries of d are e and those of c; only those of c.
EntryOr(d, c, e) == \A k \in DOMAIN d : d[k] = e \/ \E j \in DOMAIN c : d[k] = c[j]
EntriesOf(d, c) == \A k \in DOMAIN d : \E j \in DOMAIN c : d[k] = c[j]

ReadAt(c, i) == Behind(c, i, [c[i] EXCEPT !.readers = @ + 1])

\* A list whose entry is read and moved in front: each entry but that one is as
\* before.
LEMMA ReadListed ==
    ASSUME NEW c \in Seq(CacheEntries), Once(c), NEW i \in DOMAIN c,
           NEW d, d = ReadAt(c, i)
    PROVE  /\ d \in Seq(CacheEntries) /\ Once(d) /\ StoresOf(d) = StoresOf(c)
           /\ ReadOf(d, c, i)
<1> DEFINE e == [c[i] EXCEPT !.readers = @ + 1]
           From(k) == IF k = 1 THEN i ELSE IF k <= i THEN k - 1 ELSE k
<1>1. Len(c) \in Nat /\ DOMAIN c = 1 .. Len(c) /\ i \in 1 .. Len(c)
      /\ \A k \in 1 .. Len(c) : c[k] \in CacheEntries
  BY ListFacts
<1>2. e \in CacheEntries /\ e.store = c[i].store /\ e.readers = c[i].readers + 1
  BY <1>1 DEF CacheEntries
<1> HIDE DEF e
<1>3. /\ d \in Seq(CacheEntries) /\ DOMAIN d = 1 .. Len(c) /\ d[1] = e
      /\ \A k \in 1 .. Len(c) \ {1} : d[k] = IF k <= i THEN c[k - 1] ELSE c[k]
  <2>1. d = Behind(c, i, e)
    BY DEF e, ReadAt
  <2>2. /\ Behind(c, i, e) \in Seq(CacheEntries) /\ DOMAIN Behind(c, i, e) = DOMAIN c
        /\ Behind(c, i, e)[1] = e
        /\ \A k \in DOMAIN c \ {1} : Behind(c, i, e)[k] = IF k <= i THEN c[k - 1] ELSE c[k]
    BY <1>2, MovedInFront
  <2> QED BY <2>1, <2>2, <1>1
<1>4. ASSUME NEW k \in 1 .. Len(c)
      PROVE  /\ From(k) \in 1 .. Len(c) /\ d[k].store = c[From(k)].store
             /\ d[k].readers = IF From(k) = i THEN c[From(k)].readers + 1 ELSE c[From(k)].readers
  <2>1. CASE k = 1
    BY <2>1, <1>1, <1>2, <1>3
  <2>2. CASE k # 1
    <3>1. From(k) \in 1 .. Len(c) /\ From(k) # i /\ d[k] = c[From(k)]
      BY <2>2, <1>1, <1>3
    <3> QED BY <3>1
  <2> QED BY <2>1, <2>2
<1>5. \A j, k \in 1 .. Len(c) : From(j) = From(k) => j = k
  BY <1>1
<1>6. ASSUME NEW j \in 1 .. Len(c)
      PROVE  \E k \in 1 .. Len(c) : From(k) = j
  <2>1. CASE j = i
    BY <2>1, <1>1
  <2>2. CASE j < i
    <3>1. j + 1 \in 1 .. Len(c) /\ From(j + 1) = j
      BY <2>2, <1>1
    <3> QED BY <3>1
  <2>3. CASE j > i
    <3>1. From(j) = j
      BY <2>3, <1>1
    <3> QED BY <3>1
  <2> QED BY <2>1, <2>2, <2>3, <1>1
<1> HIDE DEF From
<1>7. Once(d)
  <2> SUFFICES ASSUME NEW j \in 1 .. Len(c), NEW k \in 1 .. Len(c), d[j].store = d[k].store
               PROVE  j = k
    BY <1>3 DEF Once
  <2>1. /\ From(j) \in DOMAIN c /\ From(k) \in DOMAIN c
        /\ c[From(j)].store = c[From(k)].store
    BY <1>1, <1>4
  <2>2. From(j) = From(k)
    BY <2>1 DEF Once
  <2> QED BY <2>2, <1>5
<1>8. StoresOf(d) = StoresOf(c)
  <2>1. \A k \in 1 .. Len(c) : d[k].store \in StoresOf(c)
    BY <1>1, <1>4 DEF StoresOf
  <2>2. ASSUME NEW j \in 1 .. Len(c)
        PROVE  c[j].store \in StoresOf(d)
    <3>1. PICK k \in 1 .. Len(c) : From(k) = j
      BY <1>6
    <3>2. k \in DOMAIN d /\ d[k].store = c[j].store
      BY <3>1, <1>3, <1>4
    <3> QED BY <3>2 DEF StoresOf
  <2> QED BY <2>1, <2>2, <1>1, <1>3 DEF StoresOf
<1>9. ASSUME NEW k \in DOMAIN d
      PROVE  \E j \in DOMAIN c :
                 /\ d[k].store = c[j].store
                 /\ d[k].readers = IF j = i THEN c[j].readers + 1 ELSE c[j].readers
  <2>1. k \in 1 .. Len(c)
    BY <1>3
  <2>2. From(k) \in DOMAIN c
    BY <2>1, <1>1, <1>4
  <2> QED BY <2>1, <2>2, <1>4
<1> QED BY <1>3, <1>7, <1>8, <1>9 DEF ReadOf

Pushed(c, e) == <<e>> \o c

\* A list with a new entry in front.
LEMMA PushedListed ==
    ASSUME NEW c \in Seq(CacheEntries), Once(c), NEW e \in CacheEntries, e.store \notin StoresOf(c),
           NEW d, d = Pushed(c, e)
    PROVE  /\ d \in Seq(CacheEntries) /\ Once(d) /\ StoresOf(d) = StoresOf(c) \cup {e.store}
           /\ EntryOr(d, c, e)
<1> DEFINE head == <<e>>
<1>1. Len(c) \in Nat /\ DOMAIN c = 1 .. Len(c) /\ \A k \in 1 .. Len(c) : c[k] \in CacheEntries
  BY ListFacts
<1>2. head \in Seq(CacheEntries) /\ Len(head) = 1 /\ head[1] = e /\ d = head \o c
  BY DEF Pushed
<1> HIDE DEF head
<1>3. /\ d \in Seq(CacheEntries) /\ Len(d) = 1 + Len(c)
      /\ \A k \in 1 .. 1 + Len(c) : d[k] = IF k <= 1 THEN head[k] ELSE c[k - 1]
  <2>1. /\ d \in Seq(CacheEntries) /\ Len(d) = Len(head) + Len(c)
        /\ \A k \in 1 .. Len(head) + Len(c) : d[k] = IF k <= Len(head) THEN head[k] ELSE c[k - Len(head)]
    <3>1. /\ head \o c \in Seq(CacheEntries) /\ Len(head \o c) = Len(head) + Len(c)
          /\ \A k \in 1 .. Len(head) + Len(c) : (head \o c)[k] = IF k <= Len(head) THEN head[k] ELSE c[k - Len(head)]
      BY <1>2, ConcatProperties
    <3> QED BY <3>1, <1>2
  <2> QED BY <2>1, <1>2
<1>4. DOMAIN d = 1 .. 1 + Len(c)
  BY <1>3, ListFacts
<1>5. d[1] = e
  BY <1>1, <1>2, <1>3
<1>6. \A k \in 1 .. 1 + Len(c) : k # 1 => k - 1 \in 1 .. Len(c) /\ d[k] = c[k - 1]
  BY <1>1, <1>3
<1>7. \A j \in 1 .. Len(c) : j + 1 \in 1 .. 1 + Len(c) /\ d[j + 1] = c[j]
  <2> SUFFICES ASSUME NEW j \in 1 .. Len(c) PROVE j + 1 \in 1 .. 1 + Len(c) /\ d[j + 1] = c[j]
    OBVIOUS
  <2>1. j + 1 \in 1 .. 1 + Len(c) /\ j + 1 # 1 /\ j + 1 - 1 = j
    BY <1>1
  <2> QED BY <2>1, <1>6
<1>8. Once(d)
  <2> SUFFICES ASSUME NEW j \in 1 .. 1 + Len(c), NEW k \in 1 .. 1 + Len(c), d[j].store = d[k].store
               PROVE  j = k
    BY <1>4 DEF Once
  <2>1. \A l \in 1 .. Len(c) : c[l].store # e.store
    BY <1>1 DEF StoresOf
  <2>2. CASE j = 1 \/ k = 1
    BY <2>1, <2>2, <1>5, <1>6
  <2>3. CASE j # 1 /\ k # 1
    <3>1. c[j - 1].store = c[k - 1].store
      BY <2>3, <1>6
    <3>2. j - 1 = k - 1
      BY <2>3, <3>1, <1>1, <1>6 DEF Once
    <3> QED BY <3>2
  <2> QED BY <2>2, <2>3
<1>9. StoresOf(d) = StoresOf(c) \cup {e.store}
  <2>1. \A k \in 1 .. 1 + Len(c) : d[k].store \in StoresOf(c) \cup {e.store}
    BY <1>1, <1>5, <1>6 DEF StoresOf
  <2>2. \A j \in 1 .. Len(c) : c[j].store \in StoresOf(d)
    BY <1>4, <1>7 DEF StoresOf
  <2>3. e.store \in StoresOf(d)
    <3>1. 1 \in DOMAIN d
      BY <1>1, <1>4
    <3> QED BY <3>1, <1>5 DEF StoresOf
  <2> QED BY <2>1, <2>2, <2>3, <1>1, <1>4 DEF StoresOf
<1>10. \A k \in DOMAIN d : d[k] = e \/ \E j \in DOMAIN c : d[k] = c[j]
  BY <1>1, <1>4, <1>5, <1>6
<1> QED BY <1>3, <1>8, <1>9, <1>10 DEF EntryOr

\* The place of a number in a set of them.
Rank(S, i) == Cardinality({j \in S : j <= i})

LEMMA Ranked ==
    ASSUME NEW S \in SUBSET Nat, IsFiniteSet(S)
    PROVE  /\ \A i \in S : Rank(S, i) \in 1 .. Cardinality(S)
           /\ \A i, j \in S : Rank(S, i) = Rank(S, j) => i = j
           /\ \A n \in 1 .. Cardinality(S) : \E i \in S : Rank(S, i) = n
<1> DEFINE upTo(i) == {j \in S : j <= i}
           f == [i \in S |-> Rank(S, i)]
           all == 1 .. Cardinality(S)
<1>1. Cardinality(S) \in Nat
  BY FS_CardinalityType
<1>2. ASSUME NEW i \in S
      PROVE  Rank(S, i) \in 1 .. Cardinality(S)
  <2>1. IsFiniteSet(upTo(i)) /\ Cardinality(upTo(i)) \in Nat /\ Cardinality(upTo(i)) <= Cardinality(S)
    BY FS_Subset, FS_CardinalityType
  <2>2. upTo(i) # {}
    OBVIOUS
  <2>3. Cardinality(upTo(i)) # 0
    BY <2>1, <2>2, FS_EmptySet
  <2> QED BY <2>1, <2>3, <1>1 DEF Rank
<1>3. ASSUME NEW i \in S, NEW j \in S, i < j
      PROVE  Rank(S, i) # Rank(S, j)
  <2>1. IsFiniteSet(upTo(j))
    BY FS_Subset
  <2>4. upTo(i) \in SUBSET upTo(j)
    <3>1. \A k \in S : k <= i => k <= j
      BY <1>3
    <3> QED BY <3>1
  <2>2. upTo(i) # upTo(j)
    <3>1. j \in upTo(j) /\ j \notin upTo(i)
      BY <1>3
    <3> QED BY <3>1
  <2> HIDE DEF upTo
  <2>3. Cardinality(upTo(i)) # Cardinality(upTo(j))
    BY <2>1, <2>2, <2>4, FS_Subset
  <2> QED BY <2>3 DEF Rank, upTo
<1>4. \A i, j \in S : Rank(S, i) = Rank(S, j) => i = j
  <2> SUFFICES ASSUME NEW i \in S, NEW j \in S, i # j PROVE Rank(S, i) # Rank(S, j)
    OBVIOUS
  <2>1. i < j \/ j < i
    OBVIOUS
  <2> QED BY <2>1, <1>3
<1>5. f \in Injection(S, all)
  BY <1>2, <1>4 DEF Injection, IsInjective
<1>6. IsFiniteSet(all) /\ Cardinality(all) = Cardinality(S)
  BY <1>1, FS_Interval
<1>7. f \in Surjection(S, all)
  BY <1>5, <1>6, FS_Injection
<1>8. ASSUME NEW n \in all
      PROVE  \E i \in S : Rank(S, i) = n
  <2>1. PICK i \in S : f[i] = n
    BY <1>7 DEF Surjection
  <2> QED BY <2>1
<1> QED BY <1>2, <1>4, <1>8

LeftAt(c, gone) == {i \in DOMAIN c : c[i].store \notin gone}
LeftOf(c, gone) ==
    [n \in 1 .. Cardinality(LeftAt(c, gone)) |-> c[CHOOSE i \in LeftAt(c, gone) : Rank(LeftAt(c, gone), i) = n]]

\* A list without the entries of some stores has the others, once each.
LEMMA ShortenedListed ==
    ASSUME NEW c \in Seq(CacheEntries), Once(c), NEW gone, NEW d, d = LeftOf(c, gone)
    PROVE  /\ d \in Seq(CacheEntries) /\ Once(d) /\ StoresOf(d) = StoresOf(c) \ gone
           /\ EntriesOf(d, c)
<1> DEFINE left == LeftAt(c, gone)
           From(n) == CHOOSE i \in left : Rank(left, i) = n
<1>1. Len(c) \in Nat /\ DOMAIN c = 1 .. Len(c) /\ \A k \in 1 .. Len(c) : c[k] \in CacheEntries
  BY ListFacts
<1>2. left \in SUBSET Nat /\ left \in SUBSET (1 .. Len(c)) /\ \A i \in 1 .. Len(c) : i \in left <=> c[i].store \notin gone
  BY <1>1 DEF LeftAt
<1>3. IsFiniteSet(left) /\ Cardinality(left) \in Nat
  <2>1. IsFiniteSet(1 .. Len(c))
    BY <1>1, FS_Interval
  <2> HIDE DEF left
  <2>2. IsFiniteSet(left)
    BY <2>1, <1>2, FS_Subset
  <2> QED BY <2>2, FS_CardinalityType
<1>4. d = [n \in 1 .. Cardinality(left) |-> c[From(n)]]
  BY DEF LeftOf
<1> HIDE DEF left
<1>5. /\ \A i \in left : Rank(left, i) \in 1 .. Cardinality(left)
      /\ \A i, j \in left : Rank(left, i) = Rank(left, j) => i = j
      /\ \A n \in 1 .. Cardinality(left) : \E i \in left : Rank(left, i) = n
  BY <1>2, <1>3, Ranked
<1>6. \A n \in 1 .. Cardinality(left) : From(n) \in left /\ Rank(left, From(n)) = n
  BY <1>5
<1>7. \A i \in left : From(Rank(left, i)) = i
  BY <1>5, <1>6
<1> HIDE DEF From
<1>8. d \in [1 .. Cardinality(left) -> CacheEntries] /\ \A n \in 1 .. Cardinality(left) : d[n] = c[From(n)]
  BY <1>1, <1>2, <1>4, <1>6
<1>9. d \in Seq(CacheEntries) /\ DOMAIN d = 1 .. Cardinality(left)
  BY <1>3, <1>8, AList
<1>10. Once(d)
  <2> SUFFICES ASSUME NEW j \in 1 .. Cardinality(left), NEW k \in 1 .. Cardinality(left), d[j].store = d[k].store
               PROVE  j = k
    BY <1>9 DEF Once
  <2>1. From(j) \in DOMAIN c /\ From(k) \in DOMAIN c /\ c[From(j)].store = c[From(k)].store
    BY <1>1, <1>2, <1>6, <1>8
  <2>2. From(j) = From(k)
    BY <2>1 DEF Once
  <2> QED BY <2>2, <1>6
<1>11. StoresOf(d) = StoresOf(c) \ gone
  <2>1. ASSUME NEW k \in 1 .. Cardinality(left)
        PROVE  d[k].store \in StoresOf(c) \ gone
    <3>1. From(k) \in DOMAIN c /\ c[From(k)].store \notin gone /\ d[k] = c[From(k)]
      BY <1>1, <1>2, <1>6, <1>8
    <3> QED BY <3>1 DEF StoresOf
  <2>2. ASSUME NEW i \in 1 .. Len(c), c[i].store \notin gone
        PROVE  c[i].store \in StoresOf(d)
    <3>1. i \in left
      BY <2>2, <1>2
    <3>2. Rank(left, i) \in DOMAIN d /\ d[Rank(left, i)] = c[i]
      BY <3>1, <1>5, <1>7, <1>8, <1>9
    <3> QED BY <3>2 DEF StoresOf
  <2> QED BY <2>1, <2>2, <1>1, <1>9 DEF StoresOf
<1>12. ASSUME NEW k \in DOMAIN d
        PROVE  \E j \in DOMAIN c : d[k] = c[j]
  <2>1. From(k) \in DOMAIN c /\ d[k] = c[From(k)]
    BY <1>1, <1>2, <1>6, <1>8, <1>9
  <2> QED BY <2>1
<1> QED BY <1>9, <1>10, <1>11, <1>12 DEF EntriesOf

\* The entries of d are those of c, those at M read once less.
UnreadOf(d, c, M) ==
    \A k \in DOMAIN d : /\ k \in DOMAIN c /\ d[k].store = c[k].store
                        /\ d[k].readers = IF k \in M THEN c[k].readers - 1 ELSE c[k].readers

UnreadAt(c, M) == [i \in DOMAIN c |-> IF i \in M THEN [c[i] EXCEPT !.readers = @ - 1] ELSE c[i]]

\* A list whose readers are counted down at some entries.
LEMMA UnreadListed ==
    ASSUME NEW c \in Seq(CacheEntries), Once(c), NEW M,
           NEW d, d = UnreadAt(c, M)
    PROVE  /\ d \in Seq(CacheEntries) /\ Once(d) /\ StoresOf(d) = StoresOf(c) /\ DOMAIN d = DOMAIN c
           /\ UnreadOf(d, c, M)
<1>1. Len(c) \in Nat /\ DOMAIN c = 1 .. Len(c) /\ \A k \in 1 .. Len(c) : c[k] \in CacheEntries
  BY ListFacts
<1>2. ASSUME NEW k \in 1 .. Len(c)
      PROVE  /\ d[k] \in CacheEntries /\ d[k].store = c[k].store
             /\ d[k].readers = IF k \in M THEN c[k].readers - 1 ELSE c[k].readers
  <2>1. c[k] \in CacheEntries /\ d[k] = IF k \in M THEN [c[k] EXCEPT !.readers = @ - 1] ELSE c[k]
    BY <1>1 DEF UnreadAt
  <2>2. CASE k \in M
    <3>1. d[k] = [c[k] EXCEPT !.readers = @ - 1]
      BY <2>1, <2>2
    <3> QED BY <2>1, <2>2, <3>1 DEF CacheEntries
  <2>3. CASE k \notin M
    <3>1. d[k] = c[k]
      BY <2>1, <2>3
    <3> QED BY <2>1, <2>3, <3>1
  <2> QED BY <2>2, <2>3
<1>3. DOMAIN d = 1 .. Len(c)
  BY <1>1 DEF UnreadAt
<1>4. d \in [1 .. Len(c) -> CacheEntries]
  BY <1>1, <1>2 DEF UnreadAt
<1>5. d \in Seq(CacheEntries)
  BY <1>1, <1>4, AList
<1>6. Once(d)
  BY <1>1, <1>2, <1>3 DEF Once
<1>7. StoresOf(d) = StoresOf(c)
  BY <1>1, <1>2, <1>3 DEF StoresOf
<1> QED BY <1>1, <1>2, <1>3, <1>5, <1>6, <1>7 DEF UnreadOf

\* The stores of a list are finitely many.
LEMMA StoresInList ==
    ASSUME NEW c \in Seq(CacheEntries), Once(c)
    PROVE  IsFiniteSet(StoresOf(c)) /\ Cardinality(StoresOf(c)) = Len(c)
<1> DEFINE f == [i \in 1 .. Len(c) |-> c[i].store]
<1>1. Len(c) \in Nat /\ DOMAIN c = 1 .. Len(c)
  BY ListFacts
<1>2. f \in Bijection(1 .. Len(c), StoresOf(c))
  <2>1. f \in [1 .. Len(c) -> StoresOf(c)]
    BY <1>1 DEF StoresOf
  <2>2. \A i, j \in 1 .. Len(c) : f[i] = f[j] => i = j
    BY <1>1 DEF Once
  <2>3. \A s \in StoresOf(c) : \E i \in 1 .. Len(c) : f[i] = s
    BY <1>1 DEF StoresOf
  <2> QED BY <2>1, <2>2, <2>3 DEF Bijection, Injection, IsInjective, Surjection
<1>3. ExistsBijection(1 .. Len(c), StoresOf(c))
  BY <1>2 DEF ExistsBijection
<1>4. IsFiniteSet(1 .. Len(c)) /\ Cardinality(1 .. Len(c)) = Len(c)
  BY <1>1, FS_Interval
<1> QED BY <1>3, <1>4, FS_Bijection

-----------------------------------------------------------------------------
(* What the parts of the invariant look at.                                *)

\* The invariant has these parts.
LEMMA ClipParts ==
    ASSUME ClipInv
    PROVE  /\ ClipTyped /\ ClaimsKept /\ CacheKept /\ HoldsKept /\ HitsKept /\ SlotsKept /\ DataKept
           /\ ReservedKept /\ PermitsKept /\ RoomKept
  BY DEF ClipInv

\* The constants, as the proofs use them.
LEMMA ActorSets ==
    ASSUME Bm4dAssumption
    PROVE  /\ Callers \cap Helpers = {} /\ IsFiniteSet(Callers) /\ IsFiniteSet(Helpers) /\ IsFiniteSet(Actors)
           /\ IsFiniteSet(Stores) /\ Stores \subseteq Nat \ {0} /\ NoStore \notin Stores
           /\ Callers \subseteq Actors /\ Helpers \subseteq Actors /\ \A a \in Actors : a \in Callers \/ a \in Helpers
           /\ CacheLimit \in Nat \ {0} /\ Computers \in Nat \ {0} /\ Copiers \in Nat \ {0}
<1>1. Callers \cap Helpers = {} /\ IsFiniteSet(Callers) /\ IsFiniteSet(Helpers)
      /\ IsFiniteSet(Stores) /\ Stores \subseteq Nat \ {0}
      /\ CacheLimit \in Nat \ {0} /\ Computers \in Nat \ {0} /\ Copiers \in Nat \ {0}
  BY DEF Bm4dAssumption
<1>2. IsFiniteSet(Actors)
  BY <1>1, FS_Union DEF Actors
<1>3. NoStore \notin Stores
  BY <1>1 DEF NoStore
<1> QED BY <1>1, <1>2, <1>3 DEF Actors

\* Sets of stores and of actors are finite.
LEMMA SetsFinite ==
    ASSUME Bm4dAssumption, ClipTyped
    PROVE  /\ CachedStores \subseteq Stores /\ HeldStores \subseteq Stores /\ LiveStores \subseteq Stores
           /\ IsFiniteSet(CachedStores) /\ IsFiniteSet(LiveStores)
           /\ Evicting \subseteq Actors /\ Prefetchers \subseteq Actors /\ IsFiniteSet(Evicting) /\ IsFiniteSet(Prefetchers)
           /\ InTheWay \subseteq LiveStores /\ IsFiniteSet(InTheWay)
           /\ IsFiniteSet(computers) /\ IsFiniteSet(permits)
<1>1. CachedStores \subseteq Stores
  <2>1. \A i \in DOMAIN cache : cache[i] \in CacheEntries
    BY ListFacts DEF ClipTyped
  <2> QED BY <2>1 DEF CachedStores, CacheEntries
<1>2. HeldStores \subseteq Stores
  BY DEF HeldStores, ClipTyped
<1>3. LiveStores \subseteq Stores
  BY <1>1, <1>2 DEF LiveStores, ClipTyped
<1>4. IsFiniteSet(Stores) /\ IsFiniteSet(Actors) /\ IsFiniteSet(Callers)
  BY ActorSets
<1>5. IsFiniteSet(CachedStores) /\ IsFiniteSet(LiveStores)
  BY <1>1, <1>3, <1>4, FS_Subset
<1>6. Evicting \subseteq Actors /\ Prefetchers \subseteq Actors
  BY DEF Evicting, Prefetchers, Actors
<1>7. IsFiniteSet(Evicting) /\ IsFiniteSet(Prefetchers)
  BY <1>4, <1>6, FS_Subset
<1>8. IsFiniteSet(computers) /\ IsFiniteSet(permits)
  <2>1. computers \subseteq Callers /\ permits \subseteq Callers
    BY DEF ClipTyped
  <2> QED BY <2>1, <1>4, FS_Subset
<1>9. InTheWay \subseteq LiveStores
  <2>1. \A a \in Evicting : held[a] # NoStore => held[a] \in HeldStores
    BY DEF Evicting, HeldStores
  <2> QED BY <2>1 DEF InTheWay, LiveStores
<1>10. IsFiniteSet(InTheWay)
  BY <1>5, <1>9, FS_Subset
<1> QED BY <1>1, <1>2, <1>3, <1>5, <1>6, <1>7, <1>8, <1>9, <1>10

\* ... and stay so.
LEMMA SetsStayFinite ==
    ASSUME Bm4dAssumption, ClipTyped'
    PROVE  /\ CachedStores' \subseteq Stores /\ HeldStores' \subseteq Stores /\ LiveStores' \subseteq Stores
           /\ IsFiniteSet(CachedStores') /\ IsFiniteSet(LiveStores')
           /\ Evicting' \subseteq Actors /\ Prefetchers' \subseteq Actors /\ IsFiniteSet(Evicting') /\ IsFiniteSet(Prefetchers')
           /\ InTheWay' \subseteq LiveStores' /\ IsFiniteSet(InTheWay')
           /\ IsFiniteSet(computers') /\ IsFiniteSet(permits')
<1>1. CachedStores' \subseteq Stores
  <2>1. \A i \in DOMAIN cache' : cache'[i] \in CacheEntries
    BY ListFacts DEF ClipTyped
  <2> QED BY <2>1 DEF CachedStores, CacheEntries
<1>2. HeldStores' \subseteq Stores
  BY DEF HeldStores, ClipTyped, Actors
<1>3. LiveStores' \subseteq Stores
  BY <1>1, <1>2 DEF LiveStores, ClipTyped
<1>4. IsFiniteSet(Stores) /\ IsFiniteSet(Actors) /\ IsFiniteSet(Callers)
  BY ActorSets
<1>5. IsFiniteSet(CachedStores') /\ IsFiniteSet(LiveStores')
  BY <1>1, <1>3, <1>4, FS_Subset
<1>6. Evicting' \subseteq Actors /\ Prefetchers' \subseteq Actors
  BY DEF Evicting, Prefetchers, Actors
<1>7. IsFiniteSet(Evicting') /\ IsFiniteSet(Prefetchers')
  BY <1>4, <1>6, FS_Subset
<1>8. IsFiniteSet(computers') /\ IsFiniteSet(permits')
  <2>1. computers' \subseteq Callers /\ permits' \subseteq Callers
    BY DEF ClipTyped
  <2> QED BY <2>1, <1>4, FS_Subset
<1>9. InTheWay' \subseteq LiveStores'
  <2>1. \A a \in Evicting' : held'[a] # NoStore => held'[a] \in HeldStores'
    BY DEF Evicting, HeldStores
  <2> QED BY <2>1 DEF InTheWay, LiveStores
<1>10. IsFiniteSet(InTheWay')
  BY <1>5, <1>9, FS_Subset
<1> QED BY <1>1, <1>2, <1>3, <1>5, <1>6, <1>7, <1>8, <1>9, <1>10

\* A chunk has one of two slots.
LEMMA ParityOf ==
    ASSUME NEW c \in Nat
    PROVE  Parity(c) \in {0, 1}
  BY DEF Parity

-----------------------------------------------------------------------------
(* BM4D's stores and prefetch threads.                                     *)

\* The steps of two actors, or about a certain entry or store.
LaunchOn(t, h) ==
    /\ At(t, "launch") /\ At(h, "out")
    /\ at' = [at EXCEPT ![t] = "look", ![h] = "store"]
    /\ job' = [job EXCEPT ![t] = NoChunk, ![h] = job[t]]
    /\ UNCHANGED <<fixedVars, sharedVars, running, deviceVars, want, plane, held, permitVars,
                   asked>>

HitOf(t, i) ==
    /\ At(t, "look") /\ i \in CachedAt(want[t])
    /\ cache' = ReadAt(cache, i)
    /\ held' = [held EXCEPT ![t] = cache[i].store]
    /\ MoveTo(t, "output")
    /\ UNCHANGED <<fixedVars, computing, spare, prefetching, running, deviceVars, want, job, plane,
                   permitVars, asked>>

StoreTaken(a, s) ==
    /\ At(a, "store")
    /\ s \in IF spare # {} THEN spare ELSE {Least(Stores \ LiveStores)}
    /\ spare' = spare \ {s}
    /\ held' = [held EXCEPT ![a] = s]
    /\ store' = [store EXCEPT ![s] = [first |-> job[a], planes |-> {}]]
    /\ MoveTo(a, "slot")
    /\ UNCHANGED <<fixedVars, cache, computing, prefetching, running, storageVars, want, job,
                   plane, permitVars, asked>>

\* As many stores as actors at most.
LEMMA HeldImage ==
    ASSUME NEW S, IsFiniteSet(S), NEW f
    PROVE  IsFiniteSet({f[b] : b \in S}) /\ Cardinality({f[b] : b \in S}) <= Cardinality(S)
<1> DEFINE g == [b \in S |-> f[b]]
<1>1. g \in Surjection(S, {f[b] : b \in S})
  BY DEF Surjection
<1> QED BY <1>1, FS_Surjection

\* The stores in use stay as many as the memory plan counts while none is added.
LEMMA LiveLess ==
    ASSUME Bm4dAssumption, ClipTyped, RoomKept, LiveStores' \subseteq LiveStores
    PROVE  StoresCounted'
<1>1. IsFiniteSet(LiveStores)
  BY SetsFinite
<1>2. IsFiniteSet(LiveStores') /\ Cardinality(LiveStores') <= Cardinality(LiveStores)
  BY <1>1, FS_Subset
<1>3. Cardinality(LiveStores) \in Nat /\ Cardinality(LiveStores') \in Nat /\ Cardinality(Helpers) \in Nat
  BY <1>1, <1>2, ActorSets, FS_CardinalityType
<1> QED BY <1>2, <1>3, ActorSets DEF RoomKept, StoresCounted

\* An actor that is to take a store, and no spare one: fewer are in use than
\* the memory plan counts.
LEMMA RoomForStore ==
    ASSUME Bm4dAssumption, ClipInv, NEW a \in Actors, at[a] = "store", spare = {}
    PROVE  Cardinality(LiveStores) < CacheLimit + Cardinality(Helpers) + Computers
<1> DEFINE Fillers == Helpers \cup computers
           Others == {b \in Actors : held[b] # NoStore /\ b \notin Evicting /\ b \in Fillers}
           theirs == {held[b] : b \in Others}
<1>0. /\ ClipTyped /\ ClaimsKept /\ HoldsKept /\ HitsKept /\ PermitsKept /\ RoomKept
  BY ClipParts
<1>1. LiveStores \subseteq InTheWay \cup theirs
  <2>1. ASSUME NEW b \in Actors, held[b] # NoStore
        PROVE  held[b] \in InTheWay \cup theirs
    <3>1. CASE b \in Fillers
      <4>1. b \in Evicting => held[b] \in InTheWay
        BY <2>1 DEF InTheWay
      <4>2. b \notin Evicting => held[b] \in theirs
        BY <2>1, <3>1
      <4> QED BY <4>1, <4>2
    <3>2. CASE b \notin Fillers
      <4>1. b \in Callers /\ at[b] \in Copying /\ IsHit(b)
        BY <2>1, <3>2, <1>0, ActorSets DEF HoldsKept, HoldRight, ClaimsKept, ClaimRight, IsHit,
           Filling
      <4>2. held[b] \in CachedStores
        BY <4>1, <1>0 DEF HitsKept, HitRight, Copying
      <4> QED BY <4>2 DEF InTheWay
    <3> QED BY <3>1, <3>2
  <2>2. HeldStores \subseteq InTheWay \cup theirs
    BY <2>1 DEF HeldStores
  <2> HIDE DEF theirs
  <2> QED BY <2>2 DEF LiveStores, InTheWay
<1>2. /\ IsFiniteSet(Fillers \ {a}) /\ IsFiniteSet(Evicting) /\ IsFiniteSet(InTheWay) /\ IsFiniteSet(LiveStores)
      /\ Cardinality(Fillers \ {a}) <= Cardinality(Helpers) + Computers - 1
  <2>1. IsFiniteSet(Helpers) /\ IsFiniteSet(computers) /\ Helpers \cap computers = {}
    BY <1>0, ActorSets, SetsFinite DEF ClipTyped
  <2>2. IsFiniteSet(Fillers) /\ Cardinality(Fillers) = Cardinality(Helpers) + Cardinality(computers) - Cardinality(Helpers \cap computers)
    BY <2>1, FS_Union
  <2>3. Cardinality(Helpers \cap computers) = 0 /\ Cardinality(Helpers) \in Nat /\ Cardinality(computers) \in Nat
    BY <2>1, FS_EmptySet, FS_CardinalityType
  <2>4. a \in Fillers
    BY <1>0, ActorSets DEF ClaimsKept, ClaimRight, Computes
  <2> HIDE DEF Fillers
  <2>5. IsFiniteSet(Fillers \ {a}) /\ Cardinality(Fillers \ {a}) = Cardinality(Fillers) - 1
    BY <2>2, <2>4, FS_RemoveElement
  <2> QED BY <2>2, <2>3, <2>5, <1>0, SetsFinite, ActorSets DEF PermitsKept
<1>3. Others \cup Evicting \subseteq Fillers \ {a} /\ Others \cap Evicting = {}
  <2>1. a \notin Others /\ a \notin Evicting
    BY <1>0, ActorSets DEF HoldsKept, HoldRight, Evicting, At, Filling, Copying
  <2>2. Evicting \subseteq Fillers
    BY <1>0, ActorSets DEF HoldsKept, HoldRight, Evicting, At
  <2> QED BY <2>1, <2>2
<1> HIDE DEF Fillers
<1>4. IsFiniteSet(Others) /\ Cardinality(Others) + Cardinality(Evicting) <= Cardinality(Fillers \ {a})
  <2> HIDE DEF Others
  <2>1. IsFiniteSet(Others) /\ IsFiniteSet(Others \cup Evicting) /\ Cardinality(Others \cup Evicting) <= Cardinality(Fillers \ {a})
    BY <1>2, <1>3, FS_Subset
  <2>2. Cardinality(Others \cup Evicting) = Cardinality(Others) + Cardinality(Evicting) - Cardinality(Others \cap Evicting)
    BY <2>1, <1>2, FS_Union
  <2>3. Cardinality(Others \cap Evicting) = 0 /\ Cardinality(Others) \in Nat /\ Cardinality(Evicting) \in Nat
    BY <2>1, <1>2, <1>3, FS_EmptySet, FS_CardinalityType
  <2> QED BY <2>1, <2>2, <2>3
<1>5. IsFiniteSet(theirs) /\ Cardinality(theirs) <= Cardinality(Others)
  <2> HIDE DEF Others
  <2> QED BY <1>4, HeldImage
<1> HIDE DEF Others, theirs
<1>6. Cardinality(LiveStores) <= Cardinality(InTheWay) + Cardinality(theirs)
  <2>1. IsFiniteSet(InTheWay \cup theirs) /\ IsFiniteSet(InTheWay \cap theirs)
        /\ Cardinality(InTheWay \cup theirs) = Cardinality(InTheWay) + Cardinality(theirs) - Cardinality(InTheWay \cap theirs)
    BY <1>2, <1>5, FS_Union, FS_Intersection
  <2>2. Cardinality(LiveStores) <= Cardinality(InTheWay \cup theirs)
    BY <2>1, <1>1, FS_Subset
  <2>3. Cardinality(InTheWay \cap theirs) \in Nat /\ Cardinality(InTheWay) \in Nat /\ Cardinality(theirs) \in Nat
        /\ Cardinality(LiveStores) \in Nat
    BY <2>1, <1>2, <1>5, FS_CardinalityType
  <2> QED BY <2>1, <2>2, <2>3
<1>7. /\ Cardinality(InTheWay) \in Nat /\ Cardinality(theirs) \in Nat /\ Cardinality(LiveStores) \in Nat
      /\ Cardinality(Others) \in Nat /\ Cardinality(Evicting) \in Nat /\ Cardinality(Fillers \ {a}) \in Nat /\ Cardinality(Helpers) \in Nat
  BY <1>2, <1>4, <1>5, ActorSets, FS_CardinalityType
<1> QED BY <1>0, <1>2, <1>4, <1>5, <1>6, <1>7, ActorSets DEF RoomKept

\* There is a store to take, and nobody has it.
LEMMA StoreToTake ==
    ASSUME Bm4dAssumption, ClipInv, NEW a \in Actors, NEW s, StoreTaken(a, s)
    PROVE  s \in Stores /\ s \notin CachedStores /\ s \notin HeldStores /\ (spare # {} => s \in spare)
<1>0. ClipTyped /\ HoldsKept
  BY ClipParts
<1>1. CASE spare # {}
  BY <1>0, <1>1 DEF StoreTaken, ClipTyped, HoldsKept
<1>2. CASE spare = {}
  <2>1. Cardinality(LiveStores) < CacheLimit + Cardinality(Helpers) + Computers
    BY <1>2, RoomForStore DEF StoreTaken, At
  <2>2. Cardinality(Stores) >= CacheLimit + Cardinality(Helpers) + Computers
    BY DEF Bm4dAssumption
  <2>3. LiveStores \subseteq Stores /\ IsFiniteSet(LiveStores) /\ IsFiniteSet(Stores) /\ Stores \in SUBSET Nat
    BY <1>0, SetsFinite, ActorSets
  <2>4. Cardinality(LiveStores) \in Nat /\ Cardinality(Stores) \in Nat /\ Cardinality(Helpers) \in Nat
    BY <2>3, ActorSets, FS_CardinalityType
  <2>5. LiveStores # Stores
    BY <2>1, <2>2, <2>4, ActorSets
  <2>6. Stores \ LiveStores \in SUBSET Nat /\ Stores \ LiveStores # {}
    BY <2>3, <2>5
  <2>7. \E m \in Stores \ LiveStores : \A k \in Stores \ LiveStores : m <= k
    BY <2>6, Smallest
  <2>8. Least(Stores \ LiveStores) \in Stores \ LiveStores
    BY <2>7 DEF Least
  <2>9. s = Least(Stores \ LiveStores)
    BY <1>2 DEF StoreTaken
  <2> QED BY <2>8, <2>9, <1>2 DEF LiveStores
<1> QED BY <1>1, <1>2

\* A download changes the planes of one store.
LEMMA DownloadedTo ==
    ASSUME ClipTyped, NEW s, NEW p \in Nat, NEW new, new = Downloaded(s, p)
    PROVE  /\ new \in [Stores -> Contents]
           /\ \A u \in Stores : new[u].first = store[u].first /\ (u # s => new[u] = store[u])
           /\ s \in Stores /\ outputs = <<store[s].first, p>> => new[s].planes = store[s].planes \cup {p}
<1>1. store \in [Stores -> Contents]
  BY DEF ClipTyped
<1> DEFINE left == IF outputs = <<store[s].first, p>> THEN store[s].planes \cup {p} ELSE store[s].planes \ {p}
<1>2. new = [store EXCEPT ![s].planes = left]
  BY DEF Downloaded
<1>3. s \in Stores => left \in SUBSET Nat
  BY <1>1 DEF Contents
<1> HIDE DEF left
<1>4. \A u \in Stores : u # s => new[u] = store[u]
  BY <1>1, <1>2
<1>5. s \in Stores => new[s] = [store[s] EXCEPT !.planes = left]
  BY <1>1, <1>2
<1>6. s \in Stores => new[s] \in Contents /\ new[s].first = store[s].first /\ new[s].planes = left
  <2> SUFFICES ASSUME s \in Stores PROVE new[s] \in Contents /\ new[s].first = store[s].first /\ new[s].planes = left
    OBVIOUS
  <2>1. store[s] \in Contents
    BY <1>1
  <2> QED BY <2>1, <1>3, <1>5 DEF Contents
<1>7. new = [u \in Stores |-> new[u]]
  BY <1>1, <1>2
<1>8. \A u \in Stores : new[u] \in Contents
  BY <1>1, <1>4, <1>6
<1>9. new \in [Stores -> Contents]
  BY <1>7, <1>8
<1> QED BY <1>4, <1>6, <1>9 DEF left

-----------------------------------------------------------------------------
(* What a step leaves alone.                                               *)

\* Nothing is cached, hit, evicted or held otherwise than before, and what is
\* claimed anew is not cached.
ListsAside ==
    /\ cache' = cache /\ spare' = spare /\ held' = held
    /\ \A s \in CachedStores : store'[s].first = store[s].first /\ store[s].first \notin computing'
    /\ \A b \in Actors :
          \/ at'[b] = at[b]
          \/ {at[b], at'[b]} \subseteq Copying
          \/ {at[b], at'[b]} \cap (Copying \cup {"unread", "evict"}) = {}
    /\ \A b \in Callers : at[b] \in Copying \cup {"unread"} => want'[b] = want[b] /\ (b \in computers' <=> b \in computers)
    /\ \A b \in Callers : at'[b] = "asleep" => want'[b] \in computing'

\* What a step that leaves the cache and its hits alone keeps.
LEMMA ListsStay ==
    ASSUME Bm4dAssumption, ClipInv, ListsAside
    PROVE  CacheKept' /\ HitsKept' /\ RoomKept'
<1>0. ClipTyped /\ CacheKept /\ HitsKept /\ RoomKept
  BY ClipParts
<1>1. CachedStores' = CachedStores /\ HeldStores' = HeldStores /\ LiveStores' = LiveStores
  BY DEF ListsAside, CachedStores, HeldStores, LiveStores
<1>2. CacheKept'
  BY <1>0, <1>1 DEF ListsAside, CacheKept, Once, SleepsFor
<1>3. ASSUME NEW b \in Callers
      PROVE  (IsHit(b)' <=> IsHit(b)) /\ (IsHit(b) => want'[b] = want[b] /\ held'[b] = held[b] /\ (at'[b] = "unread" <=> at[b] = "unread"))
  BY ActorSets DEF ListsAside, IsHit, Copying
<1>4. Hits' = Hits
  BY <1>3 DEF Hits
<1>5. HitsKept'
  <2>1. ASSUME NEW i \in DOMAIN cache'
        PROVE  ReadersRight(cache[i])'
    BY <1>0, <1>4 DEF ListsAside, HitsKept, ReadersRight, CachedStores
  <2>2. ASSUME NEW b \in Callers
        PROVE  HitRight(b)'
    BY <1>0, <1>1, <1>3 DEF ListsAside, HitsKept, HitRight
  <2> QED BY <2>1, <2>2 DEF HitsKept
<1>6. Evicting' = Evicting /\ InTheWay' = InTheWay
  <2>1. \A b \in Actors : held'[b] = held[b] /\ (at'[b] = "evict" <=> at[b] = "evict")
    BY DEF ListsAside, Copying
  <2>2. Evicting' = Evicting
    BY <2>1 DEF Evicting, At
  <2> QED BY <2>1, <2>2, <1>1 DEF InTheWay, ListsAside
<1> QED BY <1>0, <1>1, <1>2, <1>5, <1>6 DEF RoomKept, StoresCounted

\* No slot is entered or left, and nobody begins to wait or to download.
SlotsAside ==
    /\ running' = running
    /\ \A b \in Actors : /\ InSlot(b)' <=> InSlot(b)
                         /\ InSlot(b) => job'[b] = job[b]
                         /\ at'[b] \in {"waiting", "download"} => at[b] = at'[b]

\* What a step that leaves the slots alone keeps.
LEMMA SlotsStay ==
    ASSUME SlotsKept, SlotsAside
    PROVE  SlotsKept'
<1>1. ASSUME NEW b \in Actors
      PROVE  SlotRight(b)' /\ OrderRight(b)'
  BY DEF SlotsAside, SlotsKept, SlotRight, OrderRight, InSlot
<1>2. ASSUME NEW c \in running'
      PROVE  \E b \in Actors : InSlot(b)' /\ job'[b] = c
  BY DEF SlotsAside, SlotsKept
<1>3. ASSUME NEW b \in Actors, NEW c \in Actors, InSlot(b)', InSlot(c)', Parity(job'[b]) = Parity(job'[c])
      PROVE  b = c
  BY <1>3 DEF SlotsAside, SlotsKept
<1>4. ASSUME NEW b \in Actors, NEW c \in Actors, At(b, "download")', At(c, "download")'
      PROVE  b = c
  BY <1>4 DEF SlotsAside, SlotsKept, At
<1> QED BY <1>1, <1>2, <1>3, <1>4 DEF SlotsKept

\* The device and the stores stay as they are, and so do those that use them.
Resting == {"out", "reserve", "claim", "launch", "unreserve", "look", "asleep", "permit", "store", "unread", "return", "end"}
DataAside ==
    /\ UNCHANGED <<node, frames, outputs, queued, plane, held>>
    /\ \A b \in Actors : \/ at'[b] = at[b] /\ job'[b] = job[b]
                         \/ {at[b], at'[b]} \subseteq Copying
                         \/ at'[b] \in Resting
                         \/ at'[b] = "finish" /\ held[b] = NoStore
    /\ UNCHANGED store /\ CachedStores' = CachedStores

\* What a step that leaves the stores alone keeps.
LEMMA DataStays ==
    ASSUME DataKept, DataAside
    PROVE  DataKept'
<1> SUFFICES ASSUME ~node.gpu PROVE (\A b \in Actors : FilledTo(b)') /\ \A s \in CachedStores' : store'[s].planes = 1 .. node.planes
  BY DEF DataKept, DataAside
<1>1. ASSUME NEW b \in Actors
      PROVE  FilledTo(b)'
  <2>0. FilledTo(b)
    BY DEF DataKept
  <2>1. CASE at'[b] = at[b] /\ job'[b] = job[b]
    BY <2>0, <2>1 DEF DataAside, FilledTo, PlanesHeld
  <2>2. CASE {at[b], at'[b]} \subseteq Copying
    BY <2>0, <2>2 DEF DataAside, FilledTo, PlanesHeld, Copying, Slotted, Filling, Computes
  <2>3. CASE at'[b] \in Resting
    BY <2>0, <2>3 DEF DataAside, FilledTo, Resting, Copying, Slotted, Filling, Computes
  <2>4. CASE at'[b] = "finish" /\ held[b] = NoStore
    BY <2>0, <2>4 DEF DataAside, FilledTo, Copying, Slotted, Filling, Computes
  <2> QED BY <2>1, <2>2, <2>3, <2>4 DEF DataAside
<1>2. \A s \in CachedStores' : store'[s].planes = 1 .. node.planes
  BY DEF DataAside, DataKept
<1> QED BY <1>1, <1>2

-----------------------------------------------------------------------------
(* BM4D's steps.                                                           *)

\* A request begins.
LEMMA AskKeeps ==
    ASSUME Bm4dAssumption, ClipInv, NEW t \in Callers, NEW number \in Chunks, NEW ahead \in BOOLEAN, Ask(t, number, ahead)
    PROVE  ClipInv'
<1>0. /\ ClipTyped /\ ClaimsKept /\ CacheKept /\ HoldsKept /\ HitsKept /\ SlotsKept /\ DataKept
      /\ ReservedKept /\ PermitsKept /\ RoomKept
  BY ClipParts
<1>1. /\ at[t] = "out"
      /\ at'[t] \in {"reserve", "look"}
      /\ \A b \in Actors : b # t => at'[b] = at[b]
      /\ want'[t] \in Nat
      /\ \A b \in Callers : b # t => want'[b] = want[b]
      /\ UNCHANGED <<node, faults, cache, computing, running, spare, prefetching, store, frames,
                     outputs, job, plane, held, queued, computers, permits>>
  BY <1>0, ActorSets DEF Ask, ClipTyped, At, MoveTo, fixedVars, sharedVars, deviceVars,
     storageVars, permitVars, Chunks, Bm4dAssumption, CallerPlaces, HelperPlaces, Claiming,
     Copying, Computes, Filling, Slotted
<1>2. CachedStores' = CachedStores
  BY <1>1 DEF CachedStores
<1>3. HeldStores' = HeldStores
  BY <1>1 DEF HeldStores
<1>20. ClipTyped'
  <2>1. at' \in [Actors -> CallerPlaces \cup HelperPlaces]
    BY <1>0, ActorSets DEF Ask, ClipTyped, At, MoveTo, fixedVars, sharedVars, deviceVars,
       storageVars, permitVars, Chunks, Bm4dAssumption, CallerPlaces, HelperPlaces, Claiming,
       Copying, Computes, Filling, Slotted, ChunkNumbers, NoChunk, NoStore
  <2>2. want' \in [Callers -> ChunkNumbers]
    BY <1>0, ActorSets DEF Ask, ClipTyped, At, MoveTo, fixedVars, sharedVars, deviceVars,
       storageVars, permitVars, Chunks, Bm4dAssumption, CallerPlaces, HelperPlaces, Claiming,
       Copying, Computes, Filling, Slotted, ChunkNumbers, NoChunk, NoStore
  <2>3. /\ \A b \in Callers : at'[b] \in CallerPlaces /\ (at'[b] # "out" => want'[b] \in Nat)
        /\ \A b \in Helpers : at'[b] \in HelperPlaces
    BY <1>0, <1>1, ActorSets DEF ClipTyped, CallerPlaces, HelperPlaces, Claiming, Copying,
       Computes, Filling, Slotted
  <2>4. /\ node' \in Nodes /\ cache' \in Seq(CacheEntries) /\ computing' \subseteq Nat /\ running' \subseteq Nat
        /\ spare' \subseteq Stores /\ prefetching' \in Int /\ frames' = [p \in {0, 1} |-> frames'[p]]
        /\ computers' \subseteq Callers /\ permits' \subseteq Callers
    BY <1>0, <1>1, ActorSets DEF ClipTyped
  <2> QED BY <1>1, <1>0, <2>1, <2>2, <2>3, <2>4 DEF ClipTyped
<1>21. ClaimsKept'
  <2>1. \A b \in Actors : ClaimRight(b)'
    BY <1>0, <1>1, ActorSets DEF ClaimsKept, ClaimRight, NoChunk, ChunkNumbers, CallerPlaces,
       HelperPlaces, Claiming, Copying, Computes, Filling, Slotted, ClipTyped
  <2>2. ASSUME NEW b \in Actors, NEW c \in Actors, job'[b] = job'[c], job'[b] # NoChunk
        PROVE  b = c
    BY <2>2, <1>0, <1>1 DEF ClaimsKept
  <2> QED BY <2>1, <2>2 DEF ClaimsKept
<1>22. CacheKept' /\ HitsKept' /\ RoomKept'
  <2>1. \A w \in CachedStores : store'[w].first = store[w].first /\ store[w].first \notin computing'
    BY <1>0, <1>1 DEF CacheKept
  <2>2. ASSUME NEW b \in Actors
        PROVE  \/ at'[b] = at[b]
               \/ {at[b], at'[b]} \subseteq Copying
               \/ {at[b], at'[b]} \cap (Copying \cup {"unread", "evict"}) = {}
    BY <1>1 DEF Copying
  <2>3. ASSUME NEW b \in Callers, at[b] \in Copying \cup {"unread"}
        PROVE  want'[b] = want[b] /\ (b \in computers' <=> b \in computers)
    BY <2>3, <1>1, ActorSets DEF Copying
  <2>4. ASSUME NEW b \in Callers, at'[b] = "asleep"
        PROVE  want'[b] \in computing'
    BY <2>4, <1>0, <1>1, ActorSets DEF CacheKept, SleepsFor
  <2> QED BY <2>1, <2>2, <2>3, <2>4, <1>1, ListsStay DEF ListsAside
<1>23. HoldsKept'
  <2>1. spare' \cap (CachedStores' \cup HeldStores') = {}
    BY <1>0, <1>1, <1>2, <1>3 DEF HoldsKept
  <2>2. \A b \in Actors : HoldRight(b)'
    BY <1>0, <1>1, ActorSets, <1>2 DEF HoldsKept, HoldRight, NoStore, CallerPlaces, HelperPlaces,
       Claiming, Copying, Computes, Filling, Slotted, ClipTyped
  <2>3. ASSUME NEW b \in Actors, NEW c \in Actors,
               at'[b] \in Filling \cup {"finish"}, held'[b] # NoStore, held'[c] = held'[b]
        PROVE  c = b
    BY <2>3, <1>0, <1>1, ActorSets DEF HoldsKept, HoldRight, CallerPlaces, HelperPlaces, Claiming,
       Copying, Computes, Filling, Slotted
  <2> QED BY <2>1, <2>2, <2>3 DEF HoldsKept
<1>25. SlotsKept'
  <2>1. SlotsAside
    BY <1>1 DEF SlotsAside, InSlot
  <2> QED BY <2>1, <1>0, SlotsStay
<1>26. DataKept'
  <2>1. DataAside
    BY <1>0, <1>1, <1>2, ActorSets DEF DataAside, Resting, ClipTyped, ClaimsKept, ClaimRight,
       HoldsKept, HoldRight, CallerPlaces, HelperPlaces, Claiming, Copying, Computes, Filling,
       Slotted
  <2> QED BY <2>1, <1>0, DataStays
<1>27. ReservedKept'
  <2>1. Prefetchers' = Prefetchers
    BY <1>0, <1>1, ActorSets DEF Prefetchers, ClaimsKept, ClaimRight, CallerPlaces, HelperPlaces,
       Claiming, Copying, Computes, Filling, Slotted
  <2> QED BY <2>1, <1>0, <1>1 DEF ReservedKept
<1>28. PermitsKept'
  <2>1. {b \in Callers : At(b, "copy")}' = {b \in Callers : At(b, "copy")}
    BY <1>0, <1>1, ActorSets DEF At
  <2> QED BY <2>1, <1>0, <1>1 DEF PermitsKept
<1> QED BY <1>20, <1>21, <1>22, <1>23, <1>25, <1>26, <1>27, <1>28 DEF ClipInv

\* A request reserves a prefetch thread.
LEMMA ReserveKeeps ==
    ASSUME Bm4dAssumption, ClipInv, NEW t \in Callers, Reserve(t)
    PROVE  ClipInv'
<1>0. /\ ClipTyped /\ ClaimsKept /\ CacheKept /\ HoldsKept /\ HitsKept /\ SlotsKept /\ DataKept
      /\ ReservedKept /\ PermitsKept /\ RoomKept
  BY ClipParts
<1>1. /\ at[t] = "reserve"
      /\ \/ prefetching < Cardinality(Helpers) /\ prefetching' = prefetching + 1 /\ at'[t] = "claim"
         \/ prefetching' = prefetching /\ at'[t] = "look"
      /\ \A b \in Actors : b # t => at'[b] = at[b]
      /\ UNCHANGED <<node, faults, cache, computing, running, spare, store, frames, outputs, want,
                     job, plane, held, queued, computers, permits, asked>>
  BY <1>0, ActorSets DEF Reserve, ClipTyped, At, MoveTo, fixedVars, sharedVars, deviceVars,
     storageVars, permitVars, CallerPlaces, HelperPlaces, Claiming, Copying, Computes, Filling,
     Slotted
<1>2. CachedStores' = CachedStores
  BY <1>1 DEF CachedStores
<1>3. HeldStores' = HeldStores
  BY <1>1 DEF HeldStores
<1>20. ClipTyped'
  <2>1. at' \in [Actors -> CallerPlaces \cup HelperPlaces]
    BY <1>0, ActorSets DEF Reserve, ClipTyped, At, MoveTo, fixedVars, sharedVars, deviceVars,
       storageVars, permitVars, CallerPlaces, HelperPlaces, Claiming, Copying, Computes, Filling,
       Slotted, ChunkNumbers, NoChunk, NoStore
  <2>2. /\ \A b \in Callers : at'[b] \in CallerPlaces /\ (at'[b] # "out" => want'[b] \in Nat)
        /\ \A b \in Helpers : at'[b] \in HelperPlaces
    BY <1>0, <1>1, ActorSets DEF ClipTyped, CallerPlaces, HelperPlaces, Claiming, Copying,
       Computes, Filling, Slotted
  <2>3. /\ node' \in Nodes /\ cache' \in Seq(CacheEntries) /\ computing' \subseteq Nat /\ running' \subseteq Nat
        /\ spare' \subseteq Stores /\ prefetching' \in Int /\ frames' = [p \in {0, 1} |-> frames'[p]]
        /\ computers' \subseteq Callers /\ permits' \subseteq Callers
    BY <1>0, <1>1, ActorSets DEF ClipTyped
  <2> QED BY <1>1, <1>0, <2>1, <2>2, <2>3 DEF ClipTyped
<1>21. ClaimsKept'
  <2>1. \A b \in Actors : ClaimRight(b)'
    BY <1>0, <1>1, ActorSets DEF ClaimsKept, ClaimRight, NoChunk, ChunkNumbers, CallerPlaces,
       HelperPlaces, Claiming, Copying, Computes, Filling, Slotted, ClipTyped
  <2>2. ASSUME NEW b \in Actors, NEW c \in Actors, job'[b] = job'[c], job'[b] # NoChunk
        PROVE  b = c
    BY <2>2, <1>0, <1>1 DEF ClaimsKept
  <2> QED BY <2>1, <2>2 DEF ClaimsKept
<1>22. CacheKept' /\ HitsKept' /\ RoomKept'
  <2>1. \A w \in CachedStores : store'[w].first = store[w].first /\ store[w].first \notin computing'
    BY <1>0, <1>1 DEF CacheKept
  <2>2. ASSUME NEW b \in Actors
        PROVE  \/ at'[b] = at[b]
               \/ {at[b], at'[b]} \subseteq Copying
               \/ {at[b], at'[b]} \cap (Copying \cup {"unread", "evict"}) = {}
    BY <1>1 DEF Copying
  <2>3. ASSUME NEW b \in Callers, at[b] \in Copying \cup {"unread"}
        PROVE  want'[b] = want[b] /\ (b \in computers' <=> b \in computers)
    BY <2>3, <1>1, ActorSets DEF Copying
  <2>4. ASSUME NEW b \in Callers, at'[b] = "asleep"
        PROVE  want'[b] \in computing'
    BY <2>4, <1>0, <1>1, ActorSets DEF CacheKept, SleepsFor
  <2> QED BY <2>1, <2>2, <2>3, <2>4, <1>1, ListsStay DEF ListsAside
<1>23. HoldsKept'
  <2>1. spare' \cap (CachedStores' \cup HeldStores') = {}
    BY <1>0, <1>1, <1>2, <1>3 DEF HoldsKept
  <2>2. \A b \in Actors : HoldRight(b)'
    BY <1>0, <1>1, ActorSets, <1>2 DEF HoldsKept, HoldRight, NoStore, CallerPlaces, HelperPlaces,
       Claiming, Copying, Computes, Filling, Slotted, ClipTyped
  <2>3. ASSUME NEW b \in Actors, NEW c \in Actors,
               at'[b] \in Filling \cup {"finish"}, held'[b] # NoStore, held'[c] = held'[b]
        PROVE  c = b
    BY <2>3, <1>0, <1>1, ActorSets DEF HoldsKept, HoldRight, CallerPlaces, HelperPlaces, Claiming,
       Copying, Computes, Filling, Slotted
  <2> QED BY <2>1, <2>2, <2>3 DEF HoldsKept
<1>25. SlotsKept'
  <2>1. SlotsAside
    BY <1>1 DEF SlotsAside, InSlot
  <2> QED BY <2>1, <1>0, SlotsStay
<1>26. DataKept'
  <2>1. DataAside
    BY <1>0, <1>1, <1>2, ActorSets DEF DataAside, Resting, ClipTyped, ClaimsKept, ClaimRight,
       HoldsKept, HoldRight, CallerPlaces, HelperPlaces, Claiming, Copying, Computes, Filling,
       Slotted
  <2> QED BY <2>1, <1>0, DataStays
<1>27. ReservedKept'
  <2>1. t \notin Prefetchers /\ (Prefetchers' = Prefetchers \/ (Prefetchers' = Prefetchers \cup {t} /\ at'[t] = "claim"))
    BY <1>0, <1>1, ActorSets DEF Prefetchers, ClaimsKept, ClaimRight, CallerPlaces, HelperPlaces,
       Claiming, Copying, Computes, Filling, Slotted
  <2>2. IsFiniteSet(Prefetchers) /\ Cardinality(Prefetchers) \in Nat /\ Cardinality(Helpers) \in Nat
    BY <1>0, SetsFinite, ActorSets, FS_CardinalityType
  <2>3. Cardinality(Prefetchers \cup {t}) = Cardinality(Prefetchers) + 1
    BY <2>1, <2>2, FS_AddElement
  <2>4. CASE Prefetchers' = Prefetchers
    BY <2>2, <2>4, <1>0, <1>1 DEF ReservedKept, ClipTyped
  <2>5. CASE Prefetchers' = Prefetchers \cup {t} /\ at'[t] = "claim"
    BY <2>2, <2>3, <2>5, <1>0, <1>1 DEF ReservedKept, ClipTyped
  <2> QED BY <2>1, <2>4, <2>5
<1>28. PermitsKept'
  <2>1. {b \in Callers : At(b, "copy")}' = {b \in Callers : At(b, "copy")}
    BY <1>0, <1>1, ActorSets DEF At
  <2> QED BY <2>1, <1>0, <1>1 DEF PermitsKept
<1> QED BY <1>20, <1>21, <1>22, <1>23, <1>25, <1>26, <1>27, <1>28 DEF ClipInv

\* A request claims the next chunk.
LEMMA ClaimKeeps ==
    ASSUME Bm4dAssumption, ClipInv, NEW t \in Callers, Claim(t)
    PROVE  ClipInv'
<1>0. /\ ClipTyped /\ ClaimsKept /\ CacheKept /\ HoldsKept /\ HitsKept /\ SlotsKept /\ DataKept
      /\ ReservedKept /\ PermitsKept /\ RoomKept
  BY ClipParts
<1>1. /\ at[t] = "claim" /\ want[t] + 1 \in Nat
      /\ \/ at'[t] = "unreserve" /\ computing' = computing /\ job'[t] = job[t]
         \/ /\ at'[t] = "launch" /\ computing' = computing \cup {want[t] + 1} /\ job'[t] = want[t] + 1
            /\ want[t] + 1 \notin computing /\ \A s \in CachedStores : store[s].first # want[t] + 1
      /\ \A b \in Actors : b # t => at'[b] = at[b] /\ job'[b] = job[b]
      /\ job' \in [Actors -> ChunkNumbers]
      /\ UNCHANGED <<node, faults, cache, running, spare, prefetching, store, frames, outputs,
                     want, plane, held, queued, computers, permits, asked>>
  <2>0. at \in [Actors -> CallerPlaces \cup HelperPlaces] /\ job \in [Actors -> ChunkNumbers] /\ t \in Actors
    BY <1>0, ActorSets DEF ClipTyped
  <2>1. at[t] = "claim" /\ want[t] \in Nat /\ want[t] + 1 \in Nat
    BY <1>0 DEF ClipTyped, Claim, At
  <2>2. CASE Known(want[t] + 1)
    <3>1. computing' = computing /\ job' = job /\ at' = [at EXCEPT ![t] = "unreserve"]
      BY <2>2 DEF Claim, MoveTo
    <3> QED BY <2>0, <2>1, <3>1 DEF Claim, fixedVars, sharedVars, deviceVars, storageVars,
            permitVars
  <2>3. CASE ~Known(want[t] + 1)
    <3>1. /\ computing' = computing \cup {want[t] + 1}
          /\ job' = [job EXCEPT ![t] = want[t] + 1] /\ at' = [at EXCEPT ![t] = "launch"]
      BY <2>3 DEF Claim, MoveTo
    <3>2. want[t] + 1 \notin computing /\ \A s \in CachedStores : store[s].first # want[t] + 1
      BY <2>3 DEF Known, CachedAt, CachedStores
    <3>3. job' \in [Actors -> ChunkNumbers]
      BY <2>0, <2>1, <3>1 DEF ChunkNumbers
    <3> QED BY <2>0, <2>1, <3>1, <3>2, <3>3 DEF Claim, fixedVars, sharedVars, deviceVars,
            storageVars, permitVars
  <2> QED BY <2>2, <2>3
<1>2. CachedStores' = CachedStores
  BY <1>1 DEF CachedStores
<1>3. HeldStores' = HeldStores
  BY <1>1 DEF HeldStores
<1>20. ClipTyped'
  <2>1. at' \in [Actors -> CallerPlaces \cup HelperPlaces]
    BY <1>0, ActorSets DEF Claim, ClipTyped, At, MoveTo, fixedVars, sharedVars, deviceVars,
       storageVars, permitVars, CallerPlaces, HelperPlaces, Claiming, Copying, Computes, Filling,
       Slotted, ChunkNumbers, NoChunk, NoStore
  <2>2. job' \in [Actors -> ChunkNumbers]
    BY <1>1
  <2>3. /\ \A b \in Callers : at'[b] \in CallerPlaces /\ (at'[b] # "out" => want'[b] \in Nat)
        /\ \A b \in Helpers : at'[b] \in HelperPlaces
    BY <1>0, <1>1, ActorSets DEF ClipTyped, CallerPlaces, HelperPlaces, Claiming, Copying,
       Computes, Filling, Slotted
  <2>4. /\ node' \in Nodes /\ cache' \in Seq(CacheEntries) /\ computing' \subseteq Nat /\ running' \subseteq Nat
        /\ spare' \subseteq Stores /\ prefetching' \in Int /\ frames' = [p \in {0, 1} |-> frames'[p]]
        /\ computers' \subseteq Callers /\ permits' \subseteq Callers
    BY <1>0, <1>1, ActorSets DEF ClipTyped
  <2> QED BY <1>1, <1>0, <2>1, <2>2, <2>3, <2>4 DEF ClipTyped
<1>21. ClaimsKept'
  <2>1. ASSUME NEW b \in Actors
        PROVE  ClaimRight(b)'
    <3>0. ClaimRight(b)
      BY <1>0 DEF ClaimsKept
    <3>1. CASE b = t
      BY <3>0, <3>1, <1>0, <1>1, ActorSets DEF ClaimRight, NoChunk, ChunkNumbers, CallerPlaces,
         HelperPlaces, Claiming, Copying, Computes, Filling, Slotted, ClipTyped
    <3>2. CASE b # t
      BY <3>0, <3>2, <1>1 DEF ClaimRight, NoChunk, ChunkNumbers, CallerPlaces, HelperPlaces,
         Claiming, Copying, Computes, Filling, Slotted
    <3> QED BY <3>1, <3>2
  <2>2. ASSUME NEW b \in Actors, NEW c \in Actors, job'[b] = job'[c], job'[b] # NoChunk
        PROVE  b = c
    BY <2>2, <1>0, <1>1 DEF ClaimsKept, ClaimRight, ClipTyped, NoChunk, CallerPlaces, HelperPlaces,
       Claiming, Copying, Computes, Filling, Slotted
  <2> QED BY <2>1, <2>2 DEF ClaimsKept
<1>22. CacheKept' /\ HitsKept' /\ RoomKept'
  <2>1. \A w \in CachedStores : store'[w].first = store[w].first /\ store[w].first \notin computing'
    BY <1>0, <1>1 DEF CacheKept
  <2>2. ASSUME NEW b \in Actors
        PROVE  \/ at'[b] = at[b]
               \/ {at[b], at'[b]} \subseteq Copying
               \/ {at[b], at'[b]} \cap (Copying \cup {"unread", "evict"}) = {}
    BY <1>1 DEF Copying
  <2>3. ASSUME NEW b \in Callers, at[b] \in Copying \cup {"unread"}
        PROVE  want'[b] = want[b] /\ (b \in computers' <=> b \in computers)
    BY <2>3, <1>1, ActorSets DEF Copying
  <2>4. ASSUME NEW b \in Callers, at'[b] = "asleep"
        PROVE  want'[b] \in computing'
    BY <2>4, <1>0, <1>1, ActorSets DEF CacheKept, SleepsFor
  <2> QED BY <2>1, <2>2, <2>3, <2>4, <1>1, ListsStay DEF ListsAside
<1>23. HoldsKept'
  <2>1. spare' \cap (CachedStores' \cup HeldStores') = {}
    BY <1>0, <1>1, <1>2, <1>3 DEF HoldsKept
  <2>2. \A b \in Actors : HoldRight(b)'
    BY <1>0, <1>1, ActorSets, <1>2 DEF HoldsKept, HoldRight, NoStore, CallerPlaces, HelperPlaces,
       Claiming, Copying, Computes, Filling, Slotted, ClipTyped
  <2>3. ASSUME NEW b \in Actors, NEW c \in Actors,
               at'[b] \in Filling \cup {"finish"}, held'[b] # NoStore, held'[c] = held'[b]
        PROVE  c = b
    BY <2>3, <1>0, <1>1, ActorSets DEF HoldsKept, HoldRight, CallerPlaces, HelperPlaces, Claiming,
       Copying, Computes, Filling, Slotted
  <2> QED BY <2>1, <2>2, <2>3 DEF HoldsKept
<1>25. SlotsKept'
  <2>1. SlotsAside
    BY <1>1 DEF SlotsAside, InSlot
  <2> QED BY <2>1, <1>0, SlotsStay
<1>26. DataKept'
  <2>1. DataAside
    BY <1>0, <1>1, <1>2, ActorSets DEF DataAside, Resting, ClipTyped, ClaimsKept, ClaimRight,
       HoldsKept, HoldRight, CallerPlaces, HelperPlaces, Claiming, Copying, Computes, Filling,
       Slotted
  <2> QED BY <2>1, <1>0, DataStays
<1>27. ReservedKept'
  <2>1. Prefetchers' = Prefetchers
    BY <1>0, <1>1, ActorSets DEF Prefetchers, ClaimsKept, ClaimRight, CallerPlaces, HelperPlaces,
       Claiming, Copying, Computes, Filling, Slotted
  <2> QED BY <2>1, <1>0, <1>1 DEF ReservedKept
<1>28. PermitsKept'
  <2>1. {b \in Callers : At(b, "copy")}' = {b \in Callers : At(b, "copy")}
    BY <1>0, <1>1, ActorSets DEF At
  <2> QED BY <2>1, <1>0, <1>1 DEF PermitsKept
<1> QED BY <1>20, <1>21, <1>22, <1>23, <1>25, <1>26, <1>27, <1>28 DEF ClipInv

\* A reserved prefetch thread is given up.
LEMMA UnreserveKeeps ==
    ASSUME Bm4dAssumption, ClipInv, NEW t \in Callers, Unreserve(t)
    PROVE  ClipInv'
<1>0. /\ ClipTyped /\ ClaimsKept /\ CacheKept /\ HoldsKept /\ HitsKept /\ SlotsKept /\ DataKept
      /\ ReservedKept /\ PermitsKept /\ RoomKept
  BY ClipParts
<1>1. /\ at[t] = "unreserve"
      /\ prefetching' = prefetching - 1
      /\ at'[t] = "look"
      /\ \A b \in Actors : b # t => at'[b] = at[b]
      /\ UNCHANGED <<node, faults, cache, computing, running, spare, store, frames, outputs, want,
                     job, plane, held, queued, computers, permits, asked>>
  BY <1>0, ActorSets DEF Unreserve, ClipTyped, At, MoveTo, fixedVars, sharedVars, deviceVars,
     storageVars, permitVars, CallerPlaces, HelperPlaces, Claiming, Copying, Computes, Filling,
     Slotted
<1>2. CachedStores' = CachedStores
  BY <1>1 DEF CachedStores
<1>3. HeldStores' = HeldStores
  BY <1>1 DEF HeldStores
<1>20. ClipTyped'
  <2>1. at' \in [Actors -> CallerPlaces \cup HelperPlaces]
    BY <1>0, ActorSets DEF Unreserve, ClipTyped, At, MoveTo, fixedVars, sharedVars, deviceVars,
       storageVars, permitVars, CallerPlaces, HelperPlaces, Claiming, Copying, Computes, Filling,
       Slotted, ChunkNumbers, NoChunk, NoStore
  <2>2. /\ \A b \in Callers : at'[b] \in CallerPlaces /\ (at'[b] # "out" => want'[b] \in Nat)
        /\ \A b \in Helpers : at'[b] \in HelperPlaces
    BY <1>0, <1>1, ActorSets DEF ClipTyped, CallerPlaces, HelperPlaces, Claiming, Copying,
       Computes, Filling, Slotted
  <2>3. /\ node' \in Nodes /\ cache' \in Seq(CacheEntries) /\ computing' \subseteq Nat /\ running' \subseteq Nat
        /\ spare' \subseteq Stores /\ prefetching' \in Int /\ frames' = [p \in {0, 1} |-> frames'[p]]
        /\ computers' \subseteq Callers /\ permits' \subseteq Callers
    BY <1>0, <1>1, ActorSets DEF ClipTyped
  <2> QED BY <1>1, <1>0, <2>1, <2>2, <2>3 DEF ClipTyped
<1>21. ClaimsKept'
  <2>1. \A b \in Actors : ClaimRight(b)'
    BY <1>0, <1>1, ActorSets DEF ClaimsKept, ClaimRight, NoChunk, ChunkNumbers, CallerPlaces,
       HelperPlaces, Claiming, Copying, Computes, Filling, Slotted, ClipTyped
  <2>2. ASSUME NEW b \in Actors, NEW c \in Actors, job'[b] = job'[c], job'[b] # NoChunk
        PROVE  b = c
    BY <2>2, <1>0, <1>1 DEF ClaimsKept
  <2> QED BY <2>1, <2>2 DEF ClaimsKept
<1>22. CacheKept' /\ HitsKept' /\ RoomKept'
  <2>1. \A w \in CachedStores : store'[w].first = store[w].first /\ store[w].first \notin computing'
    BY <1>0, <1>1 DEF CacheKept
  <2>2. ASSUME NEW b \in Actors
        PROVE  \/ at'[b] = at[b]
               \/ {at[b], at'[b]} \subseteq Copying
               \/ {at[b], at'[b]} \cap (Copying \cup {"unread", "evict"}) = {}
    BY <1>1 DEF Copying
  <2>3. ASSUME NEW b \in Callers, at[b] \in Copying \cup {"unread"}
        PROVE  want'[b] = want[b] /\ (b \in computers' <=> b \in computers)
    BY <2>3, <1>1, ActorSets DEF Copying
  <2>4. ASSUME NEW b \in Callers, at'[b] = "asleep"
        PROVE  want'[b] \in computing'
    BY <2>4, <1>0, <1>1, ActorSets DEF CacheKept, SleepsFor
  <2> QED BY <2>1, <2>2, <2>3, <2>4, <1>1, ListsStay DEF ListsAside
<1>23. HoldsKept'
  <2>1. spare' \cap (CachedStores' \cup HeldStores') = {}
    BY <1>0, <1>1, <1>2, <1>3 DEF HoldsKept
  <2>2. \A b \in Actors : HoldRight(b)'
    BY <1>0, <1>1, ActorSets, <1>2 DEF HoldsKept, HoldRight, NoStore, CallerPlaces, HelperPlaces,
       Claiming, Copying, Computes, Filling, Slotted, ClipTyped
  <2>3. ASSUME NEW b \in Actors, NEW c \in Actors,
               at'[b] \in Filling \cup {"finish"}, held'[b] # NoStore, held'[c] = held'[b]
        PROVE  c = b
    BY <2>3, <1>0, <1>1, ActorSets DEF HoldsKept, HoldRight, CallerPlaces, HelperPlaces, Claiming,
       Copying, Computes, Filling, Slotted
  <2> QED BY <2>1, <2>2, <2>3 DEF HoldsKept
<1>25. SlotsKept'
  <2>1. SlotsAside
    BY <1>1 DEF SlotsAside, InSlot
  <2> QED BY <2>1, <1>0, SlotsStay
<1>26. DataKept'
  <2>1. DataAside
    BY <1>0, <1>1, <1>2, ActorSets DEF DataAside, Resting, ClipTyped, ClaimsKept, ClaimRight,
       HoldsKept, HoldRight, CallerPlaces, HelperPlaces, Claiming, Copying, Computes, Filling,
       Slotted
  <2> QED BY <2>1, <1>0, DataStays
<1>27. ReservedKept'
  <2>1. Prefetchers' = Prefetchers \ {t} /\ t \in Prefetchers
    BY <1>0, <1>1, ActorSets DEF Prefetchers, ClaimsKept, ClaimRight, CallerPlaces, HelperPlaces,
       Claiming, Copying, Computes, Filling, Slotted
  <2>2. IsFiniteSet(Prefetchers) /\ Cardinality(Prefetchers) \in Nat
    BY <1>0, SetsFinite, FS_CardinalityType
  <2>3. Cardinality(Prefetchers \ {t}) = Cardinality(Prefetchers) - 1
    BY <2>1, <2>2, FS_RemoveElement
  <2>4. Cardinality(Helpers) \in Nat
    BY ActorSets, FS_CardinalityType
  <2> QED BY <2>1, <2>2, <2>3, <2>4, <1>0, <1>1 DEF ReservedKept, ClipTyped
<1>28. PermitsKept'
  <2>1. {b \in Callers : At(b, "copy")}' = {b \in Callers : At(b, "copy")}
    BY <1>0, <1>1, ActorSets DEF At
  <2> QED BY <2>1, <1>0, <1>1 DEF PermitsKept
<1> QED BY <1>20, <1>21, <1>22, <1>23, <1>25, <1>26, <1>27, <1>28 DEF ClipInv

\* A request fails with its claim: nobody has it any more, and it stays.
LEMMA CollectThrowsKeeps ==
    ASSUME Bm4dAssumption, ClipInv, NEW t \in Callers, CollectThrows(t)
    PROVE  ClipInv'
<1>0. /\ ClipTyped /\ ClaimsKept /\ CacheKept /\ HoldsKept /\ HitsKept /\ SlotsKept /\ DataKept
      /\ ReservedKept /\ PermitsKept /\ RoomKept
  BY ClipParts
<1>1. /\ at[t] = "launch"
      /\ at'[t] = "out"
      /\ \A b \in Actors : b # t => at'[b] = at[b]
      /\ job'[t] = NoChunk
      /\ \A b \in Actors : b # t => job'[b] = job[b]
      /\ UNCHANGED <<node, faults, cache, computing, running, spare, prefetching, store, frames,
                     outputs, want, plane, held, queued, computers, permits, asked>>
  BY <1>0, ActorSets DEF CollectThrows, ClipTyped, At, MoveTo, fixedVars, sharedVars, deviceVars,
     storageVars, permitVars, CallerPlaces, HelperPlaces, Claiming, Copying, Computes, Filling,
     Slotted
<1>2. CachedStores' = CachedStores
  BY <1>1 DEF CachedStores
<1>3. HeldStores' = HeldStores
  BY <1>1 DEF HeldStores
<1>20. ClipTyped'
  <2>1. at' \in [Actors -> CallerPlaces \cup HelperPlaces]
    BY <1>0, ActorSets DEF CollectThrows, ClipTyped, At, MoveTo, fixedVars, sharedVars, deviceVars,
       storageVars, permitVars, CallerPlaces, HelperPlaces, Claiming, Copying, Computes, Filling,
       Slotted, ChunkNumbers, NoChunk, NoStore
  <2>2. job' \in [Actors -> ChunkNumbers]
    BY <1>0, ActorSets DEF CollectThrows, ClipTyped, At, MoveTo, fixedVars, sharedVars, deviceVars,
       storageVars, permitVars, CallerPlaces, HelperPlaces, Claiming, Copying, Computes, Filling,
       Slotted, ChunkNumbers, NoChunk, NoStore
  <2>3. /\ \A b \in Callers : at'[b] \in CallerPlaces /\ (at'[b] # "out" => want'[b] \in Nat)
        /\ \A b \in Helpers : at'[b] \in HelperPlaces
    BY <1>0, <1>1, ActorSets DEF ClipTyped, CallerPlaces, HelperPlaces, Claiming, Copying,
       Computes, Filling, Slotted
  <2>4. /\ node' \in Nodes /\ cache' \in Seq(CacheEntries) /\ computing' \subseteq Nat /\ running' \subseteq Nat
        /\ spare' \subseteq Stores /\ prefetching' \in Int /\ frames' = [p \in {0, 1} |-> frames'[p]]
        /\ computers' \subseteq Callers /\ permits' \subseteq Callers
    BY <1>0, <1>1, ActorSets DEF ClipTyped
  <2> QED BY <1>1, <1>0, <2>1, <2>2, <2>3, <2>4 DEF ClipTyped
<1>21. ClaimsKept'
  <2>1. ASSUME NEW b \in Actors
        PROVE  ClaimRight(b)'
    <3>0. ClaimRight(b)
      BY <1>0 DEF ClaimsKept
    <3>1. CASE b = t
      BY <3>0, <3>1, <1>0, <1>1, ActorSets DEF ClaimRight, NoChunk, ChunkNumbers, CallerPlaces,
         HelperPlaces, Claiming, Copying, Computes, Filling, Slotted, ClipTyped
    <3>2. CASE b # t
      BY <3>0, <3>2, <1>1 DEF ClaimRight, NoChunk, ChunkNumbers, CallerPlaces, HelperPlaces,
         Claiming, Copying, Computes, Filling, Slotted
    <3> QED BY <3>1, <3>2
  <2>2. ASSUME NEW b \in Actors, NEW c \in Actors, job'[b] = job'[c], job'[b] # NoChunk
        PROVE  b = c
    BY <2>2, <1>0, <1>1 DEF ClaimsKept
  <2> QED BY <2>1, <2>2 DEF ClaimsKept
<1>22. CacheKept' /\ HitsKept' /\ RoomKept'
  <2>1. \A w \in CachedStores : store'[w].first = store[w].first /\ store[w].first \notin computing'
    BY <1>0, <1>1 DEF CacheKept
  <2>2. ASSUME NEW b \in Actors
        PROVE  \/ at'[b] = at[b]
               \/ {at[b], at'[b]} \subseteq Copying
               \/ {at[b], at'[b]} \cap (Copying \cup {"unread", "evict"}) = {}
    BY <1>1 DEF Copying
  <2>3. ASSUME NEW b \in Callers, at[b] \in Copying \cup {"unread"}
        PROVE  want'[b] = want[b] /\ (b \in computers' <=> b \in computers)
    BY <2>3, <1>1, ActorSets DEF Copying
  <2>4. ASSUME NEW b \in Callers, at'[b] = "asleep"
        PROVE  want'[b] \in computing'
    BY <2>4, <1>0, <1>1, ActorSets DEF CacheKept, SleepsFor
  <2> QED BY <2>1, <2>2, <2>3, <2>4, <1>1, ListsStay DEF ListsAside
<1>23. HoldsKept'
  <2>1. spare' \cap (CachedStores' \cup HeldStores') = {}
    BY <1>0, <1>1, <1>2, <1>3 DEF HoldsKept
  <2>2. \A b \in Actors : HoldRight(b)'
    BY <1>0, <1>1, ActorSets, <1>2 DEF HoldsKept, HoldRight, NoStore, CallerPlaces, HelperPlaces,
       Claiming, Copying, Computes, Filling, Slotted, ClipTyped
  <2>3. ASSUME NEW b \in Actors, NEW c \in Actors,
               at'[b] \in Filling \cup {"finish"}, held'[b] # NoStore, held'[c] = held'[b]
        PROVE  c = b
    BY <2>3, <1>0, <1>1, ActorSets DEF HoldsKept, HoldRight, CallerPlaces, HelperPlaces, Claiming,
       Copying, Computes, Filling, Slotted
  <2> QED BY <2>1, <2>2, <2>3 DEF HoldsKept
<1>25. SlotsKept'
  <2>1. SlotsAside
    BY <1>1 DEF SlotsAside, InSlot
  <2> QED BY <2>1, <1>0, SlotsStay
<1>26. DataKept'
  <2>1. DataAside
    BY <1>0, <1>1, <1>2, ActorSets DEF DataAside, Resting, ClipTyped, ClaimsKept, ClaimRight,
       HoldsKept, HoldRight, CallerPlaces, HelperPlaces, Claiming, Copying, Computes, Filling,
       Slotted
  <2> QED BY <2>1, <1>0, DataStays
<1>27. ReservedKept'
  <2>1. Prefetchers' = Prefetchers \ {t} /\ t \in Prefetchers
    BY <1>0, <1>1, ActorSets DEF Prefetchers, ClaimsKept, ClaimRight, CallerPlaces, HelperPlaces,
       Claiming, Copying, Computes, Filling, Slotted
  <2>2. IsFiniteSet(Prefetchers) /\ Cardinality(Prefetchers) \in Nat
    BY <1>0, SetsFinite, FS_CardinalityType
  <2>3. Cardinality(Prefetchers \ {t}) = Cardinality(Prefetchers) - 1
    BY <2>1, <2>2, FS_RemoveElement
  <2>4. Cardinality(Helpers) \in Nat
    BY ActorSets, FS_CardinalityType
  <2> QED BY <2>1, <2>2, <2>3, <2>4, <1>0, <1>1 DEF ReservedKept, ClipTyped
<1>28. PermitsKept'
  <2>1. {b \in Callers : At(b, "copy")}' = {b \in Callers : At(b, "copy")}
    BY <1>0, <1>1, ActorSets DEF At
  <2> QED BY <2>1, <1>0, <1>1 DEF PermitsKept
<1> QED BY <1>20, <1>21, <1>22, <1>23, <1>25, <1>26, <1>27, <1>28 DEF ClipInv

\* A prefetch thread takes the claim over.
LEMMA LaunchOnKeeps ==
    ASSUME Bm4dAssumption, ClipInv, NEW t \in Callers, NEW h \in Helpers, LaunchOn(t, h)
    PROVE  ClipInv'
<1>0. /\ ClipTyped /\ ClaimsKept /\ CacheKept /\ HoldsKept /\ HitsKept /\ SlotsKept /\ DataKept
      /\ ReservedKept /\ PermitsKept /\ RoomKept
  BY ClipParts
<1>1. /\ at[t] = "launch" /\ at[h] = "out" /\ t # h
      /\ at'[t] = "look" /\ at'[h] = "store"
      /\ job'[t] = NoChunk /\ job'[h] = job[t]
      /\ \A b \in Actors : b # t /\ b # h => at'[b] = at[b] /\ job'[b] = job[b]
      /\ UNCHANGED <<node, faults, cache, computing, running, spare, prefetching, store, frames,
                     outputs, want, plane, held, queued, computers, permits, asked>>
  BY <1>0, ActorSets DEF LaunchOn, ClipTyped, At, MoveTo, fixedVars, sharedVars, deviceVars,
     storageVars, permitVars, CallerPlaces, HelperPlaces, Claiming, Copying, Computes, Filling,
     Slotted
<1>2. job[t] \in computing /\ job[t] # NoChunk /\ job[h] = NoChunk
  BY <1>0, <1>1, ActorSets DEF ClaimsKept, ClaimRight, CallerPlaces, HelperPlaces, Claiming,
     Copying, Computes, Filling, Slotted
<1>3. CachedStores' = CachedStores
  BY <1>1 DEF CachedStores
<1>4. HeldStores' = HeldStores
  BY <1>1 DEF HeldStores
<1>20. ClipTyped'
  <2>1. at' \in [Actors -> CallerPlaces \cup HelperPlaces]
    BY <1>0, ActorSets DEF LaunchOn, ClipTyped, At, MoveTo, fixedVars, sharedVars, deviceVars,
       storageVars, permitVars, CallerPlaces, HelperPlaces, Claiming, Copying, Computes, Filling,
       Slotted, ChunkNumbers, NoChunk, NoStore
  <2>2. job' \in [Actors -> ChunkNumbers]
    BY <1>0, ActorSets DEF LaunchOn, ClipTyped, At, MoveTo, fixedVars, sharedVars, deviceVars,
       storageVars, permitVars, CallerPlaces, HelperPlaces, Claiming, Copying, Computes, Filling,
       Slotted, ChunkNumbers, NoChunk, NoStore
  <2>3. /\ \A b \in Callers : at'[b] \in CallerPlaces /\ (at'[b] # "out" => want'[b] \in Nat)
        /\ \A b \in Helpers : at'[b] \in HelperPlaces
    BY <1>0, <1>1, ActorSets DEF ClipTyped, CallerPlaces, HelperPlaces, Claiming, Copying,
       Computes, Filling, Slotted
  <2>4. /\ node' \in Nodes /\ cache' \in Seq(CacheEntries) /\ computing' \subseteq Nat /\ running' \subseteq Nat
        /\ spare' \subseteq Stores /\ prefetching' \in Int /\ frames' = [p \in {0, 1} |-> frames'[p]]
        /\ computers' \subseteq Callers /\ permits' \subseteq Callers
    BY <1>0, <1>1, ActorSets DEF ClipTyped
  <2> QED BY <1>1, <1>0, <2>1, <2>2, <2>3, <2>4 DEF ClipTyped
<1>21. ClaimsKept'
  <2>1. ASSUME NEW b \in Actors
        PROVE  ClaimRight(b)'
    <3>0. ClaimRight(b)
      BY <1>0 DEF ClaimsKept
    <3>1. CASE b = t
      BY <3>0, <3>1, <1>0, <1>1, ActorSets, <1>2 DEF ClaimRight, NoChunk, ChunkNumbers,
         CallerPlaces, HelperPlaces, Claiming, Copying, Computes, Filling, Slotted, ClipTyped
    <3>2. CASE b = h
      BY <3>0, <3>2, <1>0, <1>1, ActorSets, <1>2 DEF ClaimRight, NoChunk, ChunkNumbers,
         CallerPlaces, HelperPlaces, Claiming, Copying, Computes, Filling, Slotted, ClipTyped
    <3>3. CASE b # t /\ b # h
      BY <3>0, <3>3, <1>1, <1>2 DEF ClaimRight, NoChunk, ChunkNumbers, CallerPlaces, HelperPlaces,
         Claiming, Copying, Computes, Filling, Slotted
    <3> QED BY <3>1, <3>2, <3>3
  <2>2. ASSUME NEW b \in Actors, NEW c \in Actors, job'[b] = job'[c], job'[b] # NoChunk
        PROVE  b = c
    <3>1. \A d \in {b, c} : d # t /\ job'[d] = IF d = h THEN job[t] ELSE job[d]
      BY <2>2, <1>1
    <3>2. \A d, e \in Actors : job[d] = job[e] /\ job[d] # NoChunk => d = e
      BY <1>0 DEF ClaimsKept
    <3>3. CASE b = h
      BY <2>2, <3>1, <3>2, <3>3, <1>1, ActorSets
    <3>4. CASE b # h
      BY <2>2, <3>1, <3>2, <3>4, <1>1, ActorSets
    <3> QED BY <3>3, <3>4
  <2> QED BY <2>1, <2>2 DEF ClaimsKept
<1>22. CacheKept' /\ HitsKept' /\ RoomKept'
  <2>1. \A w \in CachedStores : store'[w].first = store[w].first /\ store[w].first \notin computing'
    BY <1>0, <1>1 DEF CacheKept
  <2>2. ASSUME NEW b \in Actors
        PROVE  \/ at'[b] = at[b]
               \/ {at[b], at'[b]} \subseteq Copying
               \/ {at[b], at'[b]} \cap (Copying \cup {"unread", "evict"}) = {}
    BY <1>1 DEF Copying
  <2>3. ASSUME NEW b \in Callers, at[b] \in Copying \cup {"unread"}
        PROVE  want'[b] = want[b] /\ (b \in computers' <=> b \in computers)
    BY <2>3, <1>1, ActorSets DEF Copying
  <2>4. ASSUME NEW b \in Callers, at'[b] = "asleep"
        PROVE  want'[b] \in computing'
    BY <2>4, <1>0, <1>1, ActorSets DEF CacheKept, SleepsFor
  <2> QED BY <2>1, <2>2, <2>3, <2>4, <1>1, ListsStay DEF ListsAside
<1>23. HoldsKept'
  <2>1. spare' \cap (CachedStores' \cup HeldStores') = {}
    BY <1>0, <1>1, <1>3, <1>4 DEF HoldsKept
  <2>2. ASSUME NEW b \in Actors
        PROVE  HoldRight(b)'
    <3>0. HoldRight(b)
      BY <1>0 DEF HoldsKept
    <3>1. CASE b = t
      BY <3>0, <3>1, <1>0, <1>1, ActorSets, <1>3 DEF HoldRight, NoStore, CallerPlaces,
         HelperPlaces, Claiming, Copying, Computes, Filling, Slotted, ClipTyped
    <3>2. CASE b = h
      BY <3>0, <3>2, <1>0, <1>1, ActorSets, <1>3 DEF HoldRight, NoStore, CallerPlaces,
         HelperPlaces, Claiming, Copying, Computes, Filling, Slotted, ClipTyped
    <3>3. CASE b # t /\ b # h
      BY <3>0, <3>3, <1>1, <1>3 DEF HoldRight, NoStore, CallerPlaces, HelperPlaces, Claiming,
         Copying, Computes, Filling, Slotted
    <3> QED BY <3>1, <3>2, <3>3
  <2>3. ASSUME NEW b \in Actors, NEW c \in Actors,
               at'[b] \in Filling \cup {"finish"}, held'[b] # NoStore, held'[c] = held'[b]
        PROVE  c = b
    BY <2>3, <1>0, <1>1, ActorSets DEF HoldsKept, HoldRight, CallerPlaces, HelperPlaces, Claiming,
       Copying, Computes, Filling, Slotted
  <2> QED BY <2>1, <2>2, <2>3 DEF HoldsKept
<1>25. SlotsKept'
  <2>1. SlotsAside
    BY <1>1 DEF SlotsAside, InSlot
  <2> QED BY <2>1, <1>0, SlotsStay
<1>26. DataKept'
  <2>1. DataAside
    BY <1>0, <1>1, <1>3, ActorSets DEF DataAside, Resting, ClipTyped, ClaimsKept, ClaimRight,
       HoldsKept, HoldRight, CallerPlaces, HelperPlaces, Claiming, Copying, Computes, Filling,
       Slotted
  <2> QED BY <2>1, <1>0, DataStays
<1>27. ReservedKept'
  <2>1. Prefetchers' = (Prefetchers \ {t}) \cup {h} /\ t \in Prefetchers
    BY <1>0, <1>1, ActorSets DEF Prefetchers, ClaimsKept, ClaimRight, CallerPlaces, HelperPlaces,
       Claiming, Copying, Computes, Filling, Slotted
  <2>2. IsFiniteSet(Prefetchers) /\ Cardinality(Prefetchers) \in Nat
    BY <1>0, SetsFinite, FS_CardinalityType
  <2>3. IsFiniteSet(Prefetchers \ {t}) /\ Cardinality(Prefetchers \ {t}) = Cardinality(Prefetchers) - 1
    BY <2>1, <2>2, FS_RemoveElement
  <2>4. Cardinality((Prefetchers \ {t}) \cup {h}) \in {Cardinality(Prefetchers \ {t}), Cardinality(Prefetchers \ {t}) + 1}
    BY <2>3, FS_AddElement
  <2> QED BY <2>1, <2>2, <2>3, <2>4, <1>0, <1>1 DEF ReservedKept, ClipTyped
<1>28. PermitsKept'
  <2>1. {b \in Callers : At(b, "copy")}' = {b \in Callers : At(b, "copy")}
    BY <1>0, <1>1, ActorSets DEF At
  <2> QED BY <2>1, <1>0, <1>1 DEF PermitsKept
<1> QED BY <1>20, <1>21, <1>22, <1>23, <1>25, <1>26, <1>27, <1>28 DEF ClipInv

\* A prefetch thread cannot be started.
LEMMA LaunchFailsKeeps ==
    ASSUME Bm4dAssumption, ClipInv, NEW t \in Callers, LaunchFails(t)
    PROVE  ClipInv'
<1>0. /\ ClipTyped /\ ClaimsKept /\ CacheKept /\ HoldsKept /\ HitsKept /\ SlotsKept /\ DataKept
      /\ ReservedKept /\ PermitsKept /\ RoomKept
  BY ClipParts
<1>1. /\ at[t] = "launch"
      /\ at'[t] = "finish"
      /\ \A b \in Actors : b # t => at'[b] = at[b]
      /\ UNCHANGED <<node, faults, cache, computing, running, spare, prefetching, store, frames,
                     outputs, want, job, plane, held, queued, computers, permits, asked>>
  BY <1>0, ActorSets DEF LaunchFails, ClipTyped, At, MoveTo, fixedVars, sharedVars, deviceVars,
     storageVars, permitVars, CallerPlaces, HelperPlaces, Claiming, Copying, Computes, Filling,
     Slotted
<1>2. CachedStores' = CachedStores
  BY <1>1 DEF CachedStores
<1>3. HeldStores' = HeldStores
  BY <1>1 DEF HeldStores
<1>20. ClipTyped'
  <2>1. at' \in [Actors -> CallerPlaces \cup HelperPlaces]
    BY <1>0, ActorSets DEF LaunchFails, ClipTyped, At, MoveTo, fixedVars, sharedVars, deviceVars,
       storageVars, permitVars, CallerPlaces, HelperPlaces, Claiming, Copying, Computes, Filling,
       Slotted, ChunkNumbers, NoChunk, NoStore
  <2>2. /\ \A b \in Callers : at'[b] \in CallerPlaces /\ (at'[b] # "out" => want'[b] \in Nat)
        /\ \A b \in Helpers : at'[b] \in HelperPlaces
    BY <1>0, <1>1, ActorSets DEF ClipTyped, CallerPlaces, HelperPlaces, Claiming, Copying,
       Computes, Filling, Slotted
  <2>3. /\ node' \in Nodes /\ cache' \in Seq(CacheEntries) /\ computing' \subseteq Nat /\ running' \subseteq Nat
        /\ spare' \subseteq Stores /\ prefetching' \in Int /\ frames' = [p \in {0, 1} |-> frames'[p]]
        /\ computers' \subseteq Callers /\ permits' \subseteq Callers
    BY <1>0, <1>1, ActorSets DEF ClipTyped
  <2> QED BY <1>1, <1>0, <2>1, <2>2, <2>3 DEF ClipTyped
<1>21. ClaimsKept'
  <2>1. \A b \in Actors : ClaimRight(b)'
    BY <1>0, <1>1, ActorSets DEF ClaimsKept, ClaimRight, NoChunk, ChunkNumbers, CallerPlaces,
       HelperPlaces, Claiming, Copying, Computes, Filling, Slotted, ClipTyped
  <2>2. ASSUME NEW b \in Actors, NEW c \in Actors, job'[b] = job'[c], job'[b] # NoChunk
        PROVE  b = c
    BY <2>2, <1>0, <1>1 DEF ClaimsKept
  <2> QED BY <2>1, <2>2 DEF ClaimsKept
<1>22. CacheKept' /\ HitsKept' /\ RoomKept'
  <2>1. \A w \in CachedStores : store'[w].first = store[w].first /\ store[w].first \notin computing'
    BY <1>0, <1>1 DEF CacheKept
  <2>2. ASSUME NEW b \in Actors
        PROVE  \/ at'[b] = at[b]
               \/ {at[b], at'[b]} \subseteq Copying
               \/ {at[b], at'[b]} \cap (Copying \cup {"unread", "evict"}) = {}
    BY <1>1 DEF Copying
  <2>3. ASSUME NEW b \in Callers, at[b] \in Copying \cup {"unread"}
        PROVE  want'[b] = want[b] /\ (b \in computers' <=> b \in computers)
    BY <2>3, <1>1, ActorSets DEF Copying
  <2>4. ASSUME NEW b \in Callers, at'[b] = "asleep"
        PROVE  want'[b] \in computing'
    BY <2>4, <1>0, <1>1, ActorSets DEF CacheKept, SleepsFor
  <2> QED BY <2>1, <2>2, <2>3, <2>4, <1>1, ListsStay DEF ListsAside
<1>23. HoldsKept'
  <2>1. spare' \cap (CachedStores' \cup HeldStores') = {}
    BY <1>0, <1>1, <1>2, <1>3 DEF HoldsKept
  <2>2. \A b \in Actors : HoldRight(b)'
    BY <1>0, <1>1, ActorSets, <1>2 DEF HoldsKept, HoldRight, NoStore, CallerPlaces, HelperPlaces,
       Claiming, Copying, Computes, Filling, Slotted, ClipTyped
  <2>3. ASSUME NEW b \in Actors, NEW c \in Actors,
               at'[b] \in Filling \cup {"finish"}, held'[b] # NoStore, held'[c] = held'[b]
        PROVE  c = b
    BY <2>3, <1>0, <1>1, ActorSets DEF HoldsKept, HoldRight, CallerPlaces, HelperPlaces, Claiming,
       Copying, Computes, Filling, Slotted
  <2> QED BY <2>1, <2>2, <2>3 DEF HoldsKept
<1>25. SlotsKept'
  <2>1. SlotsAside
    BY <1>1 DEF SlotsAside, InSlot
  <2> QED BY <2>1, <1>0, SlotsStay
<1>26. DataKept'
  <2>1. DataAside
    BY <1>0, <1>1, <1>2, ActorSets DEF DataAside, Resting, ClipTyped, ClaimsKept, ClaimRight,
       HoldsKept, HoldRight, CallerPlaces, HelperPlaces, Claiming, Copying, Computes, Filling,
       Slotted
  <2> QED BY <2>1, <1>0, DataStays
<1>27. ReservedKept'
  <2>1. Prefetchers' = Prefetchers
    BY <1>0, <1>1, ActorSets DEF Prefetchers, ClaimsKept, ClaimRight, CallerPlaces, HelperPlaces,
       Claiming, Copying, Computes, Filling, Slotted
  <2> QED BY <2>1, <1>0, <1>1 DEF ReservedKept
<1>28. PermitsKept'
  <2>1. {b \in Callers : At(b, "copy")}' = {b \in Callers : At(b, "copy")}
    BY <1>0, <1>1, ActorSets DEF At
  <2> QED BY <2>1, <1>0, <1>1 DEF PermitsKept
<1> QED BY <1>20, <1>21, <1>22, <1>23, <1>25, <1>26, <1>27, <1>28 DEF ClipInv

\* A request reads a cached chunk.
LEMMA HitOfKeeps ==
    ASSUME Bm4dAssumption, ClipInv, NEW t \in Callers, NEW i, HitOf(t, i)
    PROVE  ClipInv'
<1>0. /\ ClipTyped /\ ClaimsKept /\ CacheKept /\ HoldsKept /\ HitsKept /\ SlotsKept /\ DataKept
      /\ ReservedKept /\ PermitsKept /\ RoomKept
  BY ClipParts
<1>1. /\ at[t] = "look" /\ i \in DOMAIN cache /\ store[cache[i].store].first = want[t]
      /\ cache' = ReadAt(cache, i)
      /\ held'[t] = cache[i].store
      /\ \A b \in Actors : b # t => held'[b] = held[b]
      /\ at'[t] = "output"
      /\ \A b \in Actors : b # t => at'[b] = at[b]
      /\ UNCHANGED <<node, faults, computing, running, spare, prefetching, store, frames, outputs,
                     want, job, plane, queued, computers, permits, asked>>
  <2>1. i \in DOMAIN cache /\ store[cache[i].store].first = want[t]
    BY DEF HitOf, CachedAt
  <2> QED BY <2>1, <1>0, ActorSets DEF HitOf, ClipTyped, At, MoveTo, fixedVars, sharedVars,
          deviceVars, storageVars, permitVars
<1>2. /\ cache' \in Seq(CacheEntries) /\ Once(cache') /\ StoresOf(cache') = StoresOf(cache) /\ ReadOf(cache', cache, i)
  <2>1. cache \in Seq(CacheEntries) /\ Once(cache) /\ i \in DOMAIN cache
    BY <1>0, <1>1 DEF ClipTyped, CacheKept
  <2> QED BY <2>1, <1>1, ReadListed
<1>3. CachedStores' = CachedStores
  BY <1>2 DEF CachedStores, StoresOf
<1>4. cache[i].store \in CachedStores /\ cache[i].store \in Stores /\ held[t] = NoStore /\ t \notin computers
  BY <1>0, <1>1, SetsFinite, ActorSets DEF CachedStores, HoldsKept, HoldRight, ClaimsKept,
     ClaimRight, CallerPlaces, HelperPlaces, Claiming, Copying, Computes, Filling, Slotted
<1>5. HeldStores' \subseteq HeldStores \cup CachedStores
  BY <1>1, <1>4 DEF HeldStores
<1>6. \A w \in CachedStores' : w \in CachedStores /\ store'[w] = store[w]
  BY <1>1, <1>3
<1>20. ClipTyped'
  <2>1. at' \in [Actors -> CallerPlaces \cup HelperPlaces]
    BY <1>0, ActorSets DEF HitOf, ClipTyped, At, MoveTo, fixedVars, sharedVars, deviceVars,
       storageVars, permitVars, CachedAt, CallerPlaces, HelperPlaces, Claiming, Copying, Computes,
       Filling, Slotted, ChunkNumbers, NoChunk, NoStore
  <2>2. held' \in [Actors -> Stores \cup {NoStore}]
    BY <1>0, <1>4, ActorSets DEF HitOf, ClipTyped
  <2>3. /\ \A b \in Callers : at'[b] \in CallerPlaces /\ (at'[b] # "out" => want'[b] \in Nat)
        /\ \A b \in Helpers : at'[b] \in HelperPlaces
    BY <1>0, <1>1, ActorSets DEF ClipTyped, CallerPlaces, HelperPlaces, Claiming, Copying,
       Computes, Filling, Slotted
  <2>4. /\ node' \in Nodes /\ cache' \in Seq(CacheEntries) /\ computing' \subseteq Nat /\ running' \subseteq Nat
        /\ spare' \subseteq Stores /\ prefetching' \in Int /\ frames' = [p \in {0, 1} |-> frames'[p]]
        /\ computers' \subseteq Callers /\ permits' \subseteq Callers
    BY <1>0, <1>1, <1>2, ActorSets DEF ClipTyped
  <2> QED BY <1>1, <1>0, <2>1, <2>2, <2>3, <2>4 DEF ClipTyped
<1>21. ClaimsKept'
  <2>1. \A b \in Actors : ClaimRight(b)'
    BY <1>0, <1>1, ActorSets DEF ClaimsKept, ClaimRight, NoChunk, ChunkNumbers, CallerPlaces,
       HelperPlaces, Claiming, Copying, Computes, Filling, Slotted, ClipTyped
  <2>2. ASSUME NEW b \in Actors, NEW c \in Actors, job'[b] = job'[c], job'[b] # NoChunk
        PROVE  b = c
    BY <2>2, <1>0, <1>1 DEF ClaimsKept
  <2> QED BY <2>1, <2>2 DEF ClaimsKept
<1>22. CacheKept'
  <2>1. Once(cache)'
    BY <1>2 DEF Once
  <2>2. \A w, v \in CachedStores' : store'[w].first = store'[v].first => w = v
    BY <1>0, <1>6 DEF CacheKept
  <2>3. \A w \in CachedStores' : store'[w].first \in Nat \ computing'
    BY <1>0, <1>1, <1>6 DEF CacheKept
  <2>4. \A b \in Callers : SleepsFor(b)'
    BY <1>0, <1>1, ActorSets DEF CacheKept, SleepsFor, ClipTyped
  <2> QED BY <2>1, <2>2, <2>3, <2>4 DEF CacheKept
<1>23. HoldsKept'
  <2>1. spare' \cap (CachedStores' \cup HeldStores') = {}
    BY <1>0, <1>1, <1>3, <1>5 DEF HoldsKept
  <2>2. ASSUME NEW b \in Actors
        PROVE  HoldRight(b)'
    <3>0. HoldRight(b)
      BY <1>0 DEF HoldsKept
    <3>1. CASE b = t
      BY <3>0, <3>1, <1>0, <1>1, ActorSets, <1>4, <1>3 DEF HoldRight, NoStore, CallerPlaces,
         HelperPlaces, Claiming, Copying, Computes, Filling, Slotted, ClipTyped
    <3>2. CASE b # t
      BY <3>0, <3>2, <1>1, <1>4, <1>3 DEF HoldRight, NoStore, CallerPlaces, HelperPlaces, Claiming,
         Copying, Computes, Filling, Slotted
    <3> QED BY <3>1, <3>2
  <2>3. ASSUME NEW b \in Actors, NEW c \in Actors,
               at'[b] \in Filling \cup {"finish"}, held'[b] # NoStore, held'[c] = held'[b]
        PROVE  c = b
    BY <2>3, <1>0, <1>1, <1>4, ActorSets DEF HoldsKept, HoldRight, CallerPlaces, HelperPlaces,
       Claiming, Copying, Computes, Filling, Slotted
  <2> QED BY <2>1, <2>2, <2>3 DEF HoldsKept
<1>24. HitsKept'
  <2>1. ASSUME NEW b \in Callers
        PROVE  IsHit(b)' <=> (IsHit(b) \/ b = t)
    BY <1>0, <1>1, <1>4, ActorSets DEF IsHit, Copying
  <2>2. ~IsHit(t)
    BY <1>1 DEF IsHit, Copying
  <2>3. ASSUME NEW n \in ChunkNumbers
        PROVE  Hits'[n] = IF n = want[t] THEN Hits[n] \cup {t} ELSE Hits[n]
    BY <2>1, <1>1 DEF Hits
  <2>4. ASSUME NEW k \in DOMAIN cache'
        PROVE  ReadersRight(cache[k])'
    <3>1. PICK j \in DOMAIN cache :
               /\ cache'[k].store = cache[j].store
               /\ cache'[k].readers = IF j = i THEN cache[j].readers + 1 ELSE cache[j].readers
      BY <1>2 DEF ReadOf
    <3> DEFINE n == store[cache[j].store].first
    <3>2. n \in ChunkNumbers /\ cache[j].readers = Cardinality(Hits[n]) /\ cache[j].store \in CachedStores
      BY <3>1, <1>0, SetsFinite DEF HitsKept, ReadersRight, ClipTyped, Contents, CachedStores
    <3>3. store'[cache'[k].store].first = n
      BY <3>1, <1>1
    <3>4. CASE j = i
      <4>1. n = want[t] /\ Hits'[n] = Hits[n] \cup {t}
        BY <3>4, <3>2, <1>1, <2>3
      <4>2. t \notin Hits[n] /\ Hits[n] \in SUBSET Callers
        BY <2>2, <3>2 DEF Hits
      <4>3. IsFiniteSet(Hits[n])
        BY <4>2, ActorSets, FS_Subset
      <4>4. Cardinality(Hits[n] \cup {t}) = Cardinality(Hits[n]) + 1
        BY <4>2, <4>3, FS_AddElement
      <4> QED BY <4>1, <4>4, <3>1, <3>2, <3>3, <3>4 DEF ReadersRight
    <3>5. CASE j # i
      <4>1. cache[j].store # cache[i].store
        BY <3>5, <1>0, <1>1 DEF CacheKept, Once
      <4>2. n # want[t]
        BY <4>1, <3>2, <1>0, <1>1, <1>4 DEF CacheKept
      <4> QED BY <4>2, <3>1, <3>2, <3>3, <3>5, <2>3 DEF ReadersRight
    <3> QED BY <3>4, <3>5
  <2>5. ASSUME NEW b \in Callers
        PROVE  HitRight(b)'
    <3>1. CASE b = t
      BY <3>1, <1>1, <1>4, <1>3, ActorSets DEF HitRight
    <3>2. CASE b # t
      BY <3>2, <2>1, <1>0, <1>1, <1>3, ActorSets DEF HitsKept, HitRight
    <3> QED BY <3>1, <3>2
  <2> QED BY <2>4, <2>5 DEF HitsKept
<1>25. SlotsKept'
  <2>1. SlotsAside
    BY <1>1 DEF SlotsAside, InSlot
  <2> QED BY <2>1, <1>0, SlotsStay
<1>26. DataKept'
  <2> SUFFICES ASSUME ~node.gpu PROVE (\A b \in Actors : FilledTo(b)') /\ \A w \in CachedStores' : store'[w].planes = 1 .. node.planes
    BY <1>1 DEF DataKept
  <2>0. (\A b \in Actors : FilledTo(b)) /\ \A w \in CachedStores : store[w].planes = 1 .. node.planes
    BY <1>0 DEF DataKept
  <2>1. ASSUME NEW b \in Actors
        PROVE  FilledTo(b)'
    <3>1. CASE b = t
      <4>1. store[cache[i].store].planes = 1 .. node.planes
        BY <2>0, <1>4
      <4> QED BY <2>0, <3>1, <4>1, <1>1, ActorSets DEF FilledTo, PlanesHeld, CallerPlaces,
              HelperPlaces, Claiming, Copying, Computes, Filling, Slotted
    <3>2. CASE b # t
      BY <2>0, <3>2, <1>1 DEF FilledTo, PlanesHeld
    <3> QED BY <3>1, <3>2
  <2>2. \A w \in CachedStores' : store'[w].planes = 1 .. node.planes
    BY <2>0, <1>6
  <2> QED BY <2>1, <2>2
<1>27. ReservedKept'
  <2>1. Prefetchers' = Prefetchers
    BY <1>0, <1>1, ActorSets DEF Prefetchers, ClaimsKept, ClaimRight, CallerPlaces, HelperPlaces,
       Claiming, Copying, Computes, Filling, Slotted
  <2> QED BY <2>1, <1>0, <1>1 DEF ReservedKept
<1>28. PermitsKept'
  <2>1. {b \in Callers : At(b, "copy")}' = {b \in Callers : At(b, "copy")}
    BY <1>0, <1>1, ActorSets DEF At
  <2> QED BY <2>1, <1>0, <1>1 DEF PermitsKept
<1>29. RoomKept'
  <2>1. StoresCounted'
    <3>1. LiveStores' \subseteq LiveStores
      BY <1>1, <1>3, <1>5 DEF LiveStores
    <3> QED BY <3>1, <1>0, LiveLess
  <2>2. Evicting' = Evicting /\ \A b \in Evicting : held'[b] = held[b]
    BY <1>0, <1>1, ActorSets DEF Evicting, At
  <2>3. InTheWay' = InTheWay
    BY <2>2, <1>3 DEF InTheWay
  <2> QED BY <2>1, <2>2, <2>3, <1>0, SetsFinite, FS_Subset, FS_CardinalityType, ActorSets
          DEF RoomKept, StoresCounted
<1> QED BY <1>20, <1>21, <1>22, <1>23, <1>24, <1>25, <1>26, <1>27, <1>28, <1>29 DEF ClipInv

\* A request sleeps while its chunk is computed.
LEMMA WaitForOtherKeeps ==
    ASSUME Bm4dAssumption, ClipInv, NEW t \in Callers, WaitForOther(t)
    PROVE  ClipInv'
<1>0. /\ ClipTyped /\ ClaimsKept /\ CacheKept /\ HoldsKept /\ HitsKept /\ SlotsKept /\ DataKept
      /\ ReservedKept /\ PermitsKept /\ RoomKept
  BY ClipParts
<1>1. /\ at[t] = "look" /\ want[t] \in computing
      /\ at'[t] = "asleep"
      /\ \A b \in Actors : b # t => at'[b] = at[b]
      /\ UNCHANGED <<node, faults, cache, computing, running, spare, prefetching, store, frames,
                     outputs, want, job, plane, held, queued, computers, permits, asked>>
  BY <1>0, ActorSets DEF WaitForOther, ClipTyped, At, MoveTo, fixedVars, sharedVars, deviceVars,
     storageVars, permitVars, IsComputing, CallerPlaces, HelperPlaces, Claiming, Copying, Computes,
     Filling, Slotted
<1>2. CachedStores' = CachedStores
  BY <1>1 DEF CachedStores
<1>3. HeldStores' = HeldStores
  BY <1>1 DEF HeldStores
<1>20. ClipTyped'
  <2>1. at' \in [Actors -> CallerPlaces \cup HelperPlaces]
    BY <1>0, ActorSets DEF WaitForOther, ClipTyped, At, MoveTo, fixedVars, sharedVars, deviceVars,
       storageVars, permitVars, IsComputing, CallerPlaces, HelperPlaces, Claiming, Copying,
       Computes, Filling, Slotted, ChunkNumbers, NoChunk, NoStore
  <2>2. /\ \A b \in Callers : at'[b] \in CallerPlaces /\ (at'[b] # "out" => want'[b] \in Nat)
        /\ \A b \in Helpers : at'[b] \in HelperPlaces
    BY <1>0, <1>1, ActorSets DEF ClipTyped, CallerPlaces, HelperPlaces, Claiming, Copying,
       Computes, Filling, Slotted
  <2>3. /\ node' \in Nodes /\ cache' \in Seq(CacheEntries) /\ computing' \subseteq Nat /\ running' \subseteq Nat
        /\ spare' \subseteq Stores /\ prefetching' \in Int /\ frames' = [p \in {0, 1} |-> frames'[p]]
        /\ computers' \subseteq Callers /\ permits' \subseteq Callers
    BY <1>0, <1>1, ActorSets DEF ClipTyped
  <2> QED BY <1>1, <1>0, <2>1, <2>2, <2>3 DEF ClipTyped
<1>21. ClaimsKept'
  <2>1. \A b \in Actors : ClaimRight(b)'
    BY <1>0, <1>1, ActorSets DEF ClaimsKept, ClaimRight, NoChunk, ChunkNumbers, CallerPlaces,
       HelperPlaces, Claiming, Copying, Computes, Filling, Slotted, ClipTyped
  <2>2. ASSUME NEW b \in Actors, NEW c \in Actors, job'[b] = job'[c], job'[b] # NoChunk
        PROVE  b = c
    BY <2>2, <1>0, <1>1 DEF ClaimsKept
  <2> QED BY <2>1, <2>2 DEF ClaimsKept
<1>22. CacheKept' /\ HitsKept' /\ RoomKept'
  <2>1. \A w \in CachedStores : store'[w].first = store[w].first /\ store[w].first \notin computing'
    BY <1>0, <1>1 DEF CacheKept
  <2>2. ASSUME NEW b \in Actors
        PROVE  \/ at'[b] = at[b]
               \/ {at[b], at'[b]} \subseteq Copying
               \/ {at[b], at'[b]} \cap (Copying \cup {"unread", "evict"}) = {}
    BY <1>1 DEF Copying
  <2>3. ASSUME NEW b \in Callers, at[b] \in Copying \cup {"unread"}
        PROVE  want'[b] = want[b] /\ (b \in computers' <=> b \in computers)
    BY <2>3, <1>1, ActorSets DEF Copying
  <2>4. ASSUME NEW b \in Callers, at'[b] = "asleep"
        PROVE  want'[b] \in computing'
    BY <2>4, <1>0, <1>1, ActorSets DEF CacheKept, SleepsFor
  <2> QED BY <2>1, <2>2, <2>3, <2>4, <1>1, ListsStay DEF ListsAside
<1>23. HoldsKept'
  <2>1. spare' \cap (CachedStores' \cup HeldStores') = {}
    BY <1>0, <1>1, <1>2, <1>3 DEF HoldsKept
  <2>2. \A b \in Actors : HoldRight(b)'
    BY <1>0, <1>1, ActorSets, <1>2 DEF HoldsKept, HoldRight, NoStore, CallerPlaces, HelperPlaces,
       Claiming, Copying, Computes, Filling, Slotted, ClipTyped
  <2>3. ASSUME NEW b \in Actors, NEW c \in Actors,
               at'[b] \in Filling \cup {"finish"}, held'[b] # NoStore, held'[c] = held'[b]
        PROVE  c = b
    BY <2>3, <1>0, <1>1, ActorSets DEF HoldsKept, HoldRight, CallerPlaces, HelperPlaces, Claiming,
       Copying, Computes, Filling, Slotted
  <2> QED BY <2>1, <2>2, <2>3 DEF HoldsKept
<1>25. SlotsKept'
  <2>1. SlotsAside
    BY <1>1 DEF SlotsAside, InSlot
  <2> QED BY <2>1, <1>0, SlotsStay
<1>26. DataKept'
  <2>1. DataAside
    BY <1>0, <1>1, <1>2, ActorSets DEF DataAside, Resting, ClipTyped, ClaimsKept, ClaimRight,
       HoldsKept, HoldRight, CallerPlaces, HelperPlaces, Claiming, Copying, Computes, Filling,
       Slotted
  <2> QED BY <2>1, <1>0, DataStays
<1>27. ReservedKept'
  <2>1. Prefetchers' = Prefetchers
    BY <1>0, <1>1, ActorSets DEF Prefetchers, ClaimsKept, ClaimRight, CallerPlaces, HelperPlaces,
       Claiming, Copying, Computes, Filling, Slotted
  <2> QED BY <2>1, <1>0, <1>1 DEF ReservedKept
<1>28. PermitsKept'
  <2>1. {b \in Callers : At(b, "copy")}' = {b \in Callers : At(b, "copy")}
    BY <1>0, <1>1, ActorSets DEF At
  <2> QED BY <2>1, <1>0, <1>1 DEF PermitsKept
<1> QED BY <1>20, <1>21, <1>22, <1>23, <1>25, <1>26, <1>27, <1>28 DEF ClipInv

\* A request claims its own chunk.
LEMMA MissKeeps ==
    ASSUME Bm4dAssumption, ClipInv, NEW t \in Callers, Miss(t)
    PROVE  ClipInv'
<1>0. /\ ClipTyped /\ ClaimsKept /\ CacheKept /\ HoldsKept /\ HitsKept /\ SlotsKept /\ DataKept
      /\ ReservedKept /\ PermitsKept /\ RoomKept
  BY ClipParts
<1>1. /\ at[t] = "look" /\ want[t] \in Nat /\ want[t] \notin computing
      /\ \A s \in CachedStores : store[s].first # want[t]
      /\ computing' = computing \cup {want[t]}
      /\ at'[t] = "permit"
      /\ \A b \in Actors : b # t => at'[b] = at[b]
      /\ job'[t] = want[t]
      /\ \A b \in Actors : b # t => job'[b] = job[b]
      /\ UNCHANGED <<node, faults, cache, running, spare, prefetching, store, frames, outputs,
                     want, plane, held, queued, computers, permits, asked>>
  BY <1>0, ActorSets DEF Miss, ClipTyped, At, MoveTo, fixedVars, sharedVars, deviceVars,
     storageVars, permitVars, CachedAt, CachedStores, IsComputing, CallerPlaces, HelperPlaces,
     Claiming, Copying, Computes, Filling, Slotted
<1>2. CachedStores' = CachedStores
  BY <1>1 DEF CachedStores
<1>3. HeldStores' = HeldStores
  BY <1>1 DEF HeldStores
<1>20. ClipTyped'
  <2>1. at' \in [Actors -> CallerPlaces \cup HelperPlaces]
    BY <1>0, ActorSets DEF Miss, ClipTyped, At, MoveTo, fixedVars, sharedVars, deviceVars,
       storageVars, permitVars, CachedAt, CachedStores, IsComputing, CallerPlaces, HelperPlaces,
       Claiming, Copying, Computes, Filling, Slotted, ChunkNumbers, NoChunk, NoStore
  <2>2. job' \in [Actors -> ChunkNumbers]
    BY <1>0, ActorSets DEF Miss, ClipTyped, At, MoveTo, fixedVars, sharedVars, deviceVars,
       storageVars, permitVars, CachedAt, CachedStores, IsComputing, CallerPlaces, HelperPlaces,
       Claiming, Copying, Computes, Filling, Slotted, ChunkNumbers, NoChunk, NoStore
  <2>3. /\ \A b \in Callers : at'[b] \in CallerPlaces /\ (at'[b] # "out" => want'[b] \in Nat)
        /\ \A b \in Helpers : at'[b] \in HelperPlaces
    BY <1>0, <1>1, ActorSets DEF ClipTyped, CallerPlaces, HelperPlaces, Claiming, Copying,
       Computes, Filling, Slotted
  <2>4. /\ node' \in Nodes /\ cache' \in Seq(CacheEntries) /\ computing' \subseteq Nat /\ running' \subseteq Nat
        /\ spare' \subseteq Stores /\ prefetching' \in Int /\ frames' = [p \in {0, 1} |-> frames'[p]]
        /\ computers' \subseteq Callers /\ permits' \subseteq Callers
    BY <1>0, <1>1, ActorSets DEF ClipTyped
  <2> QED BY <1>1, <1>0, <2>1, <2>2, <2>3, <2>4 DEF ClipTyped
<1>21. ClaimsKept'
  <2>1. ASSUME NEW b \in Actors
        PROVE  ClaimRight(b)'
    <3>0. ClaimRight(b)
      BY <1>0 DEF ClaimsKept
    <3>1. CASE b = t
      BY <3>0, <3>1, <1>0, <1>1, ActorSets DEF ClaimRight, NoChunk, ChunkNumbers, CallerPlaces,
         HelperPlaces, Claiming, Copying, Computes, Filling, Slotted, ClipTyped
    <3>2. CASE b # t
      BY <3>0, <3>2, <1>1 DEF ClaimRight, NoChunk, ChunkNumbers, CallerPlaces, HelperPlaces,
         Claiming, Copying, Computes, Filling, Slotted
    <3> QED BY <3>1, <3>2
  <2>2. ASSUME NEW b \in Actors, NEW c \in Actors, job'[b] = job'[c], job'[b] # NoChunk
        PROVE  b = c
    BY <2>2, <1>0, <1>1 DEF ClaimsKept, ClaimRight, ClipTyped, NoChunk, CallerPlaces, HelperPlaces,
       Claiming, Copying, Computes, Filling, Slotted
  <2> QED BY <2>1, <2>2 DEF ClaimsKept
<1>22. CacheKept' /\ HitsKept' /\ RoomKept'
  <2>1. \A w \in CachedStores : store'[w].first = store[w].first /\ store[w].first \notin computing'
    BY <1>0, <1>1 DEF CacheKept
  <2>2. ASSUME NEW b \in Actors
        PROVE  \/ at'[b] = at[b]
               \/ {at[b], at'[b]} \subseteq Copying
               \/ {at[b], at'[b]} \cap (Copying \cup {"unread", "evict"}) = {}
    BY <1>1 DEF Copying
  <2>3. ASSUME NEW b \in Callers, at[b] \in Copying \cup {"unread"}
        PROVE  want'[b] = want[b] /\ (b \in computers' <=> b \in computers)
    BY <2>3, <1>1, ActorSets DEF Copying
  <2>4. ASSUME NEW b \in Callers, at'[b] = "asleep"
        PROVE  want'[b] \in computing'
    BY <2>4, <1>0, <1>1, ActorSets DEF CacheKept, SleepsFor
  <2> QED BY <2>1, <2>2, <2>3, <2>4, <1>1, ListsStay DEF ListsAside
<1>23. HoldsKept'
  <2>1. spare' \cap (CachedStores' \cup HeldStores') = {}
    BY <1>0, <1>1, <1>2, <1>3 DEF HoldsKept
  <2>2. \A b \in Actors : HoldRight(b)'
    BY <1>0, <1>1, ActorSets, <1>2 DEF HoldsKept, HoldRight, NoStore, CallerPlaces, HelperPlaces,
       Claiming, Copying, Computes, Filling, Slotted, ClipTyped
  <2>3. ASSUME NEW b \in Actors, NEW c \in Actors,
               at'[b] \in Filling \cup {"finish"}, held'[b] # NoStore, held'[c] = held'[b]
        PROVE  c = b
    BY <2>3, <1>0, <1>1, ActorSets DEF HoldsKept, HoldRight, CallerPlaces, HelperPlaces, Claiming,
       Copying, Computes, Filling, Slotted
  <2> QED BY <2>1, <2>2, <2>3 DEF HoldsKept
<1>25. SlotsKept'
  <2>1. SlotsAside
    BY <1>1 DEF SlotsAside, InSlot
  <2> QED BY <2>1, <1>0, SlotsStay
<1>26. DataKept'
  <2>1. DataAside
    BY <1>0, <1>1, <1>2, ActorSets DEF DataAside, Resting, ClipTyped, ClaimsKept, ClaimRight,
       HoldsKept, HoldRight, CallerPlaces, HelperPlaces, Claiming, Copying, Computes, Filling,
       Slotted
  <2> QED BY <2>1, <1>0, DataStays
<1>27. ReservedKept'
  <2>1. Prefetchers' = Prefetchers
    BY <1>0, <1>1, ActorSets DEF Prefetchers, ClaimsKept, ClaimRight, CallerPlaces, HelperPlaces,
       Claiming, Copying, Computes, Filling, Slotted
  <2> QED BY <2>1, <1>0, <1>1 DEF ReservedKept
<1>28. PermitsKept'
  <2>1. {b \in Callers : At(b, "copy")}' = {b \in Callers : At(b, "copy")}
    BY <1>0, <1>1, ActorSets DEF At
  <2> QED BY <2>1, <1>0, <1>1 DEF PermitsKept
<1> QED BY <1>20, <1>21, <1>22, <1>23, <1>25, <1>26, <1>27, <1>28 DEF ClipInv

\* A request gets a compute permit.
LEMMA TakeComputerKeeps ==
    ASSUME Bm4dAssumption, ClipInv, NEW t \in Callers, TakeComputer(t)
    PROVE  ClipInv'
<1>0. /\ ClipTyped /\ ClaimsKept /\ CacheKept /\ HoldsKept /\ HitsKept /\ SlotsKept /\ DataKept
      /\ ReservedKept /\ PermitsKept /\ RoomKept
  BY ClipParts
<1>1. /\ at[t] = "permit" /\ Cardinality(computers) < Computers
      /\ computers' = computers \cup {t}
      /\ at'[t] = "store"
      /\ \A b \in Actors : b # t => at'[b] = at[b]
      /\ UNCHANGED <<node, faults, cache, computing, running, spare, prefetching, store, frames,
                     outputs, want, job, plane, held, queued, permits, asked>>
  BY <1>0, ActorSets DEF TakeComputer, ClipTyped, At, MoveTo, fixedVars, sharedVars, deviceVars,
     storageVars, permitVars, CallerPlaces, HelperPlaces, Claiming, Copying, Computes, Filling,
     Slotted
<1>2. CachedStores' = CachedStores
  BY <1>1 DEF CachedStores
<1>3. HeldStores' = HeldStores
  BY <1>1 DEF HeldStores
<1>20. ClipTyped'
  <2>1. at' \in [Actors -> CallerPlaces \cup HelperPlaces]
    BY <1>0, ActorSets DEF TakeComputer, ClipTyped, At, MoveTo, fixedVars, sharedVars, deviceVars,
       storageVars, permitVars, CallerPlaces, HelperPlaces, Claiming, Copying, Computes, Filling,
       Slotted, ChunkNumbers, NoChunk, NoStore
  <2>2. /\ \A b \in Callers : at'[b] \in CallerPlaces /\ (at'[b] # "out" => want'[b] \in Nat)
        /\ \A b \in Helpers : at'[b] \in HelperPlaces
    BY <1>0, <1>1, ActorSets DEF ClipTyped, CallerPlaces, HelperPlaces, Claiming, Copying,
       Computes, Filling, Slotted
  <2>3. /\ node' \in Nodes /\ cache' \in Seq(CacheEntries) /\ computing' \subseteq Nat /\ running' \subseteq Nat
        /\ spare' \subseteq Stores /\ prefetching' \in Int /\ frames' = [p \in {0, 1} |-> frames'[p]]
        /\ computers' \subseteq Callers /\ permits' \subseteq Callers
    BY <1>0, <1>1, ActorSets DEF ClipTyped
  <2> QED BY <1>1, <1>0, <2>1, <2>2, <2>3 DEF ClipTyped
<1>21. ClaimsKept'
  <2>1. \A b \in Actors : ClaimRight(b)'
    BY <1>0, <1>1, ActorSets DEF ClaimsKept, ClaimRight, NoChunk, ChunkNumbers, CallerPlaces,
       HelperPlaces, Claiming, Copying, Computes, Filling, Slotted, ClipTyped
  <2>2. ASSUME NEW b \in Actors, NEW c \in Actors, job'[b] = job'[c], job'[b] # NoChunk
        PROVE  b = c
    BY <2>2, <1>0, <1>1 DEF ClaimsKept
  <2> QED BY <2>1, <2>2 DEF ClaimsKept
<1>22. CacheKept' /\ HitsKept' /\ RoomKept'
  <2>1. \A w \in CachedStores : store'[w].first = store[w].first /\ store[w].first \notin computing'
    BY <1>0, <1>1 DEF CacheKept
  <2>2. ASSUME NEW b \in Actors
        PROVE  \/ at'[b] = at[b]
               \/ {at[b], at'[b]} \subseteq Copying
               \/ {at[b], at'[b]} \cap (Copying \cup {"unread", "evict"}) = {}
    BY <1>1 DEF Copying
  <2>3. ASSUME NEW b \in Callers, at[b] \in Copying \cup {"unread"}
        PROVE  want'[b] = want[b] /\ (b \in computers' <=> b \in computers)
    BY <2>3, <1>1, ActorSets DEF Copying
  <2>4. ASSUME NEW b \in Callers, at'[b] = "asleep"
        PROVE  want'[b] \in computing'
    BY <2>4, <1>0, <1>1, ActorSets DEF CacheKept, SleepsFor
  <2> QED BY <2>1, <2>2, <2>3, <2>4, <1>1, ListsStay DEF ListsAside
<1>23. HoldsKept'
  <2>1. spare' \cap (CachedStores' \cup HeldStores') = {}
    BY <1>0, <1>1, <1>2, <1>3 DEF HoldsKept
  <2>2. \A b \in Actors : HoldRight(b)'
    BY <1>0, <1>1, ActorSets, <1>2 DEF HoldsKept, HoldRight, NoStore, CallerPlaces, HelperPlaces,
       Claiming, Copying, Computes, Filling, Slotted, ClipTyped
  <2>3. ASSUME NEW b \in Actors, NEW c \in Actors,
               at'[b] \in Filling \cup {"finish"}, held'[b] # NoStore, held'[c] = held'[b]
        PROVE  c = b
    BY <2>3, <1>0, <1>1, ActorSets DEF HoldsKept, HoldRight, CallerPlaces, HelperPlaces, Claiming,
       Copying, Computes, Filling, Slotted
  <2> QED BY <2>1, <2>2, <2>3 DEF HoldsKept
<1>25. SlotsKept'
  <2>1. SlotsAside
    BY <1>1 DEF SlotsAside, InSlot
  <2> QED BY <2>1, <1>0, SlotsStay
<1>26. DataKept'
  <2>1. DataAside
    BY <1>0, <1>1, <1>2, ActorSets DEF DataAside, Resting, ClipTyped, ClaimsKept, ClaimRight,
       HoldsKept, HoldRight, CallerPlaces, HelperPlaces, Claiming, Copying, Computes, Filling,
       Slotted
  <2> QED BY <2>1, <1>0, DataStays
<1>27. ReservedKept'
  <2>1. Prefetchers' = Prefetchers
    BY <1>0, <1>1, ActorSets DEF Prefetchers, ClaimsKept, ClaimRight, CallerPlaces, HelperPlaces,
       Claiming, Copying, Computes, Filling, Slotted
  <2> QED BY <2>1, <1>0, <1>1 DEF ReservedKept
<1>28. PermitsKept'
  <2>1. {b \in Callers : At(b, "copy")}' = {b \in Callers : At(b, "copy")}
    BY <1>0, <1>1, ActorSets DEF At
  <2>2. IsFiniteSet(computers) /\ Cardinality(computers) \in Nat
    BY <1>0, SetsFinite, FS_CardinalityType
  <2>3. Cardinality(computers \cup {t}) \in {Cardinality(computers), Cardinality(computers) + 1}
    BY <2>2, FS_AddElement
  <2> QED BY <2>1, <2>2, <2>3, <1>0, <1>1, ActorSets DEF PermitsKept
<1> QED BY <1>20, <1>21, <1>22, <1>23, <1>25, <1>26, <1>27, <1>28 DEF ClipInv

\* An actor takes a store that nobody has.
LEMMA StoreTakenKeeps ==
    ASSUME Bm4dAssumption, ClipInv, NEW a \in Actors, NEW s, StoreTaken(a, s)
    PROVE  ClipInv'
<1>0. /\ ClipTyped /\ ClaimsKept /\ CacheKept /\ HoldsKept /\ HitsKept /\ SlotsKept /\ DataKept
      /\ ReservedKept /\ PermitsKept /\ RoomKept
  BY ClipParts
<1>1. /\ at[a] = "store" /\ s \in Stores
      /\ spare' = spare \ {s}
      /\ held'[a] = s
      /\ \A b \in Actors : b # a => held'[b] = held[b]
      /\ store'[s] = [first |-> job[a], planes |-> {}]
      /\ \A u \in Stores : u # s => store'[u] = store[u]
      /\ at'[a] = "slot"
      /\ \A b \in Actors : b # a => at'[b] = at[b]
      /\ UNCHANGED <<node, faults, cache, computing, running, prefetching, frames, outputs, want,
                     job, plane, queued, computers, permits, asked>>
  <2>1. s \in Stores
    BY StoreToTake
  <2> QED BY <2>1, <1>0, ActorSets DEF StoreTaken, ClipTyped, At, MoveTo, fixedVars, sharedVars,
          deviceVars, storageVars, permitVars
<1>2. s \in Stores /\ s # NoStore /\ s \notin CachedStores /\ s \notin HeldStores /\ (spare # {} => s \in spare)
  BY StoreToTake, ActorSets
<1>3. CachedStores' = CachedStores /\ CachedStores \subseteq Stores
  BY <1>0, <1>1, SetsFinite DEF CachedStores
<1>4. HeldStores' \subseteq HeldStores \cup {s}
  BY <1>1 DEF HeldStores
<1>5. \A u \in CachedStores' : u \in CachedStores /\ store'[u] = store[u]
  BY <1>1, <1>2, <1>3
<1>6. \A b \in Actors : b # a /\ held[b] # NoStore => held[b] # s /\ store'[held[b]] = store[held[b]]
  BY <1>0, <1>1, <1>2 DEF HeldStores, ClipTyped
<1>20. ClipTyped'
  <2>1. at' \in [Actors -> CallerPlaces \cup HelperPlaces]
    BY <1>0, ActorSets DEF StoreTaken, ClipTyped, At, MoveTo, fixedVars, sharedVars, deviceVars,
       storageVars, permitVars, CallerPlaces, HelperPlaces, Claiming, Copying, Computes, Filling,
       Slotted, ChunkNumbers, NoChunk, NoStore
  <2>2. held' \in [Actors -> Stores \cup {NoStore}]
    BY <1>0, <1>2, ActorSets DEF StoreTaken, ClipTyped
  <2>3. store' \in [Stores -> Contents]
    BY <1>0, ActorSets, <1>2 DEF StoreTaken, ClipTyped, Contents
  <2>4. /\ \A b \in Callers : at'[b] \in CallerPlaces /\ (at'[b] # "out" => want'[b] \in Nat)
        /\ \A b \in Helpers : at'[b] \in HelperPlaces
    BY <1>0, <1>1, ActorSets DEF ClipTyped, CallerPlaces, HelperPlaces, Claiming, Copying,
       Computes, Filling, Slotted
  <2>5. /\ node' \in Nodes /\ cache' \in Seq(CacheEntries) /\ computing' \subseteq Nat /\ running' \subseteq Nat
        /\ spare' \subseteq Stores /\ prefetching' \in Int /\ frames' = [p \in {0, 1} |-> frames'[p]]
        /\ computers' \subseteq Callers /\ permits' \subseteq Callers
    BY <1>0, <1>1, ActorSets DEF ClipTyped
  <2> QED BY <1>1, <1>0, <2>1, <2>2, <2>3, <2>4, <2>5 DEF ClipTyped
<1>21. ClaimsKept'
  <2>1. \A b \in Actors : ClaimRight(b)'
    BY <1>0, <1>1, ActorSets DEF ClaimsKept, ClaimRight, NoChunk, ChunkNumbers, CallerPlaces,
       HelperPlaces, Claiming, Copying, Computes, Filling, Slotted, ClipTyped
  <2>2. ASSUME NEW b \in Actors, NEW c \in Actors, job'[b] = job'[c], job'[b] # NoChunk
        PROVE  b = c
    BY <2>2, <1>0, <1>1 DEF ClaimsKept
  <2> QED BY <2>1, <2>2 DEF ClaimsKept
<1>22. CacheKept'
  <2>1. Once(cache)'
    BY <1>0, <1>1 DEF CacheKept, Once
  <2>2. \A w, v \in CachedStores' : store'[w].first = store'[v].first => w = v
    BY <1>0, <1>5 DEF CacheKept
  <2>3. \A w \in CachedStores' : store'[w].first \in Nat \ computing'
    BY <1>0, <1>1, <1>5 DEF CacheKept
  <2>4. \A b \in Callers : SleepsFor(b)'
    BY <1>0, <1>1, ActorSets DEF CacheKept, SleepsFor, ClipTyped
  <2> QED BY <2>1, <2>2, <2>3, <2>4 DEF CacheKept
<1>23. HoldsKept'
  <2>1. spare' \cap (CachedStores' \cup HeldStores') = {}
    BY <1>0, <1>1, <1>3, <1>4 DEF HoldsKept
  <2>2. ASSUME NEW b \in Actors
        PROVE  HoldRight(b)'
    <3>0. HoldRight(b)
      BY <1>0 DEF HoldsKept
    <3>1. CASE b = a
      BY <3>0, <3>1, <1>0, <1>1, ActorSets, <1>6, <1>2, <1>3 DEF HoldRight, NoStore, CallerPlaces,
         HelperPlaces, Claiming, Copying, Computes, Filling, Slotted, ClipTyped
    <3>2. CASE b # a
      BY <3>0, <3>2, <1>1, <1>6, <1>2, <1>3 DEF HoldRight, NoStore, CallerPlaces, HelperPlaces,
         Claiming, Copying, Computes, Filling, Slotted
    <3> QED BY <3>1, <3>2
  <2>3. ASSUME NEW b \in Actors, NEW c \in Actors,
               at'[b] \in Filling \cup {"finish"}, held'[b] # NoStore, held'[c] = held'[b]
        PROVE  c = b
    BY <2>3, <1>0, <1>1, <1>6, <1>2, ActorSets DEF HoldsKept, HoldRight, CallerPlaces,
       HelperPlaces, Claiming, Copying, Computes, Filling, Slotted
  <2> QED BY <2>1, <2>2, <2>3 DEF HoldsKept
<1>24. HitsKept'
  <2>1. ASSUME NEW b \in Callers
        PROVE  (IsHit(b)' <=> IsHit(b)) /\ (IsHit(b) => want'[b] = want[b] /\ (at'[b] = "unread" \/ (at[b] # "unread" /\ held'[b] = held[b])))
    BY <1>0, <1>1, ActorSets DEF IsHit, ClaimsKept, ClaimRight, CallerPlaces, HelperPlaces,
       Claiming, Copying, Computes, Filling, Slotted
  <2>2. Hits' = Hits
    BY <2>1 DEF Hits
  <2>3. ASSUME NEW i \in DOMAIN cache'
        PROVE  ReadersRight(cache[i])'
    BY <1>0, <1>1, <2>2, <1>5 DEF HitsKept, ReadersRight, CachedStores
  <2>4. ASSUME NEW b \in Callers
        PROVE  HitRight(b)'
    BY <1>0, <1>1, <2>1, <1>3, <1>5 DEF HitsKept, HitRight
  <2> QED BY <2>3, <2>4 DEF HitsKept
<1>25. SlotsKept'
  <2>1. SlotsAside
    BY <1>1 DEF SlotsAside, InSlot
  <2> QED BY <2>1, <1>0, SlotsStay
<1>26. DataKept'
  <2> SUFFICES ASSUME ~node.gpu PROVE (\A b \in Actors : FilledTo(b)') /\ \A w \in CachedStores' : store'[w].planes = 1 .. node.planes
    BY <1>1 DEF DataKept
  <2>0. (\A b \in Actors : FilledTo(b)) /\ \A w \in CachedStores : store[w].planes = 1 .. node.planes
    BY <1>0 DEF DataKept
  <2>1. ASSUME NEW b \in Actors
        PROVE  FilledTo(b)'
    <3>0. FilledTo(b) /\ HoldRight(b)
      BY <2>0, <1>0 DEF HoldsKept
    <3>1. CASE b = a
      BY <3>0, <3>1, <1>1, <1>2 DEF FilledTo, PlanesHeld, CallerPlaces, HelperPlaces, Claiming,
         Copying, Computes, Filling, Slotted
    <3>2. CASE b # a
      <4>1. at'[b] = at[b] /\ job'[b] = job[b] /\ held'[b] = held[b] /\ queued'[b] = queued[b] /\ plane'[b] = plane[b]
        BY <3>2, <1>1
      <4>2. held[b] # NoStore => store'[held[b]] = store[held[b]]
        BY <3>2, <1>6
      <4> QED BY <3>0, <4>1, <4>2, <1>1, ActorSets DEF FilledTo, HoldRight, PlanesHeld,
              CallerPlaces, HelperPlaces, Claiming, Copying, Computes, Filling, Slotted
    <3> QED BY <3>1, <3>2
  <2>2. \A w \in CachedStores' : store'[w].planes = 1 .. node.planes
    BY <2>0, <1>5
  <2> QED BY <2>1, <2>2
<1>27. ReservedKept'
  <2>1. Prefetchers' = Prefetchers
    BY <1>0, <1>1, ActorSets DEF Prefetchers, ClaimsKept, ClaimRight, CallerPlaces, HelperPlaces,
       Claiming, Copying, Computes, Filling, Slotted
  <2> QED BY <2>1, <1>0, <1>1 DEF ReservedKept
<1>28. PermitsKept'
  <2>1. {b \in Callers : At(b, "copy")}' = {b \in Callers : At(b, "copy")}
    BY <1>0, <1>1, ActorSets DEF At
  <2> QED BY <2>1, <1>0, <1>1 DEF PermitsKept
<1>29. RoomKept'
  <2>1. StoresCounted'
    <3>1. CASE spare # {}
      <4>1. LiveStores' \subseteq LiveStores
        BY <3>1, <1>1, <1>2, <1>3, <1>4 DEF LiveStores
      <4> QED BY <4>1, <1>0, LiveLess
    <3>2. CASE spare = {}
      <4>1. LiveStores' \in SUBSET (LiveStores \cup {s})
        BY <3>2, <1>1, <1>3, <1>4 DEF LiveStores
      <4>2. Cardinality(LiveStores) < CacheLimit + Cardinality(Helpers) + Computers
        BY <3>2, <1>1, RoomForStore
      <4>3. IsFiniteSet(LiveStores)
        BY <1>0, SetsFinite
      <4>4. /\ IsFiniteSet(LiveStores \cup {s})
            /\ Cardinality(LiveStores \cup {s}) \in {Cardinality(LiveStores), Cardinality(LiveStores) + 1}
        BY <4>3, FS_AddElement
      <4>5. IsFiniteSet(LiveStores') /\ Cardinality(LiveStores') <= Cardinality(LiveStores \cup {s})
        BY <4>1, <4>4, FS_Subset
      <4>6. Cardinality(LiveStores) \in Nat /\ Cardinality(LiveStores') \in Nat /\ Cardinality(Helpers) \in Nat
        BY <4>3, <4>5, ActorSets, FS_CardinalityType
      <4> QED BY <4>2, <4>4, <4>5, <4>6, ActorSets DEF StoresCounted
    <3> QED BY <3>1, <3>2
  <2>2. Evicting' = Evicting /\ \A b \in Evicting : held'[b] = held[b]
    BY <1>0, <1>1, ActorSets DEF Evicting, At
  <2>3. InTheWay' = InTheWay
    BY <2>2, <1>3 DEF InTheWay
  <2> QED BY <2>1, <2>2, <2>3, <1>0 DEF RoomKept
<1> QED BY <1>20, <1>21, <1>22, <1>23, <1>24, <1>25, <1>26, <1>27, <1>28, <1>29 DEF ClipInv

\* An actor enters the slot of its chunk's parity.
LEMMA EnterSlotKeeps ==
    ASSUME Bm4dAssumption, ClipInv, NEW a \in Actors, EnterSlot(a)
    PROVE  ClipInv'
<1>0. /\ ClipTyped /\ ClaimsKept /\ CacheKept /\ HoldsKept /\ HitsKept /\ SlotsKept /\ DataKept
      /\ ReservedKept /\ PermitsKept /\ RoomKept
  BY ClipParts
<1>1. /\ at[a] = "slot" /\ \A b \in Actors : InSlot(b) => Parity(job[b]) # Parity(job[a])
      /\ running' = running \cup {job[a]}
      /\ at'[a] = "upload"
      /\ \A b \in Actors : b # a => at'[b] = at[b]
      /\ plane'[a] = 1
      /\ \A b \in Actors : b # a => plane'[b] = plane[b]
      /\ UNCHANGED <<node, faults, cache, computing, spare, prefetching, store, frames, outputs,
                     want, job, held, queued, computers, permits, asked>>
  BY <1>0, ActorSets DEF EnterSlot, ClipTyped, At, MoveTo, fixedVars, sharedVars, deviceVars,
     storageVars, permitVars, SlotFree, CallerPlaces, HelperPlaces, Claiming, Copying, Computes,
     Filling, Slotted
<1>2. node.planes \in Nat \ {0}
  BY <1>0 DEF ClipTyped, Bm4dAssumption
<1>3. CachedStores' = CachedStores
  BY <1>1 DEF CachedStores
<1>4. HeldStores' = HeldStores
  BY <1>1 DEF HeldStores
<1>5. \A w \in CachedStores' : w \in CachedStores /\ store'[w] = store[w]
  BY <1>1, <1>3
<1>20. ClipTyped'
  <2>1. at' \in [Actors -> CallerPlaces \cup HelperPlaces]
    BY <1>0, ActorSets DEF EnterSlot, ClipTyped, At, MoveTo, fixedVars, sharedVars, deviceVars,
       storageVars, permitVars, SlotFree, CallerPlaces, HelperPlaces, Claiming, Copying, Computes,
       Filling, Slotted, ChunkNumbers, NoChunk, NoStore
  <2>2. plane' \in [Actors -> Nat]
    BY <1>0, ActorSets DEF EnterSlot, ClipTyped, At, MoveTo, fixedVars, sharedVars, deviceVars,
       storageVars, permitVars, SlotFree, CallerPlaces, HelperPlaces, Claiming, Copying, Computes,
       Filling, Slotted, ChunkNumbers, NoChunk, NoStore
  <2>3. /\ \A b \in Callers : at'[b] \in CallerPlaces /\ (at'[b] # "out" => want'[b] \in Nat)
        /\ \A b \in Helpers : at'[b] \in HelperPlaces
    BY <1>0, <1>1, ActorSets DEF ClipTyped, CallerPlaces, HelperPlaces, Claiming, Copying,
       Computes, Filling, Slotted
  <2>4. /\ node' \in Nodes /\ cache' \in Seq(CacheEntries) /\ computing' \subseteq Nat /\ running' \subseteq Nat
        /\ spare' \subseteq Stores /\ prefetching' \in Int /\ frames' = [p \in {0, 1} |-> frames'[p]]
        /\ computers' \subseteq Callers /\ permits' \subseteq Callers
    BY <1>0, <1>1, ActorSets DEF ClipTyped, ClaimsKept, ClaimRight, ChunkNumbers, CallerPlaces,
       HelperPlaces, Claiming, Copying, Computes, Filling, Slotted
  <2> QED BY <1>1, <1>0, <2>1, <2>2, <2>3, <2>4 DEF ClipTyped
<1>21. ClaimsKept'
  <2>1. \A b \in Actors : ClaimRight(b)'
    BY <1>0, <1>1, ActorSets DEF ClaimsKept, ClaimRight, NoChunk, ChunkNumbers, CallerPlaces,
       HelperPlaces, Claiming, Copying, Computes, Filling, Slotted, ClipTyped
  <2>2. ASSUME NEW b \in Actors, NEW c \in Actors, job'[b] = job'[c], job'[b] # NoChunk
        PROVE  b = c
    BY <2>2, <1>0, <1>1 DEF ClaimsKept
  <2> QED BY <2>1, <2>2 DEF ClaimsKept
<1>22. CacheKept' /\ HitsKept' /\ RoomKept'
  <2>1. \A w \in CachedStores : store'[w].first = store[w].first /\ store[w].first \notin computing'
    BY <1>0, <1>1, <1>3, <1>5 DEF CacheKept
  <2>2. ASSUME NEW b \in Actors
        PROVE  \/ at'[b] = at[b]
               \/ {at[b], at'[b]} \subseteq Copying
               \/ {at[b], at'[b]} \cap (Copying \cup {"unread", "evict"}) = {}
    BY <1>1 DEF Copying
  <2>3. ASSUME NEW b \in Callers, at[b] \in Copying \cup {"unread"}
        PROVE  want'[b] = want[b] /\ (b \in computers' <=> b \in computers)
    BY <2>3, <1>1, ActorSets DEF Copying
  <2>4. ASSUME NEW b \in Callers, at'[b] = "asleep"
        PROVE  want'[b] \in computing'
    BY <2>4, <1>0, <1>1, ActorSets DEF CacheKept, SleepsFor
  <2> QED BY <2>1, <2>2, <2>3, <2>4, <1>1, ListsStay DEF ListsAside
<1>23. HoldsKept'
  <2>1. spare' \cap (CachedStores' \cup HeldStores') = {}
    BY <1>0, <1>1, <1>3, <1>4 DEF HoldsKept
  <2>2. \A b \in Actors : HoldRight(b)'
    BY <1>0, <1>1, ActorSets, <1>3 DEF HoldsKept, HoldRight, NoStore, CallerPlaces, HelperPlaces,
       Claiming, Copying, Computes, Filling, Slotted, ClipTyped
  <2>3. ASSUME NEW b \in Actors, NEW c \in Actors,
               at'[b] \in Filling \cup {"finish"}, held'[b] # NoStore, held'[c] = held'[b]
        PROVE  c = b
    BY <2>3, <1>0, <1>1, ActorSets DEF HoldsKept, HoldRight, CallerPlaces, HelperPlaces, Claiming,
       Copying, Computes, Filling, Slotted
  <2> QED BY <2>1, <2>2, <2>3 DEF HoldsKept
<1>25. SlotsKept'
  <2>1. \A b \in Actors : SlotRight(b)' /\ OrderRight(b)'
    BY <1>0, <1>1, ActorSets DEF SlotsKept, SlotRight, OrderRight, InSlot, Before, At, ClipTyped
  <2>2. ASSUME NEW c \in running'
        PROVE  \E b \in Actors : InSlot(b)' /\ job'[b] = c
    BY <1>0, <1>1, ActorSets DEF SlotsKept, InSlot, ClaimsKept, ClaimRight, CallerPlaces,
       HelperPlaces, Claiming, Copying, Computes, Filling, Slotted
  <2>3. ASSUME NEW b \in Actors, NEW c \in Actors, InSlot(b)', InSlot(c)', Parity(job'[b]) = Parity(job'[c])
        PROVE  b = c
    BY <2>3, <1>0, <1>1 DEF SlotsKept, InSlot
  <2>4. ASSUME NEW b \in Actors, NEW c \in Actors, At(b, "download")', At(c, "download")'
        PROVE  b = c
    BY <2>4, <1>0, <1>1 DEF SlotsKept, At
  <2> QED BY <2>1, <2>2, <2>3, <2>4 DEF SlotsKept
<1>26. DataKept'
  <2> SUFFICES ASSUME ~node.gpu PROVE (\A b \in Actors : FilledTo(b)') /\ \A w \in CachedStores' : store'[w].planes = 1 .. node.planes
    BY <1>1 DEF DataKept
  <2>0. (\A b \in Actors : FilledTo(b)) /\ \A w \in CachedStores : store[w].planes = 1 .. node.planes
    BY <1>0 DEF DataKept
  <2>1. ASSUME NEW b \in Actors
        PROVE  FilledTo(b)'
    <3>0. FilledTo(b)
      BY <2>0
    <3>1. CASE b = a
      <4>1. queued[a] = 0 /\ PlanesHeld(a) = {}
        BY <3>0, <3>1, <1>1 DEF FilledTo
      <4>2. plane'[a] \in 1 .. node.planes /\ 1 .. plane'[a] - 1 = {}
        BY <1>1, <1>2
      <4>3. PlanesHeld(a)' = {} /\ at'[a] = "upload" /\ queued'[a] = 0
        BY <4>1, <1>1 DEF PlanesHeld
      <4> QED BY <3>1, <4>2, <4>3, <1>1 DEF FilledTo, CallerPlaces, HelperPlaces, Claiming,
              Copying, Computes, Filling, Slotted
    <3>2. CASE b # a
      BY <3>0, <3>2, <1>1 DEF FilledTo, PlanesHeld
    <3> QED BY <3>1, <3>2
  <2>2. \A w \in CachedStores' : store'[w].planes = 1 .. node.planes
    BY <2>0, <1>5
  <2> QED BY <2>1, <2>2
<1>27. ReservedKept'
  <2>1. Prefetchers' = Prefetchers
    BY <1>0, <1>1, ActorSets DEF Prefetchers, ClaimsKept, ClaimRight, CallerPlaces, HelperPlaces,
       Claiming, Copying, Computes, Filling, Slotted
  <2> QED BY <2>1, <1>0, <1>1 DEF ReservedKept
<1>28. PermitsKept'
  <2>1. {b \in Callers : At(b, "copy")}' = {b \in Callers : At(b, "copy")}
    BY <1>0, <1>1, ActorSets DEF At
  <2> QED BY <2>1, <1>0, <1>1 DEF PermitsKept
<1> QED BY <1>20, <1>21, <1>22, <1>23, <1>25, <1>26, <1>27, <1>28 DEF ClipInv

\* A plane is uploaded into the slot.
LEMMA UploadKeeps ==
    ASSUME Bm4dAssumption, ClipInv, NEW a \in Actors, Upload(a)
    PROVE  ClipInv'
<1>0. /\ ClipTyped /\ ClaimsKept /\ CacheKept /\ HoldsKept /\ HitsKept /\ SlotsKept /\ DataKept
      /\ ReservedKept /\ PermitsKept /\ RoomKept
  BY ClipParts
<1>1. /\ at[a] = "upload"
      /\ frames' = [frames EXCEPT ![Parity(job[a])] = <<job[a], plane[a]>>]
      /\ at'[a] = "order"
      /\ \A b \in Actors : b # a => at'[b] = at[b]
      /\ UNCHANGED <<node, faults, cache, computing, running, spare, prefetching, store, outputs,
                     want, job, plane, held, queued, computers, permits, asked>>
  BY <1>0, ActorSets DEF Upload, ClipTyped, At, MoveTo, fixedVars, sharedVars, deviceVars,
     storageVars, permitVars, CallerPlaces, HelperPlaces, Claiming, Copying, Computes, Filling,
     Slotted
<1>2. job[a] \in Nat /\ Parity(job[a]) \in {0, 1}
  BY <1>0, <1>1, ParityOf DEF ClaimsKept, ClaimRight, ClipTyped, ChunkNumbers, CallerPlaces,
     HelperPlaces, Claiming, Copying, Computes, Filling, Slotted
<1>3. /\ frames' = [p \in {0, 1} |-> frames'[p]]
      /\ frames'[Parity(job[a])] = <<job[a], plane[a]>>
      /\ \A p \in {0, 1} : p # Parity(job[a]) => frames'[p] = frames[p]
  BY <1>0, <1>1, <1>2 DEF ClipTyped
<1>4. \A b \in Actors : b # a /\ at[b] \in Slotted => Parity(job[b]) # Parity(job[a]) /\ Parity(job[b]) \in {0, 1}
  BY <1>0, <1>1, ParityOf DEF SlotsKept, InSlot, ClaimsKept, ClaimRight, ClipTyped, ChunkNumbers,
     CallerPlaces, HelperPlaces, Claiming, Copying, Computes, Filling, Slotted
<1>5. CachedStores' = CachedStores
  BY <1>1 DEF CachedStores
<1>6. HeldStores' = HeldStores
  BY <1>1 DEF HeldStores
<1>7. \A w \in CachedStores' : w \in CachedStores /\ store'[w] = store[w]
  BY <1>1, <1>5
<1>20. ClipTyped'
  <2>1. at' \in [Actors -> CallerPlaces \cup HelperPlaces]
    BY <1>0, ActorSets DEF Upload, ClipTyped, At, MoveTo, fixedVars, sharedVars, deviceVars,
       storageVars, permitVars, CallerPlaces, HelperPlaces, Claiming, Copying, Computes, Filling,
       Slotted, ChunkNumbers, NoChunk, NoStore
  <2>2. /\ \A b \in Callers : at'[b] \in CallerPlaces /\ (at'[b] # "out" => want'[b] \in Nat)
        /\ \A b \in Helpers : at'[b] \in HelperPlaces
    BY <1>0, <1>1, ActorSets DEF ClipTyped, CallerPlaces, HelperPlaces, Claiming, Copying,
       Computes, Filling, Slotted
  <2>3. /\ node' \in Nodes /\ cache' \in Seq(CacheEntries) /\ computing' \subseteq Nat /\ running' \subseteq Nat
        /\ spare' \subseteq Stores /\ prefetching' \in Int /\ frames' = [p \in {0, 1} |-> frames'[p]]
        /\ computers' \subseteq Callers /\ permits' \subseteq Callers
    BY <1>0, <1>1, <1>3 DEF ClipTyped
  <2> QED BY <1>1, <1>0, <2>1, <2>2, <2>3 DEF ClipTyped
<1>21. ClaimsKept'
  <2>1. \A b \in Actors : ClaimRight(b)'
    BY <1>0, <1>1, ActorSets DEF ClaimsKept, ClaimRight, NoChunk, ChunkNumbers, CallerPlaces,
       HelperPlaces, Claiming, Copying, Computes, Filling, Slotted, ClipTyped
  <2>2. ASSUME NEW b \in Actors, NEW c \in Actors, job'[b] = job'[c], job'[b] # NoChunk
        PROVE  b = c
    BY <2>2, <1>0, <1>1 DEF ClaimsKept
  <2> QED BY <2>1, <2>2 DEF ClaimsKept
<1>22. CacheKept' /\ HitsKept' /\ RoomKept'
  <2>1. \A w \in CachedStores : store'[w].first = store[w].first /\ store[w].first \notin computing'
    BY <1>0, <1>1, <1>5, <1>7 DEF CacheKept
  <2>2. ASSUME NEW b \in Actors
        PROVE  \/ at'[b] = at[b]
               \/ {at[b], at'[b]} \subseteq Copying
               \/ {at[b], at'[b]} \cap (Copying \cup {"unread", "evict"}) = {}
    BY <1>1 DEF Copying
  <2>3. ASSUME NEW b \in Callers, at[b] \in Copying \cup {"unread"}
        PROVE  want'[b] = want[b] /\ (b \in computers' <=> b \in computers)
    BY <2>3, <1>1, ActorSets DEF Copying
  <2>4. ASSUME NEW b \in Callers, at'[b] = "asleep"
        PROVE  want'[b] \in computing'
    BY <2>4, <1>0, <1>1, ActorSets DEF CacheKept, SleepsFor
  <2> QED BY <2>1, <2>2, <2>3, <2>4, <1>1, ListsStay DEF ListsAside
<1>23. HoldsKept'
  <2>1. spare' \cap (CachedStores' \cup HeldStores') = {}
    BY <1>0, <1>1, <1>5, <1>6 DEF HoldsKept
  <2>2. \A b \in Actors : HoldRight(b)'
    BY <1>0, <1>1, ActorSets, <1>5 DEF HoldsKept, HoldRight, NoStore, CallerPlaces, HelperPlaces,
       Claiming, Copying, Computes, Filling, Slotted, ClipTyped
  <2>3. ASSUME NEW b \in Actors, NEW c \in Actors,
               at'[b] \in Filling \cup {"finish"}, held'[b] # NoStore, held'[c] = held'[b]
        PROVE  c = b
    BY <2>3, <1>0, <1>1, ActorSets DEF HoldsKept, HoldRight, CallerPlaces, HelperPlaces, Claiming,
       Copying, Computes, Filling, Slotted
  <2> QED BY <2>1, <2>2, <2>3 DEF HoldsKept
<1>25. SlotsKept'
  <2>1. SlotsAside
    BY <1>1 DEF SlotsAside, InSlot
  <2> QED BY <2>1, <1>0, SlotsStay
<1>26. DataKept'
  <2> SUFFICES ASSUME ~node.gpu PROVE (\A b \in Actors : FilledTo(b)') /\ \A w \in CachedStores' : store'[w].planes = 1 .. node.planes
    BY <1>1 DEF DataKept
  <2>0. (\A b \in Actors : FilledTo(b)) /\ \A w \in CachedStores : store[w].planes = 1 .. node.planes
    BY <1>0 DEF DataKept
  <2>1. ASSUME NEW b \in Actors
        PROVE  FilledTo(b)'
    <3>0. FilledTo(b)
      BY <1>0 DEF DataKept
    <3>1. CASE b = a
      BY <3>0, <3>1, <1>0, <1>1, ActorSets, <1>3, <1>4, <1>2 DEF FilledTo, PlanesHeld, HoldsKept,
         HoldRight, NoStore, CallerPlaces, HelperPlaces, Claiming, Copying, Computes, Filling,
         Slotted, ClipTyped
    <3>2. CASE b # a
      BY <3>0, <3>2, <1>1, <1>3, <1>4, <1>2 DEF FilledTo, PlanesHeld, HoldsKept, HoldRight,
         NoStore, CallerPlaces, HelperPlaces, Claiming, Copying, Computes, Filling, Slotted
    <3> QED BY <3>1, <3>2
  <2>2. \A w \in CachedStores' : store'[w].planes = 1 .. node.planes
    BY <2>0, <1>7
  <2> QED BY <2>1, <2>2
<1>27. ReservedKept'
  <2>1. Prefetchers' = Prefetchers
    BY <1>0, <1>1, ActorSets DEF Prefetchers, ClaimsKept, ClaimRight, CallerPlaces, HelperPlaces,
       Claiming, Copying, Computes, Filling, Slotted
  <2> QED BY <2>1, <1>0, <1>1 DEF ReservedKept
<1>28. PermitsKept'
  <2>1. {b \in Callers : At(b, "copy")}' = {b \in Callers : At(b, "copy")}
    BY <1>0, <1>1, ActorSets DEF At
  <2> QED BY <2>1, <1>0, <1>1 DEF PermitsKept
<1> QED BY <1>20, <1>21, <1>22, <1>23, <1>25, <1>26, <1>27, <1>28 DEF ClipInv

\* The chunk with the smallest number goes first.
LEMMA OrderKeeps ==
    ASSUME Bm4dAssumption, ClipInv, NEW a \in Actors, Order(a)
    PROVE  ClipInv'
<1>0. /\ ClipTyped /\ ClaimsKept /\ CacheKept /\ HoldsKept /\ HitsKept /\ SlotsKept /\ DataKept
      /\ ReservedKept /\ PermitsKept /\ RoomKept
  BY ClipParts
<1>1. /\ at[a] = "order"
      /\ at'[a] = "tiles" \/ (at'[a] = "waiting" /\ \E c \in running : c < job[a])
      /\ \A b \in Actors : b # a => at'[b] = at[b]
      /\ UNCHANGED <<node, faults, cache, computing, running, spare, prefetching, store, frames,
                     outputs, want, job, plane, held, queued, computers, permits, asked>>
  BY <1>0, ActorSets DEF Order, ClipTyped, At, MoveTo, fixedVars, sharedVars, deviceVars,
     storageVars, permitVars, Before, CallerPlaces, HelperPlaces, Claiming, Copying, Computes,
     Filling, Slotted
<1>2. CachedStores' = CachedStores
  BY <1>1 DEF CachedStores
<1>3. HeldStores' = HeldStores
  BY <1>1 DEF HeldStores
<1>4. \A w \in CachedStores' : w \in CachedStores /\ store'[w] = store[w]
  BY <1>1, <1>2
<1>20. ClipTyped'
  <2>1. at' \in [Actors -> CallerPlaces \cup HelperPlaces]
    BY <1>0, ActorSets DEF Order, ClipTyped, At, MoveTo, fixedVars, sharedVars, deviceVars,
       storageVars, permitVars, Before, CallerPlaces, HelperPlaces, Claiming, Copying, Computes,
       Filling, Slotted, ChunkNumbers, NoChunk, NoStore
  <2>2. /\ \A b \in Callers : at'[b] \in CallerPlaces /\ (at'[b] # "out" => want'[b] \in Nat)
        /\ \A b \in Helpers : at'[b] \in HelperPlaces
    BY <1>0, <1>1, ActorSets DEF ClipTyped, CallerPlaces, HelperPlaces, Claiming, Copying,
       Computes, Filling, Slotted
  <2>3. /\ node' \in Nodes /\ cache' \in Seq(CacheEntries) /\ computing' \subseteq Nat /\ running' \subseteq Nat
        /\ spare' \subseteq Stores /\ prefetching' \in Int /\ frames' = [p \in {0, 1} |-> frames'[p]]
        /\ computers' \subseteq Callers /\ permits' \subseteq Callers
    BY <1>0, <1>1, ActorSets DEF ClipTyped
  <2> QED BY <1>1, <1>0, <2>1, <2>2, <2>3 DEF ClipTyped
<1>21. ClaimsKept'
  <2>1. \A b \in Actors : ClaimRight(b)'
    BY <1>0, <1>1, ActorSets DEF ClaimsKept, ClaimRight, NoChunk, ChunkNumbers, CallerPlaces,
       HelperPlaces, Claiming, Copying, Computes, Filling, Slotted, ClipTyped
  <2>2. ASSUME NEW b \in Actors, NEW c \in Actors, job'[b] = job'[c], job'[b] # NoChunk
        PROVE  b = c
    BY <2>2, <1>0, <1>1 DEF ClaimsKept
  <2> QED BY <2>1, <2>2 DEF ClaimsKept
<1>22. CacheKept' /\ HitsKept' /\ RoomKept'
  <2>1. \A w \in CachedStores : store'[w].first = store[w].first /\ store[w].first \notin computing'
    BY <1>0, <1>1, <1>2, <1>4 DEF CacheKept
  <2>2. ASSUME NEW b \in Actors
        PROVE  \/ at'[b] = at[b]
               \/ {at[b], at'[b]} \subseteq Copying
               \/ {at[b], at'[b]} \cap (Copying \cup {"unread", "evict"}) = {}
    BY <1>1 DEF Copying
  <2>3. ASSUME NEW b \in Callers, at[b] \in Copying \cup {"unread"}
        PROVE  want'[b] = want[b] /\ (b \in computers' <=> b \in computers)
    BY <2>3, <1>1, ActorSets DEF Copying
  <2>4. ASSUME NEW b \in Callers, at'[b] = "asleep"
        PROVE  want'[b] \in computing'
    BY <2>4, <1>0, <1>1, ActorSets DEF CacheKept, SleepsFor
  <2> QED BY <2>1, <2>2, <2>3, <2>4, <1>1, ListsStay DEF ListsAside
<1>23. HoldsKept'
  <2>1. spare' \cap (CachedStores' \cup HeldStores') = {}
    BY <1>0, <1>1, <1>2, <1>3 DEF HoldsKept
  <2>2. \A b \in Actors : HoldRight(b)'
    BY <1>0, <1>1, ActorSets, <1>2 DEF HoldsKept, HoldRight, NoStore, CallerPlaces, HelperPlaces,
       Claiming, Copying, Computes, Filling, Slotted, ClipTyped
  <2>3. ASSUME NEW b \in Actors, NEW c \in Actors,
               at'[b] \in Filling \cup {"finish"}, held'[b] # NoStore, held'[c] = held'[b]
        PROVE  c = b
    BY <2>3, <1>0, <1>1, ActorSets DEF HoldsKept, HoldRight, CallerPlaces, HelperPlaces, Claiming,
       Copying, Computes, Filling, Slotted
  <2> QED BY <2>1, <2>2, <2>3 DEF HoldsKept
<1>25. SlotsKept'
  <2>1. \A b \in Actors : SlotRight(b)' /\ OrderRight(b)'
    BY <1>0, <1>1, ActorSets DEF SlotsKept, SlotRight, OrderRight, InSlot, Before, At, ClipTyped
  <2>2. ASSUME NEW c \in running'
        PROVE  \E b \in Actors : InSlot(b)' /\ job'[b] = c
    BY <1>0, <1>1, ActorSets DEF SlotsKept, InSlot, ClaimsKept, ClaimRight, CallerPlaces,
       HelperPlaces, Claiming, Copying, Computes, Filling, Slotted
  <2>3. ASSUME NEW b \in Actors, NEW c \in Actors, InSlot(b)', InSlot(c)', Parity(job'[b]) = Parity(job'[c])
        PROVE  b = c
    BY <2>3, <1>0, <1>1 DEF SlotsKept, InSlot
  <2>4. ASSUME NEW b \in Actors, NEW c \in Actors, At(b, "download")', At(c, "download")'
        PROVE  b = c
    BY <2>4, <1>0, <1>1 DEF SlotsKept, At
  <2> QED BY <2>1, <2>2, <2>3, <2>4 DEF SlotsKept
<1>26. DataKept'
  <2> SUFFICES ASSUME ~node.gpu PROVE (\A b \in Actors : FilledTo(b)') /\ \A w \in CachedStores' : store'[w].planes = 1 .. node.planes
    BY <1>1 DEF DataKept
  <2>0. (\A b \in Actors : FilledTo(b)) /\ \A w \in CachedStores : store[w].planes = 1 .. node.planes
    BY <1>0 DEF DataKept
  <2>1. ASSUME NEW b \in Actors
        PROVE  FilledTo(b)'
    <3>0. FilledTo(b)
      BY <1>0 DEF DataKept
    <3>1. CASE b = a
      BY <3>0, <3>1, <1>0, <1>1, ActorSets DEF FilledTo, PlanesHeld, HoldsKept, HoldRight, NoStore,
         CallerPlaces, HelperPlaces, Claiming, Copying, Computes, Filling, Slotted, ClipTyped
    <3>2. CASE b # a
      BY <3>0, <3>2, <1>1 DEF FilledTo, PlanesHeld, HoldsKept, HoldRight, NoStore, CallerPlaces,
         HelperPlaces, Claiming, Copying, Computes, Filling, Slotted
    <3> QED BY <3>1, <3>2
  <2>2. \A w \in CachedStores' : store'[w].planes = 1 .. node.planes
    BY <2>0, <1>4
  <2> QED BY <2>1, <2>2
<1>27. ReservedKept'
  <2>1. Prefetchers' = Prefetchers
    BY <1>0, <1>1, ActorSets DEF Prefetchers, ClaimsKept, ClaimRight, CallerPlaces, HelperPlaces,
       Claiming, Copying, Computes, Filling, Slotted
  <2> QED BY <2>1, <1>0, <1>1 DEF ReservedKept
<1>28. PermitsKept'
  <2>1. {b \in Callers : At(b, "copy")}' = {b \in Callers : At(b, "copy")}
    BY <1>0, <1>1, ActorSets DEF At
  <2> QED BY <2>1, <1>0, <1>1 DEF PermitsKept
<1> QED BY <1>20, <1>21, <1>22, <1>23, <1>25, <1>26, <1>27, <1>28 DEF ClipInv

\* The tiles of a plane fill the output buffer.
LEMMA TilesKeeps ==
    ASSUME Bm4dAssumption, ClipInv, NEW a \in Actors, Tiles(a)
    PROVE  ClipInv'
<1>0. /\ ClipTyped /\ ClaimsKept /\ CacheKept /\ HoldsKept /\ HitsKept /\ SlotsKept /\ DataKept
      /\ ReservedKept /\ PermitsKept /\ RoomKept
  BY ClipParts
<1>1. /\ at[a] = "tiles" /\ \A b \in Actors : at[b] # "download"
      /\ outputs' = frames[Parity(job[a])]
      /\ at'[a] = "download"
      /\ \A b \in Actors : b # a => at'[b] = at[b]
      /\ UNCHANGED <<node, faults, cache, computing, running, spare, prefetching, store, frames,
                     want, job, plane, held, queued, computers, permits, asked>>
  BY <1>0, ActorSets DEF Tiles, ClipTyped, At, MoveTo, fixedVars, sharedVars, deviceVars,
     storageVars, permitVars, DeviceFree, CallerPlaces, HelperPlaces, Claiming, Copying, Computes,
     Filling, Slotted
<1>2. ~node.gpu => outputs' = <<job[a], plane[a]>>
  BY <1>0, <1>1 DEF DataKept, FilledTo
<1>3. CachedStores' = CachedStores
  BY <1>1 DEF CachedStores
<1>4. HeldStores' = HeldStores
  BY <1>1 DEF HeldStores
<1>5. \A w \in CachedStores' : w \in CachedStores /\ store'[w] = store[w]
  BY <1>1, <1>3
<1>20. ClipTyped'
  <2>1. at' \in [Actors -> CallerPlaces \cup HelperPlaces]
    BY <1>0, ActorSets DEF Tiles, ClipTyped, At, MoveTo, fixedVars, sharedVars, deviceVars,
       storageVars, permitVars, DeviceFree, CallerPlaces, HelperPlaces, Claiming, Copying,
       Computes, Filling, Slotted, ChunkNumbers, NoChunk, NoStore
  <2>2. /\ \A b \in Callers : at'[b] \in CallerPlaces /\ (at'[b] # "out" => want'[b] \in Nat)
        /\ \A b \in Helpers : at'[b] \in HelperPlaces
    BY <1>0, <1>1, ActorSets DEF ClipTyped, CallerPlaces, HelperPlaces, Claiming, Copying,
       Computes, Filling, Slotted
  <2>3. /\ node' \in Nodes /\ cache' \in Seq(CacheEntries) /\ computing' \subseteq Nat /\ running' \subseteq Nat
        /\ spare' \subseteq Stores /\ prefetching' \in Int /\ frames' = [p \in {0, 1} |-> frames'[p]]
        /\ computers' \subseteq Callers /\ permits' \subseteq Callers
    BY <1>0, <1>1, ActorSets DEF ClipTyped
  <2> QED BY <1>1, <1>0, <2>1, <2>2, <2>3 DEF ClipTyped
<1>21. ClaimsKept'
  <2>1. \A b \in Actors : ClaimRight(b)'
    BY <1>0, <1>1, ActorSets DEF ClaimsKept, ClaimRight, NoChunk, ChunkNumbers, CallerPlaces,
       HelperPlaces, Claiming, Copying, Computes, Filling, Slotted, ClipTyped
  <2>2. ASSUME NEW b \in Actors, NEW c \in Actors, job'[b] = job'[c], job'[b] # NoChunk
        PROVE  b = c
    BY <2>2, <1>0, <1>1 DEF ClaimsKept
  <2> QED BY <2>1, <2>2 DEF ClaimsKept
<1>22. CacheKept' /\ HitsKept' /\ RoomKept'
  <2>1. \A w \in CachedStores : store'[w].first = store[w].first /\ store[w].first \notin computing'
    BY <1>0, <1>1, <1>3, <1>5 DEF CacheKept
  <2>2. ASSUME NEW b \in Actors
        PROVE  \/ at'[b] = at[b]
               \/ {at[b], at'[b]} \subseteq Copying
               \/ {at[b], at'[b]} \cap (Copying \cup {"unread", "evict"}) = {}
    BY <1>1 DEF Copying
  <2>3. ASSUME NEW b \in Callers, at[b] \in Copying \cup {"unread"}
        PROVE  want'[b] = want[b] /\ (b \in computers' <=> b \in computers)
    BY <2>3, <1>1, ActorSets DEF Copying
  <2>4. ASSUME NEW b \in Callers, at'[b] = "asleep"
        PROVE  want'[b] \in computing'
    BY <2>4, <1>0, <1>1, ActorSets DEF CacheKept, SleepsFor
  <2> QED BY <2>1, <2>2, <2>3, <2>4, <1>1, ListsStay DEF ListsAside
<1>23. HoldsKept'
  <2>1. spare' \cap (CachedStores' \cup HeldStores') = {}
    BY <1>0, <1>1, <1>3, <1>4 DEF HoldsKept
  <2>2. \A b \in Actors : HoldRight(b)'
    BY <1>0, <1>1, ActorSets, <1>3 DEF HoldsKept, HoldRight, NoStore, CallerPlaces, HelperPlaces,
       Claiming, Copying, Computes, Filling, Slotted, ClipTyped
  <2>3. ASSUME NEW b \in Actors, NEW c \in Actors,
               at'[b] \in Filling \cup {"finish"}, held'[b] # NoStore, held'[c] = held'[b]
        PROVE  c = b
    BY <2>3, <1>0, <1>1, ActorSets DEF HoldsKept, HoldRight, CallerPlaces, HelperPlaces, Claiming,
       Copying, Computes, Filling, Slotted
  <2> QED BY <2>1, <2>2, <2>3 DEF HoldsKept
<1>25. SlotsKept'
  <2>1. \A b \in Actors : SlotRight(b)' /\ OrderRight(b)'
    BY <1>0, <1>1, ActorSets DEF SlotsKept, SlotRight, OrderRight, InSlot, Before, At, ClipTyped
  <2>2. ASSUME NEW c \in running'
        PROVE  \E b \in Actors : InSlot(b)' /\ job'[b] = c
    BY <1>0, <1>1, ActorSets DEF SlotsKept, InSlot, ClaimsKept, ClaimRight, CallerPlaces,
       HelperPlaces, Claiming, Copying, Computes, Filling, Slotted
  <2>3. ASSUME NEW b \in Actors, NEW c \in Actors, InSlot(b)', InSlot(c)', Parity(job'[b]) = Parity(job'[c])
        PROVE  b = c
    BY <2>3, <1>0, <1>1 DEF SlotsKept, InSlot
  <2>4. ASSUME NEW b \in Actors, NEW c \in Actors, At(b, "download")', At(c, "download")'
        PROVE  b = c
    BY <2>4, <1>0, <1>1 DEF SlotsKept, At
  <2> QED BY <2>1, <2>2, <2>3, <2>4 DEF SlotsKept
<1>26. DataKept'
  <2> SUFFICES ASSUME ~node.gpu PROVE (\A b \in Actors : FilledTo(b)') /\ \A w \in CachedStores' : store'[w].planes = 1 .. node.planes
    BY <1>1 DEF DataKept
  <2>0. (\A b \in Actors : FilledTo(b)) /\ \A w \in CachedStores : store[w].planes = 1 .. node.planes
    BY <1>0 DEF DataKept
  <2>1. ASSUME NEW b \in Actors
        PROVE  FilledTo(b)'
    <3>0. FilledTo(b)
      BY <1>0 DEF DataKept
    <3>1. CASE b = a
      BY <3>0, <3>1, <1>0, <1>1, ActorSets, <1>2 DEF FilledTo, PlanesHeld, HoldsKept, HoldRight,
         NoStore, CallerPlaces, HelperPlaces, Claiming, Copying, Computes, Filling, Slotted,
         ClipTyped
    <3>2. CASE b # a
      BY <3>0, <3>2, <1>1, <1>2 DEF FilledTo, PlanesHeld, HoldsKept, HoldRight, NoStore,
         CallerPlaces, HelperPlaces, Claiming, Copying, Computes, Filling, Slotted
    <3> QED BY <3>1, <3>2
  <2>2. \A w \in CachedStores' : store'[w].planes = 1 .. node.planes
    BY <2>0, <1>5
  <2> QED BY <2>1, <2>2
<1>27. ReservedKept'
  <2>1. Prefetchers' = Prefetchers
    BY <1>0, <1>1, ActorSets DEF Prefetchers, ClaimsKept, ClaimRight, CallerPlaces, HelperPlaces,
       Claiming, Copying, Computes, Filling, Slotted
  <2> QED BY <2>1, <1>0, <1>1 DEF ReservedKept
<1>28. PermitsKept'
  <2>1. {b \in Callers : At(b, "copy")}' = {b \in Callers : At(b, "copy")}
    BY <1>0, <1>1, ActorSets DEF At
  <2> QED BY <2>1, <1>0, <1>1 DEF PermitsKept
<1> QED BY <1>20, <1>21, <1>22, <1>23, <1>25, <1>26, <1>27, <1>28 DEF ClipInv

\* A plane is downloaded, or its copies queued.
LEMMA DownloadKeeps ==
    ASSUME Bm4dAssumption, ClipInv, NEW a \in Actors, Download(a)
    PROVE  ClipInv'
<1>0. /\ ClipTyped /\ ClaimsKept /\ CacheKept /\ HoldsKept /\ HitsKept /\ SlotsKept /\ DataKept
      /\ ReservedKept /\ PermitsKept /\ RoomKept
  BY ClipParts
<1>1. /\ at[a] = "download" /\ plane[a] \in Nat
      /\ \A s \in Stores : store'[s].first = store[s].first /\ (s # held[a] => store'[s] = store[s])
      /\ store' \in [Stores -> Contents]
      /\ ~node.gpu /\ held[a] \in Stores /\ outputs = <<store[held[a]].first, plane[a]>> => store'[held[a]].planes = store[held[a]].planes \cup {plane[a]}
      /\ ~node.gpu => queued' = queued
      /\ at'[a] = IF plane[a] = node.planes THEN "drain" ELSE "upload"
      /\ \A b \in Actors : b # a => at'[b] = at[b]
      /\ plane'[a] = plane[a] + 1
      /\ \A b \in Actors : b # a => plane'[b] = plane[b]
      /\ UNCHANGED <<node, faults, cache, computing, running, spare, prefetching, frames, want,
                     job, held, computers, permits, asked>>
  <2>1. at[a] = "download" /\ plane[a] \in Nat /\ store \in [Stores -> Contents]
    BY <1>0 DEF Download, At, ClipTyped
  <2>2. CASE node.gpu
    <3>1. store' = store
      BY <2>2 DEF Download
    <3> QED BY <2>1, <2>2, <3>1, <1>0 DEF Download, ClipTyped, MoveTo, fixedVars, sharedVars,
            deviceVars, storageVars, permitVars
  <2>3. CASE ~node.gpu
    <3>1. store' = Downloaded(held[a], plane[a]) /\ queued' = queued
      BY <2>3 DEF Download
    <3>2. /\ store' \in [Stores -> Contents]
          /\ \A s \in Stores : store'[s].first = store[s].first /\ (s # held[a] => store'[s] = store[s])
          /\ held[a] \in Stores /\ outputs = <<store[held[a]].first, plane[a]>> =>
                store'[held[a]].planes = store[held[a]].planes \cup {plane[a]}
      BY <3>1, <2>1, <1>0, DownloadedTo
    <3> QED BY <2>1, <3>1, <3>2, <1>0 DEF Download, ClipTyped, MoveTo, fixedVars, sharedVars,
            deviceVars, storageVars, permitVars
  <2> QED BY <2>2, <2>3
<1>2. held[a] \in Stores /\ held[a] # NoStore /\ held[a] \notin CachedStores /\ store[held[a]].first = job[a]
  BY <1>0, <1>1 DEF HoldsKept, HoldRight, ClipTyped, CallerPlaces, HelperPlaces, Claiming, Copying,
     Computes, Filling, Slotted
<1>3. CachedStores' = CachedStores /\ CachedStores \subseteq Stores
  BY <1>0, <1>1, SetsFinite DEF CachedStores
<1>4. \A s \in CachedStores' : s \in CachedStores /\ store'[s] = store[s]
  BY <1>1, <1>2, <1>3
<1>5. \A b \in Actors : b # a /\ held[b] # NoStore => held[b] # held[a] /\ store'[held[b]] = store[held[b]]
  BY <1>0, <1>1, <1>2 DEF HoldsKept, ClipTyped, Filling, Computes
<1>6. HeldStores' = HeldStores
  BY <1>1 DEF HeldStores
<1>20. ClipTyped'
  <2>1. at' \in [Actors -> CallerPlaces \cup HelperPlaces]
    BY <1>0, ActorSets DEF Download, ClipTyped, At, MoveTo, fixedVars, sharedVars, deviceVars,
       storageVars, permitVars, CallerPlaces, HelperPlaces, Claiming, Copying, Computes, Filling,
       Slotted, ChunkNumbers, NoChunk, NoStore
  <2>2. plane' \in [Actors -> Nat]
    BY <1>0, <1>1, ActorSets DEF Download, ClipTyped
  <2>3. queued' \in [Actors -> Nat]
    BY <1>0, ActorSets DEF Download, ClipTyped
  <2>4. store' \in [Stores -> Contents]
    BY <1>1
  <2>5. /\ \A b \in Callers : at'[b] \in CallerPlaces /\ (at'[b] # "out" => want'[b] \in Nat)
        /\ \A b \in Helpers : at'[b] \in HelperPlaces
    BY <1>0, <1>1, ActorSets DEF ClipTyped, CallerPlaces, HelperPlaces, Claiming, Copying,
       Computes, Filling, Slotted
  <2>6. /\ node' \in Nodes /\ cache' \in Seq(CacheEntries) /\ computing' \subseteq Nat /\ running' \subseteq Nat
        /\ spare' \subseteq Stores /\ prefetching' \in Int /\ frames' = [p \in {0, 1} |-> frames'[p]]
        /\ computers' \subseteq Callers /\ permits' \subseteq Callers
    BY <1>0, <1>1, ActorSets DEF ClipTyped
  <2> QED BY <1>1, <1>0, <2>1, <2>2, <2>3, <2>4, <2>5, <2>6 DEF ClipTyped
<1>21. ClaimsKept'
  <2>1. \A b \in Actors : ClaimRight(b)'
    BY <1>0, <1>1, ActorSets DEF ClaimsKept, ClaimRight, NoChunk, ChunkNumbers, CallerPlaces,
       HelperPlaces, Claiming, Copying, Computes, Filling, Slotted, ClipTyped
  <2>2. ASSUME NEW b \in Actors, NEW c \in Actors, job'[b] = job'[c], job'[b] # NoChunk
        PROVE  b = c
    BY <2>2, <1>0, <1>1 DEF ClaimsKept
  <2> QED BY <2>1, <2>2 DEF ClaimsKept
<1>22. CacheKept' /\ HitsKept' /\ RoomKept'
  <2>1. \A w \in CachedStores : store'[w].first = store[w].first /\ store[w].first \notin computing'
    BY <1>0, <1>1, <1>3, <1>4 DEF CacheKept
  <2>2. ASSUME NEW b \in Actors
        PROVE  \/ at'[b] = at[b]
               \/ {at[b], at'[b]} \subseteq Copying
               \/ {at[b], at'[b]} \cap (Copying \cup {"unread", "evict"}) = {}
    BY <1>1 DEF Copying
  <2>3. ASSUME NEW b \in Callers, at[b] \in Copying \cup {"unread"}
        PROVE  want'[b] = want[b] /\ (b \in computers' <=> b \in computers)
    BY <2>3, <1>1, ActorSets DEF Copying
  <2>4. ASSUME NEW b \in Callers, at'[b] = "asleep"
        PROVE  want'[b] \in computing'
    BY <2>4, <1>0, <1>1, ActorSets DEF CacheKept, SleepsFor
  <2> QED BY <2>1, <2>2, <2>3, <2>4, <1>1, ListsStay DEF ListsAside
<1>23. HoldsKept'
  <2>1. spare' \cap (CachedStores' \cup HeldStores') = {}
    BY <1>0, <1>1, <1>3, <1>6 DEF HoldsKept
  <2>2. ASSUME NEW b \in Actors
        PROVE  HoldRight(b)'
    <3>0. HoldRight(b)
      BY <1>0 DEF HoldsKept
    <3>1. CASE b = a
      BY <3>0, <3>1, <1>0, <1>1, ActorSets, <1>5, <1>2, <1>3 DEF HoldRight, NoStore, CallerPlaces,
         HelperPlaces, Claiming, Copying, Computes, Filling, Slotted, ClipTyped
    <3>2. CASE b # a
      BY <3>0, <3>2, <1>1, <1>5, <1>2, <1>3 DEF HoldRight, NoStore, CallerPlaces, HelperPlaces,
         Claiming, Copying, Computes, Filling, Slotted
    <3> QED BY <3>1, <3>2
  <2>3. ASSUME NEW b \in Actors, NEW c \in Actors,
               at'[b] \in Filling \cup {"finish"}, held'[b] # NoStore, held'[c] = held'[b]
        PROVE  c = b
    BY <2>3, <1>0, <1>1, ActorSets DEF HoldsKept, HoldRight, CallerPlaces, HelperPlaces, Claiming,
       Copying, Computes, Filling, Slotted
  <2> QED BY <2>1, <2>2, <2>3 DEF HoldsKept
<1>25. SlotsKept'
  <2>1. SlotsAside
    BY <1>1 DEF SlotsAside, InSlot
  <2> QED BY <2>1, <1>0, SlotsStay
<1>26. DataKept'
  <2> SUFFICES ASSUME ~node.gpu PROVE (\A b \in Actors : FilledTo(b)') /\ \A w \in CachedStores' : store'[w].planes = 1 .. node.planes
    BY <1>1 DEF DataKept
  <2>0. (\A b \in Actors : FilledTo(b)) /\ \A w \in CachedStores : store[w].planes = 1 .. node.planes
    BY <1>0 DEF DataKept
  <2>1. ASSUME NEW b \in Actors
        PROVE  FilledTo(b)'
    <3>1. CASE b = a
      <4>1. plane[a] \in 1 .. node.planes /\ store[held[a]].planes = 1 .. plane[a] - 1 /\ outputs = <<job[a], plane[a]>> /\ queued[a] = 0
        BY <2>0, <1>1 DEF FilledTo, PlanesHeld, Slotted, Filling, Computes
      <4>2. store'[held[a]].planes = 1 .. plane[a]
        <5>1. store'[held[a]].planes = (1 .. plane[a] - 1) \cup {plane[a]}
          BY <4>1, <1>1, <1>2
        <5> QED BY <5>1, <4>1
      <4>3. node.planes \in Nat \ {0}
        BY <1>0 DEF ClipTyped, Bm4dAssumption
      <4>4. CASE plane[a] = node.planes
        BY <3>1, <4>1, <4>2, <4>4, <1>1 DEF FilledTo, PlanesHeld, CallerPlaces, HelperPlaces,
           Claiming, Copying, Computes, Filling, Slotted
      <4>5. CASE plane[a] # node.planes
        <5>1. plane'[a] \in 1 .. node.planes /\ plane'[a] - 1 = plane[a] /\ at'[a] = "upload" /\ held'[a] = held[a] /\ queued'[a] = 0
          BY <4>1, <4>3, <4>5, <1>1
        <5>2. store'[held'[a]].planes = 1 .. plane'[a] - 1
          BY <4>2, <5>1
        <5> QED BY <3>1, <5>1, <5>2, <1>1 DEF FilledTo, PlanesHeld, CallerPlaces, HelperPlaces,
                Claiming, Copying, Computes, Filling, Slotted
      <4> QED BY <4>4, <4>5
    <3>2. CASE b # a
      <4>1. at'[b] # "download" /\ at'[b] = at[b] /\ job'[b] = job[b] /\ held'[b] = held[b] /\ queued'[b] = queued[b] /\ plane'[b] = plane[b]
        BY <3>2, <1>0, <1>1 DEF SlotsKept, At
      <4>2. held[b] # NoStore => store'[held[b]] = store[held[b]]
        BY <3>2, <1>5
      <4>3. FilledTo(b) /\ HoldRight(b)
        BY <2>0, <1>0 DEF HoldsKept
      <4> QED BY <4>1, <4>2, <4>3, <1>1, ActorSets DEF FilledTo, HoldRight, PlanesHeld,
              CallerPlaces, HelperPlaces, Claiming, Copying, Computes, Filling, Slotted
    <3> QED BY <3>1, <3>2
  <2>2. \A w \in CachedStores' : store'[w].planes = 1 .. node.planes
    BY <2>0, <1>4
  <2> QED BY <2>1, <2>2
<1>27. ReservedKept'
  <2>1. Prefetchers' = Prefetchers
    BY <1>0, <1>1, ActorSets DEF Prefetchers, ClaimsKept, ClaimRight, CallerPlaces, HelperPlaces,
       Claiming, Copying, Computes, Filling, Slotted
  <2> QED BY <2>1, <1>0, <1>1 DEF ReservedKept
<1>28. PermitsKept'
  <2>1. {b \in Callers : At(b, "copy")}' = {b \in Callers : At(b, "copy")}
    BY <1>0, <1>1, ActorSets DEF At
  <2> QED BY <2>1, <1>0, <1>1 DEF PermitsKept
<1> QED BY <1>20, <1>21, <1>22, <1>23, <1>25, <1>26, <1>27, <1>28 DEF ClipInv

\* A queued copy into a device store runs.
LEMMA CopyKeeps ==
    ASSUME Bm4dAssumption, ClipInv, NEW a \in Actors, Copy(a)
    PROVE  ClipInv'
<1>0. /\ ClipTyped /\ ClaimsKept /\ CacheKept /\ HoldsKept /\ HitsKept /\ SlotsKept /\ DataKept
      /\ ReservedKept /\ PermitsKept /\ RoomKept
  BY ClipParts
<1>1. /\ queued[a] # 0
      /\ \A s \in Stores : store'[s].first = store[s].first /\ (s # held[a] => store'[s] = store[s])
      /\ store' \in [Stores -> Contents]
      /\ queued' \in [Actors -> Nat]
      /\ UNCHANGED <<node, faults, cache, computing, running, spare, prefetching, frames, at, want,
                     job, plane, held, computers, permits, asked>>
  <2>1. queued \in [Actors -> Nat]
    BY <1>0 DEF ClipTyped
  <2>2. /\ store' \in [Stores -> Contents]
        /\ \A s \in Stores : store'[s].first = store[s].first /\ (s # held[a] => store'[s] = store[s])
    <3>1. store' = Downloaded(held[a], queued[a]) /\ queued[a] \in Nat
      BY <2>1 DEF Copy
    <3> QED BY <3>1, <1>0, DownloadedTo
  <2> QED BY <2>1, <2>2 DEF Copy, fixedVars, sharedVars, deviceVars, storageVars, permitVars
<1>2. node.gpu
  BY <1>0, <1>1 DEF DataKept, FilledTo
<1>3. CachedStores' = CachedStores /\ CachedStores \subseteq Stores
  BY <1>0, <1>1, SetsFinite DEF CachedStores
<1>4. \A s \in CachedStores' : s \in CachedStores /\ store'[s].first = store[s].first
  BY <1>1, <1>3
<1>5. \A b \in Actors : held[b] # NoStore => store'[held[b]].first = store[held[b]].first
  BY <1>0, <1>1 DEF ClipTyped
<1>6. HeldStores' = HeldStores
  BY <1>1 DEF HeldStores
<1>20. ClipTyped'
  <2>1. queued' \in [Actors -> Nat]
    BY <1>1
  <2>2. store' \in [Stores -> Contents]
    BY <1>1
  <2>3. /\ \A b \in Callers : at'[b] \in CallerPlaces /\ (at'[b] # "out" => want'[b] \in Nat)
        /\ \A b \in Helpers : at'[b] \in HelperPlaces
    BY <1>0, <1>1, ActorSets DEF ClipTyped, CallerPlaces, HelperPlaces, Claiming, Copying,
       Computes, Filling, Slotted
  <2>4. /\ node' \in Nodes /\ cache' \in Seq(CacheEntries) /\ computing' \subseteq Nat /\ running' \subseteq Nat
        /\ spare' \subseteq Stores /\ prefetching' \in Int /\ frames' = [p \in {0, 1} |-> frames'[p]]
        /\ computers' \subseteq Callers /\ permits' \subseteq Callers
    BY <1>0, <1>1, ActorSets DEF ClipTyped
  <2> QED BY <1>1, <1>0, <2>1, <2>2, <2>3, <2>4 DEF ClipTyped
<1>21. ClaimsKept'
  <2>1. \A b \in Actors : ClaimRight(b)'
    BY <1>0, <1>1, ActorSets DEF ClaimsKept, ClaimRight, NoChunk, ChunkNumbers, CallerPlaces,
       HelperPlaces, Claiming, Copying, Computes, Filling, Slotted, ClipTyped
  <2>2. ASSUME NEW b \in Actors, NEW c \in Actors, job'[b] = job'[c], job'[b] # NoChunk
        PROVE  b = c
    BY <2>2, <1>0, <1>1 DEF ClaimsKept
  <2> QED BY <2>1, <2>2 DEF ClaimsKept
<1>22. CacheKept' /\ HitsKept' /\ RoomKept'
  <2>1. \A w \in CachedStores : store'[w].first = store[w].first /\ store[w].first \notin computing'
    BY <1>0, <1>1, <1>3, <1>4 DEF CacheKept
  <2>2. ASSUME NEW b \in Actors
        PROVE  \/ at'[b] = at[b]
               \/ {at[b], at'[b]} \subseteq Copying
               \/ {at[b], at'[b]} \cap (Copying \cup {"unread", "evict"}) = {}
    BY <1>1 DEF Copying
  <2>3. ASSUME NEW b \in Callers, at[b] \in Copying \cup {"unread"}
        PROVE  want'[b] = want[b] /\ (b \in computers' <=> b \in computers)
    BY <2>3, <1>1, ActorSets DEF Copying
  <2>4. ASSUME NEW b \in Callers, at'[b] = "asleep"
        PROVE  want'[b] \in computing'
    BY <2>4, <1>0, <1>1, ActorSets DEF CacheKept, SleepsFor
  <2> QED BY <2>1, <2>2, <2>3, <2>4, <1>1, ListsStay DEF ListsAside
<1>23. HoldsKept'
  <2>1. spare' \cap (CachedStores' \cup HeldStores') = {}
    BY <1>0, <1>1, <1>3, <1>6 DEF HoldsKept
  <2>2. \A b \in Actors : HoldRight(b)'
    BY <1>0, <1>1, ActorSets, <1>5, <1>3 DEF HoldsKept, HoldRight, NoStore, CallerPlaces,
       HelperPlaces, Claiming, Copying, Computes, Filling, Slotted, ClipTyped
  <2>3. ASSUME NEW b \in Actors, NEW c \in Actors,
               at'[b] \in Filling \cup {"finish"}, held'[b] # NoStore, held'[c] = held'[b]
        PROVE  c = b
    BY <2>3, <1>0, <1>1, ActorSets DEF HoldsKept, HoldRight, CallerPlaces, HelperPlaces, Claiming,
       Copying, Computes, Filling, Slotted
  <2> QED BY <2>1, <2>2, <2>3 DEF HoldsKept
<1>25. SlotsKept'
  <2>1. SlotsAside
    BY <1>1 DEF SlotsAside, InSlot
  <2> QED BY <2>1, <1>0, SlotsStay
<1>26. DataKept'
  BY <1>1, <1>2 DEF DataKept
<1>27. ReservedKept'
  <2>1. Prefetchers' = Prefetchers
    BY <1>0, <1>1, ActorSets DEF Prefetchers, ClaimsKept, ClaimRight, CallerPlaces, HelperPlaces,
       Claiming, Copying, Computes, Filling, Slotted
  <2> QED BY <2>1, <1>0, <1>1 DEF ReservedKept
<1>28. PermitsKept'
  <2>1. {b \in Callers : At(b, "copy")}' = {b \in Callers : At(b, "copy")}
    BY <1>0, <1>1, ActorSets DEF At
  <2> QED BY <2>1, <1>0, <1>1 DEF PermitsKept
<1> QED BY <1>20, <1>21, <1>22, <1>23, <1>25, <1>26, <1>27, <1>28 DEF ClipInv

\* A chunk fails.
LEMMA ComputeThrowsKeeps ==
    ASSUME Bm4dAssumption, ClipInv, NEW a \in Actors, ComputeThrows(a)
    PROVE  ClipInv'
<1>0. /\ ClipTyped /\ ClaimsKept /\ CacheKept /\ HoldsKept /\ HitsKept /\ SlotsKept /\ DataKept
      /\ ReservedKept /\ PermitsKept /\ RoomKept
  BY ClipParts
<1>1. /\ \/ at[a] = "store" /\ at'[a] = "finish"
         \/ at[a] \in {"upload", "tiles", "download"} /\ at'[a] = "drain"
      /\ \A b \in Actors : b # a => at'[b] = at[b]
      /\ plane'[a] = 0
      /\ \A b \in Actors : b # a => plane'[b] = plane[b]
      /\ UNCHANGED <<node, faults, cache, computing, running, spare, prefetching, store, frames,
                     outputs, want, job, held, queued, computers, permits, asked>>
  BY <1>0, ActorSets DEF ComputeThrows, ClipTyped, At, MoveTo, fixedVars, sharedVars, deviceVars,
     storageVars, permitVars, CallerPlaces, HelperPlaces, Claiming, Copying, Computes, Filling,
     Slotted
<1>2. CachedStores' = CachedStores
  BY <1>1 DEF CachedStores
<1>3. HeldStores' = HeldStores
  BY <1>1 DEF HeldStores
<1>4. \A w \in CachedStores' : w \in CachedStores /\ store'[w] = store[w]
  BY <1>1, <1>2
<1>20. ClipTyped'
  <2>1. at' \in [Actors -> CallerPlaces \cup HelperPlaces]
    BY <1>0, ActorSets DEF ComputeThrows, ClipTyped, At, MoveTo, fixedVars, sharedVars, deviceVars,
       storageVars, permitVars, CallerPlaces, HelperPlaces, Claiming, Copying, Computes, Filling,
       Slotted, ChunkNumbers, NoChunk, NoStore
  <2>2. plane' \in [Actors -> Nat]
    BY <1>0, ActorSets DEF ComputeThrows, ClipTyped, At, MoveTo, fixedVars, sharedVars, deviceVars,
       storageVars, permitVars, CallerPlaces, HelperPlaces, Claiming, Copying, Computes, Filling,
       Slotted, ChunkNumbers, NoChunk, NoStore
  <2>3. /\ \A b \in Callers : at'[b] \in CallerPlaces /\ (at'[b] # "out" => want'[b] \in Nat)
        /\ \A b \in Helpers : at'[b] \in HelperPlaces
    BY <1>0, <1>1, ActorSets DEF ClipTyped, CallerPlaces, HelperPlaces, Claiming, Copying,
       Computes, Filling, Slotted
  <2>4. /\ node' \in Nodes /\ cache' \in Seq(CacheEntries) /\ computing' \subseteq Nat /\ running' \subseteq Nat
        /\ spare' \subseteq Stores /\ prefetching' \in Int /\ frames' = [p \in {0, 1} |-> frames'[p]]
        /\ computers' \subseteq Callers /\ permits' \subseteq Callers
    BY <1>0, <1>1, ActorSets DEF ClipTyped
  <2> QED BY <1>1, <1>0, <2>1, <2>2, <2>3, <2>4 DEF ClipTyped
<1>21. ClaimsKept'
  <2>1. \A b \in Actors : ClaimRight(b)'
    BY <1>0, <1>1, ActorSets DEF ClaimsKept, ClaimRight, NoChunk, ChunkNumbers, CallerPlaces,
       HelperPlaces, Claiming, Copying, Computes, Filling, Slotted, ClipTyped
  <2>2. ASSUME NEW b \in Actors, NEW c \in Actors, job'[b] = job'[c], job'[b] # NoChunk
        PROVE  b = c
    BY <2>2, <1>0, <1>1 DEF ClaimsKept
  <2> QED BY <2>1, <2>2 DEF ClaimsKept
<1>22. CacheKept' /\ HitsKept' /\ RoomKept'
  <2>1. \A w \in CachedStores : store'[w].first = store[w].first /\ store[w].first \notin computing'
    BY <1>0, <1>1, <1>2, <1>4 DEF CacheKept
  <2>2. ASSUME NEW b \in Actors
        PROVE  \/ at'[b] = at[b]
               \/ {at[b], at'[b]} \subseteq Copying
               \/ {at[b], at'[b]} \cap (Copying \cup {"unread", "evict"}) = {}
    BY <1>1 DEF Copying
  <2>3. ASSUME NEW b \in Callers, at[b] \in Copying \cup {"unread"}
        PROVE  want'[b] = want[b] /\ (b \in computers' <=> b \in computers)
    BY <2>3, <1>1, ActorSets DEF Copying
  <2>4. ASSUME NEW b \in Callers, at'[b] = "asleep"
        PROVE  want'[b] \in computing'
    BY <2>4, <1>0, <1>1, ActorSets DEF CacheKept, SleepsFor
  <2> QED BY <2>1, <2>2, <2>3, <2>4, <1>1, ListsStay DEF ListsAside
<1>23. HoldsKept'
  <2>1. spare' \cap (CachedStores' \cup HeldStores') = {}
    BY <1>0, <1>1, <1>2, <1>3 DEF HoldsKept
  <2>2. ASSUME NEW b \in Actors
        PROVE  HoldRight(b)'
    <3>0. HoldRight(b)
      BY <1>0 DEF HoldsKept
    <3>1. CASE b = a
      BY <3>0, <3>1, <1>0, <1>1, ActorSets, <1>2 DEF HoldRight, NoStore, CallerPlaces,
         HelperPlaces, Claiming, Copying, Computes, Filling, Slotted, ClipTyped
    <3>2. CASE b # a
      BY <3>0, <3>2, <1>1, <1>2 DEF HoldRight, NoStore, CallerPlaces, HelperPlaces, Claiming,
         Copying, Computes, Filling, Slotted
    <3> QED BY <3>1, <3>2
  <2>3. ASSUME NEW b \in Actors, NEW c \in Actors,
               at'[b] \in Filling \cup {"finish"}, held'[b] # NoStore, held'[c] = held'[b]
        PROVE  c = b
    BY <2>3, <1>0, <1>1, ActorSets DEF HoldsKept, HoldRight, CallerPlaces, HelperPlaces, Claiming,
       Copying, Computes, Filling, Slotted
  <2> QED BY <2>1, <2>2, <2>3 DEF HoldsKept
<1>25. SlotsKept'
  <2>1. SlotsAside
    BY <1>1 DEF SlotsAside, InSlot
  <2> QED BY <2>1, <1>0, SlotsStay
<1>26. DataKept'
  <2> SUFFICES ASSUME ~node.gpu PROVE (\A b \in Actors : FilledTo(b)') /\ \A w \in CachedStores' : store'[w].planes = 1 .. node.planes
    BY <1>1 DEF DataKept
  <2>0. (\A b \in Actors : FilledTo(b)) /\ \A w \in CachedStores : store[w].planes = 1 .. node.planes
    BY <1>0 DEF DataKept
  <2>1. ASSUME NEW b \in Actors
        PROVE  FilledTo(b)'
    <3>0. FilledTo(b)
      BY <1>0 DEF DataKept
    <3>1. CASE b = a
      BY <3>0, <3>1, <1>0, <1>1, ActorSets DEF FilledTo, PlanesHeld, HoldsKept, HoldRight, NoStore,
         CallerPlaces, HelperPlaces, Claiming, Copying, Computes, Filling, Slotted, ClipTyped
    <3>2. CASE b # a
      BY <3>0, <3>2, <1>1 DEF FilledTo, PlanesHeld, HoldsKept, HoldRight, NoStore, CallerPlaces,
         HelperPlaces, Claiming, Copying, Computes, Filling, Slotted
    <3> QED BY <3>1, <3>2
  <2>2. \A w \in CachedStores' : store'[w].planes = 1 .. node.planes
    BY <2>0, <1>4
  <2> QED BY <2>1, <2>2
<1>27. ReservedKept'
  <2>1. Prefetchers' = Prefetchers
    BY <1>0, <1>1, ActorSets DEF Prefetchers, ClaimsKept, ClaimRight, CallerPlaces, HelperPlaces,
       Claiming, Copying, Computes, Filling, Slotted
  <2> QED BY <2>1, <1>0, <1>1 DEF ReservedKept
<1>28. PermitsKept'
  <2>1. {b \in Callers : At(b, "copy")}' = {b \in Callers : At(b, "copy")}
    BY <1>0, <1>1, ActorSets DEF At
  <2> QED BY <2>1, <1>0, <1>1 DEF PermitsKept
<1> QED BY <1>20, <1>21, <1>22, <1>23, <1>25, <1>26, <1>27, <1>28 DEF ClipInv

\* An actor leaves its slot and wakes who waits.
LEMMA LeaveKeeps ==
    ASSUME Bm4dAssumption, ClipInv, NEW a \in Actors, Leave(a)
    PROVE  ClipInv'
<1>0. /\ ClipTyped /\ ClaimsKept /\ CacheKept /\ HoldsKept /\ HitsKept /\ SlotsKept /\ DataKept
      /\ ReservedKept /\ PermitsKept /\ RoomKept
  BY ClipParts
<1>1. /\ at[a] = "drain"
      /\ at'[a] = "finish"
      /\ \A b \in Actors : b # a => at'[b] = IF at[b] = "asleep" THEN "look" ELSE IF at[b] = "waiting" THEN "order" ELSE at[b]
      /\ \/ plane[a] = 0 /\ held'[a] = NoStore
         \/ plane[a] # 0 /\ held'[a] = held[a] /\ store' = store
      /\ \A b \in Actors : b # a => held'[b] = held[b]
      /\ \A s \in Stores : s # held[a] => store'[s] = store[s]
      /\ store' \in [Stores -> Contents]
      /\ running' = running \ {job[a]}
      /\ frames' = [frames EXCEPT ![Parity(job[a])] = Nothing]
      /\ plane'[a] = 0
      /\ \A b \in Actors : b # a => plane'[b] = plane[b]
      /\ UNCHANGED <<node, faults, cache, computing, spare, prefetching, outputs, want, job,
                     queued, computers, permits, asked>>
  <2>1. at[a] = "drain" /\ held[a] \in Stores
    BY <1>0 DEF Leave, At, ClipTyped, HoldsKept, HoldRight, CallerPlaces, HelperPlaces, Claiming,
       Copying, Computes, Filling, Slotted
  <2>2. /\ at' \in [Actors -> CallerPlaces \cup HelperPlaces] /\ at'[a] = "finish"
        /\ \A b \in Actors : b # a => at'[b] = IF at[b] = "asleep" THEN "look" ELSE IF at[b] = "waiting" THEN "order" ELSE at[b]
    BY <1>0 DEF Leave, Woken, ClipTyped, CallerPlaces, HelperPlaces, Claiming, Copying, Computes,
       Filling, Slotted
  <2>3. CASE plane[a] = 0
    <3>1. store' = Without({held[a]}) /\ held' = [held EXCEPT ![a] = NoStore]
      BY <2>3 DEF Leave
    <3>2. store' \in [Stores -> Contents] /\ \A s \in Stores : s # held[a] => store'[s] = store[s]
      BY <3>1, <1>0 DEF Without, Blank, Contents, ChunkNumbers, ClipTyped
    <3> QED BY <2>1, <2>2, <2>3, <3>1, <3>2, <1>0 DEF Leave, ClipTyped, fixedVars, sharedVars,
            deviceVars, storageVars, permitVars
  <2>4. CASE plane[a] # 0
    <3>1. store' = store /\ held' = [held EXCEPT ![a] = held[a]]
      BY <2>4, <1>0 DEF Leave, ClipTyped
    <3> QED BY <2>1, <2>2, <2>4, <3>1, <1>0 DEF Leave, ClipTyped, fixedVars, sharedVars,
            deviceVars, storageVars, permitVars
  <2> QED BY <2>3, <2>4
<1>2. /\ held[a] \in Stores /\ held[a] # NoStore /\ held[a] \notin CachedStores
      /\ job[a] \in Nat /\ Parity(job[a]) \in {0, 1} /\ NoStore \notin Stores
  BY <1>0, <1>1, ParityOf, ActorSets DEF HoldsKept, HoldRight, ClaimsKept, ClaimRight, ClipTyped,
     ChunkNumbers, CallerPlaces, HelperPlaces, Claiming, Copying, Computes, Filling, Slotted
<1>3. CachedStores' = CachedStores /\ CachedStores \subseteq Stores
  BY <1>0, <1>1, SetsFinite DEF CachedStores
<1>4. HeldStores' \subseteq HeldStores
  BY <1>1 DEF HeldStores
<1>5. \A s \in CachedStores' : s \in CachedStores /\ store'[s] = store[s]
  BY <1>1, <1>2, <1>3
<1>6. \A b \in Actors : b # a /\ held[b] # NoStore => held[b] # held[a] /\ store'[held[b]] = store[held[b]]
  BY <1>0, <1>1, <1>2 DEF HoldsKept, ClipTyped, Filling, Computes
<1>7. /\ frames' = [p \in {0, 1} |-> frames'[p]]
      /\ \A p \in {0, 1} : p # Parity(job[a]) => frames'[p] = frames[p]
  BY <1>0, <1>1, <1>2 DEF ClipTyped
<1>8. \A b \in Actors : b # a /\ at[b] \in {"order", "waiting", "tiles"} => frames'[Parity(job[b])] = frames[Parity(job[b])]
  <2> SUFFICES ASSUME NEW b \in Actors, b # a, at[b] \in {"order", "waiting", "tiles"}
               PROVE  frames'[Parity(job[b])] = frames[Parity(job[b])]
    OBVIOUS
  <2>1. job[b] \in Nat
    BY <1>0 DEF ClaimsKept, ClaimRight, ClipTyped, ChunkNumbers, CallerPlaces, HelperPlaces,
       Claiming, Copying, Computes, Filling, Slotted
  <2>2. Parity(job[b]) # Parity(job[a])
    BY <1>0, <1>1 DEF SlotsKept, InSlot
  <2> QED BY <2>1, <2>2, <1>7, ParityOf
<1>9. \A b \in Actors : b # a => job'[b] = job[b] /\ held'[b] = held[b] /\ plane'[b] = plane[b] /\ queued'[b] = queued[b]
  BY <1>1
<1>20. ClipTyped'
  <2>1. at' \in [Actors -> CallerPlaces \cup HelperPlaces]
    BY <1>0 DEF Leave, Woken, ClipTyped, CallerPlaces, HelperPlaces, Claiming, Copying, Computes,
       Filling, Slotted
  <2>2. plane' \in [Actors -> Nat]
    BY <1>0 DEF Leave, ClipTyped
  <2>3. held' \in [Actors -> Stores \cup {NoStore}]
    BY <1>0 DEF Leave, ClipTyped, NoStore
  <2>4. store' \in [Stores -> Contents]
    BY <1>1
  <2>5. /\ \A b \in Callers : at'[b] \in CallerPlaces /\ (at'[b] # "out" => want'[b] \in Nat)
        /\ \A b \in Helpers : at'[b] \in HelperPlaces
    BY <1>0, <1>1, ActorSets DEF ClipTyped, CallerPlaces, HelperPlaces, Claiming, Copying,
       Computes, Filling, Slotted
  <2>6. /\ node' \in Nodes /\ cache' \in Seq(CacheEntries) /\ computing' \subseteq Nat /\ running' \subseteq Nat
        /\ spare' \subseteq Stores /\ prefetching' \in Int /\ frames' = [p \in {0, 1} |-> frames'[p]]
        /\ computers' \subseteq Callers /\ permits' \subseteq Callers
    BY <1>0, <1>1, <1>7 DEF ClipTyped
  <2> QED BY <1>1, <1>0, <2>1, <2>2, <2>3, <2>4, <2>5, <2>6 DEF ClipTyped
<1>21. ClaimsKept'
  <2>1. ASSUME NEW b \in Actors
        PROVE  ClaimRight(b)'
    <3>0. ClaimRight(b)
      BY <1>0 DEF ClaimsKept
    <3>1. CASE b = a
      BY <3>0, <3>1, <1>0, <1>1, ActorSets DEF ClaimRight, NoChunk, ChunkNumbers, CallerPlaces,
         HelperPlaces, Claiming, Copying, Computes, Filling, Slotted, ClipTyped
    <3>2. CASE b # a
      BY <3>0, <3>2, <1>1 DEF ClaimRight, NoChunk, ChunkNumbers, CallerPlaces, HelperPlaces,
         Claiming, Copying, Computes, Filling, Slotted
    <3> QED BY <3>1, <3>2
  <2>2. ASSUME NEW b \in Actors, NEW c \in Actors, job'[b] = job'[c], job'[b] # NoChunk
        PROVE  b = c
    BY <2>2, <1>0, <1>1 DEF ClaimsKept
  <2> QED BY <2>1, <2>2 DEF ClaimsKept
<1>22. CacheKept'
  <2>1. Once(cache)'
    BY <1>0, <1>1 DEF CacheKept, Once
  <2>2. \A w, v \in CachedStores' : store'[w].first = store'[v].first => w = v
    BY <1>0, <1>5 DEF CacheKept
  <2>3. \A w \in CachedStores' : store'[w].first \in Nat \ computing'
    BY <1>0, <1>1, <1>5 DEF CacheKept
  <2>4. \A b \in Callers : SleepsFor(b)'
    BY <1>0, <1>1, ActorSets DEF CacheKept, SleepsFor, ClipTyped
  <2> QED BY <2>1, <2>2, <2>3, <2>4 DEF CacheKept
<1>23. HoldsKept'
  <2>1. spare' \cap (CachedStores' \cup HeldStores') = {}
    BY <1>0, <1>1, <1>3, <1>4 DEF HoldsKept
  <2>2. ASSUME NEW b \in Actors
        PROVE  HoldRight(b)'
    <3>0. HoldRight(b)
      BY <1>0 DEF HoldsKept
    <3>1. CASE b = a
      <4>1. a \in Callers => a \in computers
        BY <1>0, <1>1 DEF ClaimsKept, ClaimRight, CallerPlaces, HelperPlaces, Claiming, Copying,
           Computes, Filling, Slotted
      <4> QED BY <3>0, <3>1, <4>1, <1>1, <1>2, <1>3 DEF HoldRight, CallerPlaces, HelperPlaces,
              Claiming, Copying, Computes, Filling, Slotted
    <3>2. CASE b # a
      BY <3>0, <3>2, <1>1, <1>9, <1>6, <1>3 DEF HoldRight, CallerPlaces, HelperPlaces, Claiming,
         Copying, Computes, Filling, Slotted
    <3> QED BY <3>1, <3>2
  <2>3. ASSUME NEW b \in Actors, NEW c \in Actors,
               at'[b] \in Filling \cup {"finish"}, held'[b] # NoStore, held'[c] = held'[b]
        PROVE  c = b
    BY <2>3, <1>0, <1>1, ActorSets DEF HoldsKept, HoldRight, CallerPlaces, HelperPlaces, Claiming,
       Copying, Computes, Filling, Slotted
  <2> QED BY <2>1, <2>2, <2>3 DEF HoldsKept
<1>24. HitsKept'
  <2>1. ASSUME NEW b \in Callers
        PROVE  (IsHit(b)' <=> IsHit(b)) /\ (IsHit(b) => want'[b] = want[b] /\ (at'[b] = "unread" \/ (at[b] # "unread" /\ held'[b] = held[b])))
    BY <1>0, <1>1, ActorSets DEF IsHit, ClaimsKept, ClaimRight, CallerPlaces, HelperPlaces,
       Claiming, Copying, Computes, Filling, Slotted
  <2>2. Hits' = Hits
    BY <2>1 DEF Hits
  <2>3. ASSUME NEW i \in DOMAIN cache'
        PROVE  ReadersRight(cache[i])'
    BY <1>0, <1>1, <2>2, <1>5 DEF HitsKept, ReadersRight, CachedStores
  <2>4. ASSUME NEW b \in Callers
        PROVE  HitRight(b)'
    BY <1>0, <1>1, <2>1, <1>3, <1>5 DEF HitsKept, HitRight
  <2> QED BY <2>3, <2>4 DEF HitsKept
<1>25. SlotsKept'
  <2>1. ASSUME NEW b \in Actors
        PROVE  SlotRight(b)' /\ OrderRight(b)'
    <3>1. at'[b] # "waiting"
      BY <1>1
    <3>2. InSlot(b)' => b # a /\ InSlot(b)
      BY <1>1 DEF InSlot
    <3>3. b # a /\ InSlot(b) => job[b] \in running /\ job[b] # job[a]
      BY <1>0, <1>2 DEF SlotsKept, SlotRight, ClaimsKept, NoChunk
    <3> QED BY <3>1, <3>2, <3>3, <1>1 DEF SlotRight, OrderRight
  <2>2. ASSUME NEW c \in running'
        PROVE  \E b \in Actors : InSlot(b)' /\ job'[b] = c
    <3>1. PICK b \in Actors : InSlot(b) /\ job[b] = c
      BY <1>0, <1>1 DEF SlotsKept
    <3>2. b # a
      BY <3>1, <1>1
    <3> QED BY <3>1, <3>2, <1>1 DEF InSlot
  <2>3. ASSUME NEW b \in Actors, NEW c \in Actors, InSlot(b)', InSlot(c)', Parity(job'[b]) = Parity(job'[c])
        PROVE  b = c
    BY <2>3, <1>0, <1>1 DEF SlotsKept, InSlot
  <2>4. ASSUME NEW b \in Actors, NEW c \in Actors, At(b, "download")', At(c, "download")'
        PROVE  b = c
    BY <2>4, <1>0, <1>1 DEF SlotsKept, At
  <2> QED BY <2>1, <2>2, <2>3, <2>4 DEF SlotsKept
<1>26. DataKept'
  <2> SUFFICES ASSUME ~node.gpu PROVE (\A b \in Actors : FilledTo(b)') /\ \A w \in CachedStores' : store'[w].planes = 1 .. node.planes
    BY <1>1 DEF DataKept
  <2>0. (\A b \in Actors : FilledTo(b)) /\ \A w \in CachedStores : store[w].planes = 1 .. node.planes
    BY <1>0 DEF DataKept
  <2>1. ASSUME NEW b \in Actors
        PROVE  FilledTo(b)'
    <3>0. FilledTo(b) /\ HoldRight(b)
      BY <2>0, <1>0 DEF HoldsKept
    <3>1. CASE b = a
      BY <3>0, <3>1, <1>1 DEF FilledTo, HoldRight, PlanesHeld, CallerPlaces, HelperPlaces,
         Claiming, Copying, Computes, Filling, Slotted
    <3>2. CASE b # a
      BY <3>0, <3>2, <1>1, <1>9, <1>6, <1>8, ActorSets DEF FilledTo, HoldRight, PlanesHeld,
         CallerPlaces, HelperPlaces, Claiming, Copying, Computes, Filling, Slotted
    <3> QED BY <3>1, <3>2
  <2>2. \A w \in CachedStores' : store'[w].planes = 1 .. node.planes
    BY <2>0, <1>5
  <2> QED BY <2>1, <2>2
<1>27. ReservedKept'
  <2>1. Prefetchers' = Prefetchers
    BY <1>0, <1>1, ActorSets DEF Prefetchers, ClaimsKept, ClaimRight, CallerPlaces, HelperPlaces,
       Claiming, Copying, Computes, Filling, Slotted
  <2> QED BY <2>1, <1>0, <1>1 DEF ReservedKept
<1>28. PermitsKept'
  <2>1. {b \in Callers : At(b, "copy")}' = {b \in Callers : At(b, "copy")}
    BY <1>0, <1>1, ActorSets DEF At
  <2> QED BY <2>1, <1>0, <1>1 DEF PermitsKept
<1>29. RoomKept'
  <2>1. StoresCounted'
    <3>1. LiveStores' \subseteq LiveStores
      BY <1>1, <1>3, <1>4 DEF LiveStores
    <3> QED BY <3>1, <1>0, LiveLess
  <2>2. Evicting' = Evicting /\ \A b \in Evicting : held'[b] = held[b]
    BY <1>0, <1>1, ActorSets DEF Evicting, At
  <2>3. InTheWay' = InTheWay
    BY <2>2, <1>3 DEF InTheWay
  <2> QED BY <2>1, <2>2, <2>3, <1>0, SetsFinite, FS_Subset, FS_CardinalityType, ActorSets
          DEF RoomKept, StoresCounted
<1> QED BY <1>20, <1>21, <1>22, <1>23, <1>24, <1>25, <1>26, <1>27, <1>28, <1>29 DEF ClipInv

\* A chunk is cached, its claim ends, and who waits wakes.
LEMMA FinishKeeps ==
    ASSUME Bm4dAssumption, ClipInv, NEW a \in Actors, Finish(a)
    PROVE  ClipInv'
<1>0. /\ ClipTyped /\ ClaimsKept /\ CacheKept /\ HoldsKept /\ HitsKept /\ SlotsKept /\ DataKept
      /\ ReservedKept /\ PermitsKept /\ RoomKept
  BY ClipParts
<1>1. /\ at[a] = "finish"
      /\ at'[a] = "evict"
      /\ \A b \in Actors : b # a => at'[b] = IF at[b] = "asleep" THEN "look" ELSE IF at[b] = "waiting" THEN "order" ELSE at[b]
      /\ held[a] = NoStore => cache' = cache
      /\ held[a] # NoStore => cache' = Pushed(cache, [store |-> held[a], readers |-> 0])
      /\ computing' = computing \ {job[a]}
      /\ job'[a] = NoChunk
      /\ \A b \in Actors : b # a => job'[b] = job[b]
      /\ held'[a] = IF a \in Helpers THEN NoStore ELSE held[a]
      /\ \A b \in Actors : b # a => held'[b] = held[b]
      /\ UNCHANGED <<node, faults, running, spare, prefetching, store, frames, outputs, want,
                     plane, queued, computers, permits, asked>>
  <2>1. at'[a] = "evict" /\ \A b \in Actors : b # a => at'[b] = IF at[b] = "asleep" THEN "look" ELSE IF at[b] = "waiting" THEN "order" ELSE at[b]
    BY <1>0 DEF Finish, Woken, ClipTyped, CallerPlaces, HelperPlaces, Claiming, Copying, Computes,
       Filling, Slotted
  <2>2. /\ held[a] = NoStore => cache' = cache
        /\ held[a] # NoStore => cache' = Pushed(cache, [store |-> held[a], readers |-> 0])
    BY DEF Finish, Published, Pushed
  <2>3. /\ held'[a] = IF a \in Helpers THEN NoStore ELSE held[a]
        /\ \A b \in Actors : b # a => held'[b] = held[b]
    BY <1>0 DEF Finish, ClipTyped
  <2> QED BY <2>1, <2>2, <2>3, <1>0 DEF Finish, ClipTyped, At, fixedVars, sharedVars, deviceVars,
          storageVars, permitVars
<1>2. /\ job[a] \in Nat /\ job[a] # NoChunk /\ job[a] \in computing /\ NoStore \notin Stores
      /\ held[a] # NoStore => held[a] \in Stores /\ held[a] \notin CachedStores /\ store[held[a]].first = job[a]
  BY <1>0, <1>1, ActorSets DEF HoldsKept, HoldRight, ClaimsKept, ClaimRight, ClipTyped,
     ChunkNumbers, CallerPlaces, HelperPlaces, Claiming, Copying, Computes, Filling, Slotted
<1>3. /\ cache' \in Seq(CacheEntries) /\ Once(cache')
      /\ StoresOf(cache') = StoresOf(cache) \cup ({held[a]} \ {NoStore})
      /\ EntryOr(cache', cache, [store |-> held[a], readers |-> 0])
  <2>1. cache \in Seq(CacheEntries) /\ Once(cache)
    BY <1>0 DEF ClipTyped, CacheKept
  <2>2. CASE held[a] = NoStore
    BY <2>1, <2>2, <1>1 DEF EntryOr
  <2>3. CASE held[a] # NoStore
    <3> DEFINE e == [store |-> held[a], readers |-> 0]
    <3>1. e \in CacheEntries /\ e.store \notin StoresOf(cache) /\ e.store = held[a] /\ cache' = Pushed(cache, e)
      BY <2>3, <1>1, <1>2 DEF CacheEntries, CachedStores, StoresOf
    <3> HIDE DEF e
    <3>2. /\ cache' \in Seq(CacheEntries) /\ Once(cache') /\ StoresOf(cache') = StoresOf(cache) \cup {e.store}
          /\ EntryOr(cache', cache, e)
      BY <2>1, <3>1, PushedListed
    <3> QED BY <2>3, <3>1, <3>2 DEF e
  <2> QED BY <2>2, <2>3
<1>4. CachedStores' = CachedStores \cup ({held[a]} \ {NoStore}) /\ CachedStores \subseteq Stores
  <2>1. CachedStores' = StoresOf(cache') /\ CachedStores = StoresOf(cache)
    BY DEF CachedStores, StoresOf
  <2> QED BY <2>1, <1>3, <1>0, SetsFinite
<1>5. HeldStores' \subseteq HeldStores /\ (held[a] # NoStore => held[a] \in HeldStores)
  BY <1>1 DEF HeldStores
<1>6. \A s \in CachedStores' : s \in CachedStores \/ (s = held[a] /\ held[a] # NoStore)
  BY <1>4
<1>7. \A b \in Actors : b # a => job[b] # job[a]
  BY <1>0, <1>2 DEF ClaimsKept
<1>8. \A b \in Actors : b # a => job'[b] = job[b] /\ held'[b] = held[b] /\ plane'[b] = plane[b] /\ queued'[b] = queued[b]
  BY <1>1
<1>9. \A b \in Actors : b # a /\ held[a] # NoStore => held[b] # held[a]
  BY <1>0, <1>1 DEF HoldsKept
<1>20. ClipTyped'
  <2>1. at' \in [Actors -> CallerPlaces \cup HelperPlaces]
    BY <1>0 DEF Finish, Woken, ClipTyped, CallerPlaces, HelperPlaces, Claiming, Copying, Computes,
       Filling, Slotted
  <2>2. job' \in [Actors -> ChunkNumbers]
    BY <1>0 DEF Finish, ClipTyped, ChunkNumbers
  <2>3. held' \in [Actors -> Stores \cup {NoStore}]
    BY <1>0 DEF Finish, ClipTyped, NoStore
  <2>4. /\ \A b \in Callers : at'[b] \in CallerPlaces /\ (at'[b] # "out" => want'[b] \in Nat)
        /\ \A b \in Helpers : at'[b] \in HelperPlaces
    BY <1>0, <1>1, ActorSets DEF ClipTyped, CallerPlaces, HelperPlaces, Claiming, Copying,
       Computes, Filling, Slotted
  <2>5. /\ node' \in Nodes /\ cache' \in Seq(CacheEntries) /\ computing' \subseteq Nat /\ running' \subseteq Nat
        /\ spare' \subseteq Stores /\ prefetching' \in Int /\ frames' = [p \in {0, 1} |-> frames'[p]]
        /\ computers' \subseteq Callers /\ permits' \subseteq Callers
    BY <1>0, <1>1, <1>3 DEF ClipTyped
  <2> QED BY <1>1, <1>0, <2>1, <2>2, <2>3, <2>4, <2>5 DEF ClipTyped
<1>21. ClaimsKept'
  <2>1. ASSUME NEW b \in Actors
        PROVE  ClaimRight(b)'
    <3>0. ClaimRight(b)
      BY <1>0 DEF ClaimsKept
    <3>1. CASE b = a
      BY <3>0, <3>1, <1>1 DEF ClaimRight, CallerPlaces, HelperPlaces, Claiming, Copying, Computes,
         Filling, Slotted
    <3>2. CASE b # a
      <4>1. job[b] \in computing => job[b] \in computing'
        BY <3>2, <1>1, <1>7
      <4>2. CASE at[b] \in {"asleep", "waiting"}
        BY <3>0, <3>2, <4>1, <4>2, <1>1 DEF ClaimRight, CallerPlaces, HelperPlaces, Claiming,
           Copying, Computes, Filling, Slotted
      <4>3. CASE at[b] \notin {"asleep", "waiting"}
        BY <3>0, <3>2, <4>1, <4>3, <1>1 DEF ClaimRight
      <4> QED BY <4>2, <4>3
    <3> QED BY <3>1, <3>2
  <2>2. ASSUME NEW b \in Actors, NEW c \in Actors, job'[b] = job'[c], job'[b] # NoChunk
        PROVE  b = c
    BY <2>2, <1>0, <1>1 DEF ClaimsKept
  <2> QED BY <2>1, <2>2 DEF ClaimsKept
<1>22. CacheKept'
  <2>1. Once(cache)'
    BY <1>3 DEF Once
  <2>2. \A w, v \in CachedStores' : store'[w].first = store'[v].first => w = v
    BY <1>0, <1>1, <1>6, <1>2 DEF CacheKept
  <2>3. \A w \in CachedStores' : store'[w].first \in Nat \ computing'
    BY <1>0, <1>1, <1>6, <1>2 DEF CacheKept
  <2>4. \A b \in Callers : SleepsFor(b)'
    BY <1>0, <1>1, ActorSets DEF CacheKept, SleepsFor, ClipTyped
  <2> QED BY <2>1, <2>2, <2>3, <2>4 DEF CacheKept
<1>23. HoldsKept'
  <2>1. spare' \cap (CachedStores' \cup HeldStores') = {}
    BY <1>0, <1>1, <1>4, <1>5 DEF HoldsKept
  <2>2. ASSUME NEW b \in Actors
        PROVE  HoldRight(b)'
    <3>0. HoldRight(b)
      BY <1>0 DEF HoldsKept
    <3>1. CASE b = a
      <4>1. a \in Callers /\ held[a] # NoStore => job[a] = want[a]
        BY <3>0, <3>1, <1>0, <1>1 DEF ClaimsKept, ClaimRight, HoldRight
      <4> QED BY <3>0, <3>1, <4>1, <1>1, <1>2, ActorSets DEF HoldRight, CallerPlaces, HelperPlaces,
              Claiming, Copying, Computes, Filling, Slotted
    <3>2. CASE b # a
      <4>1. at[b] \in Filling \cup {"finish"} /\ held[b] # NoStore => held[b] \notin CachedStores'
        BY <3>0, <3>2, <1>4, <1>9 DEF HoldRight
      <4> QED BY <3>0, <3>2, <4>1, <1>1, <1>8 DEF HoldRight, CallerPlaces, HelperPlaces, Claiming,
              Copying, Computes, Filling, Slotted
    <3> QED BY <3>1, <3>2
  <2>3. ASSUME NEW b \in Actors, NEW c \in Actors,
               at'[b] \in Filling \cup {"finish"}, held'[b] # NoStore, held'[c] = held'[b]
        PROVE  c = b
    BY <2>3, <1>0, <1>1, ActorSets DEF HoldsKept, HoldRight, CallerPlaces, HelperPlaces, Claiming,
       Copying, Computes, Filling, Slotted
  <2> QED BY <2>1, <2>2, <2>3 DEF HoldsKept
<1>24. HitsKept'
  <2>1. ASSUME NEW b \in Callers
        PROVE  (IsHit(b)' <=> IsHit(b)) /\ (IsHit(b) => b # a /\ at'[b] = at[b] /\ held'[b] = held[b] /\ want[b] # job[a])
    <3>1. IsHit(b) => want[b] \notin computing
      BY <1>0 DEF HitsKept, HitRight, CacheKept
    <3> QED BY <3>1, <1>0, <1>1, <1>2, ActorSets DEF IsHit, Copying
  <2>2. Hits' = Hits
    BY <2>1, <1>1 DEF Hits
  <2>3. ASSUME NEW k \in DOMAIN cache'
        PROVE  ReadersRight(cache[k])'
    <3>1. CASE \E j \in DOMAIN cache : cache'[k] = cache[j]
      BY <3>1, <2>2, <1>0, <1>1 DEF HitsKept, ReadersRight
    <3>2. CASE ~\E j \in DOMAIN cache : cache'[k] = cache[j]
      <4>1. cache'[k].store = held[a] /\ cache'[k].readers = 0 /\ held[a] # NoStore
        <5>1. cache'[k] = [store |-> held[a], readers |-> 0]
          BY <3>2, <1>3 DEF EntryOr
        <5>2. held[a] # NoStore
          BY <3>2, <1>1
        <5> QED BY <5>1, <5>2
      <4>2. Hits[job[a]] = {}
        BY <2>1, <1>2 DEF Hits, ChunkNumbers
      <4>3. Cardinality(Hits[job[a]]) = 0
        BY <4>2, FS_EmptySet
      <4> QED BY <4>1, <4>3, <2>2, <1>1, <1>2 DEF ReadersRight
    <3> QED BY <3>1, <3>2
  <2>4. ASSUME NEW b \in Callers
        PROVE  HitRight(b)'
    BY <2>1, <1>0, <1>1, <1>4 DEF HitsKept, HitRight
  <2> QED BY <2>3, <2>4 DEF HitsKept
<1>25. SlotsKept'
  <2>1. SlotsAside
    BY <1>1 DEF SlotsAside, InSlot
  <2> QED BY <2>1, <1>0, SlotsStay
<1>26. DataKept'
  <2> SUFFICES ASSUME ~node.gpu PROVE (\A b \in Actors : FilledTo(b)') /\ \A w \in CachedStores' : store'[w].planes = 1 .. node.planes
    BY <1>1 DEF DataKept
  <2>0. (\A b \in Actors : FilledTo(b)) /\ \A w \in CachedStores : store[w].planes = 1 .. node.planes
    BY <1>0 DEF DataKept
  <2>1. ASSUME NEW b \in Actors
        PROVE  FilledTo(b)'
    <3>0. FilledTo(b) /\ HoldRight(b)
      BY <2>0, <1>0 DEF HoldsKept
    <3>1. CASE b = a
      BY <3>0, <3>1, <1>1 DEF FilledTo, HoldRight, PlanesHeld, CallerPlaces, HelperPlaces,
         Claiming, Copying, Computes, Filling, Slotted
    <3>2. CASE b # a
      BY <3>0, <3>2, <1>1, <1>8, ActorSets DEF FilledTo, HoldRight, PlanesHeld, CallerPlaces,
         HelperPlaces, Claiming, Copying, Computes, Filling, Slotted
    <3> QED BY <3>1, <3>2
  <2>2. \A w \in CachedStores' : store'[w].planes = 1 .. node.planes
    <3>1. held[a] # NoStore => store[held[a]].planes = 1 .. node.planes
      BY <2>0, <1>1 DEF FilledTo, PlanesHeld
    <3> QED BY <3>1, <2>0, <1>1, <1>6
  <2> QED BY <2>1, <2>2
<1>27. ReservedKept'
  <2>1. Prefetchers' = Prefetchers
    BY <1>0, <1>1, ActorSets DEF Prefetchers, ClaimsKept, ClaimRight, CallerPlaces, HelperPlaces,
       Claiming, Copying, Computes, Filling, Slotted
  <2> QED BY <2>1, <1>0, <1>1 DEF ReservedKept
<1>28. PermitsKept'
  <2>1. {b \in Callers : At(b, "copy")}' = {b \in Callers : At(b, "copy")}
    BY <1>0, <1>1, ActorSets DEF At
  <2> QED BY <2>1, <1>0, <1>1 DEF PermitsKept
<1>29. RoomKept'
  <2>1. StoresCounted'
    <3>1. LiveStores' \subseteq LiveStores
      BY <1>1, <1>4, <1>5 DEF LiveStores
    <3> QED BY <3>1, <1>0, LiveLess
  <2>2. IsFiniteSet(InTheWay) /\ IsFiniteSet(Evicting) /\ Cardinality(InTheWay) \in Nat /\ Cardinality(Evicting) \in Nat
    BY <1>0, SetsFinite, FS_CardinalityType
  <2>3. CASE a \notin Helpers /\ held[a] = NoStore
    <3>1. Evicting' = Evicting /\ \A b \in Evicting : held'[b] = held[b]
      BY <2>3, <1>0, <1>1, ActorSets DEF Evicting, At
    <3>2. InTheWay' = InTheWay
      BY <2>3, <3>1, <1>4 DEF InTheWay
    <3> QED BY <2>1, <3>1, <3>2, <1>0 DEF RoomKept
  <2>4. CASE a \in Helpers \/ held[a] # NoStore
    <3>1. Evicting' = Evicting \cup {a} /\ a \notin Evicting /\ \A b \in Evicting : held'[b] = held[b]
      BY <2>4, <1>0, <1>1, ActorSets DEF Evicting, At
    <3>2. InTheWay' \in SUBSET (InTheWay \cup {held[a]}) /\ (held[a] = NoStore => InTheWay' = InTheWay)
      <4>1. held'[a] \in {held[a], NoStore}
        BY <1>1
      <4> QED BY <3>1, <4>1, <1>4 DEF InTheWay
    <3>3. Cardinality(Evicting') = Cardinality(Evicting) + 1
      BY <3>1, <2>2, FS_AddElement
    <3>4. /\ IsFiniteSet(InTheWay \cup {held[a]})
          /\ Cardinality(InTheWay \cup {held[a]}) \in {Cardinality(InTheWay), Cardinality(InTheWay) + 1}
      BY <2>2, FS_AddElement
    <3>5. IsFiniteSet(InTheWay') /\ Cardinality(InTheWay') <= Cardinality(InTheWay \cup {held[a]})
      BY <3>2, <3>4, FS_Subset
    <3>6. Cardinality(InTheWay') \in Nat
      BY <3>5, FS_CardinalityType
    <3> QED BY <2>1, <2>2, <3>3, <3>4, <3>5, <3>6, <1>0, ActorSets DEF RoomKept
  <2> QED BY <2>3, <2>4
<1> QED BY <1>20, <1>21, <1>22, <1>23, <1>24, <1>25, <1>26, <1>27, <1>28, <1>29 DEF ClipInv

\* Chunks beyond the limit that nobody reads go.
LEMMA EvictKeeps ==
    ASSUME Bm4dAssumption, ClipInv, NEW a \in Actors, Evict(a)
    PROVE  ClipInv'
<1>0. /\ ClipTyped /\ ClaimsKept /\ CacheKept /\ HoldsKept /\ HitsKept /\ SlotsKept /\ DataKept
      /\ ReservedKept /\ PermitsKept /\ RoomKept
  BY ClipParts
<1>1. /\ at[a] = "evict"
      /\ cache' = LeftOf(cache, Dropped)
      /\ spare' = spare \cup (Dropped \ HeldStores)
      /\ store' \in [Stores -> Contents]
      /\ \A s \in Stores : s \notin Dropped \/ s \in HeldStores => store'[s] = store[s]
      /\ \/ at'[a] = "evict"
         \/ Len(cache') <= CacheLimit /\ at'[a] = AfterFinish(a)
      /\ \A b \in Actors : b # a => at'[b] = at[b]
      /\ at' \in [Actors -> CallerPlaces \cup HelperPlaces]
      /\ UNCHANGED <<node, faults, computing, running, prefetching, frames, outputs, want, job,
                     plane, held, queued, computers, permits, asked>>
  <2>1. at[a] = "evict" /\ cache' = LeftOf(cache, Dropped) /\ spare' = spare \cup (Dropped \ HeldStores)
    BY DEF Evict, At, Shortened, LeftOf, LeftAt, Rank, Reused
  <2>2. /\ store' \in [Stores -> Contents]
        /\ \A s \in Stores : s \notin Dropped \/ s \in HeldStores => store'[s] = store[s]
    <3>1. store' = Without(Dropped \ HeldStores)
      BY DEF Evict
    <3> QED BY <3>1, <1>0 DEF Without, Blank, Contents, ChunkNumbers, ClipTyped
  <2>3. AfterFinish(a) \in {"end", "unreserve", "output", "return"} /\ at \in [Actors -> CallerPlaces \cup HelperPlaces]
    BY <1>0 DEF AfterFinish, ClipTyped
  <2>4. /\ at'[a] = "evict" \/ (Len(cache') <= CacheLimit /\ at'[a] = AfterFinish(a))
        /\ \A b \in Actors : b # a => at'[b] = at[b]
    <3>1. /\ at' = [at EXCEPT ![a] = IF Len(cache') > CacheLimit THEN "evict" ELSE AfterFinish(a)]
          /\ Len(cache') \in Int
      <4>1. LeftOf(cache, Dropped) \in Seq(CacheEntries)
        BY <1>0, ShortenedListed DEF ClipTyped, CacheKept
      <4> QED BY <4>1, <2>1, ListFacts DEF Evict, MoveTo
    <3> QED BY <2>3, <3>1, ActorSets
  <2>5. at' \in [Actors -> CallerPlaces \cup HelperPlaces]
    <3>1. at' = [at EXCEPT ![a] = at'[a]] /\ at'[a] \in CallerPlaces \cup HelperPlaces
      BY <2>3, <2>4 DEF Evict, MoveTo, CallerPlaces, HelperPlaces, Claiming, Copying, Computes,
         Filling, Slotted
    <3> QED BY <2>3, <3>1
  <2> QED BY <2>1, <2>2, <2>4, <2>5 DEF Evict, fixedVars, sharedVars, deviceVars, storageVars,
          permitVars
<1>2. cache' \in Seq(CacheEntries) /\ Once(cache') /\ StoresOf(cache') = StoresOf(cache) \ Dropped /\ EntriesOf(cache', cache)
  <2>1. cache \in Seq(CacheEntries) /\ Once(cache)
    BY <1>0 DEF ClipTyped, CacheKept
  <2> QED BY <2>1, <1>1, ShortenedListed
<1>3. CachedStores' = CachedStores \ Dropped /\ CachedStores \subseteq Stores /\ Dropped \subseteq CachedStores
  <2>1. CachedStores' = StoresOf(cache') /\ CachedStores = StoresOf(cache)
    BY DEF CachedStores, StoresOf
  <2>2. Dropped \subseteq CachedStores
    BY DEF Dropped, Victims, Evictable, CachedStores
  <2> QED BY <2>1, <2>2, <1>2, <1>0, SetsFinite
<1>4. HeldStores' = HeldStores
  BY <1>1 DEF HeldStores
<1>5. \A s \in CachedStores' : s \in CachedStores /\ store'[s] = store[s]
  BY <1>1, <1>3
<1>6. \A b \in Actors : held[b] # NoStore => store'[held[b]] = store[held[b]]
  BY <1>0, <1>1 DEF HeldStores, ClipTyped
<1>7. \/ at'[a] = "evict"
      \/ a \in Helpers /\ at'[a] = "end"
      \/ a \in Callers /\ a \notin computers /\ at'[a] = "unreserve"
      \/ a \in Callers /\ a \in computers /\ held[a] # NoStore /\ at'[a] = "output"
      \/ a \in Callers /\ a \in computers /\ held[a] = NoStore /\ at'[a] = "return"
  <2>1. computers \subseteq Callers /\ (a \in Helpers => a \notin Callers) /\ (a \notin Helpers => a \in Callers)
    BY <1>0, ActorSets DEF ClipTyped
  <2>2. CASE a \in Helpers
    BY <2>1, <2>2, <1>1 DEF AfterFinish
  <2>3. CASE a \notin Helpers /\ a \notin computers
    BY <2>1, <2>3, <1>1 DEF AfterFinish
  <2>4. CASE a \notin Helpers /\ a \in computers
    BY <2>1, <2>4, <1>1 DEF AfterFinish
  <2> QED BY <2>2, <2>3, <2>4
<1>8. /\ job[a] = NoChunk /\ (held[a] # NoStore => a \in Callers /\ a \in computers /\ store[held[a]].first = want[a])
      /\ a \in Helpers => a \notin computers /\ a \notin Callers
  BY <1>0, <1>1, ActorSets DEF ClaimsKept, ClaimRight, HoldsKept, HoldRight, ClipTyped,
     CallerPlaces, HelperPlaces, Claiming, Copying, Computes, Filling, Slotted
<1>9. \A s \in Dropped, b \in Callers : IsHit(b) => want[b] # store[s].first
  <2> SUFFICES ASSUME NEW s \in Dropped, NEW b \in Callers, IsHit(b), want[b] = store[s].first PROVE FALSE
    OBVIOUS
  <2>1. PICK i \in DOMAIN cache : cache[i].store = s /\ cache[i].readers = 0
    BY DEF Dropped, Victims, Evictable
  <2>2. want[b] \in ChunkNumbers
    BY <1>0 DEF ClipTyped
  <2>3. Cardinality(Hits[want[b]]) = 0 /\ b \in Hits[want[b]] /\ Hits[want[b]] \in SUBSET Callers
    BY <2>1, <2>2, <1>0 DEF HitsKept, ReadersRight, Hits
  <2>4. IsFiniteSet(Hits[want[b]])
    BY <2>3, ActorSets, FS_Subset
  <2> QED BY <2>3, <2>4, FS_EmptySet
<1>20. ClipTyped'
  <2>1. at' \in [Actors -> CallerPlaces \cup HelperPlaces]
    BY <1>1
  <2>2. store' \in [Stores -> Contents]
    BY <1>1
  <2>3. /\ \A b \in Callers : at'[b] \in CallerPlaces /\ (at'[b] # "out" => want'[b] \in Nat)
        /\ \A b \in Helpers : at'[b] \in HelperPlaces
    BY <1>0, <1>1, <1>7, ActorSets DEF ClipTyped, CallerPlaces, HelperPlaces, Claiming, Copying,
       Computes, Filling, Slotted
  <2>4. /\ node' \in Nodes /\ cache' \in Seq(CacheEntries) /\ computing' \subseteq Nat /\ running' \subseteq Nat
        /\ spare' \subseteq Stores /\ prefetching' \in Int /\ frames' = [p \in {0, 1} |-> frames'[p]]
        /\ computers' \subseteq Callers /\ permits' \subseteq Callers
    BY <1>0, <1>1, <1>2, <1>3 DEF ClipTyped
  <2> QED BY <1>1, <1>0, <2>1, <2>2, <2>3, <2>4 DEF ClipTyped
<1>21. ClaimsKept'
  <2>1. ASSUME NEW b \in Actors
        PROVE  ClaimRight(b)'
    <3>0. ClaimRight(b)
      BY <1>0 DEF ClaimsKept
    <3>1. CASE b = a
      BY <3>0, <3>1, <1>1, <1>7, <1>8, ActorSets DEF ClaimRight, CallerPlaces, HelperPlaces,
         Claiming, Copying, Computes, Filling, Slotted
    <3>2. CASE b # a
      BY <3>0, <3>2, <1>1 DEF ClaimRight
    <3> QED BY <3>1, <3>2
  <2>2. ASSUME NEW b \in Actors, NEW c \in Actors, job'[b] = job'[c], job'[b] # NoChunk
        PROVE  b = c
    BY <2>2, <1>0, <1>1 DEF ClaimsKept
  <2> QED BY <2>1, <2>2 DEF ClaimsKept
<1>22. CacheKept'
  <2>1. Once(cache)'
    BY <1>2 DEF Once
  <2>2. \A w, v \in CachedStores' : store'[w].first = store'[v].first => w = v
    BY <1>0, <1>5 DEF CacheKept
  <2>3. \A w \in CachedStores' : store'[w].first \in Nat \ computing'
    BY <1>0, <1>1, <1>5 DEF CacheKept
  <2>4. \A b \in Callers : SleepsFor(b)'
    BY <1>0, <1>1, <1>7, ActorSets DEF CacheKept, SleepsFor
  <2> QED BY <2>1, <2>2, <2>3, <2>4 DEF CacheKept
<1>23. HoldsKept'
  <2>1. spare' \cap (CachedStores' \cup HeldStores') = {}
    BY <1>0, <1>1, <1>3, <1>4 DEF HoldsKept
  <2>2. ASSUME NEW b \in Actors
        PROVE  HoldRight(b)'
    <3>0. HoldRight(b)
      BY <1>0 DEF HoldsKept
    <3>1. CASE b = a
      BY <3>0, <3>1, <1>1, <1>7, <1>8, <1>6, ActorSets DEF HoldRight, CallerPlaces, HelperPlaces,
         Claiming, Copying, Computes, Filling, Slotted
    <3>2. CASE b # a
      BY <3>0, <3>2, <1>1, <1>6, <1>3 DEF HoldRight
    <3> QED BY <3>1, <3>2
  <2>3. ASSUME NEW b \in Actors, NEW c \in Actors,
               at'[b] \in Filling \cup {"finish"}, held'[b] # NoStore, held'[c] = held'[b]
        PROVE  c = b
    BY <2>3, <1>0, <1>1, <1>7 DEF HoldsKept, CallerPlaces, HelperPlaces, Claiming, Copying,
       Computes, Filling, Slotted
  <2> QED BY <2>1, <2>2, <2>3 DEF HoldsKept
<1>24. HitsKept'
  <2>1. ASSUME NEW b \in Callers
        PROVE  (IsHit(b)' <=> IsHit(b)) /\ (IsHit(b) => at'[b] = at[b])
    BY <1>0, <1>1, <1>7, <1>8, ActorSets DEF IsHit, Copying
  <2>2. Hits' = Hits
    BY <2>1, <1>1 DEF Hits
  <2>3. ASSUME NEW k \in DOMAIN cache'
        PROVE  ReadersRight(cache[k])'
    <3>1. PICK j \in DOMAIN cache : cache'[k] = cache[j]
      BY <1>2 DEF EntriesOf
    <3>2. cache'[k].store \in CachedStores'
      BY DEF CachedStores
    <3> QED BY <3>1, <3>2, <2>2, <1>0, <1>5 DEF HitsKept, ReadersRight
  <2>4. ASSUME NEW b \in Callers
        PROVE  HitRight(b)'
    <3> SUFFICES ASSUME IsHit(b) PROVE HitRight(b)'
      BY <2>1 DEF HitRight
    <3>1. PICK s \in CachedStores : store[s].first = want[b] /\ (at[b] # "unread" => held[b] = s)
      BY <1>0 DEF HitsKept, HitRight
    <3>2. s \in CachedStores'
      BY <3>1, <1>3, <1>9
    <3> QED BY <3>1, <3>2, <2>1, <1>1, <1>5 DEF HitRight
  <2> QED BY <2>3, <2>4 DEF HitsKept
<1>25. SlotsKept'
  <2>1. SlotsAside
    BY <1>1, <1>7 DEF SlotsAside, InSlot
  <2> QED BY <2>1, <1>0, SlotsStay
<1>26. DataKept'
  <2> SUFFICES ASSUME ~node.gpu PROVE (\A b \in Actors : FilledTo(b)') /\ \A w \in CachedStores' : store'[w].planes = 1 .. node.planes
    BY <1>1 DEF DataKept
  <2>0. (\A b \in Actors : FilledTo(b)) /\ \A w \in CachedStores : store[w].planes = 1 .. node.planes
    BY <1>0 DEF DataKept
  <2>1. ASSUME NEW b \in Actors
        PROVE  FilledTo(b)'
    <3>0. FilledTo(b) /\ HoldRight(b)
      BY <2>0, <1>0 DEF HoldsKept
    <3>1. CASE b = a
      BY <3>0, <3>1, <1>1, <1>7, <1>6 DEF FilledTo, HoldRight, PlanesHeld, CallerPlaces,
         HelperPlaces, Claiming, Copying, Computes, Filling, Slotted
    <3>2. CASE b # a
      BY <3>0, <3>2, <1>1, <1>6, ActorSets DEF FilledTo, HoldRight, PlanesHeld, CallerPlaces,
         HelperPlaces, Claiming, Copying, Computes, Filling, Slotted
    <3> QED BY <3>1, <3>2
  <2>2. \A w \in CachedStores' : store'[w].planes = 1 .. node.planes
    BY <2>0, <1>5
  <2> QED BY <2>1, <2>2
<1>27. ReservedKept'
  <2>1. Prefetchers' = Prefetchers
    BY <1>0, <1>1, <1>7, <1>8, ActorSets DEF Prefetchers, CallerPlaces, HelperPlaces, Claiming,
       Copying, Computes, Filling, Slotted
  <2> QED BY <2>1, <1>0, <1>1 DEF ReservedKept
<1>28. PermitsKept'
  <2>1. {b \in Callers : At(b, "copy")}' = {b \in Callers : At(b, "copy")}
    BY <1>0, <1>1, <1>7, ActorSets DEF At
  <2> QED BY <2>1, <1>0, <1>1 DEF PermitsKept
<1>29. RoomKept'
  <2>1. StoresCounted'
    <3>1. LiveStores' \subseteq LiveStores
      BY <1>1, <1>3, <1>4 DEF LiveStores
    <3> QED BY <3>1, <1>0, LiveLess
  <2>2. CASE at'[a] = "evict"
    <3>1. Evicting' = Evicting
      BY <2>2, <1>1 DEF Evicting, At
    <3>2. InTheWay' \in SUBSET InTheWay
      BY <3>1, <1>1, <1>3 DEF InTheWay
    <3>3. IsFiniteSet(InTheWay) /\ IsFiniteSet(Evicting)
      BY <1>0, SetsFinite
    <3>4. IsFiniteSet(InTheWay') /\ Cardinality(InTheWay') <= Cardinality(InTheWay)
      BY <3>2, <3>3, FS_Subset
    <3>5. Cardinality(InTheWay) \in Nat /\ Cardinality(InTheWay') \in Nat /\ Cardinality(Evicting) \in Nat
      BY <3>3, <3>4, FS_CardinalityType
    <3> QED BY <2>1, <3>1, <3>4, <3>5, <1>0, ActorSets DEF RoomKept
  <2>3. CASE at'[a] # "evict"
    <3> DEFINE theirs == {held[b] : b \in Evicting'}
    <3>1. IsFiniteSet(CachedStores') /\ Cardinality(CachedStores') = Len(cache') /\ Len(cache') <= CacheLimit
      <4>1. CachedStores' = StoresOf(cache')
        BY DEF CachedStores, StoresOf
      <4>2. IsFiniteSet(StoresOf(cache')) /\ Cardinality(StoresOf(cache')) = Len(cache')
        BY <1>2, StoresInList
      <4> QED BY <4>1, <4>2, <2>3, <1>1
    <3>2. IsFiniteSet(Evicting')
      <4>1. Evicting' \in SUBSET Actors
        BY DEF Evicting, Actors
      <4> QED BY <4>1, ActorSets, FS_Subset
    <3>3. IsFiniteSet(theirs) /\ Cardinality(theirs) <= Cardinality(Evicting')
      BY <3>2, HeldImage
    <3>4. InTheWay' \in SUBSET (CachedStores' \cup theirs)
      BY <1>1 DEF InTheWay
    <3> HIDE DEF theirs
    <3>5. /\ IsFiniteSet(CachedStores' \cup theirs) /\ IsFiniteSet(CachedStores' \cap theirs)
          /\ Cardinality(CachedStores' \cup theirs) = Cardinality(CachedStores') + Cardinality(theirs) - Cardinality(CachedStores' \cap theirs)
      BY <3>1, <3>3, FS_Union, FS_Intersection
    <3>6. IsFiniteSet(InTheWay') /\ Cardinality(InTheWay') <= Cardinality(CachedStores' \cup theirs)
      BY <3>4, <3>5, FS_Subset
    <3>7. /\ Cardinality(InTheWay') \in Nat /\ Cardinality(CachedStores') \in Nat /\ Cardinality(theirs) \in Nat
          /\ Cardinality(Evicting') \in Nat /\ Cardinality(CachedStores' \cap theirs) \in Nat
      BY <3>1, <3>2, <3>3, <3>5, <3>6, FS_CardinalityType
    <3> QED BY <2>1, <3>1, <3>3, <3>5, <3>6, <3>7, ActorSets DEF RoomKept
  <2> QED BY <2>2, <2>3
<1> QED BY <1>20, <1>21, <1>22, <1>23, <1>24, <1>25, <1>26, <1>27, <1>28, <1>29 DEF ClipInv

\* A prefetch thread ends.
LEMMA EndKeeps ==
    ASSUME Bm4dAssumption, ClipInv, NEW h \in Helpers, End(h)
    PROVE  ClipInv'
<1>0. /\ ClipTyped /\ ClaimsKept /\ CacheKept /\ HoldsKept /\ HitsKept /\ SlotsKept /\ DataKept
      /\ ReservedKept /\ PermitsKept /\ RoomKept
  BY ClipParts
<1>1. /\ at[h] = "end"
      /\ prefetching' = prefetching - 1
      /\ at'[h] = "out"
      /\ \A b \in Actors : b # h => at'[b] = at[b]
      /\ UNCHANGED <<node, faults, cache, computing, running, spare, store, frames, outputs, want,
                     job, plane, held, queued, computers, permits, asked>>
  BY <1>0, ActorSets DEF End, ClipTyped, At, MoveTo, fixedVars, sharedVars, deviceVars,
     storageVars, permitVars, CallerPlaces, HelperPlaces, Claiming, Copying, Computes, Filling,
     Slotted
<1>2. CachedStores' = CachedStores
  BY <1>1 DEF CachedStores
<1>3. HeldStores' = HeldStores
  BY <1>1 DEF HeldStores
<1>20. ClipTyped'
  <2>1. at' \in [Actors -> CallerPlaces \cup HelperPlaces]
    BY <1>0, ActorSets DEF End, ClipTyped, At, MoveTo, fixedVars, sharedVars, deviceVars,
       storageVars, permitVars, CallerPlaces, HelperPlaces, Claiming, Copying, Computes, Filling,
       Slotted, ChunkNumbers, NoChunk, NoStore
  <2>2. /\ \A b \in Callers : at'[b] \in CallerPlaces /\ (at'[b] # "out" => want'[b] \in Nat)
        /\ \A b \in Helpers : at'[b] \in HelperPlaces
    BY <1>0, <1>1, ActorSets DEF ClipTyped, CallerPlaces, HelperPlaces, Claiming, Copying,
       Computes, Filling, Slotted
  <2>3. /\ node' \in Nodes /\ cache' \in Seq(CacheEntries) /\ computing' \subseteq Nat /\ running' \subseteq Nat
        /\ spare' \subseteq Stores /\ prefetching' \in Int /\ frames' = [p \in {0, 1} |-> frames'[p]]
        /\ computers' \subseteq Callers /\ permits' \subseteq Callers
    BY <1>0, <1>1, ActorSets DEF ClipTyped
  <2> QED BY <1>1, <1>0, <2>1, <2>2, <2>3 DEF ClipTyped
<1>21. ClaimsKept'
  <2>1. \A b \in Actors : ClaimRight(b)'
    BY <1>0, <1>1, ActorSets DEF ClaimsKept, ClaimRight, NoChunk, ChunkNumbers, CallerPlaces,
       HelperPlaces, Claiming, Copying, Computes, Filling, Slotted, ClipTyped
  <2>2. ASSUME NEW b \in Actors, NEW c \in Actors, job'[b] = job'[c], job'[b] # NoChunk
        PROVE  b = c
    BY <2>2, <1>0, <1>1 DEF ClaimsKept
  <2> QED BY <2>1, <2>2 DEF ClaimsKept
<1>22. CacheKept' /\ HitsKept' /\ RoomKept'
  <2>1. \A w \in CachedStores : store'[w].first = store[w].first /\ store[w].first \notin computing'
    BY <1>0, <1>1 DEF CacheKept
  <2>2. ASSUME NEW b \in Actors
        PROVE  \/ at'[b] = at[b]
               \/ {at[b], at'[b]} \subseteq Copying
               \/ {at[b], at'[b]} \cap (Copying \cup {"unread", "evict"}) = {}
    BY <1>1 DEF Copying
  <2>3. ASSUME NEW b \in Callers, at[b] \in Copying \cup {"unread"}
        PROVE  want'[b] = want[b] /\ (b \in computers' <=> b \in computers)
    BY <2>3, <1>1, ActorSets DEF Copying
  <2>4. ASSUME NEW b \in Callers, at'[b] = "asleep"
        PROVE  want'[b] \in computing'
    BY <2>4, <1>0, <1>1, ActorSets DEF CacheKept, SleepsFor
  <2> QED BY <2>1, <2>2, <2>3, <2>4, <1>1, ListsStay DEF ListsAside
<1>23. HoldsKept'
  <2>1. spare' \cap (CachedStores' \cup HeldStores') = {}
    BY <1>0, <1>1, <1>2, <1>3 DEF HoldsKept
  <2>2. \A b \in Actors : HoldRight(b)'
    BY <1>0, <1>1, ActorSets, <1>2 DEF HoldsKept, HoldRight, NoStore, CallerPlaces, HelperPlaces,
       Claiming, Copying, Computes, Filling, Slotted, ClipTyped
  <2>3. ASSUME NEW b \in Actors, NEW c \in Actors,
               at'[b] \in Filling \cup {"finish"}, held'[b] # NoStore, held'[c] = held'[b]
        PROVE  c = b
    BY <2>3, <1>0, <1>1, ActorSets DEF HoldsKept, HoldRight, CallerPlaces, HelperPlaces, Claiming,
       Copying, Computes, Filling, Slotted
  <2> QED BY <2>1, <2>2, <2>3 DEF HoldsKept
<1>25. SlotsKept'
  <2>1. SlotsAside
    BY <1>1 DEF SlotsAside, InSlot
  <2> QED BY <2>1, <1>0, SlotsStay
<1>26. DataKept'
  <2>1. DataAside
    BY <1>0, <1>1, <1>2, ActorSets DEF DataAside, Resting, ClipTyped, ClaimsKept, ClaimRight,
       HoldsKept, HoldRight, CallerPlaces, HelperPlaces, Claiming, Copying, Computes, Filling,
       Slotted
  <2> QED BY <2>1, <1>0, DataStays
<1>27. ReservedKept'
  <2>1. Prefetchers' = Prefetchers \ {h} /\ h \in Prefetchers
    BY <1>0, <1>1, ActorSets DEF Prefetchers, ClaimsKept, ClaimRight, CallerPlaces, HelperPlaces,
       Claiming, Copying, Computes, Filling, Slotted
  <2>2. IsFiniteSet(Prefetchers) /\ Cardinality(Prefetchers) \in Nat
    BY <1>0, SetsFinite, FS_CardinalityType
  <2>3. Cardinality(Prefetchers \ {h}) = Cardinality(Prefetchers) - 1
    BY <2>1, <2>2, FS_RemoveElement
  <2>4. Cardinality(Helpers) \in Nat
    BY ActorSets, FS_CardinalityType
  <2> QED BY <2>1, <2>2, <2>3, <2>4, <1>0, <1>1 DEF ReservedKept, ClipTyped
<1>28. PermitsKept'
  <2>1. {b \in Callers : At(b, "copy")}' = {b \in Callers : At(b, "copy")}
    BY <1>0, <1>1, ActorSets DEF At
  <2> QED BY <2>1, <1>0, <1>1 DEF PermitsKept
<1> QED BY <1>20, <1>21, <1>22, <1>23, <1>25, <1>26, <1>27, <1>28 DEF ClipInv

\* A request gets an output permit.
LEMMA TakeOutputKeeps ==
    ASSUME Bm4dAssumption, ClipInv, NEW t \in Callers, TakeOutput(t)
    PROVE  ClipInv'
<1>0. /\ ClipTyped /\ ClaimsKept /\ CacheKept /\ HoldsKept /\ HitsKept /\ SlotsKept /\ DataKept
      /\ ReservedKept /\ PermitsKept /\ RoomKept
  BY ClipParts
<1>1. /\ at[t] = "output" /\ Cardinality(permits) < Copiers
      /\ permits' = permits \cup {t}
      /\ at'[t] = "copy"
      /\ \A b \in Actors : b # t => at'[b] = at[b]
      /\ UNCHANGED <<node, faults, cache, computing, running, spare, prefetching, store, frames,
                     outputs, want, job, plane, held, queued, computers, asked>>
  BY <1>0, ActorSets DEF TakeOutput, ClipTyped, At, MoveTo, fixedVars, sharedVars, deviceVars,
     storageVars, permitVars, CallerPlaces, HelperPlaces, Claiming, Copying, Computes, Filling,
     Slotted
<1>2. CachedStores' = CachedStores
  BY <1>1 DEF CachedStores
<1>3. HeldStores' = HeldStores
  BY <1>1 DEF HeldStores
<1>20. ClipTyped'
  <2>1. at' \in [Actors -> CallerPlaces \cup HelperPlaces]
    BY <1>0, ActorSets DEF TakeOutput, ClipTyped, At, MoveTo, fixedVars, sharedVars, deviceVars,
       storageVars, permitVars, CallerPlaces, HelperPlaces, Claiming, Copying, Computes, Filling,
       Slotted, ChunkNumbers, NoChunk, NoStore
  <2>2. /\ \A b \in Callers : at'[b] \in CallerPlaces /\ (at'[b] # "out" => want'[b] \in Nat)
        /\ \A b \in Helpers : at'[b] \in HelperPlaces
    BY <1>0, <1>1, ActorSets DEF ClipTyped, CallerPlaces, HelperPlaces, Claiming, Copying,
       Computes, Filling, Slotted
  <2>3. /\ node' \in Nodes /\ cache' \in Seq(CacheEntries) /\ computing' \subseteq Nat /\ running' \subseteq Nat
        /\ spare' \subseteq Stores /\ prefetching' \in Int /\ frames' = [p \in {0, 1} |-> frames'[p]]
        /\ computers' \subseteq Callers /\ permits' \subseteq Callers
    BY <1>0, <1>1, ActorSets DEF ClipTyped
  <2> QED BY <1>1, <1>0, <2>1, <2>2, <2>3 DEF ClipTyped
<1>21. ClaimsKept'
  <2>1. \A b \in Actors : ClaimRight(b)'
    BY <1>0, <1>1, ActorSets DEF ClaimsKept, ClaimRight, NoChunk, ChunkNumbers, CallerPlaces,
       HelperPlaces, Claiming, Copying, Computes, Filling, Slotted, ClipTyped
  <2>2. ASSUME NEW b \in Actors, NEW c \in Actors, job'[b] = job'[c], job'[b] # NoChunk
        PROVE  b = c
    BY <2>2, <1>0, <1>1 DEF ClaimsKept
  <2> QED BY <2>1, <2>2 DEF ClaimsKept
<1>22. CacheKept' /\ HitsKept' /\ RoomKept'
  <2>1. \A w \in CachedStores : store'[w].first = store[w].first /\ store[w].first \notin computing'
    BY <1>0, <1>1 DEF CacheKept
  <2>2. ASSUME NEW b \in Actors
        PROVE  \/ at'[b] = at[b]
               \/ {at[b], at'[b]} \subseteq Copying
               \/ {at[b], at'[b]} \cap (Copying \cup {"unread", "evict"}) = {}
    BY <1>1 DEF Copying
  <2>3. ASSUME NEW b \in Callers, at[b] \in Copying \cup {"unread"}
        PROVE  want'[b] = want[b] /\ (b \in computers' <=> b \in computers)
    BY <2>3, <1>1, ActorSets DEF Copying
  <2>4. ASSUME NEW b \in Callers, at'[b] = "asleep"
        PROVE  want'[b] \in computing'
    BY <2>4, <1>0, <1>1, ActorSets DEF CacheKept, SleepsFor
  <2> QED BY <2>1, <2>2, <2>3, <2>4, <1>1, ListsStay DEF ListsAside
<1>23. HoldsKept'
  <2>1. spare' \cap (CachedStores' \cup HeldStores') = {}
    BY <1>0, <1>1, <1>2, <1>3 DEF HoldsKept
  <2>2. \A b \in Actors : HoldRight(b)'
    BY <1>0, <1>1, ActorSets, <1>2 DEF HoldsKept, HoldRight, NoStore, CallerPlaces, HelperPlaces,
       Claiming, Copying, Computes, Filling, Slotted, ClipTyped
  <2>3. ASSUME NEW b \in Actors, NEW c \in Actors,
               at'[b] \in Filling \cup {"finish"}, held'[b] # NoStore, held'[c] = held'[b]
        PROVE  c = b
    BY <2>3, <1>0, <1>1, ActorSets DEF HoldsKept, HoldRight, CallerPlaces, HelperPlaces, Claiming,
       Copying, Computes, Filling, Slotted
  <2> QED BY <2>1, <2>2, <2>3 DEF HoldsKept
<1>25. SlotsKept'
  <2>1. SlotsAside
    BY <1>1 DEF SlotsAside, InSlot
  <2> QED BY <2>1, <1>0, SlotsStay
<1>26. DataKept'
  <2>1. DataAside
    BY <1>0, <1>1, <1>2, ActorSets DEF DataAside, Resting, ClipTyped, ClaimsKept, ClaimRight,
       HoldsKept, HoldRight, CallerPlaces, HelperPlaces, Claiming, Copying, Computes, Filling,
       Slotted
  <2> QED BY <2>1, <1>0, DataStays
<1>27. ReservedKept'
  <2>1. Prefetchers' = Prefetchers
    BY <1>0, <1>1, ActorSets DEF Prefetchers, ClaimsKept, ClaimRight, CallerPlaces, HelperPlaces,
       Claiming, Copying, Computes, Filling, Slotted
  <2> QED BY <2>1, <1>0, <1>1 DEF ReservedKept
<1>28. PermitsKept'
  <2>1. permits' = {b \in Callers : At(b, "copy")}'
    BY <1>0, <1>1, ActorSets DEF At, PermitsKept
  <2>2. IsFiniteSet(permits) /\ Cardinality(permits) \in Nat
    BY <1>0, SetsFinite, FS_CardinalityType
  <2>3. Cardinality(permits \cup {t}) \in {Cardinality(permits), Cardinality(permits) + 1}
    BY <2>2, FS_AddElement
  <2>4. Cardinality(permits') <= Copiers
    BY <2>2, <2>3, <1>1, ActorSets
  <2> QED BY <2>1, <2>4, <1>0, <1>1 DEF PermitsKept
<1> QED BY <1>20, <1>21, <1>22, <1>23, <1>25, <1>26, <1>27, <1>28 DEF ClipInv

\* A request has copied its frame out.
LEMMA EndCopyKeeps ==
    ASSUME Bm4dAssumption, ClipInv, NEW t \in Callers, EndCopy(t)
    PROVE  ClipInv'
<1>0. /\ ClipTyped /\ ClaimsKept /\ CacheKept /\ HoldsKept /\ HitsKept /\ SlotsKept /\ DataKept
      /\ ReservedKept /\ PermitsKept /\ RoomKept
  BY ClipParts
<1>1. /\ at[t] = "copy"
      /\ permits' = permits \ {t}
      /\ at'[t] = IF t \in computers THEN "return" ELSE "unread"
      /\ \A b \in Actors : b # t => at'[b] = at[b]
      /\ held'[t] = NoStore
      /\ \A b \in Actors : b # t => held'[b] = held[b]
      /\ store' \in [Stores -> Contents]
      /\ \A s \in Stores : s \in CachedStores \/ s # held[t] \/ (\E b \in Actors : b # t /\ held[b] = s) => store'[s] = store[s]
      /\ UNCHANGED <<node, faults, cache, computing, running, spare, prefetching, frames, outputs,
                     want, job, plane, queued, computers, asked>>
  <2>1. at[t] = "copy"
    BY DEF EndCopy, At
  <2>2. CASE \A b \in Actors \ {t} : held[b] # held[t]
    <3>1. store' = Without({held[t]} \ CachedStores)
      BY <2>2 DEF EndCopy
    <3>2. /\ store' \in [Stores -> Contents]
          /\ \A s \in Stores : s \in CachedStores \/ s # held[t] => store'[s] = store[s]
      BY <3>1, <1>0 DEF Without, Blank, Contents, ChunkNumbers, ClipTyped
    <3> QED BY <2>1, <2>2, <3>2, <1>0, ActorSets DEF EndCopy, ClipTyped, MoveTo, fixedVars,
            sharedVars, deviceVars, storageVars, permitVars
  <2>3. CASE ~\A b \in Actors \ {t} : held[b] # held[t]
    <3>1. store' = store
      BY <2>3 DEF EndCopy
    <3> QED BY <2>1, <3>1, <1>0, ActorSets DEF EndCopy, ClipTyped, MoveTo, fixedVars, sharedVars,
            deviceVars, storageVars, permitVars
  <2> QED BY <2>2, <2>3
<1>2. CachedStores' = CachedStores /\ CachedStores \subseteq Stores
  BY <1>0, <1>1, SetsFinite DEF CachedStores
<1>3. HeldStores' \subseteq HeldStores
  BY <1>1, ActorSets DEF HeldStores
<1>4. \A s \in CachedStores' : s \in CachedStores /\ store'[s] = store[s]
  BY <1>1, <1>2
<1>5. \A b \in Actors : b # t /\ held[b] # NoStore => store'[held[b]] = store[held[b]]
  BY <1>0, <1>1 DEF ClipTyped
<1>6. \A b \in Actors : b # t => job'[b] = job[b] /\ held'[b] = held[b] /\ plane'[b] = plane[b] /\ queued'[b] = queued[b]
  BY <1>1
<1>20. ClipTyped'
  <2>1. at' \in [Actors -> CallerPlaces \cup HelperPlaces]
    BY <1>0, ActorSets DEF EndCopy, ClipTyped, At, MoveTo, fixedVars, sharedVars, deviceVars,
       storageVars, permitVars, CallerPlaces, HelperPlaces, Claiming, Copying, Computes, Filling,
       Slotted, ChunkNumbers, NoChunk, NoStore
  <2>2. held' \in [Actors -> Stores \cup {NoStore}]
    BY <1>0, ActorSets DEF EndCopy, ClipTyped, At, MoveTo, fixedVars, sharedVars, deviceVars,
       storageVars, permitVars, CallerPlaces, HelperPlaces, Claiming, Copying, Computes, Filling,
       Slotted, ChunkNumbers, NoChunk, NoStore
  <2>3. store' \in [Stores -> Contents]
    BY <1>1
  <2>4. /\ \A b \in Callers : at'[b] \in CallerPlaces /\ (at'[b] # "out" => want'[b] \in Nat)
        /\ \A b \in Helpers : at'[b] \in HelperPlaces
    BY <1>0, <1>1, ActorSets DEF ClipTyped, CallerPlaces, HelperPlaces, Claiming, Copying,
       Computes, Filling, Slotted
  <2>5. /\ node' \in Nodes /\ cache' \in Seq(CacheEntries) /\ computing' \subseteq Nat /\ running' \subseteq Nat
        /\ spare' \subseteq Stores /\ prefetching' \in Int /\ frames' = [p \in {0, 1} |-> frames'[p]]
        /\ computers' \subseteq Callers /\ permits' \subseteq Callers
    BY <1>0, <1>1, ActorSets DEF ClipTyped
  <2> QED BY <1>1, <1>0, <2>1, <2>2, <2>3, <2>4, <2>5 DEF ClipTyped
<1>21. ClaimsKept'
  <2>1. \A b \in Actors : ClaimRight(b)'
    BY <1>0, <1>1, ActorSets DEF ClaimsKept, ClaimRight, NoChunk, ChunkNumbers, CallerPlaces,
       HelperPlaces, Claiming, Copying, Computes, Filling, Slotted, ClipTyped
  <2>2. ASSUME NEW b \in Actors, NEW c \in Actors, job'[b] = job'[c], job'[b] # NoChunk
        PROVE  b = c
    BY <2>2, <1>0, <1>1 DEF ClaimsKept
  <2> QED BY <2>1, <2>2 DEF ClaimsKept
<1>22. CacheKept'
  <2>1. Once(cache)'
    BY <1>0, <1>1 DEF CacheKept, Once
  <2>2. \A w, v \in CachedStores' : store'[w].first = store'[v].first => w = v
    BY <1>0, <1>4 DEF CacheKept
  <2>3. \A w \in CachedStores' : store'[w].first \in Nat \ computing'
    BY <1>0, <1>1, <1>4 DEF CacheKept
  <2>4. \A b \in Callers : SleepsFor(b)'
    BY <1>0, <1>1, ActorSets DEF CacheKept, SleepsFor, ClipTyped
  <2> QED BY <2>1, <2>2, <2>3, <2>4 DEF CacheKept
<1>23. HoldsKept'
  <2>1. spare' \cap (CachedStores' \cup HeldStores') = {}
    BY <1>0, <1>1, <1>2, <1>3 DEF HoldsKept
  <2>2. ASSUME NEW b \in Actors
        PROVE  HoldRight(b)'
    <3>0. HoldRight(b)
      BY <1>0 DEF HoldsKept
    <3>1. CASE b = t
      BY <3>0, <3>1, <1>0, <1>1, ActorSets, <1>5, <1>2 DEF HoldRight, NoStore, CallerPlaces,
         HelperPlaces, Claiming, Copying, Computes, Filling, Slotted, ClipTyped
    <3>2. CASE b # t
      BY <3>0, <3>2, <1>1, <1>5, <1>2 DEF HoldRight, NoStore, CallerPlaces, HelperPlaces, Claiming,
         Copying, Computes, Filling, Slotted
    <3> QED BY <3>1, <3>2
  <2>3. ASSUME NEW b \in Actors, NEW c \in Actors,
               at'[b] \in Filling \cup {"finish"}, held'[b] # NoStore, held'[c] = held'[b]
        PROVE  c = b
    BY <2>3, <1>0, <1>1, ActorSets DEF HoldsKept, HoldRight, CallerPlaces, HelperPlaces, Claiming,
       Copying, Computes, Filling, Slotted
  <2> QED BY <2>1, <2>2, <2>3 DEF HoldsKept
<1>24. HitsKept'
  <2>1. ASSUME NEW b \in Callers
        PROVE  (IsHit(b)' <=> IsHit(b)) /\ (IsHit(b) => want'[b] = want[b] /\ (at'[b] = "unread" \/ (at[b] # "unread" /\ held'[b] = held[b])))
    BY <1>0, <1>1, ActorSets DEF IsHit, ClaimsKept, ClaimRight, CallerPlaces, HelperPlaces,
       Claiming, Copying, Computes, Filling, Slotted
  <2>2. Hits' = Hits
    BY <2>1 DEF Hits
  <2>3. ASSUME NEW i \in DOMAIN cache'
        PROVE  ReadersRight(cache[i])'
    BY <1>0, <1>1, <2>2, <1>4 DEF HitsKept, ReadersRight, CachedStores
  <2>4. ASSUME NEW b \in Callers
        PROVE  HitRight(b)'
    BY <1>0, <1>1, <2>1, <1>2, <1>4 DEF HitsKept, HitRight
  <2> QED BY <2>3, <2>4 DEF HitsKept
<1>25. SlotsKept'
  <2>1. SlotsAside
    BY <1>1 DEF SlotsAside, InSlot
  <2> QED BY <2>1, <1>0, SlotsStay
<1>26. DataKept'
  <2> SUFFICES ASSUME ~node.gpu PROVE (\A b \in Actors : FilledTo(b)') /\ \A w \in CachedStores' : store'[w].planes = 1 .. node.planes
    BY <1>1 DEF DataKept
  <2>0. (\A b \in Actors : FilledTo(b)) /\ \A w \in CachedStores : store[w].planes = 1 .. node.planes
    BY <1>0 DEF DataKept
  <2>1. ASSUME NEW b \in Actors
        PROVE  FilledTo(b)'
    <3>0. FilledTo(b) /\ HoldRight(b)
      BY <2>0, <1>0 DEF HoldsKept
    <3>1. CASE b = t
      BY <3>0, <3>1, <1>1 DEF FilledTo, HoldRight, PlanesHeld, CallerPlaces, HelperPlaces,
         Claiming, Copying, Computes, Filling, Slotted
    <3>2. CASE b # t
      BY <3>0, <3>2, <1>1, <1>6, <1>5, ActorSets DEF FilledTo, HoldRight, PlanesHeld, CallerPlaces,
         HelperPlaces, Claiming, Copying, Computes, Filling, Slotted
    <3> QED BY <3>1, <3>2
  <2>2. \A w \in CachedStores' : store'[w].planes = 1 .. node.planes
    BY <2>0, <1>4
  <2> QED BY <2>1, <2>2
<1>27. ReservedKept'
  <2>1. Prefetchers' = Prefetchers
    BY <1>0, <1>1, ActorSets DEF Prefetchers, ClaimsKept, ClaimRight, CallerPlaces, HelperPlaces,
       Claiming, Copying, Computes, Filling, Slotted
  <2> QED BY <2>1, <1>0, <1>1 DEF ReservedKept
<1>28. PermitsKept'
  <2>1. permits' = {b \in Callers : At(b, "copy")}'
    BY <1>0, <1>1, ActorSets DEF At, PermitsKept
  <2>2. IsFiniteSet(permits) /\ Cardinality(permits) \in Nat
    BY <1>0, SetsFinite, FS_CardinalityType
  <2>3. Cardinality(permits \ {t}) \in {Cardinality(permits), Cardinality(permits) - 1}
    BY <2>2, FS_RemoveElement
  <2>4. Cardinality(permits') <= Copiers
    BY <2>2, <2>3, <1>0, <1>1, ActorSets DEF PermitsKept
  <2> QED BY <2>1, <2>4, <1>0, <1>1 DEF PermitsKept
<1>29. RoomKept'
  <2>1. StoresCounted'
    <3>1. LiveStores' \subseteq LiveStores
      BY <1>1, <1>2, <1>3 DEF LiveStores
    <3> QED BY <3>1, <1>0, LiveLess
  <2>2. Evicting' = Evicting /\ \A b \in Evicting : held'[b] = held[b]
    BY <1>0, <1>1, ActorSets DEF Evicting, At
  <2>3. InTheWay' = InTheWay
    BY <2>2, <1>2 DEF InTheWay
  <2> QED BY <2>1, <2>2, <2>3, <1>0, SetsFinite, FS_Subset, FS_CardinalityType, ActorSets
          DEF RoomKept, StoresCounted
<1> QED BY <1>20, <1>21, <1>22, <1>23, <1>24, <1>25, <1>26, <1>27, <1>28, <1>29 DEF ClipInv

\* A hit lets go of its entry.
LEMMA UnreadKeeps ==
    ASSUME Bm4dAssumption, ClipInv, NEW t \in Callers, Unread(t)
    PROVE  ClipInv'
<1>0. /\ ClipTyped /\ ClaimsKept /\ CacheKept /\ HoldsKept /\ HitsKept /\ SlotsKept /\ DataKept
      /\ ReservedKept /\ PermitsKept /\ RoomKept
  BY ClipParts
<1>1. /\ at[t] = "unread"
      /\ cache' = UnreadAt(cache, CachedAt(want[t]))
      /\ at'[t] = "out"
      /\ \A b \in Actors : b # t => at'[b] = IF at[b] = "asleep" THEN "look" ELSE IF at[b] = "waiting" THEN "order" ELSE at[b]
      /\ want'[t] = NoChunk
      /\ \A b \in Callers : b # t => want'[b] = want[b]
      /\ UNCHANGED <<node, faults, computing, running, spare, prefetching, store, frames, outputs,
                     job, plane, held, queued, computers, permits, asked>>
  <2>1. cache' = UnreadAt(cache, CachedAt(want[t]))
    BY DEF Unread, UnreadAt
  <2>2. at'[t] = "out" /\ \A b \in Actors : b # t => at'[b] = IF at[b] = "asleep" THEN "look" ELSE IF at[b] = "waiting" THEN "order" ELSE at[b]
    BY <1>0, ActorSets DEF Unread, Woken, ClipTyped, CallerPlaces, HelperPlaces, Claiming, Copying,
       Computes, Filling, Slotted
  <2> QED BY <2>1, <2>2, <1>0, ActorSets DEF Unread, ClipTyped, At, fixedVars, sharedVars,
          deviceVars, storageVars, permitVars
<1>2. /\ cache' \in Seq(CacheEntries) /\ Once(cache') /\ StoresOf(cache') = StoresOf(cache) /\ DOMAIN cache' = DOMAIN cache
      /\ UnreadOf(cache', cache, CachedAt(want[t]))
  <2>1. cache \in Seq(CacheEntries) /\ Once(cache)
    BY <1>0 DEF ClipTyped, CacheKept
  <2> QED BY <2>1, <1>1, UnreadListed
<1>3. CachedStores' = CachedStores
  BY <1>2 DEF CachedStores, StoresOf
<1>4. HeldStores' = HeldStores
  BY <1>1 DEF HeldStores
<1>5. \A w \in CachedStores' : w \in CachedStores /\ store'[w] = store[w]
  BY <1>1, <1>3
<1>20. ClipTyped'
  <2>1. at' \in [Actors -> CallerPlaces \cup HelperPlaces]
    BY <1>0, ActorSets DEF Unread, Woken, ClipTyped, CallerPlaces, HelperPlaces, Claiming, Copying,
       Computes, Filling, Slotted
  <2>2. want' \in [Callers -> ChunkNumbers]
    BY <1>0 DEF Unread, ClipTyped, ChunkNumbers
  <2>3. /\ \A b \in Callers : at'[b] \in CallerPlaces /\ (at'[b] # "out" => want'[b] \in Nat)
        /\ \A b \in Helpers : at'[b] \in HelperPlaces
    BY <1>0, <1>1, ActorSets DEF ClipTyped, CallerPlaces, HelperPlaces, Claiming, Copying,
       Computes, Filling, Slotted
  <2>4. /\ node' \in Nodes /\ cache' \in Seq(CacheEntries) /\ computing' \subseteq Nat /\ running' \subseteq Nat
        /\ spare' \subseteq Stores /\ prefetching' \in Int /\ frames' = [p \in {0, 1} |-> frames'[p]]
        /\ computers' \subseteq Callers /\ permits' \subseteq Callers
    BY <1>0, <1>1, <1>2 DEF ClipTyped
  <2> QED BY <1>1, <1>0, <2>1, <2>2, <2>3, <2>4 DEF ClipTyped
<1>21. ClaimsKept'
  <2>1. ASSUME NEW b \in Actors
        PROVE  ClaimRight(b)'
    <3>0. ClaimRight(b)
      BY <1>0 DEF ClaimsKept
    <3>1. CASE b = t
      BY <3>0, <3>1, <1>1, ActorSets DEF ClaimRight, CallerPlaces, HelperPlaces, Claiming, Copying,
         Computes, Filling, Slotted
    <3>2. CASE b # t
      <4>1. CASE at[b] \in {"asleep", "waiting"}
        BY <3>0, <3>2, <4>1, <1>1 DEF ClaimRight, CallerPlaces, HelperPlaces, Claiming, Copying,
           Computes, Filling, Slotted
      <4>2. CASE at[b] \notin {"asleep", "waiting"}
        BY <3>0, <3>2, <4>2, <1>1 DEF ClaimRight
      <4> QED BY <4>1, <4>2
    <3> QED BY <3>1, <3>2
  <2>2. ASSUME NEW b \in Actors, NEW c \in Actors, job'[b] = job'[c], job'[b] # NoChunk
        PROVE  b = c
    BY <2>2, <1>0, <1>1 DEF ClaimsKept
  <2> QED BY <2>1, <2>2 DEF ClaimsKept
<1>22. CacheKept'
  <2>1. Once(cache)'
    BY <1>2 DEF Once
  <2>2. \A w, v \in CachedStores' : store'[w].first = store'[v].first => w = v
    BY <1>0, <1>5 DEF CacheKept
  <2>3. \A w \in CachedStores' : store'[w].first \in Nat \ computing'
    BY <1>0, <1>1, <1>5 DEF CacheKept
  <2>4. \A b \in Callers : SleepsFor(b)'
    BY <1>0, <1>1, ActorSets DEF CacheKept, SleepsFor, ClipTyped
  <2> QED BY <2>1, <2>2, <2>3, <2>4 DEF CacheKept
<1>23. HoldsKept'
  <2>1. spare' \cap (CachedStores' \cup HeldStores') = {}
    BY <1>0, <1>1, <1>3, <1>4 DEF HoldsKept
  <2>2. \A b \in Actors : HoldRight(b)'
    BY <1>0, <1>1, ActorSets, <1>3 DEF HoldsKept, HoldRight, NoStore, CallerPlaces, HelperPlaces,
       Claiming, Copying, Computes, Filling, Slotted, ClipTyped
  <2>3. ASSUME NEW b \in Actors, NEW c \in Actors,
               at'[b] \in Filling \cup {"finish"}, held'[b] # NoStore, held'[c] = held'[b]
        PROVE  c = b
    BY <2>3, <1>0, <1>1, ActorSets DEF HoldsKept, HoldRight, CallerPlaces, HelperPlaces, Claiming,
       Copying, Computes, Filling, Slotted
  <2> QED BY <2>1, <2>2, <2>3 DEF HoldsKept
<1>24. HitsKept'
  <2>1. ASSUME NEW b \in Callers
        PROVE  IsHit(b)' <=> (IsHit(b) /\ b # t)
    BY <1>0, <1>1, ActorSets DEF IsHit, Copying
  <2>2. IsHit(t)
    BY <1>0, <1>1, ActorSets DEF IsHit, ClaimsKept, ClaimRight, CallerPlaces, HelperPlaces,
       Claiming, Copying, Computes, Filling, Slotted
  <2>3. ASSUME NEW n \in ChunkNumbers
        PROVE  Hits'[n] = IF n = want[t] THEN Hits[n] \ {t} ELSE Hits[n]
    BY <2>1, <1>1 DEF Hits
  <2>4. ASSUME NEW k \in DOMAIN cache'
        PROVE  ReadersRight(cache[k])'
    <3> DEFINE n == store[cache[k].store].first
    <3>1. /\ k \in DOMAIN cache /\ cache'[k].store = cache[k].store
          /\ cache'[k].readers = IF k \in CachedAt(want[t]) THEN cache[k].readers - 1 ELSE cache[k].readers
      BY <1>2 DEF UnreadOf
    <3>2. n \in ChunkNumbers /\ cache[k].readers = Cardinality(Hits[n])
      BY <3>1, <1>0, SetsFinite DEF HitsKept, ReadersRight, ClipTyped, Contents, CachedStores
    <3>3. store'[cache'[k].store].first = n /\ (k \in CachedAt(want[t]) <=> n = want[t])
      BY <3>1, <1>1 DEF CachedAt
    <3> HIDE DEF n
    <3>4. CASE n = want[t]
      <4>1. Hits'[n] = Hits[n] \ {t}
        BY <3>4, <3>2, <2>3
      <4>2. t \in Hits[n] /\ Hits[n] \in SUBSET Callers
        BY <2>2, <3>2, <3>4 DEF Hits
      <4>3. IsFiniteSet(Hits[n])
        BY <4>2, ActorSets, FS_Subset
      <4>4. Cardinality(Hits[n] \ {t}) = Cardinality(Hits[n]) - 1
        BY <4>2, <4>3, FS_RemoveElement
      <4> QED BY <4>1, <4>4, <3>1, <3>2, <3>3, <3>4 DEF ReadersRight
    <3>5. CASE n # want[t]
      BY <3>5, <3>1, <3>2, <3>3, <2>3 DEF ReadersRight
    <3> QED BY <3>4, <3>5
  <2>5. ASSUME NEW b \in Callers
        PROVE  HitRight(b)'
    BY <2>1, <1>0, <1>1, <1>3, ActorSets DEF HitsKept, HitRight, IsHit, Copying
  <2> QED BY <2>4, <2>5 DEF HitsKept
<1>25. SlotsKept'
  <2>1. SlotsAside
    BY <1>1 DEF SlotsAside, InSlot
  <2> QED BY <2>1, <1>0, SlotsStay
<1>26. DataKept'
  <2> SUFFICES ASSUME ~node.gpu PROVE (\A b \in Actors : FilledTo(b)') /\ \A w \in CachedStores' : store'[w].planes = 1 .. node.planes
    BY <1>1 DEF DataKept
  <2>0. (\A b \in Actors : FilledTo(b)) /\ \A w \in CachedStores : store[w].planes = 1 .. node.planes
    BY <1>0 DEF DataKept
  <2>1. ASSUME NEW b \in Actors
        PROVE  FilledTo(b)'
    <3>0. FilledTo(b) /\ HoldRight(b)
      BY <2>0, <1>0 DEF HoldsKept
    <3>1. CASE b = t
      BY <3>0, <3>1, <1>1 DEF FilledTo, HoldRight, PlanesHeld, CallerPlaces, HelperPlaces,
         Claiming, Copying, Computes, Filling, Slotted
    <3>2. CASE b # t
      BY <3>0, <3>2, <1>1, ActorSets DEF FilledTo, HoldRight, PlanesHeld, CallerPlaces,
         HelperPlaces, Claiming, Copying, Computes, Filling, Slotted
    <3> QED BY <3>1, <3>2
  <2>2. \A w \in CachedStores' : store'[w].planes = 1 .. node.planes
    BY <2>0, <1>5
  <2> QED BY <2>1, <2>2
<1>27. ReservedKept'
  <2>1. Prefetchers' = Prefetchers
    BY <1>0, <1>1, ActorSets DEF Prefetchers, ClaimsKept, ClaimRight, CallerPlaces, HelperPlaces,
       Claiming, Copying, Computes, Filling, Slotted
  <2> QED BY <2>1, <1>0, <1>1 DEF ReservedKept
<1>28. PermitsKept'
  <2>1. {b \in Callers : At(b, "copy")}' = {b \in Callers : At(b, "copy")}
    BY <1>0, <1>1, ActorSets DEF At
  <2> QED BY <2>1, <1>0, <1>1 DEF PermitsKept
<1>29. RoomKept'
  <2>1. LiveStores' = LiveStores
    BY <1>1, <1>3, <1>4 DEF LiveStores
  <2>2. Evicting' = Evicting /\ \A b \in Evicting : held'[b] = held[b]
    BY <1>0, <1>1, ActorSets DEF Evicting, At
  <2>3. InTheWay' = InTheWay
    BY <2>2, <1>3 DEF InTheWay
  <2> QED BY <2>1, <2>2, <2>3, <1>0 DEF RoomKept, StoresCounted
<1> QED BY <1>20, <1>21, <1>22, <1>23, <1>24, <1>25, <1>26, <1>27, <1>28, <1>29 DEF ClipInv

\* A request that computed its chunk ends.
LEMMA ReturnKeeps ==
    ASSUME Bm4dAssumption, ClipInv, NEW t \in Callers, Return(t)
    PROVE  ClipInv'
<1>0. /\ ClipTyped /\ ClaimsKept /\ CacheKept /\ HoldsKept /\ HitsKept /\ SlotsKept /\ DataKept
      /\ ReservedKept /\ PermitsKept /\ RoomKept
  BY ClipParts
<1>1. /\ at[t] = "return"
      /\ computers' = computers \ {t}
      /\ at'[t] = "out"
      /\ \A b \in Actors : b # t => at'[b] = at[b]
      /\ want'[t] = NoChunk
      /\ \A b \in Callers : b # t => want'[b] = want[b]
      /\ UNCHANGED <<node, faults, cache, computing, running, spare, prefetching, store, frames,
                     outputs, job, plane, held, queued, permits, asked>>
  BY <1>0, ActorSets DEF Return, ClipTyped, At, MoveTo, fixedVars, sharedVars, deviceVars,
     storageVars, permitVars, CallerPlaces, HelperPlaces, Claiming, Copying, Computes, Filling,
     Slotted
<1>2. CachedStores' = CachedStores
  BY <1>1 DEF CachedStores
<1>3. HeldStores' = HeldStores
  BY <1>1 DEF HeldStores
<1>20. ClipTyped'
  <2>1. at' \in [Actors -> CallerPlaces \cup HelperPlaces]
    BY <1>0, ActorSets DEF Return, ClipTyped, At, MoveTo, fixedVars, sharedVars, deviceVars,
       storageVars, permitVars, CallerPlaces, HelperPlaces, Claiming, Copying, Computes, Filling,
       Slotted, ChunkNumbers, NoChunk, NoStore
  <2>2. want' \in [Callers -> ChunkNumbers]
    BY <1>0, ActorSets DEF Return, ClipTyped, At, MoveTo, fixedVars, sharedVars, deviceVars,
       storageVars, permitVars, CallerPlaces, HelperPlaces, Claiming, Copying, Computes, Filling,
       Slotted, ChunkNumbers, NoChunk, NoStore
  <2>3. /\ \A b \in Callers : at'[b] \in CallerPlaces /\ (at'[b] # "out" => want'[b] \in Nat)
        /\ \A b \in Helpers : at'[b] \in HelperPlaces
    BY <1>0, <1>1, ActorSets DEF ClipTyped, CallerPlaces, HelperPlaces, Claiming, Copying,
       Computes, Filling, Slotted
  <2>4. /\ node' \in Nodes /\ cache' \in Seq(CacheEntries) /\ computing' \subseteq Nat /\ running' \subseteq Nat
        /\ spare' \subseteq Stores /\ prefetching' \in Int /\ frames' = [p \in {0, 1} |-> frames'[p]]
        /\ computers' \subseteq Callers /\ permits' \subseteq Callers
    BY <1>0, <1>1, ActorSets DEF ClipTyped
  <2> QED BY <1>1, <1>0, <2>1, <2>2, <2>3, <2>4 DEF ClipTyped
<1>21. ClaimsKept'
  <2>1. \A b \in Actors : ClaimRight(b)'
    BY <1>0, <1>1, ActorSets DEF ClaimsKept, ClaimRight, NoChunk, ChunkNumbers, CallerPlaces,
       HelperPlaces, Claiming, Copying, Computes, Filling, Slotted, ClipTyped
  <2>2. ASSUME NEW b \in Actors, NEW c \in Actors, job'[b] = job'[c], job'[b] # NoChunk
        PROVE  b = c
    BY <2>2, <1>0, <1>1 DEF ClaimsKept
  <2> QED BY <2>1, <2>2 DEF ClaimsKept
<1>22. CacheKept' /\ HitsKept' /\ RoomKept'
  <2>1. \A w \in CachedStores : store'[w].first = store[w].first /\ store[w].first \notin computing'
    BY <1>0, <1>1 DEF CacheKept
  <2>2. ASSUME NEW b \in Actors
        PROVE  \/ at'[b] = at[b]
               \/ {at[b], at'[b]} \subseteq Copying
               \/ {at[b], at'[b]} \cap (Copying \cup {"unread", "evict"}) = {}
    BY <1>1 DEF Copying
  <2>3. ASSUME NEW b \in Callers, at[b] \in Copying \cup {"unread"}
        PROVE  want'[b] = want[b] /\ (b \in computers' <=> b \in computers)
    BY <2>3, <1>1, ActorSets DEF Copying
  <2>4. ASSUME NEW b \in Callers, at'[b] = "asleep"
        PROVE  want'[b] \in computing'
    BY <2>4, <1>0, <1>1, ActorSets DEF CacheKept, SleepsFor
  <2> QED BY <2>1, <2>2, <2>3, <2>4, <1>1, ListsStay DEF ListsAside
<1>23. HoldsKept'
  <2>1. spare' \cap (CachedStores' \cup HeldStores') = {}
    BY <1>0, <1>1, <1>2, <1>3 DEF HoldsKept
  <2>2. \A b \in Actors : HoldRight(b)'
    BY <1>0, <1>1, ActorSets, <1>2 DEF HoldsKept, HoldRight, NoStore, CallerPlaces, HelperPlaces,
       Claiming, Copying, Computes, Filling, Slotted, ClipTyped
  <2>3. ASSUME NEW b \in Actors, NEW c \in Actors,
               at'[b] \in Filling \cup {"finish"}, held'[b] # NoStore, held'[c] = held'[b]
        PROVE  c = b
    BY <2>3, <1>0, <1>1, ActorSets DEF HoldsKept, HoldRight, CallerPlaces, HelperPlaces, Claiming,
       Copying, Computes, Filling, Slotted
  <2> QED BY <2>1, <2>2, <2>3 DEF HoldsKept
<1>25. SlotsKept'
  <2>1. SlotsAside
    BY <1>1 DEF SlotsAside, InSlot
  <2> QED BY <2>1, <1>0, SlotsStay
<1>26. DataKept'
  <2>1. DataAside
    BY <1>0, <1>1, <1>2, ActorSets DEF DataAside, Resting, ClipTyped, ClaimsKept, ClaimRight,
       HoldsKept, HoldRight, CallerPlaces, HelperPlaces, Claiming, Copying, Computes, Filling,
       Slotted
  <2> QED BY <2>1, <1>0, DataStays
<1>27. ReservedKept'
  <2>1. Prefetchers' = Prefetchers
    BY <1>0, <1>1, ActorSets DEF Prefetchers, ClaimsKept, ClaimRight, CallerPlaces, HelperPlaces,
       Claiming, Copying, Computes, Filling, Slotted
  <2> QED BY <2>1, <1>0, <1>1 DEF ReservedKept
<1>28. PermitsKept'
  <2>1. {b \in Callers : At(b, "copy")}' = {b \in Callers : At(b, "copy")}
    BY <1>0, <1>1, ActorSets DEF At
  <2>2. IsFiniteSet(computers) /\ Cardinality(computers) \in Nat
    BY <1>0, SetsFinite, FS_CardinalityType
  <2>3. Cardinality(computers \ {t}) \in {Cardinality(computers), Cardinality(computers) - 1}
    BY <2>2, FS_RemoveElement
  <2> QED BY <2>1, <2>2, <2>3, <1>0, <1>1, ActorSets DEF PermitsKept
<1> QED BY <1>20, <1>21, <1>22, <1>23, <1>25, <1>26, <1>27, <1>28 DEF ClipInv

\* The invariant holds when the node is made.
LEMMA ClipStarts ==
    ASSUME Bm4dAssumption, ClipInit
    PROVE  ClipInv
<1>0. /\ node \in Nodes /\ cache = <<>> /\ computing = {} /\ running = {} /\ spare = {} /\ prefetching = 0
      /\ store = [s \in Stores |-> Blank] /\ frames = [p \in {0, 1} |-> Nothing]
      /\ at = [a \in Actors |-> "out"] /\ want = [t \in Callers |-> NoChunk] /\ job = [a \in Actors |-> NoChunk]
      /\ plane = [a \in Actors |-> 0] /\ held = [a \in Actors |-> NoStore] /\ queued = [a \in Actors |-> 0]
      /\ computers = {} /\ permits = {}
  BY DEF ClipInit
<1>1. \A a \in Actors : at[a] = "out" /\ job[a] = NoChunk /\ held[a] = NoStore /\ queued[a] = 0
  BY <1>0
<1>2. CachedStores = {} /\ HeldStores = {} /\ Evicting = {} /\ InTheWay = {} /\ LiveStores = {} /\ Prefetchers = {}
  <2>1. CachedStores = {} /\ HeldStores = {} /\ Evicting = {}
    BY <1>0, <1>1 DEF CachedStores, HeldStores, Evicting, At
  <2>2. Prefetchers = {}
    BY <1>1, ActorSets DEF Prefetchers
  <2> QED BY <2>1, <2>2, <1>0 DEF InTheWay, LiveStores
<1>3. Cardinality({}) = 0 /\ Cardinality(Helpers) \in Nat
  BY FS_EmptySet, ActorSets, FS_CardinalityType
<1>20. ClipTyped
  <2>1. cache \in Seq(CacheEntries) /\ store \in [Stores -> Contents]
    BY <1>0 DEF Blank, Contents, ChunkNumbers
  <2>2. \A t \in Callers : at[t] \in CallerPlaces
    BY <1>1, ActorSets DEF CallerPlaces
  <2>3. \A h \in Helpers : at[h] \in HelperPlaces
    BY <1>1, ActorSets DEF HelperPlaces
  <2>4. at \in [Actors -> CallerPlaces \cup HelperPlaces]
    BY <1>0 DEF CallerPlaces
  <2>5. want \in [Callers -> ChunkNumbers] /\ job \in [Actors -> ChunkNumbers] /\ plane \in [Actors -> Nat]
        /\ held \in [Actors -> Stores \cup {NoStore}] /\ queued \in [Actors -> Nat]
    BY <1>0 DEF ChunkNumbers
  <2> QED BY <2>1, <2>2, <2>3, <2>4, <2>5, <1>0, <1>1, ActorSets DEF ClipTyped
<1>21. ClaimsKept
  BY <1>0, <1>1 DEF ClaimsKept, ClaimRight, Claiming, Computes
<1>22. CacheKept
  BY <1>0, <1>1, <1>2, ActorSets DEF CacheKept, Once, SleepsFor
<1>23. HoldsKept
  BY <1>0, <1>1, <1>2 DEF HoldsKept, HoldRight, Filling, Computes, Copying
<1>24. HitsKept
  BY <1>0, <1>1, ActorSets DEF HitsKept, HitRight, IsHit, Copying
<1>25. SlotsKept
  BY <1>0, <1>1 DEF SlotsKept, SlotRight, OrderRight, InSlot, At
<1>26. DataKept
  BY <1>1, <1>2 DEF DataKept, FilledTo, Slotted, Filling, Computes, Copying
<1>27. ReservedKept
  BY <1>0, <1>2, <1>3 DEF ReservedKept
<1>28. PermitsKept
  BY <1>0, <1>1, <1>3, ActorSets DEF PermitsKept, At
<1>29. RoomKept
  BY <1>2, <1>3, ActorSets DEF RoomKept, StoresCounted
<1> QED BY <1>20, <1>21, <1>22, <1>23, <1>24, <1>25, <1>26, <1>27, <1>28, <1>29 DEF ClipInv

\* ... and when nothing happens.
LEMMA ClipStutters ==
    ASSUME ClipInv, UNCHANGED clipVars
    PROVE  ClipInv'
<1>1. UNCHANGED <<node, faults, cache, computing, running, spare, prefetching, store, frames,
                  outputs>>
      /\ UNCHANGED <<at, want, job, plane, held, queued, computers, permits, asked>>
  BY DEF clipVars
<1>2. CachedStores' = CachedStores /\ HeldStores' = HeldStores /\ Evicting' = Evicting /\ Hits' = Hits /\ Prefetchers' = Prefetchers
  BY <1>1 DEF CachedStores, HeldStores, Evicting, Hits, IsHit, Prefetchers, At
<1>3. InTheWay' = InTheWay /\ LiveStores' = LiveStores
  BY <1>1, <1>2 DEF InTheWay, LiveStores
<1>4. /\ ClipTyped /\ ClaimsKept /\ CacheKept /\ HoldsKept /\ HitsKept /\ SlotsKept /\ DataKept
      /\ ReservedKept /\ PermitsKept /\ RoomKept
  BY ClipParts
<1>5. ClipTyped' /\ ClaimsKept'
  BY <1>1, <1>4 DEF ClipTyped, ClaimsKept, ClaimRight
<1>6. CacheKept' /\ HoldsKept'
  BY <1>1, <1>2, <1>4 DEF CacheKept, SleepsFor, Once, HoldsKept, HoldRight
<1>7. HitsKept'
  BY <1>1, <1>2, <1>4 DEF HitsKept, ReadersRight, HitRight, IsHit
<1>8. SlotsKept'
  BY <1>1, <1>4 DEF SlotsKept, SlotRight, OrderRight, InSlot, At
<1>9. DataKept'
  BY <1>1, <1>2, <1>4 DEF DataKept, FilledTo, PlanesHeld
<1>10. ReservedKept' /\ PermitsKept' /\ RoomKept'
  BY <1>1, <1>2, <1>3, <1>4 DEF ReservedKept, PermitsKept, RoomKept, StoresCounted, At
<1> QED BY <1>5, <1>6, <1>7, <1>8, <1>9, <1>10 DEF ClipInv

\* Every step of a request or a prefetch thread keeps the invariant.
LEMMA ClipStepKeeps ==
    ASSUME Bm4dAssumption, ClipInv, [ClipNext]_clipVars
    PROVE  ClipInv'
<1>1. ASSUME NEW t \in Callers, NEW number \in Chunks, NEW ahead \in BOOLEAN, Ask(t, number, ahead)
      PROVE  ClipInv'
  BY <1>1, AskKeeps
<1>2. ASSUME NEW t \in Callers, RequestStep(t)
      PROVE  ClipInv'
  <2>1. CASE Reserve(t)
    BY <2>1, ReserveKeeps
  <2>2. CASE Claim(t)
    BY <2>2, ClaimKeeps
  <2>3. CASE Unreserve(t)
    BY <2>3, UnreserveKeeps
  <2>4. CASE Launch(t)
    <3>1. PICK h \in Helpers : LaunchOn(t, h)
      BY <2>4 DEF Launch, LaunchOn
    <3> QED BY <3>1, LaunchOnKeeps
  <2>5. CASE Hit(t)
    <3>1. PICK i \in CachedAt(want[t]) : HitOf(t, i)
      BY <2>5 DEF Hit, HitOf, ReadAt, Behind
    <3> QED BY <3>1, HitOfKeeps
  <2>6. CASE WaitForOther(t)
    BY <2>6, WaitForOtherKeeps
  <2>7. CASE Miss(t)
    BY <2>7, MissKeeps
  <2>8. CASE TakeComputer(t)
    BY <2>8, TakeComputerKeeps
  <2>9. CASE TakeOutput(t)
    BY <2>9, TakeOutputKeeps
  <2>10. CASE EndCopy(t)
    BY <2>10, EndCopyKeeps
  <2>11. CASE Unread(t)
    BY <2>11, UnreadKeeps
  <2>12. CASE Return(t)
    BY <2>12, ReturnKeeps
  <2> QED BY <1>2, <2>1, <2>2, <2>3, <2>4, <2>5, <2>6, <2>7, <2>8, <2>9, <2>10, <2>11, <2>12
          DEF RequestStep
<1>3. ASSUME NEW t \in Callers, CollectThrows(t) \/ LaunchFails(t)
      PROVE  ClipInv'
  BY <1>3, CollectThrowsKeeps, LaunchFailsKeeps
<1>4. ASSUME NEW a \in Actors, ComputeStep(a)
      PROVE  ClipInv'
  <2>1. CASE TakeStore(a)
    <3>1. PICK s \in IF spare # {} THEN spare ELSE {Least(Stores \ LiveStores)} : StoreTaken(a, s)
      BY <2>1 DEF TakeStore, StoreTaken
    <3> QED BY <3>1, StoreTakenKeeps
  <2>2. CASE EnterSlot(a)
    BY <2>2, EnterSlotKeeps
  <2>3. CASE Upload(a)
    BY <2>3, UploadKeeps
  <2>4. CASE Order(a)
    BY <2>4, OrderKeeps
  <2>5. CASE Tiles(a)
    BY <2>5, TilesKeeps
  <2>6. CASE Download(a)
    BY <2>6, DownloadKeeps
  <2>7. CASE Copy(a)
    BY <2>7, CopyKeeps
  <2>8. CASE Leave(a)
    BY <2>8, LeaveKeeps
  <2>9. CASE Finish(a)
    BY <2>9, FinishKeeps
  <2>10. CASE Evict(a)
    BY <2>10, EvictKeeps
  <2> QED BY <1>4, <2>1, <2>2, <2>3, <2>4, <2>5, <2>6, <2>7, <2>8, <2>9, <2>10 DEF ComputeStep
<1>5. ASSUME NEW a \in Actors, ComputeThrows(a)
      PROVE  ClipInv'
  BY <1>5, ComputeThrowsKeeps
<1>6. ASSUME NEW h \in Helpers, End(h)
      PROVE  ClipInv'
  BY <1>6, EndKeeps
<1>7. CASE UNCHANGED clipVars
  BY <1>7, ClipStutters
<1> QED BY <1>1, <1>2, <1>3, <1>4, <1>5, <1>6, <1>7 DEF ClipNext

\* The invariant of a BM4D node's chunks: for every number of requests, prefetch
\* threads, permits, planes and chunks and every limit of the cache.
THEOREM ClipInvHolds ==
    ASSUME Bm4dAssumption
    PROVE  ClipSpec => []ClipInv
<1>1. ClipInit => ClipInv
  BY ClipStarts
<1>2. ClipInv /\ [ClipNext]_clipVars => ClipInv'
  BY ClipStepKeeps
<1> QED BY <1>1, <1>2, PTL DEF ClipSpec

\* What BM4D caches and copies out follows from the invariant.
LEMMA ClipChunksFollow ==
    ASSUME Bm4dAssumption, ClipInv
    PROVE  ClipChunksRight
<1>0. /\ ClipTyped /\ ClaimsKept /\ CacheKept /\ HoldsKept /\ HitsKept /\ DataKept /\ RoomKept
  BY ClipParts
<1>1. \A a, b \in Actors : job[a] # NoChunk /\ job[a] = job[b] => a = b
  BY <1>0 DEF ClaimsKept
<1>2. \A i, j \in DOMAIN cache : store[cache[i].store].first = store[cache[j].store].first => i = j
  <2>1. \A i \in DOMAIN cache : cache[i].store \in CachedStores
    BY DEF CachedStores
  <2> QED BY <2>1, <1>0 DEF CacheKept, Once
<1>3. ASSUME NEW t \in Callers, At(t, "unread")
      PROVE  \E i \in CachedAt(want[t]) : cache[i].readers > 0
  <2>1. IsHit(t)
    BY <1>3, <1>0, ActorSets DEF IsHit, At, ClaimsKept, ClaimRight, Computes, Copying
  <2>2. PICK i \in DOMAIN cache : store[cache[i].store].first = want[t]
    BY <2>1, <1>0 DEF HitsKept, HitRight, CachedStores
  <2>3. want[t] \in ChunkNumbers
    BY <1>0 DEF ClipTyped
  <2>4. cache[i].readers = Cardinality(Hits[want[t]]) /\ t \in Hits[want[t]] /\ Hits[want[t]] \in SUBSET Callers
    BY <2>1, <2>2, <2>3, <1>0 DEF HitsKept, ReadersRight, Hits
  <2>5. IsFiniteSet(Hits[want[t]])
    BY <2>4, ActorSets, FS_Subset
  <2>6. Cardinality(Hits[want[t]]) \in Nat /\ Cardinality(Hits[want[t]]) # 0
    BY <2>4, <2>5, FS_CardinalityType, FS_EmptySet
  <2> QED BY <2>2, <2>4, <2>6 DEF CachedAt
<1>4. ASSUME ~node.gpu
      PROVE  /\ \A i \in DOMAIN cache : store[cache[i].store].planes = 1 .. node.planes
             /\ \A t \in Callers : at[t] \in {"output", "copy"} => store[held[t]] = Whole(want[t])
  <2>1. \A i \in DOMAIN cache : store[cache[i].store].planes = 1 .. node.planes
    BY <1>4, <1>0 DEF DataKept, CachedStores
  <2>2. ASSUME NEW t \in Callers, at[t] \in {"output", "copy"}
        PROVE  store[held[t]] = Whole(want[t])
    <3>1. held[t] \in Stores /\ store[held[t]].first = want[t]
      BY <2>2, <1>0, ActorSets DEF HoldsKept, HoldRight, ClipTyped, Copying
    <3>2. store[held[t]].planes = 1 .. node.planes
      BY <2>2, <3>1, <1>4, <1>0, ActorSets DEF DataKept, FilledTo, PlanesHeld, HoldsKept,
         HoldRight, Copying
    <3>3. store[held[t]] \in Contents
      BY <3>1, <1>0 DEF ClipTyped
    <3> QED BY <3>1, <3>2, <3>3 DEF Whole, Contents
  <2> QED BY <2>1, <2>2
<1> QED BY <1>0, <1>1, <1>2, <1>3, <1>4 DEF ClipChunksRight, ChunksRight, RoomKept

\* What getFrame copies a frame from is the chunk that was asked for, whole: each
\* chunk has one actor that computes it and one entry, which stays while a hit reads
\* it (Entry::readers), and a store that finish_chunk keeps for reuse is nobody's;
\* the stores are no more than the memory plan counts.
THEOREM ClipChunksHold ==
    ASSUME Bm4dAssumption
    PROVE  ClipSpec => []ClipChunksRight
<1>1. ClipInv => ClipChunksRight
  BY ClipChunksFollow
<1> QED BY <1>1, ClipInvHolds, PTL

\* With no claim lost, all blocked is impossible: the device is held by one that
\* moves, then the smallest chunk in a slot goes on, then evictions, permits and
\* prefetch threads, and at last who computes what one sleeps for.
LEMMA GoingOn ==
    ASSUME Bm4dAssumption, ClipInv, ClaimsHeld, \A a \in Actors : At(a, "out") \/ Blocked(a)
    PROVE  \A a \in Actors : At(a, "out")
<1>0. /\ ClipTyped /\ ClaimsKept /\ CacheKept /\ HoldsKept /\ HitsKept /\ SlotsKept
      /\ ReservedKept /\ PermitsKept
  BY ClipParts
\* Nobody has the device, so nobody waits for it; who has a slot waits for its order.
<1>1. ASSUME NEW a \in Actors
      PROVE  at[a] \in {"out", "launch", "asleep", "waiting", "permit", "output", "slot", "evict"}
  <2>1. DeviceFree
    BY DEF DeviceFree, Blocked, At
  <2> QED BY <2>1 DEF Blocked, At
\* The smallest chunk in a slot waits for none.
<1>2. ASSUME NEW a \in Actors
      PROVE  ~InSlot(a)
  <2> SUFFICES ASSUME InSlot(a) PROVE FALSE
    OBVIOUS
  <2> DEFINE jobs == {job[b] : b \in {c \in Actors : InSlot(c)}}
  <2>1. \A b \in Actors : InSlot(b) => job[b] \in Nat /\ at[b] = "waiting"
    BY <1>0, <1>1 DEF InSlot, ClaimsKept, ClaimRight, ClipTyped, ChunkNumbers, Claiming, Computes
  <2>2. jobs \in SUBSET Nat /\ jobs # {}
    BY <2>1
  <2>3. PICK n \in jobs : \A m \in jobs : n <= m
    BY <2>2, Smallest
  <2>4. PICK b \in Actors : InSlot(b) /\ job[b] = n
    BY <2>3
  <2>5. PICK c \in running : c < n
    BY <2>1, <2>4, <1>0 DEF SlotsKept, OrderRight
  <2>6. c \in jobs
    BY <2>5, <1>0 DEF SlotsKept
  <2> QED BY <2>2, <2>3, <2>5, <2>6
\* So slots are free, and nobody computes.
<1>3. ASSUME NEW a \in Actors
      PROVE  at[a] \in {"out", "launch", "asleep", "permit", "output", "evict"}
  <2>1. at[a] = "slot" => SlotFree(job[a])
    BY <1>2 DEF SlotFree
  <2> QED BY <2>1, <1>1, <1>2 DEF InSlot, Blocked, At
\* Nobody copies, so nobody waits to copy.
<1>4. ASSUME NEW a \in Actors
      PROVE  at[a] # "output"
  <2>1. permits = {}
    BY <1>0, <1>3, ActorSets DEF PermitsKept, At
  <2>2. Cardinality(permits) # Copiers
    BY <2>1, FS_EmptySet, ActorSets
  <2> QED BY <2>2 DEF Blocked, At
\* So no entry is read, and evictions end.
<1>5. ASSUME NEW a \in Actors
      PROVE  at[a] # "evict"
  <2> SUFFICES ASSUME at[a] = "evict" PROVE FALSE
    OBVIOUS
  <2>1. Victims = {} /\ Len(cache) > CacheLimit /\ CacheLimit \in Nat \ {0}
    BY ActorSets DEF Blocked, At
  <2>2. Len(cache) \in Nat /\ DOMAIN cache = 1 .. Len(cache)
    BY <1>0, ListFacts DEF ClipTyped
  <2>3. \A t \in Callers : ~IsHit(t)
    BY <1>3, <1>4, ActorSets DEF IsHit, Copying
  <2>4. ASSUME NEW i \in DOMAIN cache
        PROVE  cache[i].readers = 0
    <3>1. store[cache[i].store].first \in ChunkNumbers
      <4>1. cache[i].store \in Stores
        BY <1>0, SetsFinite DEF CachedStores
      <4> QED BY <4>1, <1>0 DEF ClipTyped, Contents
    <3>2. Hits[store[cache[i].store].first] = {}
      BY <2>3, <3>1 DEF Hits
    <3> QED BY <3>2, <1>0, FS_EmptySet DEF HitsKept, ReadersRight
  <2>5. Len(cache) \in Evictable /\ Evictable \subseteq 1 .. Len(cache)
    BY <2>1, <2>2, <2>4 DEF Evictable
  <2>6. {j \in Evictable : j > Len(cache)} = {}
    <3>1. \A j \in Evictable : ~(j > Len(cache))
      BY <2>2, <2>5
    <3> QED BY <3>1
  <2>7. Cardinality({j \in Evictable : j > Len(cache)}) < Len(cache) - CacheLimit
    BY <2>1, <2>2, <2>6, FS_EmptySet
  <2> QED BY <2>1, <2>5, <2>7 DEF Victims
\* Nobody has a compute permit, so nobody waits for one.
<1>6. ASSUME NEW a \in Actors
      PROVE  at[a] # "permit"
  <2>1. computers = {}
    <3>1. \A t \in computers : at[t] \in Computes \cup Copying \cup {"finish", "evict", "return"}
      BY <1>0, ActorSets DEF ClaimsKept, ClaimRight, ClipTyped
    <3>2. \A t \in computers : t \in Actors
      BY <1>0, ActorSets DEF ClipTyped
    <3> QED BY <3>1, <3>2, <1>3, <1>4, <1>5 DEF Computes, Copying
  <2>2. Cardinality(computers) # Computers
    BY <2>1, FS_EmptySet, ActorSets
  <2> QED BY <2>2 DEF Blocked, At
\* No prefetch thread is at work, so one can start.
<1>7. ASSUME NEW a \in Actors
      PROVE  at[a] # "launch"
  <2> SUFFICES ASSUME at[a] = "launch" PROVE FALSE
    OBVIOUS
  <2>1. Helpers = {}
    <3>1. \A h \in Helpers : at[h] = "out"
      BY <1>0, <1>3, <1>5, ActorSets DEF ClipTyped, HelperPlaces, Computes
    <3>2. \A h \in Helpers : ~At(h, "out")
      BY DEF Blocked, At
    <3> QED BY <3>1, <3>2 DEF At
  <2>2. a \in Prefetchers /\ IsFiniteSet(Prefetchers)
    BY <1>0, SetsFinite, ActorSets DEF Prefetchers, ClipTyped, HelperPlaces, Computes
  <2>3. Cardinality(Prefetchers) \in Nat /\ Cardinality(Prefetchers) # 0 /\ Cardinality(Helpers) = 0
    BY <2>1, <2>2, FS_CardinalityType, FS_EmptySet
  <2> QED BY <2>3, <1>0 DEF ReservedKept, ClipTyped
\* Somebody has the claim on what one sleeps for.
<1>8. ASSUME NEW a \in Actors
      PROVE  at[a] # "asleep"
  <2> SUFFICES ASSUME at[a] = "asleep" PROVE FALSE
    OBVIOUS
  <2>1. a \in Callers /\ want[a] \in Nat
    BY <1>0, ActorSets DEF ClipTyped, HelperPlaces, Computes
  <2>2. PICK b \in Actors : job[b] = want[a]
    BY <2>1, <1>0 DEF CacheKept, SleepsFor, ClaimsHeld
  <2>3. at[b] \in Claiming
    BY <2>1, <2>2, <1>0 DEF ClaimsKept, ClaimRight, NoChunk
  <2> QED BY <2>3, <1>3, <1>6, <1>7 DEF Claiming, Computes
<1> QED BY <1>3, <1>4, <1>5, <1>6, <1>7, <1>8 DEF At

\* That somebody goes on follows from the invariant.
LEMMA RequestsFollow ==
    ASSUME Bm4dAssumption, ClipInv
    PROVE  RequestsGoOn
<1>0. ClipTyped /\ CacheKept /\ SlotsKept /\ ClaimsKept
  BY ClipParts
<1>1. ASSUME NEW t \in Callers, At(t, "asleep")
      PROVE  CachedAt(want[t]) = {} /\ IsComputing(want[t])
  BY <1>0, <1>1 DEF At, CacheKept, SleepsFor, CachedAt, CachedStores, IsComputing
<1>2. ASSUME NEW a \in Actors, At(a, "waiting")
      PROVE  Before(job[a]) # {}
  BY <1>0, <1>2 DEF At, SlotsKept, OrderRight, Before
<1>3. ClaimsHeld => ((\E a \in Actors : ~At(a, "out")) => \E a \in Actors : ~At(a, "out") /\ ~Blocked(a))
  BY GoingOn
<1> QED BY <1>1, <1>2, <1>3 DEF RequestsGoOn

\* Compute permits, slots, the order of tiles (Bm4dData::running), the eviction and
\* output permits never wait for each other in a circle, and a sleeper has somebody
\* to wake it, while no claim is lost.
THEOREM RequestsGoOnHolds ==
    ASSUME Bm4dAssumption
    PROVE  ClipSpec => []RequestsGoOn
<1>1. ClipInv => RequestsGoOn
  BY RequestsFollow
<1> QED BY <1>1, ClipInvHolds, PTL
=============================================================================
