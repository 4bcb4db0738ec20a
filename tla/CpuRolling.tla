----------------------------- MODULE CpuRolling -----------------------------
(***************************************************************************)
(* The rolling output of the CPU filter (src/host/filter_bm3d.cpp):        *)
(* rollingGetFrame with its chunk cache, the chunks being computed, the    *)
(* carry that one chunk leaves for the next, and the memory accounts of    *)
(* the chunk stores; rolling_fill_chunk_carried as what it adds to which   *)
(* frame.                                                                  *)
(*                                                                         *)
(* A sum is the sequence of the centers added to it.  A chunk store is     *)
(* named by a number; it is alive while the cache or a request has it.     *)
(***************************************************************************)
EXTENDS Integers, Sequences, FiniteSets, SequencesExt

CONSTANTS Threads,
          Nodes,    \* the nodes considered: [radius, frames, chunk, cache_limit]
          Budget    \* bound: requests of one behaviour

ASSUME CpuAssumption ==
    /\ \A n \in Nodes : /\ n.radius \in Nat \ {0} /\ n.frames \in Nat \ {0}
                        /\ n.chunk \in Nat \ {0} /\ n.cache_limit \in Nat \ {0}
    /\ Budget \in Nat

VARIABLES d,           \* the node, fixed
          cache,       \* RollingData::cache, front first
          computing,   \* RollingData::computing
          carry,       \* RollingData::carry
          store,       \* the chunk stores made so far: [start, frames, kind]
          pc, want,    \* per thread: its request
          taken,       \* thread -> the carry it computes from
          made,        \* thread -> the carry it leaves
          result,      \* thread -> its chunk store
          asked

vars == <<d, cache, computing, carry, store, pc, want, taken, made, result, asked>>

Lesser(a, b) == IF a < b THEN a ELSE b
Greater(a, b) == IF a > b THEN a ELSE b

Starts == {s \in 0 .. d.frames - 1 : s % d.chunk = 0}
CountAt(start) == Lesser(d.chunk, d.frames - start)
Ring == 2 * d.radius + 1
temporal_last(center) == center + Lesser(d.radius, d.frames - 1 - center)

NoCarry == [start |-> -1, sums |-> <<>>]
NoStore == 0

-----------------------------------------------------------------------------
(* rolling_fill_chunk_carried.                                             *)

\* Mutant: a carried chunk runs the last center of the chunk before again.
FirstOfAgain(start, from) == IF from # NoCarry THEN temporal_last(start - 1) ELSE Greater(0, start - d.radius)

FirstOf(start, from) == IF from # NoCarry THEN temporal_last(start - 1) + 1 ELSE Greater(0, start - d.radius)
LastOf(start) == temporal_last(start + CountAt(start) - 1)

\* The ring of sums at the start: what was carried, and empty sums.
FirstSums(start, from) ==
    [i \in 0 .. Ring - 1 |->
        IF \E k \in DOMAIN from.sums : (start + k - 1) % Ring = i
        THEN from.sums[CHOOSE k \in DOMAIN from.sums : (start + k - 1) % Ring = i] ELSE <<>>]

\* finish(center): the frames whose last center has run, their sums cleared.
finish(start, center, w) ==
    LET ready == {f \in w.next .. start + CountAt(start) - 1 : temporal_last(f) <= center}
    IN  [sums |-> [i \in DOMAIN w.sums |-> IF \E f \in ready : f % Ring = i THEN <<>> ELSE w.sums[i]],
         out |-> [f \in DOMAIN w.out |-> IF f \in ready THEN w.sums[f % Ring] ELSE w.out[f]],
         next |-> w.next + Cardinality(ready)]

\* The frames a center adds to, those behind the chunk too.
Targets(start, center) == Greater(start, center - d.radius) .. temporal_last(center)

RunCenter(start, center, w) ==
    finish(start, center,
           [w EXCEPT !.sums = [i \in DOMAIN w.sums |->
                IF \E f \in Targets(start, center) : f % Ring = i THEN Append(w.sums[i], center) ELSE w.sums[i]]])

\* The chunk's frames, each as the centers in its sum, and what it leaves.
FillChunk(start, from) ==
    LET first == FirstOf(start, from)
        last == LastOf(start)
        behind == start + CountAt(start)
        left == Greater(0, Lesser(last + d.radius, d.frames - 1) - behind + 1)
        begin == finish(start, first - 1,
                        [sums |-> FirstSums(start, from), next |-> start,
                         out |-> [f \in start .. behind - 1 |-> <<>>]])
        end == FoldLeft(LAMBDA w, center : RunCenter(start, center, w), begin,
                        [i \in 1 .. Greater(0, last - first + 1) |-> first + i - 1])
    IN  [frames |-> end.out,
         next |-> IF left = 0 THEN NoCarry
                  ELSE [start |-> behind, sums |-> [i \in 1 .. left |-> end.sums[(behind + i - 1) % Ring]]]]

-----------------------------------------------------------------------------
Init ==
    /\ d \in Nodes
    /\ cache = <<>> /\ computing = {} /\ carry = NoCarry /\ store = <<>>
    /\ pc = [t \in Threads |-> "idle"]
    /\ want = [t \in Threads |-> -1]
    /\ taken = [t \in Threads |-> NoCarry]
    /\ made = [t \in Threads |-> NoCarry]
    /\ result = [t \in Threads |-> NoStore]
    /\ asked = 0

Goto(t, place) == pc' = [pc EXCEPT ![t] = place]

\* arAllFramesReady of a frame in the chunk at start.
Ask(t, start) ==
    /\ pc[t] = "idle" /\ asked < Budget
    /\ asked' = asked + 1
    /\ want' = [want EXCEPT ![t] = start]
    /\ Goto(t, "look")
    /\ UNCHANGED <<d, cache, computing, carry, store, taken, made, result>>

CachedAt(start) == {i \in DOMAIN cache : store[cache[i]].start = start}
Touched(i) == <<cache[i]>> \o RemoveAt(cache, i)

Hit(t) ==
    /\ pc[t] = "look" /\ CachedAt(want[t]) # {}
    /\ LET i == CHOOSE i \in CachedAt(want[t]) : TRUE
       IN  cache' = Touched(i) /\ result' = [result EXCEPT ![t] = cache[i]]
    /\ Goto(t, "return")
    /\ UNCHANGED <<d, computing, carry, store, want, taken, made, asked>>

\* Mutant: a thread does not look whether the chunk is being computed.
IsComputingUnseen(start) == FALSE

IsComputing(start) == start \in computing

WaitForOther(t) ==
    /\ pc[t] = "look" /\ CachedAt(want[t]) = {} /\ IsComputing(want[t])
    /\ Goto(t, "asleep")
    /\ UNCHANGED <<d, cache, computing, carry, store, want, taken, made, result, asked>>

\* The carry is the one this chunk can start from.
Fits(start) == carry # NoCarry /\ carry.start = start

\* The chunk is computed here; its store is charged as Inflight.
Begin(t) ==
    /\ pc[t] = "look" /\ CachedAt(want[t]) = {} /\ ~IsComputing(want[t])
    /\ computing' = computing \union {want[t]}
    /\ taken' = [taken EXCEPT ![t] = IF Fits(want[t]) THEN carry ELSE NoCarry]
    /\ carry' = IF Fits(want[t]) THEN NoCarry ELSE carry
    /\ store' = Append(store, [start |-> want[t], frames |-> <<>>, kind |-> "Inflight"])
    /\ result' = [result EXCEPT ![t] = Len(store) + 1]
    /\ Goto(t, "fill")
    /\ UNCHANGED <<d, cache, want, made, asked>>

\* rolling_fill_chunk, on what only this thread has.
Fill(t) ==
    /\ pc[t] = "fill"
    /\ LET filled == FillChunk(want[t], taken[t])
       IN  /\ store' = [store EXCEPT ![result[t]].frames = filled.frames]
           /\ made' = [made EXCEPT ![t] = filled.next]
    /\ taken' = [taken EXCEPT ![t] = NoCarry]
    /\ Goto(t, "publish")
    /\ UNCHANGED <<d, cache, computing, carry, want, result, asked>>

\* It throws: no memory, a frame that fails.  The carry is gone.
FillThrows(t) ==
    /\ pc[t] = "fill"
    /\ taken' = [taken EXCEPT ![t] = NoCarry]
    /\ result' = [result EXCEPT ![t] = NoStore]
    /\ Goto(t, "erase")
    /\ UNCHANGED <<d, cache, computing, carry, store, want, made, asked>>

Retag(evicted, mine) ==
    [i \in DOMAIN store |-> IF i \in evicted THEN [store[i] EXCEPT !.kind = "Pinned"]
                            ELSE IF i = mine THEN [store[i] EXCEPT !.kind = "Cached"] ELSE store[i]]

\* push_front, retag, evict beyond the limit, keep the furthest carry.
Publish(t) ==
    /\ pc[t] = "publish"
    /\ LET all == <<result[t]>> \o cache
           kept == SubSeq(all, 1, Lesser(Len(all), d.cache_limit))
       IN  /\ cache' = kept
           /\ store' = Retag(ToSet(all) \ ToSet(kept), result[t])
    /\ carry' = IF made[t] # NoCarry /\ (carry = NoCarry \/ made[t].start > carry.start) THEN made[t] ELSE carry
    /\ made' = [made EXCEPT ![t] = NoCarry]
    /\ Goto(t, "erase")
    /\ UNCHANGED <<d, computing, want, taken, result, asked>>

\* ~Computing, up to its notify_all.
EraseComputing(t) ==
    /\ pc[t] = "erase"
    /\ computing' = computing \ {want[t]}
    /\ Goto(t, "notify")
    /\ UNCHANGED <<d, cache, carry, store, want, taken, made, result, asked>>

\* Mutant: one waiting thread is woken.
WokenOne == LET sleeping == {t \in Threads : pc[t] = "asleep"}
            IN  IF sleeping = {} THEN {} ELSE {CHOOSE t \in sleeping : TRUE}

Woken == {t \in Threads : pc[t] = "asleep"}

NotifyAll(t) ==
    /\ pc[t] = "notify"
    /\ pc' = [u \in Threads |-> IF u = t THEN "return" ELSE IF u \in Woken THEN "look" ELSE pc[u]]
    /\ UNCHANGED <<d, cache, computing, carry, store, want, taken, made, result, asked>>

SpuriousWake(t) ==
    /\ pc[t] = "asleep"
    /\ Goto(t, "look")
    /\ UNCHANGED <<d, cache, computing, carry, store, want, taken, made, result, asked>>

\* The frame is copied out (or the exception leaves); the store is let go.
Return(t) ==
    /\ pc[t] = "return"
    /\ result' = [result EXCEPT ![t] = NoStore]
    /\ Goto(t, "idle")
    /\ UNCHANGED <<d, cache, computing, carry, store, want, taken, made, asked>>

Run(t) == \/ Hit(t) \/ WaitForOther(t) \/ Begin(t) \/ Fill(t) \/ Publish(t)
          \/ EraseComputing(t) \/ NotifyAll(t) \/ Return(t)

Next == \E t \in Threads : \/ \E start \in Starts : Ask(t, start)
                           \/ Run(t) \/ FillThrows(t) \/ SpuriousWake(t)

Spec == Init /\ [][Next]_vars

-----------------------------------------------------------------------------
\* The centers of a frame's window, each once, in ascending order.
Complete(f) == LET first == Greater(0, f - d.radius)
               IN  [i \in 1 .. temporal_last(f) - first + 1 |-> first + i - 1]

\* Every frame a request gets has all its centers in ascending order, whether
\* its chunk carried on or started afresh, and whatever was computed, dropped
\* or failed before: rolling output is the legacy output, bit for bit.
FramesComplete ==
    \A t \in Threads : pc[t] = "return" /\ result[t] # NoStore =>
        /\ store[result[t]].start = want[t]
        /\ \A f \in want[t] .. want[t] + CountAt(want[t]) - 1 : store[result[t]].frames[f] = Complete(f)

\* The carry holds, for every frame behind its chunk that the chunk's centers
\* reach, exactly the centers up to the chunk's last.
CarryComplete ==
    \A c \in {carry} \union {taken[t] : t \in Threads} : c # NoCarry =>
        LET last == temporal_last(c.start - 1)
        IN  /\ Len(c.sums) = Lesser(last + d.radius, d.frames - 1) - c.start + 1
            /\ \A i \in DOMAIN c.sums :
                   c.sums[i] = SelectSeq(Complete(c.start + i - 1), LAMBDA center : center <= last)

\* Frames and the carry between chunks have the centers they should.
CentersComplete == FramesComplete /\ CarryComplete

\* "Chunks are computed concurrently, each once": no two threads compute a
\* chunk at a time, and no chunk is twice in the cache.
ComputedOnce ==
    /\ \A t, u \in Threads : t # u /\ pc[t] \in {"fill", "publish"} /\ pc[u] \in {"fill", "publish"} =>
           want[t] # want[u]
    /\ \A i, j \in DOMAIN cache : i # j => store[cache[i]].start # store[cache[j]].start

\* A live store is charged under the category it is in: Cached in the cache,
\* Inflight while it is computed, Pinned once evicted under a reader.
ChargedAsHeld ==
    \A i \in DOMAIN store : i \in ToSet(cache) \union {result[t] : t \in Threads} =>
        store[i].kind = IF i \in ToSet(cache) THEN "Cached"
                        ELSE IF \E t \in Threads : result[t] = i /\ pc[t] \in {"fill", "publish"} THEN "Inflight"
                        ELSE "Pinned"

\* A chunk has one store, and the account of that store says where it is.
StoresKept == ComputedOnce /\ ChargedAsHeld

\* A thread sleeps only while the chunk it waits for is being computed, or a
\* notify_all is on its way.
SleepersAwaited ==
    \A t \in Threads : pc[t] = "asleep" =>
        want[t] \in computing \/ \E u \in Threads : pc[u] = "notify"
=============================================================================
