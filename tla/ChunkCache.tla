----------------------------- MODULE ChunkCache -----------------------------
(***************************************************************************)
(* src/gpuhost/chunk_cache.hpp: the host cache of finished rolling chunks  *)
(* that the GPU nodes share.  Requests (threads) ask for the chunk at a    *)
(* start; a request takes it from the cache, waits for the request that is *)
(* computing it, or computes it.  The critical sections of mu_ are single  *)
(* steps; what happens between them (compute(), the notify after an        *)
(* unlock, the destruction of a shared_ptr) is a step of its own.          *)
(*                                                                         *)
(* A store is identified by its host block.  cache is the list cache_ of   *)
(* entries: pos is an entry's place in the list, 0 at the front.           *)
(***************************************************************************)
EXTENDS Integers, FiniteSets, Sequences

CONSTANTS Threads,      \* requests in flight (VapourSynth's worker threads)
          Starts,       \* starts of chunks
          Blocks,       \* host blocks that allocate_ may return
          None,         \* no block
          CacheSize,    \* size given to configure()
          CacheCap,     \* cap given to configure()
          Requests      \* frame requests the host makes before it frees the node

ASSUME SizesAssumption == /\ CacheSize \in Nat \ {0}
                          /\ CacheCap \in Nat
                          /\ CacheSize <= CacheCap
                          /\ Requests \in Nat
ASSUME NoneAssumption == None \notin Blocks
ASSUME ThreadsAssumption == IsFiniteSet(Threads)
ASSUME StartsAssumption == Starts # {}

VARIABLES cache,        \* cache_: block |-> [start, readers, pos]
          size,         \* size_
          computing,    \* computing_
          dropped,      \* dropped_, oldest first
          droppedHits,  \* dropped_hits_
          pool,         \* StorePool::free
          pc,           \* where each request is
          want,         \* the start it asks for
          store,        \* the block its shared_ptr<Store> refers to
          asleep,       \* requests blocked in cv_.wait
          asked         \* requests made so far

cacheVars == <<cache, size, computing, dropped, droppedHits, pool, pc, want, store, asleep, asked>>

(***************************************************************************)
(* Where a request is.                                                     *)
(*   idle     outside get()                                                *)
(*   get      at the lookup loop of get() (in cv_.wait when asleep)        *)
(*   compute  in compute(), before make_store                              *)
(*   filling  in compute(), holding the store make_store returned          *)
(*   failed   compute() threw and let go of its store                      *)
(*   evict    chunk in the cache, which is over size (cv_.wait: asleep)    *)
(*   own      get() returned the chunk this request computed               *)
(*   hit      get() returned a cached chunk, of whose entry it is a reader *)
(*   notify   ~Chunk: release() has left mu_, its notify_all is to come    *)
(*   unread   ~Chunk: release() has returned, store_ still holds the block *)
(***************************************************************************)
Locations == {"idle", "get", "compute", "filling", "failed", "evict",
              "own", "hit", "notify", "unread"}

Entries == [start: Starts, readers: Int, pos: Int]

\* want outside get().
AnyStart == CHOOSE start \in Starts : TRUE

Init == /\ cache = [b \in {} |-> None]
        /\ size = CacheSize
        /\ computing = {}
        /\ dropped = << >>
        /\ droppedHits = 0
        /\ pool = {}
        /\ pc = [t \in Threads |-> "idle"]
        /\ want = [t \in Threads |-> AnyStart]
        /\ store = [t \in Threads |-> None]
        /\ asleep = {}
        /\ asked = 0

-----------------------------------------------------------------------------
Cached == DOMAIN cache

\* Blocks some shared_ptr<Store> refers to: ~ChunkStore has not run for them.
Referenced(c, s) == (DOMAIN c \union {s[t] : t \in Threads}) \ {None}

Allocated == pool \union Referenced(cache, store)

\* Mutant: a block goes back as soon as the cache lets go of it.
ReclaimAtErase(c, s) == pool \union (Referenced(cache, store) \ DOMAIN c)

\* ~ChunkStore: the blocks that lost their last shared_ptr go back to the pool.
Reclaim(c, s) == pool \union (Referenced(cache, store) \ Referenced(c, s))

Entry(start, readers, pos) == [start |-> start, readers |-> readers, pos |-> pos]

\* cache_.splice(cache_.begin(), cache_, it) and ++it->readers.
TouchAndRead(c, b) ==
    [x \in DOMAIN c |->
        IF x = b THEN Entry(c[x].start, c[x].readers + 1, 0)
        ELSE Entry(c[x].start, c[x].readers, c[x].pos + (IF c[x].pos < c[b].pos THEN 1 ELSE 0))]

\* cache_.push_front(Entry{computed, 0}).
PushFront(c, b, start) ==
    [x \in DOMAIN c \union {b} |->
        IF x = b THEN Entry(start, 0, 0)
        ELSE Entry(c[x].start, c[x].readers, c[x].pos + 1)]

\* --entry->readers.
Unread(c, b) ==
    [x \in DOMAIN c |->
        IF x = b THEN Entry(c[x].start, c[x].readers - 1, c[x].pos) ELSE c[x]]

\* Mutant: chunks that hits read may go.
EvictableRead(c) == {b \in DOMAIN c : c[b].pos > 0}

\* The entries behind the front that no hit reads.
Evictable(c) == {b \in DOMAIN c : c[b].readers = 0 /\ c[b].pos > 0}

\* What the eviction loop erases before it ends or waits: the oldest
\* evictable entries, as many as the cache is over size.
Victims(c) ==
    {b \in Evictable(c) :
        Cardinality({x \in Evictable(c) : c[x].pos > c[b].pos}) < Cardinality(DOMAIN c) - size}

\* cache_.erase of each of them.
Erase(c, gone) ==
    [x \in DOMAIN c \ gone |->
        Entry(c[x].start, c[x].readers,
              c[x].pos - Cardinality({g \in gone : c[g].pos < c[x].pos}))]

\* The order they are dropped in: oldest first.
DropOrders(c, gone) ==
    {o \in [1..Cardinality(gone) -> gone] :
        \A i, j \in 1..Cardinality(gone) : i < j => c[o[i]].pos > c[o[j]].pos}

DroppedBound == IF 2 * CacheCap > 8 THEN 2 * CacheCap ELSE 8

\* pop_front until dropped_ is within its bound.
Trim(s) == IF Len(s) > DroppedBound
           THEN SubSeq(s, Len(s) - DroppedBound + 1, Len(s)) ELSE s

\* Mutant: the cache grows after three.
GrowAfterThree == 3

\* Misses on dropped chunks after which the cache keeps one more chunk.
GrowAfter == 2

\* A miss on a dropped chunk may count towards growth.
MayGrow == size < CacheCap

\* Mutant: the lookup does not see the chunks being computed.
IsComputingUnseen(start) == FALSE

\* computing(start), and the lookup's test of computing_.
IsComputing(start) == start \in computing

\* dropped_.erase(again): the first occurrence.
EraseFirst(s, i) == SubSeq(s, 1, i - 1) \o SubSeq(s, i + 1, Len(s))

-----------------------------------------------------------------------------
\* A frame request reaches the cache.
Ask(t, start) ==
    /\ pc[t] = "idle" /\ asked < Requests
    /\ asked' = asked + 1
    /\ pc' = [pc EXCEPT ![t] = "get"]
    /\ want' = [want EXCEPT ![t] = start]
    /\ UNCHANGED <<cache, size, computing, dropped, droppedHits, pool, store, asleep>>

\* get(): the chunk is in the cache.
Hit(t) ==
    /\ pc[t] = "get" /\ t \notin asleep
    /\ \E b \in Cached :
        /\ cache[b].start = want[t]
        /\ cache' = TouchAndRead(cache, b)
        /\ store' = [store EXCEPT ![t] = b]
    /\ pc' = [pc EXCEPT ![t] = "hit"]
    /\ UNCHANGED <<size, computing, dropped, droppedHits, pool, want, asleep, asked>>

\* get(): another request is computing the chunk.
WaitForComputing(t) ==
    /\ pc[t] = "get" /\ t \notin asleep
    /\ \A b \in Cached : cache[b].start # want[t]
    /\ IsComputing(want[t])
    /\ asleep' = asleep \union {t}
    /\ UNCHANGED <<cache, size, computing, dropped, droppedHits, pool, pc, want, store, asked>>

\* get(): a miss; a recently dropped chunk counts towards the cache's growth.
Miss(t) ==
    /\ pc[t] = "get" /\ t \notin asleep
    /\ \A b \in Cached : cache[b].start # want[t]
    /\ ~IsComputing(want[t])
    /\ \/ /\ MayGrow
          /\ \E again \in DOMAIN dropped :
                /\ dropped[again] = want[t]
                /\ \A j \in 1..(again - 1) : dropped[j] # want[t]
                /\ dropped' = EraseFirst(dropped, again)
          /\ droppedHits' = IF droppedHits + 1 >= GrowAfter THEN 0 ELSE droppedHits + 1
          /\ size' = IF droppedHits + 1 >= GrowAfter THEN size + 1 ELSE size
       \/ /\ ~MayGrow \/ \A i \in DOMAIN dropped : dropped[i] # want[t]
          /\ UNCHANGED <<dropped, droppedHits, size>>
    /\ computing' = computing \union {want[t]}
    /\ pc' = [pc EXCEPT ![t] = "compute"]
    /\ UNCHANGED <<cache, pool, want, store, asleep, asked>>

\* make_store(): a block of the pool, or a new one when it is empty.
MakeStore(t) ==
    /\ pc[t] = "compute"
    /\ \E b \in Blocks :
        /\ IF pool # {} THEN b \in pool ELSE b \notin Allocated
        /\ store' = [store EXCEPT ![t] = b]
        /\ pool' = pool \ {b}
    /\ pc' = [pc EXCEPT ![t] = "filling"]
    /\ UNCHANGED <<cache, size, computing, dropped, droppedHits, want, asleep, asked>>

\* compute() throws (allocate_ too); unwinding destroys its store.
ComputeThrows(t) ==
    /\ pc[t] \in {"compute", "filling"}
    /\ store' = [store EXCEPT ![t] = None]
    /\ pool' = Reclaim(cache, store')
    /\ pc' = [pc EXCEPT ![t] = "failed"]
    /\ UNCHANGED <<cache, size, computing, dropped, droppedHits, want, asleep, asked>>

\* Mutant: the catch block notifies nobody.
RethrowSilent(t) ==
    /\ pc[t] = "failed"
    /\ computing' = computing \ {want[t]}
    /\ pc' = [pc EXCEPT ![t] = "idle"]
    /\ want' = [want EXCEPT ![t] = AnyStart]
    /\ UNCHANGED <<cache, size, dropped, droppedHits, pool, store, asleep, asked>>

\* get(): the catch block.
Rethrow(t) ==
    /\ pc[t] = "failed"
    /\ computing' = computing \ {want[t]}
    /\ asleep' = {}
    /\ pc' = [pc EXCEPT ![t] = "idle"]
    /\ want' = [want EXCEPT ![t] = AnyStart]
    /\ UNCHANGED <<cache, size, dropped, droppedHits, pool, store, asked>>

\* The eviction loop from list c on: it drops what it can, then returns the
\* chunk to the caller, or waits for a reader while the cache is over size.
EvictOrWait(t, c) ==
    LET gone == Victims(c)
        fits == Cardinality(DOMAIN c \ gone) <= size
    IN /\ cache' = Erase(c, gone)
       /\ pool' = Reclaim(cache', store)
       /\ \E o \in DropOrders(c, gone) :
            LET out == dropped \o [i \in DOMAIN o |-> c[o[i]].start]
            IN dropped' = IF fits THEN Trim(out) ELSE out
       /\ asleep' = IF fits THEN {} ELSE asleep \union {t}
       /\ pc' = [pc EXCEPT ![t] = IF fits THEN "own" ELSE "evict"]

\* get(): compute() returned.
Publish(t) ==
    /\ pc[t] = "filling"
    /\ computing' = computing \ {want[t]}
    /\ EvictOrWait(t, PushFront(cache, store[t], want[t]))
    /\ UNCHANGED <<size, droppedHits, want, store, asked>>

\* Mutant: the eviction waits once (if for while).
EvictAgainOnce(t) ==
    /\ pc[t] = "evict" /\ t \notin asleep
    /\ pc' = [pc EXCEPT ![t] = "own"]
    /\ asleep' = {}
    /\ UNCHANGED <<cache, size, computing, dropped, droppedHits, pool, want, store, asked>>

\* get(): woken in the eviction loop.
EvictAgain(t) ==
    /\ pc[t] = "evict" /\ t \notin asleep
    /\ EvictOrWait(t, cache)
    /\ UNCHANGED <<size, computing, droppedHits, want, store, asked>>

\* ~Chunk of a hit: release() under mu_.
Release(t) ==
    /\ pc[t] = "hit"
    /\ cache' = Unread(cache, store[t])
    /\ pc' = [pc EXCEPT ![t] = "notify"]
    /\ UNCHANGED <<size, computing, dropped, droppedHits, pool, want, store, asleep, asked>>

\* Mutant: release() notifies nobody.
ReleaseNotifyNobody(t) ==
    /\ pc[t] = "notify"
    /\ pc' = [pc EXCEPT ![t] = "unread"]
    /\ UNCHANGED <<cache, size, computing, dropped, droppedHits, pool, want, store, asleep, asked>>

\* release(): notify_all, after mu_ is unlocked.
ReleaseNotify(t) ==
    /\ pc[t] = "notify"
    /\ asleep' = {}
    /\ pc' = [pc EXCEPT ![t] = "unread"]
    /\ UNCHANGED <<cache, size, computing, dropped, droppedHits, pool, want, store, asked>>

\* ~Chunk: the member store_ is destroyed (all there is to do for a chunk
\* this request computed).
DropStore(t) ==
    /\ pc[t] \in {"own", "unread"}
    /\ store' = [store EXCEPT ![t] = None]
    /\ pool' = Reclaim(cache, store')
    /\ pc' = [pc EXCEPT ![t] = "idle"]
    /\ want' = [want EXCEPT ![t] = AnyStart]
    /\ UNCHANGED <<cache, size, computing, dropped, droppedHits, asleep, asked>>

\* condition_variable::wait may return without a notify.
SpuriousWake(t) ==
    /\ t \in asleep
    /\ asleep' = asleep \ {t}
    /\ UNCHANGED <<cache, size, computing, dropped, droppedHits, pool, pc, want, store, asked>>

\* freeFilter: clear(), once no request is in flight; the pool it replaces
\* takes its blocks with it.  No request follows.
Clear ==
    /\ \A t \in Threads : pc[t] = "idle"
    /\ cache' = [b \in {} |-> None]
    /\ pool' = {}
    /\ asked' = Requests
    /\ UNCHANGED <<size, computing, dropped, droppedHits, pc, want, store, asleep>>

\* The steps a request takes by itself once it has asked for its chunk.
Step(t) == \/ Hit(t) \/ WaitForComputing(t) \/ Miss(t)
           \/ MakeStore(t) \/ Rethrow(t) \/ Publish(t) \/ EvictAgain(t)
           \/ Release(t) \/ ReleaseNotify(t) \/ DropStore(t)

Next == \/ \E t \in Threads : \/ \E start \in Starts : Ask(t, start)
                              \/ Step(t)
                              \/ ComputeThrows(t)
                              \/ SpuriousWake(t)
        \/ Clear

Spec == Init /\ [][Next]_cacheVars

-----------------------------------------------------------------------------
Computes(t) == pc[t] \in {"compute", "filling", "failed"}

\* The requests that hold block b's entry as a hit.
Readers(b) == {t \in Threads : pc[t] = "hit" /\ store[t] = b}

\* The requests that wait in the eviction loop.
Evicting == {t \in Threads : pc[t] = "evict"}

TypeOK ==
    /\ Cached \subseteq Blocks /\ cache \in [Cached -> Entries]
    /\ size \in CacheSize..CacheCap
    /\ computing \subseteq Starts
    /\ dropped \in Seq(Starts)
    /\ droppedHits \in {0, 1}
    /\ pool \subseteq Blocks
    /\ pc \in [Threads -> Locations]
    /\ want \in [Threads -> Starts]
    /\ store \in [Threads -> Blocks \union {None}]
    /\ asleep \subseteq Threads
    /\ asked \in 0..Requests

\* get() computes a chunk at most once at a time and never one it has: the
\* requests inside compute() are for different chunks, none of them cached,
\* and no chunk is twice in the cache (the lookup loop and computing_).
SingleFlight ==
    /\ computing = {want[t] : t \in {u \in Threads : Computes(u)}}
    /\ \A t, u \in Threads : Computes(t) /\ Computes(u) /\ want[t] = want[u] => t = u
    /\ \A b \in Cached : cache[b].start \notin computing
    /\ \A a, b \in Cached : cache[a].start = cache[b].start => a = b

\* Entry::readers is the number of requests that hold the entry as a hit, so
\* the cache "does not drop [it] meanwhile": the chunk a hit reads is cached,
\* and it is the one the request asked for.
HitsStayCached ==
    /\ \A t \in Threads : pc[t] = "hit" =>
            store[t] \in Cached /\ cache[store[t]].start = want[t]
    /\ \A b \in Cached :
            cache[b].readers = Cardinality(Readers(b))

\* A block that a chunk is downloaded into is nobody else's: no request
\* reads it, no cache entry holds it and the pool will not hand it out again.
FilledAlone ==
    /\ pool \intersect Referenced(cache, store) = {}
    /\ \A t \in Threads : pc[t] = "filling" =>
            /\ store[t] \notin Cached
            /\ \A u \in Threads \ {t} : store[u] # store[t]

\* The cache is over size only by the chunks of requests that wait in the
\* eviction loop for a reader: apart from those it holds size_ at most.
OverSizeOnlyWaiting ==
    Cardinality(Cached \ {store[t] : t \in Evicting}) <= size

\* The blocks in use are those the memory plan counts - the cache's, and one
\* for each request that computed its chunk - and those of readers that are
\* between release() and the end of ~Chunk.
StoresAccounted ==
    Cardinality(Referenced(cache, store)) <=
        size + Cardinality({t \in Threads : pc[t] \in {"filling", "evict", "own"}})
             + Cardinality({t \in Threads : pc[t] \in {"notify", "unread"}})

\* No wakeup is lost: whoever sleeps in cv_.wait sleeps while some request has
\* a notify_all still to make - the computing request for a lookup, or one
\* in the eviction loop or in release(); a reader for an eviction.
WakerAhead ==
    \A t \in asleep :
        \/ pc[t] = "get" /\ \E u \in Threads :
                \/ Computes(u) /\ want[u] = want[t]
                \/ pc[u] \in {"evict", "notify"}
        \/ pc[t] = "evict" /\ \E u \in Threads : pc[u] \in {"hit", "notify"}
=============================================================================
