----------------------------- MODULE Bm4dChunks -----------------------------
(***************************************************************************)
(* The CUDA BM4D filter (src/cuda/bm4d/filter.cpp): a cache of chunks of   *)
(* frames, requests that compute a missing chunk in place, and prefetch    *)
(* threads that compute the next one.  A chunk uploads into the slot of    *)
(* its parity beside the tiles of another; tiles and downloads use one     *)
(* output buffer under device_mu.                                          *)
(*                                                                         *)
(* An actor is a request (a thread of VapourSynth) or a prefetch thread.   *)
(* A buffer that nobody has yet to read holds Nothing, an unused store is  *)
(* Blank.                                                                  *)
(* Chunks are numbered: nss::bm4d_chunk_first(n) is a chunk's number times *)
(* kBm4dChunk.  A buffer holds the <<chunk, plane>> it was filled for.     *)
(***************************************************************************)
EXTENDS Integers, FiniteSets, Sequences, SequencesExt

CONSTANTS Callers,      \* threads that bring in requests
          Helpers,      \* prefetch threads: kPrefetchers of them
          Nodes,        \* nodes considered: [chunks, planes, gpu]
          CacheLimit,   \* kCacheLimit
          Computers,    \* kComputers
          Copiers,      \* kOutputs
          Stores,       \* names for chunk stores
          FaultSets,    \* what may fail: sets of "compute", "launch", "collect"
          Budget        \* bound: requests of one behaviour

\* There are names for as many stores as the memory plan counts: an allocation
\* finds one.
Bm4dAssumption ==
    /\ \A n \in Nodes : n.chunks \in Nat \ {0} /\ n.planes \in Nat \ {0} /\ n.gpu \in BOOLEAN
    /\ Callers \intersect Helpers = {}
    /\ IsFiniteSet(Callers) /\ IsFiniteSet(Helpers)
    /\ {CacheLimit, Computers, Copiers} \subseteq Nat \ {0} /\ Budget \in Nat
    /\ Stores \subseteq Nat \ {0} /\ IsFiniteSet(Stores)
    /\ Cardinality(Stores) >= CacheLimit + Cardinality(Helpers) + Computers

VARIABLES node,        \* the node, fixed
          faults,      \* what may fail, fixed
          cache,       \* Bm4dData::cache, front first: [store, readers]
          computing, running, spare,   \* Bm4dData
          prefetching, \* Bm4dData::prefetching
          store,       \* store -> [first, planes]: the planes downloaded into it
          frames,      \* slots[parity].frames
          outputs,     \* Bm4dData::outputs
          at,
          want,        \* request -> the chunk of its frame
          job,         \* actor -> the chunk it claimed or computes
          plane,       \* actor -> the plane compute_chunk is at
          held,        \* actor -> the store its shared_ptr holds
          queued,      \* actor -> the plane whose copies into its store wait on the stream
          computers,   \* requests with a compute permit
          permits,     \* requests with an output permit
          asked

clipVars == <<node, faults, cache, computing, running, spare, prefetching, store, frames, outputs,
          at, want, job, plane, held, queued, computers, permits, asked>>
sharedVars == <<cache, computing, spare, prefetching>>
deviceVars == <<store, frames, outputs, queued>>
storageVars == <<frames, outputs, queued>>
fixedVars == <<node, faults>>
permitVars == <<computers, permits>>

Actors == Callers \union Helpers
Chunks == 0 .. node.chunks - 1
NoChunk == -1
NoStore == 0
Nothing == <<NoChunk, 0>>
Blank == [first |-> NoChunk, planes |-> {}]
Parity(chunk) == chunk % 2

(***************************************************************************)
(* Where an actor is.  In getFrame:                                        *)
(*   out        no request (a prefetch thread: not running)                *)
(*   reserve, claim, launch, unreserve: the lookahead                      *)
(*   look, asleep: the lookup and computed.wait                            *)
(*   permit     computers->acquire()                                       *)
(*   output     permits->acquire();  copy: the frame is copied out         *)
(*   unread, return: the destructors (~Hit, the lease of computers)        *)
(* in compute_chunk:                                                       *)
(*   store, slot, upload, order, waiting, tiles, download, drain           *)
(* in finish_chunk: finish, evict;  end: a prefetch thread's last lines    *)
(***************************************************************************)
At(a, here) == at[a] = here
MoveTo(a, here) == at' = [at EXCEPT ![a] = here]

ClipInit ==
    /\ node \in Nodes /\ faults \in FaultSets
    /\ cache = <<>> /\ computing = {} /\ running = {} /\ spare = {} /\ prefetching = 0
    /\ store = [s \in Stores |-> Blank]
    /\ frames = [p \in {0, 1} |-> Nothing] /\ outputs = Nothing
    /\ at = [a \in Actors |-> "out"]
    /\ want = [t \in Callers |-> NoChunk]
    /\ job = [a \in Actors |-> NoChunk]
    /\ plane = [a \in Actors |-> 0]
    /\ held = [a \in Actors |-> NoStore]
    /\ queued = [a \in Actors |-> 0] /\ computers = {} /\ permits = {}
    /\ asked = 0

-----------------------------------------------------------------------------
CachedAt(chunk) == {i \in DOMAIN cache : store[cache[i].store].first = chunk}

\* chunk_known.
Known(chunk) == CachedAt(chunk) # {} \/ chunk \in computing

\* Stores that somebody refers to.
CachedStores == {cache[i].store : i \in DOMAIN cache}
HeldStores == {held[a] : a \in Actors} \ {NoStore}
LiveStores == CachedStores \union spare \union HeldStores

\* notify_all of computed.
Woken(places) == [a \in Actors |-> CASE places[a] = "asleep" -> "look"
                                     [] places[a] = "waiting" -> "order"
                                     [] OTHER -> places[a]]

\* The stores after `gone` went back or were destroyed.
Without(gone) == [s \in Stores |-> IF s \in gone THEN Blank ELSE store[s]]

-----------------------------------------------------------------------------
(* getFrame: the lookahead.                                                *)

\* arInitial and arAllFramesReady of a frame of a chunk; ahead: it is past the
\* chunk's first quarter.  The next chunk's frames are asked for while that
\* chunk is not known.
Ask(t, chunk, ahead) ==
    /\ At(t, "out") /\ asked < Budget
    /\ asked' = asked + 1
    /\ want' = [want EXCEPT ![t] = chunk]
    /\ MoveTo(t, IF ahead /\ chunk + 1 \in Chunks /\ ~Known(chunk + 1) THEN "reserve" ELSE "look")
    /\ UNCHANGED <<fixedVars, sharedVars, running, deviceVars, job, plane, held, permitVars>>

\* The loop on prefetching.
Reserve(t) ==
    /\ At(t, "reserve")
    /\ IF prefetching < Cardinality(Helpers)
       THEN prefetching' = prefetching + 1 /\ MoveTo(t, "claim")
       ELSE UNCHANGED prefetching /\ MoveTo(t, "look")
    /\ UNCHANGED <<fixedVars, cache, computing, spare, running, deviceVars, want, job, plane, held, permitVars, asked>>

\* claim_chunk.
Claim(t) ==
    /\ At(t, "claim")
    /\ IF Known(want[t] + 1)
       THEN UNCHANGED <<computing, job>> /\ MoveTo(t, "unreserve")
       ELSE /\ computing' = computing \union {want[t] + 1}
            /\ job' = [job EXCEPT ![t] = want[t] + 1]
            /\ MoveTo(t, "launch")
    /\ UNCHANGED <<fixedVars, cache, spare, prefetching, running, deviceVars, want, plane, held, permitVars, asked>>

Unreserve(t) ==
    /\ At(t, "unreserve")
    /\ prefetching' = prefetching - 1
    /\ MoveTo(t, "look")
    /\ UNCHANGED <<fixedVars, cache, computing, spare, running, deviceVars, want, job, plane, held, permitVars, asked>>

\* A frame cannot be had, or there is no memory for the list: checked_frame
\* reports it.  Nothing here knows of the claim.
CollectThrows(t) ==
    /\ At(t, "launch") /\ "collect" \in faults
    /\ job' = [job EXCEPT ![t] = NoChunk]
    /\ MoveTo(t, "out")
    /\ UNCHANGED <<fixedVars, sharedVars, running, deviceVars, want, plane, held, permitVars, asked>>

\* The next chunk's frames are collected and the thread starts with them.
Launch(t) ==
    /\ At(t, "launch")
    /\ \E h \in Helpers :
        /\ At(h, "out")
        /\ at' = [at EXCEPT ![t] = "look", ![h] = "store"]
        /\ job' = [job EXCEPT ![t] = NoChunk, ![h] = job[t]]
    /\ UNCHANGED <<fixedVars, sharedVars, running, deviceVars, want, plane, held, permitVars, asked>>

\* No thread: finish_chunk gives the claim back.
LaunchFails(t) ==
    /\ At(t, "launch") /\ "launch" \in faults
    /\ MoveTo(t, "finish")
    /\ UNCHANGED <<fixedVars, sharedVars, running, deviceVars, want, job, plane, held, permitVars, asked>>

-----------------------------------------------------------------------------
(* getFrame: the lookup.                                                   *)

Hit(t) ==
    /\ At(t, "look")
    /\ \E i \in CachedAt(want[t]) :
        /\ cache' = <<[cache[i] EXCEPT !.readers = @ + 1]>> \o RemoveAt(cache, i)
        /\ held' = [held EXCEPT ![t] = cache[i].store]
    /\ MoveTo(t, "output")
    /\ UNCHANGED <<fixedVars, computing, spare, prefetching, running, deviceVars, want, job, plane, permitVars, asked>>

IsComputing(chunk) == chunk \in computing

WaitForOther(t) ==
    /\ At(t, "look") /\ CachedAt(want[t]) = {} /\ IsComputing(want[t])
    /\ MoveTo(t, "asleep")
    /\ UNCHANGED <<fixedVars, sharedVars, running, deviceVars, want, job, plane, held, permitVars, asked>>

Miss(t) ==
    /\ At(t, "look") /\ CachedAt(want[t]) = {} /\ ~IsComputing(want[t])
    /\ computing' = computing \union {want[t]}
    /\ job' = [job EXCEPT ![t] = want[t]]
    /\ MoveTo(t, "permit")
    /\ UNCHANGED <<fixedVars, cache, spare, prefetching, running, deviceVars, want, plane, held, permitVars, asked>>

TakeComputer(t) ==
    /\ At(t, "permit") /\ Cardinality(computers) < Computers
    /\ computers' = computers \union {t}
    /\ MoveTo(t, "store")
    /\ UNCHANGED <<fixedVars, sharedVars, running, deviceVars, want, job, plane, held, permits, asked>>

-----------------------------------------------------------------------------
(* compute_chunk.                                                          *)

Least(S) == CHOOSE s \in S : \A other \in S : s <= other

\* A spare store, or a new one; it is the chunk's from here on.
TakeStore(a) ==
    /\ At(a, "store")
    /\ \E s \in IF spare # {} THEN spare ELSE {Least(Stores \ LiveStores)} :
        /\ spare' = spare \ {s}
        /\ held' = [held EXCEPT ![a] = s]
        /\ store' = [store EXCEPT ![s] = [first |-> job[a], planes |-> {}]]
    /\ MoveTo(a, "slot")
    /\ UNCHANGED <<fixedVars, cache, computing, prefetching, running, storageVars, want, job, plane, permitVars, asked>>

InSlot(a) == at[a] \in {"upload", "order", "waiting", "tiles", "download", "drain"}

\* The chunk of each slot's holder has its parity.
SlotFree(chunk) == \A a \in Actors : InSlot(a) => Parity(job[a]) # Parity(chunk)

\* The slot's lock and Running's constructor.
EnterSlot(a) ==
    /\ At(a, "slot") /\ SlotFree(job[a])
    /\ running' = running \union {job[a]}
    /\ plane' = [plane EXCEPT ![a] = 1]
    /\ MoveTo(a, "upload")
    /\ UNCHANGED <<fixedVars, sharedVars, deviceVars, want, job, held, permitVars, asked>>

\* A plane of the volume; it ends with a wait for the slot's stream.
Upload(a) ==
    /\ At(a, "upload") /\ queued[a] = 0
    /\ frames' = [frames EXCEPT ![Parity(job[a])] = <<job[a], plane[a]>>]
    /\ MoveTo(a, "order")
    /\ UNCHANGED <<fixedVars, sharedVars, running, store, outputs, queued, want, job, plane, held, permitVars, asked>>

\* Mutant: a chunk waits for the smaller ones that are only claimed, too.
BeforeClaimed(chunk) == {c \in computing : c < chunk}

\* The chunks whose tiles go first.
Before(chunk) == {c \in running : c < chunk}

\* The wait for the chunks before.
Order(a) ==
    /\ At(a, "order")
    /\ MoveTo(a, IF Before(job[a]) = {} THEN "tiles" ELSE "waiting")
    /\ UNCHANGED <<fixedVars, sharedVars, running, deviceVars, want, job, plane, held, permitVars, asked>>

\* device_mu.
DeviceFree == \A a \in Actors : ~At(a, "download")

\* The tiles of a plane, up to the wait for their stream.
Tiles(a) ==
    /\ At(a, "tiles") /\ DeviceFree
    /\ outputs' = frames[Parity(job[a])]
    /\ MoveTo(a, "download")
    /\ UNCHANGED <<fixedVars, sharedVars, running, store, frames, queued, want, job, plane, held, permitVars, asked>>

\* The output buffer's frames go to the store as a plane of its chunk.
Downloaded(s, p) ==
    [store EXCEPT ![s].planes = IF outputs = <<store[s].first, p>> THEN @ \union {p} ELSE @ \ {p}]

\* The download: host stores are waited for, device stores only queued.
Download(a) ==
    /\ At(a, "download")
    /\ IF node.gpu
       THEN queued' = [queued EXCEPT ![a] = plane[a]] /\ UNCHANGED store
       ELSE store' = Downloaded(held[a], plane[a]) /\ UNCHANGED queued
    /\ outputs' = IF node.gpu THEN outputs ELSE Nothing
    /\ plane' = [plane EXCEPT ![a] = @ + 1]
    /\ MoveTo(a, IF plane[a] = node.planes THEN "drain" ELSE "upload")
    /\ UNCHANGED <<fixedVars, sharedVars, running, frames, want, job, held, permitVars, asked>>

\* The device runs the copies queued on a slot's stream.
Copy(a) ==
    /\ queued[a] # 0
    /\ store' = Downloaded(held[a], queued[a])
    /\ queued' = [queued EXCEPT ![a] = 0]
    /\ outputs' = IF outputs = <<job[a], queued[a]>> THEN Nothing ELSE outputs
    /\ UNCHANGED <<fixedVars, sharedVars, running, frames, at, want, job, plane, held, permitVars, asked>>

\* Memory runs out (before the slot is taken), or a call of CUDA fails.
ComputeThrows(a) ==
    /\ "compute" \in faults
    /\ \/ At(a, "store") /\ MoveTo(a, "finish")
       \/ at[a] \in {"upload", "tiles", "download"} /\ MoveTo(a, "drain")
    /\ plane' = [plane EXCEPT ![a] = 0]
    /\ UNCHANGED <<fixedVars, sharedVars, running, deviceVars, want, job, held, permitVars, asked>>

\* The streams are waited for, the chunk leaves `running` and its slot, and
\* those that wait for their order look again; a chunk that failed drops its
\* store.
Leave(a) ==
    /\ At(a, "drain") /\ queued[a] = 0
    /\ running' = running \ {job[a]}
    /\ frames' = [frames EXCEPT ![Parity(job[a])] = Nothing]
    /\ store' = IF plane[a] = 0 THEN Without({held[a]}) ELSE store
    /\ held' = [held EXCEPT ![a] = IF plane[a] = 0 THEN NoStore ELSE @]
    /\ plane' = [plane EXCEPT ![a] = 0]
    /\ at' = Woken([at EXCEPT ![a] = "finish"])
    /\ UNCHANGED <<fixedVars, sharedVars, outputs, queued, want, job, permitVars, asked>>

-----------------------------------------------------------------------------
(* finish_chunk.                                                           *)

\* The chunk's entry goes to the front.
Published(a) == IF held[a] = NoStore THEN cache ELSE <<[store |-> held[a], readers |-> 0]>> \o cache

\* The chunk is cached, or failed; its sleepers look again.  A prefetch thread
\* moves its store to the cache, a request keeps it.
Finish(a) ==
    /\ At(a, "finish")
    /\ cache' = Published(a)
    /\ computing' = computing \ {job[a]}
    /\ job' = [job EXCEPT ![a] = NoChunk]
    /\ held' = [held EXCEPT ![a] = IF a \in Helpers THEN NoStore ELSE @]
    /\ at' = Woken([at EXCEPT ![a] = "evict"])
    /\ UNCHANGED <<fixedVars, spare, prefetching, running, deviceVars, want, plane, permitVars, asked>>

\* The entries behind the front that no hit reads.
Evictable == {i \in DOMAIN cache : i > 1 /\ cache[i].readers = 0}

\* The oldest of them, as many as the cache is over its limit.
Victims == {i \in Evictable :
                Cardinality({j \in Evictable : j > i}) < Len(cache) - CacheLimit}

Dropped == {cache[i].store : i \in Victims}

\* The list without the entries of the stores gone.
Shortened(gone) ==
    LET left == {i \in DOMAIN cache : cache[i].store \notin gone}
    IN  [n \in 1 .. Cardinality(left) |-> cache[CHOOSE i \in left : Cardinality({j \in left : j <= i}) = n]]

\* Mutant: a store is reused though the request that computed it reads it.
ReusedRead(stores) == stores

\* Those that nothing else holds are kept for reuse.
Reused(stores) == stores \ HeldStores

\* Where finish_chunk was called.
AfterFinish(a) == CASE a \in Helpers -> "end"
                    [] a \in Callers \ computers -> "unreserve"
                    [] a \in computers /\ held[a] # NoStore -> "output"
                    [] OTHER -> "return"

\* The eviction loop, up to a wait of 1 ms (it stays) or its end.
Evict(a) ==
    /\ At(a, "evict")
    /\ Victims # {} \/ Len(cache) <= CacheLimit
    /\ cache' = Shortened(Dropped)
    /\ spare' = spare \union Reused(Dropped)
    /\ store' = Without(Dropped \ HeldStores)
    /\ MoveTo(a, IF Len(cache') > CacheLimit THEN "evict" ELSE AfterFinish(a))
    /\ UNCHANGED <<fixedVars, computing, prefetching, running, storageVars, want, job, plane, held, permitVars, asked>>

\* A prefetch thread ends.
End(h) ==
    /\ At(h, "end")
    /\ prefetching' = prefetching - 1
    /\ MoveTo(h, "out")
    /\ UNCHANGED <<fixedVars, cache, computing, spare, running, deviceVars, want, job, plane, held, permitVars, asked>>

-----------------------------------------------------------------------------
(* getFrame: the frame.                                                    *)

TakeOutput(t) ==
    /\ At(t, "output") /\ Cardinality(permits) < Copiers
    /\ permits' = permits \union {t}
    /\ MoveTo(t, "copy")
    /\ UNCHANGED <<fixedVars, sharedVars, running, deviceVars, want, job, plane, held, computers, asked>>

\* The frame is copied out, or cannot be had; the permit and the store go.
EndCopy(t) ==
    /\ At(t, "copy")
    /\ permits' = permits \ {t}
    /\ store' = IF \A a \in Actors \ {t} : held[a] # held[t] THEN Without({held[t]} \ CachedStores) ELSE store
    /\ held' = [held EXCEPT ![t] = NoStore]
    /\ MoveTo(t, IF t \in computers THEN "return" ELSE "unread")
    /\ UNCHANGED <<fixedVars, sharedVars, running, storageVars, want, job, plane, computers, asked>>

\* ~Hit.
Unread(t) ==
    /\ At(t, "unread")
    /\ cache' = [i \in DOMAIN cache |->
                    IF i \in CachedAt(want[t]) THEN [cache[i] EXCEPT !.readers = @ - 1] ELSE cache[i]]
    /\ want' = [want EXCEPT ![t] = NoChunk]
    /\ at' = Woken([at EXCEPT ![t] = "out"])
    /\ UNCHANGED <<fixedVars, computing, spare, prefetching, running, deviceVars, job, plane, held, permitVars, asked>>

\* The compute permit goes back.
Return(t) ==
    /\ At(t, "return")
    /\ computers' = computers \ {t}
    /\ want' = [want EXCEPT ![t] = NoChunk]
    /\ MoveTo(t, "out")
    /\ UNCHANGED <<fixedVars, sharedVars, running, deviceVars, job, plane, held, permits, asked>>

-----------------------------------------------------------------------------
RequestStep(t) ==
    \/ Reserve(t) \/ Claim(t) \/ Unreserve(t) \/ Launch(t)
    \/ Hit(t) \/ WaitForOther(t) \/ Miss(t) \/ TakeComputer(t)
    \/ TakeOutput(t) \/ EndCopy(t) \/ Unread(t) \/ Return(t)

ComputeStep(a) ==
    \/ TakeStore(a) \/ EnterSlot(a) \/ Upload(a) \/ Order(a)
    \/ Tiles(a) \/ Download(a) \/ Copy(a) \/ Leave(a) \/ Finish(a) \/ Evict(a)

ClipNext ==
    \/ \E t \in Callers : \/ \E chunk \in Chunks, ahead \in BOOLEAN : Ask(t, chunk, ahead)
                          \/ RequestStep(t) \/ CollectThrows(t) \/ LaunchFails(t)
    \/ \E a \in Actors : ComputeStep(a) \/ ComputeThrows(a)
    \/ \E h \in Helpers : End(h)

ClipSpec == ClipInit /\ [][ClipNext]_clipVars

-----------------------------------------------------------------------------
Whole(chunk) == [first |-> chunk, planes |-> 1 .. node.planes]

\* Host stores only: see DownloadsKept for device stores.  A chunk is computed
\* by one actor at a time and never while it is cached; what is cached and what
\* a frame is copied from are the chunk that was asked for, whole, though slots,
\* the output buffer and dropped stores are used again meanwhile; a hit's entry
\* stays cached.
ChunksRight ==
    /\ \A a, b \in Actors : job[a] # NoChunk /\ job[a] = job[b] => a = b
    /\ \A i, j \in DOMAIN cache : store[cache[i].store].first = store[cache[j].store].first => i = j
    /\ \A t \in Callers : At(t, "unread") => \E i \in CachedAt(want[t]) : cache[i].readers > 0
    /\ ~node.gpu =>
        /\ \A i \in DOMAIN cache : store[cache[i].store].planes = 1 .. node.planes
        /\ \A t \in Callers : at[t] \in {"output", "copy"} => store[held[t]] = Whole(want[t])

\* The stores in use and kept for reuse are those the memory plan counts for a
\* long clip: the cache's, one per prefetch thread and one per compute permit.
StoresCounted == Cardinality(LiveStores) <= CacheLimit + Cardinality(Helpers) + Computers

\* What BM4D caches and copies out is whole and the chunk that was asked for,
\* one actor computes it, and its stores are no more than the memory plan counts.
ClipChunksRight == ChunksRight /\ StoresCounted

\* "The tiles and the download run one chunk at a time (device_mu) on the shared
\* work and output buffers" (Bm4dData): no tiles run while copies out of the
\* output buffer of another chunk are still to run.
DownloadsKept == \A a, b \in Actors : At(a, "download") /\ a # b => queued[b] = 0

\* "claimed: being computed or about to be" (Bm4dData::computing): somebody has
\* each claim and will end it.
ClaimsHeld == computing \subseteq {job[a] : a \in Actors}

Blocked(a) ==
    \/ At(a, "launch") /\ \A h \in Helpers : ~At(h, "out")
    \/ at[a] \in {"asleep", "waiting"}
    \/ At(a, "permit") /\ Cardinality(computers) = Computers
    \/ At(a, "output") /\ Cardinality(permits) = Copiers
    \/ At(a, "slot") /\ ~SlotFree(job[a])
    \/ At(a, "tiles") /\ ~DeviceFree
    \/ At(a, "evict") /\ Victims = {} /\ Len(cache) > CacheLimit

\* While no claim is lost: whoever sleeps for a chunk or for its order has
\* somebody to wake it, and compute permits, slots, the order of tiles, the
\* eviction and output permits never wait for each other in a circle
\* (Bm4dData::running and Entry say why).
RequestsGoOn ==
    ClaimsHeld =>
        /\ \A t \in Callers : At(t, "asleep") => CachedAt(want[t]) = {} /\ IsComputing(want[t])
        /\ \A a \in Actors : At(a, "waiting") => Before(job[a]) # {}
        /\ (\E a \in Actors : ~At(a, "out")) => \E a \in Actors : ~At(a, "out") /\ ~Blocked(a)
=============================================================================
