# Verification of vapoursynth-nssfactory

TLA+ models of the concurrent and stateful parts of the plugins `nss` (CPU),
`nss_cuda` and `nss_vk`: how frame requests share chunks, device buffers,
tickets, memory and each other's work. The numerics (matching, transforms,
shrinkage) are not modelled; the models keep *which* frames a kernel reads and
*which* sums it adds to, because that is what the scheduling code has to get
right.

VapourSynth calls a filter's `getFrame` from many worker threads, for frames in
any order. A spatial filter answers each call by itself. A temporal filter with
*rolling* output computes frames in *chunks*: every input frame ("center")
adds to the sums of the frames within `radius` of it, a frame is finished when
its last center has run, and one chunk may *carry on* from the sums the chunk
before it left. Everything hard in this code follows from that: caches of
chunks and frames, single flight, eviction under readers, tickets, streams
that run behind the host, and failures in the middle of any of it.

## Inventory

| Part | State | Operations | Interacts with | What makes it correct |
|---|---|---|---|---|
| Chunk cache, `gpuhost/chunk_cache.hpp` | list of chunks with reader counts, size, chunks being computed, chunks dropped lately, pool of host blocks | `get`, `make_store`, `~Chunk`, `~ChunkStore`, `clear` | calls `compute_chunk`; shared by all requests of a node | one computation per chunk; a hit keeps its chunk; blocks never shared by accident; size respected; no lost wakeup |
| Plan order, same file | starts planned lately | `wait_for_previous`, `planned` | asks the cache what is being computed | a chunk plans behind the one before it |
| CUDA rolling request, `cuda/common/group_driver.cpp` | staging sets, output permits | `getFrame`, `rolling_chunk`, `compute_chunk`, `freeFilter` | cache, plan order, slots | stores within the memory plan; every request ends |
| Rolling turns, same file | per slot and plane: tickets, chain, next start, failed chain, slot in use | `RollTurn`, `enter`, `leave`, `~RollTurn` | threads of several chunks | a chunk that carries on finds the state it was planned for; tickets never block |
| A plane on its streams, same file | source ring, guide ring, sums, events, three CUDA streams | `walk_chunk`, `upload`, `point`, `basic_center`, `basic_frame`, `center`, `output`, `queue_plane` | device runs behind the host | every finished frame has all its centers, once, in order, from the right sources |
| CUDA whole-image filters, `cuda/common/image_filter.cpp` | per slot: ring of frames, sums, one turn at a time; staging sets | `rolling_frame`, `compute_chunk`, `RollTurn` | one stream per slot; staging pool | results do not depend on carrying on; what is queued keeps its staging |
| Vulkan group filters, `vulkan/common/group_driver.cpp` | per unit: plan, resident frames, tickets; per slot: two lanes | `RollTurn`, `RollRun`, `record_uploads`, `queue_units` | submissions whose uploads run ahead | the ring holds what both lanes read; every frame has its centers |
| Vulkan slots and queues, `vulkan/runtime/slot.cpp`, `context.cpp` | slot state, stages, timeline value, deferred download, retained frames, poisoned device | `commands`, `wait_for`, `submit`, `wait`, `settle`, `~Slot` | device queues, VapourSynth's frames | nothing the device may still use is reused or destroyed; queues drain |
| Slot pools, `cuda/runtime/stream_pool.hpp`, `vulkan/runtime/slot.hpp` | free slots, waiting orders | `acquire`, `give_back` | all GPU requests | the lowest order first; no free slot is kept from a sleeper |
| Vulkan window cache, `vulkan/common/window_cache.hpp`, `vulkan/nlm/filter.cpp` | regions with pins, queued and failed marks, timeline values | `Window`, `mark_queued`, `wait_queued`, `~Window`, `tile_frame` | slots, permits, device queues | a kernel reads its window; a frame is uploaded once; no circle of waits |
| Weight maps, `vulkan/nlm/filter.cpp` | sets with the frame they hold, who wrote and who read them | `WeightLease`, `submitted`, `~WeightLease` | slots, device queues | a frame loads its predecessor's maps, whole |
| Direct transfers, `frontend/frame_memory.cpp` | table of blocks, locked bytes, instances, release hook | constructor, destructor, `pinned`, `on_release` | frame pool, device backends | nothing locked is given back; cap; nothing left behind |
| Memory accounts, `include/nss/resources.hpp`, `host/workspace.cpp`, `frontend/ownership.hpp`, `vulkan/runtime/memory.cpp` | bytes per kind, limit, what each account holds | `acquire`, `release`, `retag`; `Workspace::get`, `FrameScope`, `Buffer` | every filter | books agree with memory; the limit holds; no size wraps |
| CPU rolling output, `host/filter_bm3d.cpp` | cache, chunks being computed, carry, accounts | `rollingGetFrame`, `rolling_fill_chunk_carried` | memory budget | every frame complete and in order; computed once; charged as held |
| Block matching, `cuda/common/match*.cu`, `topk.cuh`, `cpu/bm/matcher.hpp`, `match_lane.comp`, `gpuhost/geometry.cpp` | lists of best candidates, the search's centers; the grid of references | a search per reference, a launch per batch | all block-matching filters | every path gives the same list, ties included; every reference once |
| CUDA BM4D, `cuda/bm4d/filter.cpp` | cache of chunks with reader counts, chunks claimed and running, spare stores, prefetch threads; two slots of input frames, one output buffer; permits | `getFrame`, `claim_chunk`, `finish_chunk`, `compute_chunk` | prefetch threads run beside requests; slots upload beside another chunk's tiles | a cached chunk is whole and the right one; requests, slots and the order of tiles never wait in a circle; claims are given back |
| CPU BM4D chunk cache, `host/filter_bm4d.cpp` | cache, computing | | | not modelled: see below |
| Kernels, shaders, argument parsing, registration, VAggregate | none between frames | | | not modelled: numerics, or straight-line code |

The behaviours that are hard to test are listed, each at its line, in
`PROJECT.json` under `hazards`, with the properties that would catch them.

## Modules

| Module | Models | Used by |
|---|---|---|
| `ChunkCache` | the chunk cache | `RollingDriver`, `ChunkCacheProofs`, `MCChunkCache` |
| `RollingDriver` | a rolling request around the cache (EXTENDS `ChunkCache`: a request's step in the cache *is* the cache's action, conjoined with what the driver holds) | `MCRollingDriver` |
| `RollPlane` | one plane's chunks on three streams | `MCRollPlane`, `MCChunks` |
| `RollTurns` | CUDA: threads, slots and tickets | `MCCarry` |
| `VkRolling` | Vulkan: turns, lanes and submissions of one unit | `MCVulkan` |
| `WindowCache` | Vulkan window cache and its requests | `MCVulkan` |
| `WeightCache` | weight maps between frames | `MCCarry`, `MCWeightCache` |
| `CpuRolling` | CPU rolling output | `MCRollingFilters` |
| `ImageRolling` | CUDA whole-image filters | `MCRollingFilters` |
| `VkSlot` | a Vulkan slot's frame, its stages and queues | `MCVkSlots` |
| `SlotPool`, `SlotTurns` | who gets a slot, and the abstract promise that `SlotPool` refines | `MCVkSlots` |
| `MemoryBudget` | the budget and its accounts: also the abstract contract of `MemoryAccounts` | `MemoryAccounts` |
| `MemoryAccounts` | who charges the accounts | `MCMemory` |
| `FrameMemory` | page-locking of frame memory | `MCMemory` |
| `BlockMatch`, `MatchGrid` | which candidates a search keeps; which thread searches which reference | `MCChunks` |
| `Bm4dChunks` | BM4D's chunks, requests and prefetch threads on CUDA | `MCBm4dChunks`, `MCChunks` |
| `Bm4dInvariant` | the invariant of `Bm4dChunks` that the proofs use | |
| `ChunkCacheProofs` (with `RollingDriver`), `RollTurnsProofs`, `RollChainProofs`, `VulkanProofs` (`WindowCache` and `VkRolling`), `CarryProofs` (`WeightCache` and `CpuRolling`), `SlotProofs` (`VkSlot` and `SlotPool`), `MemoryProofs` (`FrameMemory`, `MemoryAccounts` and, over `Bm4dInvariant`, `Bm4dChunks`), with `FoldLemmas` on sums | theorems about the module they extend, see *Proofs* | |

`MCCarry`, `MCVulkan`, `MCRollingFilters`, `MCVkSlots` and `MCMemory` check two
modules in one run, `MCChunks` four (`MCRollNodes`, `MCMatching` and `MCBm4dChunks`
give it their nodes, searches and inputs). A variable `part` says which of them the
behaviour is about; the others stay in one initial state. The state spaces add up
instead of multiplying, and nothing is claimed about two at once: they do not
interact in the code either, except where *Not modelled* says so.

`PROJECT.json` (`map`) gives for every definition the lines it stands for.
Definitions that begin with `\* Mutant:` are deliberately wrong versions of the
definition after them; substituting one must break the property it is listed
with, which shows that the property depends on that code.

### ChunkCache

Every critical section of `mu_` is one action, and what happens between two of
them is a step of its own: `compute()` (`MakeStore`, `ComputeThrows`), the
`notify_all` that `release()` makes after unlocking (`ReleaseNotify`), and the
destruction of the member `store_` after `release()` has returned
(`DropStore`). A store is named by its host block; a block is alive while an
entry or a request refers to it (`Referenced`) and `Reclaim` is `~ChunkStore`.
The list `cache_` is a function from blocks to `[start, readers, pos]`, `pos`
being the place in the list. `asleep` is the set of threads in `cv_.wait`;
`notify_all` empties it, and a spurious wakeup removes one.

### RollingDriver

`at` is where a request is outside the cache. The order of acquisitions is that
of the code: `wait_for_previous`, staging set, store, tickets, device; then,
when `get()` has returned, an output permit. Destructors run in C++ order:
permit, chunk, staging set. The 5 ms grace of `wait_for_previous` may be over
at any time, so `LeaveOrder` is blocked only while the chunk before is being
computed and not planned.

### RollTurns

A ticket is a place in a state's queue (`issued - serving` is its length).
`Planned` folds the group's planes over the states under one lock, as
`compute_chunk` constructs its turns. What the device buffers hold is reduced to
`holds`: the plane, and the chunk that may carry on from them.

### RollPlane

The host (plan, enter, walk, leave, fail) and the device interleave. Each stream
has a queue of operations; an event is a position of a stream, and an operation
carries the positions it waits for, taken from the events *as recorded when it
was queued*, which is what `cudaStreamWaitEvent` does. A buffer holds the number
of the frame it is right for, or `Bad`; a sum holds the centers added to it, in
order. So "the output is right" is an equality on the store.

### VkRolling

A chunk is planned under `roll_mu`, recorded in ticket order and submitted as one
job: uploads, then kernels, then downloads. A job's stages go `queued`,
`uploading`, `uploaded`, `computing`, `computed`; `MayUpload` and `MayCompute`
are the semaphore waits that were recorded with it. `walk_chunk` is translated
as the sequence of visits of one chunk (a fold); `RollRun` runs them on the rings.
Two lanes let the next chunk's uploads run beside this chunk's kernels, which is
what `RingHoldsWindows` is about. A failure is possible while staging, while
recording, in a submit of which some stages went through, and in the wait after
the turn has been left (`WaitFails`, which reaches the state out of ticket order).
`WaitFails` is a deferred download that cannot be submitted once the kernels are
done. A wait that times out while kernels still run is not among its cases: the
slot is then broken and the device poisoned (`VkSlot`), the lane's next user gets
an exception before it records anything, and a chunk that starts afresh in the
other lane uploads only behind what was submitted before it (`wait_upload`).

### WindowCache

A request pins its whole window at once, then writes, waits for the other
uploaders, takes a slot and a permit, records and submits two stages, marks them,
and waits. The stages of a request stand for the slot's timeline values.
`staged` chooses whether uploads go through a stage or the host writes device
memory itself. `clock` and a region's `used` are the cache's ticks: a region without a
frame is taken first, otherwise the unpinned one used longest ago. A failure is
possible at every call that can throw, including a submit of which only the upload
stage went through.

### WeightCache

Which set a frame loads and which it saves is decided under the cache's lock
(`Lease` with `LoadOf` and `SaveOf`; `Busy` and `Stamped` are the sets while a
request has them and once it has submitted); the rest is the device's: a job waits for the jobs its lease named (`Waits`).
`faults` selects the failures of a behaviour: `record` (nothing was submitted)
and `partial` (the compute stage was, the download stage behind it was not).
`WeightsKept` is checked where `partial` cannot happen, because of finding 2;
`SetsHoldWhatTheySay` in both cases.

### VkSlot, SlotPool and SlotTurns

`VkSlot` has a request from `Lease` to `GiveBack`: it records a set of stages,
`submit()` sends them one by one to the queues of the layout that
`Device::create` chose (`QueueLayout`), a download may be deferred to `wait()`.
A queue runs its batches in order, each when its semaphore has been reached. A
submit may fail between two stages, a wait may give up on the device, and the
node may end at any quiet moment (`End`).

`SlotPool` has the condition variable and the notifications of both pools;
`SlotTurns` has neither: a thread asks, gets a slot when one is free and it is
next, and returns it. `PoolTakesTurns == Turns!TurnsSpec` is the refinement, with
the multiset of waiting orders as what is asked and the leases as what was
granted, fairness included: it says at once that the lowest order goes first and
that no wakeup is lost.

### MemoryBudget and MemoryAccounts

Sizes are `std::size_t` with a small modulus, and only `checked_add` looks for
overflow, as in the code. `MemoryAccounts` adds the users, with the order of
charging and allocating: a workspace that grows (allocate, swap, release), the
frames a `FrameScope` holds, a device buffer (charge, declare, create, declare and
charge the padding, and each of these failing; `Buffer::reset` in the order of its
statements), a chunk store that is computed, cached and evicted.
Memory is counted separately from the charges, so that `ChargesCoverMemory`
compares two things. `AccountsWellUsed == BudgetSpec` is the refinement: the users
never take a step that the budget's contract forbids.

A frame is "made" by VapourSynth before `hold()` sees it and "dropped" between
`forget()` and `freeFrame()`, or when `hold()` gives up on it: memory without a
charge, of one frame at a time because a scope belongs to one request, whose calls
come one after the other (`InCall`, `NoCall`). `keep()` and `releaseFrame()` leave
an uncharged frame to the caller, which is no longer the scope's. `Poison` is
`Slot::fail`: from then on `ResetBuffer` leaks instead of destroying (`leaked`), and
the charges are given back all the same. The model says so and nothing more: a
buffer is of plane size (`kDedicatedBytes`), so that what is destroyed is gone;
smaller ones come out of blocks that VMA shares and keeps.

### FrameMemory

One core. `pinned()` is split where it gives up the mutex to call the backend.
The pool (external) may return a block to the system whenever no frame is in it,
after the hook, and get the same address again.

### CpuRolling

`FillChunk` follows `rolling_fill_chunk_carried`: the ring of 2R+1 sums, the
frames finished after each center, the carry left behind.
`rolling_fill_chunk_chroma` repeats that loop for the channels of one pass, which
take every step together, so that it is the same step. Around it,
`rollingGetFrame` with its cache, single flight, eviction, retagging and
`~Computing`. The filling itself is one step because it touches only what its
thread owns.

### ImageRolling

A request takes a staging set and then plans its turn on a slot, which has one
stream and one turn at a time (`TakeSet`, `PlanTurn`, `Enter`; `RollTurn` of
`image_filter.cpp`); `After` is the order of its stages, which keeps the requests
that wait for a set from holding a ticket. A node has a slot per stream and, as
`plan_memory` counts them without a limit, a set per stream and two at least. A
job is a whole chunk, or a window for the legacy output;
it reads its staging set when it runs. `Drain` waits for the stream when
queueing throws, before the set is given back; `request.serial` tells one use of
a set from the next, so that `ImagesRight` notices a job that outlived its set.

### BlockMatch and MatchGrid

A key is an integer that sorts by distance, frame and raster position, as
`make_key`'s does; the largest distance stands for every one that is not finite.
Each
container and each merge is its own operator, because each is code of its own:
`StableTopK`, `CachedWorstTopK` and `SortedTopK` of the CPU, `BlockTopK` with its
bitonic sort, `warp_select`, `radix_select`, the lanes of a warp with a ballot that
drops duplicates, the columns' queue, the windows' tiles, the tensor matcher's
bounds, the shader's lanes. `Spatial` searches the centre frame along every
method, `Layer` one frame of the temporal search along every path, and both are
compared with the definition: the k best distinct candidates in key order.
What a distance is computed from is left out: a frame is a function from
positions to distances, and `Roundings` gives the errors of the tensor matcher's
first, rounded, distances.

`MatchGrid` takes batches of any size, as the memory plan may choose, and gives for
each matcher the references its live threads write.

### Bm4dChunks

An actor is a request or a prefetch thread; `at` is its place in `getFrame`,
`compute_chunk` or `finish_chunk`. Every critical section of `mu` is one action.
A slot is held by the actor between `EnterSlot` and `Leave`, `device_mu` between
`Tiles` and `Download`; both are read off `at`. Buffers hold the chunk and plane
they were filled for, so that `ChunksRight` compares what a store was filled
with, not whether somebody filled it. With device frames a download is only
queued on the slot's stream (`queued`) and the device runs it when it likes
(`Copy`), unless `Upload` or `Leave` waits for that stream; this is where finding
4 comes from, and why `ChunksRight` looks into host stores only. `ComputeThrows`
is any failing call of `compute_chunk`, `LaunchFails` a thread that does not start,
`CollectThrows` the failure that loses a claim (finding 3), after which
`RequestsGoOn` claims nothing.

## Runs

The bounds on requests (`Requests`, `Budget`, `WeightBudget`, `PoolBudget`, `turns`)
only end a behaviour; the code has no such counter. `CHECK_DEADLOCK FALSE` is set
where a behaviour ends because of them: circular waits are then covered by a
property (`SomeoneRuns`, `SomeoneGoesOn`, `TurnsGoOn`, `RequestsGoOn`, `SleepersAwaited`, `QueuesDrain`,
`PoolTakesTurns`). In the runs of `ChunkCache` and `RollingDriver` deadlock is
checked by TLC: `Clear` stays possible at the end, and only there.

| Run | Instance | Shows |
|---|---|---|
| `chunk_cache` | 3 threads, 3 chunks, 5 blocks, cache of 1 growing to 2, 5 requests | `SingleFlight`, `HitsStayCached`, `FilledAlone`, `OverSizeOnlyWaiting`, `StoresAccounted`, `WakerAhead` |
| `rolling` | 3 threads, 2 chunks, cache of 1 that cannot grow, 1 staging set, 1 permit, 4 requests | `ResourcesHeld`, `RequestsServed` |
| `chunks` | planes: 8 kinds of node: radius 1 and 2, clips of 2 to 6 frames, chunks of 1 to 3, one and two stages, guide, batched and single downloads, 2 or 3 chunks in any order. Matchers: planes of 4 by 2 positions, 3 distances, 3 frames, 5 shapes of search; grids of 4 to 9 by 4 to 7 pixels, steps 1 to 4, every split into batches. BM4D: 2 threads, 1 prefetch thread, 3 chunks of one plane on the host or 2 of two on the device, cache of 1, a permit of each kind, 3 requests | `FramesRight`, `PlanAgrees`, `ReadersWait`; `SpatialListsAgree`, `SearchesAgree`, `ReferencesOnce`; `ClipChunksRight`, `RequestsGoOn` |
| `roll_unfiltered` | two stages of which the first leaves the plane alone | violation, see Findings |
| `carry` | turns: 3 threads, 2 slots, 2 planes (one state, or one each), 3 chunks, 3 computations. Weights: 3 threads, 3 frames, 2 sets, 3 requests | `CarriesOnFromPrevious`, `TurnsKept`, `SomeoneRuns`; `WeightsKept`, `SetsHoldWhatTheySay` |
| `vulkan` | rolling: 3 threads, 4 kinds of node with radius 1 and 2, chunks of 1 and 2, one and two stages, 3 or 4 chunks. Windows: 3 threads, 5 frames, radius 1, 4 regions, 2 slots, 2 permits, 3 requests | `RingHoldsWindows`, `StoresWhole`, `RecordingAgrees`; `WindowsKept`; `SomeoneGoesOn` of both |
| `weights_partial` | 2 threads, 3 frames, 2 sets, 3 requests, submits that go through half | violation, see Findings |
| `rolling_filters` | CPU: 3 threads, 3 requests, 4 kinds of clip (chunks longer and shorter than a window, cut-short last chunk, clip shorter than a window). Images: 3 threads, 3 requests, 5 kinds of node: one slot and two staging sets (chunks shorter than a window and as long, a clip shorter than a window, the legacy output), three slots and three sets; a carry over two pending turns is refused | `CentersComplete`, `StoresKept`, `SleepersAwaited`; `ImagesRight`, `TurnsGoOn` |
| `vk_slots` | frames: 2 threads, 2 slots, 2 requests on each of 4 queue layouts. Pool: 4 threads, 2 slots, 2 orders, 3 ways of use, 5 leases | `WorkUndisturbed`, `PublishedWritten`, `QueuesDrain`; `PoolTakesTurns` |
| `memory` | a limit of 6 and sizes modulo 16; 2 threads, with an output and 2 inputs or with 2 buffers (padding 0 or 1, a device that may be poisoned and leak 3 bytes). Locks: 2 threads, 2 blocks, 2 devices, 3 instances (two on one device), cap 2 | `Reckoned`, `ChargesCoverMemory`, `AccountsWellUsed`; `LocksKept` |
| `bm4d_claim`, `bm4d_download` | 2 threads, 1 prefetch thread, 2 or 3 chunks, the code's cache of 2 and 2 compute permits, 3 or 4 requests | violations, see Findings |

Why the bounds are enough for the interesting cases: with three threads one can
compute, one wait for it and one evict or read; with a cache of one chunk every
publish has to evict, and with a cap of two the growth (two misses on dropped
chunks) happens within five requests. Four regions are one more than a window, so
two windows overlap and compete. Clips shorter than a window and chunks shorter
than the radius are where the resumption points of `walk_chunk` differ from the
general case. Three chunks in a row on two lanes are the first that reuse a lane
and the ring. Two frames of 8 overflow a sum modulo 16, and a buffer of 12 on top
of 4 owned bytes wraps; with 3 bytes leaked the other buffer is still in use. The
users of the accounts meet only in the budget, so that frames and buffers each
compete with the scratch and the chunks, in behaviours of their own; the theorems
are about all of them at once. Three threads on one slot queue two turns behind a
third, which is what a wait for a turn, a failure that a queued follower has to
hear of, and an unwinding out of turn take; two sets for three threads make one
wait for a set. `kCarryBacklog` is 3 in the code and 2 in `rolling_filters`: a
planner there meets at most two tickets, and with 2 a carry is both granted (one
pending turn) and refused (two); `carry` has 3. In `vulkan` the first kind of
node has a clip longer than the ring of source frames, so that uploads replace
frames that chunks have read. Distances matter only by their order, so that four
values (the largest not finite) give ties, a best and a worst one; windows that
overlap in one position give a duplicate. In BM4D a cache of one chunk makes every
publish evict, one prefetch thread and two requests are the three actors that two
slots, the order of tiles and one permit can set against each other, and two
planes make a chunk wait for its order twice. Threads, blocks, buffers and
inputs are interchangeable in the code, so they are symmetry sets (not in the runs
whose temporal property depends on fairness: `rolling` and `vk_slots`; in
`memory` the property is an action property that treats them alike).

What the properties mean:

* `FramesRight` (`RollPlane`), `StoresWhole` (`VkRolling`), `CentersComplete`
  (`CpuRolling`), `ImagesRight` (`ImageRolling`): rolling output is what the direct
  definition gives, each frame from all centers of its window, once, whatever was
  carried, dropped or failed before.
* `PlanAgrees`, `RecordingAgrees`: the `std::logic_error` "rolling plan and device
  state disagree" is unreachable, although plans are made before the chunks ahead
  have run.
* `ResourcesHeld`: the memory plan's count of chunk stores (cache plus one per
  staging set) holds, up to readers inside `~Chunk`, and requests hold in each wait
  only what nobody they wait for needs, which is why `RequestsServed` holds.
* `WakerAhead`, `SleepersAwaited`: no lost wakeup, although `notify_all` comes
  after the unlock.
* `CarriesOnFromPrevious`, `ImagesRight`, `TurnsGoOn`: `chain` and `failed_chain` fail
  the chunks that were to carry on from a failed one (else a result would be wrong,
  the first two) and no chunk that starts afresh (the third, which also says that
  turns, sets and slots never wait for each other in a circle).
* `ChargesCoverMemory`: charges and memory agree but for the gaps it lists: a growing
  workspace is charged for both buffers, one frame of a request may be there
  uncharged, padding is charged after the allocation, and what a poisoned device
  leaks is charged to nobody. `declared` is the sum of what the buffers declared,
  although `Device::reserve` clamps each update at 0.
* `ClipChunksRight` (`Bm4dChunks`): one actor computes a chunk, a hit keeps its entry,
  what is cached or copied out is the chunk that was asked for, every plane of it,
  though slots, the output buffer and spare stores are used again meanwhile, and
  stores are at most the cache's, the prefetch threads' and the permits'.
* `RequestsGoOn`: a sleeper has somebody who computes its chunk or runs before it,
  and while anybody is at work somebody can take a step.
* `WorkUndisturbed`: what the device has not finished keeps its frames, its command
  buffers and the node's objects, after failed submits and timed-out waits too.
* `PublishedWritten`: a reader of a published plane that waits for its pair comes
  after the copy.
* `LocksKept`: memory that is given back is not locked, the cap holds, a transfer's
  block is locked until it is over, and the last instance leaves nothing behind.

### Fairness

* `RequestsServed`: `WF(RequestStep(t))` for each thread. VapourSynth's worker
  threads keep running, the device's work and copies end, and every blocking call
  of a request is one of the modelled waits. Weak fairness for a thread's steps is
  enough with the counted staging sets and permits because in this instance a
  behaviour has finitely many requests.
* `QueuesDrain`: `WF` of a thread's own steps and of each queue's next batch: the
  device runs what it was given when its semaphore is reached.
* `PoolTakesTurns`: `WF` of a thread's steps in the pool, of which giving the slot
  back is one (a frame ends). The abstract fairness follows from it.

No fairness is assumed for failures, spurious wakeups or new requests. The
other properties are safety properties.

## Proofs

TLAPS proves the following for every value of the constants that satisfies the
assumptions named below. A theorem that states a property of a run cites the
same definition that the run checks.

| Theorem | Statement | Run |
|---|---|---|
| `ChunkCacheProofs` `CacheInvariant` | `Spec => []IInv` | |
| `CacheTypes`, `CacheSingleFlight`, `CacheKeepsHits`, `CacheFillsAlone` | `Spec => []TypeOK`, `SingleFlight`, `HitsStayCached`, `FilledAlone` | `chunk_cache` |
| `CacheOverSize`, `CacheStoresAccounted` | `Spec => []OverSizeOnlyWaiting`, `[]StoresAccounted` | `chunk_cache` |
| `CacheWakes` | `Spec => []WakerAhead` | `chunk_cache` |
| `ChunkCacheProofs` `ResourcesHold` | `DSpec => []ResourcesHeld` | `rolling` |
| `RollTurnsProofs` `TurnsKeptHolds` | `Spec => []TurnsKept` | `carry` |
| `RollChainProofs` `CarriesOnHolds` | `Spec => []CarriesOnFromPrevious` | `carry` |
| `RollChainProofs` `SomeoneRunsHolds` | `Spec => []SomeoneRuns` (`RollTurns`) | `carry` |
| `VulkanProofs` `WindowsKeptHolds` | `WindowSpec => []WindowsKept` | `vulkan` |
| `VulkanProofs` `SomeoneRunsHolds`, `SomeoneMovesHolds` | `WindowSpec => []SomeoneRuns` (`WindowCache`), `Spec => []SomeoneMoves` (`VkRolling`) | (the halves of `SomeoneGoesOn`) |
| `VulkanProofs` `SomeoneGoesOnHolds` | `MCSpec => []SomeoneGoesOn` | `vulkan` |
| `CarryProofs` `SetsSayHolds` | `WeightSpec => []SetsHoldWhatTheySay` | `carry` |
| `CarryProofs` `WeightsKeptHolds` | `WeightSpec => []WeightsKept` | `carry` |
| `CarryProofs` `StoresKeptHolds` | `Spec => []StoresKept` (`CpuRolling`) | `rolling_filters` |
| `CarryProofs` `SleepersAwaitedHolds` | `Spec => []SleepersAwaited` (`CpuRolling`) | `rolling_filters` |
| `MemoryProofs` `LocksKeptHolds` | `LockSpec => []LocksKept` | `memory` |
| `MemoryProofs` `AccountsWellUsedHolds` | `Spec => AccountsWellUsed`, a refinement | `memory` |
| `MemoryProofs` `ReckonedHolds`, `ChargesCoverHolds` | `Spec => []Reckoned`, `[]ChargesCoverMemory` | `memory` |
| `MemoryProofs` `ClipInvHolds`, `ClipChunksHold`, `RequestsGoOnHolds` | `ClipSpec => []ClipInv`, `[]ClipChunksRight`, `[]RequestsGoOn` | `chunks` |
| `SlotProofs` `WorkUndisturbedHolds`, `PublishedWrittenHolds` | `Spec => []WorkUndisturbed`, `[]PublishedWritten` (`VkSlot`) | `vk_slots` |
| `SlotProofs` `TurnsImplemented` | `Pool!Spec` implies the initial condition and the steps of `SlotTurns` | (`PoolTakesTurns` adds its fairness) |
| `SlotProofs` `SlotsOnceHolds` | `Pool!Spec => []SlotsOnce` (`SlotPool`) | |

The assumptions are on constants only. `ChunkCache` and `RollingDriver` declare theirs
(`SizesAssumption`: the size is at least 1 and at most the cap; `NoneAssumption`;
`ThreadsAssumption`: finitely many threads; `StartsAssumption`;
`DriverAssumption`: a chunk and the number of staging sets are at least 1), and so does
`MemoryBudget` (`BudgetAssumption`: finitely many accounts, a limit of at most
`SizeMax`), `VkSlot` (`VkSlotAssumption`: the slots are 1 to their number, a frame records
some of the three stages) and `CpuRolling` (`CpuAssumption`: a node's radius, length, chunk and cache
limit are at least 1). The other modules name theirs as an operator (`TurnsAssumption`,
`WindowAssumption`, `WeightAssumption`, `MemoryAssumption`, `PoolAssumption`: finite sets of
slots, sets and blocks, numbered from 1 where the code indexes them;
`AccountsAssumption`: the accounts are those of the users, finitely many, an output is
not an input, and sizes are natural numbers; `Bm4dAssumption`: finitely many callers and
prefetch threads, limits of at least 1, and names for as many stores as the memory plan
counts, which is what an allocation needs to find one), which is a hypothesis of each theorem; the modules of the runs
`ASSUME` it, so TLC evaluates it on each instance. `Budget` and the like are
arbitrary numbers there: the theorems hold for behaviours of any length.

### The inductive invariants

* **Chunk cache.** `IInv` is `TypeOK`, `SingleFlight`, `HitsStayCached`, `FilledAlone`
  and `StoreAtPlace` (the cached blocks are finitely many, and a request refers to a
  store exactly at the places where the code has one). None of the middle three is
  inductive alone: that a block being filled is not cached needs the places, that a
  hit's chunk is not evicted needs the reader counts to be exact, and exactness needs
  that a published block is nobody else's. The argument goes action by action, one
  lemma each, over lemmas about the four list operations (splice, push_front,
  `--readers`, erase). `CacheOverSize` is a second induction on top of `IInv`, and
  `CacheStoresAccounted` a cardinality argument from both.
* **No lost wakeup.** `Wakes` adds `Placed` (every entry has a place of its own in the
  list). The step that matters is the eviction loop: it drops every unread chunk but
  the first, so that when it sleeps, still over size, a chunk it kept has a reader
  (`ReaderLeft`), and `HitsStayCached` gives the request that reads it, which has its
  `notify_all` to come. A `notify_all` after the unlock is no loss because everybody
  who fell asleep in between sleeps behind an `evict` or `notify` place, which the
  invariant counts as a waker.
* **Rolling request.** Every step of `RollingDriver` is a step of `ChunkCache` or leaves the
  cache alone (`DriverIsCache`), so the cache's theorems hold of it; `DInv` adds where
  in the cache a request can be at each place outside, and who has a staging set and
  a permit there.
* **Turns.** `IInv` of `RollTurnsProofs` is `TypeOK`, `TurnsAtSteps` (which turns a thread
  has at each of its steps), `Tickets` (the queue of a state holds exactly the turns
  that wait there, each once) and `SlotsKept` (a slot in use is one thread's, the head of
  its queue). Planning a group takes several tickets in a fold under one lock, which
  is why `FoldLemmas` and an induction over the planes in the order of the fold are
  needed.
* **Chains.** `CInv` reads a state's queue as a linked list: each ticket's chain and
  carry flag are determined by the ticket before it or, for the first, by the state
  (`Linked`), and what the buffers hold is what the first live ticket of a chain
  expects unless the chain is marked failed (`Ready`). `CarriesOnFromPrevious` looks at
  one thread inside its slot, but it is inductive only together with what all the
  tickets behind it were planned for.
* **Somebody at turn.** `OInv` says that there is one ranking of the threads in whose
  order every queue of tickets stands (`OneOrder`): the order of planning, since all
  tickets of a group are taken under one lock, and a thread whose tickets are served
  leaves it. With `EnteredFirst` (who has entered a turn has none before it) the user
  of a slot in use can go on, and when no slot is in use the waiting thread of the least
  rank stands behind no one. The ranking is a quantified function, not a variable: the
  code has no such number.
* **Windows.** `IInv` of `VulkanProofs` is `TypeOK`, `WindowsHeld`, `PinsKept`,
  `FramesHeld`, `FrameOnce`, `OneUploader`, `QueuedInTime`, `Filled` and `StagesKept`. A pinned
  region keeps its frame until the request that was to upload it gives up, and then no
  request is behind `wait_queued` with it. A queued region has its frame, or the upload
  stage that brings it is on the device and among the region's `ready` stages, which every
  compute stage behind `wait_queued` waits for. The pins are counted per region
  (`PinsKept`), so that "no pins" means "nobody's window" where a region is given to
  another frame.
* **No circle of windows.** `RInv` adds to it two rankings of the requests, one on the
  device and one of the uploads. A region is marked only with stages whose request has
  submitted its last (`StagesMarked`), so that a submit may put its stages behind all
  others (`DeviceOrder`); a window is pinned at once, so that what it waits for is uploaded
  by a window pinned before (`UploadOrder`), and a frame given up has failed, which wakes
  its waiters (`InFlight`). When nobody can run, the least rank on the device shows that no
  stage is left, then nobody holds a slot or a permit, then the least rank of the
  uploads shows that nobody waits for one, and what remains is requests without pins,
  for whose windows the regions suffice by counting (`UnpinnedFits`, the only place
  where `2 * Radius + 1` regions are needed).
* **No circle of rolling chunks on Vulkan.** `RollInv` of `VulkanProofs` is `RollTyped`,
  `TicketsHeld` (who has not left has a ticket, and who records is first in the queue),
  `LanesHeld` (a slot that records and a lane in use are somebody's) and `JobsHeld` (a
  submission waits for an earlier one, and is one thread's until it is over); with it goes
  `QueueHeld`, that a thread has one ticket and only until it has left. The argument
  follows the waits backwards. The first submission whose kernels are not over has
  nothing to wait for, so the device can go on, unless its kernels were never submitted,
  and then its thread settles it (`DeviceGoesOn`). With no such submission a thread that
  waits for the device can go on. With no thread recording, leaving or waiting both
  lanes are free, and the head of the queue, which has not left, may enter or unwind.
* **Weight maps.** `IInv` says for every failure that a set with a frame names the job that
  saves it, and that no later job writes it (`Known`, `Taken`, `Submissions`, `Saying`).
  While no request fails between its stages, `Whole` adds the order of the device:
  two jobs that touch a set, one of them writing, are ordered by what they wait for
  (`Ordered`, `Followed`), the newest are the ones the set is marked with (`Marked`,
  `Leased`), and the content is the last finished save (`Left`). The theorem
  needs the hypothesis `"partial" \notin faults` in `WInv` exactly where finding 2 shows the
  property to fail, as `WeightsKept` states it itself.
* **CPU rolling.** `CpuInv` is `CpuTyped`, `ComputersKept` (`computing` is exactly the
  chunks of the threads that compute, one thread each), `FillersKept` (a chunk that is
  being filled is not cached, and its store is one thread's) and `StoresKept`, which is not
  inductive alone: publishing puts a thread's store into the cache, and only the
  first two say that nobody else has that store and that the chunk is not there
  already. What a hit's move to the front and the cut at the cache's length leave of the
  cache is in two lemmas of their own (`MovedToFront`, `CutBehind`). `SleepersAwaited`, that a
  request which sleeps for a chunk sleeps while somebody computes it or before a
  `notify_all` that is still to come, is a second induction on top of the types.
* **Frame memory.** `IInv` is `TypeOK`, `TransfersHold`, `HookKept`, `EntriesKept`,
  `LockersKnown`, `LocksExact`, `DirectEntry` and `CapHolds`: a lock the backend has is
  an entry `Locked` or one that a thread between the two halves of `pinned()` has
  reserved (`Unentered`), and the bytes counted are those of the entries `Locking` and
  `Locked`. Neither half's step keeps `LocksKept` without saying what the other half
  of another thread has in hand.
* **Memory accounts.** `UsersInv` says what each account is charged, from where its
  users are: the scratch account is the sum over the threads of a thread's buffer and
  of the one that is to replace it, between the charge and the swap (`ScratchKept`); the
  frames' accounts are the sums of the frames charged or held, and one frame at most is
  in a call (`FramesKept`); a buffer's two accounts and the bytes declared to
  VapourSynth follow its steps (`BuffersKept`, `DeclaredKept`), and so does a chunk's
  (`ChunkKept`); only a poisoned device leaks (`LostKept`). With it each release gives back no
  more than its account has, which is all that `BudgetSpec` asks of its users, so that
  every step is one of the budget's: the refinement. `ChargesCoverMemory` follows from
  the same sums. `Reckoned` is proved of `BudgetSpec` alone, where it is inductive with the
  types: a re-tag moves bytes from one kind's total to another's without looking for
  overflow, and does not wrap because both are parts of `owned`, which the limit bounds.
  The refinement carries it over to the users.
* **BM4D's chunks.** `ClipInv` (`Bm4dInvariant`) has ten parts. A chunk in work is claimed
  and has one actor (`ClaimsKept`), a cached one is not claimed (`CacheKept`): together the
  single flight. A store that is being filled has one holder, and what is spare nobody
  holds (`HoldsKept`); without it a download could change what another copies out. The
  reader count of an entry is the number of requests that hit it (`HitsKept`), so that the
  eviction loop, which takes entries without readers, leaves a hit's. A slot and the
  device have one user each (`SlotsKept`), which with the chunk and plane a buffer was
  filled for (`DataKept`) makes every downloaded plane the right one. Permits and
  prefetch threads are counted (`PermitsKept`, `ReservedKept`). The bound on the stores
  (`RoomKept`) is the delicate part, since a cache over its limit, the evictions under way
  and the stores in work add up: the cached stores and those that an actor in the
  eviction loop holds are at most the limit and one per such actor, and an actor that
  takes a store has neither. `RequestsGoOn` follows from
  `ClipInv` alone, by peeling (`GoingOn`): if all are blocked nobody has the device, then the
  smallest chunk in a slot waits for nobody, so no slot is taken, nobody copies, no entry is
  read, evictions end, permits and prefetch threads are free, and the claim a sleeper
  waits for has an actor, which is none of these. One lemma per action keeps `ClipInv`;
  `ListsStay`, `SlotsStay` and `DataStays` do the parts that an action leaves alone.
* **Vulkan slots.** `FrameInv` is about what a batch in a queue needs (`BatchKept`): its
  value is above its slot's timeline and at most the slot's last value, its slot retains
  its request's frames, is not idle, and is recording only while the thread that sent the
  batch is still in that `submit()`. Inductive it is only with the rest: each value of a
  slot's timeline is one batch's (`Once`), or the batch that ends could leave another of
  its value behind; a slot is free once or leased by one request (`LeasesKept`); each
  point of a request says what its slot is in (`Leaves`, of which the `defer` half gives
  that a slot on VapourSynth's device has nothing left to record when it publishes); a
  slot that is being recorded or waited for is somebody's, and a broken one's device is
  poisoned (`SlotsKept`), which is why `End` destroys nothing that is in use. A wait that
  is done, an idle slot and a recording one of which nothing was sent have no batch in a
  queue (`QuietSlot`): the three cases in which a slot is reset. One lemma says what a
  step of a thread on its own slot has to show to keep all of it (`ServedKeeps`), and each
  action but four is an instance of it.
* **Slot pool.** A slot is free once or leased by one thread; under the mapping of
  `SlotPool` (`waiting` is what is asked, `slot` what was granted) an `acquire` that
  sleeps is `Ask`, one that finds a slot `AskAndGet`, the end of the wait `Grant`, and
  `give_back` is `Return`; going back to sleep, the wake-ups, early ones too, and the
  notifications are stutters.

TLC checked each of these invariants on the instance of its run before it was proved.

### What is not proved

`RequestsServed`, `QueuesDrain` and the liveness half of `PoolTakesTurns`: liveness and
`ENABLED` are out of this prover's reach. Of the properties that say somebody can
take a step, which are state predicates, only `TurnsGoOn` (`ImageRolling`) is
model-checked only. What the folds of `RollPlane`, `VkRolling`, `CpuRolling` and `BlockMatch` compute
(`FramesRight`, `StoresWhole`, `CentersComplete`, `SearchesAgree` and the like) is an
induction over data that the prover's induction theorems do not reach, since they
take an operator as a parameter. Where a set of indices is enough to induct over,
`FoldLemmas` states induction with a set in that place (`NaturalsInSet`, `Smallest`),
which is how the plans of a group and the sums over a table were done.
`ImageRolling` is model-checked only, and so are `ChunkCache`'s and
`RollingDriver`'s liveness.

## Findings

1. **`roll_unfiltered`** (code). `basic_center` returns before `point()` for a plane
   that the first of two stages leaves alone, so that nothing orders
   `basic_frame`'s copy of the source (on the kernels' stream) behind the upload
   of that source (on the upload stream): `group_driver.cpp:1463`, `:1489`
   against the comment at `:76`. The second stage may get a wrong guide. It takes
   `BM3D(final=1)` with rolling output, `sigma[p] != 0` and `sigma_basic[p] = 0`
   on separate planes; the tests try the two arguments separately. In the Vulkan
   driver one command stream with barriers orders the two.
2. **`weights_partial`** (code). `~WeightLease` takes a lease that was not marked
   `submitted()` for one that wrote nothing (`vulkan/nlm/filter.cpp:184`), but
   `Slot::submit` sends the compute stage before the download stage
   (`slot.cpp:246`): when the second send throws, the first runs all the same. The
   set it writes is free again with its old `written` and `read`, and a frame that
   takes it in the meantime does not wait: two dispatches write one set, or one
   writes what another reads. It takes a failing `vkQueueSubmit2` between the
   two stages and another request at that moment.

3. **`bm4d_claim`** (code). A BM4D request claims the next chunk (`filter.cpp:374` of
   `cuda/bm4d`) and collects its frames (`:382`) before the `try` around the start of
   the prefetch thread (`:399`). When collecting throws, the request reports an
   error, but the chunk stays in `computing` and the prefetch thread reserved: a
   later request for that chunk sleeps for ever. It takes a device frame that
   cannot be imported, or memory that runs out, at that moment.
4. **`bm4d_download`** (code). With device frames the download of a chunk is only
   queued on its slot's stream when `device_mu` is let go (`:325`), and the tiles of
   a smaller chunk, which need not wait for larger ones, may overwrite `outputs`
   before the copies have run, against the comment at `:72`. It takes a seek
   backwards while a later chunk is computed, and a device slow enough with the
   copies.

Remarks that are no findings of a run:

* BM4D's memory plan counts at most as many stores as the clip has chunks
  (`cuda/bm4d/filter.cpp:557`, `:563`). On a clip of three chunks a chunk that is
  dropped while the request that computed it still copies its frame out can be
  computed again, into a fourth store. `ClipChunksRight` states the bound without
  the clip's chunks, which holds.
* "No chunk it drops lives on in a reader" (`chunk_cache.hpp:174`) does not hold
  between `release()` and the end of `~Chunk`. Nothing reads the block then;
  `StoresAccounted` states the bound that does hold.
* `wait_for_previous` also returns for a chunk whose predecessor was planned in an
  earlier computation and is being computed again (`planned_` still has its start).
  The chunk then starts afresh: slower, not wrong, and the properties of `rolling`
  hold with it.

* A poisoned device leaks the buffers that are reset and gives their charges and
  their declaration back (`memory.cpp:168`, `:170`, `:176`): the memory stays and the
  budget does not see it. That is by design (`context.cpp:138`: it "leaks everything
  freed on it", and the next filter gets a fresh device), but a `memory_limit_mb` then
  bounds less than what the process has.

## Not modelled

* The interplay of the two halves of a composed run, where there is one: a slot
  that breaks (`VkSlot`) within a request of the window cache, and of `RollTurns`'
  several slots with `VkRolling`'s lanes (the turns are the same code line by line
  on both backends).
* Device frames (VapourSynth R80) and their import; device and instance creation,
  probing, pipelines, timers.
* The spatial and legacy outputs of the group drivers, which keep nothing between
  frames; the choice of a layout under a memory limit; the rounds of MCWNNM and
  NCSR within a center (they use buffers of their own slot).
* Channels of a joint unit: they take every step together with their plane.
* The CUDA NLM and PNLM filters: the protocol of the Vulkan ones on CUDA events.
* The CPU's BM4D chunk cache: `CpuRolling`'s single flight without a carry.
* Of CUDA's BM4D: planes with `sigma` 0, copied beside the tiles (a node on which all
  planes have it creates no slot streams, which `compute_chunk` still dereferences,
  `filter.cpp:239`, `:594`), page-locked sources, device output frames, `freeFilter`.
* How distances, transforms, shrinkage and aggregation are computed, on every
  backend: floating-point code is most of this repository, and outside what a model
  checker can say something about.
* `std::bad_alloc` in a container's node, which the code does not handle.
* Builds of the CPU filter without `NSS_BM_RING`, and nodes that filter no plane.
* Time: a timed wait may end at any moment.

## Plan

Done: every module of the table above; proofs for `ChunkCache`, `RollingDriver`,
`RollTurns`, `WindowCache`, `VkRolling`, `VkSlot`, `WeightCache`, `FrameMemory`,
`MemoryBudget`, `MemoryAccounts`, `CpuRolling` and `Bm4dChunks`, and the refinement of `SlotTurns` by
`SlotPool`.

Left to the runs, in the order in which they would be worth a proof:

1. `ImageRolling`: `TurnsGoOn`, with the argument of `RollTurns`, and `ImagesRight`.
