--------------------------- MODULE RollingDriver ---------------------------
(***************************************************************************)
(* A frame request of a rolling GPU node (getFrame, rolling_chunk and      *)
(* compute_chunk of src/cuda/common/group_driver.cpp) around the chunk     *)
(* cache: the order of plans (PlanOrder), the staging sets and the output  *)
(* permits.  The request's steps in the cache are those of ChunkCache.     *)
(* Slots and their tickets (RollTurn) are modelled in RollTurns; here the  *)
(* queueing and the device's work are one step that ends or throws.        *)
(***************************************************************************)
EXTENDS ChunkCache

CONSTANTS Chunk,         \* rolling_chunk: starts are its multiples
          StagingSets,   \* staging_sets, also the number of output permits
          PlanWindow     \* chunks PlanOrder remembers (64 in the code)

ASSUME DriverAssumption == /\ Chunk \in Nat \ {0}
                           /\ StagingSets \in Nat \ {0}
                           /\ PlanWindow \in Nat
                           /\ Starts \subseteq Nat

VARIABLES at,        \* where each request is outside the cache
          staging,   \* requests that hold a staging set
          permits,   \* requests that hold an output permit
          planned    \* PlanOrder::planned_

driverVars == <<at, staging, permits, planned>>
vars == <<cacheVars, driverVars>>

(***************************************************************************)
(*   out      no request, or in the cache's lookup                         *)
(*   order    wait_for_previous                                            *)
(*   staging  staging->acquire()                                           *)
(*   store    make_store                                                   *)
(*   plan     the planes take their tickets                                *)
(*   device   the chunk is staged, queued and waited for                   *)
(*   permit   outputs->acquire(), once get() has returned                  *)
(*   copy     the frame is copied out                                      *)
(*   leave    the destructors of getFrame's locals, last first             *)
(***************************************************************************)

DInit == /\ Init
         /\ at = [t \in Threads |-> "out"]
         /\ staging = {}
         /\ permits = {}
         /\ planned = {}

At(t, place) == at[t] = place
Goto(t, place) == at' = [at EXCEPT ![t] = place]

-----------------------------------------------------------------------------
\* arAllFramesReady of a frame in the chunk at start.
Request(t, start) ==
    /\ At(t, "out") /\ Ask(t, start)
    /\ UNCHANGED driverVars

\* get() finds the chunk.
TakeHit(t) ==
    /\ Hit(t) /\ Goto(t, "permit")
    /\ UNCHANGED <<staging, permits, planned>>

WaitForOther(t) == WaitForComputing(t) /\ UNCHANGED driverVars

\* get() calls compute_chunk.
StartCompute(t) ==
    /\ Miss(t) /\ Goto(t, "order")
    /\ UNCHANGED <<staging, permits, planned>>

\* wait_for_previous waits on: the chunk before this one is not planned, and
\* it is being computed.  While it is not being computed the wait lasts kWait
\* (5 ms), which may be over at any time.
MustWait(start) ==
    /\ start >= Chunk
    /\ start - Chunk \notin planned
    /\ IsComputing(start - Chunk)

LeaveOrder(t) ==
    /\ At(t, "order") /\ ~MustWait(want[t])
    /\ Goto(t, "staging")
    /\ UNCHANGED <<cacheVars, staging, permits, planned>>

\* staging.emplace(d->staging->acquire()).
TakeStaging(t) ==
    /\ At(t, "staging") /\ Cardinality(staging) < StagingSets
    /\ staging' = staging \union {t}
    /\ Goto(t, "store")
    /\ UNCHANGED <<cacheVars, permits, planned>>

TakeStore(t) ==
    /\ At(t, "store") /\ MakeStore(t) /\ Goto(t, "plan")
    /\ UNCHANGED <<staging, permits, planned>>

\* The plans are made: order.planned(start).
Plan(t) ==
    /\ At(t, "plan")
    /\ planned' = {s \in planned \union {want[t]} : s >= want[t] - PlanWindow * Chunk}
    /\ Goto(t, "device")
    /\ UNCHANGED <<cacheVars, staging, permits>>

\* Mutant: the staging set goes back as soon as the chunk is computed.
FinishComputeUnstaged(t) ==
    /\ At(t, "device") /\ Publish(t) /\ Goto(t, "permit")
    /\ staging' = staging \ {t}
    /\ UNCHANGED <<permits, planned>>

\* compute_chunk returns; get() publishes the chunk.
FinishCompute(t) ==
    /\ At(t, "device") /\ Publish(t) /\ Goto(t, "permit")
    /\ UNCHANGED <<staging, permits, planned>>

KeepEvicting(t) == EvictAgain(t) /\ UNCHANGED driverVars

\* compute_chunk throws: no memory for the store, no plan, a device error.
FailCompute(t) ==
    /\ at[t] \in {"store", "plan", "device"} /\ ComputeThrows(t)
    /\ Goto(t, "leave")
    /\ UNCHANGED <<staging, permits, planned>>

RethrowFailure(t) == Rethrow(t) /\ UNCHANGED driverVars

\* auto permit = d->outputs->acquire().
TakePermit(t) ==
    /\ At(t, "permit") /\ pc[t] \in {"hit", "own"}
    /\ Cardinality(permits) < StagingSets
    /\ permits' = permits \union {t}
    /\ Goto(t, "copy")
    /\ UNCHANGED <<cacheVars, staging, planned>>

\* The frame is copied out, or something on the way throws: ~permit first.
CopyOut(t) ==
    /\ At(t, "copy")
    /\ permits' = permits \ {t}
    /\ Goto(t, "leave")
    /\ UNCHANGED <<cacheVars, staging, planned>>

\* ~chunk.
LeaveChunk(t) ==
    /\ At(t, "leave") /\ (Release(t) \/ ReleaseNotify(t) \/ DropStore(t))
    /\ UNCHANGED driverVars

\* ~staging, the first of the locals and so the last to go.
EndRequest(t) ==
    /\ At(t, "leave") /\ pc[t] = "idle"
    /\ staging' = staging \ {t}
    /\ Goto(t, "out")
    /\ UNCHANGED <<cacheVars, permits, planned>>

WakeSpuriously(t) == SpuriousWake(t) /\ UNCHANGED driverVars

\* freeFilter.
FreeFilter ==
    /\ \A t \in Threads : At(t, "out")
    /\ Clear
    /\ UNCHANGED driverVars

RequestStep(t) ==
    \/ TakeHit(t) \/ WaitForOther(t) \/ StartCompute(t) \/ LeaveOrder(t)
    \/ TakeStaging(t) \/ TakeStore(t) \/ Plan(t) \/ FinishCompute(t) \/ KeepEvicting(t)
    \/ RethrowFailure(t) \/ TakePermit(t) \/ CopyOut(t) \/ LeaveChunk(t) \/ EndRequest(t)

DNext == \/ \E t \in Threads : \/ \E start \in Starts : Request(t, start)
                               \/ RequestStep(t)
                               \/ FailCompute(t)
                               \/ WakeSpuriously(t)
         \/ FreeFilter

DSpec == DInit /\ [][DNext]_vars

\* Every thread that is not blocked runs on.
DFairness == \A t \in Threads : WF_vars(RequestStep(t))
FairDSpec == DSpec /\ DFairness

-----------------------------------------------------------------------------
\* "keeps its staging set until its frame is out: the plan counts a chunk
\* store per set" (group_driver.cpp:162): a request refers to a store that is
\* not the cache's only while it has a staging set or is leaving ~Chunk, so
\* the stores in use are the cache's, one per staging set, and those of
\* readers between release() and the end of ~Chunk.
StoresWithinPlan ==
    /\ \A t \in Threads : pc[t] \in {"filling", "evict", "own"} => t \in staging
    /\ Cardinality(Referenced(cache, store)) <=
           CacheCap + StagingSets + Cardinality({t \in Threads : pc[t] \in {"notify", "unread"}})

\* What a request may hold while it waits, which keeps the waits free of
\* cycles: in wait_for_previous and for a staging set it holds nothing, for
\* a reader (evict) a staging set and no permit, for a permit its chunk; a
\* permit holder waits for nothing.
HoldsWhileWaiting ==
    \A t \in Threads :
        /\ at[t] \in {"out", "order", "staging"} => t \notin staging \union permits /\ store[t] = None
        /\ pc[t] = "evict" => t \in staging \ permits
        /\ t \in permits => pc[t] \in {"hit", "own"} /\ at[t] = "copy"

\* What requests hold of the node's resources, while they wait and at most:
\* the stores of the plan, and nothing another request waits for.
ResourcesHeld == StoresWithinPlan /\ HoldsWhileWaiting

\* Every frame request ends, whatever fails and whoever waits for whom.
RequestsServed == \A t \in Threads : pc[t] # "idle" ~> At(t, "out") /\ pc[t] = "idle"
=============================================================================
