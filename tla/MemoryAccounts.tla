--------------------------- MODULE MemoryAccounts ---------------------------
(***************************************************************************)
(* The users of a node's budget: the per-thread scratch of Workspace       *)
(* (host/workspace.cpp), the frames of a request's FrameScope              *)
(* (frontend/ownership.hpp), GPU buffers with their padding and their      *)
(* declaration to VapourSynth (vulkan/runtime/memory.cpp) and cached       *)
(* chunks, whose account follows them through the cache                    *)
(* (host/filter_bm3d.cpp).  Memory is counted when it is taken from and    *)
(* given back to the system, which no account sees.  The buffers are of    *)
(* plane size, with device memory of their own (kDedicatedBytes).          *)
(***************************************************************************)
EXTENDS MemoryBudget

CONSTANTS Threads,      \* threads that use one Workspace
          Floats,       \* sizes they ask for, 0 included
          MinBytes,     \* Workspace: max(64, bytes)
          Outputs,      \* output frames
          Inputs,       \* frames of the source
          FrameBytes,   \* frame -> its size
          Buffers,      \* device buffers
          BufferBytes,  \* sizes they are made with
          Paddings,     \* what the allocator may add
          ChunkBytes,   \* size of a cached chunk
          MostLeaked    \* bound on what a poisoned device leaks

Scratch == <<"scratch">>
Output == <<"outputs">>
Framework == <<"framework">>
Chunk == <<"chunk">>
Charge(b) == <<"charge", b>>
Padding(b) == <<"padding", b>>
TheAccounts == {Scratch, Output, Framework, Chunk} \cup {Charge(b) : b \in Buffers} \cup {Padding(b) : b \in Buffers}
TheFirstKind ==
    [a \in TheAccounts |-> CASE a = Output -> "Output" [] a = Framework -> "Framework"
                             [] a = Chunk -> "Inflight" [] OTHER -> "Workspace"]

\* What the constants have to be.
AccountsAssumption ==
    /\ Accounts = TheAccounts /\ FirstKind = TheFirstKind
    /\ IsFiniteSet(Threads) /\ IsFiniteSet(Outputs \cup Inputs) /\ IsFiniteSet(Buffers)
    /\ "none" \notin Threads /\ Outputs \cap Inputs = {}
    /\ MinBytes \in Nat /\ Floats \subseteq Nat
    /\ FrameBytes \in [Outputs \cup Inputs -> Nat]
    /\ BufferBytes \subseteq Nat /\ Paddings \subseteq Nat /\ ChunkBytes \in Nat /\ MostLeaked \in Nat

VARIABLES mu,         \* Workspace::mu_, held exclusively by a thread or None
          buf,        \* thread -> its Buf
          get,        \* thread -> its call of Workspace::get
          fresh,      \* thread -> bytes of the replacement it has allocated
          frame,      \* frame -> "none", "made" by VapourSynth, "charged", "held", "dropped"
          gpu,        \* buffer -> its Buffer object
          declared,   \* Device::reserved_
          chunk,      \* "none", "computed", "cached", "pinned", "freed"
          poisoned,   \* Device::poisoned_
          leaked      \* device memory given up for lost

lost == <<poisoned, leaked>>
users == <<mu, buf, get, fresh, frame, gpu, declared, chunk, lost>>
vars == <<budget, users>>

None == "none"
NoBuf == [p |-> FALSE, n |-> 0]
NoBuffer == [pc |-> "none", bytes |-> 0, padding |-> 0, paid |-> 0]

Init ==
    /\ BudgetInit
    /\ mu = None
    /\ buf = [t \in Threads |-> NoBuf]
    /\ get = [t \in Threads |-> [pc |-> "idle", floats |-> 0]]
    /\ fresh = [t \in Threads |-> 0]
    /\ frame = [f \in Outputs \cup Inputs |-> "none"]
    /\ gpu = [b \in Buffers |-> NoBuffer]
    /\ declared = 0
    /\ chunk = "none"
    /\ poisoned = FALSE /\ leaked = 0

-----------------------------------------------------------------------------
(* Workspace::get.                                                         *)

BufBytes(floats) == Max({MinBytes, floats})
Serves(t, floats) == buf[t].p /\ buf[t].n >= floats

\* The lookup under the shared lock; the buffer it finds is the thread's own.
Get(t, floats) ==
    /\ get[t].pc = "idle" /\ mu = None /\ ~Serves(t, floats)
    /\ get' = [get EXCEPT ![t] = [pc |-> "charge", floats |-> floats]]
    /\ mu' = t
    /\ UNCHANGED <<budget, buf, fresh, frame, gpu, declared, chunk, lost>>

ChargeScratch(t) ==
    /\ get[t].pc = "charge"
    /\ LET n == BufBytes(get[t].floats)
       IN  \/ /\ Acquire(Scratch, n)
              /\ get' = [get EXCEPT ![t].pc = "allocate"]
              /\ UNCHANGED mu
           \/ /\ Refuses(Scratch, n)
              /\ get' = [get EXCEPT ![t].pc = "idle"]
              /\ mu' = None
              /\ UNCHANGED budget
    /\ UNCHANGED <<buf, fresh, frame, gpu, declared, chunk, lost>>

AllocateScratch(t) ==
    /\ get[t].pc = "allocate"
    /\ fresh' = [fresh EXCEPT ![t] = BufBytes(get[t].floats)]
    /\ get' = [get EXCEPT ![t].pc = "swap"]
    /\ UNCHANGED <<budget, mu, buf, frame, gpu, declared, chunk, lost>>

\* posix_memalign fails: the charge is given back, the old buffer stays.
AllocateFails(t) ==
    /\ get[t].pc = "allocate"
    /\ Release(Scratch, BufBytes(get[t].floats))
    /\ get' = [get EXCEPT ![t].pc = "idle"]
    /\ mu' = None
    /\ UNCHANGED <<buf, fresh, frame, gpu, declared, chunk, lost>>

\* Mutant: the rounding to 64 bytes is forgotten when the old buffer is given back.
OldBytesUnrounded(t) == buf[t].n

OldBytes(t) == BufBytes(buf[t].n)

SwapScratch(t) ==
    /\ get[t].pc = "swap"
    /\ IF buf[t].p THEN Release(Scratch, OldBytes(t)) ELSE UNCHANGED budget
    /\ buf' = [buf EXCEPT ![t] = [p |-> TRUE, n |-> get[t].floats]]
    /\ fresh' = [fresh EXCEPT ![t] = 0]
    /\ get' = [get EXCEPT ![t].pc = "idle"]
    /\ mu' = None
    /\ UNCHANGED <<frame, gpu, declared, chunk, lost>>

\* ~Workspace: the node is freed when no request is under way.
FreeScratch(t) ==
    /\ \A u \in Threads : get[u].pc = "idle"
    /\ buf[t].p
    /\ Release(Scratch, OldBytes(t))
    /\ buf' = [buf EXCEPT ![t] = NoBuf]
    /\ UNCHANGED <<mu, get, fresh, frame, gpu, declared, chunk, lost>>

-----------------------------------------------------------------------------
(* FrameScope: hold() and its ways out.  A scope is one request's, whose   *)
(* calls come one after the other.                                         *)

FrameAccount(f) == IF f \in Outputs THEN Output ELSE Framework
InCall(f) == frame[f] \in {"made", "charged", "dropped"}
NoCall == \A f \in Outputs \cup Inputs : ~InCall(f)

\* VapourSynth has made the frame, or hands it over, before hold() sees it.
MakeFrame(f) ==
    /\ frame[f] = "none" /\ NoCall
    /\ frame' = [frame EXCEPT ![f] = "made"]
    /\ UNCHANGED <<budget, mu, buf, get, fresh, gpu, declared, chunk, lost>>

\* The frame's size overflows, or the account refuses it: hold() frees it.
ChargeFrame(f) ==
    /\ frame[f] = "made"
    /\ \/ /\ Acquire(FrameAccount(f), FrameBytes[f])
          /\ frame' = [frame EXCEPT ![f] = "charged"]
       \/ /\ UNCHANGED budget
          /\ frame' = [frame EXCEPT ![f] = "dropped"]
    /\ UNCHANGED <<mu, buf, get, fresh, gpu, declared, chunk, lost>>

\* Mutant: an entry is uncharged as an output, whatever it is.
UnchargeOutput(f) == Release(Output, FrameBytes[f])

Uncharge(f) == Release(FrameAccount(f), FrameBytes[f])

\* The frame has an entry, or none can be stored.
HoldFrame(f) ==
    /\ frame[f] = "charged"
    /\ \/ /\ UNCHANGED budget
          /\ frame' = [frame EXCEPT ![f] = "held"]
       \/ /\ Uncharge(f)
          /\ frame' = [frame EXCEPT ![f] = "dropped"]
    /\ UNCHANGED <<mu, buf, get, fresh, gpu, declared, chunk, lost>>

\* forget(), for freeFrame() and ~FrameScope, which free the frame after it,
\* and for keep() and releaseFrame(), which leave it to the caller.
ForgetFrame(f) ==
    /\ frame[f] = "held" /\ NoCall
    /\ Uncharge(f)
    /\ \E next \in {"dropped", "none"} : frame' = [frame EXCEPT ![f] = next]
    /\ UNCHANGED <<mu, buf, get, fresh, gpu, declared, chunk, lost>>

FreeFrame(f) ==
    /\ frame[f] = "dropped"
    /\ frame' = [frame EXCEPT ![f] = "none"]
    /\ UNCHANGED <<budget, mu, buf, get, fresh, gpu, declared, chunk, lost>>

-----------------------------------------------------------------------------
(* Buffer: charged, declared, allocated, and its padding declared and      *)
(* charged.                                                                *)

\* Slot::fail: a wait has failed, and the device may use anything for ever.
Poison ==
    /\ ~poisoned
    /\ poisoned' = TRUE
    /\ UNCHANGED <<budget, mu, buf, get, fresh, frame, gpu, declared, chunk, leaked>>

ChargeBuffer(b, n) ==
    /\ gpu[b].pc = "none"
    /\ Acquire(Charge(b), n)
    /\ gpu' = [gpu EXCEPT ![b] = [pc |-> "charged", bytes |-> n, padding |-> 0, paid |-> 0]]
    /\ UNCHANGED <<mu, buf, get, fresh, frame, declared, chunk, lost>>

DeclareBuffer(b) ==
    /\ gpu[b].pc = "charged"
    /\ gpu' = [gpu EXCEPT ![b].pc = "declared"]
    /\ declared' = declared + gpu[b].bytes
    /\ UNCHANGED <<budget, mu, buf, get, fresh, frame, chunk, lost>>

CreateBuffer(b, padding) ==
    /\ gpu[b].pc = "declared"
    /\ gpu' = [gpu EXCEPT ![b].pc = "created", ![b].padding = padding]
    /\ UNCHANGED <<budget, mu, buf, get, fresh, frame, declared, chunk, lost>>

DeclarePadding(b) ==
    /\ gpu[b].pc = "created"
    /\ gpu' = [gpu EXCEPT ![b].pc = "corrected"]
    /\ declared' = declared + gpu[b].padding
    /\ UNCHANGED <<budget, mu, buf, get, fresh, frame, chunk, lost>>

Undeclared(b) == Max({0, declared - (gpu[b].bytes + gpu[b].padding)})

\* vmaCreateBuffer fails; the charge goes with the object.
CreateFails(b) ==
    /\ gpu[b].pc = "declared"
    /\ declared' = Undeclared(b)
    /\ gpu' = [gpu EXCEPT ![b].pc = "undeclared"]
    /\ UNCHANGED <<budget, mu, buf, get, fresh, frame, chunk, lost>>

\* The padding is charged, or the buffer, which nothing has used, is destroyed.
ChargePadding(b) ==
    /\ gpu[b].pc = "corrected"
    /\ \/ /\ Acquire(Padding(b), gpu[b].padding)
          /\ gpu' = [gpu EXCEPT ![b].pc = "ready", ![b].paid = gpu[b].padding]
       \/ /\ Refuses(Padding(b), gpu[b].padding)
          /\ gpu' = [gpu EXCEPT ![b].pc = "destroyed"]
          /\ UNCHANGED budget
    /\ UNCHANGED <<mu, buf, get, fresh, frame, declared, chunk, lost>>

\* Buffer::reset destroys the buffer, or leaks it if the device is poisoned;
\* either way its declaration and its two charges are given back, one by one.
ResetBuffer(b) ==
    /\ gpu[b].pc = "ready"
    /\ gpu' = [gpu EXCEPT ![b].pc = "destroyed"]
    /\ leaked' = IF poisoned THEN leaked + gpu[b].bytes + gpu[b].padding ELSE leaked
    /\ leaked' <= MostLeaked
    /\ UNCHANGED <<budget, mu, buf, get, fresh, frame, declared, chunk, poisoned>>

Undeclare(b) ==
    /\ gpu[b].pc = "destroyed"
    /\ declared' = Undeclared(b)
    /\ gpu' = [gpu EXCEPT ![b].pc = "undeclared"]
    /\ UNCHANGED <<budget, mu, buf, get, fresh, frame, chunk, lost>>

ReturnCharge(b) ==
    /\ gpu[b].pc = "undeclared"
    /\ Release(Charge(b), gpu[b].bytes)
    /\ gpu' = [gpu EXCEPT ![b].pc = "uncharged"]
    /\ UNCHANGED <<mu, buf, get, fresh, frame, declared, chunk, lost>>

ReturnPadding(b) ==
    /\ gpu[b].pc = "uncharged"
    /\ Release(Padding(b), gpu[b].paid)
    /\ gpu' = [gpu EXCEPT ![b] = NoBuffer]
    /\ UNCHANGED <<mu, buf, get, fresh, frame, declared, chunk, lost>>

-----------------------------------------------------------------------------
(* A chunk: computed in flight, cached, pinned while evicted, freed.       *)

ComputeChunk ==
    /\ chunk = "none"
    /\ Acquire(Chunk, ChunkBytes)
    /\ chunk' = "computed"
    /\ UNCHANGED <<mu, buf, get, fresh, frame, gpu, declared, lost>>

CacheChunk ==
    /\ chunk = "computed"
    /\ Retag(Chunk, "Cached")
    /\ chunk' = "cached"
    /\ UNCHANGED <<mu, buf, get, fresh, frame, gpu, declared, lost>>

EvictChunk ==
    /\ chunk = "cached"
    /\ Retag(Chunk, "Pinned")
    /\ chunk' = "pinned"
    /\ UNCHANGED <<mu, buf, get, fresh, frame, gpu, declared, lost>>

\* The last reference goes; the next chunk has an account of its own.
FreeChunk ==
    /\ chunk \in {"computed", "cached", "pinned"}
    /\ Release(Chunk, ChunkBytes)
    /\ chunk' = "freed"
    /\ UNCHANGED <<mu, buf, get, fresh, frame, gpu, declared, lost>>

NextChunk ==
    /\ chunk = "freed"
    /\ Renew(Chunk)
    /\ chunk' = "none"
    /\ UNCHANGED <<mu, buf, get, fresh, frame, gpu, declared, lost>>

WorkspaceNext ==
    \E t \in Threads : \/ \E n \in Floats : Get(t, n)
                       \/ ChargeScratch(t) \/ AllocateScratch(t) \/ AllocateFails(t)
                       \/ SwapScratch(t) \/ FreeScratch(t)

FrameNext ==
    \E f \in Outputs \cup Inputs :
        MakeFrame(f) \/ ChargeFrame(f) \/ HoldFrame(f) \/ ForgetFrame(f) \/ FreeFrame(f)

BufferNext ==
    \/ Poison
    \/ \E b \in Buffers : \/ \E n \in BufferBytes : ChargeBuffer(b, n)
                          \/ \E p \in Paddings : CreateBuffer(b, p)
                          \/ DeclareBuffer(b) \/ DeclarePadding(b) \/ CreateFails(b) \/ ChargePadding(b)
                          \/ ResetBuffer(b) \/ Undeclare(b) \/ ReturnCharge(b) \/ ReturnPadding(b)

ChunkNext == ComputeChunk \/ CacheChunk \/ EvictChunk \/ FreeChunk \/ NextChunk

Next == WorkspaceNext \/ FrameNext \/ BufferNext \/ ChunkNext

Spec == Init /\ [][Next]_vars

-----------------------------------------------------------------------------
(* The memory each user really has.                                        *)

ScratchMemory == SumFunction([t \in Threads |-> (IF buf[t].p THEN BufBytes(buf[t].n) ELSE 0) + fresh[t]])
ChargedFrames(S) == SumFunction([f \in S |-> IF frame[f] \in {"charged", "held"} THEN FrameBytes[f] ELSE 0])
BufferMemory(b) == IF gpu[b].pc \in {"created", "corrected", "ready"} THEN gpu[b].bytes + gpu[b].padding ELSE 0
Told(b) == (IF gpu[b].pc \in {"declared", "created", "corrected", "ready", "destroyed"} THEN gpu[b].bytes ELSE 0)
             + (IF gpu[b].pc \in {"corrected", "ready", "destroyed"} THEN gpu[b].padding ELSE 0)

\* The charges follow the memory that workspaces, frames and device buffers
\* have, and nobody stays charged for memory that is gone.  The code leaves
\* these gaps, and no other:
\*  - a workspace that grows is charged before it allocates and gives the old
\*    buffer's charge back after freeing it; at rest the charge is exact;
\*  - a frame is VapourSynth's before hold() charges it and still there when
\*    forget() has uncharged it and freeFrame() has not yet freed it: one frame
\*    of a request at most, and every other frame of the scope is charged;
\*  - a device buffer's padding is known, and charged, after the allocation;
\*  - a poisoned device leaks the buffers that are reset and gives their charges
\*    back: that memory is charged to nobody (Buffer::reset).
\* What VapourSynth is told of the node's device memory (Device::reserve) is the
\* sum of what its buffers have declared, though each update is clamped at 0.
ChargesCoverMemory ==
    /\ account[Scratch].bytes >= ScratchMemory
    /\ mu = None => account[Scratch].bytes = ScratchMemory
    /\ account[Output].bytes = ChargedFrames(Outputs) /\ account[Framework].bytes = ChargedFrames(Inputs)
    /\ \A f, g \in Outputs \cup Inputs : InCall(f) /\ InCall(g) => f = g
    /\ \A b \in Buffers :
           LET charged == account[Charge(b)].bytes + account[Padding(b)].bytes
           IN  /\ charged >= BufferMemory(b) - (IF gpu[b].pc \in {"created", "corrected"} THEN gpu[b].padding ELSE 0)
               /\ gpu[b].pc \in {"none", "ready"} => charged = BufferMemory(b)
    /\ leaked > 0 => poisoned
    /\ declared = SumFunction([b \in Buffers |-> Told(b)])

\* Every user keeps to the accounts' contract: it gives back no more than it
\* has taken, so that no size ever wraps (ResourceAccount::release).
AccountsWellUsed == BudgetSpec
=============================================================================
