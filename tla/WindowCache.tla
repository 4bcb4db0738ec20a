----------------------------- MODULE WindowCache ----------------------------
(***************************************************************************)
(* The frames that the Vulkan NLM and PNLM filters keep on the device for  *)
(* the requests whose temporal windows read them (WindowCache and Window   *)
(* of src/vulkan/common/window_cache.hpp) and the requests around it       *)
(* (tile_frame of src/vulkan/nlm/filter.cpp): a request pins its window at *)
(* once, uploads the frames that are not there, waits until the others are *)
(* queued, takes a slot and an output permit, and submits an upload stage  *)
(* and a compute stage.                                                    *)
(*                                                                         *)
(* A stage of a request is named [by, serial, stage] and stands for the    *)
(* slot's timeline and the value the stage signals.                        *)
(***************************************************************************)
EXTENDS Integers, Sequences, FiniteSets, SequencesExt

CONSTANTS Requesters,
          Clip,       \* the frames of the clip: 0 .. n - 1
          Radius,
          Regions,    \* the cache's frames: 1 .. k
          Slots,      \* slots of the filter
          Permits,    \* output permits, at least the slots
          Budget      \* bound: requests of one behaviour

WindowAssumption ==
    /\ IsFiniteSet(Clip) /\ Clip = 0 .. Cardinality(Clip) - 1 /\ Clip # {}
    /\ IsFiniteSet(Regions) /\ Regions = 1 .. Cardinality(Regions)
    /\ Radius \in Nat /\ Cardinality(Regions) >= 2 * Radius + 1
    /\ Slots \in Nat \ {0} /\ Permits \in Nat /\ Permits >= Slots
    /\ Budget \in Nat

VARIABLES staged,     \* uploads are copied by an upload stage (else the host writes device memory); fixed
          asked,      \* requests so far
          cached,     \* region -> WindowFrame
          clock,      \* the regions by WindowFrame::used, longest ago first
          pc, want,   \* per thread: its request
          pinned,     \* thread -> region of each window frame
          uploads,    \* thread -> the regions it is to upload
          serial,     \* thread -> number of its request
          leases, permits,   \* the threads that hold a slot, an output permit
          stages,     \* thread -> its stages that are submitted and not done, with what they wait for
          memory      \* region -> the frame the device memory holds

cacheState == <<cached, clock>>
windowVars == <<staged, asked, cacheState, pc, want, pinned, uploads, serial, leases, permits, stages, memory>>

None == -1
NoStage == [on |-> FALSE]
NoPins == [f \in {} |-> None]
Stage(t, stage) == [by |-> t, serial |-> serial[t], stage |-> stage]

\* The frames of a window (temporal_slot_frame of every slot).
WindowOf(n) == {f \in Clip : n - Radius <= f /\ f <= n + Radius}

WindowInit ==
    /\ staged \in BOOLEAN
    /\ asked = 0
    /\ cached = [r \in Regions |-> [n |-> None, pins |-> 0, queued |-> FALSE, failed |-> FALSE,
                                    ready |-> {}, uses |-> {}, used |-> 0]]
    /\ clock = 0
    /\ pc = [t \in Requesters |-> "idle"]
    /\ want = [t \in Requesters |-> None]
    /\ pinned = [t \in Requesters |-> NoPins]
    /\ uploads = [t \in Requesters |-> {}]
    /\ serial = [t \in Requesters |-> 0]
    /\ leases = {} /\ permits = {}
    /\ stages = [t \in Requesters |-> [upload |-> NoStage, compute |-> NoStage]]
    /\ memory = [r \in Regions |-> None]

Goto(t, place) == pc' = [pc EXCEPT ![t] = place]
PinnedBy(t) == {pinned[t][f] : f \in DOMAIN pinned[t]}

\* A request for frame n reaches the cache.
Ask(t, n) ==
    /\ pc[t] = "idle"
    /\ asked < Budget /\ asked' = asked + 1
    /\ want' = [want EXCEPT ![t] = n]
    /\ serial' = [serial EXCEPT ![t] = @ + 1]
    /\ Goto(t, "window")
    /\ UNCHANGED <<staged, cacheState, pinned, uploads, leases, permits, stages, memory>>

-----------------------------------------------------------------------------
(* Window::Window.                                                         *)

Found(n) == {r \in Regions : cached[r].n \in WindowOf(n)}

Missing(n) == {f \in WindowOf(n) : \A r \in Regions : cached[r].n # f}

\* Mutant: a frame may be replaced while it is pinned.
FreeRegionsAll(n) == {r \in Regions : r \notin Found(n)}

FreeRegions(n) == {r \in Regions : cached[r].pins = 0 /\ r \notin Found(n)}

WindowFits(n) == Cardinality(Missing(n)) <= Cardinality(FreeRegions(n))

\* The regions by WindowFrame::used; the loop over the frames keeps the first
\* of those used alike.
Before(r, s) == cached[r].used < cached[s].used \/ (cached[r].used = cached[s].used /\ r < s)

\* The missing frames get the free regions that were used longest ago, one
\* after the other.
UsedLongestAgo(given, free) ==
    LET taken == {given[f] : f \in DOMAIN given}
    IN  /\ \A f, g \in DOMAIN given : f < g => Before(given[f], given[g])
        /\ \A r \in taken, s \in free \ taken : Before(r, s)

\* A region that is given to frame f, and one that a window pins.
Given(entry, f) == [entry EXCEPT !.n = f, !.queued = FALSE, !.failed = FALSE, !.ready = {}]
Pinned(entry, stamp) == [entry EXCEPT !.pins = @ + 1, !.used = stamp]

Holding(f) == CHOOSE r \in Regions : cached[r].n = f

\* Window t is at these places, those in given anew.
Pin(t, place, given) ==
    LET frame(r) == CHOOSE f \in DOMAIN place : place[f] = r
        entry(r) == IF frame(r) \in DOMAIN given THEN Given(cached[r], frame(r)) ELSE cached[r]
        stamp(r) == clock + Cardinality({f \in DOMAIN place : f <= frame(r)})
    IN  /\ cached' = [r \in Regions |-> IF r \in {place[f] : f \in DOMAIN place}
                                        THEN Pinned(entry(r), stamp(r)) ELSE cached[r]]
        /\ clock' = clock + Cardinality(DOMAIN place)
        /\ pinned' = [pinned EXCEPT ![t] = place]
        /\ uploads' = [uploads EXCEPT ![t] = {given[f] : f \in DOMAIN given}]

PinWindow(t) ==
    /\ pc[t] = "window" /\ WindowFits(want[t])
    /\ \E given \in [Missing(want[t]) -> FreeRegions(want[t])] :
           /\ UsedLongestAgo(given, FreeRegions(want[t]))
           /\ Pin(t, [f \in WindowOf(want[t]) |-> IF f \in DOMAIN given THEN given[f] ELSE Holding(f)], given)
    /\ Goto(t, "write")
    /\ UNCHANGED <<staged, asked, want, serial, leases, permits, stages, memory>>

-----------------------------------------------------------------------------
(* The request's own steps.                                                *)

MarkQueued(t, ready) ==
    cached' = [r \in Regions |-> IF r \in uploads[t]
                                 THEN [cached[r] EXCEPT !.queued = TRUE, !.ready = ready, !.uses = ready]
                                 ELSE cached[r]]

\* The host writes the frames: into device memory, where they are then
\* queued, or into staging for the upload stage.
WriteFrames(t) ==
    /\ pc[t] = "write"
    /\ IF staged
       THEN UNCHANGED <<cached, memory>>
       ELSE /\ memory' = [r \in Regions |-> IF r \in uploads[t] THEN cached[r].n ELSE memory[r]]
            /\ MarkQueued(t, {})
    /\ Goto(t, "wait_queued")
    /\ UNCHANGED <<staged, asked, clock, want, pinned, uploads, serial, leases, permits, stages>>

AllQueued(t) == \A r \in PinnedBy(t) : cached[r].queued \/ r \in uploads[t]
SomeFailed(t) == \E r \in PinnedBy(t) : cached[r].failed

\* wait_queued returns, or throws when an uploader gave up.
WaitQueued(t) ==
    /\ pc[t] = "wait_queued" /\ (SomeFailed(t) \/ AllQueued(t))
    /\ Goto(t, IF SomeFailed(t) THEN "unpin" ELSE "slot")
    /\ UNCHANGED <<staged, asked, cacheState, want, pinned, uploads, serial, leases, permits, stages, memory>>

TakeSlot(t) ==
    /\ pc[t] = "slot" /\ Cardinality(leases) < Slots
    /\ leases' = leases \union {t}
    /\ Goto(t, "permit")
    /\ UNCHANGED <<staged, asked, cacheState, want, pinned, uploads, serial, permits, stages, memory>>

TakePermit(t) ==
    /\ pc[t] = "permit" /\ Cardinality(permits) < Permits
    /\ permits' = permits \union {t}
    /\ Goto(t, "record")
    /\ UNCHANGED <<staged, asked, cacheState, want, pinned, uploads, serial, leases, stages, memory>>

\* previous_uses, and the upload stages of the frames of others.
UploadStage(t) == [on |-> TRUE, waits |-> UNION {cached[r].uses : r \in uploads[t]}]

ComputeStage(t) == [on |-> TRUE, waits |-> UNION {cached[r].ready : r \in PinnedBy(t) \ uploads[t]}]

HasUploads(t) == staged /\ uploads[t] # {}

\* slot.submit().
SubmitStages(t) ==
    /\ pc[t] = "record"
    /\ stages' = [stages EXCEPT ![t] = [upload |-> IF HasUploads(t) THEN UploadStage(t) ELSE NoStage,
                                        compute |-> ComputeStage(t)]]
    /\ Goto(t, "submitted")
    /\ UNCHANGED <<staged, asked, cacheState, want, pinned, uploads, serial, leases, permits, memory>>

\* submit() throws: nothing is submitted, or the upload stage alone.
SubmitThrows(t) ==
    /\ pc[t] = "record"
    /\ \/ UNCHANGED stages
       \/ /\ HasUploads(t)
          /\ stages' = [stages EXCEPT ![t].upload = UploadStage(t)]
    /\ Goto(t, "settle")
    /\ UNCHANGED <<staged, asked, cacheState, want, pinned, uploads, serial, leases, permits, memory>>

\* mark_queued (staged) and read_by.
MarkSubmitted(t) ==
    /\ pc[t] = "submitted"
    /\ cached' = [r \in Regions |->
                     IF HasUploads(t) /\ r \in uploads[t]
                     THEN [cached[r] EXCEPT !.queued = TRUE, !.ready = {Stage(t, "upload")},
                                            !.uses = {Stage(t, "upload"), Stage(t, "compute")}]
                     ELSE IF r \in PinnedBy(t) THEN [cached[r] EXCEPT !.uses = @ \union {Stage(t, "compute")}]
                     ELSE cached[r]]
    /\ Goto(t, "settle")
    /\ UNCHANGED <<staged, asked, clock, want, pinned, uploads, serial, leases, permits, stages, memory>>

\* write_frame, or making the output frame, throws.
Throw(t) ==
    /\ pc[t] \in {"write", "record"}
    /\ Goto(t, IF pc[t] = "write" THEN "unpin" ELSE "settle")
    /\ UNCHANGED <<staged, asked, cacheState, want, pinned, uploads, serial, leases, permits, stages, memory>>

DeviceDone(t) == ~stages[t].upload.on /\ ~stages[t].compute.on

\* wait(), then ~Lease, which settles the slot.
ReturnSlot(t) ==
    /\ pc[t] = "settle" /\ DeviceDone(t)
    /\ leases' = leases \ {t}
    /\ Goto(t, "unpin")
    /\ UNCHANGED <<staged, asked, cacheState, want, pinned, uploads, serial, permits, stages, memory>>

\* Mutant: a frame that was not uploaded stays in the cache.
GivenUpKept(r) == r

\* A frame that its request did not get to upload.
GivenUp(r) == [r EXCEPT !.n = None, !.failed = TRUE]

\* ~Window, then the output permit.
Unpin(t) ==
    /\ pc[t] = "unpin"
    /\ cached' = [r \in Regions |->
                     LET unpinned == [cached[r] EXCEPT !.pins = IF r \in PinnedBy(t) THEN @ - 1 ELSE @]
                     IN  IF r \in uploads[t] /\ ~cached[r].queued THEN GivenUp(unpinned) ELSE unpinned]
    /\ pinned' = [pinned EXCEPT ![t] = NoPins]
    /\ uploads' = [uploads EXCEPT ![t] = {}]
    /\ permits' = permits \ {t}
    /\ Goto(t, "idle")
    /\ want' = [want EXCEPT ![t] = None]
    /\ UNCHANGED <<staged, asked, clock, serial, leases, stages, memory>>

-----------------------------------------------------------------------------
(* The device.                                                             *)

StageDone(s) == s.serial < serial[s.by] \/ ~stages[s.by][s.stage].on
StageReady(stage) == stage.on /\ \A s \in stage.waits : StageDone(s)

RunUpload(t) ==
    /\ StageReady(stages[t].upload)
    /\ memory' = [r \in Regions |-> IF r \in uploads[t] THEN cached[r].n ELSE memory[r]]
    /\ stages' = [stages EXCEPT ![t].upload = NoStage]
    /\ UNCHANGED <<staged, asked, cacheState, pc, want, pinned, uploads, serial, leases, permits>>

ComputeReady(t) == ~stages[t].upload.on /\ StageReady(stages[t].compute)

RunCompute(t) ==
    /\ ComputeReady(t)
    /\ stages' = [stages EXCEPT ![t].compute = NoStage]
    /\ UNCHANGED <<staged, asked, cacheState, pc, want, pinned, uploads, serial, leases, permits, memory>>

OwnSteps(t) == \/ PinWindow(t) \/ WriteFrames(t) \/ WaitQueued(t) \/ TakeSlot(t) \/ TakePermit(t)
          \/ SubmitStages(t) \/ MarkSubmitted(t) \/ ReturnSlot(t) \/ Unpin(t)

WindowNext == \E t \in Requesters :
            \/ \E n \in Clip : Ask(t, n)
            \/ OwnSteps(t) \/ Throw(t) \/ SubmitThrows(t) \/ RunUpload(t) \/ RunCompute(t)

WindowSpec == WindowInit /\ [][WindowNext]_windowVars

-----------------------------------------------------------------------------
\* A compute stage reads its window's frames and no others, whoever uploaded
\* them, however the requests that share them ended.
ReadsItsWindow ==
    \A t \in Requesters : ComputeReady(t) =>
        \A f \in DOMAIN pinned[t] : memory[pinned[t][f]] = f

\* "a frame is uploaded once however many windows it is part of": no two
\* regions are for the same frame.
FrameOnce == \A r, s \in Regions : r # s /\ cached[r].n # None => cached[r].n # cached[s].n

\* A pin is one request's, so every pin is given back.
PinsCounted == \A r \in Regions : cached[r].pins = Cardinality({t \in Requesters : r \in PinnedBy(t)})

\* What a request's window is while its kernels run, and while it has it.
WindowsKept == ReadsItsWindow /\ FrameOnce /\ PinsCounted

\* Requests never wait for each other in a circle: for regions ("never
\* waiting while it holds pins"), for the uploads of others ("a request
\* holding a slot there could wait forever for an uploader that waits for a
\* slot", nlm/filter.cpp:490), for slots, for permits and on the device.
CanRun(t) ==
    \/ pc[t] = "window" /\ WindowFits(want[t])
    \/ pc[t] \in {"write", "record", "submitted", "unpin"}
    \/ pc[t] = "wait_queued" /\ (SomeFailed(t) \/ AllQueued(t))
    \/ pc[t] = "slot" /\ Cardinality(leases) < Slots
    \/ pc[t] = "permit" /\ Cardinality(permits) < Permits
    \/ pc[t] = "settle" /\ DeviceDone(t)
    \/ StageReady(stages[t].upload) \/ ComputeReady(t)
SomeoneRuns == (\E t \in Requesters : pc[t] # "idle") => \E t \in Requesters : CanRun(t)
=============================================================================
