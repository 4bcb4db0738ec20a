------------------------------- MODULE VkSlot ------------------------------
(***************************************************************************)
(* The execution slots of the Vulkan backend (vulkan/runtime/slot.cpp and  *)
(* slot.hpp), the queues of a device (context.cpp) and what a failed wait  *)
(* leaves behind.  A request leases a slot, records up to three stages,    *)
(* submits them to their queues, waits with a bound, and settles the slot  *)
(* when the lease ends, whatever failed on the way.                        *)
(*                                                                         *)
(* A queue runs its batches in order; a batch ends when the timelines it   *)
(* waits for have got there, and then moves its slot's timeline on.  The   *)
(* frames a batch reads or writes are those of its request; a wait that    *)
(* ends in VK_TIMEOUT and one that loses the device are the same step.     *)
(* The threads that wait for a slot are those of SlotPool ("lifo").        *)
(***************************************************************************)
EXTENDS Integers, Sequences, FiniteSets, SequencesExt

CONSTANTS Threads,    \* VapourSynth's threads
          Slots,      \* the node's slots: 1 .. num_streams
          Layouts,    \* the queue layouts to try: see QueueLayout
          Frames,     \* the sets of stages that frames record
          Budget      \* bound: requests in one behaviour

VARIABLES layout,     \* the device's queues
          slots,      \* slot -> Slot
          queues,     \* queue -> its unfinished batches
          reached,    \* slot -> the value its timeline has
          poisoned,   \* Device::poisoned_
          free,       \* SlotPool::free_
          thread,     \* thread -> the request it serves
          published,  \* request -> the producer pair of its output plane, <<>> when none
          requests,   \* requests so far, for Budget
          destroyed   \* what ~SlotPool has destroyed: slots, and 0 for the node's buffers

vars == <<layout, slots, queues, reached, poisoned, free, thread, published, requests, destroyed>>

Upload == 1
Compute == 2
Download == 3
Stages == {Upload, Compute, Download}

ASSUME VkSlotAssumption ==
    /\ IsFiniteSet(Slots) /\ Slots = 1 .. Cardinality(Slots) /\ Slots # {}
    /\ Layouts \subseteq Int \X STRING
    /\ Frames \subseteq SUBSET Stages
    /\ Budget \in Nat

-----------------------------------------------------------------------------
(* Device::create and Device::create_core: which queue a stage uses.       *)

\* Mutant: downloads on VapourSynth's device are deferred as elsewhere.
QueueLayoutCoreDeferred(copies, one) ==
    [queue |-> <<"compute", "compute", "compute">>, core |-> copies = -1, defer |-> copies # 0]

\* copies: copy-only queues in use, -1 on VapourSynth's device; one:
\* NSS_VK_ONE_COPY_QUEUE ("" when it is not set).
QueueLayout(copies, one) ==
    CASE copies = -1 -> [queue |-> <<"compute", "compute", "compute">>, core |-> TRUE, defer |-> FALSE]
      [] copies >= 2 -> [queue |-> <<"copy1", "compute", "copy2">>, core |-> FALSE, defer |-> FALSE]
      [] OTHER ->
            LET up == IF copies = 0 THEN "compute" ELSE "copy1"
            IN  [queue |-> <<up, "compute", IF one = "compute" THEN "compute" ELSE up>>,
                 core  |-> FALSE,
                 defer |-> copies # 0 /\ one # "compute" /\ one # "shared"]

Queues == {"compute", "copy1", "copy2"}

-----------------------------------------------------------------------------
NoRequest == [pc |-> "idle", slot |-> 0, request |-> 0, todo |-> {}, defer |-> FALSE, sent |-> FALSE]

IdleSlot == [state |-> "idle", recording |-> {}, waits |-> [g \in Stages |-> <<>>],
             value |-> 0, deferred |-> FALSE, retained |-> {}]

Init ==
    /\ layout \in {QueueLayout(l[1], l[2]) : l \in Layouts}
    /\ slots = [s \in Slots |-> IdleSlot]
    /\ queues = [q \in Queues |-> <<>>]
    /\ reached = [s \in Slots |-> 0]
    /\ poisoned = FALSE
    /\ free = [s \in Slots |-> s]
    /\ thread = [t \in Threads |-> NoRequest]
    /\ published = <<>>
    /\ requests = 0
    /\ destroyed = {}

Mine(t) == slots[thread[t].slot]
GoesTo(t, next) == thread' = [thread EXCEPT ![t].pc = next]
Becomes(t, s) == slots' = [slots EXCEPT ![thread[t].slot] = s]

\* Pool: a request leases the slot given back last.
Lease(t) ==
    /\ thread[t].pc = "idle" /\ requests < Budget /\ free # <<>> /\ destroyed = {}
    /\ requests' = requests + 1
    /\ thread' = [thread EXCEPT ![t] = [NoRequest EXCEPT !.pc = "record", !.slot = Last(free),
                                                         !.request = requests + 1]]
    /\ free' = Front(free)
    /\ UNCHANGED <<layout, slots, queues, reached, poisoned, published, destroyed>>

\* Mutant: the value another slot's next submission will signal.
OtherTimelinesNext(s) == {<<u, slots[u].value + 1>> : u \in Slots \ {s}}

\* wait_for: another slot's timeline at the value of its last submission, an
\* upload of a cached frame or the producer of a GPU frame's plane.
OtherTimelines(s) == {<<u, slots[u].value>> : u \in {u \in Slots \ {s} : slots[u].value > 0}}

\* Whether the download waits for wait() to submit it (defer).
Defers(stages) == layout.defer /\ Download \in stages /\ ({Upload, Compute} \cap stages # {})

\* Slot s with the stages of a request, whose frames it retains.
Recorded(s, stages, request) ==
    [s EXCEPT !.state = IF stages = {} THEN "idle" ELSE "recording", !.recording = stages, !.retained = @ \cup {request}]

\* commands(), retain() and wait_for(): the frame's stages are recorded; then
\* the start of submit(), which reads nothing of other threads.
Record(t, stages) ==
    /\ thread[t].pc = "record" /\ Mine(t).state = "idle"
    /\ \E w \in [stages -> {<<>>} \cup OtherTimelines(thread[t].slot)] :
           /\ Cardinality({g \in stages : w[g] # <<>>}) <= 1
           /\ Becomes(t, [Recorded(Mine(t), stages, thread[t].request) EXCEPT
                             !.waits = [g \in Stages |-> IF g \in stages THEN w[g] ELSE <<>>]])
    /\ thread' = [thread EXCEPT ![t].pc = IF stages = {} THEN "wait" ELSE "send",
                                ![t].defer = Defers(stages),
                                ![t].todo = IF Defers(stages) THEN stages \ {Download} ELSE stages]
    /\ UNCHANGED <<layout, queues, reached, poisoned, free, published, requests, destroyed>>

\* One of the calls throws, behind the stages it has begun.
RecordFails(t, stages) ==
    /\ thread[t].pc = "record" /\ Mine(t).state = "idle"
    /\ Becomes(t, Recorded(Mine(t), stages, thread[t].request))
    /\ GoesTo(t, "failed")
    /\ UNCHANGED <<layout, queues, reached, poisoned, free, published, requests, destroyed>>

\* commands() on a slot whose wait has failed throws.
RecordBroken(t) ==
    /\ thread[t].pc = "record" /\ Mine(t).state = "broken"
    /\ GoesTo(t, "failed")
    /\ UNCHANGED <<layout, slots, queues, reached, poisoned, free, published, requests, destroyed>>

-----------------------------------------------------------------------------
(* Slot::submit, one vkQueueSubmit2 at a time.                             *)

\* The batch of a stage: it waits for the slot's own timeline, up to the stage
\* (or the frame) before it, and for the timeline given to wait_for.
Batch(t, g) ==
    [slot |-> thread[t].slot, stage |-> g, request |-> thread[t].request,
     value |-> Mine(t).value + 1, waits |-> Mine(t).waits[g]]

\* submit_stage(g) with vkQueueSubmit2 succeeding: s is the slot it leaves.
Submitted(t, g, s) ==
    /\ queues' = [queues EXCEPT ![layout.queue[g]] = Append(@, Batch(t, g))]
    /\ Becomes(t, [s EXCEPT !.recording = @ \ {g}, !.value = @ + 1])

\* The stages go in their order.
First(t, g) == g \in thread[t].todo /\ \A other \in thread[t].todo : g <= other

SendNext(t) ==
    /\ thread[t].pc = "send"
    /\ \E g \in Stages :
          /\ First(t, g)
          /\ Submitted(t, g, Mine(t))
          /\ thread' = [thread EXCEPT ![t].todo = @ \ {g}, ![t].sent = TRUE]
    /\ UNCHANGED <<layout, reached, poisoned, free, published, requests, destroyed>>

\* The stages submitted before the failing one stay pending.
StateAfterFailure(t) == IF thread[t].sent THEN "pending" ELSE "recording"

\* vkEndCommandBuffer or vkQueueSubmit2 fails.
SendFails(t) ==
    /\ thread[t].pc = "send"
    /\ \E g \in Stages : First(t, g) /\ \E ended \in {{}, {g}} :
           Becomes(t, [Mine(t) EXCEPT !.recording = @ \ ended, !.state = StateAfterFailure(t)])
    /\ GoesTo(t, "failed")
    /\ UNCHANGED <<layout, queues, reached, poisoned, free, published, requests, destroyed>>

\* The end of submit(); a request on VapourSynth's device then publishes its
\* output plane with the slot's last value (GpuFrames::publish).
EndSubmit(t) ==
    /\ thread[t].pc = "send" /\ thread[t].todo = {}
    /\ Becomes(t, [Mine(t) EXCEPT !.state = "pending", !.deferred = thread[t].defer])
    /\ published' = IF layout.core
                    THEN Append(published, [request |-> thread[t].request, slot |-> thread[t].slot,
                                            value |-> Mine(t).value])
                    ELSE published
    /\ GoesTo(t, "wait")
    /\ UNCHANGED <<layout, queues, reached, poisoned, free, requests, destroyed>>

-----------------------------------------------------------------------------
(* Slot::wait and Slot::settle.                                            *)

\* reset_commands, State::idle and release_frames.
Idled(s) == [s EXCEPT !.state = "idle", !.recording = {}, !.waits = [g \in Stages |-> <<>>],
                      !.deferred = FALSE, !.retained = {}]

\* wait_timeline returns VK_SUCCESS: the last value submitted is reached.
Done(t) == reached[thread[t].slot] >= Mine(t).value

\* The kernels are done: the deferred download goes to its queue, and the
\* wait goes on for it.
WaitThenDownload(t) ==
    /\ thread[t].pc = "wait" /\ Mine(t).state = "pending" /\ Mine(t).deferred /\ Done(t)
    /\ Submitted(t, Download, [Mine(t) EXCEPT !.deferred = FALSE])
    /\ UNCHANGED <<layout, reached, poisoned, free, thread, published, requests, destroyed>>

DownloadFails(t) ==
    /\ thread[t].pc = "wait" /\ Mine(t).state = "pending" /\ Mine(t).deferred /\ Done(t)
    /\ \E ended \in {{}, {Download}} :
           Becomes(t, [Mine(t) EXCEPT !.recording = @ \ ended, !.deferred = FALSE])
    /\ GoesTo(t, "failed")
    /\ UNCHANGED <<layout, queues, reached, poisoned, free, published, requests, destroyed>>

Wait(t) ==
    /\ thread[t].pc = "wait" /\ Mine(t).state # "broken"
    /\ Mine(t).state = "pending" => ~Mine(t).deferred /\ Done(t)
    /\ Becomes(t, Idled(Mine(t)))
    /\ GoesTo(t, "served")
    /\ UNCHANGED <<layout, queues, reached, poisoned, free, published, requests, destroyed>>

\* Mutant: the frames of a slot whose wait failed are released.
FailSlotReleased(s) == [s EXCEPT !.state = "broken", !.retained = {}]

\* The slot and the frames it retains stay as they are, for good.
FailSlot(s) == [s EXCEPT !.state = "broken"]

\* fail(): the slot is broken, the device poisoned.
Fail(t) ==
    Becomes(t, FailSlot(Mine(t))) /\ poisoned' = TRUE

\* wait() or settle() gives up on the device.
WaitFails(t) ==
    /\ thread[t].pc \in {"wait", "failed"} /\ Mine(t).state = "pending" /\ ~Done(t)
    /\ Fail(t)
    /\ GoesTo(t, "failed")
    /\ UNCHANGED <<layout, queues, reached, free, published, requests, destroyed>>

MaySettle(t) == Mine(t).state = "pending" => Done(t)

\* give_back: settle(), then the slot is free again.
GiveBack(t) ==
    /\ thread[t].pc \in {"failed", "served"} /\ MaySettle(t)
    /\ Becomes(t, IF Mine(t).state = "broken" THEN Mine(t) ELSE Idled(Mine(t)))
    /\ free' = Append(free, thread[t].slot)
    /\ thread' = [thread EXCEPT ![t] = NoRequest]
    /\ UNCHANGED <<layout, queues, reached, poisoned, published, requests, destroyed>>

-----------------------------------------------------------------------------
\* A queue's first batch ends (VkQueue, external).
Finish(q) ==
    /\ queues[q] # <<>>
    /\ LET b == Head(queues[q])
       IN  /\ reached[b.slot] = b.value - 1
           /\ b.waits # <<>> => reached[b.waits[1]] >= b.waits[2]
           /\ reached' = [reached EXCEPT ![b.slot] = b.value]
    /\ queues' = [queues EXCEPT ![q] = Tail(@)]
    /\ UNCHANGED <<layout, slots, poisoned, free, thread, published, requests, destroyed>>

\* The node ends: ~SlotPool runs ~Slot (settle, release_frames, release) on
\* each slot and the node's buffers are reset.  Objects that the device may
\* still use are leaked.
Leaked(s) == slots[s].state \in {"broken", "pending"} \/ poisoned

End ==
    /\ \A t \in Threads : thread[t].pc = "idle"
    /\ destroyed = {}
    /\ destroyed' = {s \in Slots : ~Leaked(s)} \cup (IF poisoned THEN {} ELSE {0})
    /\ UNCHANGED <<layout, slots, queues, reached, poisoned, free, thread, published, requests>>

Step(t) ==
    \/ \E stages \in Frames : Record(t, stages)
    \/ RecordBroken(t) \/ SendNext(t) \/ EndSubmit(t)
    \/ WaitThenDownload(t) \/ Wait(t) \/ GiveBack(t)

Failure(t) ==
    \/ \E stages \in Frames : RecordFails(t, stages)
    \/ SendFails(t) \/ DownloadFails(t) \/ WaitFails(t)

Next ==
    \/ \E t \in Threads : Lease(t) \/ Step(t) \/ Failure(t)
    \/ \E q \in Queues : Finish(q)
    \/ End

\* Threads go on and the device runs what it was given; nothing makes a call
\* fail, and no request has to come.
Fairness ==
    /\ \A t \in Threads : WF_vars(Step(t))
    /\ \A q \in Queues : WF_vars(Finish(q))

Spec == Init /\ [][Next]_vars /\ Fairness

-----------------------------------------------------------------------------
Unfinished == UNION {ToSet(queues[q]) : q \in Queues}

\* A batch that the device may still run has the frames it reads and writes
\* retained by its slot, also after a submit that failed half way and a wait
\* that timed out (retain, release_frames).
FramesOutliveWork ==
    \A b \in Unfinished : b.request \in slots[b.slot].retained

\* A slot that is idle or is being recorded has no batch in a queue other than
\* those the present submit() has sent: its command pools can be reset and its
\* buffers written (settle, reset_commands).
QuietSlots ==
    \A b \in Unfinished :
        \/ slots[b.slot].state \in {"pending", "broken"}
        \/ \E t \in Threads : thread[t].slot = b.slot /\ thread[t].request = b.request /\ thread[t].sent

\* When a published plane's producer pair is reached, the copy into the plane
\* has run (publish, last_value).
PublishedWritten ==
    \A i \in DOMAIN published : LET p == published[i] IN
        (reached[p.slot] >= p.value) =>
            /\ \A b \in Unfinished : b.request # p.request
            /\ \A t \in Threads : thread[t].request = p.request => Download \notin slots[p.slot].recording

\* Nothing the device may still use is destroyed: no unfinished batch is of a
\* destroyed slot, waits for one's timeline or uses freed buffers (release,
\* Buffer::reset, Device::poison).
DestroyedUnused ==
    destroyed # {} => \A b \in Unfinished :
        /\ 0 \notin destroyed /\ b.slot \notin destroyed
        /\ b.waits # <<>> => b.waits[1] \notin destroyed

\* Work the device has not finished keeps what it uses: its frames, its
\* command buffers and the node's objects.
WorkUndisturbed == FramesOutliveWork /\ QuietSlots /\ DestroyedUnused

\* Whatever is submitted is run, on every queue layout: batches that wait for
\* each other across queues and slots never stand in a circle.
QueuesDrain == []<>(Unfinished = {})
=============================================================================
