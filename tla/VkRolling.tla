------------------------------ MODULE VkRolling -----------------------------
(***************************************************************************)
(* Rolling output of the Vulkan group filters (RollTurn, RollRun,          *)
(* record_uploads and queue_units of vulkan/common/group_driver.cpp): one  *)
(* unit's state on one slot, its two lanes and the threads of the chunks   *)
(* that take turns on it.  A chunk's uploads, kernels and downloads are    *)
(* one submission of a lane; the uploads run beside the kernels of the     *)
(* chunk before, unless they were recorded to wait for them.               *)
(*                                                                         *)
(* A source buffer holds the number of its frame; a slice of the sums      *)
(* holds which centers have added to it, for which frame.                  *)
(***************************************************************************)
EXTENDS Integers, Sequences, FiniteSets, SequencesExt

CONSTANTS Threads,    \* requests that compute chunks
          Nodes       \* [radius, frames, chunk, two_stage, turns]; turns: bound on the chunks computed

Empty == -1
Partial == -2

VARIABLES d,          \* the node (Driver), fixed
          state,      \* RollState: next_start, promised, tickets in order, chain, failed_chain, fresh_last
          resident,   \* RollState::resident
          slot,       \* RollSlot: recording, next_lane, the lanes in use, computed
          turn,       \* thread -> its RollTurn and where it is
          jobs,       \* the submissions, in the order of their kernels
          src,        \* RollState::src on the device
          sums, basic, ref,   \* the rings of sums, of the first stage's, of its estimates
          stores,     \* submission -> frame -> what the chunk store holds
          begun       \* chunks begun, for turns

host == <<state, resident, slot, turn, begun>>
device == <<src, sums, basic, ref, stores>>
vars == <<d, host, jobs, device>>

-----------------------------------------------------------------------------
(* Frames and rings.                                                       *)

Lower(a, b) == IF a < b THEN a ELSE b
Higher(a, b) == IF a > b THEN a ELSE b
Upto(a, b) == [i \in 1 .. Higher(0, b - a + 1) |-> a + i - 1]

LastFrame(g) == g.frames - 1
NTemp == 2 * d.radius + 1
roll_reach == (IF d.two_stage THEN 4 ELSE 2) * d.radius
chunk_window == d.chunk + 2 * roll_reach

src_ring == Higher(2 * d.chunk + roll_reach, chunk_window)

Cells == 0 .. src_ring - 1
temporal_slot_frame(center, t) == Higher(0, Lower(center + t - d.radius, LastFrame(d)))
Window(center) == [t \in 1 .. NTemp |-> temporal_slot_frame(center, t - 1)]
Starts(g) == {s \in 0 .. LastFrame(g) : s % g.chunk = 0}
Chunk(g, start) == Lower(g.chunk, g.frames - start)
Count(start) == Chunk(d, start)

-----------------------------------------------------------------------------
(* walk_chunk: what the device does for a chunk of node g, in its order.   *)

Visit(op, n, next) == [op |-> op, n |-> n, next |-> next]

\* The first stage brought up to the estimate of frame `to`.
WalkBasic(g, w, to) ==
    FoldLeft(LAMBDA v, frame :
                 LET centers == Upto(v.center, Lower(frame + g.radius, LastFrame(g)))
                 IN  [v EXCEPT !.seq = @ \o [i \in DOMAIN centers |-> Visit("basic_center", centers[i], frame)]
                                         \o <<Visit("basic_frame", frame, 0)>>,
                               !.center = @ + Len(centers), !.frame = frame + 1],
             w, Upto(w.frame, to))

DoneBy(g, out, f) == Lower(out + g.radius, LastFrame(g)) <= f

WalkOutputs(g, w, start, f) ==
    LET outs == SelectSeq(Upto(w.out, start + Chunk(g, start) - 1), LAMBDA o : DoneBy(g, o, f))
    IN  [w EXCEPT !.seq = @ \o [i \in DOMAIN outs |-> Visit("output", outs[i], 0)], !.out = @ + Len(outs)]

walk_chunk(g, start, carry) ==
    LET last == LastFrame(g)
        end == start + Chunk(g, start)
        last_center == Lower(end - 1 + g.radius, last)
        first_center == IF carry THEN Lower(start + g.radius, last_center + 1) ELSE Higher(0, start - g.radius)
        frame == IF carry THEN Lower(start - 1 + 2 * g.radius, last) + 1 ELSE Higher(0, first_center - g.radius)
        center == IF carry THEN Lower(start - 1 + 3 * g.radius, last) + 1 ELSE Higher(0, frame - g.radius)
        visited == FoldLeft(LAMBDA w, f :
                                LET b == IF g.two_stage THEN WalkBasic(g, w, Lower(f + g.radius, last)) ELSE w
                                IN  WalkOutputs(g, [b EXCEPT !.seq = Append(@, Visit("center", f, b.out))], start, f),
                            [seq |-> <<>>, frame |-> frame, center |-> center, out |-> start],
                            Upto(first_center, last_center))
    IN  visited.seq \o [i \in 1 .. end - visited.out |-> Visit("output", visited.out + i - 1, 0)]

\* The walks of every node, start and way of starting.
Walks == [g \in Nodes |-> [start \in Starts(g) |-> [carry \in BOOLEAN |-> walk_chunk(g, start, carry)]]]
Walk(start, carry) == Walks[d][start][carry]

\* The centers whose windows are read as source frames.
Staging == IF d.two_stage THEN "basic_center" ELSE "center"
StagedWindows(start, carry) ==
    FlattenSeq([i \in DOMAIN Walk(start, carry) |->
                    IF Walk(start, carry)[i].op = Staging THEN Window(Walk(start, carry)[i].n) ELSE <<>>])

\* Every source frame a chunk's kernels read: windows, estimates and outputs.
Reads(start, carry) ==
    UNION {IF v.op \in {"center", "basic_center"} THEN ToSet(Window(v.n)) ELSE {v.n} : v \in ToSet(Walk(start, carry))}

\* The frames the ring does not hold yet, in the order they are staged, and the ring then.
Brought(ring, frames) ==
    FoldLeft(LAMBDA b, fn : IF b.ring[fn % src_ring] = fn THEN b
                            ELSE [ring |-> [b.ring EXCEPT ![fn % src_ring] = fn], uploads |-> Append(b.uploads, fn)],
             [ring |-> ring, uploads |-> <<>>], frames)

EmptyRing == [c \in Cells |-> Empty]

-----------------------------------------------------------------------------
NoTurn == [pc |-> "idle", start |-> -1, carry |-> FALSE, wait_upload |-> FALSE, uploads |-> <<>>, chain |-> 0, lane |-> 0,
           job |-> 0]

Init ==
    /\ d \in Nodes
    /\ state = [next_start |-> -1, promised |-> EmptyRing, tickets |-> <<>>, chain |-> 0, failed_chain |-> Empty,
                fresh_last |-> TRUE]
    /\ resident = EmptyRing
    /\ slot = [recording |-> FALSE, next_lane |-> 0, in_use |-> [l \in 0 .. 1 |-> FALSE], computed |-> 0]
    /\ turn = [t \in Threads |-> NoTurn]
    /\ jobs = <<>>
    /\ src = EmptyRing
    /\ sums = [i \in 0 .. NTemp - 1 |-> {}] /\ basic = sums
    /\ ref = [i \in 0 .. NTemp - 1 |-> Empty]
    /\ stores = <<>>
    /\ begun = 0

-----------------------------------------------------------------------------
(* RollTurn.                                                               *)

\* Mutant: only a chunk that starts afresh keeps its uploads back.
WaitUploadFresh(carry) == ~carry

\* The uploads wait for the kernels before them.
WaitUpload(carry) == ~carry \/ state.fresh_last

\* compute_chunk of a chunk nobody computes: planned under roll_mu.
Plan(t, start) ==
    /\ turn[t].pc = "idle" /\ begun < d.turns
    /\ \A u \in Threads : turn[u].start # start
    /\ LET carry == state.next_start = start /\ state.failed_chain # state.chain
           brought == Brought(IF carry THEN state.promised ELSE EmptyRing, StagedWindows(start, carry))
           chain == IF carry THEN state.chain ELSE state.chain + 1
       IN  /\ turn' = [turn EXCEPT ![t] = [NoTurn EXCEPT !.pc = "enter", !.start = start, !.carry = carry, !.chain = chain,
                                                         !.wait_upload = WaitUpload(carry), !.uploads = brought.uploads]]
           /\ state' = [state EXCEPT !.promised = brought.ring, !.fresh_last = ~carry, !.chain = chain,
                                     !.tickets = Append(@, t), !.next_start = start + Count(start)]
    /\ begun' = begun + 1
    /\ UNCHANGED <<d, resident, slot, jobs, device>>

AtTurn(t) == state.tickets # <<>> /\ Head(state.tickets) = t
Failed(t) == state.failed_chain = turn[t].chain

MayEnter(t) == AtTurn(t) /\ ~slot.recording /\ ~slot.in_use[slot.next_lane]

\* With the turn's run failed the lane is given back.
Entered(t) == [slot EXCEPT !.next_lane = 1 - @, !.recording = ~Failed(t), !.in_use[slot.next_lane] = ~Failed(t)]

\* enter(), which throws when the turn's run failed.
Enter(t) ==
    /\ turn[t].pc = "enter" /\ MayEnter(t)
    /\ slot' = Entered(t)
    /\ turn' = [turn EXCEPT ![t].pc = IF Failed(t) THEN "failed" ELSE "record", ![t].lane = slot.next_lane]
    /\ UNCHANGED <<d, state, resident, begun, jobs, device>>

\* record_uploads, the walk and submit().
Agrees(start, carry, ring) ==
    \A v \in ToSet(Walk(start, carry)) :
        v.op = Staging => \A fn \in ToSet(Window(v.n)) : ring[fn % src_ring] = fn

Recorded(t) == Brought(IF turn[t].carry THEN resident ELSE EmptyRing, turn[t].uploads).ring

Submission(t) ==
    [start |-> turn[t].start, carry |-> turn[t].carry, uploads |-> turn[t].uploads, after |-> slot.computed,
     wait_upload |-> turn[t].wait_upload, part |-> "all", at |-> "queued"]

NewStore(t) == [f \in turn[t].start .. turn[t].start + Count(turn[t].start) - 1 |-> Empty]

\* submit(), release(submitted) and leave(), which each notify.
Submit(t) ==
    /\ turn[t].pc = "record"
    /\ Agrees(turn[t].start, turn[t].carry, Recorded(t))
    /\ resident' = Recorded(t)
    /\ jobs' = Append(jobs, Submission(t))
    /\ stores' = Append(stores, NewStore(t))
    /\ slot' = [slot EXCEPT !.recording = FALSE, !.computed = Len(jobs) + 1]
    /\ turn' = [turn EXCEPT ![t].pc = "leave", ![t].job = Len(jobs) + 1]
    /\ UNCHANGED <<d, state, begun, src, sums, basic, ref>>

Leave(t) ==
    /\ turn[t].pc = "leave"
    /\ state' = [state EXCEPT !.tickets = Tail(@)]
    /\ turn' = [turn EXCEPT ![t].pc = "wait"]
    /\ UNCHANGED <<d, resident, slot, begun, jobs, device>>

\* submit() throws with the stages up to `part` submitted: Settle waits for those.
SubmitFails(t, part) ==
    /\ turn[t].pc = "record"
    /\ resident' = Recorded(t)
    /\ jobs' = Append(jobs, [Submission(t) EXCEPT !.part = part])
    /\ stores' = Append(stores, NewStore(t))
    /\ turn' = [turn EXCEPT ![t].pc = "settle", ![t].job = Len(jobs) + 1]
    /\ UNCHANGED <<d, state, slot, begun, src, sums, basic, ref>>

Settled(j) == jobs[j].at = IF jobs[j].part = "upload" THEN "uploaded" ELSE "computed"

\* Settle: release without a submission.
Settle(t) ==
    /\ turn[t].pc = "settle" /\ Settled(turn[t].job)
    /\ jobs' = [jobs EXCEPT ![turn[t].job].at = "dropped"]
    /\ slot' = [slot EXCEPT !.recording = FALSE, !.in_use[turn[t].lane] = FALSE]
    /\ turn' = [turn EXCEPT ![t].pc = "failed"]
    /\ UNCHANGED <<d, state, resident, begun, device>>

\* Recording throws, or submits nothing: the lane is released at once.
RecordFails(t) ==
    /\ turn[t].pc = "record"
    /\ resident' = Recorded(t)
    /\ slot' = [slot EXCEPT !.recording = FALSE, !.in_use[turn[t].lane] = FALSE]
    /\ turn' = [turn EXCEPT ![t].pc = "failed"]
    /\ UNCHANGED <<d, state, begun, jobs, device>>

\* Mutant: a failed chunk leaves the chunks planned behind it alone.
MarkedFailedNot(c) == [state EXCEPT !.next_start = IF state.chain = c THEN -1 ELSE @]

\* finish(true), but for the ticket.
MarkedFailed(c) == [state EXCEPT !.failed_chain = c, !.next_start = IF state.chain = c THEN -1 ELSE @]

\* Staging throws before the turn has entered.
StageFails(t) ==
    /\ turn[t].pc = "enter"
    /\ turn' = [turn EXCEPT ![t].pc = "failed"]
    /\ UNCHANGED <<d, state, resident, slot, begun, jobs, device>>

\* ~RollTurn: in ticket order.
Unwind(t) ==
    /\ turn[t].pc = "failed" /\ AtTurn(t)
    /\ state' = [MarkedFailed(turn[t].chain) EXCEPT !.tickets = Tail(@)]
    /\ turn' = [turn EXCEPT ![t] = NoTurn]
    /\ UNCHANGED <<d, resident, slot, begun, jobs, device>>

\* The lane's wait, and free_lane.
Wait(t) ==
    /\ turn[t].pc = "wait" /\ jobs[turn[t].job].at = "computed"
    /\ jobs' = [jobs EXCEPT ![turn[t].job].at = "done"]
    /\ slot' = [slot EXCEPT !.in_use[turn[t].lane] = FALSE]
    /\ turn' = [turn EXCEPT ![t] = NoTurn]
    /\ UNCHANGED <<d, state, resident, begun, device>>

\* The kernels are done and the deferred download cannot be submitted:
\* fail_after_leave, which never hides a newer run's failure.
WaitFails(t) ==
    /\ turn[t].pc = "wait" /\ jobs[turn[t].job].at = "computed"
    /\ jobs' = [jobs EXCEPT ![turn[t].job].at = "dropped"]
    /\ state' = [state EXCEPT !.failed_chain = IF @ < turn[t].chain THEN turn[t].chain ELSE @,
                              !.next_start = IF state.chain = turn[t].chain THEN -1 ELSE @]
    /\ slot' = [slot EXCEPT !.in_use[turn[t].lane] = FALSE]
    /\ turn' = [turn EXCEPT ![t] = NoTurn]
    /\ UNCHANGED <<d, resident, begun, device>>

-----------------------------------------------------------------------------
(* The device.  A stage waits for what it was recorded to wait for.        *)

Past(j) == j > 0 => jobs[j].at \in {"computed", "done", "dropped"}

MayUpload(j) == jobs[j].at = "queued" /\ (jobs[j].wait_upload => Past(jobs[j].after))
MayCompute(j) == jobs[j].at = "uploaded" /\ jobs[j].part # "upload" /\ Past(jobs[j].after)

UploadStarts(j) ==
    /\ MayUpload(j)
    /\ src' = [c \in Cells |-> IF \E fn \in ToSet(jobs[j].uploads) : fn % src_ring = c THEN Partial ELSE src[c]]
    /\ jobs' = [jobs EXCEPT ![j].at = "uploading"]
    /\ UNCHANGED <<d, host, sums, basic, ref, stores>>

UploadEnds(j) ==
    /\ jobs[j].at = "uploading"
    /\ src' = Brought(src, jobs[j].uploads).ring
    /\ jobs' = [jobs EXCEPT ![j].at = "uploaded"]
    /\ UNCHANGED <<d, host, sums, basic, ref, stores>>

KernelsStart(j) ==
    /\ MayCompute(j)
    /\ jobs' = [jobs EXCEPT ![j].at = "computing"]
    /\ UNCHANGED <<d, host, device>>

\* RollRun::slices: a center adds to the frames of its window that are the
\* ring's from `next` on.
Added(ring, center, next) ==
    [i \in 0 .. NTemp - 1 |->
        ring[i] \cup {<<center, f>> : f \in {g \in Higher(0, center - d.radius) .. Lower(center + d.radius, LastFrame(d)) :
                                            g >= next /\ g < next + Lower(NTemp, d.frames - next) /\ g % NTemp = i}}]

\* Mutant: the slice of a finished frame is not cleared.
FinishedKept(ring, frame) == ring

Finished(ring, frame) == [ring EXCEPT ![frame % NTemp] = {}]

Whole(ring, frame) ==
    ring[frame % NTemp] = {<<c, frame>> : c \in Higher(0, frame - d.radius) .. Lower(frame + d.radius, LastFrame(d))}

Sourced(frames) == \A fn \in frames : src[fn % src_ring] = fn

\* One visit of RollRun on the buffers m.
Visited(m, v) ==
    CASE v.op = "basic_center" -> [m EXCEPT !.basic = Added(@, v.n, v.next)]
      [] v.op = "basic_frame" -> [m EXCEPT !.ref[v.n % NTemp] = IF Whole(m.basic, v.n) THEN v.n ELSE Empty,
                                           !.basic = Finished(@, v.n)]
      [] v.op = "center" -> [m EXCEPT !.sums = IF d.two_stage /\ \E fn \in ToSet(Window(v.n)) : m.ref[fn % NTemp] # fn
                                               THEN [i \in DOMAIN @ |-> @[i] \cup {<<v.n, Empty>>}]
                                               ELSE Added(@, v.n, v.next)]
      [] v.op = "output" -> [m EXCEPT !.out[v.n] = IF Whole(m.sums, v.n) THEN v.n ELSE Empty,
                                      !.sums = Finished(@, v.n)]

Cleared == [i \in 0 .. NTemp - 1 |-> {}]

KernelsEnd(j) ==
    /\ jobs[j].at = "computing"
    /\ LET m == FoldLeft(Visited,
                         [sums |-> IF jobs[j].carry THEN sums ELSE Cleared, basic |-> IF jobs[j].carry THEN basic ELSE Cleared,
                          ref |-> ref, out |-> stores[j]],
                         Walk(jobs[j].start, jobs[j].carry))
       IN  sums' = m.sums /\ basic' = m.basic /\ ref' = m.ref /\ stores' = [stores EXCEPT ![j] = m.out]
    /\ jobs' = [jobs EXCEPT ![j].at = "computed"]
    /\ UNCHANGED <<d, host, src>>

Run(t) == Enter(t) \/ Submit(t) \/ Leave(t) \/ Settle(t) \/ Unwind(t) \/ Wait(t)
Fail(t) == StageFails(t) \/ RecordFails(t) \/ WaitFails(t) \/ \E part \in {"upload", "compute"} : SubmitFails(t, part)
Work(j) == UploadStarts(j) \/ UploadEnds(j) \/ KernelsStart(j) \/ KernelsEnd(j)

Next ==
    \/ \E t \in Threads : (\E start \in Starts(d) : Plan(t, start)) \/ Run(t) \/ Fail(t)
    \/ \E j \in DOMAIN jobs : Work(j)

Spec == Init /\ [][Next]_vars

-----------------------------------------------------------------------------
\* While a chunk's kernels run, every source frame they read is in its ring
\* buffer, whatever the other lane uploads meanwhile ("the ring holds what
\* both read", src_ring).
RingHoldsWindows ==
    \A j \in DOMAIN jobs : jobs[j].at = "computing" => Sourced(Reads(jobs[j].start, jobs[j].carry))

\* A chunk store that a request gets holds, for every frame, the sums of
\* exactly the centers around it: nothing dropped, nothing left over from the
\* frame that had the slice before, across chunks that carry on, fail or
\* start afresh.
StoresWhole ==
    \A j \in DOMAIN jobs : jobs[j].at = "done" => \A f \in DOMAIN stores[j] : stores[j][f] = f

\* "rolling plan and device state disagree" and "rolling window tables
\* overflow" are never thrown: a turn that records finds the frames its plan
\* counted on, and its window tables fit roll_table_words.
TableWords(start, carry) ==
    NTemp * (Len(SelectSeq(Walk(start, carry), LAMBDA v : v.op = "basic_center"))
             + (IF d.two_stage THEN 2 ELSE 1) * Len(SelectSeq(Walk(start, carry), LAMBDA v : v.op = "center")))
RecordingAgrees ==
    \A t \in Threads : turn[t].pc = "record" =>
        /\ Agrees(turn[t].start, turn[t].carry, Recorded(t))
        /\ TableWords(turn[t].start, turn[t].carry) <= 2 * (d.chunk + 2 * roll_reach + 2) * 2 * NTemp

\* Tickets, lanes and semaphores never wait for each other in a circle: while
\* a chunk is computed, some thread can go on or the device can.
SomeoneMoves ==
    (\E t \in Threads : turn[t].pc # "idle") =>
        \/ \E t \in Threads :
              \/ turn[t].pc = "record" \/ turn[t].pc = "leave"
              \/ turn[t].pc = "enter" /\ MayEnter(t)
              \/ turn[t].pc = "failed" /\ AtTurn(t)
              \/ turn[t].pc = "settle" /\ Settled(turn[t].job)
              \/ turn[t].pc = "wait" /\ jobs[turn[t].job].at = "computed"
        \/ \E j \in DOMAIN jobs : MayUpload(j) \/ jobs[j].at = "uploading" \/ MayCompute(j) \/ jobs[j].at = "computing"
=============================================================================
