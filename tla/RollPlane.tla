------------------------------ MODULE RollPlane -----------------------------
(***************************************************************************)
(* One plane's state on one rolling slot (RollState of                     *)
(* src/cuda/common/group_driver.cpp): chunks are planned (RollTurn), walked*)
(* in the order of their tickets (walk_chunk, PlaneRun) and run on three   *)
(* streams: `up` for the source frames, `main` for the kernels and `down`  *)
(* for the finished frames.  The host queues ahead of the device; an event *)
(* is a position of a stream, and an operation waits for the positions     *)
(* recorded last when it was queued.                                       *)
(*                                                                         *)
(* Pixels are abstracted to what they should be: a buffer holds the number *)
(* of the frame it is right for, Empty, or Bad when something it was made  *)
(* from was not right.  The choice of a slot and the threads of several    *)
(* chunks are in RollTurns.                                                *)
(***************************************************************************)
EXTENDS Integers, Sequences, FiniteSets, SequencesExt

\* The nodes considered: [radius, frames, chunk, two_stage, basic, guide,
\* batch_out, turns]: basic when the first stage filters the plane (otherwise
\* its estimate is the source), turns the bound on the chunks planned in one
\* behaviour.
CONSTANT Nodes

PlaneAssumption ==
    \A n \in Nodes : /\ n.radius \in Nat \ {0} /\ n.frames \in Nat \ {0} /\ n.chunk \in Nat \ {0}
                     /\ n.two_stage \in BOOLEAN /\ n.basic \in BOOLEAN /\ n.guide \in BOOLEAN /\ n.batch_out \in BOOLEAN
                     /\ ~(n.two_stage /\ n.guide)
                     /\ n.turns \in Nat

Empty == -1
Bad == -2

VARIABLES d,          \* the node (Driver), fixed
          plans,      \* planned chunks that have not entered, oldest first
          promised,   \* RollState::promised
          next_start, chain, failed_chain, issued,   \* RollState
          turn,       \* the entered chunk and its place in walk_chunk
          resident,   \* RollState::resident
          event,      \* the events: positions of the stream each is recorded on
          queue,      \* per stream: the operations queued
          done,       \* per stream: how many of them have run
          src, ref,   \* RollState::src_frames, ref_frames
          sums, basic,\* the rings of sums of the (second) stage and of the first
          out,        \* Slot::out
          store,      \* what the chunk stores hold: <<turn, frame, value>>
          left        \* chunks whose work is queued: [turn, start, count, stream, at]

planVars == <<plans, promised, next_start, chain, failed_chain, issued>>
hostVars == <<turn, resident, event, left>>
deviceVars == <<src, ref, sums, basic, out, store>>
vars == <<d, planVars, hostVars, queue, done, deviceVars>>

-----------------------------------------------------------------------------
(* Frames, windows and rings (temporal.hpp, src_ring).                     *)

Smaller(a, b) == IF a < b THEN a ELSE b
Larger(a, b) == IF a > b THEN a ELSE b

LastFrame == d.frames - 1
NT == 2 * d.radius + 1
Frames == 0 .. LastFrame

temporal_first(center) == center - Smaller(center, d.radius)
temporal_last(center) == center + Smaller(d.radius, LastFrame - center)
temporal_slot_frame(center, slot) ==
    center + Larger(-center, Smaller(slot - d.radius, LastFrame - center))

SrcRing == (IF d.two_stage THEN 4 * d.radius + 1 ELSE NT) + 1

\* The frames of a center's window, slot by slot.
Window(center) == [t \in 1 .. NT |-> temporal_slot_frame(center, t - 1)]
WindowSet(center) == ToSet(Window(center))

SrcCell(fn) == fn % SrcRing
Cell(fn) == fn % NT

Starts == {s \in Frames : s % d.chunk = 0}
CountAt(start) == Smaller(d.chunk, d.frames - start)

-----------------------------------------------------------------------------
(* walk_chunk: where a chunk starts.                                       *)

LastCenter(start) == temporal_last(start + CountAt(start) - 1)

FirstCenter(start, carry) ==
    IF carry THEN Smaller(start + d.radius, LastCenter(start) + 1) ELSE Larger(0, start - d.radius)

\* The first stage's next estimate and next center.
FirstFrame(start, carry) ==
    IF carry THEN Smaller(start - 1 + 2 * d.radius, LastFrame) + 1
             ELSE Larger(0, FirstCenter(start, carry) - d.radius)
FirstBasic(start, carry) ==
    IF carry THEN Smaller(start - 1 + 3 * d.radius, LastFrame) + 1
             ELSE Larger(0, FirstFrame(start, carry) - d.radius)

\* The centers whose windows walk_chunk uploads, in its order: the first
\* stage's with two stages.
UploadCenters(start, carry) ==
    LET upto == LastCenter(start)
        reach == Smaller(Smaller(upto + d.radius, LastFrame) + d.radius, LastFrame)
        from == IF d.two_stage THEN FirstBasic(start, carry) ELSE FirstCenter(start, carry)
        to == IF d.two_stage THEN reach ELSE upto
    IN  IF FirstCenter(start, carry) > upto THEN <<>> ELSE [i \in 1 .. to - from + 1 |-> from + i - 1]

\* The frames of a window that a ring does not hold yet, in the order they
\* are brought in, and the ring then.
Bring(ring, window) ==
    FoldLeft(LAMBDA b, fn : IF b.ring[SrcCell(fn)] = fn THEN b
                            ELSE [ring |-> [b.ring EXCEPT ![SrcCell(fn)] = fn],
                                  frames |-> Append(b.frames, fn)],
             [ring |-> ring, frames |-> <<>>], window)

-----------------------------------------------------------------------------
NoTurn == [on |-> FALSE]
EmptyRing == [i \in 0 .. SrcRing - 1 |-> Empty]
Streams == {"up", "main", "down"}

Init ==
    /\ d \in Nodes
    /\ plans = <<>>
    /\ promised = EmptyRing
    /\ next_start = -1 /\ chain = 0 /\ failed_chain = -1 /\ issued = 0
    /\ turn = NoTurn
    /\ resident = EmptyRing
    /\ event = [read |-> [i \in 0 .. SrcRing - 1 |-> 0], uploaded |-> [i \in 0 .. SrcRing - 1 |-> 0],
                ref_read |-> [i \in 0 .. NT - 1 |-> 0], ref_uploaded |-> [i \in 0 .. NT - 1 |-> 0],
                out_free |-> 0]
    /\ queue = [s \in Streams |-> <<>>]
    /\ done = [s \in Streams |-> 0]
    /\ src = EmptyRing
    /\ ref = [i \in 0 .. NT - 1 |-> Empty]
    /\ sums = [i \in 0 .. NT - 1 |-> <<>>]
    /\ basic = [i \in 0 .. NT - 1 |-> <<>>]
    /\ out = [i \in 0 .. d.chunk - 1 |-> Empty]
    /\ store = {}
    /\ left = {}

\* RollTurn(): a chunk that follows the last one planned carries on from it,
\* unless that one's run has failed.
PlanTurn(start) ==
    LET carry == next_start = start /\ failed_chain # chain
        windows == FlattenSeq([i \in 1 .. Len(UploadCenters(start, carry)) |->
                                   Window(UploadCenters(start, carry)[i])])
        brought == Bring(IF carry THEN promised ELSE EmptyRing, windows)
        fresh == IF carry THEN chain ELSE chain + 1
    IN  /\ issued < d.turns
        /\ plans' = Append(plans, [id |-> issued, start |-> start, carry |-> carry, chain |-> fresh,
                                   uploads |-> brought.frames])
        /\ promised' = brought.ring
        /\ chain' = fresh
        /\ issued' = issued + 1
        /\ next_start' = start + CountAt(start)
        /\ UNCHANGED <<d, failed_chain, hostVars, queue, done, deviceVars>>

\* Mutant: a failure is forgotten: the chunks planned behind it carry on.
MarkFailedForgotten(c) == UNCHANGED failed_chain /\ next_start' = IF chain = c THEN -1 ELSE next_start

\* finish(true).
MarkFailed(c) ==
    /\ failed_chain' = c
    /\ next_start' = IF chain = c THEN -1 ELSE next_start

\* The oldest plan ends without a walk: its run has failed (enter() throws),
\* or its chunk failed while it was staged (~RollTurn waits for its turn).
DropTurn ==
    /\ ~turn.on /\ plans # <<>>
    /\ MarkFailed(Head(plans).chain)
    /\ plans' = Tail(plans)
    /\ UNCHANGED <<d, promised, chain, issued, hostVars, queue, done, deviceVars>>

\* enter() returns; queue_plane begins.  A chunk that starts afresh forgets
\* the resident frames and clears the sums.
Enter ==
    /\ ~turn.on /\ plans # <<>>
    /\ LET p == Head(plans)
       IN  /\ p.chain # failed_chain
           /\ turn' = [on |-> TRUE, plan |-> p, f |-> FirstCenter(p.start, p.carry),
                       frame |-> FirstFrame(p.start, p.carry), center |-> FirstBasic(p.start, p.carry),
                       out |-> p.start, ran |-> FALSE, staged |-> 0, out_free |-> FALSE]
           /\ resident' = IF p.carry THEN resident ELSE EmptyRing
           /\ queue' = IF p.carry THEN queue
                       ELSE [queue EXCEPT !["main"] = Append(@, [op |-> "clear", waits |-> {}])]
    /\ plans' = Tail(plans)
    /\ UNCHANGED <<d, promised, next_start, chain, failed_chain, issued, event, left, done, deviceVars>>

-----------------------------------------------------------------------------
(* PlaneRun's visits: what each queues, and the events it records.         *)

\* Mutant: an upload does not wait for the readers of the frame it replaces.
UploadOpEager(fn, ev) == [op |-> "upload", fn |-> fn, waits |-> {}]

\* One frame's upload, behind the last reader of the buffers it goes to.
UploadOp(fn, ev) ==
    [op |-> "upload", fn |-> fn,
     waits |-> {<<"main", ev.read[SrcCell(fn)]>>} \union
               (IF d.guide THEN {<<"main", ev.ref_read[Cell(fn)]>>} ELSE {})]

\* upload(center): the window frames the device does not hold.
Upload(center) == Bring(resident, Window(center))
UploadsQueued(frames) ==
    queue["up"] \o [i \in 1 .. Len(frames) |-> UploadOp(frames[i], event)]
UploadsRecorded(frames) ==
    LET at(fn) == Len(queue["up"]) + CHOOSE i \in 1 .. Len(frames) : frames[i] = fn
        new(i, ev, cell(_)) == IF \E fn \in ToSet(frames) : cell(fn) = i
                               THEN at(CHOOSE fn \in ToSet(frames) : cell(fn) = i) ELSE ev[i]
    IN  [event EXCEPT
            !.uploaded = [i \in DOMAIN @ |-> new(i, @, SrcCell)],
            !.ref_uploaded = IF d.guide THEN [i \in DOMAIN @ |-> new(i, @, Cell)] ELSE @]

\* Mutant: the kernels of a center do not wait for its window's uploads.
PointWaitsNone(center, ev) == {}

\* point(center): the kernels of a center wait for its window's uploads.
PointWaits(center, ev) ==
    {<<"up", ev.uploaded[SrcCell(fn)]>> : fn \in WindowSet(center)} \union
    (IF d.guide THEN {<<"up", ev.ref_uploaded[Cell(fn)]>> : fn \in WindowSet(center)} ELSE {})

\* mark_read(center), recorded at position at of the kernels' stream.
MarkRead(center, ev, at) ==
    LET cells(cell(_)) == {cell(fn) : fn \in WindowSet(center)}
    IN  [ev EXCEPT !.read = [i \in DOMAIN @ |-> IF i \in cells(SrcCell) THEN at ELSE @[i]],
                   !.ref_read = IF d.guide THEN [i \in DOMAIN @ |-> IF i \in cells(Cell) THEN at ELSE @[i]] ELSE @]

\* More of the first stage is due before center f of the second.
BasicDue == d.two_stage /\ turn.frame <= Smaller(turn.f + d.radius, LastFrame)
\* Center f is the next to run, or has run and its finished frames are due.
Walking == turn.on /\ turn.f <= LastCenter(turn.plan.start)
BasicCenterNext == Walking /\ ~turn.ran /\ BasicDue /\ turn.center <= Smaller(turn.frame + d.radius, LastFrame)
CenterNext == Walking /\ ~turn.ran /\ ~BasicDue
ChunkEnd == turn.plan.start + CountAt(turn.plan.start)

OutputDue == turn.out < ChunkEnd /\ Smaller(turn.out + d.radius, LastFrame) <= turn.f

QueueCenter(center, op, uploaded) ==
    LET frames == IF uploaded THEN Upload(center).frames ELSE <<>>
        ev == IF uploaded THEN UploadsRecorded(frames) ELSE event
        at == Len(queue["main"]) + 1
    IN  /\ resident' = IF uploaded THEN Upload(center).ring ELSE resident
        /\ queue' = [queue EXCEPT !["up"] = UploadsQueued(frames),
                                  !["main"] = Append(@, op @@ [waits |-> PointWaits(center, ev)])]
        /\ event' = MarkRead(center, ev, at)

QueueUploads(center) ==
    /\ resident' = Upload(center).ring
    /\ queue' = [queue EXCEPT !["up"] = UploadsQueued(Upload(center).frames)]
    /\ event' = UploadsRecorded(Upload(center).frames)

\* basic_center(center, frame): without a first stage for the plane, its
\* uploads alone.
BasicCenter ==
    /\ BasicCenterNext
    /\ IF d.basic
       THEN QueueCenter(turn.center, [op |-> "basic", center |-> turn.center, next |-> turn.frame], TRUE)
       ELSE QueueUploads(turn.center)
    /\ turn' = [turn EXCEPT !.center = @ + 1, !.staged = @ + Len(Upload(turn.center).frames)]
    /\ UNCHANGED <<d, planVars, left, done, deviceVars>>

\* basic_frame(frame): the estimate from the sums, or a copy of the source.
BasicFrame ==
    /\ Walking /\ ~turn.ran /\ BasicDue
    /\ turn.center > Smaller(turn.frame + d.radius, LastFrame)
    /\ queue' = [queue EXCEPT !["main"] = Append(@, [op |-> IF d.basic THEN "estimate" ELSE "copy",
                                                         frame |-> turn.frame, waits |-> {}])]
    /\ event' = [event EXCEPT !.read[SrcCell(turn.frame)] = Len(queue["main"]) + 1]
    /\ turn' = [turn EXCEPT !.frame = @ + 1]
    /\ UNCHANGED <<d, planVars, resident, left, done, deviceVars>>

\* center(f, out).
Center ==
    /\ CenterNext
    /\ QueueCenter(turn.f, [op |-> "center", center |-> turn.f, next |-> turn.out], ~d.two_stage)
    /\ turn' = [turn EXCEPT !.ran = TRUE,
                            !.staged = IF d.two_stage THEN @ ELSE @ + Len(Upload(turn.f).frames)]
    /\ UNCHANGED <<d, planVars, left, done, deviceVars>>

\* The first finish of a chunk waits until s.out is free.
OutFreeWaits == IF d.batch_out /\ ~turn.out_free THEN {<<"down", event.out_free>>} ELSE {}

\* output(frame), after a center or, at the end of the walk, of the clip.
Output ==
    /\ turn.on /\ turn.out < ChunkEnd
    /\ \/ Walking /\ turn.ran /\ OutputDue
       \/ ~Walking
    /\ queue' = [queue EXCEPT !["main"] =
                     Append(@, [op |-> "finish", frame |-> turn.out, index |-> turn.out - turn.plan.start,
                                id |-> turn.plan.id, waits |-> OutFreeWaits])]
    /\ event' = [event EXCEPT !.read[SrcCell(turn.out)] = Len(queue["main"]) + 1]
    /\ turn' = [turn EXCEPT !.out = @ + 1, !.out_free = d.batch_out]
    /\ UNCHANGED <<d, planVars, resident, left, done, deviceVars>>

NextCenter ==
    /\ Walking /\ turn.ran /\ ~OutputDue
    /\ turn' = [turn EXCEPT !.f = @ + 1, !.ran = FALSE]
    /\ UNCHANGED <<d, planVars, resident, event, left, queue, done, deviceVars>>

\* Mutant: the event is recorded ahead of the last operation.
RecordedBehindEarly(operations) == Len(operations) - 1

\* An event recorded behind the operations queued on a stream.
RecordedBehind(operations) == Len(operations)

\* The downloads, the chunk's event, leave().
Leave ==
    /\ turn.on /\ ~Walking /\ turn.out = ChunkEnd
    /\ LET n == CountAt(turn.plan.start)
           computed == Len(queue["main"])
           downloads == [i \in 1 .. n |-> [op |-> "download", index |-> i - 1, id |-> turn.plan.id,
                                           frame |-> turn.plan.start + i - 1,
                                           waits |-> {<<"main", computed>>}]]
           q == IF d.batch_out THEN [queue EXCEPT !["down"] = @ \o downloads] ELSE queue
           stream == IF d.batch_out THEN "down" ELSE "main"
       IN  /\ queue' = q
           /\ event' = IF d.batch_out THEN [event EXCEPT !.out_free = RecordedBehind(q["down"])] ELSE event
           /\ left' = left \union {[plan |-> turn.plan, stream |-> stream, at |-> RecordedBehind(q[stream])]}
    /\ turn' = NoTurn
    /\ UNCHANGED <<d, planVars, resident, done, deviceVars>>

Idle(s) == done[s] = Len(queue[s])

\* A call throws while the chunk is queued: Drain synchronizes the streams,
\* then ~RollTurn fails the run.
FailTurn ==
    /\ turn.on /\ \A s \in Streams : Idle(s)
    /\ MarkFailed(turn.plan.chain)
    /\ turn' = NoTurn
    /\ UNCHANGED <<d, plans, promised, chain, issued, resident, event, left, queue, done, deviceVars>>

-----------------------------------------------------------------------------
(* The device: each stream runs its operations in order.                   *)

NextOp(s) == queue[s][done[s] + 1]
Ready(s) == /\ ~Idle(s)
            /\ \A w \in NextOp(s).waits : done[w[1]] >= w[2]
Ran(s) == done' = [done EXCEPT ![s] = @ + 1]

RunUpload ==
    /\ Ready("up")
    /\ LET fn == NextOp("up").fn
       IN  /\ src' = [src EXCEPT ![SrcCell(fn)] = fn]
           /\ ref' = IF d.guide THEN [ref EXCEPT ![Cell(fn)] = fn] ELSE ref
    /\ Ran("up")
    /\ UNCHANGED <<d, planVars, hostVars, queue, sums, basic, out, store>>

\* What a center adds is right when its window is: the source frames, and
\* the guide's frames or the first stage's estimates.
WindowHeld(center) == \A fn \in WindowSet(center) : src[SrcCell(fn)] = fn
GuideHeld(center) == \A fn \in WindowSet(center) : ref[Cell(fn)] = fn
AddTo(ring, op, right) ==
    LET targets == Larger(op.next, op.center - d.radius) .. temporal_last(op.center)
    IN  [i \in DOMAIN ring |->
            IF \E f \in targets : Cell(f) = i
            THEN Append(ring[i], <<CHOOSE f \in targets : Cell(f) = i, IF right THEN op.center ELSE Bad>>)
            ELSE ring[i]]

\* The sums of a frame: its centers once each, in ascending order.
Complete(f) == [i \in 1 .. temporal_last(f) - temporal_first(f) + 1 |-> <<f, temporal_first(f) + i - 1>>]
Finished(f, ring) == IF src[SrcCell(f)] = f /\ ring[Cell(f)] = Complete(f) THEN f ELSE Bad

\* The next operation of the kernels' stream is an op and may run.
RunsNext(op) == Ready("main") /\ NextOp("main").op = op

\* clear_sums.
RunClear ==
    /\ RunsNext("clear")
    /\ sums' = [i \in DOMAIN sums |-> <<>>]
    /\ basic' = [i \in DOMAIN basic |-> <<>>]
    /\ UNCHANGED <<ref, out, store>>

\* The kernels of a first-stage center.
RunBasic ==
    /\ RunsNext("basic")
    /\ basic' = AddTo(basic, NextOp("main"), WindowHeld(NextOp("main").center))
    /\ UNCHANGED <<ref, sums, out, store>>

\* The first stage's estimate of a frame, from its sums, which are cleared.
RunEstimate ==
    /\ RunsNext("estimate")
    /\ LET frame == NextOp("main").frame
       IN  /\ ref' = [ref EXCEPT ![Cell(frame)] = Finished(frame, basic)]
           /\ basic' = [basic EXCEPT ![Cell(frame)] = <<>>]
    /\ UNCHANGED <<sums, out, store>>

\* The estimate of a plane that the first stage leaves alone: its source.
RunCopy ==
    /\ RunsNext("copy")
    /\ LET frame == NextOp("main").frame
       IN  ref' = [ref EXCEPT ![Cell(frame)] = src[SrcCell(frame)]]
    /\ UNCHANGED <<sums, basic, out, store>>

\* The kernels of a center.
RunCenter ==
    /\ RunsNext("center")
    /\ LET center == NextOp("main").center
       IN  sums' = AddTo(sums, NextOp("main"),
                         WindowHeld(center) /\ (d.guide \/ d.two_stage => GuideHeld(center)))
    /\ UNCHANGED <<ref, basic, out, store>>

\* A finished frame goes to s.out, from where it is downloaded with its
\* chunk, or (one by one) at once; its sums are cleared.
RunFinish ==
    /\ RunsNext("finish")
    /\ LET op == NextOp("main")
           value == Finished(op.frame, sums)
       IN  /\ out' = [out EXCEPT ![IF d.batch_out THEN op.index ELSE 0] = value]
           /\ sums' = [sums EXCEPT ![Cell(op.frame)] = <<>>]
           /\ store' = IF d.batch_out THEN store ELSE store \union {<<op.id, op.frame, value>>}
    /\ UNCHANGED <<ref, basic>>

RunMain ==
    /\ RunClear \/ RunBasic \/ RunEstimate \/ RunCopy \/ RunCenter \/ RunFinish
    /\ Ran("main")
    /\ UNCHANGED <<d, planVars, hostVars, queue, src>>

RunDownload ==
    /\ Ready("down")
    /\ LET op == NextOp("down")
       IN  store' = store \union {<<op.id, op.frame, out[op.index]>>}
    /\ Ran("down")
    /\ UNCHANGED <<d, planVars, hostVars, queue, src, ref, sums, basic, out>>

Host == \/ \E start \in Starts : PlanTurn(start)
        \/ DropTurn \/ Enter \/ BasicCenter \/ BasicFrame \/ Center \/ Output
        \/ NextCenter \/ Leave \/ FailTurn
Device == RunUpload \/ RunMain \/ RunDownload

Next == Host \/ Device
Spec == Init /\ [][Next]_vars

-----------------------------------------------------------------------------
\* "rolling plan and device state disagree" (std::logic_error in upload) is
\* never thrown: the frames a visit finds missing are the next ones that the
\* plan staged, though the plan was made before the chunks ahead had run.
PlanAgrees ==
    /\ turn.on =>
         LET missing(c) == Upload(c).frames
             planned(frames) == /\ turn.staged + Len(frames) <= Len(turn.plan.uploads)
                                /\ \A i \in DOMAIN frames : turn.plan.uploads[turn.staged + i] = frames[i]
         IN  /\ BasicCenterNext => planned(missing(turn.center))
             /\ CenterNext /\ ~d.two_stage => planned(missing(turn.f))
             /\ turn.out = ChunkEnd /\ ~Walking => turn.staged = Len(turn.plan.uploads)

\* "the kernels that read the buffer wait for its upload"
\* (group_driver.cpp:77): whatever is next on the kernels' stream, and would
\* run now, finds the source frames that it reads in their buffers.
ReadBy(op) == CASE op.op \in {"basic", "center"} -> WindowSet(op.center)
                [] op.op \in {"estimate", "copy", "finish"} -> {op.frame}
                [] op.op = "clear" -> {}
ReadersWait == Ready("main") => \A fn \in ReadBy(NextOp("main")) : src[SrcCell(fn)] = fn

\* Every frame that reaches a chunk store is the one that belongs there, and
\* was finished from its own source frame and from every center of its
\* window, once and in ascending order, each of which read the right frames:
\* no upload overtakes a reader, no kernel its uploads, no finish a download,
\* whether the chunk carried on or started afresh.
FramesRight == \A x \in store : x[3] = x[2]

\* A chunk whose event has passed has all of its frames in its store.
StoreComplete ==
    \A l \in left : done[l.stream] >= l.at =>
        \A f \in l.plan.start .. l.plan.start + CountAt(l.plan.start) - 1 : <<l.plan.id, f, f>> \in store
=============================================================================
