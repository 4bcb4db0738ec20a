---------------------------- MODULE ImageRolling ----------------------------
(***************************************************************************)
(* The whole-image filters on CUDA, NLH and TWSC (cuda/common/             *)
(* image_filter.cpp).  A request of the rolling output computes a chunk: a *)
(* turn on a slot, whose rings hold source frames and the open sums of a   *)
(* window, and which carries on from the chunk before or starts afresh.  A *)
(* request of the spatial and legacy output has a slot for one frame.      *)
(*                                                                         *)
(* A slot's stream runs what is queued on it in order and alone uses the   *)
(* slot's rings, so a job is one step of the device.  What it reads of     *)
(* the host (staging sets and page-locked frames, which a request holds    *)
(* for the same time) it reads when it runs.  A center's slice is the      *)
(* center's number; a sum is the sequence of its slices.  Who of those that*)
(* wait gets a staging set or a slot is SlotPool's affair ("fifo"); chunks *)
(* are ordered and cached as in RollingDriver, and the output permit that  *)
(* a request takes last is held by requests that wait for nothing more.    *)
(***************************************************************************)
EXTENDS Integers, Sequences, FiniteSets, FiniteSetsExt, SequencesExt

CONSTANTS Threads,       \* VapourSynth's threads
          Nodes,         \* the nodes to try: [rolling, radius, frames, chunk, slots, sets, requests]
          CarryBacklog   \* kCarryBacklog

VARIABLES d,          \* the node (ImageData), fixed; d.requests bounds the requests
          roll,       \* slot -> next_start, chain, failed_chain, issued, serving
          leased,     \* slots leased from d.pool
          stream,     \* slot -> the jobs queued and not done
          ring, sums, \* slot -> cell -> source frame, open sum
          staging,    \* set -> what is staged in it
          request,    \* thread -> its request
          served      \* requests so far

vars == <<d, roll, leased, stream, ring, sums, staging, request, served>>

None == -1
Wrong == -2
Slots == 1 .. d.slots    \* d.slots, one per stream
Sets == 1 .. d.sets      \* the staging sets
temporal_first(n, radius) == Max({0, n - radius})
temporal_last(n, radius) == Min({n + radius, d.frames - 1})
Upto(a, b) == [i \in 1 .. Max({0, b - a + 1}) |-> a + i - 1]
WindowOf(n) == Upto(temporal_first(n, d.radius), temporal_last(n, d.radius))
CountAt(start) == Min({d.chunk, d.frames - start})
Starts == {n \in 0 .. d.frames - 1 : d.rolling => n % d.chunk = 0}

roll_ring == 2 * d.radius + 1
Cell(frame) == frame % roll_ring
Cells == 0 .. roll_ring - 1

Idle == [pc |-> "idle", start |-> None, set |-> 0, slot |-> 0, carry |-> FALSE, ticket |-> 0, chain |-> 0,
         entered |-> FALSE, serial |-> 0, result |-> <<>>]

Init ==
    /\ d \in Nodes
    /\ roll = [s \in Slots |-> [next_start |-> None, chain |-> 0, failed_chain |-> None, issued |-> 0, serving |-> 0]]
    /\ leased = {}
    /\ stream = [s \in Slots |-> <<>>]
    /\ ring = [s \in Slots |-> [c \in Cells |-> None]]
    /\ sums = [s \in Slots |-> [c \in Cells |-> <<>>]]
    /\ staging = [k \in Sets |-> <<>>]
    /\ request = [t \in Threads |-> Idle]
    /\ served = 0

Is(t, place) == request[t].pc = place
Goto(t, place) == request' = [request EXCEPT ![t].pc = place]
Mine(t) == roll[request[t].slot]
FreeSets == Sets \ {request[t].set : t \in Threads}

\* Mutant: a chunk takes its ticket before it has a staging set.
AfterTicketFirst(place) ==
    CASE place = "idle" -> IF d.rolling THEN "plan" ELSE "set"
      [] place = "plan" -> "set"
      [] place = "set" -> "stage"

\* What a request does before it stages its frames, in order.
After(place) ==
    CASE place = "idle" -> "set"
      [] place = "set" -> IF d.rolling THEN "plan" ELSE "stage"
      [] place = "plan" -> "stage"

\* The cache has one request compute a chunk at a time.
Ask(t, start) ==
    /\ Is(t, "idle") /\ served < d.requests
    /\ d.rolling => \A u \in Threads : request[u].start # start
    /\ served' = served + 1
    /\ request' = [request EXCEPT ![t] = [Idle EXCEPT !.pc = After("idle"), !.start = start, !.serial = request[t].serial + 1]]
    /\ UNCHANGED <<d, roll, leased, stream, ring, sums, staging>>

\* The request waits for a staging set.
TakeSet(t) ==
    /\ Is(t, "set") /\ FreeSets # {}
    /\ request' = [request EXCEPT ![t] = [@ EXCEPT !.pc = After("set"), !.set = Min(FreeSets)]]
    /\ UNCHANGED <<d, roll, leased, stream, ring, sums, staging, served>>

-----------------------------------------------------------------------------
(* RollTurn.                                                               *)

Backlog(s) == roll[s].issued - roll[s].serving
IdleSlot == Min({s \in Slots : \A u \in Slots : Backlog(s) <= Backlog(u)})

Followers(start) == {s \in Slots : roll[s].next_start = start /\ roll[s].failed_chain # roll[s].chain}

CarriesOn(start) ==
    /\ Followers(start) # {}
    /\ LET s == Min(Followers(start))
       IN  Backlog(s) < CarryBacklog \/ Backlog(IdleSlot) >= Backlog(s)

Chain(s, carry) == IF carry THEN roll[s].chain ELSE roll[s].chain + 1

LastCenter(start) == temporal_last(start + CountAt(start) - 1, d.radius)
FirstCenter(start, carry) ==
    IF carry THEN Min({start + d.radius, LastCenter(start) + 1}) ELSE temporal_first(start, d.radius)

FirstUpload(start, carry) ==
    IF carry THEN temporal_last(start - 1, 2 * d.radius) + 1 ELSE temporal_first(start, 2 * d.radius)
Uploads(start, carry) ==
    Upto(FirstUpload(start, carry), temporal_last(start + CountAt(start) - 1, 2 * d.radius))

PlanTurn(t) ==
    /\ Is(t, "plan")
    /\ LET start == request[t].start
           carry == CarriesOn(start)
           s == IF carry THEN Min(Followers(start)) ELSE IdleSlot
       IN  /\ roll' = [roll EXCEPT ![s] = [@ EXCEPT !.chain = Chain(s, carry), !.issued = @ + 1,
                                                    !.next_start = start + CountAt(start)]]
           /\ request' = [request EXCEPT ![t] = [@ EXCEPT !.pc = After("plan"), !.slot = s, !.carry = carry,
                                                          !.ticket = roll[s].issued, !.chain = Chain(s, carry)]]
    /\ UNCHANGED <<d, leased, stream, ring, sums, staging, served>>

\* The frames are staged, or kept for their page-locked planes, before the turn.
Stage(t) ==
    /\ Is(t, "stage")
    /\ staging' = [staging EXCEPT ![request[t].set] =
                      IF d.rolling THEN Uploads(request[t].start, request[t].carry) ELSE WindowOf(request[t].start)]
    /\ Goto(t, "enter")
    /\ UNCHANGED <<d, roll, leased, stream, ring, sums, served>>

\* A frame is not to be had, or holds a sample that is not finite.
StageFails(t) ==
    /\ Is(t, "stage")
    /\ Goto(t, "unwind")
    /\ UNCHANGED <<d, roll, leased, stream, ring, sums, staging, served>>

AtTurn(t) == Mine(t).serving = request[t].ticket

\* Mutant: a chunk runs although the one it was to carry on from failed.
RunAnyway(t) == FALSE

RunFailed(t) == Mine(t).failed_chain = request[t].chain

\* enter() returns or throws; the slot of a window is leased.
Enter(t) ==
    /\ Is(t, "enter")
    /\ \/ /\ d.rolling /\ AtTurn(t)
          /\ request' = [request EXCEPT ![t] = [@ EXCEPT !.entered = TRUE, !.pc = IF RunFailed(t) THEN "unwind" ELSE "queue"]]
          /\ UNCHANGED leased
       \/ /\ ~d.rolling
          /\ \E s \in Slots \ leased :
                /\ leased' = leased \cup {s}
                /\ request' = [request EXCEPT ![t] = [@ EXCEPT !.slot = s, !.pc = "queue"]]
    /\ UNCHANGED <<d, roll, stream, ring, sums, staging, served>>

\* leave() (failed: ~RollTurn): the turn is the next ticket's.
FinishTurn(t, failed) ==
    roll' = [roll EXCEPT ![request[t].slot] =
                [@ EXCEPT !.serving = @ + 1,
                          !.failed_chain = IF failed THEN request[t].chain ELSE @,
                          !.next_start = IF failed /\ Mine(t).chain = request[t].chain THEN None ELSE @]]

\* The centers first .. last are queued behind their uploads; whole: and all
\* that follows them, else the call behind them throws.
Job(t, last, whole) ==
    [by |-> t, serial |-> request[t].serial, set |-> request[t].set, start |-> request[t].start,
     carry |-> request[t].carry, last |-> last, whole |-> whole]
Queued(t, last, whole) == stream' = [stream EXCEPT ![request[t].slot] = Append(@, Job(t, last, whole))]

Queue(t) ==
    /\ Is(t, "queue")
    /\ Queued(t, LastCenter(request[t].start), TRUE)
    /\ IF d.rolling THEN FinishTurn(t, FALSE) /\ UNCHANGED leased
       ELSE leased' = leased \ {request[t].slot} /\ UNCHANGED roll
    /\ Goto(t, "wait")
    /\ UNCHANGED <<d, ring, sums, staging, served>>

QueueFails(t, last) ==
    /\ Is(t, "queue")
    /\ Queued(t, last, FALSE)
    /\ Goto(t, "drain")
    /\ UNCHANGED <<d, roll, leased, ring, sums, staging, served>>

Drained(t) == stream[request[t].slot] = <<>>

\* ~Drain.
Drain(t) ==
    /\ Is(t, "drain") /\ Drained(t)
    /\ Goto(t, "unwind")
    /\ UNCHANGED <<d, roll, leased, stream, ring, sums, staging, served>>

\* ~RollTurn waits for its turn, ~Lease gives the slot back; then the staging
\* set and the frames go.
Unwind(t) ==
    /\ Is(t, "unwind")
    /\ IF d.rolling
       THEN (request[t].entered \/ AtTurn(t)) /\ FinishTurn(t, TRUE) /\ UNCHANGED leased
       ELSE leased' = leased \ {request[t].slot} /\ UNCHANGED roll
    /\ request' = [request EXCEPT ![t] = [Idle EXCEPT !.serial = request[t].serial]]
    /\ UNCHANGED <<d, stream, ring, sums, staging, served>>

\* cudaEventSynchronize(g.done) returns: nothing of the request is queued.
Waited(t) == \A i \in DOMAIN stream[request[t].slot] : stream[request[t].slot][i].by # t

Wait(t) ==
    /\ Is(t, "wait") /\ Waited(t)
    /\ Goto(t, "return")
    /\ UNCHANGED <<d, roll, leased, stream, ring, sums, staging, served>>

\* The frame is copied out, the staging set given back.
Return(t) ==
    /\ Is(t, "return")
    /\ request' = [request EXCEPT ![t] = [Idle EXCEPT !.serial = request[t].serial]]
    /\ UNCHANGED <<d, roll, leased, stream, ring, sums, staging, served>>

-----------------------------------------------------------------------------
(* The device: what compute_chunk queues, as it runs.                      *)

\* upload_through(last): w.staged frames have been uploaded so far.
Uploaded(w, job, last) ==
    LET due == Len(SelectSeq(Uploads(job.start, job.carry), LAMBDA f : f <= last))
        now == Upto(w.staged + 1, due)
        put(r, i) == [r EXCEPT ![Cell(Uploads(job.start, job.carry)[i])] =
                         IF i \in DOMAIN staging[job.set] THEN staging[job.set][i] ELSE Wrong]
    IN  [w EXCEPT !.ring = FoldLeft(put, @, now), !.staged = Max({@, due})]

\* finish(frame).
Finished(w, frame) ==
    [w EXCEPT !.store = Append(@, IF w.ring[Cell(frame)] = frame THEN w.sums[Cell(frame)] ELSE <<Wrong>>),
              !.sums[Cell(frame)] = <<>>]
FinishedAll(w, frames) == [FoldLeft(Finished, w, frames) EXCEPT !.out = @ + Len(frames)]

\* run_center and the slices of the open frames.
Centered(w, job, center) ==
    LET up == Uploaded(w, job, temporal_last(center, d.radius))
        window == WindowOf(center)
        right == \A i \in DOMAIN window : up.ring[Cell(window[i])] = window[i]
        open == SelectSeq(window, LAMBDA f : f >= w.out)
        add(s, f) == [s EXCEPT ![Cell(f)] = Append(@, IF right THEN center ELSE Wrong)]
        added == [up EXCEPT !.sums = FoldLeft(add, @, open)]
    IN  FinishedAll(added, SelectSeq(Upto(w.out, job.start + CountAt(job.start) - 1),
                                     LAMBDA f : temporal_last(f, d.radius) <= center))

Chunk(job, s) ==
    LET began == [ring |-> ring[s], sums |-> IF job.carry THEN sums[s] ELSE [c \in Cells |-> <<>>],
                  staged |-> 0, out |-> job.start, store |-> <<>>]
        ran == FoldLeft(LAMBDA w, center : Centered(w, job, center), began,
                        Upto(FirstCenter(job.start, job.carry), job.last))
    IN  IF job.whole THEN FinishedAll(ran, Upto(ran.out, job.start + CountAt(job.start) - 1)) ELSE ran

Run(s) ==
    /\ stream[s] # <<>>
    /\ LET job == Head(stream[s])
           chunk == Chunk(job, s)
           result == IF d.rolling THEN chunk.store ELSE staging[job.set]
       IN  /\ request' = IF job.whole /\ request[job.by].serial = job.serial
                         THEN [request EXCEPT ![job.by].result = result] ELSE request
           /\ IF d.rolling THEN ring' = [ring EXCEPT ![s] = chunk.ring] /\ sums' = [sums EXCEPT ![s] = chunk.sums]
              ELSE UNCHANGED <<ring, sums>>
    /\ stream' = [stream EXCEPT ![s] = Tail(@)]
    /\ UNCHANGED <<d, roll, leased, staging, served>>

Next ==
    \/ \E t \in Threads :
          \/ \E start \in Starts : Ask(t, start)
          \/ TakeSet(t) \/ PlanTurn(t) \/ Stage(t) \/ StageFails(t) \/ Enter(t) \/ Queue(t)
          \/ \E last \in FirstCenter(request[t].start, request[t].carry) - 1 .. LastCenter(request[t].start) :
                QueueFails(t, last)
          \/ Drain(t) \/ Unwind(t) \/ Wait(t) \/ Return(t)
    \/ \E s \in Slots : Run(s)

Spec == Init /\ [][Next]_vars

-----------------------------------------------------------------------------
\* What a request's result is: every frame of its chunk, summed over exactly
\* the centers whose windows reach it, in ascending order ("the output is the
\* legacy intermediate reduced, bit for bit"); or the frames of its window.
Wanted(start) ==
    IF d.rolling THEN [i \in 1 .. CountAt(start) |-> WindowOf(start + i - 1)] ELSE WindowOf(start)

\* Every request that ends well has the right result, whether its chunk
\* carried on or started afresh and whatever failed before it on its slot; and
\* "the queued copies must not outlive the staging lease": whatever is queued,
\* also by a request that failed, finds its staging set and frames.
ImagesRight ==
    /\ \A t \in Threads : Is(t, "return") => request[t].result = Wanted(request[t].start)
    /\ \A s \in Slots : \A i \in DOMAIN stream[s] :
          LET job == stream[s][i] IN request[job.by].serial = job.serial /\ request[job.by].set = job.set

\* A chunk that starts afresh is never failed by an earlier run, and turns,
\* sets and slots never wait for each other in a circle: while a request is
\* served, some request or the device can go on.
TurnsGoOn ==
    /\ \A t \in Threads : Is(t, "enter") /\ d.rolling /\ AtTurn(t) /\ ~request[t].carry => ~RunFailed(t)
    /\ (\E t \in Threads : ~Is(t, "idle")) =>
          \/ \E s \in Slots : stream[s] # <<>>
          \/ \E t \in Threads :
                \/ request[t].pc \in {"plan", "stage", "queue", "return"}
                \/ Is(t, "set") /\ FreeSets # {}
                \/ Is(t, "drain") /\ Drained(t)
                \/ Is(t, "wait") /\ Waited(t)
                \/ Is(t, "enter") /\ IF d.rolling THEN AtTurn(t) ELSE leased # Slots
                \/ Is(t, "unwind") /\ (d.rolling => request[t].entered \/ AtTurn(t))
=============================================================================
