---------------------------- MODULE WeightCache ----------------------------
(***************************************************************************)
(* The weight maps that NLM frames leave for the frame after them          *)
(* (WeightSet, WeightCache and WeightLease of vulkan/nlm/filter.cpp, used  *)
(* by tile_frame).  A request picks the set it loads and the set it saves  *)
(* under the cache's lock while it records; its compute stage waits on the *)
(* device for the stages that wrote or read them before.  No host thread   *)
(* waits.                                                                  *)
(*                                                                         *)
(* A compute stage is a job of the device: jobs run in any order and side  *)
(* by side, but for the stages they wait for and for their slot's job      *)
(* before.  The content of a set is the frame whose maps it holds.         *)
(***************************************************************************)
EXTENDS Integers, Sequences, FiniteSets, FiniteSetsExt

CONSTANTS Requesters,    \* requests at work: each has a slot of its own
          Frames,        \* frame numbers
          Sets,          \* the sets: 1 .. num_streams + 1
          FaultSets,     \* the faults to try: sets of "record", "partial"
          WeightBudget   \* bound: requests in one behaviour

\* What the constants have to be.
WeightAssumption ==
    /\ IsFiniteSet(Sets) /\ Sets = 1 .. Cardinality(Sets)
    /\ Frames \subseteq Nat
    /\ FaultSets \subseteq SUBSET {"record", "partial"}
    /\ WeightBudget \in Nat

VARIABLES faults,     \* where a request may fail; fixed
          sets,       \* set -> WeightSet
          clock,      \* WeightCache::clock
          request,    \* requester -> the request it serves
          jobs,       \* job -> the compute stage it stands for (1 .. number submitted)
          content,    \* set -> the frame whose maps it holds, Partial while one is written
          requests    \* requests so far, for WeightBudget

weightVars == <<faults, sets, clock, request, jobs, content, requests>>

None == 0
NoFrame == -1
Partial == -2

IdleRequest == [pc |-> "idle", n |-> NoFrame, load |-> None, save |-> None, waits |-> {}, last |-> None]

WeightInit ==
    /\ faults \in FaultSets
    /\ sets = [w \in Sets |-> [written |-> None, read |-> None, frame |-> NoFrame,
                               busy |-> FALSE, loaded |-> FALSE, used |-> 0]]
    /\ clock = 0
    /\ request = [t \in Requesters |-> IdleRequest]
    /\ jobs = <<>>
    /\ content = [w \in Sets |-> NoFrame]
    /\ requests = 0

-----------------------------------------------------------------------------
(* WeightLease: what a request loads and saves, and what it waits for.     *)

Loadable(n) == {w \in Sets : n > 0 /\ sets[w].frame = n - 1 /\ ~sets[w].busy /\ ~sets[w].loaded}

\* The loop keeps the last one that matches.
LoadOf(n) == IF Loadable(n) = {} THEN None ELSE Max(Loadable(n))

\* A set that waits for its frame ranks behind one that was loaded or is empty.
Ranks(v, w) ==
    LET waits(x) == sets[x].frame >= 0 /\ ~sets[x].loaded
    IN  \/ ~waits(v) /\ waits(w)
        \/ waits(v) = waits(w) /\ sets[v].used < sets[w].used

\* Mutant: a set another request has taken is saved into.
SavableBusy(load) == Sets \ {load}

Savable(load) == {w \in Sets : w # load /\ ~sets[w].busy}

SaveOf(load) ==
    IF Savable(load) = {} THEN None
    ELSE Min({v \in Savable(load) : \A w \in Savable(load) : ~Ranks(w, v)})

\* Mutant: a saver waits only for the frame that saved the set before.
WaitsUnread(load, save) ==
    {sets[w].written : w \in {load, save} \cap Sets} \ {None}

\* Slot::wait_for of the compute stage.
Waits(load, save) ==
    ({sets[w].written : w \in {load, save} \cap Sets} \cup {sets[w].read : w \in {save} \cap Sets}) \ {None}

\* The sets while a request records a dispatch that loads and saves them.
Busy(w, load, save) ==
    CASE w = load -> [sets[w] EXCEPT !.busy = TRUE]
      [] w = save -> [sets[w] EXCEPT !.busy = TRUE, !.frame = NoFrame]
      [] OTHER -> sets[w]

Take(t, n, load, save) ==
    /\ request' = [request EXCEPT ![t] =
           [pc |-> "record", n |-> n, load |-> load, save |-> save,
            waits |-> Waits(load, save) \cup ({@.last} \ {None}), last |-> @.last]]
    /\ sets' = [w \in Sets |-> Busy(w, load, save)]

Lease(t, n) ==
    /\ request[t].pc = "idle" /\ requests < WeightBudget
    /\ requests' = requests + 1
    /\ LET load == LoadOf(n) IN Take(t, n, load, SaveOf(load))
    /\ UNCHANGED <<faults, clock, jobs, content>>

\* The compute stage is submitted and next follows.
Submitted(t, next) ==
    /\ jobs' = Append(jobs, [n |-> request[t].n, load |-> request[t].load, save |-> request[t].save,
                             waits |-> request[t].waits, state |-> "queued"])
    /\ request' = [request EXCEPT ![t].pc = next, ![t].last = Len(jobs) + 1]
    /\ UNCHANGED <<faults, sets, clock, content, requests>>

Submit(t) == request[t].pc = "record" /\ Submitted(t, "submitted")

\* WeightLease::submitted, after Slot::submit has returned.
Stamped(w, r) ==
    CASE w = r.load -> [sets[w] EXCEPT !.read = r.last, !.loaded = TRUE, !.busy = FALSE]
      [] w = r.save -> [written |-> r.last, read |-> sets[w].read, frame |-> r.n,
                        busy |-> FALSE, loaded |-> FALSE, used |-> clock + 1]
      [] OTHER -> sets[w]

MarkSubmitted(t) ==
    /\ request[t].pc = "submitted"
    /\ clock' = IF request[t].save # None THEN clock + 1 ELSE clock
    /\ sets' = [w \in Sets |-> Stamped(w, request[t])]
    /\ request' = [request EXCEPT ![t].pc = "wait"]
    /\ UNCHANGED <<faults, jobs, content, requests>>

\* Recording fails, or no stage was submitted.
RecordFails(t) ==
    /\ "record" \in faults /\ request[t].pc = "record"
    /\ request' = [request EXCEPT ![t].pc = "failed"]
    /\ UNCHANGED <<faults, sets, clock, jobs, content, requests>>

\* The compute stage is submitted and the download stage behind it fails.
SubmitFails(t) == "partial" \in faults /\ request[t].pc = "record" /\ Submitted(t, "failed")

\* Mutant: a failed request's set is still said to hold its frame.
GivenBackHeld(w, r) ==
    IF w \in {r.load, r.save} THEN [sets[w] EXCEPT !.busy = FALSE, !.frame = IF w = r.save THEN r.n ELSE @] ELSE sets[w]

\* ~WeightLease without submitted().
GivenBack(w, r) == IF w \in {r.load, r.save} THEN [sets[w] EXCEPT !.busy = FALSE] ELSE sets[w]

DropLease(t) ==
    /\ request[t].pc = "failed"
    /\ sets' = [w \in Sets |-> GivenBack(w, request[t])]
    /\ request' = [request EXCEPT ![t].pc = "wait"]
    /\ UNCHANGED <<faults, clock, jobs, content, requests>>

\* The slot's wait, or settle() at the end of its lease.
Wait(t) ==
    /\ request[t].pc = "wait"
    /\ request[t].last # None => jobs[request[t].last].state = "done"
    /\ request' = [request EXCEPT ![t] = [IdleRequest EXCEPT !.last = request[t].last]]
    /\ UNCHANGED <<faults, sets, clock, jobs, content, requests>>

-----------------------------------------------------------------------------
(* The device (external).                                                  *)

Startable(j) == jobs[j].state = "queued" /\ \A i \in jobs[j].waits : jobs[i].state = "done"

Start(j) ==
    /\ Startable(j)
    /\ jobs' = [jobs EXCEPT ![j].state = "runs"]
    /\ content' = IF jobs[j].save = None THEN content ELSE [content EXCEPT ![jobs[j].save] = Partial]
    /\ UNCHANGED <<faults, sets, clock, request, requests>>

Finish(j) ==
    /\ jobs[j].state = "runs"
    /\ jobs' = [jobs EXCEPT ![j].state = "done"]
    /\ content' = IF jobs[j].save = None THEN content ELSE [content EXCEPT ![jobs[j].save] = jobs[j].n]
    /\ UNCHANGED <<faults, sets, clock, request, requests>>

WeightNext ==
    \/ \E t \in Requesters :
          \/ \E n \in Frames : Lease(t, n)
          \/ Submit(t) \/ MarkSubmitted(t) \/ RecordFails(t) \/ SubmitFails(t)
          \/ DropLease(t) \/ Wait(t)
    \/ \E j \in DOMAIN jobs : Start(j) \/ Finish(j)

WeightSpec == WeightInit /\ [][WeightNext]_weightVars

-----------------------------------------------------------------------------
Running == {j \in DOMAIN jobs : jobs[j].state = "runs"}

\* A frame that loads weights reads those of the frame before it, whole, from
\* its start to its end (the dispatch that reads push.weight_load).
LoadsPredecessor ==
    \A j \in Running : jobs[j].load # None => content[jobs[j].load] = jobs[j].n - 1

\* No two dispatches write one set at a time, nor does one write what another
\* reads: "a frame that was not submitted wrote nothing" (~WeightLease).
SetsUnshared ==
    \A i, j \in Running : i # j => jobs[i].save \notin ({jobs[j].save, jobs[j].load} \ {None})

\* While every frame that fails was not submitted at all, the weights a frame
\* loads are whole and no set is shared.
WeightsKept == "partial" \notin faults => LoadsPredecessor /\ SetsUnshared

\* What the cache says of a set that nobody has taken will be true by the time
\* a frame that waits for its writer reads it: the writer's job saves that
\* frame's maps and no later job writes the set.
SetsHoldWhatTheySay ==
    \A w \in Sets : (sets[w].frame >= 0 /\ ~sets[w].busy) =>
        /\ sets[w].written # None /\ jobs[sets[w].written].n = sets[w].frame
        /\ \A j \in DOMAIN jobs : j > sets[w].written => jobs[j].save # w
=============================================================================
