------------------------------ MODULE RollTurns -----------------------------
(***************************************************************************)
(* The threads of several chunks on the rolling slots (RollTurn,           *)
(* queue_plane and compute_chunk of src/cuda/common/group_driver.cpp; the  *)
(* RollTurn of image_filter.cpp is the case of one plane).  A chunk's      *)
(* thread plans its planes under roll_mu, stages their frames, then enters *)
(* the slots in ticket order; whatever fails on the way, ~RollTurn takes   *)
(* the turn and fails the chunks that were to carry on.                    *)
(*                                                                         *)
(* A ticket is a place in a state's queue: issued - serving is its length  *)
(* and the chunk with serving == ticket is its head.  What a state's       *)
(* buffers hold is abstracted to the plane and the chunk that may carry on *)
(* from them (RollPlane has the frames, the sums and the streams).         *)
(***************************************************************************)
EXTENDS Integers, Sequences, FiniteSets, FiniteSetsExt, Functions

CONSTANTS Threads,        \* threads that compute chunks, at most the staging sets
          Slots,          \* d.slots: 1 .. num_streams
          Planes,         \* the active planes: 0 .. n - 1
          Chunks,         \* chunk indices: chunk c is followed by c + 1
          CarryBacklog,   \* kCarryBacklog
          Budget          \* bound: chunks computed in one behaviour

\* What the constants have to be.
TurnsAssumption ==
    /\ IsFiniteSet(Slots) /\ Slots = 1 .. Cardinality(Slots) /\ Slots # {}
    /\ IsFiniteSet(Planes) /\ Planes = 0 .. Cardinality(Planes) - 1 /\ Planes # {}
    /\ Chunks \subseteq Nat /\ CarryBacklog \in Nat /\ Budget \in Nat

VARIABLES together,   \* roll_together: a state per plane, a chunk's planes go together
          state,      \* slot -> state index -> RollState
          in_use,     \* Slot::in_use
          pc, chunk,  \* per thread
          plane,      \* the plane the thread is at (the first of its group while it plans)
          turns,      \* the thread's RollTurns: plane -> turn
          computed    \* chunks begun, for Budget

vars == <<together, state, in_use, pc, chunk, plane, turns, computed>>

NoChunk == -1
NoTurn == [on |-> FALSE]

StateOf(p) == IF together THEN p ELSE 0
States == {StateOf(p) : p \in Planes}

\* The planes planned with plane p.
Group(p) == IF together THEN Planes ELSE {p}

Init ==
    /\ together \in {b \in BOOLEAN : b => Cardinality(Planes) > 1}
    /\ state = [s \in Slots |-> [i \in States |->
                   [plane |-> -1, next |-> NoChunk, chain |-> 0, failed |-> -1, waiting |-> <<>>,
                    holds |-> <<-1, NoChunk>>]]]
    /\ in_use = [s \in Slots |-> FALSE]
    /\ pc = [t \in Threads |-> "idle"]
    /\ chunk = [t \in Threads |-> NoChunk]
    /\ plane = [t \in Threads |-> 0]
    /\ turns = [t \in Threads |-> [p \in Planes |-> NoTurn]]
    /\ computed = 0

-----------------------------------------------------------------------------
(* RollTurn::RollTurn.  The planes of a group take their tickets one after *)
(* the other under one lock: Planned folds over st, the states so far.     *)

Backlog(st, s) == SumFunction([i \in States |-> Len(st[s][i].waiting)])
IdleSlot(st) == Min({s \in Slots : \A u \in Slots : Backlog(st, s) <= Backlog(st, u)})

\* Mutant: a chunk carries on from any chunk of its plane.
FollowersAny(st, p, c) == {s \in Slots : LET r == st[s][StateOf(p)] IN r.plane = p /\ r.failed # r.chain}

\* The slots whose state chunk c of plane p can carry on from.
Followers(st, p, c) ==
    {s \in Slots : LET r == st[s][StateOf(p)]
                   IN  r.plane = p /\ r.next = c /\ r.failed # r.chain}

Carries(st, p, c) ==
    /\ Followers(st, p, c) # {}
    /\ LET s == Min(Followers(st, p, c))
       IN  Backlog(st, s) < CarryBacklog \/ Backlog(st, IdleSlot(st)) >= Backlog(st, s)

TurnOf(st, p, c) ==
    LET carry == Carries(st, p, c)
        s == IF carry THEN Min(Followers(st, p, c)) ELSE IdleSlot(st)
        r == st[s][StateOf(p)]
    IN  [on |-> TRUE, slot |-> s, carry |-> carry, chain |-> IF carry THEN r.chain ELSE r.chain + 1,
         entered |-> FALSE]

Queued(r, t, p, turn, c) ==
    [r EXCEPT !.chain = turn.chain, !.waiting = Append(@, <<t, p>>), !.plane = p, !.next = c + 1]
Ticket(st, t, p, turn, c) == [st EXCEPT ![turn.slot][StateOf(p)] = Queued(@, t, p, turn, c)]

\* Plane p planned after the planes before it.
PlanOne(before, t, p, c) ==
    LET turn == TurnOf(before.state, p, c)
    IN  [turns |-> [before.turns EXCEPT ![p] = turn], state |-> Ticket(before.state, t, p, turn, c)]

\* step[n]: the first n planes of the group planned.
Planned(t, first, c) ==
    LET step[n \in 0 .. Cardinality(Group(first))] ==
            IF n = 0 THEN [turns |-> turns[t], state |-> state]
            ELSE PlanOne(step[n - 1], t, first + n - 1, c)
    IN  step[Cardinality(Group(first))]

-----------------------------------------------------------------------------
Turn(t) == turns[t][plane[t]]
RollState(t) == state[Turn(t).slot][StateOf(plane[t])]
AtTurn(t) == Head(RollState(t).waiting) = <<t, plane[t]>>
LastOfGroup(t) == plane[t] = Max(Group(plane[t]))

\* compute_chunk of a chunk that no other thread computes (ChunkCache).
Begin(t, c) ==
    /\ pc[t] = "idle" /\ computed < Budget
    /\ \A u \in Threads : chunk[u] # c
    /\ chunk' = [chunk EXCEPT ![t] = c]
    /\ plane' = [plane EXCEPT ![t] = 0]
    /\ pc' = [pc EXCEPT ![t] = "plan"]
    /\ computed' = computed + 1
    /\ UNCHANGED <<together, state, in_use, turns>>

Plan(t) ==
    /\ pc[t] = "plan"
    /\ LET planned == Planned(t, plane[t], chunk[t])
       IN  turns' = [turns EXCEPT ![t] = planned.turns] /\ state' = planned.state
    /\ pc' = [pc EXCEPT ![t] = "enter"]
    /\ UNCHANGED <<together, in_use, chunk, plane, computed>>

\* Mutant: the slot may still be in use by another plane.
MayEnterInUse(t) == AtTurn(t)

MayEnter(t) == ~in_use[Turn(t).slot] /\ AtTurn(t)

RunFailed(t) == RollState(t).failed = Turn(t).chain

\* enter(); a state that the chunk does not carry on from is reset.
Enter(t) ==
    /\ pc[t] = "enter" /\ MayEnter(t)
    /\ in_use' = [in_use EXCEPT ![Turn(t).slot] = TRUE]
    /\ turns' = [turns EXCEPT ![t][plane[t]].entered = TRUE]
    /\ pc' = [pc EXCEPT ![t] = IF RunFailed(t) THEN "unwind" ELSE "queue"]
    /\ plane' = [plane EXCEPT ![t] = IF RunFailed(t) THEN Min(Group(@)) ELSE @]
    /\ state' = IF RunFailed(t) \/ Turn(t).carry THEN state
                ELSE [state EXCEPT ![Turn(t).slot][StateOf(plane[t])].holds = <<plane[t], chunk[t]>>]
    /\ UNCHANGED <<together, chunk, computed>>

\* Mutant: a failed turn keeps its ticket.
FinishedStuck(r, turn, failed) ==
    [r EXCEPT !.failed = IF failed THEN turn.chain ELSE @,
              !.next = IF failed /\ r.chain = turn.chain THEN NoChunk ELSE @,
              !.waiting = IF failed THEN @ ELSE Tail(@)]

\* finish(failed), for plane p's turn of thread t.
Finished(r, turn, failed) ==
    [r EXCEPT !.failed = IF failed THEN turn.chain ELSE @,
              !.next = IF failed /\ r.chain = turn.chain THEN NoChunk ELSE @,
              !.waiting = Tail(@)]

\* What the plane's work leaves: the sums that the next chunk carries on from.
Left(r, t) ==
    LET done == Finished(r, Turn(t), FALSE)
    IN  [done EXCEPT !.holds = IF done.holds = <<plane[t], chunk[t]>> THEN <<plane[t], chunk[t] + 1>>
                               ELSE <<plane[t], NoChunk>>]

\* walk_chunk has queued the plane's work; leave().
QueueAndLeave(t) ==
    /\ pc[t] = "queue"
    /\ state' = [state EXCEPT ![Turn(t).slot][StateOf(plane[t])] = Left(@, t)]
    /\ in_use' = [in_use EXCEPT ![Turn(t).slot] = FALSE]
    /\ turns' = [turns EXCEPT ![t][plane[t]] = NoTurn]
    /\ plane' = [plane EXCEPT ![t] = IF LastOfGroup(t) THEN @ ELSE @ + 1]
    /\ pc' = [pc EXCEPT ![t] = IF LastOfGroup(t) THEN "wait" ELSE "enter"]
    /\ UNCHANGED <<together, chunk, computed>>

\* The group's events have passed: the next plane, or the store is complete.
Synchronized(t) ==
    /\ pc[t] = "wait"
    /\ IF plane[t] + 1 \in Planes
       THEN /\ plane' = [plane EXCEPT ![t] = @ + 1]
            /\ pc' = [pc EXCEPT ![t] = "plan"]
            /\ UNCHANGED chunk
       ELSE /\ chunk' = [chunk EXCEPT ![t] = NoChunk]
            /\ pc' = [pc EXCEPT ![t] = "idle"]
            /\ UNCHANGED plane
    /\ UNCHANGED <<together, state, in_use, turns, computed>>

\* Staging the group's frames throws, before its first plane enters.
ThrowStaging(t) ==
    /\ pc[t] = "enter" /\ plane[t] = Min(Group(plane[t]))
    /\ pc' = [pc EXCEPT ![t] = "unwind"]
    /\ UNCHANGED <<together, state, in_use, chunk, plane, turns, computed>>

\* The wait for the events throws: the group's turns have left.
ThrowWaiting(t) ==
    /\ pc[t] = "wait"
    /\ pc' = [pc EXCEPT ![t] = "idle"]
    /\ chunk' = [chunk EXCEPT ![t] = NoChunk]
    /\ UNCHANGED <<together, state, in_use, plane, turns, computed>>

\* queue_plane throws on its way: the state holds part of a chunk.
ThrowQueueing(t) ==
    /\ pc[t] = "queue"
    /\ state' = [state EXCEPT ![Turn(t).slot][StateOf(plane[t])].holds = <<plane[t], NoChunk>>]
    /\ pc' = [pc EXCEPT ![t] = "unwind"]
    /\ plane' = [plane EXCEPT ![t] = Min(Group(@))]
    /\ UNCHANGED <<together, in_use, chunk, turns, computed>>

\* ~RollTurn of a turn that has not entered waits for its ticket.
MayFinish(t) == Turn(t).entered \/ AtTurn(t)

\* The turns of the group are destroyed, first to last.
Unwind(t) ==
    /\ pc[t] = "unwind"
    /\ IF Turn(t).on
       THEN /\ MayFinish(t)
            /\ state' = [state EXCEPT ![Turn(t).slot][StateOf(plane[t])] = Finished(@, Turn(t), TRUE)]
            /\ in_use' = [in_use EXCEPT ![Turn(t).slot] = IF Turn(t).entered THEN FALSE ELSE @]
            /\ turns' = [turns EXCEPT ![t][plane[t]] = NoTurn]
       ELSE UNCHANGED <<state, in_use, turns>>
    /\ plane' = [plane EXCEPT ![t] = IF LastOfGroup(t) THEN @ ELSE @ + 1]
    /\ pc' = [pc EXCEPT ![t] = IF LastOfGroup(t) THEN "idle" ELSE @]
    /\ chunk' = [chunk EXCEPT ![t] = IF LastOfGroup(t) THEN NoChunk ELSE @]
    /\ UNCHANGED <<together, computed>>

Run(t) == Plan(t) \/ Enter(t) \/ QueueAndLeave(t) \/ Synchronized(t) \/ Unwind(t)
Throw(t) == ThrowStaging(t) \/ ThrowWaiting(t) \/ ThrowQueueing(t)

Next == \E t \in Threads : (\E c \in Chunks : Begin(t, c)) \/ Run(t) \/ Throw(t)

Spec == Init /\ [][Next]_vars

-----------------------------------------------------------------------------
\* A chunk that carries on finds the state as its plan assumed: left by the
\* chunk before it, of the same plane, which ended well.  (So the plan and
\* the device never disagree, whichever chunks failed, were slow, or went to
\* another slot meanwhile.)
CarriesOnFromPrevious ==
    \A t \in Threads : pc[t] = "queue" =>
        RollState(t).holds = <<plane[t], chunk[t]>>

\* A slot is in use by exactly the thread between its enter() and its
\* leave() or ~RollTurn, and that one's chunk is the one at turn.
SlotExclusive ==
    \A s \in Slots :
        LET users == {t \in Threads : \E p \in Planes : /\ turns[t][p].on /\ turns[t][p].entered
                                                        /\ turns[t][p].slot = s}
        IN  /\ Cardinality(users) = IF in_use[s] THEN 1 ELSE 0
            /\ \A t \in users : \E p \in Planes :
                   turns[t][p].on /\ turns[t][p].entered /\ Head(state[s][StateOf(p)].waiting) = <<t, p>>

\* "a ticket that nobody holds would stop the chunks behind it"
\* (group_driver.cpp:1273): the tickets of a state are held by the turns of
\* threads, one each.
TicketsHeld ==
    \A s \in Slots, i \in States :
        LET waiting == state[s][i].waiting
            held == {own \in Threads \X Planes : LET turn == turns[own[1]][own[2]]
                                                IN  turn.on /\ turn.slot = s /\ StateOf(own[2]) = i}
        IN  /\ {waiting[n] : n \in DOMAIN waiting} = held
            /\ Len(waiting) = Cardinality(held)

\* Tickets and slots belong to the turns of threads, one each.
TurnsKept == SlotExclusive /\ TicketsHeld

\* Threads that hold tickets of several states never wait for each other in
\* a circle: while a chunk is unfinished, the thread of one can go on.
CanRun(t) ==
    \/ pc[t] \in {"plan", "queue", "wait"}
    \/ pc[t] = "enter" /\ MayEnter(t)
    \/ pc[t] = "unwind" /\ (Turn(t).on => MayFinish(t))
SomeoneRuns == (\E t \in Threads : pc[t] # "idle") => \E t \in Threads : CanRun(t)
=============================================================================
