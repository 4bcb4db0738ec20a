--------------------------- MODULE RollTurnsProofs --------------------------
(***************************************************************************)
(* Proofs about RollTurns for every number of slots and planes, every set  *)
(* of threads and of chunks, any backlog: the tickets and slots belong to  *)
(* the turns of threads.                                                   *)
(***************************************************************************)
EXTENDS RollTurns, FoldLemmas, SequenceTheorems

Steps == {"idle", "plan", "enter", "queue", "wait", "unwind"}
TurnSet == [on : {FALSE}]
           \cup [on : {TRUE}, slot : Slots, carry : BOOLEAN, chain : Nat, entered : BOOLEAN]
RollStates == [plane : Planes \cup {-1}, next : Nat \cup {NoChunk}, chain : Nat, failed : Nat \cup {-1},
               waiting : Seq(Threads \X Planes), holds : (Planes \cup {-1}) \X (Nat \cup {NoChunk})]

StatesTyped(st) == st \in [Slots -> [States -> RollStates]]
TurnsTyped(tu) == tu \in [Threads -> [Planes -> TurnSet]]

TypeOK ==
    /\ together \in BOOLEAN /\ computed \in Nat
    /\ StatesTyped(state) /\ TurnsTyped(turns)
    /\ in_use \in [Slots -> BOOLEAN]
    /\ pc \in [Threads -> Steps]
    /\ chunk \in [Threads -> Chunks \cup {NoChunk}]
    /\ plane \in [Threads -> Planes]

\* Which turns a thread has at each of its steps: those of its group from its
\* plane on while it enters them, and what it has to give back when it
\* unwinds.
AtStep(step, c, at, own) ==
    /\ step # "idle" => c \in Chunks
    /\ together /\ step = "plan" => at = 0
    /\ together /\ step = "wait" => at = Cardinality(Planes) - 1
    /\ \A p \in Planes : own[p].on =>
          /\ step \in {"enter", "queue", "unwind"} /\ p \in Group(at) /\ p >= at
          /\ own[p].entered => step = "unwind" \/ (step = "queue" /\ p = at)
    /\ step \in {"enter", "queue"} => \A p \in Group(at) : p >= at => own[p].on
    /\ step = "queue" => own[at].entered

TurnsAtSteps == \A t \in Threads : AtStep(pc[t], chunk[t], plane[t], turns[t])

\* The queue w of state i on slot s has tickets of turns tu, one each.
QueueKept(w, tu, s, i) ==
    /\ \A n \in 1 .. Len(w) : tu[w[n][1]][w[n][2]].on /\ tu[w[n][1]][w[n][2]].slot = s /\ StateOf(w[n][2]) = i
    /\ \A m, n \in 1 .. Len(w) : w[m] = w[n] => m = n

Has(w, own) == \E n \in 1 .. Len(w) : w[n] = own

\* The tickets in the states st are those of the turns tu, one each.
Tickets(st, tu) ==
    /\ \A s \in Slots, i \in States : QueueKept(st[s][i].waiting, tu, s, i)
    /\ \A t \in Threads, p \in Planes : tu[t][p].on => Has(st[tu[t][p].slot][StateOf(p)].waiting, <<t, p>>)

Entered(t, p) == turns[t][p].on /\ turns[t][p].entered

\* A slot in use has one turn that entered it, the first of its state.
SlotsKept ==
    /\ \A t \in Threads, p \in Planes : Entered(t, p) =>
          /\ in_use[turns[t][p].slot]
          /\ Head(state[turns[t][p].slot][StateOf(p)].waiting) = <<t, p>>
    /\ \A t, u \in Threads, p, q \in Planes :
          Entered(t, p) /\ Entered(u, q) /\ turns[t][p].slot = turns[u][q].slot => t = u /\ p = q
    /\ \A s \in Slots : in_use[s] => \E t \in Threads, p \in Planes : Entered(t, p) /\ turns[t][p].slot = s

IInv == TypeOK /\ TurnsAtSteps /\ Tickets(state, turns) /\ SlotsKept

-----------------------------------------------------------------------------
(* The operators the plans are built from.                                 *)

LEMMA GroupFacts ==
    ASSUME TurnsAssumption, NEW p \in Planes
    PROVE  /\ p \in Group(p) /\ Group(p) \subseteq Planes
           /\ Min(Group(p)) = IF together THEN 0 ELSE p
           /\ Max(Group(p)) = IF together THEN Cardinality(Planes) - 1 ELSE p
           /\ StateOf(p) \in States
<1>1. Cardinality(Planes) \in Nat /\ Planes = 0 .. Cardinality(Planes) - 1
  BY FS_CardinalityType DEF TurnsAssumption
<1>2. CASE together
  <2> DEFINE least == CHOOSE x \in Planes : \A y \in Planes : x =< y
             most == CHOOSE x \in Planes : \A y \in Planes : x >= y
  <2>1. 0 \in Planes /\ \A y \in Planes : 0 =< y
    BY <1>1
  <2>2. Cardinality(Planes) - 1 \in Planes /\ \A y \in Planes : Cardinality(Planes) - 1 >= y
    BY <1>1
  <2>3. least \in Planes /\ \A y \in Planes : least =< y
    BY <2>1
  <2>4. most \in Planes /\ \A y \in Planes : most >= y
    BY <2>2
  <2> HIDE DEF least, most
  <2>5. least = 0 /\ most = Cardinality(Planes) - 1
    BY <1>1, <2>1, <2>2, <2>3, <2>4
  <2> QED BY <1>2, <2>5 DEF Group, Min, Max, StateOf, States, least, most
<1>3. CASE ~together
  <2>1. \A q : Min({q}) = q /\ Max({q}) = q
    BY DEF Min, Max
  <2> QED BY <1>3, <2>1 DEF Group, StateOf, States
<1> QED BY <1>2, <1>3

LEMMA BacklogType ==
    ASSUME TurnsAssumption, NEW st, StatesTyped(st), NEW s \in Slots
    PROVE  Backlog(st, s) \in Nat
<1> DEFINE w == [i \in States |-> Len(st[s][i].waiting)]
<1>1. IsFiniteSet(States)
  <2>1. CASE together
    BY <2>1 DEF States, StateOf, TurnsAssumption
  <2>2. CASE ~together
    <3>1. States = {0}
      BY <2>2 DEF States, StateOf, TurnsAssumption
    <3> QED BY <3>1, FS_Singleton
  <2> QED BY <2>1, <2>2
<1>2. w \in [States -> Nat]
  <2>1. \A i \in States : st[s][i].waiting \in Seq(Threads \X Planes)
    BY DEF StatesTyped, RollStates
  <2>2. \A i \in States : Len(st[s][i].waiting) \in Nat
    BY <2>1, LenProperties
  <2> QED BY <2>2
<1>3. DOMAIN w = States /\ States \in SUBSET States
  OBVIOUS
<1> HIDE DEF w
<1>4. SumFunctionOnSet(w, States) \in Nat
  BY <1>1, <1>2, <1>3, SumType
<1> QED BY <1>3, <1>4 DEF Backlog, SumFunction, w

LEMMA MinIn ==
    ASSUME NEW T \in SUBSET Nat, T # {}
    PROVE  Min(T) \in T
  BY MinOfNaturals DEF Min

LEMMA SlotsNatural ==
    ASSUME TurnsAssumption
    PROVE  Slots \subseteq Nat
  BY FS_CardinalityType DEF TurnsAssumption

LEMMA IdleSlotIn ==
    ASSUME TurnsAssumption, NEW st, StatesTyped(st)
    PROVE  IdleSlot(st) \in Slots
<1> DEFINE least == {s \in Slots : \A u \in Slots : Backlog(st, s) <= Backlog(st, u)}
           lengths == {Backlog(st, s) : s \in Slots}
<1>1. lengths \in SUBSET Nat /\ lengths # {}
  BY BacklogType DEF TurnsAssumption
<1>2. PICK x \in lengths : \A y \in lengths : x <= y
  <2> HIDE DEF lengths
  <2> QED BY <1>1, Smallest
<1>3. least # {} /\ least \in SUBSET Nat
  BY <1>2, SlotsNatural
<1>4. Min(least) \in least
  <2> HIDE DEF least
  <2> QED BY <1>3, MinIn
<1> QED BY <1>4 DEF IdleSlot

\* A new turn's slot and chain: those of a state that the chunk can follow,
\* or a chain of its own.
LEMMA TurnOfFacts ==
    ASSUME TurnsAssumption, NEW st, StatesTyped(st), NEW p \in Planes, NEW c
    PROVE  LET turn == TurnOf(st, p, c)
               r == st[turn.slot][StateOf(p)]
           IN  /\ turn \in TurnSet /\ turn.on /\ ~turn.entered /\ turn.slot \in Slots
               /\ turn.carry => turn.slot \in Followers(st, p, c) /\ turn.chain = r.chain
               /\ ~turn.carry => turn.chain = r.chain + 1
<1> DEFINE carry == Carries(st, p, c)
           slot == IF carry THEN Min(Followers(st, p, c)) ELSE IdleSlot(st)
<1>1. carry \in BOOLEAN
  BY DEF Carries
<1>2. carry => Min(Followers(st, p, c)) \in Followers(st, p, c)
  <2>1. Followers(st, p, c) \in SUBSET Nat
    BY SlotsNatural DEF Followers
  <2> QED BY <2>1, MinIn DEF Carries
<1>3. slot \in Slots /\ (carry => slot \in Followers(st, p, c))
  BY <1>2, IdleSlotIn DEF Followers
<1>4. st[slot][StateOf(p)].chain \in Nat
  BY <1>3, GroupFacts DEF StatesTyped, RollStates
<1>5. TurnOf(st, p, c) = [on |-> TRUE, slot |-> slot, carry |-> carry,
                          chain |-> IF carry THEN st[slot][StateOf(p)].chain ELSE st[slot][StateOf(p)].chain + 1,
                          entered |-> FALSE]
  BY DEF TurnOf
<1> HIDE DEF carry, slot
<1> DEFINE chain == IF carry THEN st[slot][StateOf(p)].chain ELSE st[slot][StateOf(p)].chain + 1
<1>6. chain \in Nat
  BY <1>4
<1>7. carry => chain = st[slot][StateOf(p)].chain
  OBVIOUS
<1>8. ~carry => chain = st[slot][StateOf(p)].chain + 1
  OBVIOUS
<1> DEFINE turn == TurnOf(st, p, c)
<1>9. turn = [on |-> TRUE, slot |-> slot, carry |-> carry, chain |-> chain, entered |-> FALSE]
  BY <1>5
<1> HIDE DEF chain, turn
<1>10. turn \in TurnSet /\ turn.on /\ ~turn.entered
  BY <1>1, <1>3, <1>6, <1>9 DEF TurnSet
<1>11. turn.slot = slot /\ turn.carry = carry /\ turn.chain = chain
  BY <1>9
<1>12. turn.slot \in Slots /\ (turn.carry => turn.slot \in Followers(st, p, c))
  BY <1>3, <1>11
<1>13. /\ turn.carry => turn.chain = st[turn.slot][StateOf(p)].chain
       /\ ~turn.carry => turn.chain = st[turn.slot][StateOf(p)].chain + 1
  BY <1>7, <1>8, <1>11
<1> QED BY <1>10, <1>12, <1>13 DEF turn

LEMMA TicketFacts ==
    ASSUME TurnsAssumption, NEW st, StatesTyped(st), NEW t \in Threads, NEW p \in Planes,
           NEW turn \in TurnSet, turn.on, NEW c \in Nat
    PROVE  /\ StatesTyped(Ticket(st, t, p, turn, c))
           /\ \A s \in Slots, i \in States :
                 Ticket(st, t, p, turn, c)[s][i] =
                    IF s = turn.slot /\ i = StateOf(p) THEN Queued(st[s][i], t, p, turn, c) ELSE st[s][i]
<1>1. turn.slot \in Slots /\ turn.chain \in Nat /\ StateOf(p) \in States
  BY GroupFacts DEF TurnSet
<1>2. ASSUME NEW r \in RollStates
      PROVE  Queued(r, t, p, turn, c) \in RollStates
  <2>1. c + 1 \in Nat /\ <<t, p>> \in Threads \X Planes
    OBVIOUS
  <2>2. r.waiting \in Seq(Threads \X Planes)
    BY <1>2 DEF RollStates
  <2> DEFINE longer == Append(r.waiting, <<t, p>>)
  <2>3. longer \in Seq(Threads \X Planes)
    BY <2>1, <2>2, AppendProperties
  <2>4. Queued(r, t, p, turn, c) = [r EXCEPT !.chain = turn.chain, !.waiting = longer, !.plane = p, !.next = c + 1]
    BY DEF Queued
  <2> HIDE DEF longer
  <2> QED BY <1>1, <1>2, <2>1, <2>3, <2>4 DEF RollStates
<1>3. Ticket(st, t, p, turn, c) = [st EXCEPT ![turn.slot][StateOf(p)] = Queued(st[turn.slot][StateOf(p)], t, p, turn, c)]
  BY DEF Ticket
<1> QED BY <1>1, <1>2, <1>3 DEF StatesTyped

LEMMA QueuedFacts ==
    ASSUME NEW r \in RollStates, NEW t \in Threads, NEW p \in Planes, NEW turn, NEW c \in Nat
    PROVE  /\ Queued(r, t, p, turn, c).waiting = Append(r.waiting, <<t, p>>)
           /\ Queued(r, t, p, turn, c).chain = turn.chain /\ Queued(r, t, p, turn, c).plane = p
           /\ Queued(r, t, p, turn, c).next = c + 1 /\ Queued(r, t, p, turn, c).failed = r.failed
           /\ Queued(r, t, p, turn, c).holds = r.holds
  BY DEF Queued, RollStates

\* The turns but thread t's for plane p.
OthersKept(more, tu, t, p) ==
    \A u \in Threads, q \in Planes : u # t \/ q # p => more[u][q] = tu[u][q]

\* A ticket at the end of a queue, for a turn that had none.
LEMMA AppendKeeps ==
    ASSUME NEW w \in Seq(Threads \X Planes), NEW t \in Threads, NEW p \in Planes,
           NEW tu, NEW more, NEW s, NEW i, QueueKept(w, tu, s, i), ~tu[t][p].on,
           NEW turn, more[t][p] = turn, turn.on, turn.slot = s, StateOf(p) = i,
           OthersKept(more, tu, t, p)
    PROVE  QueueKept(Append(w, <<t, p>>), more, s, i)
<1> DEFINE x == Append(w, <<t, p>>)
<1>1. /\ Len(w) \in Nat /\ Len(x) = Len(w) + 1 /\ x[Len(w) + 1] = <<t, p>>
      /\ \A n \in 1 .. Len(w) : x[n] = w[n]
  <2>1. <<t, p>> \in Threads \X Planes
    OBVIOUS
  <2> QED BY <2>1, AppendProperties, LenProperties
<1>2. \A n \in 1 .. Len(w) : w[n] = <<w[n][1], w[n][2]>> /\ w[n][1] \in Threads /\ w[n][2] \in Planes
  <2>1. \A n \in 1 .. Len(w) : w[n] \in Threads \X Planes
    BY ElementOfSeq
  <2> QED BY <2>1
<1>3. \A n \in 1 .. Len(w) : w[n] # <<t, p>>
  BY <1>2 DEF QueueKept
<1>4. \A n \in 1 .. Len(w) : more[w[n][1]][w[n][2]] = tu[w[n][1]][w[n][2]]
  BY <1>2, <1>3 DEF OthersKept
<1>5. \A n \in 1 .. Len(x) : n \in 1 .. Len(w) \/ n = Len(w) + 1
  BY <1>1
<1> HIDE DEF x
<1>6. ASSUME NEW n \in 1 .. Len(x)
      PROVE  more[x[n][1]][x[n][2]].on /\ more[x[n][1]][x[n][2]].slot = s /\ StateOf(x[n][2]) = i
  <2>1. CASE n \in 1 .. Len(w)
    BY <1>1, <1>4, <2>1 DEF QueueKept
  <2>2. CASE n = Len(w) + 1
    BY <1>1, <2>2
  <2> QED BY <1>5, <2>1, <2>2
<1>7. ASSUME NEW m \in 1 .. Len(x), NEW n \in 1 .. Len(x), x[m] = x[n]
      PROVE  m = n
  <2>1. \A j, k \in 1 .. Len(w) : w[j] = w[k] => j = k
    BY DEF QueueKept
  <2>2. \A k \in 1 .. Len(w) : x[k] # x[Len(w) + 1]
    BY <1>1, <1>3
  <2> QED BY <1>1, <1>5, <1>7, <2>1, <2>2
<1> QED BY <1>6, <1>7 DEF QueueKept, x

LEMMA AppendHas ==
    ASSUME NEW w \in Seq(Threads \X Planes), NEW e \in Threads \X Planes
    PROVE  Has(Append(w, e), e) /\ \A own : Has(w, own) => Has(Append(w, e), own)
<1>1. /\ Len(w) \in Nat /\ Len(Append(w, e)) = Len(w) + 1 /\ Append(w, e)[Len(w) + 1] = e
      /\ \A n \in 1 .. Len(w) : Append(w, e)[n] = w[n]
  BY AppendProperties, LenProperties
<1> QED BY <1>1 DEF Has

\* A queue without tickets of a thread's plane does not see its turn change.
LEMMA QueueUnmoved ==
    ASSUME NEW w \in Seq(Threads \X Planes), NEW t \in Threads, NEW p \in Planes,
           NEW tu, NEW more, NEW s, NEW i, QueueKept(w, tu, s, i), ~Has(w, <<t, p>>),
           OthersKept(more, tu, t, p)
    PROVE  QueueKept(w, more, s, i)
<1>1. \A n \in 1 .. Len(w) : w[n] = <<w[n][1], w[n][2]>> /\ w[n][1] \in Threads /\ w[n][2] \in Planes
  <2>1. \A n \in 1 .. Len(w) : w[n] \in Threads \X Planes
    BY ElementOfSeq
  <2> QED BY <2>1
<1>2. \A n \in 1 .. Len(w) : more[w[n][1]][w[n][2]] = tu[w[n][1]][w[n][2]]
  BY <1>1 DEF Has, OthersKept
<1> QED BY <1>2 DEF QueueKept

\* The head's ticket given back, its turn ended.
LEMMA TailKeeps ==
    ASSUME NEW w \in Seq(Threads \X Planes), NEW t \in Threads, NEW p \in Planes,
           NEW tu, NEW more, NEW s, NEW i, QueueKept(w, tu, s, i), w # <<>>, Head(w) = <<t, p>>,
           OthersKept(more, tu, t, p)
    PROVE  QueueKept(Tail(w), more, s, i)
<1> DEFINE x == Tail(w)
<1>1. /\ Len(w) \in Nat \ {0} /\ Len(x) = Len(w) - 1 /\ w[1] = <<t, p>>
      /\ \A n \in 1 .. Len(x) : x[n] = w[n + 1]
  BY HeadTailProperties, LenProperties, EmptySeq
<1>2. \A n \in 1 .. Len(w) : w[n] = <<w[n][1], w[n][2]>> /\ w[n][1] \in Threads /\ w[n][2] \in Planes
  <2>1. \A n \in 1 .. Len(w) : w[n] \in Threads \X Planes
    BY ElementOfSeq
  <2> QED BY <2>1
<1>3. \A n \in 1 .. Len(x) : n + 1 \in 1 .. Len(w) /\ n + 1 # 1
  BY <1>1
<1>4. \A n \in 1 .. Len(x) : x[n] # <<t, p>>
  BY <1>1, <1>3 DEF QueueKept
<1>5. \A n \in 1 .. Len(x) : x[n] = <<x[n][1], x[n][2]>> /\ x[n][1] \in Threads /\ x[n][2] \in Planes
  BY <1>1, <1>2, <1>3
<1>6. \A n \in 1 .. Len(x) : more[x[n][1]][x[n][2]] = tu[x[n][1]][x[n][2]]
  BY <1>4, <1>5 DEF OthersKept
<1> HIDE DEF x
<1>7. ASSUME NEW n \in 1 .. Len(x)
      PROVE  more[x[n][1]][x[n][2]].on /\ more[x[n][1]][x[n][2]].slot = s /\ StateOf(x[n][2]) = i
  <2>1. x[n] = w[n + 1] /\ n + 1 \in 1 .. Len(w)
    BY <1>1, <1>3
  <2>2. tu[x[n][1]][x[n][2]].on /\ tu[x[n][1]][x[n][2]].slot = s /\ StateOf(x[n][2]) = i
    BY <2>1 DEF QueueKept
  <2> QED BY <1>6, <2>2
<1>8. \A m, n \in 1 .. Len(x) : x[m] = x[n] => m = n
  BY <1>1, <1>3 DEF QueueKept
<1> QED BY <1>7, <1>8 DEF QueueKept, x

LEMMA TailHas ==
    ASSUME NEW w \in Seq(Threads \X Planes), w # <<>>, NEW own, Has(w, own), own # Head(w)
    PROVE  Has(Tail(w), own)
<1>1. /\ Len(w) \in Nat \ {0} /\ Len(Tail(w)) = Len(w) - 1 /\ w[1] = Head(w)
      /\ \A n \in 1 .. Len(Tail(w)) : Tail(w)[n] = w[n + 1]
  BY HeadTailProperties, LenProperties, EmptySeq
<1>2. PICK n \in 1 .. Len(w) : w[n] = own
  BY DEF Has
<1>3. n - 1 \in 1 .. Len(Tail(w)) /\ Tail(w)[n - 1] = own
  BY <1>1, <1>2
<1> QED BY <1>3 DEF Has

\* The head of a queue stays at its head.
LEMMA TicketHeads ==
    ASSUME TurnsAssumption, NEW st, StatesTyped(st), NEW t \in Threads, NEW p \in Planes,
           NEW turn \in TurnSet, turn.on, NEW c \in Nat, NEW s \in Slots, NEW i \in States,
           st[s][i].waiting # <<>>
    PROVE  /\ Ticket(st, t, p, turn, c)[s][i].waiting # <<>>
           /\ Head(Ticket(st, t, p, turn, c)[s][i].waiting) = Head(st[s][i].waiting)
<1>1. PICK r \in RollStates : r = st[s][i]
  BY DEF StatesTyped
<1>2. Queued(r, t, p, turn, c).waiting = Append(r.waiting, <<t, p>>)
  BY QueuedFacts
<1>3. <<t, p>> \in Threads \X Planes
  OBVIOUS
<1>4. PICK w \in Seq(Threads \X Planes) : w = r.waiting
  BY DEF RollStates
<1>5. w # <<>>
  BY <1>1, <1>4
<1>6. Append(w, <<t, p>>) # <<>> /\ Head(Append(w, <<t, p>>)) = Head(w)
  BY <1>3, <1>5
<1>7. Ticket(st, t, p, turn, c)[s][i] = r \/ Ticket(st, t, p, turn, c)[s][i] = Queued(r, t, p, turn, c)
  BY <1>1, TicketFacts
<1>8. CASE Ticket(st, t, p, turn, c)[s][i] = r
  BY <1>4, <1>5, <1>1, <1>8
<1>9. CASE Ticket(st, t, p, turn, c)[s][i] = Queued(r, t, p, turn, c)
  BY <1>1, <1>2, <1>4, <1>6, <1>9
<1> QED BY <1>7, <1>8, <1>9

\* One plane planned: its turn and ticket, at the end of one queue.
LEMMA PlanOneKeeps ==
    ASSUME TurnsAssumption, NEW st, NEW tu, StatesTyped(st), Tickets(st, tu),
           NEW t \in Threads, NEW p \in Planes, ~tu[t][p].on, NEW c \in Nat,
           NEW turn \in TurnSet, turn.on,
           NEW more, TurnsTyped(more), more[t][p] = turn,
           OthersKept(more, tu, t, p)
    PROVE  Tickets(Ticket(st, t, p, turn, c), more)
<1> DEFINE new == Ticket(st, t, p, turn, c)
<1>1. turn.slot \in Slots /\ StateOf(p) \in States
  BY GroupFacts DEF TurnSet
<1>2. /\ StatesTyped(new)
      /\ \A s \in Slots, i \in States :
            new[s][i] = IF s = turn.slot /\ i = StateOf(p) THEN Queued(st[s][i], t, p, turn, c) ELSE st[s][i]
  BY TicketFacts
<1> HIDE DEF new
<1>3. /\ more[t][p].on
      /\ \A u \in Threads, q \in Planes : u # t \/ q # p => more[u][q] = tu[u][q]
  BY DEF OthersKept
<1>4. \A s \in Slots, i \in States : st[s][i] \in RollStates /\ st[s][i].waiting \in Seq(Threads \X Planes)
  BY DEF StatesTyped, RollStates
<1> DEFINE here(s, i) == s = turn.slot /\ i = StateOf(p)
<1>5. ASSUME NEW s \in Slots, NEW i \in States
      PROVE  new[s][i].waiting = IF here(s, i) THEN Append(st[s][i].waiting, <<t, p>>) ELSE st[s][i].waiting
  <2>1. PICK r \in RollStates : r = st[s][i]
    BY <1>4
  <2>2. Queued(r, t, p, turn, c).waiting = Append(r.waiting, <<t, p>>)
    BY QueuedFacts
  <2> QED BY <1>2, <2>1, <2>2
<1>6. ASSUME NEW s \in Slots, NEW i \in States
      PROVE  /\ QueueKept(new[s][i].waiting, more, s, i)
             /\ here(s, i) => Has(new[s][i].waiting, <<t, p>>)
             /\ \A own : Has(st[s][i].waiting, own) => Has(new[s][i].waiting, own)
  <2>1. PICK w \in Seq(Threads \X Planes) : w = st[s][i].waiting
    BY <1>4
  <2>2. QueueKept(w, tu, s, i)
    BY <2>1 DEF Tickets
  <2>3. CASE here(s, i)
    <3>1. turn.slot = s /\ StateOf(p) = i
      BY <2>3
    <3>2. new[s][i].waiting = Append(w, <<t, p>>)
      BY <1>5, <2>1, <2>3
    <3>3. QueueKept(Append(w, <<t, p>>), more, s, i)
      BY <1>3, <2>2, <3>1, AppendKeeps
    <3>4. <<t, p>> \in Threads \X Planes
      OBVIOUS
    <3>5. Has(Append(w, <<t, p>>), <<t, p>>) /\ \A own : Has(w, own) => Has(Append(w, <<t, p>>), own)
      BY <3>4, AppendHas
    <3> QED BY <2>1, <3>2, <3>3, <3>5
  <2>4. CASE ~here(s, i)
    <3>1. ~Has(w, <<t, p>>)
      <4> SUFFICES ASSUME NEW n \in 1 .. Len(w), w[n] = <<t, p>>
                   PROVE  FALSE
        BY DEF Has
      <4>1. tu[w[n][1]][w[n][2]].on
        BY <2>2 DEF QueueKept
      <4> QED BY <4>1
    <3>2. QueueKept(w, more, s, i)
      BY <1>3, <2>2, <3>1, QueueUnmoved
    <3> QED BY <1>5, <2>1, <2>4, <3>2
  <2> QED BY <2>3, <2>4
<1>7. ASSUME NEW u \in Threads, NEW q \in Planes, more[u][q].on
      PROVE  Has(new[more[u][q].slot][StateOf(q)].waiting, <<u, q>>)
  <2>1. StateOf(q) \in States /\ more[u][q].slot \in Slots
    <3>1. more[u][q] \in TurnSet
      BY <1>3 DEF TurnsTyped
    <3> QED BY <1>7, <3>1, GroupFacts DEF TurnSet
  <2>2. CASE u = t /\ q = p
    BY <1>3, <1>6, <2>1, <2>2
  <2>3. CASE ~(u = t /\ q = p)
    <3>1. more[u][q] = tu[u][q]
      BY <1>3, <2>3
    <3> QED BY <1>6, <1>7, <2>1, <3>1 DEF Tickets
  <2> QED BY <2>2, <2>3
<1> QED BY <1>2, <1>6, <1>7 DEF Tickets, new

-----------------------------------------------------------------------------
(* The planes of a group planned one after the other.                      *)

TurnsWith(t, own) == [turns EXCEPT ![t] = own]

\* What holds when the planes from first to first + n - 1 are planned.
PlannedWell(rec, t, first, n) ==
    /\ StatesTyped(rec.state) /\ rec.turns \in [Planes -> TurnSet]
    /\ Tickets(rec.state, TurnsWith(t, rec.turns))
    /\ \A p \in Planes : IF first <= p /\ p < first + n THEN rec.turns[p].on /\ ~rec.turns[p].entered
                         ELSE ~rec.turns[p].on
    /\ \A s \in Slots, i \in States : state[s][i].waiting # <<>> =>
          rec.state[s][i].waiting # <<>> /\ Head(rec.state[s][i].waiting) = Head(state[s][i].waiting)

LEMMA TurnsWithFacts ==
    ASSUME TurnsTyped(turns), NEW t \in Threads, NEW own \in [Planes -> TurnSet]
    PROVE  /\ TurnsTyped(TurnsWith(t, own))
           /\ TurnsWith(t, own)[t] = own
           /\ \A u \in Threads : u # t => TurnsWith(t, own)[u] = turns[u]
  BY DEF TurnsWith, TurnsTyped

LEMMA PlanOneWell ==
    ASSUME TurnsAssumption, TurnsTyped(turns), NEW t \in Threads, NEW first \in Planes, NEW n \in Nat,
           NEW c \in Nat, NEW rec, PlannedWell(rec, t, first, n), first + n \in Planes
    PROVE  PlannedWell(PlanOne(rec, t, first + n, c), t, first, n + 1)
<1> DEFINE p == first + n
           turn == TurnOf(rec.state, p, c)
           own == [rec.turns EXCEPT ![p] = turn]
           tu == TurnsWith(t, rec.turns)
           more == TurnsWith(t, own)
           new == Ticket(rec.state, t, p, turn, c)
<1>1. first \in Int /\ p \in Planes /\ p \in Int /\ Planes \subseteq Int
  BY FS_CardinalityType DEF TurnsAssumption
<1>2. turn \in TurnSet /\ turn.on /\ ~turn.entered
  BY <1>1, TurnOfFacts DEF PlannedWell
<1>3. PlanOne(rec, t, p, c).turns = own /\ PlanOne(rec, t, p, c).state = new
  BY DEF PlanOne
<1> HIDE DEF turn
<1>4. own \in [Planes -> TurnSet] /\ own[p] = turn /\ \A q \in Planes : q # p => own[q] = rec.turns[q]
  BY <1>1, <1>2 DEF PlannedWell
<1> HIDE DEF own
<1>5. /\ tu[t] = rec.turns /\ TurnsTyped(more) /\ more[t] = own
      /\ \A u \in Threads : u # t => tu[u] = turns[u] /\ more[u] = turns[u]
  BY <1>4, TurnsWithFacts DEF PlannedWell
<1>6. ~tu[t][p].on
  BY <1>1, <1>5 DEF PlannedWell
<1>7. more[t][p] = turn /\ OthersKept(more, tu, t, p)
  BY <1>4, <1>5 DEF OthersKept
<1>8. Tickets(rec.state, tu) /\ StatesTyped(rec.state)
  BY DEF PlannedWell
<1> HIDE DEF p, tu, more
<1>9. /\ StatesTyped(new) /\ Tickets(new, more)
      /\ \A s \in Slots, i \in States : rec.state[s][i].waiting # <<>> =>
            new[s][i].waiting # <<>> /\ Head(new[s][i].waiting) = Head(rec.state[s][i].waiting)
  <2>1. StatesTyped(new)
    BY <1>1, <1>2, <1>8, TicketFacts
  <2>2. Tickets(new, more)
    BY <1>1, <1>2, <1>5, <1>6, <1>7, <1>8, PlanOneKeeps
  <2>3. \A s \in Slots, i \in States : rec.state[s][i].waiting # <<>> =>
            new[s][i].waiting # <<>> /\ Head(new[s][i].waiting) = Head(rec.state[s][i].waiting)
    BY <1>1, <1>2, <1>8, TicketHeads
  <2> QED BY <2>1, <2>2, <2>3
<1> HIDE DEF new
<1>10. \A s \in Slots, i \in States : state[s][i].waiting # <<>> =>
            new[s][i].waiting # <<>> /\ Head(new[s][i].waiting) = Head(state[s][i].waiting)
  BY <1>9 DEF PlannedWell
<1>11. ASSUME NEW q \in Planes
       PROVE  IF first <= q /\ q < first + (n + 1) THEN own[q].on /\ ~own[q].entered ELSE ~own[q].on
  <2>1. CASE q = p
    BY <1>1, <1>2, <1>4, <2>1 DEF p
  <2>2. CASE q # p
    <3>1. own[q] = rec.turns[q] /\ (first <= q /\ q < first + (n + 1) <=> first <= q /\ q < first + n)
      BY <1>1, <1>4, <2>2 DEF p
    <3> QED BY <3>1 DEF PlannedWell
  <2> QED BY <2>1, <2>2
<1> HIDE DEF PlannedWell
<1> DEFINE then == PlanOne(rec, t, p, c)
<1>12. then.turns = own /\ then.state = new
  BY <1>3 DEF p, new
<1> HIDE DEF then
<1>13. PlannedWell(then, t, first, n + 1)
  BY <1>4, <1>9, <1>10, <1>11, <1>12 DEF PlannedWell, more
<1> QED BY <1>13 DEF then, p

\* step is the function that Planned defines, over the first k planes.
PlansUp(step, t, first, c, k) ==
    step = [n \in 0 .. k |-> IF n = 0 THEN [turns |-> turns[t], state |-> state]
                             ELSE PlanOne(step[n - 1], t, first + n - 1, c)]

LEMMA PlansExist ==
    ASSUME NEW t, NEW first, NEW c, NEW k \in Nat
    PROVE  \E step : PlansUp(step, t, first, c, k)
<1> DEFINE base == [turns |-> turns[t], state |-> state]
           lengths == {n \in Nat : \E step : PlansUp(step, t, first, c, n)}
<1>1. 0 \in lengths
  <2> DEFINE step == [n \in {0} |-> base]
  <2>1. 0 .. 0 = {0}
    OBVIOUS
  <2>2. step = [n \in 0 .. 0 |-> IF n = 0 THEN base ELSE PlanOne(step[n - 1], t, first + n - 1, c)]
    BY <2>1
  <2>3. PlansUp(step, t, first, c, 0)
    <3> HIDE DEF step
    <3> QED BY <2>2 DEF PlansUp
  <2> QED BY <2>3
<1>2. ASSUME NEW n \in Nat, n \in lengths
      PROVE  n + 1 \in lengths
  <2>1. PICK step : PlansUp(step, t, first, c, n)
    BY <1>2
  <2> DEFINE one(m) == PlanOne(step[m - 1], t, first + m - 1, c)
             longer == [m \in 0 .. n + 1 |-> IF m = 0 THEN base ELSE one(m)]
  <2>2. \A m \in 0 .. n : step[m] = IF m = 0 THEN base ELSE one(m)
    BY <2>1 DEF PlansUp
  <2>3. \A m \in 0 .. n : m \in 0 .. n + 1 /\ longer[m] = step[m]
    <3> HIDE DEF base, one
    <3> QED BY <2>2
  <2>4. \A m \in 0 .. n + 1 : m # 0 => m - 1 \in 0 .. n
    OBVIOUS
  <2>5. \A m \in 0 .. n + 1 : longer[m] = IF m = 0 THEN base ELSE one(m)
    OBVIOUS
  <2>6. longer = [m \in 0 .. n + 1 |-> longer[m]]
    OBVIOUS
  <2> HIDE DEF longer
  <2>7. \A m \in 0 .. n + 1 :
            longer[m] = IF m = 0 THEN base ELSE PlanOne(longer[m - 1], t, first + m - 1, c)
    <3> SUFFICES ASSUME NEW m \in 0 .. n + 1, m # 0
                 PROVE  longer[m] = PlanOne(longer[m - 1], t, first + m - 1, c)
      BY <2>5
    <3>1. longer[m] = PlanOne(step[m - 1], t, first + m - 1, c)
      BY <2>5
    <3>2. longer[m - 1] = step[m - 1]
      BY <2>3, <2>4
    <3> QED BY <3>1, <3>2
  <2>8. longer = [m \in 0 .. n + 1 |-> IF m = 0 THEN base ELSE PlanOne(longer[m - 1], t, first + m - 1, c)]
    BY <2>6, <2>7
  <2>9. PlansUp(longer, t, first, c, n + 1)
    BY <2>8 DEF PlansUp
  <2> QED BY <2>9
<1>3. Nat \subseteq lengths
  <2> HIDE DEF lengths
  <2> QED BY <1>1, <1>2, NaturalsInSet
<1> QED BY <1>3

LEMMA PlannedIsLast ==
    ASSUME TurnsAssumption, NEW t \in Threads, NEW first \in Planes, NEW c
    PROVE  LET k == Cardinality(Group(first))
           IN  \E step : PlansUp(step, t, first, c, k) /\ Planned(t, first, c) = step[k]
<1> DEFINE k == Cardinality(Group(first))
           step == CHOOSE f : PlansUp(f, t, first, c, k)
<1>1. k \in Nat
  BY FS_Singleton, FS_CardinalityType DEF Group, TurnsAssumption
<1>2. Planned(t, first, c) = step[k]
  BY DEF Planned, PlansUp
<1> HIDE DEF k
<1>3. PlansUp(step, t, first, c, k)
  BY <1>1, PlansExist
<1> HIDE DEF step
<1>4. \E f : PlansUp(f, t, first, c, k) /\ Planned(t, first, c) = f[k]
  BY <1>2, <1>3
<1> QED BY <1>4 DEF k

\* Where a group begins, its planes are the next Cardinality(Group).
LEMMA GroupFromFirst ==
    ASSUME TurnsAssumption, NEW first \in Planes, together => first = 0
    PROVE  /\ Cardinality(Group(first)) \in Nat
           /\ Group(first) = first .. first + Cardinality(Group(first)) - 1
<1>1. Planes \subseteq Int /\ Cardinality(Planes) \in Nat /\ Planes = 0 .. Cardinality(Planes) - 1
  BY FS_CardinalityType DEF TurnsAssumption
<1>2. CASE together
  BY <1>1, <1>2 DEF Group
<1>3. CASE ~together
  <2>1. Group(first) = {first} /\ Cardinality({first}) = 1
    BY <1>3, FS_Singleton DEF Group
  <2>2. first \in Int /\ {first} = first .. first + 1 - 1
    BY <1>1
  <2> QED BY <2>1, <2>2
<1> QED BY <1>2, <1>3

\* The first plans of a group leave its turns on and nothing else changed.
LEMMA PlansWell ==
    ASSUME TurnsAssumption, TypeOK, Tickets(state, turns), NEW t \in Threads, \A p \in Planes : ~turns[t][p].on,
           NEW first \in Planes, together => first = 0, NEW c \in Nat,
           NEW k, k = Cardinality(Group(first)), NEW step, PlansUp(step, t, first, c, k)
    PROVE  /\ k \in Nat
           /\ \A n \in 0 .. k : PlannedWell(step[n], t, first, n)
           /\ \A n \in 0 .. k - 1 : first + n \in Planes /\ step[n + 1] = PlanOne(step[n], t, first + n, c)
<1>1. k \in Nat /\ first \in Int /\ Group(first) = first .. first + k - 1 /\ Group(first) \subseteq Planes
  <2>1. first \in Int
    BY FS_CardinalityType DEF TurnsAssumption
  <2>2. Group(first) \subseteq Planes
    BY GroupFacts
  <2> QED BY <2>1, <2>2, GroupFromFirst
<1>2. ASSUME NEW n \in 0 .. k - 1
      PROVE  first + n \in Planes /\ step[n + 1] = PlanOne(step[n], t, first + n, c)
  <2>1. first + n \in Planes
    <3>1. first + n \in first .. first + k - 1
      BY <1>1
    <3> QED BY <1>1, <3>1
  <2>2. n + 1 \in 0 .. k /\ n + 1 # 0 /\ n + 1 - 1 = n /\ first + (n + 1) - 1 = first + n
    BY <1>1
  <2>3. \A m \in 0 .. k : step[m] = IF m = 0 THEN [turns |-> turns[t], state |-> state]
                                  ELSE PlanOne(step[m - 1], t, first + m - 1, c)
    BY DEF PlansUp
  <2>4. step[n + 1] = PlanOne(step[n + 1 - 1], t, first + (n + 1) - 1, c)
    BY <2>2, <2>3
  <2> QED BY <2>1, <2>2, <2>4
<1>3. PlannedWell(step[0], t, first, 0)
  <2>1. step[0] = [turns |-> turns[t], state |-> state]
    BY <1>1 DEF PlansUp
  <2>2. turns[t] \in [Planes -> TurnSet] /\ TurnsWith(t, turns[t]) = turns
    BY DEF TypeOK, TurnsTyped, TurnsWith
  <2>3. \A p \in Planes : ~(first <= p /\ p < first + 0)
    BY <1>1, FS_CardinalityType DEF TurnsAssumption
  <2> QED BY <2>1, <2>2, <2>3 DEF PlannedWell, TypeOK
<1> DEFINE well == {n \in Nat : n \in 0 .. k => PlannedWell(step[n], t, first, n)}
<1>4. 0 \in well
  BY <1>3
<1>5. ASSUME NEW n \in Nat, n \in well
      PROVE  n + 1 \in well
  <2> SUFFICES ASSUME n + 1 \in 0 .. k
               PROVE  PlannedWell(step[n + 1], t, first, n + 1)
    OBVIOUS
  <2>1. n \in 0 .. k - 1 /\ n \in 0 .. k
    BY <1>1
  <2>2. PlannedWell(step[n], t, first, n)
    BY <1>5, <2>1
  <2>3. first + n \in Planes /\ step[n + 1] = PlanOne(step[n], t, first + n, c)
    BY <1>2, <2>1
  <2>4. PlannedWell(PlanOne(step[n], t, first + n, c), t, first, n + 1)
    BY <2>2, <2>3, PlanOneWell DEF TypeOK
  <2> QED BY <2>3, <2>4
<1>6. Nat \subseteq well
  <2> HIDE DEF well
  <2> QED BY <1>4, <1>5, NaturalsInSet
<1> QED BY <1>1, <1>2, <1>6

-----------------------------------------------------------------------------
(* Tickets and slots.                                                      *)

\* Queues and turns that change in nothing the tickets are about.
LEMMA TicketsSame ==
    ASSUME TurnsAssumption, NEW st, NEW tu, NEW new, NEW more, StatesTyped(st), TurnsTyped(more), Tickets(st, tu),
           \A s \in Slots, i \in States : new[s][i].waiting = st[s][i].waiting,
           \A u \in Threads, q \in Planes : tu[u][q].on => more[u][q].on /\ more[u][q].slot = tu[u][q].slot,
           \A u \in Threads, q \in Planes : more[u][q].on => tu[u][q].on
    PROVE  Tickets(new, more)
<1>1. ASSUME NEW s \in Slots, NEW i \in States
      PROVE  QueueKept(new[s][i].waiting, more, s, i)
  <2>1. PICK w \in Seq(Threads \X Planes) : w = st[s][i].waiting
    BY DEF StatesTyped, RollStates
  <2>2. QueueKept(w, tu, s, i)
    BY <2>1 DEF Tickets
  <2>3. \A n \in 1 .. Len(w) : w[n][1] \in Threads /\ w[n][2] \in Planes
    <3>1. \A n \in 1 .. Len(w) : w[n] \in Threads \X Planes
      BY ElementOfSeq
    <3> QED BY <3>1
  <2>4. QueueKept(w, more, s, i)
    BY <2>2, <2>3 DEF QueueKept
  <2> QED BY <2>1, <2>4
<1>2. ASSUME NEW u \in Threads, NEW q \in Planes, more[u][q].on
      PROVE  Has(new[more[u][q].slot][StateOf(q)].waiting, <<u, q>>)
  <2>1. tu[u][q].on /\ more[u][q].slot = tu[u][q].slot
    BY <1>2
  <2>2. more[u][q].slot \in Slots /\ StateOf(q) \in States
    <3>1. more[u][q] \in TurnSet
      BY DEF TurnsTyped
    <3> QED BY <1>2, <3>1, GroupFacts DEF TurnSet
  <2>3. Has(st[tu[u][q].slot][StateOf(q)].waiting, <<u, q>>)
    BY <2>1 DEF Tickets
  <2> QED BY <2>1, <2>2, <2>3
<1> QED BY <1>1, <1>2 DEF Tickets

\* The queue of state i on slot s is one ticket shorter.
Shorter(new, st, s, i) ==
    \A u \in Slots, j \in States :
        new[u][j].waiting = IF u = s /\ j = i THEN Tail(st[u][j].waiting) ELSE st[u][j].waiting

\* Thread t's turn for plane p has ended.
TurnOver(more, tu, t, p) == ~more[t][p].on /\ OthersKept(more, tu, t, p)

\* A turn ends: the head of its queue.
LEMMA TicketsLeft ==
    ASSUME TurnsAssumption, NEW st, NEW tu, NEW new, NEW more, StatesTyped(st), TurnsTyped(tu), TurnsTyped(more),
           Tickets(st, tu), NEW t \in Threads, NEW p \in Planes, tu[t][p].on,
           Head(st[tu[t][p].slot][StateOf(p)].waiting) = <<t, p>>,
           Shorter(new, st, tu[t][p].slot, StateOf(p)), TurnOver(more, tu, t, p)
    PROVE  Tickets(new, more)
<1>0. ~more[t][p].on /\ OthersKept(more, tu, t, p)
  BY DEF TurnOver
<1> DEFINE here(s, i) == s = tu[t][p].slot /\ i = StateOf(p)
<1>1. tu[t][p].slot \in Slots /\ StateOf(p) \in States
  <2>1. tu[t][p] \in TurnSet
    BY DEF TurnsTyped
  <2> QED BY <2>1, GroupFacts DEF TurnSet
<1>2. ASSUME NEW s \in Slots, NEW i \in States
      PROVE  /\ QueueKept(new[s][i].waiting, more, s, i)
             /\ \A own : Has(st[s][i].waiting, own) /\ own # <<t, p>> => Has(new[s][i].waiting, own)
  <2>1. PICK w \in Seq(Threads \X Planes) : w = st[s][i].waiting
    BY DEF StatesTyped, RollStates
  <2>2. QueueKept(w, tu, s, i)
    BY <2>1 DEF Tickets
  <2>3. CASE here(s, i)
    <3>1. Has(w, <<t, p>>)
      BY <2>1, <2>3 DEF Tickets
    <3>2. w # <<>>
      BY <3>1 DEF Has
    <3>3. Head(w) = <<t, p>> /\ new[s][i].waiting = Tail(w)
      BY <2>1, <2>3 DEF Shorter
    <3>4. QueueKept(Tail(w), more, s, i)
      BY <1>0, <2>2, <3>2, <3>3, TailKeeps
    <3>5. \A own : Has(w, own) /\ own # <<t, p>> => Has(Tail(w), own)
      BY <3>2, <3>3, TailHas
    <3> QED BY <2>1, <3>3, <3>4, <3>5
  <2>4. CASE ~here(s, i)
    <3>1. ~Has(w, <<t, p>>)
      <4> SUFFICES ASSUME NEW n \in 1 .. Len(w), w[n] = <<t, p>>
                   PROVE  FALSE
        BY DEF Has
      <4>1. tu[w[n][1]][w[n][2]].slot = s /\ StateOf(w[n][2]) = i
        BY <2>2 DEF QueueKept
      <4> QED BY <2>4, <4>1
    <3>2. QueueKept(w, more, s, i)
      BY <1>0, <2>2, <3>1, QueueUnmoved
    <3> QED BY <2>1, <2>4, <3>2 DEF Shorter
  <2> QED BY <2>3, <2>4
<1>3. ASSUME NEW u \in Threads, NEW q \in Planes, more[u][q].on
      PROVE  Has(new[more[u][q].slot][StateOf(q)].waiting, <<u, q>>)
  <2>1. <<u, q>> # <<t, p>> /\ more[u][q] = tu[u][q]
    BY <1>0, <1>3 DEF OthersKept
  <2>2. more[u][q].slot \in Slots /\ StateOf(q) \in States
    <3>1. more[u][q] \in TurnSet
      BY DEF TurnsTyped
    <3> QED BY <1>3, <3>1, GroupFacts DEF TurnSet
  <2>3. Has(st[tu[u][q].slot][StateOf(q)].waiting, <<u, q>>)
    BY <1>3, <2>1 DEF Tickets
  <2> QED BY <1>2, <2>1, <2>2, <2>3
<1> QED BY <1>2, <1>3 DEF Tickets

LEMMA InitHolds ==
    ASSUME TurnsAssumption, Init
    PROVE  IInv
<1>1. 0 \in Planes /\ \A p \in Planes : StateOf(p) \in States
  BY FS_CardinalityType, GroupFacts DEF TurnsAssumption
<1>2. TypeOK
  BY <1>1 DEF Init, TypeOK, StatesTyped, RollStates, TurnsTyped, TurnSet, NoTurn, NoChunk, Steps
<1>3. \A t \in Threads, p \in Planes : ~turns[t][p].on
  BY DEF Init, NoTurn
<1>4. \A s \in Slots, i \in States : state[s][i].waiting = <<>>
  BY DEF Init
<1>5. Tickets(state, turns)
  <2>1. \A s, i : QueueKept(<<>>, turns, s, i)
    <3>1. Len(<<>>) = 0
      OBVIOUS
    <3>2. 1 .. Len(<<>>) = {}
      BY <3>1
    <3> QED BY <3>2 DEF QueueKept
  <2> QED BY <1>3, <1>4, <2>1 DEF Tickets
<1>6. TurnsAtSteps
  BY <1>3 DEF Init, TurnsAtSteps, AtStep
<1>7. SlotsKept
  BY <1>3 DEF Init, SlotsKept, Entered
<1> QED BY <1>2, <1>5, <1>6, <1>7 DEF IInv

\* In terms of the next states.
LEMMA NextTickets ==
    ASSUME together' = together, StatesTyped(state'), TurnsTyped(turns'), Tickets(state', turns')
    PROVE  StatesTyped(state)' /\ TurnsTyped(turns)' /\ Tickets(state, turns)'
<1>1. \A p : StateOf(p)' = StateOf(p)
  BY DEF StateOf
<1>2. States' = States
  BY DEF States, StateOf
<1>3. StatesTyped(state)'
  BY <1>2 DEF StatesTyped
<1>4. TurnsTyped(turns)'
  BY DEF TurnsTyped
<1>5. Tickets(state, turns)'
  <2>1. ASSUME NEW s \in Slots, NEW i \in States
        PROVE  QueueKept(state[s][i].waiting, turns, s, i)'
    <3>1. QueueKept(state'[s][i].waiting, turns', s, i)
      BY DEF Tickets
    <3> QED BY <3>1 DEF QueueKept, StateOf
  <2>2. ASSUME NEW t \in Threads, NEW p \in Planes, turns'[t][p].on
        PROVE  Has(state[turns[t][p].slot][StateOf(p)].waiting, <<t, p>>)'
    <3>1. Has(state'[turns'[t][p].slot][StateOf(p)].waiting, <<t, p>>)
      BY <2>2 DEF Tickets
    <3> QED BY <1>1, <3>1 DEF Has
  <2> QED BY <1>2, <2>1, <2>2 DEF Tickets
<1> QED BY <1>3, <1>4, <1>5

LEMMA NextSteps ==
    ASSUME together' = together, \A u \in Threads : AtStep(pc'[u], chunk'[u], plane'[u], turns'[u])
    PROVE  TurnsAtSteps'
<1>1. \A q : Group(q)' = Group(q)
  BY DEF Group
<1>2. ASSUME NEW u \in Threads
      PROVE  AtStep(pc[u], chunk[u], plane[u], turns[u])'
  <2>1. AtStep(pc'[u], chunk'[u], plane'[u], turns'[u])
    OBVIOUS
  <2> QED BY <1>1, <2>1 DEF AtStep
<1> QED BY <1>2 DEF TurnsAtSteps

\* One thread takes a step: the others are where they were.
LEMMA OthersAtSteps ==
    ASSUME IInv, together' = together, NEW t \in Threads, AtStep(pc'[t], chunk'[t], plane'[t], turns'[t]),
           \A u \in Threads : u # t => /\ pc'[u] = pc[u] /\ chunk'[u] = chunk[u]
                                      /\ plane'[u] = plane[u] /\ turns'[u] = turns[u]
    PROVE  TurnsAtSteps'
<1>1. ASSUME NEW u \in Threads
      PROVE  AtStep(pc'[u], chunk'[u], plane'[u], turns'[u])
  BY DEF IInv, TurnsAtSteps
<1> QED BY <1>1, NextSteps

LEMMA NextSlots ==
    ASSUME together' = together,
           \A u \in Threads, q \in Planes : turns'[u][q].on /\ turns'[u][q].entered =>
              /\ in_use'[turns'[u][q].slot]
              /\ Head(state'[turns'[u][q].slot][StateOf(q)].waiting) = <<u, q>>,
           \A u, v \in Threads, q, r \in Planes :
              /\ turns'[u][q].on /\ turns'[u][q].entered /\ turns'[v][r].on /\ turns'[v][r].entered
              /\ turns'[u][q].slot = turns'[v][r].slot
              => u = v /\ q = r,
           \A s \in Slots : in_use'[s] =>
              \E u \in Threads, q \in Planes : turns'[u][q].on /\ turns'[u][q].entered /\ turns'[u][q].slot = s
    PROVE  SlotsKept'
<1>1. (\A u \in Threads, q \in Planes : Entered(u, q) =>
          /\ in_use[turns[u][q].slot]
          /\ Head(state[turns[u][q].slot][StateOf(q)].waiting) = <<u, q>>)'
  BY DEF Entered, StateOf
<1>2. (\A u, v \in Threads, q, r \in Planes :
          Entered(u, q) /\ Entered(v, r) /\ turns[u][q].slot = turns[v][r].slot => u = v /\ q = r)'
  BY DEF Entered
<1>3. (\A s \in Slots : in_use[s] => \E u \in Threads, q \in Planes : Entered(u, q) /\ turns[u][q].slot = s)'
  BY DEF Entered
<1> QED BY <1>1, <1>2, <1>3 DEF SlotsKept

\* Only the threads' places change.
LEMMA PlacesKeep ==
    ASSUME IInv, UNCHANGED <<together, state, in_use, turns>>
    PROVE  StatesTyped(state)' /\ TurnsTyped(turns)' /\ Tickets(state, turns)' /\ SlotsKept'
<1>1. StatesTyped(state') /\ TurnsTyped(turns') /\ Tickets(state', turns')
  BY DEF IInv, TypeOK
<1>2. SlotsKept'
  BY DEF IInv, SlotsKept, Entered, StateOf
<1> QED BY <1>1, <1>2, NextTickets

LEMMA BeginKeeps ==
    ASSUME TurnsAssumption, IInv, NEW t \in Threads, NEW c \in Chunks, Begin(t, c)
    PROVE  IInv'
<1>1. /\ pc[t] = "idle" /\ pc' = [pc EXCEPT ![t] = "plan"] /\ chunk' = [chunk EXCEPT ![t] = c]
      /\ plane' = [plane EXCEPT ![t] = 0] /\ computed' = computed + 1
      /\ UNCHANGED <<together, state, in_use, turns>>
  BY DEF Begin
<1>2. 0 \in Planes
  BY FS_CardinalityType DEF TurnsAssumption
<1>3. StatesTyped(state)' /\ TurnsTyped(turns)' /\ Tickets(state, turns)' /\ SlotsKept'
  BY <1>1, PlacesKeep
<1>4. TypeOK'
  BY <1>1, <1>2, <1>3 DEF IInv, TypeOK, Steps
<1>5. TurnsAtSteps'
  <2>1. AtStep(pc'[t], chunk'[t], plane'[t], turns'[t])
    BY <1>1 DEF IInv, TypeOK, TurnsAtSteps, AtStep
  <2> QED BY <1>1, <2>1, OthersAtSteps DEF IInv, TypeOK
<1> QED BY <1>3, <1>4, <1>5 DEF IInv

LEMMA SynchronizedKeeps ==
    ASSUME TurnsAssumption, IInv, NEW t \in Threads, Synchronized(t)
    PROVE  IInv'
<1>1. pc[t] = "wait" /\ UNCHANGED <<together, state, in_use, turns, computed>>
  BY DEF Synchronized
<1>2. StatesTyped(state)' /\ TurnsTyped(turns)' /\ Tickets(state, turns)' /\ SlotsKept'
  BY <1>1, PlacesKeep
<1>3. CASE plane[t] + 1 \in Planes
  <2>1. /\ plane' = [plane EXCEPT ![t] = plane[t] + 1] /\ pc' = [pc EXCEPT ![t] = "plan"] /\ UNCHANGED chunk
    BY <1>3 DEF Synchronized
  <2>2. ~together
    BY <1>1, <1>3, FS_CardinalityType DEF IInv, TurnsAtSteps, AtStep, TurnsAssumption
  <2>3. TypeOK'
    BY <1>1, <1>2, <1>3, <2>1 DEF IInv, TypeOK, Steps
  <2>4. TurnsAtSteps'
    <3>1. AtStep(pc'[t], chunk'[t], plane'[t], turns'[t])
      BY <1>1, <2>1, <2>2 DEF IInv, TypeOK, TurnsAtSteps, AtStep
    <3> QED BY <1>1, <2>1, <3>1, OthersAtSteps DEF IInv, TypeOK
  <2> QED BY <1>2, <2>3, <2>4 DEF IInv
<1>4. CASE plane[t] + 1 \notin Planes
  <2>1. /\ chunk' = [chunk EXCEPT ![t] = NoChunk] /\ pc' = [pc EXCEPT ![t] = "idle"] /\ UNCHANGED plane
    BY <1>4 DEF Synchronized
  <2>2. TypeOK'
    BY <1>1, <1>2, <2>1 DEF IInv, TypeOK, Steps
  <2>3. TurnsAtSteps'
    <3>1. AtStep(pc'[t], chunk'[t], plane'[t], turns'[t])
      BY <1>1, <2>1 DEF IInv, TypeOK, TurnsAtSteps, AtStep
    <3> QED BY <1>1, <2>1, <3>1, OthersAtSteps DEF IInv, TypeOK
  <2> QED BY <1>2, <2>2, <2>3 DEF IInv
<1> QED BY <1>3, <1>4

LEMMA ThrowWaitingKeeps ==
    ASSUME TurnsAssumption, IInv, NEW t \in Threads, ThrowWaiting(t)
    PROVE  IInv'
<1>1. /\ pc[t] = "wait" /\ pc' = [pc EXCEPT ![t] = "idle"] /\ chunk' = [chunk EXCEPT ![t] = NoChunk]
      /\ UNCHANGED <<together, state, in_use, plane, turns, computed>>
  BY DEF ThrowWaiting
<1>2. StatesTyped(state)' /\ TurnsTyped(turns)' /\ Tickets(state, turns)' /\ SlotsKept'
  BY <1>1, PlacesKeep
<1>3. TypeOK'
  BY <1>1, <1>2 DEF IInv, TypeOK, Steps
<1>4. TurnsAtSteps'
  <2>1. AtStep(pc'[t], chunk'[t], plane'[t], turns'[t])
    BY <1>1 DEF IInv, TypeOK, TurnsAtSteps, AtStep
  <2> QED BY <1>1, <2>1, OthersAtSteps DEF IInv, TypeOK
<1> QED BY <1>2, <1>3, <1>4 DEF IInv

LEMMA ThrowStagingKeeps ==
    ASSUME TurnsAssumption, IInv, NEW t \in Threads, ThrowStaging(t)
    PROVE  IInv'
<1>1. /\ pc[t] = "enter" /\ pc' = [pc EXCEPT ![t] = "unwind"]
      /\ UNCHANGED <<together, state, in_use, chunk, plane, turns, computed>>
  BY DEF ThrowStaging
<1>2. StatesTyped(state)' /\ TurnsTyped(turns)' /\ Tickets(state, turns)' /\ SlotsKept'
  BY <1>1, PlacesKeep
<1>3. TypeOK'
  BY <1>1, <1>2 DEF IInv, TypeOK, Steps
<1>4. TurnsAtSteps'
  <2>1. AtStep(pc'[t], chunk'[t], plane'[t], turns'[t])
    BY <1>1 DEF IInv, TypeOK, TurnsAtSteps, AtStep
  <2> QED BY <1>1, <2>1, OthersAtSteps DEF IInv, TypeOK
<1> QED BY <1>2, <1>3, <1>4 DEF IInv

\* A turn that is on has a slot, a state and a ticket there.
LEMMA OnFacts ==
    ASSUME TurnsAssumption, IInv, NEW t \in Threads, NEW p \in Planes, turns[t][p].on
    PROVE  /\ turns[t][p] \in [on : {TRUE}, slot : Slots, carry : BOOLEAN, chain : Nat, entered : BOOLEAN]
           /\ turns[t][p].slot \in Slots /\ StateOf(p) \in States
           /\ state[turns[t][p].slot][StateOf(p)] \in RollStates
           /\ Has(state[turns[t][p].slot][StateOf(p)].waiting, <<t, p>>)
           /\ state[turns[t][p].slot][StateOf(p)].waiting # <<>>
<1>1. turns[t][p] \in TurnSet
  BY DEF IInv, TypeOK, TurnsTyped
<1>2. /\ turns[t][p] \in [on : {TRUE}, slot : Slots, carry : BOOLEAN, chain : Nat, entered : BOOLEAN]
      /\ turns[t][p].slot \in Slots
  BY <1>1 DEF TurnSet
<1>3. StateOf(p) \in States
  BY GroupFacts
<1>4. state[turns[t][p].slot][StateOf(p)] \in RollStates
  BY <1>2, <1>3 DEF IInv, TypeOK, StatesTyped
<1>5. Has(state[turns[t][p].slot][StateOf(p)].waiting, <<t, p>>)
  BY DEF IInv, Tickets
<1>6. \A w : Has(w, <<t, p>>) => w # <<>>
  <2>1. Len(<<>>) = 0
    OBVIOUS
  <2>2. 1 .. Len(<<>>) = {}
    BY <2>1
  <2> QED BY <2>2 DEF Has
<1> QED BY <1>2, <1>3, <1>4, <1>5, <1>6

\* What a state holds changes: the tickets do not.
Holding(s, i, held) == [state EXCEPT ![s][i].holds = held]

LEMMA HoldingFacts ==
    ASSUME TurnsAssumption, IInv, NEW s \in Slots, NEW i \in States,
           NEW held \in (Planes \cup {-1}) \X (Nat \cup {NoChunk})
    PROVE  /\ StatesTyped(Holding(s, i, held))
           /\ \A u \in Slots, j \in States :
                 Holding(s, i, held)[u][j] = IF u = s /\ j = i THEN [state[u][j] EXCEPT !.holds = held]
                                             ELSE state[u][j]
           /\ \A u \in Slots, j \in States : Holding(s, i, held)[u][j].waiting = state[u][j].waiting
<1> DEFINE other == [state[s][i] EXCEPT !.holds = held]
<1>1. StatesTyped(state)
  BY DEF IInv, TypeOK
<1>2. other \in RollStates /\ other.waiting = state[s][i].waiting
  <2>1. PICK r \in RollStates : r = state[s][i]
    BY <1>1 DEF StatesTyped
  <2>2. [r EXCEPT !.holds = held] \in RollStates /\ [r EXCEPT !.holds = held].waiting = r.waiting
    BY DEF RollStates
  <2> QED BY <2>1, <2>2
<1>3. Holding(s, i, held) = [state EXCEPT ![s][i] = other]
  BY DEF Holding
<1> HIDE DEF other
<1>4. \A u \in Slots, j \in States : Holding(s, i, held)[u][j] = IF u = s /\ j = i THEN other ELSE state[u][j]
  BY <1>1, <1>3 DEF StatesTyped
<1>5. StatesTyped(Holding(s, i, held))
  BY <1>1, <1>2, <1>3 DEF StatesTyped
<1> QED BY <1>2, <1>4, <1>5 DEF other

\* The queues and the turns stay: so do the slots.
LEMMA SlotsSame ==
    ASSUME TurnsAssumption, IInv, UNCHANGED <<together, turns, in_use>>,
           \A s \in Slots, i \in States : state'[s][i].waiting = state[s][i].waiting
    PROVE  SlotsKept'
<1>1. ASSUME NEW u \in Threads, NEW q \in Planes, Entered(u, q)
      PROVE  /\ in_use'[turns[u][q].slot]
             /\ Head(state'[turns[u][q].slot][StateOf(q)].waiting) = <<u, q>>
  <2>1. turns[u][q].slot \in Slots /\ StateOf(q) \in States
    BY <1>1, OnFacts DEF Entered
  <2>2. in_use[turns[u][q].slot] /\ Head(state[turns[u][q].slot][StateOf(q)].waiting) = <<u, q>>
    BY <1>1 DEF IInv, SlotsKept
  <2> QED BY <2>1, <2>2
<1>2. SlotsKept
  BY DEF IInv
<1>3. (\A u \in Threads, q \in Planes : Entered(u, q) =>
          /\ in_use[turns[u][q].slot]
          /\ Head(state[turns[u][q].slot][StateOf(q)].waiting) = <<u, q>>)'
  BY <1>1 DEF Entered, StateOf
<1>4. (\A u, v \in Threads, q, r \in Planes :
          Entered(u, q) /\ Entered(v, r) /\ turns[u][q].slot = turns[v][r].slot => u = v /\ q = r)'
  BY <1>2 DEF SlotsKept, Entered
<1>5. (\A s \in Slots : in_use[s] => \E u \in Threads, q \in Planes : Entered(u, q) /\ turns[u][q].slot = s)'
  BY <1>2 DEF SlotsKept, Entered
<1> QED BY <1>3, <1>4, <1>5 DEF SlotsKept

\* The turn of a thread that enters or queues is on.
LEMMA OwnTurn ==
    ASSUME TurnsAssumption, IInv, NEW t \in Threads, pc[t] \in {"enter", "queue"}
    PROVE  /\ plane[t] \in Planes /\ Turn(t) = turns[t][plane[t]] /\ Turn(t).on
           /\ RollState(t) = state[Turn(t).slot][StateOf(plane[t])]
           /\ \A q \in Planes : turns[t][q].entered /\ turns[t][q].on => pc[t] = "queue" /\ q = plane[t]
           /\ pc[t] = "queue" => Turn(t).entered
<1>1. plane[t] \in Planes /\ Planes \subseteq Nat
  BY FS_CardinalityType DEF IInv, TypeOK, TurnsAssumption
<1>2. plane[t] \in Group(plane[t]) /\ plane[t] >= plane[t]
  <2>1. plane[t] \in Group(plane[t])
    BY <1>1, GroupFacts
  <2>2. plane[t] \in Nat
    BY <1>1
  <2> QED BY <2>1, <2>2
<1>3. /\ \A q \in Group(plane[t]) : q >= plane[t] => turns[t][q].on
      /\ \A q \in Planes : turns[t][q].entered /\ turns[t][q].on => pc[t] = "queue" /\ q = plane[t]
      /\ pc[t] = "queue" => turns[t][plane[t]].entered
  BY DEF IInv, TurnsAtSteps, AtStep
<1> QED BY <1>1, <1>2, <1>3 DEF Turn, RollState

LEMMA ThrowQueueingKeeps ==
    ASSUME TurnsAssumption, IInv, NEW t \in Threads, ThrowQueueing(t)
    PROVE  IInv'
<1> DEFINE p == plane[t]
           s == turns[t][p].slot
<1>1. /\ pc[t] = "queue" /\ pc' = [pc EXCEPT ![t] = "unwind"] /\ plane' = [plane EXCEPT ![t] = Min(Group(p))]
      /\ state' = Holding(s, StateOf(p), <<p, NoChunk>>)
      /\ UNCHANGED <<together, in_use, chunk, turns, computed>>
  BY DEF ThrowQueueing, Turn, Holding
<1>2. p \in Planes
  BY DEF IInv, TypeOK
<1>3. /\ p \in Group(p) /\ Group(p) \subseteq Planes /\ Min(Group(p)) = IF together THEN 0 ELSE p
      /\ 0 \in Planes /\ Planes \subseteq Nat
  BY <1>2, GroupFacts, FS_CardinalityType DEF TurnsAssumption
<1>4. turns[t][p].on
  BY <1>1, OwnTurn
<1>5. s \in Slots /\ StateOf(p) \in States
  BY <1>2, <1>4, OnFacts
<1>6. StatesTyped(state') /\ \A u \in Slots, j \in States : state'[u][j].waiting = state[u][j].waiting
  <2>1. <<p, NoChunk>> \in (Planes \cup {-1}) \X (Nat \cup {NoChunk})
    BY <1>2
  <2> HIDE DEF p, s
  <2> QED BY <1>1, <1>5, <2>1, HoldingFacts
<1>7. Tickets(state', turns') /\ TurnsTyped(turns')
  <2>1. turns' = turns /\ TurnsTyped(turns) /\ StatesTyped(state) /\ Tickets(state, turns)
    BY <1>1 DEF IInv, TypeOK
  <2>2. Tickets(state', turns)
    BY <1>6, <2>1, TicketsSame
  <2> QED BY <2>1, <2>2
<1>8. StatesTyped(state)' /\ TurnsTyped(turns)' /\ Tickets(state, turns)'
  BY <1>1, <1>6, <1>7, NextTickets
<1>9. SlotsKept'
  BY <1>1, <1>6, SlotsSame
<1> HIDE DEF p, s
<1>10. TypeOK'
  BY <1>1, <1>2, <1>3, <1>8 DEF IInv, TypeOK, Steps
<1>11. TurnsAtSteps'
  <2>1. \A q \in Group(p) : q >= Min(Group(p)) /\ q \in Group(Min(Group(p)))
    BY <1>2, <1>3 DEF Group
  <2>2. plane'[t] = Min(Group(p)) /\ pc'[t] = "unwind" /\ chunk'[t] = chunk[t] /\ turns'[t] = turns[t]
    BY <1>1 DEF IInv, TypeOK
  <2>3. chunk[t] \in Chunks /\ \A q \in Planes : turns[t][q].on => q \in Group(p) /\ q >= p
    BY <1>1 DEF IInv, TurnsAtSteps, AtStep, p
  <2>4. AtStep("unwind", chunk[t], Min(Group(p)), turns[t])
    BY <2>1, <2>3 DEF AtStep
  <2> QED BY <1>1, <2>2, <2>4, OthersAtSteps DEF IInv, TypeOK
<1> QED BY <1>8, <1>9, <1>10, <1>11 DEF IInv

LEMMA EnterKeeps ==
    ASSUME TurnsAssumption, IInv, NEW t \in Threads, Enter(t)
    PROVE  IInv'
<1> DEFINE p == plane[t]
           turn == turns[t][p]
           s == turn.slot
<1>1. /\ pc[t] = "enter" /\ ~in_use[s] /\ Head(state[s][StateOf(p)].waiting) = <<t, p>>
      /\ in_use' = [in_use EXCEPT ![s] = TRUE]
      /\ turns' = [turns EXCEPT ![t][p].entered = TRUE]
      /\ pc' = [pc EXCEPT ![t] = IF RunFailed(t) THEN "unwind" ELSE "queue"]
      /\ plane' = [plane EXCEPT ![t] = IF RunFailed(t) THEN Min(Group(p)) ELSE p]
      /\ state' = state \/ state' = Holding(s, StateOf(p), <<p, chunk[t]>>)
      /\ UNCHANGED <<together, chunk, computed>>
  BY DEF Enter, MayEnter, AtTurn, RollState, Turn, Holding
<1>2. /\ p \in Planes /\ turn.on /\ chunk[t] \in Chunks
      /\ \A q \in Planes : turns[t][q].on => ~turns[t][q].entered
  BY <1>1, OwnTurn DEF Turn, IInv, TurnsAtSteps, AtStep
<1>3. /\ p \in Group(p) /\ Group(p) \subseteq Planes /\ Min(Group(p)) = IF together THEN 0 ELSE p
      /\ 0 \in Planes /\ Planes \subseteq Nat
  BY <1>2, GroupFacts, FS_CardinalityType DEF TurnsAssumption
<1>4. s \in Slots /\ StateOf(p) \in States /\ turn \in TurnSet
  BY <1>2, OnFacts DEF TurnSet
<1>5. StatesTyped(state') /\ \A u \in Slots, j \in States : state'[u][j].waiting = state[u][j].waiting
  <2>1. chunk[t] \in Nat /\ <<p, chunk[t]>> \in (Planes \cup {-1}) \X (Nat \cup {NoChunk})
    BY <1>2 DEF TurnsAssumption
  <2> HIDE DEF p, s
  <2>2. StatesTyped(state)
    BY DEF IInv, TypeOK
  <2>3. CASE state' = state
    BY <2>2, <2>3
  <2>4. CASE state' = Holding(s, StateOf(p), <<p, chunk[t]>>)
    BY <1>4, <2>1, <2>4, HoldingFacts
  <2> QED BY <1>1, <2>3, <2>4
<1>6. /\ TurnsTyped(turns')
      /\ turns'[t][p] = [turn EXCEPT !.entered = TRUE]
      /\ \A u \in Threads, q \in Planes : u # t \/ q # p => turns'[u][q] = turns[u][q]
  <2>1. [turn EXCEPT !.entered = TRUE] \in TurnSet
    <3>1. turn \in [on : {TRUE}, slot : Slots, carry : BOOLEAN, chain : Nat, entered : BOOLEAN]
      BY <1>2, OnFacts
    <3> HIDE DEF turn
    <3> QED BY <3>1 DEF TurnSet
  <2> DEFINE now == [turn EXCEPT !.entered = TRUE]
  <2>2. turns' = [turns EXCEPT ![t][p] = now]
    BY <1>1
  <2>3. turns \in [Threads -> [Planes -> TurnSet]]
    BY DEF IInv, TypeOK, TurnsTyped
  <2> HIDE DEF now, p
  <2>4. now \in TurnSet /\ p \in Planes
    BY <1>2, <2>1 DEF now
  <2>5. TurnsTyped(turns') /\ turns'[t][p] = now
        /\ \A u \in Threads, q \in Planes : u # t \/ q # p => turns'[u][q] = turns[u][q]
    BY <2>2, <2>3, <2>4 DEF TurnsTyped
  <2> QED BY <2>5 DEF now, p
<1>7. turns'[t][p].on /\ turns'[t][p].entered /\ turns'[t][p].slot = s
  <2>1. turn \in [on : {TRUE}, slot : Slots, carry : BOOLEAN, chain : Nat, entered : BOOLEAN]
    BY <1>2, OnFacts
  <2> HIDE DEF turn
  <2> QED BY <1>6, <2>1 DEF turn
<1> HIDE DEF p, turn, s
<1>8. /\ \A u \in Threads, q \in Planes : turns[u][q].on => turns'[u][q].on /\ turns'[u][q].slot = turns[u][q].slot
      /\ \A u \in Threads, q \in Planes : turns'[u][q].on => turns[u][q].on
  BY <1>2, <1>6, <1>7 DEF turn, s
<1>9. Tickets(state', turns')
  <2>1. StatesTyped(state) /\ Tickets(state, turns)
    BY DEF IInv, TypeOK
  <2> QED BY <1>5, <1>6, <1>8, <2>1, TicketsSame
<1>10. StatesTyped(state)' /\ TurnsTyped(turns)' /\ Tickets(state, turns)'
  BY <1>1, <1>5, <1>6, <1>9, NextTickets
<1>11. SlotsKept'
  <2>1. \A u \in Threads, q \in Planes : turns'[u][q].on /\ turns'[u][q].entered =>
            (u = t /\ q = p) \/ (Entered(u, q) /\ turns'[u][q] = turns[u][q])
    BY <1>6 DEF Entered
  <2>2. SlotsKept
    BY DEF IInv
  <2>3. ASSUME NEW u \in Threads, NEW q \in Planes, Entered(u, q)
        PROVE  /\ turns[u][q].slot # s /\ in_use'[turns[u][q].slot] /\ turns[u][q].slot \in Slots
               /\ Head(state'[turns[u][q].slot][StateOf(q)].waiting) = <<u, q>>
    <3>1. turns[u][q].slot \in Slots /\ StateOf(q) \in States
      BY <2>3, OnFacts DEF Entered
    <3>2. in_use[turns[u][q].slot] /\ Head(state[turns[u][q].slot][StateOf(q)].waiting) = <<u, q>>
      BY <2>2, <2>3 DEF SlotsKept
    <3>3. \A v \in Slots : v # s => in_use'[v] = in_use[v]
      BY <1>1 DEF IInv, TypeOK
    <3> QED BY <1>1, <1>5, <3>1, <3>2, <3>3
  <2>4. in_use'[s] /\ Head(state'[s][StateOf(p)].waiting) = <<t, p>>
    BY <1>1, <1>4, <1>5 DEF IInv, TypeOK
  <2>5. \A u \in Threads, q \in Planes : turns'[u][q].on /\ turns'[u][q].entered =>
            in_use'[turns'[u][q].slot] /\ Head(state'[turns'[u][q].slot][StateOf(q)].waiting) = <<u, q>>
    BY <1>7, <2>1, <2>3, <2>4
  <2>6. \A u, v \in Threads, q, r \in Planes :
            /\ turns'[u][q].on /\ turns'[u][q].entered /\ turns'[v][r].on /\ turns'[v][r].entered
            /\ turns'[u][q].slot = turns'[v][r].slot
            => u = v /\ q = r
    BY <1>7, <2>1, <2>2, <2>3 DEF SlotsKept
  <2>7. \A v \in Slots : in_use'[v] =>
            \E u \in Threads, q \in Planes : turns'[u][q].on /\ turns'[u][q].entered /\ turns'[u][q].slot = v
    <3> SUFFICES ASSUME NEW v \in Slots, in_use'[v]
                 PROVE  \E u \in Threads, q \in Planes :
                            turns'[u][q].on /\ turns'[u][q].entered /\ turns'[u][q].slot = v
      OBVIOUS
    <3>1. CASE v = s
      BY <1>2, <1>7, <3>1 DEF p
    <3>2. CASE v # s
      <4>1. in_use[v]
        BY <1>1, <3>2 DEF IInv, TypeOK
      <4>2. PICK u \in Threads, q \in Planes : Entered(u, q) /\ turns[u][q].slot = v
        BY <2>2, <4>1 DEF SlotsKept
      <4>3. u # t \/ q # p
        BY <1>2, <4>2 DEF Entered
      <4> QED BY <1>6, <4>2, <4>3 DEF Entered
    <3> QED BY <3>1, <3>2
  <2> QED BY <1>1, <2>5, <2>6, <2>7, NextSlots
<1>12. TypeOK'
  BY <1>1, <1>2, <1>3, <1>10 DEF IInv, TypeOK, Steps
<1>13. TurnsAtSteps'
  <2>1. \A q \in Group(p) : q >= Min(Group(p)) /\ q \in Group(Min(Group(p)))
    BY <1>2, <1>3 DEF Group
  <2>2. \/ plane'[t] = Min(Group(p)) /\ pc'[t] = "unwind"
        \/ plane'[t] = p /\ pc'[t] = "queue"
    BY <1>1 DEF IInv, TypeOK, p
  <2>3. /\ \A q \in Planes : turns[t][q].on => q \in Group(p) /\ q >= p
        /\ \A q \in Group(p) : q >= p => turns[t][q].on
    BY <1>1 DEF IInv, TurnsAtSteps, AtStep, p
  <2>4. \A q \in Planes : turns'[t][q].on => q \in Group(p) /\ q >= p /\ (turns'[t][q].entered => q = p)
    BY <1>2, <1>6, <1>8, <2>3
  <2>5. \A q \in Group(p) : q >= p => turns'[t][q].on
    BY <1>3, <1>8, <2>3
  <2>6. AtStep("unwind", chunk[t], Min(Group(p)), turns'[t])
    BY <1>2, <2>1, <2>4 DEF AtStep
  <2>7. AtStep("queue", chunk[t], p, turns'[t])
    BY <1>2, <1>7, <2>4, <2>5 DEF AtStep
  <2>8. AtStep(pc'[t], chunk'[t], plane'[t], turns'[t])
    BY <1>1, <2>2, <2>6, <2>7
  <2>9. \A u \in Threads : u # t => /\ pc'[u] = pc[u] /\ chunk'[u] = chunk[u]
                                   /\ plane'[u] = plane[u] /\ turns'[u] = turns[u]
    BY <1>1 DEF IInv, TypeOK, TurnsTyped
  <2> QED BY <1>1, <2>8, <2>9, OthersAtSteps
<1> QED BY <1>10, <1>11, <1>12, <1>13 DEF IInv

-----------------------------------------------------------------------------
(* A turn ends: the end of QueueAndLeave, and ~RollTurn.                   *)

Replaced(s, i, r) == [state EXCEPT ![s][i] = r]

LEMMA ReplacedFacts ==
    ASSUME IInv, NEW s \in Slots, NEW i \in States, NEW r \in RollStates
    PROVE  /\ StatesTyped(Replaced(s, i, r))
           /\ \A u \in Slots, j \in States :
                 Replaced(s, i, r)[u][j] = IF u = s /\ j = i THEN r ELSE state[u][j]
<1>1. StatesTyped(state)
  BY DEF IInv, TypeOK
<1> QED BY <1>1 DEF StatesTyped, Replaced

LEMMA FinishedFacts ==
    ASSUME NEW r \in RollStates, r.waiting # <<>>, NEW turn, turn.chain \in Nat, NEW failed \in BOOLEAN
    PROVE  /\ Finished(r, turn, failed) \in RollStates
           /\ Finished(r, turn, failed).waiting = Tail(r.waiting)
           /\ Finished(r, turn, failed).failed = IF failed THEN turn.chain ELSE r.failed
           /\ Finished(r, turn, failed).next = IF failed /\ r.chain = turn.chain THEN NoChunk ELSE r.next
           /\ Finished(r, turn, failed).chain = r.chain /\ Finished(r, turn, failed).plane = r.plane
           /\ Finished(r, turn, failed).holds = r.holds
<1> DEFINE no == IF failed THEN turn.chain ELSE r.failed
           to == IF failed /\ r.chain = turn.chain THEN NoChunk ELSE r.next
           rest == Tail(r.waiting)
<1>1. r.waiting \in Seq(Threads \X Planes)
  BY DEF RollStates
<1>2. rest \in Seq(Threads \X Planes) /\ no \in Nat \cup {-1} /\ to \in Nat \cup {NoChunk}
  BY <1>1, HeadTailProperties DEF RollStates
<1>3. Finished(r, turn, failed) = [r EXCEPT !.failed = no, !.next = to, !.waiting = rest]
  BY DEF Finished
<1> HIDE DEF no, to, rest
<1>4. /\ Finished(r, turn, failed) \in RollStates
      /\ Finished(r, turn, failed).waiting = rest /\ Finished(r, turn, failed).failed = no
      /\ Finished(r, turn, failed).next = to
      /\ Finished(r, turn, failed).chain = r.chain /\ Finished(r, turn, failed).plane = r.plane
      /\ Finished(r, turn, failed).holds = r.holds
  BY <1>2, <1>3 DEF RollStates
<1> QED BY <1>4 DEF no, to, rest

TurnsEnded(t, p) == [turns EXCEPT ![t][p] = NoTurn]

LEMMA EndedFacts ==
    ASSUME IInv, NEW t \in Threads, NEW p \in Planes
    PROVE  /\ TurnsTyped(TurnsEnded(t, p)) /\ ~TurnsEnded(t, p)[t][p].on
           /\ \A u \in Threads, q \in Planes : u # t \/ q # p => TurnsEnded(t, p)[u][q] = turns[u][q]
           /\ \A u \in Threads : u # t => TurnsEnded(t, p)[u] = turns[u]
<1>1. NoTurn \in TurnSet /\ ~NoTurn.on
  BY DEF NoTurn, TurnSet
<1>2. TurnsTyped(turns)
  BY DEF IInv, TypeOK
<1>3. /\ TurnsTyped(TurnsEnded(t, p)) /\ TurnsEnded(t, p)[t][p] = NoTurn
      /\ \A u \in Threads, q \in Planes : u # t \/ q # p => TurnsEnded(t, p)[u][q] = turns[u][q]
      /\ \A u \in Threads : u # t => TurnsEnded(t, p)[u] = turns[u]
  BY <1>1, <1>2 DEF TurnsTyped, TurnsEnded
<1> QED BY <1>1, <1>3

LEMMA OneEntered ==
    ASSUME IInv, NEW t \in Threads, NEW u \in Threads, NEW p \in Planes, NEW q \in Planes,
           Entered(t, p), Entered(u, q), turns[t][p].slot = turns[u][q].slot
    PROVE  t = u /\ p = q
  BY DEF IInv, SlotsKept

LEMMA LeaveKeeps ==
    ASSUME TurnsAssumption, IInv, NEW t \in Threads, NEW p \in Planes, turns[t][p].on,
           Head(state[turns[t][p].slot][StateOf(p)].waiting) = <<t, p>>,
           together' = together, StatesTyped(state'),
           Shorter(state', state, turns[t][p].slot, StateOf(p)),
           turns' = TurnsEnded(t, p),
           \A v \in Slots : in_use'[v] <=> in_use[v] /\ ~(v = turns[t][p].slot /\ turns[t][p].entered)
    PROVE  StatesTyped(state)' /\ TurnsTyped(turns)' /\ Tickets(state, turns)' /\ SlotsKept'
<1> DEFINE s == turns[t][p].slot
<1>1. /\ TurnsTyped(turns') /\ ~turns'[t][p].on
      /\ \A u \in Threads, q \in Planes : u # t \/ q # p => turns'[u][q] = turns[u][q]
  BY EndedFacts
<1>2. Tickets(state', turns')
  <2>1. StatesTyped(state) /\ TurnsTyped(turns) /\ Tickets(state, turns)
    BY DEF IInv, TypeOK
  <2>2. TurnOver(turns', turns, t, p)
    BY <1>1 DEF TurnOver, OthersKept
  <2> QED BY <1>1, <2>1, <2>2, TicketsLeft
<1>3. SlotsKept
  BY DEF IInv
<1>4. s \in Slots
  BY OnFacts
<1>5. ASSUME NEW u \in Threads, NEW q \in Planes, turns'[u][q].on, turns'[u][q].entered
      PROVE  /\ u # t \/ q # p
             /\ turns'[u][q] = turns[u][q] /\ Entered(u, q)
             /\ in_use'[turns[u][q].slot]
             /\ Head(state'[turns[u][q].slot][StateOf(q)].waiting) = <<u, q>>
  <2>1. (u # t \/ q # p) /\ turns'[u][q] = turns[u][q] /\ Entered(u, q)
    BY <1>1, <1>5 DEF Entered
  <2>2. turns[u][q].slot \in Slots /\ StateOf(q) \in States
    BY <2>1, OnFacts DEF Entered
  <2>3. in_use[turns[u][q].slot] /\ Head(state[turns[u][q].slot][StateOf(q)].waiting) = <<u, q>>
    BY <1>3, <2>1 DEF SlotsKept
  <2>4. turns[t][p].entered => turns[u][q].slot # s
    <3> SUFFICES ASSUME turns[t][p].entered, turns[u][q].slot = s
                 PROVE  FALSE
      OBVIOUS
    <3>1. Entered(t, p)
      BY DEF Entered
    <3>2. u = t /\ q = p
      BY <2>1, <3>1, OneEntered
    <3> QED BY <2>1, <3>2
  <2>5. in_use'[turns[u][q].slot]
    BY <2>2, <2>3, <2>4
  <2>6. ~(turns[u][q].slot = s /\ StateOf(q) = StateOf(p))
    <3> SUFFICES ASSUME turns[u][q].slot = s, StateOf(q) = StateOf(p)
                 PROVE  FALSE
      OBVIOUS
    <3>1. <<u, q>> = <<t, p>>
      BY <2>3
    <3> QED BY <2>1, <3>1
  <2>7. state'[turns[u][q].slot][StateOf(q)].waiting = state[turns[u][q].slot][StateOf(q)].waiting
    BY <2>2, <2>6 DEF Shorter
  <2> QED BY <2>1, <2>3, <2>5, <2>7
<1>6. ASSUME NEW v \in Slots, in_use'[v]
      PROVE  \E u \in Threads, q \in Planes : turns'[u][q].on /\ turns'[u][q].entered /\ turns'[u][q].slot = v
  <2>1. in_use[v] /\ (v = s => ~turns[t][p].entered)
    BY <1>4, <1>6
  <2>2. PICK u \in Threads, q \in Planes : Entered(u, q) /\ turns[u][q].slot = v
    BY <1>3, <2>1 DEF SlotsKept
  <2>3. u # t \/ q # p
    BY <2>1, <2>2 DEF Entered
  <2> QED BY <1>1, <2>2, <2>3 DEF Entered
<1>7. ASSUME NEW u \in Threads, NEW v \in Threads, NEW q \in Planes, NEW r \in Planes,
             turns'[u][q].on, turns'[u][q].entered, turns'[v][r].on, turns'[v][r].entered,
             turns'[u][q].slot = turns'[v][r].slot
      PROVE  u = v /\ q = r
  <2>1. Entered(u, q) /\ Entered(v, r) /\ turns[u][q].slot = turns[v][r].slot
    BY <1>5, <1>7
  <2> QED BY <2>1, OneEntered
<1>8. SlotsKept'
  <2>1. ASSUME NEW u \in Threads, NEW q \in Planes, turns'[u][q].on /\ turns'[u][q].entered
        PROVE  in_use'[turns'[u][q].slot] /\ Head(state'[turns'[u][q].slot][StateOf(q)].waiting) = <<u, q>>
    <3>1. /\ turns'[u][q] = turns[u][q] /\ in_use'[turns[u][q].slot]
          /\ Head(state'[turns[u][q].slot][StateOf(q)].waiting) = <<u, q>>
      BY <1>5, <2>1
    <3> QED BY <3>1
  <2>2. \A u, v \in Threads, q, r \in Planes :
            /\ turns'[u][q].on /\ turns'[u][q].entered /\ turns'[v][r].on /\ turns'[v][r].entered
            /\ turns'[u][q].slot = turns'[v][r].slot
            => u = v /\ q = r
    BY <1>7
  <2>3. \A v \in Slots : in_use'[v] =>
            \E u \in Threads, q \in Planes : turns'[u][q].on /\ turns'[u][q].entered /\ turns'[u][q].slot = v
    BY <1>6
  <2> QED BY <2>1, <2>2, <2>3, NextSlots
<1> QED BY <1>1, <1>2, <1>8, NextTickets

LEMMA LastFacts ==
    ASSUME TurnsAssumption, NEW p \in Planes
    PROVE  /\ p = Max(Group(p)) => /\ together => p = Cardinality(Planes) - 1
                                   /\ \A q \in Group(p) : q <= p
           /\ p # Max(Group(p)) => /\ together /\ p + 1 \in Planes
                                   /\ Group(p) = Planes /\ Group(p + 1) = Planes
<1>1. Cardinality(Planes) \in Nat /\ Planes = 0 .. Cardinality(Planes) - 1
  BY FS_CardinalityType DEF TurnsAssumption
<1>2. Max(Group(p)) = IF together THEN Cardinality(Planes) - 1 ELSE p
  BY GroupFacts
<1>3. CASE together
  BY <1>1, <1>2, <1>3 DEF Group
<1>4. CASE ~together
  BY <1>1, <1>2, <1>4 DEF Group
<1> QED BY <1>3, <1>4

\* The turn that ends is the last of what is left of its group, or the next
\* plane's is the first.
LEMMA TurnGone ==
    ASSUME TurnsAssumption, IInv, NEW t \in Threads, NEW p, p = plane[t], TurnOver(turns', turns, t, p)
    PROVE  /\ p = Max(Group(p)) => \A q \in Planes : ~turns'[t][q].on
           /\ p # Max(Group(p)) => \A q \in Planes : turns'[t][q].on =>
                  q >= p + 1 /\ q \in Group(p + 1) /\ turns[t][q].on /\ turns'[t][q].entered = turns[t][q].entered
<1>1. p \in Planes /\ Planes \subseteq Nat
  BY FS_CardinalityType DEF IInv, TypeOK, TurnsAssumption
<1>2. \A q \in Planes : turns[t][q].on => q \in Group(p) /\ q >= p
  BY DEF IInv, TurnsAtSteps, AtStep
<1>3. ~turns'[t][p].on /\ \A q \in Planes : q # p => turns'[t][q] = turns[t][q]
  BY DEF TurnOver, OthersKept
<1>4. \A q \in Planes : turns'[t][q].on => q # p /\ q \in Group(p) /\ q >= p /\ turns'[t][q] = turns[t][q]
  BY <1>2, <1>3
<1> QED BY <1>1, <1>4, LastFacts

LEMMA QueueAndLeaveKeeps ==
    ASSUME TurnsAssumption, IInv, NEW t \in Threads, QueueAndLeave(t)
    PROVE  IInv'
<1> DEFINE p == plane[t]
           turn == turns[t][p]
           s == turn.slot
           r == state[s][StateOf(p)]
           done == Finished(r, turn, FALSE)
           held == IF done.holds = <<p, chunk[t]>> THEN <<p, chunk[t] + 1>> ELSE <<p, NoChunk>>
           left == Left(r, t)
           last == p = Max(Group(p))
<1>1. /\ pc[t] = "queue" /\ state' = Replaced(s, StateOf(p), left)
      /\ in_use' = [in_use EXCEPT ![s] = FALSE] /\ turns' = TurnsEnded(t, p)
      /\ plane' = [plane EXCEPT ![t] = IF last THEN p ELSE p + 1]
      /\ pc' = [pc EXCEPT ![t] = IF last THEN "wait" ELSE "enter"]
      /\ UNCHANGED <<together, chunk, computed>>
  <2>1. pc[t] = "queue" /\ state' = Replaced(s, StateOf(p), left)
    BY DEF QueueAndLeave, Turn, Replaced
  <2>2. in_use' = [in_use EXCEPT ![s] = FALSE] /\ turns' = TurnsEnded(t, p)
    BY DEF QueueAndLeave, Turn, TurnsEnded
  <2>3. /\ plane' = [plane EXCEPT ![t] = IF last THEN p ELSE p + 1]
        /\ pc' = [pc EXCEPT ![t] = IF last THEN "wait" ELSE "enter"]
        /\ UNCHANGED <<together, chunk, computed>>
    BY DEF QueueAndLeave, LastOfGroup
  <2> QED BY <2>1, <2>2, <2>3
<1>2. /\ p \in Planes /\ turn.on /\ turn.entered /\ chunk[t] \in Chunks
      /\ \A q \in Planes : turns[t][q].entered /\ turns[t][q].on => q = p
  BY <1>1, OwnTurn DEF Turn, IInv, TurnsAtSteps, AtStep
<1>3. /\ s \in Slots /\ StateOf(p) \in States /\ r \in RollStates /\ r.waiting # <<>> /\ turn.chain \in Nat
      /\ Head(r.waiting) = <<t, p>> /\ in_use[s]
  <2>1. Entered(t, p)
    BY <1>2 DEF Entered
  <2>2. Head(r.waiting) = <<t, p>> /\ in_use[s]
    BY <1>2, <2>1 DEF IInv, SlotsKept
  <2>3. turn \in [on : {TRUE}, slot : Slots, carry : BOOLEAN, chain : Nat, entered : BOOLEAN]
    BY <1>2, OnFacts
  <2>4. s \in Slots /\ StateOf(p) \in States /\ r \in RollStates /\ r.waiting # <<>>
    BY <1>2, OnFacts
  <2> HIDE DEF turn, r
  <2> QED BY <2>2, <2>3, <2>4 DEF s
<1> HIDE DEF turn, r
<1>4. done \in RollStates /\ done.waiting = Tail(r.waiting)
  <2>1. \A failed \in BOOLEAN : /\ Finished(r, turn, failed) \in RollStates
                                /\ Finished(r, turn, failed).waiting = Tail(r.waiting)
    BY <1>3, FinishedFacts
  <2> QED BY <2>1
<1>5. left \in RollStates /\ left.waiting = Tail(r.waiting)
  <2>1. held \in (Planes \cup {-1}) \X (Nat \cup {NoChunk})
    <3>1. chunk[t] \in Nat
      BY <1>2 DEF TurnsAssumption
    <3> HIDE DEF p, done
    <3> QED BY <1>2, <3>1
  <2>2. left = [done EXCEPT !.holds = held]
    BY DEF Left, Turn, turn
  <2> HIDE DEF done, held, left
  <2> QED BY <1>4, <2>1, <2>2 DEF RollStates
<1> HIDE DEF left
<1>6. StatesTyped(state') /\ Shorter(state', state, s, StateOf(p))
  <2> HIDE DEF s, p
  <2>1. /\ StatesTyped(state')
        /\ \A u \in Slots, j \in States : state'[u][j] = IF u = s /\ j = StateOf(p) THEN left ELSE state[u][j]
    BY <1>1, <1>3, <1>5, ReplacedFacts
  <2>2. r = state[s][StateOf(p)]
    BY DEF r, s, p
  <2> QED BY <1>5, <2>1, <2>2 DEF Shorter
<1>7. \A v \in Slots : in_use'[v] <=> in_use[v] /\ ~(v = turns[t][p].slot /\ turns[t][p].entered)
  BY <1>1, <1>2 DEF turn, IInv, TypeOK
<1>8. StatesTyped(state)' /\ TurnsTyped(turns)' /\ Tickets(state, turns)' /\ SlotsKept'
  BY <1>1, <1>2, <1>3, <1>6, <1>7, LeaveKeeps DEF turn, r
<1>9. TurnOver(turns', turns, t, p) /\ \A u \in Threads : u # t => turns'[u] = turns[u]
  BY <1>1, <1>2, EndedFacts DEF TurnOver, OthersKept
<1>10. /\ last /\ together => p = Cardinality(Planes) - 1
       /\ ~last => together /\ p + 1 \in Planes /\ Group(p) = Planes /\ Group(p + 1) = Planes
  BY <1>2, LastFacts
<1>11. /\ last => \A q \in Planes : ~turns'[t][q].on
       /\ ~last => \A q \in Planes : turns'[t][q].on =>
              q >= p + 1 /\ q \in Group(p + 1) /\ turns[t][q].on /\ turns'[t][q].entered = turns[t][q].entered
  BY <1>9, TurnGone
<1>12. \A q \in Planes : q # p /\ q \in Group(p) /\ q >= p => turns'[t][q].on
  <2>1. \A q \in Group(p) : q >= p => turns[t][q].on
    BY <1>1 DEF IInv, TurnsAtSteps, AtStep
  <2> QED BY <1>9, <2>1 DEF TurnOver, OthersKept
<1> HIDE DEF p, s, last
<1>13. TypeOK'
  <2>1. in_use' \in [Slots -> BOOLEAN] /\ pc' \in [Threads -> Steps] /\ plane' \in [Threads -> Planes]
    BY <1>1, <1>2, <1>10 DEF IInv, TypeOK, Steps
  <2> QED BY <1>1, <1>8, <2>1 DEF IInv, TypeOK
<1>14. TurnsAtSteps'
  <2>1. p \in Nat /\ Planes \subseteq Nat
    BY <1>2, FS_CardinalityType DEF TurnsAssumption
  <2>2. CASE last
    <3>1. AtStep("wait", chunk[t], p, turns'[t])
      BY <1>2, <1>10, <1>11, <2>2 DEF AtStep
    <3>2. pc'[t] = "wait" /\ plane'[t] = p /\ chunk'[t] = chunk[t]
      BY <1>1, <2>2 DEF IInv, TypeOK, p
    <3> QED BY <1>1, <1>9, <3>1, <3>2, OthersAtSteps DEF IInv, TypeOK
  <2>3. CASE ~last
    <3>1. \A q \in Planes : turns'[t][q].on => q >= p + 1 /\ q \in Group(p + 1) /\ ~turns'[t][q].entered
      <4> SUFFICES ASSUME NEW q \in Planes, turns'[t][q].on
                   PROVE  q >= p + 1 /\ q \in Group(p + 1) /\ ~turns'[t][q].entered
        OBVIOUS
      <4>1. q >= p + 1 /\ q \in Group(p + 1) /\ turns[t][q].on /\ turns'[t][q] = turns[t][q]
        BY <1>9, <1>11, <2>1, <2>3 DEF TurnOver, OthersKept
      <4>2. q # p
        BY <2>1, <4>1
      <4> QED BY <1>2, <4>1, <4>2
    <3>2. \A q \in Group(p + 1) : q >= p + 1 => turns'[t][q].on
      <4> SUFFICES ASSUME NEW q \in Group(p + 1), q >= p + 1
                   PROVE  turns'[t][q].on
        OBVIOUS
      <4>1. q \in Planes /\ q \in Group(p) /\ q \in Nat
        BY <1>10, <2>1, <2>3
      <4>2. q # p /\ q >= p
        BY <2>1, <4>1
      <4> QED BY <1>12, <4>1, <4>2
    <3>3. AtStep("enter", chunk[t], p + 1, turns'[t])
      BY <1>2, <3>1, <3>2 DEF AtStep
    <3>4. pc'[t] = "enter" /\ plane'[t] = p + 1 /\ chunk'[t] = chunk[t]
      BY <1>1, <2>3 DEF IInv, TypeOK
    <3> QED BY <1>1, <1>9, <3>3, <3>4, OthersAtSteps DEF IInv, TypeOK
  <2> QED BY <2>2, <2>3
<1> QED BY <1>8, <1>13, <1>14 DEF IInv

\* The planes that are left to unwind, whether plane p had a turn or not.
LEMMA UnwoundAtStep ==
    ASSUME TurnsAssumption, IInv, NEW t \in Threads, pc[t] = "unwind", NEW p, p = plane[t],
           UNCHANGED together, TurnOver(turns', turns, t, p), turns'[t] \in [Planes -> TurnSet],
           \A u \in Threads : u # t => turns'[u] = turns[u],
           plane' = [plane EXCEPT ![t] = IF p = Max(Group(p)) THEN p ELSE p + 1],
           pc' = [pc EXCEPT ![t] = IF p = Max(Group(p)) THEN "idle" ELSE "unwind"],
           chunk' = [chunk EXCEPT ![t] = IF p = Max(Group(p)) THEN NoChunk ELSE chunk[t]]
    PROVE  /\ plane' \in [Threads -> Planes] /\ pc' \in [Threads -> Steps]
           /\ chunk' \in [Threads -> Chunks \cup {NoChunk}]
           /\ TurnsAtSteps'
<1>1. p \in Planes /\ chunk[t] \in Chunks
  BY DEF IInv, TypeOK, TurnsAtSteps, AtStep
<1>2. p # Max(Group(p)) => p + 1 \in Planes
  BY <1>1, LastFacts
<1>3. /\ plane' \in [Threads -> Planes] /\ pc' \in [Threads -> Steps]
      /\ chunk' \in [Threads -> Chunks \cup {NoChunk}]
  BY <1>1, <1>2 DEF IInv, TypeOK, Steps
<1>4. /\ p = Max(Group(p)) => \A q \in Planes : ~turns'[t][q].on
      /\ p # Max(Group(p)) => \A q \in Planes : turns'[t][q].on =>
             q >= p + 1 /\ q \in Group(p + 1) /\ turns[t][q].on /\ turns'[t][q].entered = turns[t][q].entered
  BY TurnGone
<1>5. \A u \in Threads : u # t => pc'[u] = pc[u] /\ chunk'[u] = chunk[u] /\ plane'[u] = plane[u]
  BY DEF IInv, TypeOK
<1>6. AtStep(pc'[t], chunk'[t], plane'[t], turns'[t])
  <2>1. CASE p = Max(Group(p))
    <3>1. AtStep("idle", NoChunk, p, turns'[t])
      BY <1>4, <2>1 DEF AtStep
    <3>2. pc'[t] = "idle" /\ chunk'[t] = NoChunk /\ plane'[t] = p
      BY <2>1 DEF IInv, TypeOK
    <3> QED BY <3>1, <3>2
  <2>2. CASE p # Max(Group(p))
    <3>1. AtStep("unwind", chunk[t], p + 1, turns'[t])
      BY <1>1, <1>4, <2>2 DEF AtStep
    <3>2. pc'[t] = "unwind" /\ chunk'[t] = chunk[t] /\ plane'[t] = p + 1
      BY <2>2 DEF IInv, TypeOK
    <3> QED BY <3>1, <3>2
  <2> QED BY <2>1, <2>2
<1> QED BY <1>3, <1>5, <1>6, OthersAtSteps

LEMMA UnwindKeeps ==
    ASSUME TurnsAssumption, IInv, NEW t \in Threads, Unwind(t)
    PROVE  IInv'
<1> DEFINE p == plane[t]
           turn == turns[t][p]
           s == turn.slot
           r == state[s][StateOf(p)]
           last == p = Max(Group(p))
<1>1. /\ pc[t] = "unwind"
      /\ plane' = [plane EXCEPT ![t] = IF last THEN p ELSE p + 1]
      /\ pc' = [pc EXCEPT ![t] = IF last THEN "idle" ELSE "unwind"]
      /\ chunk' = [chunk EXCEPT ![t] = IF last THEN NoChunk ELSE chunk[t]]
      /\ UNCHANGED <<together, computed>>
  BY DEF Unwind, LastOfGroup
<1>2. p \in Planes
  BY DEF IInv, TypeOK
<1>3. /\ StatesTyped(state)' /\ TurnsTyped(turns)' /\ Tickets(state, turns)' /\ SlotsKept'
      /\ TurnOver(turns', turns, t, p) /\ in_use' \in [Slots -> BOOLEAN]
      /\ \A u \in Threads : u # t => turns'[u] = turns[u]
  <2>1. CASE ~turn.on
    <3>1. UNCHANGED <<state, in_use, turns>>
      BY <2>1 DEF Unwind, Turn
    <3>2. StatesTyped(state)' /\ TurnsTyped(turns)' /\ Tickets(state, turns)' /\ SlotsKept'
      BY <1>1, <3>1, PlacesKeep
    <3> QED BY <2>1, <3>1, <3>2 DEF TurnOver, OthersKept, IInv, TypeOK
  <2>2. CASE turn.on
    <3>1. /\ turn.entered \/ Head(r.waiting) = <<t, p>>
          /\ state' = Replaced(s, StateOf(p), Finished(r, turn, TRUE))
          /\ in_use' = [in_use EXCEPT ![s] = IF turn.entered THEN FALSE ELSE @]
          /\ turns' = TurnsEnded(t, p)
      BY <2>2 DEF Unwind, Turn, MayFinish, AtTurn, RollState, Replaced, TurnsEnded
    <3>2. /\ turn \in [on : {TRUE}, slot : Slots, carry : BOOLEAN, chain : Nat, entered : BOOLEAN]
          /\ s \in Slots /\ StateOf(p) \in States /\ r \in RollStates /\ r.waiting # <<>>
      BY <1>2, <2>2, OnFacts
    <3>3. Head(r.waiting) = <<t, p>>
      <4>1. CASE turn.entered
        <5>1. Entered(t, p)
          BY <2>2, <4>1 DEF Entered
        <5> QED BY <1>2, <5>1 DEF IInv, SlotsKept
      <4> QED BY <3>1, <4>1
    <3>4. turn.chain \in Nat /\ turn.entered \in BOOLEAN
      <4> HIDE DEF turn
      <4> QED BY <3>2
    <3> DEFINE done == Finished(r, turn, TRUE)
    <3> HIDE DEF r, s, turn
    <3>5. done \in RollStates /\ done.waiting = Tail(r.waiting)
      <4>1. \A failed \in BOOLEAN : /\ Finished(r, turn, failed) \in RollStates
                                    /\ Finished(r, turn, failed).waiting = Tail(r.waiting)
        BY <3>2, <3>4, FinishedFacts
      <4> QED BY <4>1
    <3> HIDE DEF p, done
    <3>6. StatesTyped(state') /\ Shorter(state', state, s, StateOf(p))
      <4>1. /\ StatesTyped(state')
            /\ \A u \in Slots, j \in States : state'[u][j] = IF u = s /\ j = StateOf(p) THEN done ELSE state[u][j]
        <5>1. state' = Replaced(s, StateOf(p), done)
          BY <3>1 DEF done
        <5> QED BY <3>2, <3>5, <5>1, ReplacedFacts
      <4>2. r = state[s][StateOf(p)]
        BY DEF r, s, p
      <4> QED BY <3>5, <4>1, <4>2 DEF Shorter
    <3>7. /\ in_use' \in [Slots -> BOOLEAN]
          /\ \A v \in Slots : in_use'[v] <=> in_use[v] /\ ~(v = s /\ turn.entered)
      <4>1. in_use \in [Slots -> BOOLEAN]
        BY DEF IInv, TypeOK
      <4>2. CASE turn.entered
        BY <3>1, <3>2, <4>1, <4>2
      <4>3. CASE ~turn.entered
        BY <3>1, <3>2, <4>1, <4>3
      <4> QED BY <4>2, <4>3
    <3>8. StatesTyped(state)' /\ TurnsTyped(turns)' /\ Tickets(state, turns)' /\ SlotsKept'
      BY <1>1, <1>2, <2>2, <3>1, <3>3, <3>6, <3>7, LeaveKeeps DEF turn, r, s, p
    <3>9. TurnOver(turns', turns, t, p) /\ \A u \in Threads : u # t => turns'[u] = turns[u]
      BY <1>2, <3>1, EndedFacts DEF TurnOver, OthersKept
    <3> QED BY <3>7, <3>8, <3>9
  <2> QED BY <2>1, <2>2
<1>4. turns'[t] \in [Planes -> TurnSet]
  BY <1>3 DEF TurnsTyped
<1> HIDE DEF p
<1>5. /\ plane' \in [Threads -> Planes] /\ pc' \in [Threads -> Steps]
      /\ chunk' \in [Threads -> Chunks \cup {NoChunk}]
      /\ TurnsAtSteps'
  BY <1>1, <1>3, <1>4, UnwoundAtStep DEF p
<1>6. TypeOK'
  BY <1>1, <1>3, <1>5 DEF IInv, TypeOK
<1> QED BY <1>3, <1>5, <1>6 DEF IInv

-----------------------------------------------------------------------------
(* A group is planned: the constructors of its turns.                      *)

LEMMA PlanFacts ==
    ASSUME TurnsAssumption, IInv, NEW t \in Threads, Plan(t)
    PROVE  LET first == plane[t]
               k == Cardinality(Group(first))
           IN  /\ first \in Planes /\ chunk[t] \in Chunks /\ chunk[t] \in Nat /\ (together => first = 0)
               /\ \A p \in Planes : ~turns[t][p].on
               /\ k \in Nat /\ Group(first) = first .. first + k - 1
               /\ \E step : /\ PlansUp(step, t, first, chunk[t], k)
                            /\ PlannedWell(step[k], t, first, k)
                            /\ state' = step[k].state /\ turns' = TurnsWith(t, step[k].turns)
<1> DEFINE first == plane[t]
           k == Cardinality(Group(first))
<1>1. /\ first \in Planes /\ chunk[t] \in Chunks /\ (together => first = 0)
      /\ \A p \in Planes : ~turns[t][p].on
  BY DEF Plan, IInv, TypeOK, TurnsAtSteps, AtStep
<1>2. chunk[t] \in Nat
  BY <1>1 DEF TurnsAssumption
<1>3. k \in Nat /\ Group(first) = first .. first + k - 1
  BY <1>1, GroupFromFirst
<1> HIDE DEF first, k
<1>4. PICK step : PlansUp(step, t, first, chunk[t], k) /\ Planned(t, first, chunk[t]) = step[k]
  BY <1>1, PlannedIsLast DEF k
<1>5. state' = step[k].state /\ turns' = TurnsWith(t, step[k].turns)
  BY <1>4 DEF Plan, TurnsWith, first
<1>6. \A n \in 0 .. k : PlannedWell(step[n], t, first, n)
  <2>1. k = Cardinality(Group(first))
    BY DEF k
  <2>2. TypeOK /\ Tickets(state, turns)
    BY DEF IInv
  <2> QED BY <1>1, <1>2, <1>4, <2>1, <2>2, PlansWell
<1>7. PlannedWell(step[k], t, first, k)
  BY <1>3, <1>6
<1>8. \E f : /\ PlansUp(f, t, first, chunk[t], k) /\ PlannedWell(f[k], t, first, k)
             /\ state' = f[k].state /\ turns' = TurnsWith(t, f[k].turns)
  BY <1>4, <1>5, <1>7
<1> QED BY <1>1, <1>2, <1>3, <1>8 DEF first, k

LEMMA PlanKeeps ==
    ASSUME TurnsAssumption, IInv, NEW t \in Threads, Plan(t)
    PROVE  IInv'
<1> DEFINE first == plane[t]
           k == Cardinality(Group(first))
<1>1. /\ first \in Planes /\ chunk[t] \in Chunks
      /\ \A p \in Planes : ~turns[t][p].on
      /\ k \in Nat /\ Group(first) = first .. first + k - 1
  BY PlanFacts
<1>2. /\ pc[t] = "plan" /\ pc' = [pc EXCEPT ![t] = "enter"]
      /\ UNCHANGED <<together, in_use, chunk, plane, computed>>
  BY DEF Plan
<1>3. PICK step : /\ PlannedWell(step[k], t, first, k)
                  /\ state' = step[k].state /\ turns' = TurnsWith(t, step[k].turns)
  BY PlanFacts
<1> DEFINE rec == step[k]
<1> HIDE DEF first, k, rec
<1>4. /\ StatesTyped(rec.state) /\ rec.turns \in [Planes -> TurnSet]
      /\ Tickets(rec.state, TurnsWith(t, rec.turns))
      /\ \A p \in Planes : IF first <= p /\ p < first + k THEN rec.turns[p].on /\ ~rec.turns[p].entered
                           ELSE ~rec.turns[p].on
      /\ \A s \in Slots, i \in States : state[s][i].waiting # <<>> =>
            rec.state[s][i].waiting # <<>> /\ Head(rec.state[s][i].waiting) = Head(state[s][i].waiting)
  BY <1>3 DEF PlannedWell, rec
<1>5. state' = rec.state /\ turns' = TurnsWith(t, rec.turns)
  BY <1>3 DEF rec
<1>6. TurnsTyped(turns') /\ turns'[t] = rec.turns /\ \A u \in Threads : u # t => turns'[u] = turns[u]
  BY <1>4, <1>5, TurnsWithFacts DEF IInv, TypeOK
<1>7. StatesTyped(state)' /\ TurnsTyped(turns)' /\ Tickets(state, turns)'
  BY <1>2, <1>4, <1>5, <1>6, NextTickets
<1>8. first \in Nat /\ Planes \subseteq Nat
  BY <1>1, FS_CardinalityType DEF TurnsAssumption
<1>9. \A p \in Planes : /\ turns'[t][p].on => p \in Group(first) /\ p >= first /\ ~turns'[t][p].entered
                        /\ p \in Group(first) => turns'[t][p].on
  <2> SUFFICES ASSUME NEW p \in Planes
               PROVE  /\ turns'[t][p].on => p \in Group(first) /\ p >= first /\ ~turns'[t][p].entered
                      /\ p \in Group(first) => turns'[t][p].on
    OBVIOUS
  <2>1. turns'[t][p] = rec.turns[p]
    BY <1>6
  <2>2. p \in Group(first) <=> first <= p /\ p < first + k
    BY <1>1, <1>8
  <2>3. CASE first <= p /\ p < first + k
    BY <1>4, <1>8, <2>1, <2>2, <2>3
  <2>4. CASE ~(first <= p /\ p < first + k)
    BY <1>4, <2>1, <2>2, <2>4
  <2> QED BY <2>3, <2>4
<1>10. AtStep("enter", chunk[t], first, turns'[t])
  <2>1. Group(first) \subseteq Planes
    BY <1>1, GroupFacts
  <2> QED BY <1>1, <1>9, <2>1 DEF AtStep
<1>11. TurnsAtSteps'
  BY <1>2, <1>6, <1>10, OthersAtSteps DEF IInv, TypeOK, first
<1>12. SlotsKept'
  <2>1. ASSUME NEW u \in Threads, NEW q \in Planes, turns'[u][q].on, turns'[u][q].entered
        PROVE  /\ turns'[u][q] = turns[u][q] /\ Entered(u, q)
               /\ in_use'[turns'[u][q].slot]
               /\ Head(state'[turns'[u][q].slot][StateOf(q)].waiting) = <<u, q>>
    <3>1. turns'[u][q] = turns[u][q] /\ Entered(u, q)
      BY <1>6, <1>9, <2>1 DEF Entered
    <3>2. /\ turns[u][q].slot \in Slots /\ StateOf(q) \in States
          /\ state[turns[u][q].slot][StateOf(q)].waiting # <<>>
      BY <3>1, OnFacts DEF Entered
    <3>3. in_use[turns[u][q].slot] /\ Head(state[turns[u][q].slot][StateOf(q)].waiting) = <<u, q>>
      BY <3>1 DEF IInv, SlotsKept
    <3>4. Head(state'[turns[u][q].slot][StateOf(q)].waiting) = Head(state[turns[u][q].slot][StateOf(q)].waiting)
      BY <1>4, <1>5, <3>2
    <3> QED BY <1>2, <3>1, <3>3, <3>4
  <2>2. ASSUME NEW s \in Slots, in_use'[s]
        PROVE  \E u \in Threads, q \in Planes : turns'[u][q].on /\ turns'[u][q].entered /\ turns'[u][q].slot = s
    <3>1. in_use[s]
      BY <1>2, <2>2
    <3>2. PICK u \in Threads, q \in Planes : Entered(u, q) /\ turns[u][q].slot = s
      BY <3>1 DEF IInv, SlotsKept
    <3>3. u # t
      BY <1>1, <3>2 DEF Entered
    <3> QED BY <1>6, <3>2, <3>3 DEF Entered
  <2>3. ASSUME NEW u \in Threads, NEW v \in Threads, NEW q \in Planes, NEW r \in Planes,
               turns'[u][q].on, turns'[u][q].entered, turns'[v][r].on, turns'[v][r].entered,
               turns'[u][q].slot = turns'[v][r].slot
        PROVE  u = v /\ q = r
    <3>1. Entered(u, q) /\ Entered(v, r) /\ turns[u][q].slot = turns[v][r].slot
      BY <2>1, <2>3
    <3> QED BY <3>1, OneEntered
  <2>4. \A u \in Threads, q \in Planes : turns'[u][q].on /\ turns'[u][q].entered =>
            in_use'[turns'[u][q].slot] /\ Head(state'[turns'[u][q].slot][StateOf(q)].waiting) = <<u, q>>
    BY <2>1
  <2>5. \A u, v \in Threads, q, r \in Planes :
            /\ turns'[u][q].on /\ turns'[u][q].entered /\ turns'[v][r].on /\ turns'[v][r].entered
            /\ turns'[u][q].slot = turns'[v][r].slot
            => u = v /\ q = r
    BY <2>3
  <2>6. \A s \in Slots : in_use'[s] =>
            \E u \in Threads, q \in Planes : turns'[u][q].on /\ turns'[u][q].entered /\ turns'[u][q].slot = s
    BY <2>2
  <2> QED BY <1>2, <2>4, <2>5, <2>6, NextSlots
<1>13. TypeOK'
  BY <1>2, <1>7 DEF IInv, TypeOK, Steps
<1> QED BY <1>7, <1>11, <1>12, <1>13 DEF IInv

-----------------------------------------------------------------------------
LEMMA InvariantHolds ==
    ASSUME TurnsAssumption
    PROVE  Spec => []IInv
<1>1. Init => IInv
  BY InitHolds
<1>2. ASSUME IInv, [Next]_vars
      PROVE  IInv'
  <2>1. CASE UNCHANGED vars
    <3>1. UNCHANGED <<together, state, in_use, pc, chunk, plane, turns, computed>>
      BY <2>1 DEF vars
    <3>2. StatesTyped(state)' /\ TurnsTyped(turns)' /\ Tickets(state, turns)' /\ SlotsKept'
      BY <1>2, <3>1, PlacesKeep
    <3>3. TypeOK'
      BY <1>2, <3>1, <3>2 DEF IInv, TypeOK
    <3>4. TurnsAtSteps'
      BY <1>2, <3>1, NextSteps DEF IInv, TurnsAtSteps
    <3> QED BY <3>2, <3>3, <3>4 DEF IInv
  <2>2. CASE Next
    <3>1. PICK t \in Threads : (\E c \in Chunks : Begin(t, c)) \/ Run(t) \/ Throw(t)
      BY <2>2 DEF Next
    <3> QED BY <1>2, <3>1, BeginKeeps, PlanKeeps, EnterKeeps, QueueAndLeaveKeeps, SynchronizedKeeps,
               UnwindKeeps, ThrowStagingKeeps, ThrowWaitingKeeps, ThrowQueueingKeeps DEF Run, Throw
  <2> QED BY <1>2, <2>1, <2>2
<1> QED BY <1>1, <1>2, PTL DEF Spec

LEMMA SlotsExclusive ==
    ASSUME IInv
    PROVE  SlotExclusive
<1> SUFFICES ASSUME NEW s \in Slots
             PROVE  LET users == {t \in Threads : \E p \in Planes : /\ turns[t][p].on /\ turns[t][p].entered
                                                                    /\ turns[t][p].slot = s}
                    IN  /\ Cardinality(users) = IF in_use[s] THEN 1 ELSE 0
                        /\ \A t \in users : \E p \in Planes :
                              /\ turns[t][p].on /\ turns[t][p].entered
                              /\ Head(state[s][StateOf(p)].waiting) = <<t, p>>
  BY DEF SlotExclusive
<1> DEFINE users == {t \in Threads : \E p \in Planes : /\ turns[t][p].on /\ turns[t][p].entered
                                                       /\ turns[t][p].slot = s}
<1>1. \A t \in users : \E p \in Planes : Entered(t, p) /\ turns[t][p].slot = s
  BY DEF Entered
<1>2. \A t \in Threads, p \in Planes : Entered(t, p) /\ turns[t][p].slot = s => t \in users
  BY DEF Entered
<1>3. ASSUME NEW t \in users
      PROVE  /\ in_use[s] /\ users = {t}
             /\ \E p \in Planes : /\ turns[t][p].on /\ turns[t][p].entered
                                  /\ Head(state[s][StateOf(p)].waiting) = <<t, p>>
  <2>1. PICK p \in Planes : Entered(t, p) /\ turns[t][p].slot = s
    BY <1>1
  <2>2. in_use[s] /\ Head(state[s][StateOf(p)].waiting) = <<t, p>>
    BY <2>1 DEF IInv, SlotsKept
  <2>3. \A u \in users : u = t
    BY <1>1, <2>1, OneEntered
  <2> HIDE DEF users
  <2> QED BY <2>1, <2>2, <2>3 DEF Entered
<1>4. Cardinality(users) = IF in_use[s] THEN 1 ELSE 0
  <2>1. CASE in_use[s]
    <3>1. PICK t \in Threads, p \in Planes : Entered(t, p) /\ turns[t][p].slot = s
      BY <2>1 DEF IInv, SlotsKept
    <3>2. t \in users
      BY <1>2, <3>1
    <3> HIDE DEF users
    <3>3. users = {t}
      BY <1>3, <3>2
    <3> QED BY <2>1, <3>3, FS_Singleton
  <2>2. CASE ~in_use[s]
    <3> HIDE DEF users
    <3>1. users = {}
      BY <1>3, <2>2
    <3> QED BY <2>2, <3>1, FS_EmptySet
  <2> QED BY <2>1, <2>2
<1> QED BY <1>3, <1>4

LEMMA TicketsAreHeld ==
    ASSUME TurnsAssumption, IInv
    PROVE  TicketsHeld
<1> SUFFICES ASSUME NEW s \in Slots, NEW i \in States
             PROVE  LET waiting == state[s][i].waiting
                        held == {own \in Threads \X Planes : LET turn == turns[own[1]][own[2]]
                                                             IN  turn.on /\ turn.slot = s /\ StateOf(own[2]) = i}
                    IN  /\ {waiting[n] : n \in DOMAIN waiting} = held
                        /\ Len(waiting) = Cardinality(held)
  BY DEF TicketsHeld
<1> DEFINE waiting == state[s][i].waiting
           held == {own \in Threads \X Planes : LET turn == turns[own[1]][own[2]]
                                                IN  turn.on /\ turn.slot = s /\ StateOf(own[2]) = i}
<1>1. waiting \in Seq(Threads \X Planes)
  BY DEF IInv, TypeOK, StatesTyped, RollStates
<1>2. QueueKept(waiting, turns, s, i)
  BY DEF IInv, Tickets
<1>3. \A own \in held : Has(waiting, own)
  <2> SUFFICES ASSUME NEW own \in held
               PROVE  Has(waiting, own)
    OBVIOUS
  <2>1. own = <<own[1], own[2]>> /\ own[1] \in Threads /\ own[2] \in Planes
    OBVIOUS
  <2>2. turns[own[1]][own[2]].on /\ turns[own[1]][own[2]].slot = s /\ StateOf(own[2]) = i
    OBVIOUS
  <2>3. Has(state[turns[own[1]][own[2]].slot][StateOf(own[2])].waiting, <<own[1], own[2]>>)
    BY <2>1, <2>2 DEF IInv, Tickets
  <2> QED BY <2>1, <2>2, <2>3
<1> HIDE DEF waiting
<1>4. Len(waiting) \in Nat /\ DOMAIN waiting = 1 .. Len(waiting)
  BY <1>1, LenProperties
<1>5. \A n \in 1 .. Len(waiting) : waiting[n] \in held
  BY <1>1, <1>2, ElementOfSeq DEF QueueKept
<1> HIDE DEF held
<1>6. {waiting[n] : n \in DOMAIN waiting} = held
  BY <1>3, <1>4, <1>5 DEF Has
<1>7. waiting \in Bijection(1 .. Len(waiting), held)
  <2>1. waiting \in [1 .. Len(waiting) -> held]
    BY <1>1, <1>4, <1>5
  <2>2. \A m, n \in 1 .. Len(waiting) : waiting[m] = waiting[n] => m = n
    BY <1>2 DEF QueueKept
  <2>3. \A own \in held : \E n \in 1 .. Len(waiting) : waiting[n] = own
    BY <1>3 DEF Has
  <2> QED BY <2>1, <2>2, <2>3 DEF Bijection, Injection, Surjection, IsInjective
<1>8. Cardinality(held) = Len(waiting)
  BY <1>4, <1>7, FS_CountingElements DEF ExistsBijection
<1> QED BY <1>6, <1>8 DEF waiting, held

\* The slots in use and the tickets are those of the threads' turns, one each,
\* whatever fails: RollTurn's enter(), leave() and destructor.
THEOREM TurnsKeptHolds ==
    ASSUME TurnsAssumption
    PROVE  Spec => []TurnsKept
<1>1. IInv => TurnsKept
  BY SlotsExclusive, TicketsAreHeld DEF TurnsKept
<1> QED BY <1>1, InvariantHolds, PTL
=============================================================================
