--------------------------- MODULE RollChainProofs --------------------------
(***************************************************************************)
(* A chunk that carries on in RollTurns finds its state as the chunk       *)
(* before it left it, for every number of slots and planes, every set of   *)
(* threads and of chunks, any backlog: the chains of a state's tickets.    *)
(* And somebody can always go on: the order in which chunks were planned.  *)
(***************************************************************************)
EXTENDS RollTurnsProofs

At(w, n, tu) == tu[w[n][1]][w[n][2]]

\* The tickets w of a state: chains do not go down, and one that carries on
\* follows the chunk before it on its plane; the last one's chain, plane and
\* next chunk are the state's, and no ticket is of a chain before the one
\* that failed last.
Linked(w, chain, failed, at, next, tu, ch) ==
    /\ failed <= chain
    /\ \A n \in 1 .. Len(w) : failed <= At(w, n, tu).chain /\ At(w, n, tu).chain <= chain
    /\ \A m, n \in 1 .. Len(w) : m <= n => At(w, m, tu).chain <= At(w, n, tu).chain
    /\ \A n \in 1 .. Len(w) : n > 1 /\ At(w, n, tu).carry =>
          /\ At(w, n, tu).chain = At(w, n - 1, tu).chain
          /\ w[n][2] = w[n - 1][2] /\ ch[w[n][1]] = ch[w[n - 1][1]] + 1
    /\ Len(w) > 0 => /\ chain = At(w, Len(w), tu).chain /\ at = w[Len(w)][2]
                     /\ next \in {NoChunk, ch[w[Len(w)][1]] + 1}

\* What a state holds is what the chunk whose turn is next carries on from;
\* without one, what a follower will.
Ready(w, chain, failed, at, next, holds, tu, ch, step) ==
    /\ Len(w) = 0 /\ next # NoChunk /\ failed # chain => holds = <<at, next>>
    /\ Len(w) > 0 =>
          /\ At(w, 1, tu).carry /\ failed # At(w, 1, tu).chain /\ ~At(w, 1, tu).entered =>
                holds = <<w[1][2], ch[w[1][1]]>>
          /\ step[w[1][1]] = "queue" /\ At(w, 1, tu).entered => holds = <<w[1][2], ch[w[1][1]]>>

ChainKept(r, tu, ch, step) ==
    /\ Linked(r.waiting, r.chain, r.failed, r.plane, r.next, tu, ch)
    /\ Ready(r.waiting, r.chain, r.failed, r.plane, r.next, r.holds, tu, ch, step)

Chains(st, tu, ch, step) == \A s \in Slots, i \in States : ChainKept(st[s][i], tu, ch, step)

CInv == Chains(state, turns, chunk, pc)

\* Ticket n of queue x is ticket m of queue w was.
SameAt(x, n, w, m, more, tu, next, ch) ==
    /\ x[n] = w[m] /\ At(x, n, more).chain = At(w, m, tu).chain /\ At(x, n, more).carry = At(w, m, tu).carry
    /\ next[x[n][1]] = ch[w[m][1]]

Numbered(w, tu, ch) == \A n \in 1 .. Len(w) : At(w, n, tu).chain \in Int /\ ch[w[n][1]] \in Int

LEMMA LinkedSame ==
    ASSUME NEW w \in Seq(Threads \X Planes), NEW tu, NEW ch, NEW chain, NEW failed, NEW at, NEW to,
           Linked(w, chain, failed, at, to, tu, ch), NEW more, NEW next,
           \A n \in 1 .. Len(w) : SameAt(w, n, w, n, more, tu, next, ch)
    PROVE  Linked(w, chain, failed, at, to, more, next)
<1>1. Len(w) \in Nat
  BY LenProperties
<1>2. \A n \in 1 .. Len(w) : /\ At(w, n, more).chain = At(w, n, tu).chain /\ At(w, n, more).carry = At(w, n, tu).carry
                             /\ next[w[n][1]] = ch[w[n][1]]
  BY DEF SameAt
<1>3. \A n \in 1 .. Len(w) : n > 1 => n - 1 \in 1 .. Len(w)
  BY <1>1
<1>4. Len(w) > 0 => Len(w) \in 1 .. Len(w)
  BY <1>1
<1> QED BY <1>2, <1>3, <1>4 DEF Linked

\* The queue without its head.
TailSame(w, more, tu, next, ch) ==
    \A n \in 1 .. Len(w) - 1 : SameAt(Tail(w), n, w, n + 1, more, tu, next, ch)

\* The head leaves; the failed chain may be its own.
LEMMA LinkedTail ==
    ASSUME NEW w \in Seq(Threads \X Planes), w # <<>>, NEW tu, NEW ch, Numbered(w, tu, ch),
           NEW chain \in Int, NEW failed \in Int, NEW at, NEW to,
           Linked(w, chain, failed, at, to, tu, ch), NEW more, NEW next,
           TailSame(w, more, tu, next, ch),
           NEW now \in {failed, At(w, 1, tu).chain}, NEW on \in {to, NoChunk}
    PROVE  Linked(Tail(w), chain, now, at, on, more, next)
<1> DEFINE x == Tail(w)
<1>1. Len(w) \in Nat \ {0} /\ Len(x) = Len(w) - 1
  BY HeadTailProperties, LenProperties, EmptySeq
<1> HIDE DEF x
<1>2. \A n \in 1 .. Len(x) : /\ n + 1 \in 1 .. Len(w) /\ x[n] = w[n + 1]
                             /\ At(x, n, more).chain = At(w, n + 1, tu).chain
                             /\ At(x, n, more).carry = At(w, n + 1, tu).carry
                             /\ next[x[n][1]] = ch[w[n + 1][1]]
  <2> SUFFICES ASSUME NEW n \in 1 .. Len(x)
               PROVE  /\ n + 1 \in 1 .. Len(w) /\ x[n] = w[n + 1]
                      /\ At(x, n, more).chain = At(w, n + 1, tu).chain
                      /\ At(x, n, more).carry = At(w, n + 1, tu).carry
                      /\ next[x[n][1]] = ch[w[n + 1][1]]
    OBVIOUS
  <2>1. n \in 1 .. Len(w) - 1 /\ n + 1 \in 1 .. Len(w)
    BY <1>1
  <2>2. SameAt(x, n, w, n + 1, more, tu, next, ch)
    BY <2>1 DEF x, TailSame
  <2> QED BY <2>1, <2>2 DEF SameAt
<1>3. 1 \in 1 .. Len(w) /\ now \in Int /\ failed <= now
  BY <1>1 DEF Linked, Numbered
<1>4. now <= chain /\ \A n \in 1 .. Len(w) : now <= At(w, n, tu).chain
  BY <1>1, <1>3 DEF Linked
<1>5. \A n \in 1 .. Len(x) : now <= At(x, n, more).chain /\ At(x, n, more).chain <= chain
  BY <1>2, <1>4 DEF Linked
<1>6. \A m, n \in 1 .. Len(x) : m <= n => At(x, m, more).chain <= At(x, n, more).chain
  <2> SUFFICES ASSUME NEW m \in 1 .. Len(x), NEW n \in 1 .. Len(x), m <= n
               PROVE  At(x, m, more).chain <= At(x, n, more).chain
    OBVIOUS
  <2>1. m + 1 <= n + 1
    BY <1>1
  <2> QED BY <1>2, <2>1 DEF Linked
<1>7. \A n \in 1 .. Len(x) : n > 1 /\ At(x, n, more).carry =>
          /\ At(x, n, more).chain = At(x, n - 1, more).chain
          /\ x[n][2] = x[n - 1][2] /\ next[x[n][1]] = next[x[n - 1][1]] + 1
  <2> SUFFICES ASSUME NEW n \in 1 .. Len(x), n > 1, At(x, n, more).carry
               PROVE  /\ At(x, n, more).chain = At(x, n - 1, more).chain
                      /\ x[n][2] = x[n - 1][2] /\ next[x[n][1]] = next[x[n - 1][1]] + 1
    OBVIOUS
  <2>1. n - 1 \in 1 .. Len(x) /\ n + 1 > 1 /\ (n + 1) - 1 = n /\ (n - 1) + 1 = n
    BY <1>1
  <2>2. n + 1 \in 1 .. Len(w) /\ At(w, n + 1, tu).carry
    BY <1>2
  <2>3. /\ At(w, n + 1, tu).chain = At(w, n, tu).chain
        /\ w[n + 1][2] = w[n][2] /\ ch[w[n + 1][1]] = ch[w[n][1]] + 1
    BY <2>1, <2>2 DEF Linked
  <2>4. x[n] = w[n + 1] /\ At(x, n, more).chain = At(w, n + 1, tu).chain /\ next[x[n][1]] = ch[w[n + 1][1]]
    BY <1>2
  <2>5. /\ x[n - 1] = w[n] /\ At(x, n - 1, more).chain = At(w, n, tu).chain
        /\ next[x[n - 1][1]] = ch[w[n][1]]
    BY <1>2, <2>1
  <2> QED BY <2>3, <2>4, <2>5
<1>8. Len(x) > 0 => /\ chain = At(x, Len(x), more).chain /\ at = x[Len(x)][2]
                    /\ on \in {NoChunk, next[x[Len(x)][1]] + 1}
  <2> SUFFICES ASSUME Len(x) > 0
               PROVE  /\ chain = At(x, Len(x), more).chain /\ at = x[Len(x)][2]
                      /\ on \in {NoChunk, next[x[Len(x)][1]] + 1}
    OBVIOUS
  <2>1. Len(x) \in 1 .. Len(x) /\ Len(x) + 1 = Len(w) /\ Len(w) > 0
    BY <1>1
  <2>2. /\ x[Len(x)] = w[Len(w)] /\ At(x, Len(x), more).chain = At(w, Len(w), tu).chain
        /\ next[x[Len(x)][1]] = ch[w[Len(w)][1]]
    BY <1>2, <2>1
  <2>3. /\ chain = At(w, Len(w), tu).chain /\ at = w[Len(w)][2]
        /\ to \in {NoChunk, ch[w[Len(w)][1]] + 1}
    BY <2>1 DEF Linked
  <2> QED BY <2>2, <2>3
<1> QED BY <1>4, <1>5, <1>6, <1>7, <1>8 DEF Linked, x

\* The turns that a queue's tickets are of are the same.
SameTurns(w, more, tu) == \A n \in 1 .. Len(w) : more[w[n][1]][w[n][2]] = tu[w[n][1]][w[n][2]]

\* A turn that follows a state, or starts a chain after it.
Continues(turn, chain, at, to, p, c) ==
    /\ turn.chain \in Int /\ chain <= turn.chain
    /\ turn.carry => chain = turn.chain /\ p = at /\ c = to /\ to # NoChunk

\* A ticket of the last chain or of a later one.
LEMMA LinkedAppend ==
    ASSUME NEW w \in Seq(Threads \X Planes), NEW tu, NEW ch, Numbered(w, tu, ch),
           NEW chain \in Int, NEW failed \in Int, NEW at, NEW to,
           Linked(w, chain, failed, at, to, tu, ch), NEW more,
           NEW t \in Threads, NEW p \in Planes, NEW c \in Int, ch[t] = c,
           SameTurns(w, more, tu), NEW turn, more[t][p] = turn, Continues(turn, chain, at, to, p, c)
    PROVE  Linked(Append(w, <<t, p>>), turn.chain, failed, p, c + 1, more, ch)
<1> DEFINE x == Append(w, <<t, p>>)
<1>1. /\ Len(w) \in Nat /\ Len(x) = Len(w) + 1 /\ x[Len(w) + 1] = <<t, p>>
      /\ \A n \in 1 .. Len(w) : x[n] = w[n]
  <2>1. <<t, p>> \in Threads \X Planes
    OBVIOUS
  <2> QED BY <2>1, AppendProperties, LenProperties
<1>2. \A n \in 1 .. Len(w) : At(x, n, more) = At(w, n, tu)
  BY <1>1 DEF At, SameTurns
<1>3. At(x, Len(w) + 1, more) = turn /\ x[Len(w) + 1][1] = t /\ x[Len(w) + 1][2] = p
  BY <1>1 DEF At
<1> HIDE DEF x
<1>4. \A n \in 1 .. Len(x) : n \in 1 .. Len(w) \/ n = Len(w) + 1
  BY <1>1
<1>5. /\ failed <= chain /\ chain <= turn.chain /\ turn.chain \in Int
      /\ \A n \in 1 .. Len(w) : At(w, n, tu).chain \in Int
      /\ \A n \in 1 .. Len(w) : failed <= At(w, n, tu).chain /\ At(w, n, tu).chain <= chain
  BY DEF Linked, Numbered, Continues
<1>6. \A n \in 1 .. Len(x) : failed <= At(x, n, more).chain /\ At(x, n, more).chain <= turn.chain
  <2>1. \A n \in 1 .. Len(w) : failed <= At(x, n, more).chain /\ At(x, n, more).chain <= turn.chain
    BY <1>2, <1>5
  <2>2. failed <= At(x, Len(w) + 1, more).chain /\ At(x, Len(w) + 1, more).chain <= turn.chain
    BY <1>3, <1>5
  <2> QED BY <1>4, <2>1, <2>2
<1>7. \A m, n \in 1 .. Len(x) : m <= n => At(x, m, more).chain <= At(x, n, more).chain
  <2> SUFFICES ASSUME NEW m \in 1 .. Len(x), NEW n \in 1 .. Len(x), m <= n
               PROVE  At(x, m, more).chain <= At(x, n, more).chain
    OBVIOUS
  <2>1. CASE n \in 1 .. Len(w)
    <3>1. m \in 1 .. Len(w)
      BY <1>1, <2>1
    <3> QED BY <1>2, <2>1, <3>1 DEF Linked
  <2>2. CASE n = Len(w) + 1
    BY <1>3, <1>6, <2>2
  <2> QED BY <1>4, <2>1, <2>2
<1>8. \A n \in 1 .. Len(x) : n > 1 /\ At(x, n, more).carry =>
          /\ At(x, n, more).chain = At(x, n - 1, more).chain
          /\ x[n][2] = x[n - 1][2] /\ ch[x[n][1]] = ch[x[n - 1][1]] + 1
  <2> SUFFICES ASSUME NEW n \in 1 .. Len(x), n > 1, At(x, n, more).carry
               PROVE  /\ At(x, n, more).chain = At(x, n - 1, more).chain
                      /\ x[n][2] = x[n - 1][2] /\ ch[x[n][1]] = ch[x[n - 1][1]] + 1
    OBVIOUS
  <2>1. n - 1 \in 1 .. Len(w)
    BY <1>1
  <2>2. CASE n \in 1 .. Len(w)
    <3>1. /\ x[n] = w[n] /\ x[n - 1] = w[n - 1]
          /\ At(x, n, more) = At(w, n, tu) /\ At(x, n - 1, more) = At(w, n - 1, tu)
      BY <1>1, <1>2, <2>1, <2>2
    <3>2. /\ At(w, n, tu).chain = At(w, n - 1, tu).chain
          /\ w[n][2] = w[n - 1][2] /\ ch[w[n][1]] = ch[w[n - 1][1]] + 1
      BY <2>2, <3>1 DEF Linked
    <3> QED BY <3>1, <3>2
  <2>3. CASE n = Len(w) + 1
    <3>1. n - 1 = Len(w) /\ Len(w) > 0 /\ Len(w) \in 1 .. Len(w)
      BY <1>1, <2>1, <2>3
    <3>2. turn.carry
      BY <1>3, <2>3
    <3>3. chain = turn.chain /\ p = at /\ ch[t] = to /\ to # NoChunk
      BY <3>2 DEF Continues
    <3>4. /\ chain = At(w, Len(w), tu).chain /\ at = w[Len(w)][2]
          /\ to \in {NoChunk, ch[w[Len(w)][1]] + 1}
      BY <3>1 DEF Linked
    <3> QED BY <1>1, <1>2, <1>3, <2>3, <3>1, <3>3, <3>4
  <2> QED BY <1>4, <2>2, <2>3
<1>9. /\ turn.chain = At(x, Len(x), more).chain /\ p = x[Len(x)][2]
      /\ c + 1 = ch[x[Len(x)][1]] + 1
  BY <1>1, <1>3
<1>10. failed <= turn.chain
  BY <1>5
<1> QED BY <1>6, <1>7, <1>8, <1>9, <1>10 DEF Linked, x

\* The tickets of queue i on slot s are turns of threads there.
Owned(w, s, i) ==
    \A n \in 1 .. Len(w) :
        /\ w[n] = <<w[n][1], w[n][2]>> /\ w[n][1] \in Threads /\ w[n][2] \in Planes
        /\ turns[w[n][1]][w[n][2]].on /\ turns[w[n][1]][w[n][2]].slot = s /\ StateOf(w[n][2]) = i
        /\ turns[w[n][1]][w[n][2]] \in TurnSet

LEMMA QueueFacts ==
    ASSUME TurnsAssumption, IInv, NEW s \in Slots, NEW i \in States, NEW w, w = state[s][i].waiting
    PROVE  /\ w \in Seq(Threads \X Planes) /\ Numbered(w, turns, chunk)
           /\ state[s][i] \in RollStates
           /\ Owned(w, s, i)
           /\ \A n \in 1 .. Len(w) : At(w, n, turns).entered => n = 1
<1>1. state[s][i] \in RollStates
  BY DEF IInv, TypeOK, StatesTyped
<1>2. w \in Seq(Threads \X Planes)
  BY <1>1 DEF RollStates
<1>3. Len(w) \in Nat /\ \A n \in 1 .. Len(w) : w[n] \in Threads \X Planes
  BY <1>2, LenProperties, ElementOfSeq
<1>4. \A n \in 1 .. Len(w) : w[n] = <<w[n][1], w[n][2]>> /\ w[n][1] \in Threads /\ w[n][2] \in Planes
  BY <1>3
<1>5. QueueKept(w, turns, s, i)
  BY DEF IInv, Tickets
<1>6. \A n \in 1 .. Len(w) : /\ turns[w[n][1]][w[n][2]].on /\ turns[w[n][1]][w[n][2]].slot = s
                             /\ StateOf(w[n][2]) = i
  BY <1>5 DEF QueueKept
<1>7. \A n \in 1 .. Len(w) : turns[w[n][1]][w[n][2]] \in TurnSet
  BY <1>4 DEF IInv, TypeOK, TurnsTyped
<1>8. \A n \in 1 .. Len(w) : At(w, n, turns).entered => n = 1
  <2> SUFFICES ASSUME NEW n \in 1 .. Len(w), At(w, n, turns).entered
               PROVE  n = 1
    OBVIOUS
  <2>1. Entered(w[n][1], w[n][2])
    BY <1>6 DEF At, Entered
  <2>2. Head(w) = <<w[n][1], w[n][2]>>
    <3>1. PICK u \in Threads, q \in Planes : w[n] = <<u, q>> /\ u = w[n][1] /\ q = w[n][2]
      BY <1>4
    <3>2. Head(state[turns[u][q].slot][StateOf(q)].waiting) = <<u, q>>
      BY <2>1, <3>1 DEF IInv, SlotsKept
    <3>3. turns[u][q].slot = s /\ StateOf(q) = i
      BY <1>6, <3>1
    <3> QED BY <3>1, <3>2, <3>3
  <2>3. w[1] = w[n] /\ 1 \in 1 .. Len(w)
    <3>1. w # <<>>
      BY <1>3
    <3>2. Head(w) = w[1]
      BY <1>2, <3>1, HeadTailProperties
    <3> QED BY <1>3, <1>4, <2>2, <3>2
  <2> QED BY <1>5, <2>3 DEF QueueKept
<1>9. Numbered(w, turns, chunk)
  <2> SUFFICES ASSUME NEW n \in 1 .. Len(w)
               PROVE  At(w, n, turns).chain \in Int /\ chunk[w[n][1]] \in Int
    BY DEF Numbered
  <2>1. turns[w[n][1]][w[n][2]].chain \in Nat
    BY <1>6, <1>7 DEF TurnSet
  <2>2. chunk[w[n][1]] \in Chunks \cup {NoChunk}
    BY <1>4 DEF IInv, TypeOK
  <2>3. Chunks \subseteq Int /\ NoChunk \in Int
    BY DEF TurnsAssumption, NoChunk
  <2>4. chunk[w[n][1]] \in Int
    BY <2>2, <2>3
  <2> QED BY <2>1, <2>4 DEF At
<1> QED BY <1>1, <1>2, <1>4, <1>6, <1>7, <1>8, <1>9 DEF Owned

\* The chunks and turns that a queue's tickets are of have not moved.
Unmoved(w, more, next, step) ==
    \A n \in 1 .. Len(w) :
        /\ more[w[n][1]][w[n][2]] = turns[w[n][1]][w[n][2]] /\ next[w[n][1]] = chunk[w[n][1]]
        /\ step[w[n][1]] = "queue" /\ turns[w[n][1]][w[n][2]].entered => pc[w[n][1]] = "queue"

LEMMA UnmovedKeeps ==
    ASSUME TurnsAssumption, IInv, CInv, NEW s \in Slots, NEW i \in States,
           NEW more, NEW next, NEW step, Unmoved(state[s][i].waiting, more, next, step)
    PROVE  ChainKept(state[s][i], more, next, step)
<1>1. PICK r : r = state[s][i]
  OBVIOUS
<1>2. PICK w : w = r.waiting
  OBVIOUS
<1>3. w \in Seq(Threads \X Planes)
  BY <1>1, <1>2, QueueFacts
<1>4. ChainKept(r, turns, chunk, pc) /\ Unmoved(w, more, next, step)
  BY <1>1, <1>2 DEF CInv, Chains
<1>5. \A n \in 1 .. Len(w) : SameAt(w, n, w, n, more, turns, next, chunk)
  BY <1>4 DEF Unmoved, SameAt, At
<1>6. Linked(w, r.chain, r.failed, r.plane, r.next, more, next)
  <2>1. Linked(w, r.chain, r.failed, r.plane, r.next, turns, chunk)
    BY <1>2, <1>4 DEF ChainKept
  <2> QED BY <1>3, <1>5, <2>1, LinkedSame
<1>7. Ready(w, r.chain, r.failed, r.plane, r.next, r.holds, more, next, step)
  <2>1. Ready(w, r.chain, r.failed, r.plane, r.next, r.holds, turns, chunk, pc)
    BY <1>2, <1>4 DEF ChainKept
  <2>2. Len(w) \in Nat
    BY <1>3, LenProperties
  <2>3. Len(w) > 0 => 1 \in 1 .. Len(w)
    BY <2>2
  <2> QED BY <1>4, <2>1, <2>3 DEF Ready, Unmoved, At
<1> QED BY <1>1, <1>2, <1>6, <1>7 DEF ChainKept

\* The chunks behind the head are the same.
RestSame(w, next) == \A n \in 2 .. Len(w) : next[w[n][1]] = chunk[w[n][1]]

\* The head of a queue leaves: with its chunk's work queued, or failing its
\* chain.
LEMMA HeadLeaves ==
    ASSUME TurnsAssumption, IInv, CInv, NEW s \in Slots, NEW i \in States, NEW t \in Threads, NEW p \in Planes,
           state[s][i].waiting # <<>>, Head(state[s][i].waiting) = <<t, p>>,
           NEW left, left.waiting = Tail(state[s][i].waiting), left.chain = state[s][i].chain,
           left.plane = state[s][i].plane,
           \/ /\ left.failed = state[s][i].failed /\ left.next = state[s][i].next
              /\ left.holds = <<p, chunk[t] + 1>>
           \/ /\ left.failed = turns[t][p].chain
              /\ left.next = IF state[s][i].chain = turns[t][p].chain THEN NoChunk ELSE state[s][i].next,
           NEW more, OthersKept(more, turns, t, p),
           NEW next, RestSame(state[s][i].waiting, next), NEW step
    PROVE  ChainKept(left, more, next, step)
<1>1. PICK r : r = state[s][i]
  OBVIOUS
<1>2. PICK w : w = r.waiting
  OBVIOUS
<1>3. /\ w \in Seq(Threads \X Planes) /\ Numbered(w, turns, chunk) /\ r \in RollStates
      /\ \A n \in 1 .. Len(w) : w[n] = <<w[n][1], w[n][2]>> /\ w[n][1] \in Threads /\ w[n][2] \in Planes
      /\ \A n \in 1 .. Len(w) : At(w, n, turns).entered => n = 1
      /\ QueueKept(w, turns, s, i)
  <2>1. /\ w \in Seq(Threads \X Planes) /\ Numbered(w, turns, chunk) /\ r \in RollStates /\ Owned(w, s, i)
        /\ \A n \in 1 .. Len(w) : At(w, n, turns).entered => n = 1
    BY <1>1, <1>2, QueueFacts
  <2>2. QueueKept(w, turns, s, i)
    BY <1>1, <1>2 DEF IInv, Tickets
  <2> QED BY <2>1, <2>2 DEF Owned
<1>4. PICK x : x = Tail(w)
  OBVIOUS
<1>5. /\ Len(w) \in Nat \ {0} /\ Len(x) = Len(w) - 1 /\ w[1] = <<t, p>> /\ w # <<>>
      /\ \A n \in 1 .. Len(x) : x[n] = w[n + 1]
  BY <1>1, <1>2, <1>3, <1>4, HeadTailProperties, LenProperties, EmptySeq
<1>6. ChainKept(r, turns, chunk, pc)
  BY <1>1 DEF CInv, Chains
<1>7. Linked(w, r.chain, r.failed, r.plane, r.next, turns, chunk)
  BY <1>2, <1>6 DEF ChainKept
<1>8. \A n \in 2 .. Len(w) : more[w[n][1]][w[n][2]] = turns[w[n][1]][w[n][2]] /\ next[w[n][1]] = chunk[w[n][1]]
  <2> SUFFICES ASSUME NEW n \in 2 .. Len(w)
               PROVE  /\ more[w[n][1]][w[n][2]] = turns[w[n][1]][w[n][2]]
                      /\ next[w[n][1]] = chunk[w[n][1]]
    OBVIOUS
  <2>1. n \in 1 .. Len(w) /\ 1 \in 1 .. Len(w) /\ n # 1
    BY <1>5
  <2>2. w[n] # <<t, p>>
    BY <1>3, <1>5, <2>1 DEF QueueKept
  <2>3. w[n][1] # t \/ w[n][2] # p
    BY <1>3, <2>1, <2>2
  <2>4. more[w[n][1]][w[n][2]] = turns[w[n][1]][w[n][2]]
    BY <1>3, <2>1, <2>3 DEF OthersKept
  <2>5. RestSame(w, next)
    BY <1>1, <1>2
  <2> QED BY <2>4, <2>5 DEF RestSame
<1>9. \A n \in 1 .. Len(w) - 1 : SameAt(x, n, w, n + 1, more, turns, next, chunk)
  <2> SUFFICES ASSUME NEW n \in 1 .. Len(w) - 1
               PROVE  SameAt(x, n, w, n + 1, more, turns, next, chunk)
    OBVIOUS
  <2>1. n + 1 \in 2 .. Len(w) /\ x[n] = w[n + 1]
    BY <1>5
  <2> QED BY <1>8, <2>1 DEF SameAt, At
<1>10. At(w, 1, turns) = turns[t][p]
  BY <1>5 DEF At
<1>11. r.chain \in Int /\ r.failed \in Int
  BY <1>3 DEF RollStates
<1>12. Linked(x, left.chain, left.failed, left.plane, left.next, more, next)
  <2>1. left.failed \in {r.failed, At(w, 1, turns).chain} /\ left.next \in {r.next, NoChunk}
    BY <1>1, <1>10
  <2>2. PICK now, on : now = left.failed /\ on = left.next
    OBVIOUS
  <2>3. TailSame(w, more, turns, next, chunk)
    BY <1>4, <1>9 DEF TailSame
  <2>4. now \in {r.failed, At(w, 1, turns).chain} /\ on \in {r.next, NoChunk}
    BY <2>1, <2>2
  <2>5. Linked(Tail(w), r.chain, now, r.plane, on, more, next)
    BY <1>3, <1>5, <1>7, <1>11, <2>3, <2>4, LinkedTail
  <2> QED BY <1>1, <1>4, <2>2, <2>5
<1>13. Ready(x, left.chain, left.failed, left.plane, left.next, left.holds, more, next, step)
  <2>1. CASE Len(x) = 0
    <3>1. Len(w) = 1
      BY <1>5, <2>1
    <3>2. r.chain = turns[t][p].chain /\ r.plane = p /\ r.next \in {NoChunk, chunk[t] + 1}
      BY <1>5, <1>7, <1>10, <3>1 DEF Linked
    <3> QED BY <1>1, <2>1, <3>2 DEF Ready
  <2>2. CASE Len(x) > 0
    <3>1. 2 \in 1 .. Len(w) /\ 2 \in 2 .. Len(w) /\ 2 > 1 /\ 1 \in 1 .. Len(x) /\ x[1] = w[2] /\ 2 - 1 = 1
      BY <1>5, <2>2
    <3>2. At(x, 1, more) = At(w, 2, turns) /\ next[x[1][1]] = chunk[w[2][1]]
      BY <1>8, <3>1 DEF At
    <3>3. ~At(w, 2, turns).entered
      BY <1>3, <3>1
    <3>4. At(w, 2, turns).carry => /\ At(w, 2, turns).chain = turns[t][p].chain
                                   /\ w[2][2] = p /\ chunk[w[2][1]] = chunk[t] + 1
      <4> SUFFICES ASSUME At(w, 2, turns).carry
                   PROVE  /\ At(w, 2, turns).chain = turns[t][p].chain
                          /\ w[2][2] = p /\ chunk[w[2][1]] = chunk[t] + 1
        OBVIOUS
      <4>1. /\ At(w, 2, turns).chain = At(w, 2 - 1, turns).chain
            /\ w[2][2] = w[2 - 1][2] /\ chunk[w[2][1]] = chunk[w[2 - 1][1]] + 1
        BY <1>7, <3>1 DEF Linked
      <4> QED BY <1>5, <1>10, <3>1, <4>1
    <3> QED BY <2>2, <3>1, <3>2, <3>3, <3>4 DEF Ready
  <2> QED BY <1>5, <2>1, <2>2
<1> QED BY <1>1, <1>2, <1>4, <1>12, <1>13 DEF ChainKept

LEMMA NextChains ==
    ASSUME together' = together,
           \A s \in Slots, i \in States : ChainKept(state'[s][i], turns', chunk', pc')
    PROVE  CInv'
<1>1. Chains(state', turns', chunk', pc')
  BY DEF Chains
<1>2. States' = States
  BY DEF States, StateOf
<1> QED BY <1>1, <1>2 DEF CInv, Chains

\* A thread goes on without its turns: its chunk may change only when it has
\* none.
LEMMA StillChains ==
    ASSUME TurnsAssumption, IInv, CInv, UNCHANGED <<together, state, turns>>, NEW t \in Threads,
           \A u \in Threads : u # t => pc'[u] = pc[u] /\ chunk'[u] = chunk[u],
           chunk'[t] = chunk[t] \/ \A p \in Planes : ~turns[t][p].on,
           pc'[t] # "queue"
    PROVE  CInv'
<1>1. ASSUME NEW s \in Slots, NEW i \in States
      PROVE  ChainKept(state[s][i], turns, chunk', pc')
  <2>1. PICK w : w = state[s][i].waiting
    OBVIOUS
  <2>2. \A n \in 1 .. Len(w) : /\ w[n][1] \in Threads /\ w[n][2] \in Planes
                               /\ turns[w[n][1]][w[n][2]].on
    <3>1. Owned(w, s, i)
      BY <2>1, QueueFacts
    <3> QED BY <3>1 DEF Owned
  <2>3. Unmoved(w, turns, chunk', pc')
    BY <2>2 DEF Unmoved
  <2> QED BY <2>1, <2>3, UnmovedKeeps
<1> QED BY <1>1, NextChains

LEMMA BeginChains ==
    ASSUME TurnsAssumption, IInv, CInv, NEW t \in Threads, NEW c \in Chunks, Begin(t, c)
    PROVE  CInv'
<1>1. /\ pc[t] = "idle" /\ pc' = [pc EXCEPT ![t] = "plan"] /\ chunk' = [chunk EXCEPT ![t] = c]
      /\ UNCHANGED <<together, state, turns>>
  BY DEF Begin
<1>2. pc \in [Threads -> Steps] /\ chunk \in [Threads -> Chunks \cup {NoChunk}] /\ \A p \in Planes : ~turns[t][p].on
  BY <1>1 DEF IInv, TypeOK, TurnsAtSteps, AtStep
<1> QED BY <1>1, <1>2, StillChains

LEMMA SynchronizedChains ==
    ASSUME TurnsAssumption, IInv, CInv, NEW t \in Threads, Synchronized(t)
    PROVE  CInv'
<1>1. /\ pc[t] = "wait" /\ UNCHANGED <<together, state, turns>>
      /\ \/ pc' = [pc EXCEPT ![t] = "plan"] /\ chunk' = chunk
         \/ pc' = [pc EXCEPT ![t] = "idle"] /\ chunk' = [chunk EXCEPT ![t] = NoChunk]
  BY DEF Synchronized
<1>2. pc \in [Threads -> Steps] /\ chunk \in [Threads -> Chunks \cup {NoChunk}] /\ \A p \in Planes : ~turns[t][p].on
  BY <1>1 DEF IInv, TypeOK, TurnsAtSteps, AtStep
<1> QED BY <1>1, <1>2, StillChains

LEMMA ThrowStagingChains ==
    ASSUME TurnsAssumption, IInv, CInv, NEW t \in Threads, ThrowStaging(t)
    PROVE  CInv'
<1>1. pc' = [pc EXCEPT ![t] = "unwind"] /\ chunk' = chunk /\ UNCHANGED <<together, state, turns>>
  BY DEF ThrowStaging
<1>2. pc \in [Threads -> Steps]
  BY DEF IInv, TypeOK
<1> QED BY <1>1, <1>2, StillChains

LEMMA ThrowWaitingChains ==
    ASSUME TurnsAssumption, IInv, CInv, NEW t \in Threads, ThrowWaiting(t)
    PROVE  CInv'
<1>1. /\ pc[t] = "wait" /\ pc' = [pc EXCEPT ![t] = "idle"] /\ chunk' = [chunk EXCEPT ![t] = NoChunk]
      /\ UNCHANGED <<together, state, turns>>
  BY DEF ThrowWaiting
<1>2. pc \in [Threads -> Steps] /\ chunk \in [Threads -> Chunks \cup {NoChunk}] /\ \A p \in Planes : ~turns[t][p].on
  BY <1>1 DEF IInv, TypeOK, TurnsAtSteps, AtStep
<1> QED BY <1>1, <1>2, StillChains

\* The queues that thread t's turn for plane p is not in.
LEMMA OtherQueues ==
    ASSUME TurnsAssumption, IInv, NEW t \in Threads, NEW p \in Planes, turns[t][p].on,
           NEW s \in Slots, NEW i \in States, s # turns[t][p].slot \/ i # StateOf(p),
           NEW more, OthersKept(more, turns, t, p), NEW next, NEW step,
           \A u \in Threads : u # t => step[u] = pc[u] /\ next[u] = chunk[u],
           next[t] = chunk[t] \/ \A q \in Planes : q # p => ~turns[t][q].on,
           step[t] = "queue" => \A q \in Planes : q # p => ~Entered(t, q)
    PROVE  Unmoved(state[s][i].waiting, more, next, step)
<1>1. PICK w : w = state[s][i].waiting
  OBVIOUS
<1>2. \A n \in 1 .. Len(w) : /\ w[n] = <<w[n][1], w[n][2]>> /\ w[n][1] \in Threads /\ w[n][2] \in Planes
                             /\ turns[w[n][1]][w[n][2]].on
                             /\ turns[w[n][1]][w[n][2]].slot = s /\ StateOf(w[n][2]) = i
  <2>1. Owned(w, s, i)
    BY <1>1, QueueFacts
  <2> QED BY <2>1 DEF Owned
<1>3. \A n \in 1 .. Len(w) : w[n][1] # t \/ w[n][2] # p
  BY <1>2
<1>4. \A n \in 1 .. Len(w) : more[w[n][1]][w[n][2]] = turns[w[n][1]][w[n][2]]
  BY <1>2, <1>3 DEF OthersKept
<1>5. ASSUME NEW n \in 1 .. Len(w)
      PROVE  /\ next[w[n][1]] = chunk[w[n][1]]
             /\ step[w[n][1]] = "queue" /\ turns[w[n][1]][w[n][2]].entered => pc[w[n][1]] = "queue"
  <2>1. CASE w[n][1] # t
    BY <1>2, <2>1
  <2>2. CASE w[n][1] = t
    <3>1. PICK q \in Planes : q = w[n][2] /\ q # p /\ turns[t][q].on
      BY <1>2, <1>3, <2>2
    <3>2. next[t] = chunk[t]
      BY <3>1
    <3>3. step[t] = "queue" => ~turns[t][q].entered
      BY <3>1 DEF Entered
    <3> QED BY <2>2, <3>1, <3>2, <3>3
  <2> QED BY <2>1, <2>2
<1> QED BY <1>1, <1>4, <1>5 DEF Unmoved

LEMMA HeadIsFirst ==
    ASSUME NEW w \in Seq(Threads \X Planes), w # <<>>
    PROVE  Head(w) = w[1] /\ Len(w) \in Nat \ {0}
  BY HeadTailProperties, LenProperties, EmptySeq

LEMMA EnteredReady ==
    ASSUME NEW w, Len(w) \in Nat \ {0}, NEW t, NEW p, w[1] = <<t, p>>, NEW more, more[t][p].entered,
           NEW ch, NEW step, NEW held, step[t] = "queue" => held = <<p, ch[t]>>,
           NEW chain, NEW failed, NEW at, NEW to
    PROVE  Ready(w, chain, failed, at, to, held, more, ch, step)
<1>1. w[1][1] = t /\ w[1][2] = p /\ Len(w) # 0
  OBVIOUS
<1>2. At(w, 1, more).entered
  BY <1>1 DEF At
<1> QED BY <1>1, <1>2 DEF Ready

\* The queue of a turn that has entered: what the state holds matters to its
\* head only.
LEMMA HeadEntered ==
    ASSUME TurnsAssumption, IInv, CInv, NEW t \in Threads, NEW p \in Planes, turns[t][p].on,
           NEW s \in Slots, NEW i \in States, s = turns[t][p].slot, i = StateOf(p),
           Head(state[s][i].waiting) = <<t, p>>,
           NEW more, OthersKept(more, turns, t, p), more[t][p].chain = turns[t][p].chain,
           more[t][p].carry = turns[t][p].carry, more[t][p].entered,
           NEW held, NEW left, left.waiting = state[s][i].waiting, left.chain = state[s][i].chain,
           left.failed = state[s][i].failed, left.plane = state[s][i].plane, left.next = state[s][i].next,
           left.holds = held, NEW step, step[t] = "queue" => held = <<p, chunk[t]>>
    PROVE  ChainKept(left, more, chunk, step)
<1>1. PICK r : r = state[s][i]
  OBVIOUS
<1>2. PICK w : w = r.waiting
  OBVIOUS
<1>3. /\ w \in Seq(Threads \X Planes) /\ r \in RollStates
      /\ \A n \in 1 .. Len(w) : w[n] = <<w[n][1], w[n][2]>> /\ w[n][1] \in Threads /\ w[n][2] \in Planes
  <2>1. Owned(w, s, i) /\ w \in Seq(Threads \X Planes) /\ r \in RollStates
    BY <1>1, <1>2, QueueFacts
  <2> QED BY <2>1 DEF Owned
<1>4. w # <<>> /\ Len(w) \in Nat \ {0} /\ w[1] = <<t, p>>
  <2>1. w # <<>>
    BY <1>1, <1>2, OnFacts
  <2>2. Head(w) = <<t, p>>
    BY <1>1, <1>2
  <2>3. w \in Seq(Threads \X Planes)
    BY <1>3
  <2>4. Head(w) = w[1] /\ Len(w) \in Nat \ {0}
    BY <2>1, <2>3, HeadIsFirst
  <2> QED BY <2>1, <2>2, <2>4
<1>5. Linked(w, r.chain, r.failed, r.plane, r.next, turns, chunk)
  BY <1>1, <1>2 DEF CInv, Chains, ChainKept
<1>6. \A n \in 1 .. Len(w) : SameAt(w, n, w, n, more, turns, chunk, chunk)
  <2> SUFFICES ASSUME NEW n \in 1 .. Len(w)
               PROVE  SameAt(w, n, w, n, more, turns, chunk, chunk)
    OBVIOUS
  <2>1. PICK u \in Threads, q \in Planes : u = w[n][1] /\ q = w[n][2]
    BY <1>3
  <2>2. more[u][q].chain = turns[u][q].chain /\ more[u][q].carry = turns[u][q].carry
    BY DEF OthersKept
  <2> QED BY <2>1, <2>2 DEF SameAt, At
<1>7. Linked(w, r.chain, r.failed, r.plane, r.next, more, chunk)
  BY <1>3, <1>5, <1>6, LinkedSame
<1>8. Ready(w, left.chain, left.failed, left.plane, left.next, held, more, chunk, step)
  BY <1>4, EnteredReady
<1> QED BY <1>1, <1>2, <1>7, <1>8 DEF ChainKept

\* One state changes.
OneState(new, st, s, i, left) ==
    \A u \in Slots, j \in States : new[u][j] = IF u = s /\ j = i THEN left ELSE st[u][j]

LEMMA OneQueueChains ==
    ASSUME TurnsAssumption, IInv, CInv, together' = together, NEW t \in Threads, NEW p \in Planes, turns[t][p].on,
           NEW s, NEW i, s = turns[t][p].slot, i = StateOf(p), NEW left,
           OneState(state', state, s, i, left), ChainKept(left, turns', chunk', pc'),
           OthersKept(turns', turns, t, p),
           \A u \in Threads : u # t => pc'[u] = pc[u] /\ chunk'[u] = chunk[u],
           chunk'[t] = chunk[t] \/ \A q \in Planes : q # p => ~turns[t][q].on,
           pc'[t] = "queue" => \A q \in Planes : q # p => ~Entered(t, q)
    PROVE  CInv'
<1>1. ASSUME NEW u \in Slots, NEW j \in States
      PROVE  ChainKept(state'[u][j], turns', chunk', pc')
  <2>1. CASE u = s /\ j = i
    BY <2>1 DEF OneState
  <2>2. CASE ~(u = s /\ j = i)
    <3>1. state'[u][j] = state[u][j]
      BY <2>2 DEF OneState
    <3>2. u # turns[t][p].slot \/ j # StateOf(p)
      BY <2>2
    <3>3. Unmoved(state[u][j].waiting, turns', chunk', pc')
      BY <3>2, OtherQueues
    <3> QED BY <3>1, <3>3, UnmovedKeeps
  <2> QED BY <2>1, <2>2
<1> QED BY <1>1, NextChains

LEMMA ThrowQueueingChains ==
    ASSUME TurnsAssumption, IInv, CInv, NEW t \in Threads, ThrowQueueing(t)
    PROVE  CInv'
<1> DEFINE p == plane[t]
           s == turns[t][p].slot
           i == StateOf(p)
           held == <<p, NoChunk>>
           left == [state[s][i] EXCEPT !.holds = held]
<1>1. /\ pc[t] = "queue" /\ pc' = [pc EXCEPT ![t] = "unwind"]
      /\ state' = Holding(s, i, held) /\ UNCHANGED <<together, chunk, turns>>
  BY DEF ThrowQueueing, Turn, Holding
<1>2. p \in Planes /\ turns[t][p].on /\ turns[t][p].entered
  BY <1>1, OwnTurn DEF Turn
<1>3. s \in Slots /\ i \in States /\ state[s][i] \in RollStates
  BY <1>2, OnFacts
<1>4. Head(state[s][i].waiting) = <<t, p>>
  <2>1. Entered(t, p)
    BY <1>2 DEF Entered
  <2> QED BY <1>2, <2>1 DEF IInv, SlotsKept
<1>5. OneState(state', state, s, i, left)
  <2>1. held \in (Planes \cup {-1}) \X (Nat \cup {NoChunk})
    BY <1>2
  <2> HIDE DEF p, s, i, held
  <2>2. \A u \in Slots, j \in States : state'[u][j] = IF u = s /\ j = i THEN [state[u][j] EXCEPT !.holds = held]
                                                     ELSE state[u][j]
    <3>1. \A u \in Slots, j \in States :
              Holding(s, i, held)[u][j] = IF u = s /\ j = i THEN [state[u][j] EXCEPT !.holds = held]
                                          ELSE state[u][j]
      BY <1>3, <2>1, HoldingFacts
    <3> QED BY <1>1, <3>1
  <2> QED BY <2>2 DEF OneState
<1>6. /\ left.waiting = state[s][i].waiting /\ left.chain = state[s][i].chain
      /\ left.failed = state[s][i].failed /\ left.plane = state[s][i].plane /\ left.next = state[s][i].next
      /\ left.holds = held
  <2> HIDE DEF p, s, i, held
  <2> QED BY <1>3 DEF RollStates
<1>7. pc'[t] = "unwind" /\ \A u \in Threads : u # t => pc'[u] = pc[u]
  BY <1>1 DEF IInv, TypeOK
<1> HIDE DEF left, held
<1>8. ChainKept(left, turns', chunk', pc')
  <2>1. OthersKept(turns, turns, t, p)
    BY DEF OthersKept
  <2> HIDE DEF p
  <2>2. ChainKept(left, turns, chunk, pc')
    BY <1>2, <1>3, <1>4, <1>6, <1>7, <2>1, HeadEntered
  <2> QED BY <1>1, <2>2
<1>9. OthersKept(turns', turns, t, p)
  BY <1>1 DEF OthersKept
<1> HIDE DEF p, s, i
<1> QED BY <1>1, <1>2, <1>5, <1>7, <1>8, <1>9, OneQueueChains DEF s, i

LEMMA EnterChains ==
    ASSUME TurnsAssumption, IInv, CInv, NEW t \in Threads, Enter(t)
    PROVE  CInv'
<1> DEFINE p == plane[t]
           turn == turns[t][p]
           s == turn.slot
           i == StateOf(p)
           r == state[s][i]
           held == IF RunFailed(t) \/ turn.carry THEN r.holds ELSE <<p, chunk[t]>>
           left == [r EXCEPT !.holds = held]
<1>1. /\ pc[t] = "enter" /\ Head(r.waiting) = <<t, p>>
      /\ turns' = [turns EXCEPT ![t][p].entered = TRUE]
      /\ pc' = [pc EXCEPT ![t] = IF RunFailed(t) THEN "unwind" ELSE "queue"]
      /\ state' = IF RunFailed(t) \/ turn.carry THEN state ELSE Holding(s, i, <<p, chunk[t]>>)
      /\ UNCHANGED <<together, chunk>>
  BY DEF Enter, MayEnter, AtTurn, RollState, Turn, Holding
<1>2. /\ p \in Planes /\ turn.on /\ chunk[t] \in Chunks
      /\ \A q \in Planes : turns[t][q].on => ~turns[t][q].entered
  BY <1>1, OwnTurn DEF Turn, IInv, TurnsAtSteps, AtStep
<1>3. /\ s \in Slots /\ i \in States /\ r \in RollStates /\ r.waiting # <<>>
      /\ turn \in [on : {TRUE}, slot : Slots, carry : BOOLEAN, chain : Nat, entered : BOOLEAN]
  BY <1>2, OnFacts
<1>4. RunFailed(t) <=> r.failed = turn.chain
  BY DEF RunFailed, RollState, Turn
<1>5. <<p, chunk[t]>> \in (Planes \cup {-1}) \X (Nat \cup {NoChunk})
  <2>1. chunk[t] \in Nat
    BY <1>2 DEF TurnsAssumption
  <2> QED BY <1>2, <2>1
<1>6. /\ OthersKept(turns', turns, t, p) /\ turns'[t][p].chain = turn.chain /\ turns'[t][p].carry = turn.carry
      /\ turns'[t][p].entered
  <2>1. turns \in [Threads -> [Planes -> TurnSet]]
    BY DEF IInv, TypeOK, TurnsTyped
  <2> DEFINE now == [turn EXCEPT !.entered = TRUE]
  <2>2. turns' = [turns EXCEPT ![t][p] = now]
    BY <1>1
  <2> HIDE DEF turn, now
  <2>3. now.chain = turn.chain /\ now.carry = turn.carry /\ now.entered
    BY <1>3 DEF now
  <2> HIDE DEF p
  <2>4. turns'[t][p] = now
    BY <1>2, <2>1, <2>2
  <2>5. OthersKept(turns', turns, t, p)
    BY <1>2, <2>1, <2>2 DEF OthersKept
  <2> QED BY <2>3, <2>4, <2>5
<1>7. OneState(state', state, s, i, left)
  <2>1. [r EXCEPT !.holds = r.holds] = r
    <3> HIDE DEF r
    <3> QED BY <1>3 DEF RollStates
  <2>2. CASE RunFailed(t) \/ turn.carry
    <3>1. left = r /\ state' = state
      BY <1>1, <2>1, <2>2
    <3> HIDE DEF left
    <3> QED BY <3>1 DEF OneState
  <2>3. CASE ~(RunFailed(t) \/ turn.carry)
    <3>1. state' = Holding(s, i, <<p, chunk[t]>>) /\ held = <<p, chunk[t]>>
      BY <1>1, <2>3
    <3> HIDE DEF held, s, i, p
    <3>2. \A u \in Slots, j \in States :
              Holding(s, i, held)[u][j] = IF u = s /\ j = i THEN [state[u][j] EXCEPT !.holds = held]
                                          ELSE state[u][j]
      BY <1>3, <1>5, <3>1, HoldingFacts
    <3> QED BY <3>1, <3>2 DEF OneState
  <2> QED BY <2>2, <2>3
<1>8. /\ left.waiting = r.waiting /\ left.chain = r.chain
      /\ left.failed = r.failed /\ left.plane = r.plane /\ left.next = r.next /\ left.holds = held
  <2> HIDE DEF r, held
  <2> QED BY <1>3 DEF RollStates
<1>9. pc'[t] = (IF RunFailed(t) THEN "unwind" ELSE "queue") /\ \A u \in Threads : u # t => pc'[u] = pc[u]
  BY <1>1 DEF IInv, TypeOK
<1>10. ~RunFailed(t) => held = <<p, chunk[t]>>
  <2> SUFFICES ASSUME ~RunFailed(t), turn.carry
               PROVE  r.holds = <<p, chunk[t]>>
    OBVIOUS
  <2>1. PICK w : w = r.waiting
    OBVIOUS
  <2>2. Ready(w, r.chain, r.failed, r.plane, r.next, r.holds, turns, chunk, pc)
    BY <1>3, <2>1 DEF CInv, Chains, ChainKept
  <2>3. w[1] = <<t, p>> /\ Len(w) > 0
    <3>1. w \in Seq(Threads \X Planes)
      <4> HIDE DEF r
      <4> QED BY <1>3, <2>1 DEF RollStates
    <3>2. w # <<>> /\ Head(w) = <<t, p>>
      BY <1>1, <1>3, <2>1
    <3>3. Head(w) = w[1] /\ Len(w) \in Nat \ {0}
      BY <3>1, <3>2, HeadIsFirst
    <3> QED BY <3>2, <3>3
  <2>4. At(w, 1, turns) = turn /\ w[1][1] = t /\ w[1][2] = p
    BY <2>3 DEF At
  <2> HIDE DEF r, turn
  <2>5. r.failed # turn.chain /\ ~turn.entered
    BY <1>2, <1>4 DEF turn
  <2> QED BY <2>2, <2>3, <2>4, <2>5 DEF Ready
<1> HIDE DEF left, held
<1>11. ChainKept(left, turns', chunk', pc')
  <2>1. pc'[t] = "queue" => held = <<p, chunk[t]>>
    BY <1>9, <1>10
  <2> HIDE DEF p
  <2>2. ChainKept(left, turns', chunk, pc')
    BY <1>1, <1>2, <1>3, <1>6, <1>8, <2>1, HeadEntered
  <2> QED BY <1>1, <2>2
<1>12. \A q \in Planes : q # p => ~Entered(t, q)
  BY <1>2 DEF Entered
<1> HIDE DEF p, s, i, r
<1> QED BY <1>1, <1>2, <1>6, <1>7, <1>9, <1>11, <1>12, OneQueueChains DEF s, i

LEMMA QueueAndLeaveChains ==
    ASSUME TurnsAssumption, IInv, CInv, NEW t \in Threads, QueueAndLeave(t)
    PROVE  CInv'
<1> DEFINE p == plane[t]
           turn == turns[t][p]
           s == turn.slot
           i == StateOf(p)
           r == state[s][i]
           done == Finished(r, turn, FALSE)
           held == <<p, chunk[t] + 1>>
           left == Left(r, t)
<1>1. /\ pc[t] = "queue" /\ state' = Replaced(s, i, left) /\ turns' = TurnsEnded(t, p)
      /\ pc' = [pc EXCEPT ![t] = IF LastOfGroup(t) THEN "wait" ELSE "enter"]
      /\ UNCHANGED <<together, chunk>>
  BY DEF QueueAndLeave, Turn, Replaced, TurnsEnded
<1>2. /\ p \in Planes /\ turn.on /\ turn.entered /\ chunk[t] \in Chunks
      /\ \A q \in Planes : turns[t][q].entered /\ turns[t][q].on => q = p
  BY <1>1, OwnTurn DEF Turn, IInv, TurnsAtSteps, AtStep
<1>3. /\ s \in Slots /\ i \in States /\ r \in RollStates /\ r.waiting # <<>>
      /\ turn \in [on : {TRUE}, slot : Slots, carry : BOOLEAN, chain : Nat, entered : BOOLEAN]
  BY <1>2, OnFacts
<1>4. Head(r.waiting) = <<t, p>>
  <2>1. Entered(t, p)
    BY <1>2 DEF Entered
  <2> QED BY <1>2, <2>1 DEF IInv, SlotsKept
<1>5. r.holds = <<p, chunk[t]>>
  <2>1. PICK w : w = r.waiting
    OBVIOUS
  <2>2. Ready(w, r.chain, r.failed, r.plane, r.next, r.holds, turns, chunk, pc)
    BY <1>3, <2>1 DEF CInv, Chains, ChainKept
  <2>3. w[1] = <<t, p>> /\ Len(w) > 0
    <3>1. w \in Seq(Threads \X Planes)
      <4> HIDE DEF r
      <4> QED BY <1>3, <2>1 DEF RollStates
    <3>2. w # <<>> /\ Head(w) = <<t, p>>
      BY <1>3, <1>4, <2>1
    <3>3. Head(w) = w[1] /\ Len(w) \in Nat \ {0}
      BY <3>1, <3>2, HeadIsFirst
    <3> QED BY <3>2, <3>3
  <2>4. At(w, 1, turns) = turn /\ w[1][1] = t /\ w[1][2] = p
    BY <2>3 DEF At
  <2> HIDE DEF r, turn
  <2>5. turn.entered
    BY <1>2
  <2> QED BY <1>1, <2>2, <2>3, <2>4, <2>5 DEF Ready
<1> HIDE DEF turn, r
<1>6. turn.chain \in Nat
  BY <1>3
<1>7. /\ done \in RollStates /\ done.waiting = Tail(r.waiting) /\ done.failed = r.failed /\ done.next = r.next
      /\ done.chain = r.chain /\ done.plane = r.plane /\ done.holds = r.holds
  <2>1. \A failed \in BOOLEAN :
            /\ Finished(r, turn, failed) \in RollStates
            /\ Finished(r, turn, failed).waiting = Tail(r.waiting)
            /\ Finished(r, turn, failed).failed = IF failed THEN turn.chain ELSE r.failed
            /\ Finished(r, turn, failed).next = IF failed /\ r.chain = turn.chain THEN NoChunk ELSE r.next
            /\ Finished(r, turn, failed).chain = r.chain /\ Finished(r, turn, failed).plane = r.plane
            /\ Finished(r, turn, failed).holds = r.holds
    BY <1>3, <1>6, FinishedFacts
  <2> QED BY <2>1
<1>8. left = [done EXCEPT !.holds = held]
  <2>1. left = [done EXCEPT !.holds = IF done.holds = <<p, chunk[t]>> THEN <<p, chunk[t] + 1>>
                                      ELSE <<p, NoChunk>>]
    BY DEF Left, Turn, turn
  <2> QED BY <1>5, <1>7, <2>1
<1> HIDE DEF done, left
<1>9. /\ left \in RollStates /\ left.waiting = Tail(r.waiting) /\ left.chain = r.chain
      /\ left.failed = r.failed /\ left.plane = r.plane /\ left.next = r.next /\ left.holds = held
  <2>1. chunk[t] \in Nat
    BY <1>2 DEF TurnsAssumption
  <2>2. held \in (Planes \cup {-1}) \X (Nat \cup {NoChunk})
    <3> HIDE DEF p
    <3> QED BY <1>2, <2>1
  <2> HIDE DEF held
  <2> QED BY <1>7, <1>8, <2>2 DEF RollStates
<1>10. OneState(state', state, s, i, left)
  <2> HIDE DEF s, i
  <2> QED BY <1>1, <1>3, <1>9, ReplacedFacts DEF OneState
<1>11. OthersKept(turns', turns, t, p)
  <2> HIDE DEF p
  <2> QED BY <1>1, <1>2, EndedFacts DEF OthersKept
<1>12. pc'[t] # "queue" /\ \A u \in Threads : u # t => pc'[u] = pc[u]
  BY <1>1 DEF IInv, TypeOK
<1>13. ChainKept(left, turns', chunk', pc')
  <2>1. r = state[s][i]
    BY DEF r
  <2> HIDE DEF p, s, i
  <2>2. RestSame(r.waiting, chunk)
    BY DEF RestSame
  <2>3. ChainKept(left, turns', chunk, pc')
    BY <1>2, <1>3, <1>4, <1>9, <1>11, <2>1, <2>2, HeadLeaves DEF held
  <2> QED BY <1>1, <2>3
<1> HIDE DEF p, s, i
<1> QED BY <1>1, <1>2, <1>10, <1>11, <1>12, <1>13, OneQueueChains DEF s, i, turn

LEMMA UnwindChains ==
    ASSUME TurnsAssumption, IInv, CInv, NEW t \in Threads, Unwind(t)
    PROVE  CInv'
<1> DEFINE p == plane[t]
           turn == turns[t][p]
           s == turn.slot
           i == StateOf(p)
           r == state[s][i]
           left == Finished(r, turn, TRUE)
           last == p = Max(Group(p))
<1>1. /\ pc[t] = "unwind" /\ p \in Planes
      /\ pc' = [pc EXCEPT ![t] = IF last THEN "idle" ELSE "unwind"]
      /\ chunk' = [chunk EXCEPT ![t] = IF last THEN NoChunk ELSE chunk[t]]
      /\ UNCHANGED together
  BY DEF Unwind, LastOfGroup, IInv, TypeOK
<1>2. /\ pc'[t] # "queue" /\ \A u \in Threads : u # t => pc'[u] = pc[u] /\ chunk'[u] = chunk[u]
      /\ ~last => chunk'[t] = chunk[t]
  BY <1>1 DEF IInv, TypeOK
<1>3. ASSUME last
      PROVE  \A q \in Planes : q # p => ~turns[t][q].on
  <2>1. \A q \in Planes : turns[t][q].on => q \in Group(p) /\ q >= p
    BY <1>1 DEF IInv, TurnsAtSteps, AtStep
  <2>2. \A q \in Group(p) : q <= p
    BY <1>1, <1>3, LastFacts
  <2>3. Planes \subseteq Nat
    BY FS_CardinalityType DEF TurnsAssumption
  <2> HIDE DEF p
  <2> QED BY <1>1, <2>1, <2>2, <2>3
<1>4. CASE ~turn.on
  <2>1. UNCHANGED <<state, turns>>
    BY <1>4 DEF Unwind, Turn
  <2>2. chunk'[t] = chunk[t] \/ \A q \in Planes : ~turns[t][q].on
    BY <1>2, <1>3, <1>4
  <2> QED BY <1>1, <1>2, <2>1, <2>2, StillChains
<1>5. CASE turn.on
  <2>1. /\ turn.entered \/ Head(r.waiting) = <<t, p>>
        /\ state' = Replaced(s, i, left) /\ turns' = TurnsEnded(t, p)
    BY <1>5 DEF Unwind, Turn, MayFinish, AtTurn, RollState, Replaced, TurnsEnded
  <2>2. /\ turn \in [on : {TRUE}, slot : Slots, carry : BOOLEAN, chain : Nat, entered : BOOLEAN]
        /\ s \in Slots /\ i \in States /\ r \in RollStates /\ r.waiting # <<>>
    BY <1>1, <1>5, OnFacts
  <2>3. Head(r.waiting) = <<t, p>>
    <3>1. CASE turn.entered
      <4>1. Entered(t, p)
        BY <1>5, <3>1 DEF Entered
      <4> QED BY <1>1, <4>1 DEF IInv, SlotsKept
    <3> QED BY <2>1, <3>1
  <2>4. turn.chain \in Nat
    <3> HIDE DEF turn
    <3> QED BY <2>2
  <2> HIDE DEF r, turn
  <2>5. /\ left \in RollStates /\ left.waiting = Tail(r.waiting) /\ left.failed = turn.chain
        /\ left.next = (IF r.chain = turn.chain THEN NoChunk ELSE r.next)
        /\ left.chain = r.chain /\ left.plane = r.plane
    <3>1. \A failed \in BOOLEAN :
              /\ Finished(r, turn, failed) \in RollStates
              /\ Finished(r, turn, failed).waiting = Tail(r.waiting)
              /\ Finished(r, turn, failed).failed = IF failed THEN turn.chain ELSE r.failed
              /\ Finished(r, turn, failed).next = IF failed /\ r.chain = turn.chain THEN NoChunk ELSE r.next
              /\ Finished(r, turn, failed).chain = r.chain /\ Finished(r, turn, failed).plane = r.plane
      BY <2>2, <2>4, FinishedFacts
    <3> QED BY <3>1
  <2> HIDE DEF left
  <2>6. OneState(state', state, s, i, left)
    <3> HIDE DEF s, i
    <3> QED BY <2>1, <2>2, <2>5, ReplacedFacts DEF OneState
  <2>7. OthersKept(turns', turns, t, p)
    <3> HIDE DEF p
    <3> QED BY <1>1, <2>1, EndedFacts DEF OthersKept
  <2>8. r = state[s][i] /\ turn = turns[t][p]
    BY DEF r, turn
  <2>9. RestSame(r.waiting, chunk')
    <3> SUFFICES ASSUME NEW n \in 2 .. Len(r.waiting)
                 PROVE  chunk'[r.waiting[n][1]] = chunk[r.waiting[n][1]]
      BY DEF RestSame
    <3>1. PICK w : w = r.waiting
      OBVIOUS
    <3>2. /\ Owned(w, s, i) /\ w \in Seq(Threads \X Planes) /\ QueueKept(w, turns, s, i)
      <4> HIDE DEF s, i
      <4> QED BY <2>2, <2>8, <3>1, QueueFacts DEF IInv, Tickets
    <3>3. w[1] = <<t, p>> /\ 1 \in 1 .. Len(w) /\ n \in 1 .. Len(w) /\ n # 1
      <4>1. Head(w) = w[1] /\ Len(w) \in Nat \ {0}
        BY <2>2, <3>1, <3>2, HeadIsFirst
      <4> QED BY <2>3, <3>1, <4>1
    <3>4. w[n] # <<t, p>>
      BY <3>2, <3>3 DEF QueueKept
    <3>5. PICK u \in Threads, q \in Planes : w[n] = <<u, q>> /\ u = w[n][1] /\ turns[u][q].on
      BY <3>2, <3>3 DEF Owned
    <3>6. CASE u = t
      <4>1. q # p /\ turns[t][q].on
        BY <3>4, <3>5, <3>6
      <4>2. ~last
        BY <1>3, <4>1
      <4> QED BY <1>2, <3>1, <3>5, <3>6, <4>2
    <3>7. CASE u # t
      BY <1>2, <3>1, <3>5, <3>7
    <3> QED BY <3>6, <3>7
  <2>10. ChainKept(left, turns', chunk', pc')
    <3> HIDE DEF p, s, i
    <3> QED BY <1>1, <2>2, <2>3, <2>5, <2>7, <2>8, <2>9, HeadLeaves
  <2>11. chunk'[t] = chunk[t] \/ \A q \in Planes : q # p => ~turns[t][q].on
    BY <1>2, <1>3
  <2> HIDE DEF p, s, i, last
  <2> QED BY <1>1, <1>2, <1>5, <2>6, <2>7, <2>8, <2>10, <2>11, OneQueueChains DEF s, i
<1> QED BY <1>4, <1>5

\* A queue whose tickets' turns are the same.
LEMMA SameQueue ==
    ASSUME NEW r, NEW w \in Seq(Threads \X Planes), w = r.waiting, NEW tu, NEW ch, NEW step, ChainKept(r, tu, ch, step),
           NEW more, SameTurns(w, more, tu)
    PROVE  ChainKept(r, more, ch, step)
<1>1. \A n \in 1 .. Len(w) : SameAt(w, n, w, n, more, tu, ch, ch) /\ At(w, n, more) = At(w, n, tu)
  BY DEF SameAt, At, SameTurns
<1>2. Linked(w, r.chain, r.failed, r.plane, r.next, more, ch)
  <2>1. Linked(w, r.chain, r.failed, r.plane, r.next, tu, ch)
    BY DEF ChainKept
  <2> QED BY <1>1, <2>1, LinkedSame
<1>3. Ready(w, r.chain, r.failed, r.plane, r.next, r.holds, more, ch, step)
  <2>1. Ready(w, r.chain, r.failed, r.plane, r.next, r.holds, tu, ch, step)
    BY DEF ChainKept
  <2>2. Len(w) \in Nat
    BY LenProperties
  <2>3. Len(w) > 0 => 1 \in 1 .. Len(w)
    BY <2>2
  <2> QED BY <1>1, <2>1, <2>3 DEF Ready
<1> QED BY <1>2, <1>3 DEF ChainKept

\* The plan's new ticket: the last of its queue, of its chain or of a new one.
LEMMA QueuedChain ==
    ASSUME NEW r \in RollStates, NEW t \in Threads, NEW p \in Planes, NEW c \in Nat, NEW turn,
           turn.chain \in Nat, ~turn.entered,
           turn.carry => r.plane = p /\ r.next = c /\ r.failed # r.chain /\ turn.chain = r.chain,
           ~turn.carry => turn.chain = r.chain + 1,
           NEW tu, NEW ch, ch[t] = c, NEW step, ChainKept(r, tu, ch, step), Numbered(r.waiting, tu, ch),
           NEW more, more[t][p] = turn, SameTurns(r.waiting, more, tu)
    PROVE  ChainKept(Queued(r, t, p, turn, c), more, ch, step)
<1>1. PICK w : w = r.waiting
  OBVIOUS
<1> DEFINE x == Append(w, <<t, p>>)
           q == Queued(r, t, p, turn, c)
<1>2. w \in Seq(Threads \X Planes) /\ r.chain \in Nat /\ r.failed \in Int
  BY <1>1 DEF RollStates
<1>3. /\ q.waiting = x /\ q.chain = turn.chain /\ q.plane = p
      /\ q.next = c + 1 /\ q.failed = r.failed /\ q.holds = r.holds
  BY <1>1, QueuedFacts
<1> HIDE DEF q
<1>4. /\ Len(w) \in Nat /\ Len(x) = Len(w) + 1 /\ x[Len(w) + 1] = <<t, p>>
      /\ \A n \in 1 .. Len(w) : x[n] = w[n]
  <2>1. <<t, p>> \in Threads \X Planes
    OBVIOUS
  <2> QED BY <1>2, <2>1, AppendProperties, LenProperties
<1>5. Linked(w, r.chain, r.failed, r.plane, r.next, tu, ch)
  BY <1>1 DEF ChainKept
<1>6. Ready(w, r.chain, r.failed, r.plane, r.next, r.holds, tu, ch, step)
  BY <1>1 DEF ChainKept
<1>7. Linked(x, turn.chain, r.failed, p, c + 1, more, ch)
  <2>1. Continues(turn, r.chain, r.plane, r.next, p, c) /\ r.chain \in Int /\ c \in Int
    BY <1>2 DEF NoChunk, Continues
  <2>2. SameTurns(w, more, tu) /\ Numbered(w, tu, ch)
    BY <1>1
  <2> HIDE DEF x
  <2>3. Linked(Append(w, <<t, p>>), turn.chain, r.failed, p, c + 1, more, ch)
    BY <1>2, <1>5, <2>1, <2>2, LinkedAppend
  <2> QED BY <2>3 DEF x
<1>8. Ready(x, turn.chain, r.failed, p, c + 1, r.holds, more, ch, step)
  <2>1. CASE Len(w) = 0
    <3>1. x[1] = <<t, p>> /\ Len(x) = 1
      BY <1>4, <2>1
    <3> HIDE DEF x
    <3>2. At(x, 1, more) = turn /\ x[1][1] = t /\ x[1][2] = p
      BY <3>1 DEF At
    <3>3. turn.carry /\ r.failed # turn.chain => r.holds = <<p, c>>
      BY <1>6, <2>1 DEF Ready, NoChunk
    <3> QED BY <3>1, <3>2, <3>3 DEF Ready
  <2>2. CASE Len(w) > 0
    <3>1. x[1] = w[1] /\ Len(x) > 0 /\ 1 \in 1 .. Len(w)
      BY <1>4, <2>2
    <3> HIDE DEF x
    <3>2. At(x, 1, more) = At(w, 1, tu)
      BY <1>1, <3>1 DEF At, SameTurns
    <3> QED BY <1>6, <2>2, <3>1, <3>2 DEF Ready
  <2> QED BY <1>4, <2>1, <2>2
<1> QED BY <1>3, <1>7, <1>8 DEF ChainKept, q

LEMMA TicketsNumbered ==
    ASSUME TurnsAssumption, NEW w \in Seq(Threads \X Planes), NEW tu, TurnsTyped(tu), NEW s, NEW i,
           QueueKept(w, tu, s, i), NEW ch, ch \in [Threads -> Chunks \cup {NoChunk}]
    PROVE  /\ Numbered(w, tu, ch)
           /\ \A n \in 1 .. Len(w) : /\ w[n] = <<w[n][1], w[n][2]>> /\ w[n][1] \in Threads /\ w[n][2] \in Planes
                                     /\ tu[w[n][1]][w[n][2]].on
<1>1. \A n \in 1 .. Len(w) : w[n] \in Threads \X Planes
  BY ElementOfSeq
<1>2. \A n \in 1 .. Len(w) : w[n] = <<w[n][1], w[n][2]>> /\ w[n][1] \in Threads /\ w[n][2] \in Planes
  BY <1>1
<1>3. \A n \in 1 .. Len(w) : tu[w[n][1]][w[n][2]].on
  BY DEF QueueKept
<1>4. Numbered(w, tu, ch)
  <2> SUFFICES ASSUME NEW n \in 1 .. Len(w)
               PROVE  At(w, n, tu).chain \in Int /\ ch[w[n][1]] \in Int
    BY DEF Numbered
  <2>1. PICK u \in Threads, q \in Planes : u = w[n][1] /\ q = w[n][2]
    BY <1>2
  <2>2. tu[u][q].on /\ tu[u][q] \in TurnSet
    BY <1>3, <2>1 DEF TurnsTyped
  <2>3. tu[u][q].chain \in Nat
    BY <2>2 DEF TurnSet
  <2>4. Chunks \subseteq Int /\ NoChunk \in Int
    BY DEF TurnsAssumption, NoChunk
  <2>5. ch[u] \in Int
    BY <2>4
  <2> QED BY <2>1, <2>3, <2>5 DEF At
<1> QED BY <1>2, <1>3, <1>4

LEMMA PlanOneChains ==
    ASSUME TurnsAssumption, TurnsTyped(turns), NEW t \in Threads, NEW first \in Planes, NEW n \in Nat,
           NEW ch \in [Threads -> Chunks \cup {NoChunk}], NEW c \in Nat, ch[t] = c,
           NEW rec, PlannedWell(rec, t, first, n), first + n \in Planes,
           NEW step, Chains(rec.state, TurnsWith(t, rec.turns), ch, step)
    PROVE  Chains(PlanOne(rec, t, first + n, c).state, TurnsWith(t, PlanOne(rec, t, first + n, c).turns), ch, step)
<1> DEFINE p == first + n
           turn == TurnOf(rec.state, p, c)
           own == [rec.turns EXCEPT ![p] = turn]
           tu == TurnsWith(t, rec.turns)
           more == TurnsWith(t, own)
           new == Ticket(rec.state, t, p, turn, c)
<1>1. PlanOne(rec, t, p, c).turns = own /\ PlanOne(rec, t, p, c).state = new
  BY DEF PlanOne
<1>2. StatesTyped(rec.state) /\ rec.turns \in [Planes -> TurnSet] /\ Tickets(rec.state, tu) /\ ~rec.turns[p].on
  <2>1. Planes \subseteq Nat
    BY FS_CardinalityType DEF TurnsAssumption
  <2>2. ~(first <= p /\ p < first + n)
    BY <2>1
  <2> HIDE DEF p
  <2> QED BY <2>2 DEF PlannedWell, p
<1>3. /\ turn \in TurnSet /\ turn.on /\ ~turn.entered /\ turn.slot \in Slots
      /\ turn.carry => turn.slot \in Followers(rec.state, p, c) /\ turn.chain = rec.state[turn.slot][StateOf(p)].chain
      /\ ~turn.carry => turn.chain = rec.state[turn.slot][StateOf(p)].chain + 1
  BY <1>2, TurnOfFacts
<1> HIDE DEF turn
<1>4. turn.chain \in Nat /\ StateOf(p) \in States
  BY <1>3, GroupFacts DEF TurnSet
<1>5. own \in [Planes -> TurnSet] /\ own[p] = turn /\ \A q \in Planes : q # p => own[q] = rec.turns[q]
  BY <1>2, <1>3
<1> HIDE DEF own
<1>6. /\ TurnsTyped(tu) /\ tu[t] = rec.turns /\ \A u \in Threads : u # t => tu[u] = turns[u]
      /\ more[t] = own /\ \A u \in Threads : u # t => more[u] = turns[u]
  BY <1>2, <1>5, TurnsWithFacts
<1> HIDE DEF tu, more
<1>7. \A s \in Slots, i \in States :
          new[s][i] = IF s = turn.slot /\ i = StateOf(p) THEN Queued(rec.state[s][i], t, p, turn, c) ELSE rec.state[s][i]
  BY <1>2, <1>3, TicketFacts
<1> HIDE DEF new
<1>8. ASSUME NEW s \in Slots, NEW i \in States
      PROVE  ChainKept(new[s][i], more, ch, step)
  <2>1. PICK r : r = rec.state[s][i]
    OBVIOUS
  <2>2. PICK w : w = r.waiting
    OBVIOUS
  <2>3. r \in RollStates /\ w \in Seq(Threads \X Planes)
    BY <1>2, <2>1, <2>2 DEF StatesTyped, RollStates
  <2>4. ChainKept(r, tu, ch, step)
    BY <2>1 DEF Chains, tu
  <2>5. QueueKept(w, tu, s, i)
    BY <1>2, <2>1, <2>2 DEF Tickets
  <2>6. /\ Numbered(w, tu, ch)
        /\ \A m \in 1 .. Len(w) : /\ w[m] = <<w[m][1], w[m][2]>> /\ w[m][1] \in Threads /\ w[m][2] \in Planes
                                  /\ tu[w[m][1]][w[m][2]].on
    BY <1>6, <2>3, <2>5, TicketsNumbered
  <2>7. SameTurns(w, more, tu)
    <3> SUFFICES ASSUME NEW m \in 1 .. Len(w)
                 PROVE  more[w[m][1]][w[m][2]] = tu[w[m][1]][w[m][2]]
      BY DEF SameTurns
    <3>1. PICK u \in Threads, q \in Planes : u = w[m][1] /\ q = w[m][2] /\ tu[u][q].on
      BY <2>6
    <3>2. u # t \/ q # p
      BY <1>2, <1>6, <3>1
    <3> QED BY <1>5, <1>6, <3>1, <3>2
  <2>8. CASE s = turn.slot /\ i = StateOf(p)
    <3>1. new[s][i] = Queued(r, t, p, turn, c)
      BY <1>7, <2>1, <2>8
    <3>2. turn.carry => r.plane = p /\ r.next = c /\ r.failed # r.chain /\ turn.chain = r.chain
      BY <1>3, <2>1, <2>8 DEF Followers
    <3>3. ~turn.carry => turn.chain = r.chain + 1
      BY <1>3, <2>1, <2>8
    <3>4. more[t][p] = turn
      BY <1>5, <1>6
    <3> HIDE DEF p
    <3>5. ChainKept(Queued(r, t, p, turn, c), more, ch, step)
      BY <1>3, <1>4, <2>2, <2>3, <2>4, <2>6, <2>7, <3>2, <3>3, <3>4, QueuedChain DEF p
    <3> QED BY <3>1, <3>5
  <2>9. CASE ~(s = turn.slot /\ i = StateOf(p))
    <3>1. new[s][i] = r
      BY <1>7, <2>1, <2>9
    <3>2. ChainKept(r, more, ch, step)
      BY <2>2, <2>3, <2>4, <2>7, SameQueue
    <3> QED BY <3>1, <3>2
  <2> QED BY <2>8, <2>9
<1>9. Chains(new, more, ch, step)
  BY <1>8 DEF Chains
<1> HIDE DEF p
<1> QED BY <1>1, <1>9 DEF more, p

LEMMA PlanChains ==
    ASSUME TurnsAssumption, IInv, CInv, NEW t \in Threads, Plan(t)
    PROVE  CInv'
<1> DEFINE first == plane[t]
           k == Cardinality(Group(first))
           c == chunk[t]
<1>1. /\ first \in Planes /\ c \in Chunks /\ c \in Nat /\ (together => first = 0)
      /\ \A p \in Planes : ~turns[t][p].on
      /\ k \in Nat
  BY PlanFacts
<1>2. PICK step : /\ PlansUp(step, t, first, c, k)
                  /\ state' = step[k].state /\ turns' = TurnsWith(t, step[k].turns)
  BY PlanFacts
<1>3. /\ pc' = [pc EXCEPT ![t] = "enter"] /\ UNCHANGED <<together, chunk>>
      /\ pc \in [Threads -> Steps] /\ chunk \in [Threads -> Chunks \cup {NoChunk}]
      /\ TypeOK /\ Tickets(state, turns) /\ TurnsTyped(turns)
  BY DEF Plan, IInv, TypeOK
<1>4. k = Cardinality(Group(first))
  OBVIOUS
<1> HIDE DEF k, first, c
<1>5. /\ \A n \in 0 .. k : PlannedWell(step[n], t, first, n)
      /\ \A n \in 0 .. k - 1 : first + n \in Planes /\ step[n + 1] = PlanOne(step[n], t, first + n, c)
  BY <1>1, <1>2, <1>3, <1>4, PlansWell
<1> DEFINE Good(n) == Chains(step[n].state, TurnsWith(t, step[n].turns), chunk, pc')
           good == {n \in Nat : n \in 0 .. k => Good(n)}
<1>6. 0 \in good
  <2>1. ASSUME NEW s \in Slots, NEW i \in States
        PROVE  ChainKept(state[s][i], turns, chunk, pc')
    <3>1. PICK w : w = state[s][i].waiting
      OBVIOUS
    <3>2. Owned(w, s, i)
      BY <3>1, QueueFacts
    <3>3. \A n \in 1 .. Len(w) : w[n][1] \in Threads /\ w[n][1] # t
      BY <1>1, <3>2 DEF Owned
    <3>4. Unmoved(w, turns, chunk, pc')
      BY <1>3, <3>3 DEF Unmoved
    <3> QED BY <3>1, <3>4, UnmovedKeeps
  <2>2. Chains(state, turns, chunk, pc')
    BY <2>1 DEF Chains
  <2>3. step[0] = [turns |-> turns[t], state |-> state]
    BY <1>1, <1>2 DEF PlansUp
  <2>4. TurnsWith(t, turns[t]) = turns
    BY <1>3 DEF TurnsTyped, TurnsWith
  <2>5. Good(0)
    BY <2>2, <2>3, <2>4
  <2> QED BY <2>5
<1>7. ASSUME NEW n \in Nat, n \in good
      PROVE  n + 1 \in good
  <2> SUFFICES ASSUME n + 1 \in 0 .. k
               PROVE  Good(n + 1)
    OBVIOUS
  <2>1. n \in 0 .. k - 1 /\ n \in 0 .. k
    BY <1>1
  <2>2. Chains(step[n].state, TurnsWith(t, step[n].turns), chunk, pc')
    BY <1>7, <2>1
  <2>3. /\ PlannedWell(step[n], t, first, n) /\ first + n \in Planes
        /\ step[n + 1] = PlanOne(step[n], t, first + n, c)
    BY <1>5, <2>1
  <2>4. chunk[t] = c
    BY DEF c
  <2>5. PICK rec, next : rec = step[n] /\ next = pc'
    OBVIOUS
  <2>6. Chains(PlanOne(rec, t, first + n, c).state, TurnsWith(t, PlanOne(rec, t, first + n, c).turns), chunk, next)
    BY <1>1, <1>3, <2>2, <2>3, <2>4, <2>5, PlanOneChains
  <2> QED BY <2>3, <2>5, <2>6
<1>8. k \in good
  <2> HIDE DEF good
  <2> QED BY <1>1, <1>6, <1>7, NaturalsInSet
<1>9. Chains(state', turns', chunk', pc')
  BY <1>1, <1>2, <1>3, <1>8
<1> HIDE DEF Good, good
<1>10. \A s \in Slots, i \in States : ChainKept(state'[s][i], turns', chunk', pc')
  BY <1>9 DEF Chains
<1> QED BY <1>3, <1>10, NextChains

LEMMA InitChains ==
    ASSUME TurnsAssumption, Init
    PROVE  CInv
<1>1. ASSUME NEW s \in Slots, NEW i \in States
      PROVE  ChainKept(state[s][i], turns, chunk, pc)
  <2>1. /\ state[s][i].waiting = <<>> /\ state[s][i].chain = 0 /\ state[s][i].failed = -1
        /\ state[s][i].next = NoChunk
    BY DEF Init
  <2>2. Len(<<>>) = 0
    OBVIOUS
  <2>3. PICK w : w = state[s][i].waiting /\ Len(w) = 0
    BY <2>1, <2>2
  <2> QED BY <2>1, <2>3 DEF ChainKept, Linked, Ready
<1> QED BY <1>1 DEF CInv, Chains

LEMMA ChainsHold ==
    ASSUME TurnsAssumption
    PROVE  Spec => [](IInv /\ CInv)
<1>1. Init => CInv
  BY InitChains
<1>2. ASSUME IInv, CInv, [Next]_vars
      PROVE  CInv'
  <2>1. CASE UNCHANGED vars
    <3>1. UNCHANGED <<together, state, pc, chunk, turns>>
      BY <2>1 DEF vars
    <3>2. \A s \in Slots, i \in States : ChainKept(state'[s][i], turns', chunk', pc')
      BY <1>2, <3>1 DEF CInv, Chains
    <3> QED BY <3>1, <3>2, NextChains
  <2>2. CASE Next
    <3>1. PICK t \in Threads : (\E c \in Chunks : Begin(t, c)) \/ Run(t) \/ Throw(t)
      BY <2>2 DEF Next
    <3> QED BY <1>2, <3>1, BeginChains, PlanChains, EnterChains, QueueAndLeaveChains, SynchronizedChains,
               UnwindChains, ThrowStagingChains, ThrowWaitingChains, ThrowQueueingChains DEF Run, Throw
  <2> QED BY <1>2, <2>1, <2>2
<1> QED BY <1>1, <1>2, InvariantHolds, PTL DEF Spec

\* A chunk that carries on finds the state as its plan assumed, however many
\* chunks of its chain failed, were slow or went to other slots meanwhile:
\* RollTurn::RollTurn's choice of a follower and finish()'s failed chain.
THEOREM CarriesOnHolds ==
    ASSUME TurnsAssumption
    PROVE  Spec => []CarriesOnFromPrevious
<1>1. ASSUME IInv, CInv
      PROVE  CarriesOnFromPrevious
  <2> SUFFICES ASSUME NEW t \in Threads, pc[t] = "queue"
               PROVE  RollState(t).holds = <<plane[t], chunk[t]>>
    BY DEF CarriesOnFromPrevious
  <2> DEFINE p == plane[t]
             r == state[turns[t][p].slot][StateOf(p)]
  <2>1. p \in Planes /\ turns[t][p].on /\ turns[t][p].entered /\ RollState(t) = r
    BY OwnTurn, <1>1 DEF Turn
  <2>2. /\ turns[t][p].slot \in Slots /\ StateOf(p) \in States /\ r \in RollStates /\ r.waiting # <<>>
        /\ Head(r.waiting) = <<t, p>>
    <3>1. Entered(t, p)
      BY <2>1 DEF Entered
    <3>2. Head(r.waiting) = <<t, p>>
      BY <1>1, <2>1, <3>1 DEF IInv, SlotsKept
    <3> QED BY <1>1, <2>1, <3>2, OnFacts
  <2>3. PICK w : w = r.waiting
    OBVIOUS
  <2>4. Ready(w, r.chain, r.failed, r.plane, r.next, r.holds, turns, chunk, pc)
    BY <1>1, <2>2, <2>3 DEF CInv, Chains, ChainKept
  <2>5. w[1] = <<t, p>> /\ Len(w) > 0
    <3>1. w \in Seq(Threads \X Planes)
      <4> HIDE DEF r
      <4> QED BY <2>2, <2>3 DEF RollStates
    <3>2. w # <<>> /\ Head(w) = <<t, p>>
      BY <2>2, <2>3
    <3>3. Head(w) = w[1] /\ Len(w) \in Nat \ {0}
      BY <3>1, <3>2, HeadIsFirst
    <3> QED BY <3>2, <3>3
  <2>6. At(w, 1, turns).entered /\ w[1][1] = t /\ w[1][2] = p
    BY <2>1, <2>5 DEF At
  <2> HIDE DEF r
  <2>7. r.holds = <<p, chunk[t]>>
    BY <2>4, <2>5, <2>6 DEF Ready
  <2> QED BY <2>1, <2>7
<1> QED BY <1>1, ChainsHold, PTL

-----------------------------------------------------------------------------
(* The order in which chunks were planned: somebody is at turn.            *)

\* In a queue, the threads stand in the order of rank.
InRank(w, rank) == \A m, n \in 1 .. Len(w) : m < n => w[m][1] = w[n][1] \/ rank[w[m][1]] < rank[w[n][1]]

QueuesInRank(st, rank) == \A s \in Slots, i \in States : InRank(st[s][i].waiting, rank)

\* rank is a place for each thread, the last ones planned behind the others.
Ranking(rank, last) == rank \in [Threads -> Nat] /\ last \in Nat /\ \A t \in Threads : rank[t] <= last

\* All queues stand in one order of the threads.
OneOrder == \E last \in Nat, rank \in [Threads -> Nat] : Ranking(rank, last) /\ QueuesInRank(state, rank)

\* A thread that has entered a turn is through with those before it.
EnteredFirst(tu) ==
    \A t \in Threads, p, q \in Planes : tu[t][p].on /\ tu[t][p].entered /\ q < p => ~tu[t][q].on

OInv == OneOrder /\ EnteredFirst(turns)

LEMMA TailInRank ==
    ASSUME NEW w \in Seq(Threads \X Planes), w # <<>>, NEW rank, InRank(w, rank)
    PROVE  InRank(Tail(w), rank)
<1>1. /\ Len(w) \in Nat \ {0} /\ Len(Tail(w)) = Len(w) - 1
      /\ \A n \in 1 .. Len(Tail(w)) : Tail(w)[n] = w[n + 1]
  BY HeadTailProperties, LenProperties, EmptySeq
<1>2. ASSUME NEW m \in 1 .. Len(Tail(w)), NEW n \in 1 .. Len(Tail(w)), m < n
      PROVE  /\ m + 1 \in 1 .. Len(w) /\ n + 1 \in 1 .. Len(w) /\ m + 1 < n + 1
             /\ Tail(w)[m] = w[m + 1] /\ Tail(w)[n] = w[n + 1]
  BY <1>1, <1>2
<1> QED BY <1>2 DEF InRank

LEMMA AppendInRank ==
    ASSUME NEW w \in Seq(Threads \X Planes), NEW rank, InRank(w, rank), NEW t \in Threads, NEW p \in Planes,
           \A u \in Threads : u # t => rank[u] < rank[t]
    PROVE  InRank(Append(w, <<t, p>>), rank)
<1> DEFINE x == Append(w, <<t, p>>)
<1>1. /\ Len(w) \in Nat /\ Len(x) = Len(w) + 1 /\ x[Len(w) + 1] = <<t, p>>
      /\ \A n \in 1 .. Len(w) : x[n] = w[n]
  <2>1. <<t, p>> \in Threads \X Planes
    OBVIOUS
  <2> QED BY <2>1, AppendProperties, LenProperties
<1>2. \A n \in 1 .. Len(w) : w[n][1] \in Threads
  <2>1. \A n \in 1 .. Len(w) : w[n] \in Threads \X Planes
    BY ElementOfSeq
  <2> QED BY <2>1
<1> HIDE DEF x
<1>3. ASSUME NEW m \in 1 .. Len(x), NEW n \in 1 .. Len(x), m < n
      PROVE  x[m][1] = x[n][1] \/ rank[x[m][1]] < rank[x[n][1]]
  <2>1. m \in 1 .. Len(w) /\ x[m] = w[m]
    BY <1>1, <1>3
  <2>2. CASE n \in 1 .. Len(w)
    <3>1. x[n] = w[n]
      BY <1>1, <2>2
    <3> QED BY <1>3, <2>1, <2>2, <3>1 DEF InRank
  <2>3. CASE n = Len(w) + 1
    <3>1. x[n][1] = t
      BY <1>1, <2>3
    <3>2. x[m][1] \in Threads
      BY <1>2, <2>1
    <3> QED BY <3>1, <3>2
  <2> QED BY <1>1, <2>2, <2>3
<1> QED BY <1>3 DEF InRank, x

\* Each queue stays or loses its head.
Served(new, st) ==
    \A s \in Slots, i \in States :
        \/ new[s][i].waiting = st[s][i].waiting
        \/ st[s][i].waiting # <<>> /\ new[s][i].waiting = Tail(st[s][i].waiting)

\* Turns end, and one may be entered when there is none before it.
Ended(more, tu) == \A t \in Threads, p \in Planes : more[t][p].on => tu[t][p].on /\ more[t][p].entered = tu[t][p].entered

LEMMA ServedInOrder ==
    ASSUME IInv, OneOrder, together' = together, Served(state', state)
    PROVE  OneOrder'
<1>1. PICK last \in Nat, rank \in [Threads -> Nat] : Ranking(rank, last) /\ QueuesInRank(state, rank)
  BY DEF OneOrder
<1>2. ASSUME NEW s \in Slots, NEW i \in States
      PROVE  InRank(state'[s][i].waiting, rank)
  <2>1. PICK w \in Seq(Threads \X Planes) : w = state[s][i].waiting
    BY DEF IInv, TypeOK, StatesTyped, RollStates
  <2>2. InRank(w, rank)
    BY <1>1, <2>1 DEF QueuesInRank
  <2>3. state'[s][i].waiting = w \/ (w # <<>> /\ state'[s][i].waiting = Tail(w))
    BY <2>1 DEF Served
  <2>4. w # <<>> => InRank(Tail(w), rank)
    BY <2>2, TailInRank
  <2> QED BY <2>2, <2>3, <2>4
<1>3. States' = States
  BY DEF States, StateOf
<1>4. QueuesInRank(state, rank)'
  BY <1>2, <1>3 DEF QueuesInRank
<1>5. Ranking(rank, last)'
  BY <1>1 DEF Ranking
<1> QED BY <1>4, <1>5 DEF OneOrder

LEMMA EndedFirst ==
    ASSUME EnteredFirst(turns), Ended(turns', turns)
    PROVE  EnteredFirst(turns)'
<1> SUFFICES ASSUME NEW t \in Threads, NEW p \in Planes, NEW q \in Planes,
                    turns'[t][p].on, turns'[t][p].entered, q < p
             PROVE  ~turns'[t][q].on
  BY DEF EnteredFirst
<1>1. turns[t][p].on /\ turns[t][p].entered
  BY DEF Ended
<1>2. ~turns[t][q].on
  BY <1>1 DEF EnteredFirst
<1> QED BY <1>2 DEF Ended

\* The steps that move neither a ticket nor a turn.
LEMMA StillOrder ==
    ASSUME IInv, OInv, UNCHANGED <<together, turns>>,
           \A s \in Slots, i \in States : state'[s][i].waiting = state[s][i].waiting
    PROVE  OInv'
<1>1. Served(state', state) /\ Ended(turns', turns)
  BY DEF Served, Ended
<1> QED BY <1>1, ServedInOrder, EndedFirst DEF OInv

LEMMA ThrowQueueingOrder ==
    ASSUME TurnsAssumption, IInv, OInv, NEW t \in Threads, ThrowQueueing(t)
    PROVE  OInv'
<1>1. pc[t] = "queue" /\ UNCHANGED <<together, turns>>
  BY DEF ThrowQueueing
<1>2. plane[t] \in Planes /\ Turn(t).on /\ Turn(t) = turns[t][plane[t]]
  BY <1>1, OwnTurn
<1> DEFINE s == Turn(t).slot
           i == StateOf(plane[t])
<1>3. s \in Slots /\ i \in States
  BY <1>2, OnFacts
<1>4. state' = [state EXCEPT ![s][i].holds = <<plane[t], NoChunk>>]
  BY DEF ThrowQueueing
<1> HIDE DEF s, i
<1>5. StatesTyped(state)
  BY DEF IInv, TypeOK
<1>6. \A u \in Slots, j \in States : state'[u][j].waiting = state[u][j].waiting
  BY <1>3, <1>4, <1>5 DEF StatesTyped, RollStates
<1> QED BY <1>1, <1>6, StillOrder

LEMMA EnterOrder ==
    ASSUME TurnsAssumption, IInv, OInv, NEW t \in Threads, Enter(t)
    PROVE  OInv'
<1>1. pc[t] = "enter" /\ together' = together /\ turns' = [turns EXCEPT ![t][plane[t]].entered = TRUE]
  BY DEF Enter
<1>2. plane[t] \in Planes /\ Turn(t).on /\ Turn(t) = turns[t][plane[t]]
  BY <1>1, OwnTurn
<1> DEFINE s == Turn(t).slot
           i == StateOf(plane[t])
<1>3. s \in Slots /\ i \in States
  BY <1>2, OnFacts
<1>4. state' = state \/ state' = [state EXCEPT ![s][i].holds = <<plane[t], chunk[t]>>]
  BY DEF Enter
<1> HIDE DEF s, i
<1>5. StatesTyped(state) /\ TurnsTyped(turns)
  BY DEF IInv, TypeOK
<1>6. \A u \in Slots, j \in States : state'[u][j].waiting = state[u][j].waiting
  <2>1. CASE state' = state
    BY <2>1
  <2>2. CASE state' = [state EXCEPT ![s][i].holds = <<plane[t], chunk[t]>>]
    BY <1>3, <1>5, <2>2 DEF StatesTyped, RollStates
  <2> QED BY <1>4, <2>1, <2>2
<1>7. OneOrder'
  BY <1>1, <1>6, ServedInOrder DEF Served, OInv
<1>8. /\ \A u \in Threads, q \in Planes : u # t \/ q # plane[t] => turns'[u][q] = turns[u][q]
      /\ turns'[t][plane[t]].on = turns[t][plane[t]].on
  <2>1. turns[t][plane[t]] \in [on : {TRUE}, slot : Slots, carry : BOOLEAN, chain : Nat, entered : BOOLEAN]
    BY <1>2, OnFacts
  <2> QED BY <1>1, <1>2, <1>5, <2>1 DEF TurnsTyped
<1>9. ASSUME NEW u \in Threads, NEW p \in Planes, NEW q \in Planes,
             turns'[u][p].on, turns'[u][p].entered, q < p
      PROVE  ~turns'[u][q].on
  <2>1. CASE u = t /\ p = plane[t]
    <3>1. Planes \subseteq Nat
      BY FS_CardinalityType DEF TurnsAssumption
    <3>2. ~turns[t][q].on
      BY <1>1, <1>2, <1>9, <2>1, <3>1 DEF IInv, TurnsAtSteps, AtStep
    <3>3. q # plane[t]
      BY <1>9, <2>1, <3>1
    <3> QED BY <1>8, <2>1, <3>2, <3>3
  <2>2. CASE u # t \/ p # plane[t]
    <3>1. turns[u][p].on /\ turns[u][p].entered
      BY <1>8, <1>9, <2>2
    <3>2. ~turns[u][q].on
      BY <1>9, <3>1 DEF OInv, EnteredFirst
    <3> QED BY <1>8, <3>2
  <2> QED BY <2>1, <2>2
<1> QED BY <1>7, <1>9 DEF OInv, EnteredFirst

\* The head of a queue leaves it and its turn ends.
LEMMA LeftOrder ==
    ASSUME TurnsAssumption, IInv, OInv, together' = together, NEW t \in Threads, NEW p \in Planes, turns[t][p].on,
           turns' = TurnsEnded(t, p), NEW left, left.waiting = Tail(state[turns[t][p].slot][StateOf(p)].waiting),
           state' = Replaced(turns[t][p].slot, StateOf(p), left)
    PROVE  OInv'
<1> DEFINE s == turns[t][p].slot
           i == StateOf(p)
<1>1. s \in Slots /\ i \in States /\ state[s][i].waiting # <<>> /\ StatesTyped(state)
  BY OnFacts DEF IInv, TypeOK
<1>2. state' = [state EXCEPT ![s][i] = left] /\ left.waiting = Tail(state[s][i].waiting)
  BY DEF Replaced
<1> HIDE DEF s, i
<1>3. \A u \in Slots, j \in States : state'[u][j] = IF u = s /\ j = i THEN left ELSE state[u][j]
  BY <1>1, <1>2 DEF StatesTyped
<1>4. Served(state', state)
  BY <1>1, <1>2, <1>3 DEF Served
<1>5. Ended(turns', turns)
  BY EndedFacts DEF Ended
<1> QED BY <1>4, <1>5, ServedInOrder, EndedFirst DEF OInv

LEMMA QueueAndLeaveOrder ==
    ASSUME TurnsAssumption, IInv, OInv, NEW t \in Threads, QueueAndLeave(t)
    PROVE  OInv'
<1> DEFINE p == plane[t]
           turn == turns[t][p]
           r == state[turn.slot][StateOf(p)]
           done == Finished(r, turn, FALSE)
           held == IF done.holds = <<p, chunk[t]>> THEN <<p, chunk[t] + 1>> ELSE <<p, NoChunk>>
           left == Left(r, t)
<1>1. /\ pc[t] = "queue" /\ together' = together
      /\ state' = Replaced(turn.slot, StateOf(p), left) /\ turns' = TurnsEnded(t, p)
  BY DEF QueueAndLeave, Turn, Replaced, TurnsEnded
<1>2. p \in Planes /\ turn.on
  BY <1>1, OwnTurn DEF Turn
<1>3. r \in RollStates /\ r.waiting # <<>> /\ turn.chain \in Nat
  BY <1>2, OnFacts
<1>4. left = [done EXCEPT !.holds = held]
  BY DEF Left, Turn
<1> HIDE DEF r, turn, held
<1>5. done \in RollStates /\ done.waiting = Tail(r.waiting)
  <2>1. FALSE \in BOOLEAN
    OBVIOUS
  <2> QED BY <1>3, <2>1, FinishedFacts
<1> HIDE DEF done, left
<1>6. left.waiting = Tail(r.waiting)
  BY <1>4, <1>5 DEF RollStates
<1> QED BY <1>1, <1>2, <1>6, LeftOrder DEF r, turn

LEMMA UnwindOrder ==
    ASSUME TurnsAssumption, IInv, OInv, NEW t \in Threads, Unwind(t)
    PROVE  OInv'
<1> DEFINE p == plane[t]
           turn == turns[t][p]
           r == state[turn.slot][StateOf(p)]
           done == Finished(r, turn, TRUE)
<1>1. /\ together' = together
      /\ \/ /\ turn.on
            /\ state' = Replaced(turn.slot, StateOf(p), done) /\ turns' = TurnsEnded(t, p)
         \/ UNCHANGED <<state, turns>>
  BY DEF Unwind, Turn, Replaced, TurnsEnded
<1>2. p \in Planes
  BY DEF IInv, TypeOK
<1>3. CASE UNCHANGED <<state, turns>>
  BY <1>1, <1>3, StillOrder
<1>4. CASE turn.on /\ state' = Replaced(turn.slot, StateOf(p), done) /\ turns' = TurnsEnded(t, p)
  <2>1. r \in RollStates /\ r.waiting # <<>> /\ turn.chain \in Nat
    BY <1>2, <1>4, OnFacts
  <2> HIDE DEF r, turn
  <2>2. done.waiting = Tail(r.waiting)
    <3>1. TRUE \in BOOLEAN
      OBVIOUS
    <3> QED BY <2>1, <3>1, FinishedFacts
  <2> HIDE DEF done
  <2> QED BY <1>1, <1>2, <1>4, <2>2, LeftOrder DEF r, turn
<1> QED BY <1>1, <1>3, <1>4

\* The plans of a group put its tickets behind all others.
LEMMA PlanOneInRank ==
    ASSUME TurnsAssumption, NEW rec, StatesTyped(rec.state), NEW rank, QueuesInRank(rec.state, rank),
           NEW t \in Threads, NEW p \in Planes, NEW c \in Nat, \A u \in Threads : u # t => rank[u] < rank[t]
    PROVE  QueuesInRank(PlanOne(rec, t, p, c).state, rank)
<1> DEFINE turn == TurnOf(rec.state, p, c)
           st == rec.state
           new == Ticket(st, t, p, turn, c)
<1>1. turn \in TurnSet /\ turn.on
  BY TurnOfFacts
<1>2. PlanOne(rec, t, p, c).state = new
  BY DEF PlanOne
<1> HIDE DEF turn
<1>3. \A s \in Slots, i \in States :
          new[s][i] = IF s = turn.slot /\ i = StateOf(p) THEN Queued(st[s][i], t, p, turn, c) ELSE st[s][i]
  BY <1>1, TicketFacts
<1> HIDE DEF new
<1>4. ASSUME NEW s \in Slots, NEW i \in States
      PROVE  InRank(new[s][i].waiting, rank)
  <2>1. PICK r \in RollStates : r = st[s][i]
    BY DEF StatesTyped
  <2>2. PICK w \in Seq(Threads \X Planes) : w = r.waiting
    BY DEF RollStates
  <2>3. InRank(w, rank)
    BY <2>1, <2>2 DEF QueuesInRank
  <2>4. InRank(Append(w, <<t, p>>), rank)
    BY <2>3, AppendInRank
  <2>5. new[s][i].waiting \in {w, Append(w, <<t, p>>)}
    <3>1. Queued(r, t, p, turn, c).waiting = Append(w, <<t, p>>)
      BY <2>2, QueuedFacts
    <3>2. CASE s = turn.slot /\ i = StateOf(p)
      BY <1>3, <2>1, <3>1, <3>2
    <3>3. CASE ~(s = turn.slot /\ i = StateOf(p))
      BY <1>3, <2>1, <2>2, <3>3
    <3> QED BY <3>2, <3>3
  <2> QED BY <2>3, <2>4, <2>5
<1> QED BY <1>2, <1>4 DEF QueuesInRank

LEMMA PlanOrder ==
    ASSUME TurnsAssumption, IInv, OInv, NEW t \in Threads, Plan(t)
    PROVE  OInv'
<1> DEFINE first == plane[t]
           k == Cardinality(Group(first))
           c == chunk[t]
<1>1. /\ first \in Planes /\ c \in Chunks /\ c \in Nat /\ (together => first = 0)
      /\ \A p \in Planes : ~turns[t][p].on
      /\ k \in Nat
  BY PlanFacts
<1>2. PICK step : /\ PlansUp(step, t, first, c, k)
                  /\ state' = step[k].state /\ turns' = TurnsWith(t, step[k].turns)
  BY PlanFacts
<1>3. together' = together /\ TypeOK /\ Tickets(state, turns) /\ TurnsTyped(turns)
  BY DEF Plan, IInv, TypeOK
<1>4. k = Cardinality(Group(first))
  OBVIOUS
<1> HIDE DEF k, first, c
<1>5. /\ \A n \in 0 .. k : PlannedWell(step[n], t, first, n)
      /\ \A n \in 0 .. k - 1 : first + n \in Planes /\ step[n + 1] = PlanOne(step[n], t, first + n, c)
  BY <1>1, <1>2, <1>3, <1>4, PlansWell
<1>6. PICK last \in Nat, old \in [Threads -> Nat] : Ranking(old, last) /\ QueuesInRank(state, old)
  BY DEF OInv, OneOrder
<1>7. PICK rank \in [Threads -> Nat] : rank[t] = last + 1 /\ \A u \in Threads : u # t => rank[u] = old[u]
  <2> DEFINE behind == [u \in Threads |-> IF u = t THEN last + 1 ELSE old[u]]
  <2>1. behind \in [Threads -> Nat] /\ behind[t] = last + 1 /\ \A u \in Threads : u # t => behind[u] = old[u]
    BY <1>6
  <2> QED BY <2>1
<1>8. /\ \A u \in Threads : u # t => rank[u] = old[u] /\ rank[u] < rank[t]
      /\ Ranking(rank, last + 1)
  BY <1>6, <1>7 DEF Ranking
<1> DEFINE good == {n \in Nat : n \in 0 .. k => QueuesInRank(step[n].state, rank)}
<1>9. 0 \in good
  <2>1. ASSUME NEW s \in Slots, NEW i \in States
        PROVE  InRank(state[s][i].waiting, rank)
    <3>1. PICK w \in Seq(Threads \X Planes) : w = state[s][i].waiting
      BY DEF IInv, TypeOK, StatesTyped, RollStates
    <3>2. QueueKept(w, turns, s, i) /\ InRank(w, old)
      BY <1>6, <3>1 DEF IInv, Tickets, QueuesInRank
    <3>3. \A n \in 1 .. Len(w) : w[n][1] \in Threads /\ w[n][2] \in Planes
      <4>1. \A n \in 1 .. Len(w) : w[n] \in Threads \X Planes
        BY ElementOfSeq
      <4> QED BY <4>1
    <3>4. \A n \in 1 .. Len(w) : w[n][1] \in Threads /\ w[n][1] # t
      BY <1>1, <3>2, <3>3 DEF QueueKept
    <3> QED BY <1>8, <3>1, <3>2, <3>4 DEF InRank
  <2>2. step[0] = [turns |-> turns[t], state |-> state]
    BY <1>1, <1>2 DEF PlansUp
  <2> QED BY <2>1, <2>2 DEF QueuesInRank
<1>10. ASSUME NEW n \in Nat, n \in good
       PROVE  n + 1 \in good
  <2> SUFFICES ASSUME n + 1 \in 0 .. k
               PROVE  QueuesInRank(step[n + 1].state, rank)
    OBVIOUS
  <2>1. n \in 0 .. k - 1 /\ n \in 0 .. k
    BY <1>1
  <2>2. QueuesInRank(step[n].state, rank)
    BY <1>10, <2>1
  <2>3. /\ StatesTyped(step[n].state) /\ first + n \in Planes
        /\ step[n + 1] = PlanOne(step[n], t, first + n, c)
    BY <1>5, <2>1 DEF PlannedWell
  <2> QED BY <1>1, <1>8, <2>2, <2>3, PlanOneInRank
<1>11. k \in good
  <2> HIDE DEF good
  <2> QED BY <1>1, <1>9, <1>10, NaturalsInSet
<1>12. QueuesInRank(state', rank)
  BY <1>1, <1>2, <1>11
<1>13. OneOrder'
  <2>1. States' = States
    BY <1>3 DEF States, StateOf
  <2>2. QueuesInRank(state, rank)'
    BY <1>12, <2>1 DEF QueuesInRank
  <2>3. Ranking(rank, last + 1)' /\ last + 1 \in Nat
    BY <1>6, <1>8 DEF Ranking
  <2> QED BY <2>2, <2>3 DEF OneOrder
<1>14. EnteredFirst(turns)'
  <2>1. PlannedWell(step[k], t, first, k)
    BY <1>1, <1>5
  <2> DEFINE own == step[k].turns
  <2>2. own \in [Planes -> TurnSet] /\ \A p \in Planes : own[p].on => ~own[p].entered
    BY <2>1 DEF PlannedWell
  <2>3. turns'[t] = own /\ \A u \in Threads : u # t => turns'[u] = turns[u]
    BY <1>2, <1>3, <2>2, TurnsWithFacts
  <2> HIDE DEF own
  <2> SUFFICES ASSUME NEW u \in Threads, NEW p \in Planes, NEW q \in Planes,
                      turns'[u][p].on, turns'[u][p].entered, q < p
               PROVE  ~turns'[u][q].on
    BY DEF EnteredFirst
  <2>4. u # t
    BY <2>2, <2>3
  <2> QED BY <2>3, <2>4 DEF OInv, EnteredFirst
<1> QED BY <1>13, <1>14 DEF OInv

LEMMA InitOrder ==
    ASSUME TurnsAssumption, Init
    PROVE  OInv
<1> DEFINE rank == [t \in Threads |-> 0]
<1>1. Ranking(rank, 0) /\ rank \in [Threads -> Nat]
  BY DEF Ranking
<1>2. ASSUME NEW s \in Slots, NEW i \in States
      PROVE  InRank(state[s][i].waiting, rank)
  <2>1. state[s][i].waiting = <<>> /\ Len(<<>>) = 0
    BY DEF Init
  <2> QED BY <2>1 DEF InRank
<1>3. EnteredFirst(turns)
  BY DEF Init, EnteredFirst, NoTurn
<1> HIDE DEF rank
<1> QED BY <1>1, <1>2, <1>3 DEF OInv, OneOrder, QueuesInRank

LEMMA OrderHolds ==
    ASSUME TurnsAssumption
    PROVE  Spec => [](IInv /\ OInv)
<1>1. Init => OInv
  BY InitOrder
<1>2. ASSUME IInv, OInv, [Next]_vars
      PROVE  OInv'
  <2>1. CASE UNCHANGED vars
    <3>1. UNCHANGED <<together, state, turns>>
      BY <2>1 DEF vars
    <3> QED BY <1>2, <3>1, StillOrder
  <2>2. CASE Next
    <3>1. PICK t \in Threads : (\E c \in Chunks : Begin(t, c)) \/ Run(t) \/ Throw(t)
      BY <2>2 DEF Next
    <3>2. CASE (\E c \in Chunks : Begin(t, c)) \/ Synchronized(t) \/ ThrowStaging(t) \/ ThrowWaiting(t)
      <4>1. UNCHANGED <<together, state, turns>>
        BY <3>2 DEF Begin, Synchronized, ThrowStaging, ThrowWaiting
      <4> QED BY <1>2, <4>1, StillOrder
    <3> QED BY <1>2, <3>1, <3>2, PlanOrder, EnterOrder, QueueAndLeaveOrder, UnwindOrder, ThrowQueueingOrder
            DEF Run, Throw
  <2> QED BY <1>2, <2>1, <2>2
<1> QED BY <1>1, <1>2, InvariantHolds, PTL DEF Spec

\* A slot in use is in use by a thread that can go on.
LEMMA UserRuns ==
    ASSUME TurnsAssumption, IInv, OInv, NEW s \in Slots, in_use[s]
    PROVE  \E t \in Threads : CanRun(t)
<1>1. PICK t \in Threads, p \in Planes : Entered(t, p) /\ turns[t][p].slot = s
  BY DEF IInv, SlotsKept
<1>2. pc[t] \in {"queue", "unwind"} /\ p >= plane[t]
  BY <1>1 DEF Entered, IInv, TurnsAtSteps, AtStep
<1>3. pc[t] = "unwind" /\ Turn(t).on => Turn(t).entered
  <2>1. plane[t] \in Planes /\ plane[t] \in Nat /\ p \in Nat
    <3>1. Planes \subseteq Nat
      BY FS_CardinalityType DEF TurnsAssumption
    <3> QED BY <3>1 DEF IInv, TypeOK
  <2>2. Turn(t).on => ~(plane[t] < p)
    BY <1>1, <2>1 DEF Turn, Entered, OInv, EnteredFirst
  <2>3. Turn(t).on => p = plane[t]
    BY <1>2, <2>1, <2>2
  <2> QED BY <1>1, <2>3 DEF Entered, Turn
<1>4. CanRun(t)
  BY <1>2, <1>3 DEF CanRun, MayFinish
<1> QED BY <1>4

\* A thread that waits for its ticket stands behind one that was planned
\* before it and has not ended.
LEMMA BehindAnother ==
    ASSUME TurnsAssumption, IInv, NEW t \in Threads, Turn(t).on, ~AtTurn(t), NEW rank, QueuesInRank(state, rank)
    PROVE  \E u \in Threads : pc[u] # "idle" /\ rank[u] < rank[t]
<1> DEFINE p == plane[t]
           s == turns[t][p].slot
           i == StateOf(p)
<1>1. p \in Planes /\ turns[t][p].on
  BY DEF IInv, TypeOK, Turn
<1>2. /\ s \in Slots /\ i \in States /\ state[s][i].waiting # <<>>
      /\ Has(state[s][i].waiting, <<t, p>>) /\ state[s][i] \in RollStates
  BY <1>1, OnFacts
<1>3. PICK w \in Seq(Threads \X Planes) : w = state[s][i].waiting
  BY <1>2 DEF RollStates
<1>4. /\ Len(w) \in Nat \ {0} /\ Head(w) = w[1] /\ w # <<>>
      /\ \A n \in 1 .. Len(w) : w[n] \in Threads \X Planes
  <2>1. w # <<>>
    BY <1>2, <1>3
  <2>2. \A n \in 1 .. Len(w) : w[n] \in Threads \X Planes
    BY ElementOfSeq
  <2>3. Len(w) \in Nat \ {0} /\ Head(w) = w[1]
    BY <2>1, HeadTailProperties, LenProperties, EmptySeq
  <2> QED BY <2>1, <2>2, <2>3
<1>5. w[1] # <<t, p>>
  BY <1>3, <1>4 DEF AtTurn, RollState, Turn
<1>6. PICK n \in 1 .. Len(w) : w[n] = <<t, p>>
  BY <1>2, <1>3 DEF Has
<1>7. PICK u \in Threads, q \in Planes : w[1] = <<u, q>>
  BY <1>4
<1>8. turns[u][q].on /\ turns[u][q].slot = s /\ StateOf(q) = i
  <2>1. QueueKept(w, turns, s, i)
    BY <1>2, <1>3 DEF IInv, Tickets
  <2>2. 1 \in 1 .. Len(w) /\ w[1][1] = u /\ w[1][2] = q
    BY <1>4, <1>7
  <2> HIDE DEF s, i
  <2> QED BY <2>1, <2>2 DEF QueueKept
<1> HIDE DEF s
<1>9. u # t
  <2> SUFFICES ASSUME u = t PROVE FALSE
    OBVIOUS
  <2>1. q \in Group(p)
    BY <1>8 DEF IInv, TurnsAtSteps, AtStep
  <2>2. q = p
    <3>1. CASE together
      BY <1>8, <3>1 DEF StateOf
    <3>2. CASE ~together
      BY <2>1, <3>2 DEF Group
    <3> QED BY <3>1, <3>2
  <2> QED BY <1>5, <1>7, <2>2
<1>10. rank[u] < rank[t]
  <2>1. InRank(w, rank)
    BY <1>2, <1>3 DEF QueuesInRank
  <2>2. 1 \in 1 .. Len(w) /\ 1 < n /\ w[1][1] = u /\ w[n][1] = t
    BY <1>4, <1>5, <1>6, <1>7
  <2> QED BY <1>9, <2>1, <2>2 DEF InRank
<1>11. pc[u] # "idle"
  BY <1>8 DEF IInv, TurnsAtSteps, AtStep
<1> QED BY <1>10, <1>11

\* Threads that hold tickets of several slots and planes never wait for each
\* other in a circle, whatever fails: the tickets of a group are taken under
\* one lock (RollTurn::RollTurn, roll_mu), and the one planned first is at
\* turn everywhere.
THEOREM SomeoneRunsHolds ==
    ASSUME TurnsAssumption
    PROVE  Spec => []SomeoneRuns
<1>1. ASSUME IInv, OInv
      PROVE  SomeoneRuns
  <2> SUFFICES ASSUME \E t \in Threads : pc[t] # "idle", \A t \in Threads : ~CanRun(t)
               PROVE  FALSE
    BY DEF SomeoneRuns
  <2>1. PICK last \in Nat, rank \in [Threads -> Nat] : QueuesInRank(state, rank)
    BY <1>1 DEF OInv, OneOrder
  <2>2. ASSUME NEW t \in Threads, pc[t] # "idle"
        PROVE  Turn(t).on /\ ~AtTurn(t)
    <3>1. pc[t] \in {"enter", "unwind"}
      BY <1>1, <2>2 DEF IInv, TypeOK, Steps, CanRun
    <3>2. CASE pc[t] = "enter"
      <4>1. Turn(t).on /\ plane[t] \in Planes /\ Turn(t) = turns[t][plane[t]]
        BY <1>1, <3>2, OwnTurn
      <4>2. Turn(t).slot \in Slots
        <5>1. turns[t][plane[t]].on
          BY <4>1
        <5>2. turns[t][plane[t]].slot \in Slots
          BY <1>1, <4>1, <5>1, OnFacts
        <5> QED BY <4>1, <5>2
      <4>3. ~in_use[Turn(t).slot]
        BY <1>1, <4>2, UserRuns
      <4> QED BY <3>2, <4>1, <4>3 DEF CanRun, MayEnter
    <3>3. CASE pc[t] = "unwind"
      BY <3>3 DEF CanRun, MayFinish
    <3> QED BY <3>1, <3>2, <3>3
  <2> DEFINE ranks == {rank[t] : t \in {u \in Threads : pc[u] # "idle"}}
  <2>3. ranks \in SUBSET Nat /\ ranks # {}
    OBVIOUS
  <2>4. PICK least \in ranks : \A n \in ranks : least <= n
    <3> HIDE DEF ranks
    <3> QED BY <2>3, Smallest
  <2>5. PICK t \in Threads : pc[t] # "idle" /\ rank[t] = least
    BY <2>4
  <2>6. PICK u \in Threads : pc[u] # "idle" /\ rank[u] < rank[t]
    BY <1>1, <2>1, <2>2, <2>5, BehindAnother
  <2>7. rank[u] \in ranks /\ rank[u] \in Nat /\ rank[t] \in Nat
    BY <2>6
  <2> QED BY <2>4, <2>5, <2>6, <2>7
<1> QED BY <1>1, OrderHolds, PTL
=============================================================================
