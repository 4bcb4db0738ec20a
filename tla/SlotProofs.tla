----------------------------- MODULE SlotProofs ----------------------------
(***************************************************************************)
(* Proofs about the slots for every number of slots, every set of threads, *)
(* of layouts and of orders: what a Vulkan slot's frame leaves behind      *)
(* (VkSlot), and that the pool, in each of its uses, implements the safety *)
(* part of SlotTurns (SlotPool, the part Pool of MCVkSlots).               *)
(***************************************************************************)
EXTENDS MCVkSlots, FiniteSetTheorems, SequenceTheorems, TLAPS

-----------------------------------------------------------------------------
(* The slots' invariant, from the shapes of records to what was published. *)

FrameSteps == {"idle", "record", "send", "wait", "failed", "served"}
Waits == {<<>>} \cup (Slots \X Nat)
Batches == [slot : Slots, stage : Stages, request : Nat, value : Nat, waits : Waits]
Planes == [request : Nat, slot : Slots, value : Nat]

SlotShape(s) ==
    /\ DOMAIN s = DOMAIN IdleSlot
    /\ s.state \in {"idle", "recording", "pending", "broken"} /\ s.recording \subseteq Stages
    /\ s.waits \in [Stages -> Waits] /\ s.value \in Nat /\ s.deferred \in BOOLEAN
ThreadShape(r) ==
    /\ DOMAIN r = DOMAIN NoRequest
    /\ r.pc \in FrameSteps /\ r.slot \in Slots \cup {0} /\ r.request \in Nat /\ r.todo \subseteq Stages
    /\ r.defer \in BOOLEAN /\ r.sent \in BOOLEAN

FrameTyped ==
    /\ layout.queue \in [Stages -> Queues] /\ layout.core \in BOOLEAN /\ layout.defer \in BOOLEAN
    /\ layout.core => ~layout.defer
    /\ slots = [s \in Slots |-> slots[s]] /\ \A s \in Slots : SlotShape(slots[s])
    /\ thread = [t \in Threads |-> thread[t]] /\ \A t \in Threads : ThreadShape(thread[t])
    /\ queues \in [Queues -> Seq(Batches)]
    /\ reached \in [Slots -> Nat]
    /\ poisoned \in BOOLEAN
    /\ free \in Seq(Slots)
    /\ published \in Seq(Planes)
    /\ requests \in Nat

\* A slot is free once or leased by one thread, for a request of its own.
LeasesKept ==
    /\ \A i, j \in 1 .. Len(free) : free[i] = free[j] => i = j
    /\ \A i \in 1 .. Len(free), t \in Threads : free[i] # thread[t].slot
    /\ \A t \in Threads : IF thread[t].pc = "idle" THEN thread[t].slot = 0 /\ thread[t].request = 0
                          ELSE thread[t].slot \in Slots /\ thread[t].request \in 1 .. requests
    /\ \A t, u \in Threads :
           (/\ thread[t].pc # "idle" /\ thread[u].pc # "idle"
            /\ thread[t].slot = thread[u].slot \/ thread[t].request = thread[u].request) => t = u

\* A batch in a queue is of a value that its slot's timeline has not reached,
\* its slot retains its request's frames and is not reused.
BatchKept(b) ==
    /\ reached[b.slot] < b.value /\ b.value <= slots[b.slot].value
    /\ b.request \in slots[b.slot].retained /\ b.request \in 1 .. requests
    /\ slots[b.slot].state # "idle"
    /\ slots[b.slot].state = "recording" =>
           \E t \in Threads : /\ thread[t].pc = "send" /\ thread[t].sent
                              /\ thread[t].slot = b.slot /\ thread[t].request = b.request
    /\ \A t \in Threads : thread[t].request = b.request => thread[t].slot = b.slot

\* A value of a slot's timeline is one batch's.
Once(qs) ==
    \A q, r \in Queues : \A i \in 1 .. Len(qs[q]), j \in 1 .. Len(qs[r]) :
        (qs[q][i].slot = qs[r][j].slot /\ qs[q][i].value = qs[r][j].value) => (q = r /\ i = j)

BatchesKept == Once(queues) /\ \A b \in Unfinished : BatchKept(b)

\* What a thread at its step leaves its slot in.
Leaves(r, s, defers) ==
    /\ r.pc = "record" => s.state \in {"idle", "broken"}
    /\ r.pc = "send" =>
           /\ s.state = "recording" /\ r.request \in s.retained
           /\ r.defer => defers /\ Download \notin r.todo
           /\ s.recording = IF r.defer THEN r.todo \cup {Download} ELSE r.todo
    /\ r.pc = "wait" => s.state \in {"idle", "pending"} /\ (s.state = "pending" => r.request \in s.retained)
    /\ r.pc = "served" => s.state = "idle"

SlotsKept ==
    /\ \A t \in Threads : thread[t].pc # "idle" => Leaves(thread[t], slots[thread[t].slot], layout.defer)
    /\ \A s \in Slots :
           /\ slots[s].state \in {"recording", "pending"} => \E t \in Threads : thread[t].slot = s
           /\ slots[s].state = "broken" => poisoned
           /\ slots[s].deferred => layout.defer
           /\ reached[s] <= slots[s].value

\* A published plane's request has sent all it will send.
Sent == {"wait", "failed", "served"}
SentAll(p) ==
    /\ layout.core /\ p.request \in 1 .. requests
    /\ \A t \in Threads : thread[t].request = p.request =>
           thread[t].pc \in Sent /\ thread[t].slot = p.slot /\ slots[p.slot].recording = {}
    /\ \A b \in Unfinished : b.request = p.request => b.slot = p.slot /\ b.value <= p.value

PublishedKept == \A i \in 1 .. Len(published) : SentAll(published[i])

EndKept == destroyed # {} => Unfinished = {} /\ \A t \in Threads : thread[t].pc = "idle"

FrameInv == FrameTyped /\ LeasesKept /\ BatchesKept /\ SlotsKept /\ PublishedKept /\ EndKept

-----------------------------------------------------------------------------
(* Queues.                                                                 *)

BatchesOf(qs) == UNION {ToSet(qs[q]) : q \in Queues}
JoinQueue(qs, q, b) == [qs EXCEPT ![q] = Append(@, b)]
ShortQueue(qs, q) == [qs EXCEPT ![q] = Tail(@)]

LEMMA BatchPlaces ==
    ASSUME NEW qs \in [Queues -> Seq(Batches)]
    PROVE  /\ \A q \in Queues : Len(qs[q]) \in Nat /\ DOMAIN qs[q] = 1 .. Len(qs[q])
           /\ \A q \in Queues : \A i \in 1 .. Len(qs[q]) : qs[q][i] \in BatchesOf(qs) /\ qs[q][i] \in Batches
           /\ \A b \in BatchesOf(qs) : b \in Batches /\ \E q \in Queues : \E i \in 1 .. Len(qs[q]) : b = qs[q][i]
<1>1. \A q \in Queues : qs[q] \in Seq(Batches)
  OBVIOUS
<1>2. \A q \in Queues : Len(qs[q]) \in Nat /\ DOMAIN qs[q] = 1 .. Len(qs[q])
  BY <1>1, LenProperties
<1>3. \A q \in Queues : \A i \in 1 .. Len(qs[q]) : qs[q][i] \in Batches
  BY <1>1, ElementOfSeq
<1>4. \A q \in Queues : ToSet(qs[q]) = {qs[q][i] : i \in 1 .. Len(qs[q])}
  BY <1>2 DEF ToSet
<1> QED BY <1>2, <1>3, <1>4 DEF BatchesOf

LEMMA QueueGrows ==
    ASSUME NEW qs \in [Queues -> Seq(Batches)], NEW q \in Queues, NEW b \in Batches, Once(qs),
           \A c \in BatchesOf(qs) : c.slot = b.slot => c.value # b.value
    PROVE  /\ JoinQueue(qs, q, b) \in [Queues -> Seq(Batches)] /\ Once(JoinQueue(qs, q, b))
           /\ BatchesOf(JoinQueue(qs, q, b)) = BatchesOf(qs) \cup {b}
<1> DEFINE new == JoinQueue(qs, q, b)
           n == Len(qs[q])
<1>1. /\ qs[q] \in Seq(Batches) /\ n \in Nat /\ Append(qs[q], b) \in Seq(Batches)
      /\ Len(Append(qs[q], b)) = n + 1 /\ Append(qs[q], b)[n + 1] = b
      /\ \A i \in 1 .. n : Append(qs[q], b)[i] = qs[q][i]
  BY AppendProperties, LenProperties
<1>2. /\ new \in [Queues -> Seq(Batches)] /\ new[q] = Append(qs[q], b)
      /\ \A r \in Queues : r # q => new[r] = qs[r]
  BY <1>1 DEF JoinQueue
<1> HIDE DEF new, n
<1>3. \A r \in Queues : Len(qs[r]) \in Nat /\ DOMAIN qs[r] = 1 .. Len(qs[r])
  BY BatchPlaces
<1>4. \A r \in Queues : \A i \in 1 .. Len(new[r]) :
          \/ i \in 1 .. Len(qs[r]) /\ new[r][i] = qs[r][i]
          \/ r = q /\ i = n + 1 /\ new[r][i] = b
  <2>1. \A i \in 1 .. n + 1 : i \in 1 .. n \/ i = n + 1
    BY <1>1
  <2> QED BY <1>1, <1>2, <2>1 DEF n
<1>5. /\ \A r \in Queues : \A i \in 1 .. Len(qs[r]) : i \in 1 .. Len(new[r]) /\ new[r][i] = qs[r][i]
      /\ n + 1 \in 1 .. Len(new[q]) /\ new[q][n + 1] = b
  <2>1. \A i \in 1 .. n : i \in 1 .. n + 1
    BY <1>1
  <2>2. \A i \in 1 .. Len(qs[q]) : i \in 1 .. Len(new[q]) /\ new[q][i] = qs[q][i]
    BY <1>1, <1>2, <2>1 DEF n
  <2>3. n + 1 \in 1 .. Len(new[q]) /\ new[q][n + 1] = b
    BY <1>1, <1>2
  <2> QED BY <1>2, <2>2, <2>3
<1>6. Once(new)
  <2>0. SUFFICES \A r, u \in Queues : \A i \in 1 .. Len(new[r]), j \in 1 .. Len(new[u]) :
                    (new[r][i].slot = new[u][j].slot /\ new[r][i].value = new[u][j].value) => (r = u /\ i = j)
    BY Zenon DEF Once
  <2> SUFFICES ASSUME NEW r \in Queues, NEW u \in Queues, NEW i \in 1 .. Len(new[r]), NEW j \in 1 .. Len(new[u]),
                      new[r][i].slot = new[u][j].slot, new[r][i].value = new[u][j].value
               PROVE  r = u /\ i = j
    OBVIOUS
  <2>1. \A v \in Queues : \A k \in 1 .. Len(qs[v]) : qs[v][k].slot = b.slot => qs[v][k].value # b.value
    BY BatchPlaces
  <2>2. CASE i \in 1 .. Len(qs[r]) /\ new[r][i] = qs[r][i] /\ j \in 1 .. Len(qs[u]) /\ new[u][j] = qs[u][j]
    BY <2>2 DEF Once
  <2>3. CASE r = q /\ i = n + 1 /\ new[r][i] = b
    BY <1>4, <2>1, <2>3
  <2>4. CASE u = q /\ j = n + 1 /\ new[u][j] = b
    BY <1>4, <2>1, <2>4
  <2> QED BY <1>4, <2>2, <2>3, <2>4
<1>7. BatchesOf(new) = BatchesOf(qs) \cup {b}
  <2>1. ASSUME NEW c \in BatchesOf(new) PROVE c \in BatchesOf(qs) \cup {b}
    <3>1. PICK r \in Queues : \E i \in 1 .. Len(new[r]) : c = new[r][i]
      BY <1>2, BatchPlaces
    <3>2. PICK i \in 1 .. Len(new[r]) : c = new[r][i]
      BY <3>1
    <3>3. CASE i \in 1 .. Len(qs[r]) /\ new[r][i] = qs[r][i]
      BY <3>2, <3>3, BatchPlaces
    <3> QED BY <1>4, <3>2, <3>3
  <2>2. ASSUME NEW c \in BatchesOf(qs) PROVE c \in BatchesOf(new)
    <3>1. PICK r \in Queues : \E i \in 1 .. Len(qs[r]) : c = qs[r][i]
      BY BatchPlaces
    <3>2. PICK i \in 1 .. Len(qs[r]) : c = qs[r][i]
      BY <3>1
    <3>3. i \in 1 .. Len(new[r]) /\ c = new[r][i]
      BY <1>5, <3>2
    <3> QED BY <1>2, <3>3, BatchPlaces
  <2>3. b \in BatchesOf(new)
    BY <1>2, <1>5, BatchPlaces
  <2> QED BY <2>1, <2>2, <2>3
<1> QED BY <1>2, <1>6, <1>7 DEF new

LEMMA QueueShrinks ==
    ASSUME NEW qs \in [Queues -> Seq(Batches)], NEW q \in Queues, qs[q] # <<>>, Once(qs)
    PROVE  /\ ShortQueue(qs, q) \in [Queues -> Seq(Batches)] /\ Once(ShortQueue(qs, q))
           /\ Head(qs[q]) \in BatchesOf(qs) /\ Head(qs[q]) \in Batches
           /\ \A c \in BatchesOf(ShortQueue(qs, q)) :
                 c \in BatchesOf(qs) /\ (c.slot = Head(qs[q]).slot => c.value # Head(qs[q]).value)
<1> DEFINE new == ShortQueue(qs, q)
           off(r) == IF r = q THEN 1 ELSE 0
<1>1. /\ qs[q] \in Seq(Batches) /\ Len(qs[q]) \in Nat /\ Len(qs[q]) # 0
      /\ Tail(qs[q]) \in Seq(Batches) /\ Len(Tail(qs[q])) = Len(qs[q]) - 1
      /\ \A i \in 1 .. Len(Tail(qs[q])) : Tail(qs[q])[i] = qs[q][i + 1]
      /\ Head(qs[q]) = qs[q][1] /\ 1 \in 1 .. Len(qs[q])
  BY HeadTailProperties, LenProperties, EmptySeq
<1>2. /\ new \in [Queues -> Seq(Batches)] /\ new[q] = Tail(qs[q])
      /\ \A r \in Queues : r # q => new[r] = qs[r]
  BY <1>1 DEF ShortQueue
<1> HIDE DEF new
<1>3. \A r \in Queues : Len(qs[r]) \in Nat /\ Len(new[r]) \in Nat
  BY <1>2, BatchPlaces
<1>4. \A r \in Queues : \A i \in 1 .. Len(new[r]) :
          i + off(r) \in 1 .. Len(qs[r]) /\ new[r][i] = qs[r][i + off(r)] /\ (r = q => i + off(r) # 1)
  <2>1. \A i \in 1 .. Len(Tail(qs[q])) : i + 1 \in 1 .. Len(qs[q]) /\ i + 1 # 1
    BY <1>1
  <2>2. \A r \in Queues : r # q => \A i \in 1 .. Len(new[r]) : i + 0 = i
    BY <1>3
  <2> QED BY <1>1, <1>2, <2>1, <2>2
<1> HIDE DEF off
<1>5. Once(new)
  <2>0. SUFFICES \A r, u \in Queues : \A i \in 1 .. Len(new[r]), j \in 1 .. Len(new[u]) :
                    (new[r][i].slot = new[u][j].slot /\ new[r][i].value = new[u][j].value) => (r = u /\ i = j)
    BY Zenon DEF Once
  <2> SUFFICES ASSUME NEW r \in Queues, NEW u \in Queues, NEW i \in 1 .. Len(new[r]), NEW j \in 1 .. Len(new[u]),
                      new[r][i].slot = new[u][j].slot, new[r][i].value = new[u][j].value
               PROVE  r = u /\ i = j
    OBVIOUS
  <2>1. r = u /\ i + off(r) = j + off(u)
    <3>1. i + off(r) \in 1 .. Len(qs[r]) /\ new[r][i] = qs[r][i + off(r)]
      BY <1>4
    <3>2. j + off(u) \in 1 .. Len(qs[u]) /\ new[u][j] = qs[u][j + off(u)]
      BY <1>4
    <3> QED BY <3>1, <3>2 DEF Once
  <2> QED BY <1>3, <2>1 DEF off
<1>6. ASSUME NEW c \in BatchesOf(new)
      PROVE  c \in BatchesOf(qs) /\ (c.slot = Head(qs[q]).slot => c.value # Head(qs[q]).value)
  <2>0. PICK r \in Queues : \E i \in 1 .. Len(new[r]) : c = new[r][i]
    BY <1>2, BatchPlaces
  <2>1. PICK i \in 1 .. Len(new[r]) : c = new[r][i]
    BY <2>0
  <2>2. i + off(r) \in 1 .. Len(qs[r]) /\ c = qs[r][i + off(r)] /\ (r = q => i + off(r) # 1)
    BY <1>4, <2>1
  <2>3. c \in BatchesOf(qs)
    BY <2>2, BatchPlaces
  <2>4. c.slot = Head(qs[q]).slot => c.value # Head(qs[q]).value
    BY <1>1, <2>2 DEF Once
  <2> QED BY <2>3, <2>4
<1> QED BY <1>1, <1>2, <1>5, <1>6, BatchPlaces DEF new

-----------------------------------------------------------------------------
(* A step of a thread with its slot.                                       *)

LEMMA NoSlotZero == 0 \notin Slots /\ Slots \subseteq Nat
<1>1. Cardinality(Slots) \in Nat /\ Slots = 1 .. Cardinality(Slots)
  BY FS_CardinalityType, VkSlotAssumption
<1> QED BY <1>1

\* Thread t is at r and leaves slot k as s.
Puts(t, r, k, s) == thread' = [thread EXCEPT ![t] = r] /\ slots' = [slots EXCEPT ![k] = s]

LEMMA PutFacts ==
    ASSUME FrameTyped, NEW t \in Threads, NEW k \in Slots, NEW r, NEW s, Puts(t, r, k, s), ThreadShape(r), SlotShape(s)
    PROVE  /\ thread' = [u \in Threads |-> thread'[u]] /\ \A u \in Threads : ThreadShape(thread'[u])
           /\ slots' = [j \in Slots |-> slots'[j]] /\ \A j \in Slots : SlotShape(slots'[j])
           /\ thread'[t] = r /\ \A u \in Threads \ {t} : thread'[u] = thread[u]
           /\ slots'[k] = s /\ \A j \in Slots \ {k} : slots'[j] = slots[j]
<1>1. /\ thread = [u \in Threads |-> thread[u]] /\ slots = [j \in Slots |-> slots[j]]
      /\ thread' = [thread EXCEPT ![t] = r] /\ slots' = [slots EXCEPT ![k] = s]
  BY DEF Puts, FrameTyped
<1>2. /\ thread' = [u \in Threads |-> thread'[u]]
      /\ slots' = [j \in Slots |-> slots'[j]]
      /\ thread'[t] = r /\ \A u \in Threads \ {t} : thread'[u] = thread[u]
      /\ slots'[k] = s /\ \A j \in Slots \ {k} : slots'[j] = slots[j]
  BY <1>1
<1>3. (\A u \in Threads : ThreadShape(thread[u])) /\ \A j \in Slots : SlotShape(slots[j])
  BY DEF FrameTyped
<1>4. ASSUME NEW u \in Threads PROVE ThreadShape(thread'[u])
  BY <1>2, <1>3
<1>5. ASSUME NEW j \in Slots PROVE SlotShape(slots'[j])
  BY <1>2, <1>3
<1> QED BY <1>2, <1>4, <1>5

\* A thread that serves a request goes on with it, in its slot.
Serves(t, r, k, s) ==
    /\ thread[t].pc # "idle" /\ k = thread[t].slot /\ Puts(t, r, k, s)
    /\ ThreadShape(r) /\ SlotShape(s) /\ Leaves(r, s, layout.defer)
    /\ r.pc # "idle" /\ r.slot = k /\ r.request = thread[t].request
    /\ slots[k].value <= s.value /\ (s.deferred => layout.defer)
    /\ UNCHANGED <<layout, reached, free, requests, destroyed>>

\* It sends a batch, of its request and with the slot's next value.
Sends(r, k, s) ==
    \E q \in Queues : \E b \in Batches :
        /\ queues' = JoinQueue(queues, q, b)
        /\ b.slot = k /\ b.request = r.request /\ b.value = slots[k].value + 1 /\ s.value = b.value

\* What batch b needs of slot s and thread r.
Spares(b, r, s) ==
    /\ b.request \in s.retained /\ s.state # "idle"
    /\ s.state = "recording" => r.pc = "send" /\ r.sent /\ r.request = b.request

LEMMA ServesFacts ==
    ASSUME FrameTyped, LeasesKept, NEW t \in Threads, NEW r, NEW k, NEW s, Serves(t, r, k, s)
    PROVE  /\ k \in Slots /\ thread[t].slot = k /\ r.slot = k /\ r.request = thread[t].request
           /\ thread[t].request \in 1 .. requests /\ requests \in Nat /\ slots[k].value \in Nat /\ s.value \in Nat
           /\ thread' = [u \in Threads |-> thread'[u]] /\ \A u \in Threads : ThreadShape(thread'[u])
           /\ slots' = [j \in Slots |-> slots'[j]] /\ \A j \in Slots : SlotShape(slots'[j])
           /\ thread'[t] = r /\ \A u \in Threads \ {t} : thread'[u] = thread[u]
           /\ slots'[k] = s /\ \A j \in Slots \ {k} : slots'[j] = slots[j]
           /\ \A u \in Threads \ {t} : thread[u].slot # k /\ thread[u].request # thread[t].request
<1>1. /\ k \in Slots /\ thread[t].slot = k /\ r.slot = k /\ r.request = thread[t].request
      /\ thread[t].request \in 1 .. requests /\ requests \in Nat /\ thread[t].pc # "idle"
  BY DEF Serves, LeasesKept, FrameTyped
<1>2. Puts(t, r, k, s) /\ ThreadShape(r) /\ SlotShape(s) /\ SlotShape(slots[k])
  BY <1>1 DEF Serves, FrameTyped
<1>3. slots[k].value \in Nat /\ s.value \in Nat
  BY <1>2 DEF SlotShape
<1>4. ASSUME NEW u \in Threads \ {t} PROVE thread[u].slot # k /\ thread[u].request # thread[t].request
  <2>1. CASE thread[u].pc = "idle"
    <3>1. thread[u].slot = 0 /\ thread[u].request = 0
      BY <2>1 DEF LeasesKept
    <3>2. 0 \notin Slots
      BY NoSlotZero
    <3>3. 0 \notin 1 .. requests
      BY <1>1
    <3> QED BY <1>1, <3>1, <3>2, <3>3
  <2>2. CASE thread[u].pc # "idle"
    BY <1>1, <2>2 DEF LeasesKept
  <2> QED BY <2>1, <2>2
<1> QED BY <1>1, <1>2, <1>3, <1>4, PutFacts

LEMMA BatchesServed ==
    ASSUME FrameTyped, LeasesKept, BatchesKept, SlotsKept, NEW t \in Threads, NEW r, NEW k, NEW s, Serves(t, r, k, s),
           \A b \in Unfinished : b.slot = k => Spares(b, r, s),
           \/ queues' = queues
           \/ Sends(r, k, s) /\ r.request \in s.retained /\ s.state # "idle"
              /\ (s.state = "recording" => r.pc = "send" /\ r.sent)
    PROVE  /\ BatchesKept' /\ queues' \in [Queues -> Seq(Batches)]
           /\ \A b \in Unfinished' : b \in Unfinished \/ (queues' # queues /\ b.slot = k /\ b.request = r.request)
<1>1. /\ k \in Slots /\ thread[t].slot = k /\ r.slot = k /\ r.request = thread[t].request
      /\ thread[t].request \in 1 .. requests /\ requests \in Nat /\ slots[k].value \in Nat /\ s.value \in Nat
      /\ thread'[t] = r /\ \A u \in Threads \ {t} : thread'[u] = thread[u]
      /\ slots'[k] = s /\ \A j \in Slots \ {k} : slots'[j] = slots[j]
      /\ \A u \in Threads \ {t} : thread[u].slot # k /\ thread[u].request # thread[t].request
  BY ServesFacts
<1>2. /\ slots[k].value <= s.value /\ UNCHANGED <<reached, requests>> /\ reached[k] <= slots[k].value /\ reached[k] \in Nat
      /\ queues \in [Queues -> Seq(Batches)] /\ Once(queues)
  BY <1>1 DEF Serves, SlotsKept, FrameTyped, BatchesKept
<1>3. /\ Unfinished = BatchesOf(queues) /\ Unfinished' = BatchesOf(queues')
      /\ \A b \in Unfinished : b \in Batches /\ b.slot \in Slots /\ b.value \in Nat /\ b.request \in Nat
  <2>1. Unfinished = BatchesOf(queues) /\ Unfinished' = BatchesOf(queues')
    BY DEF Unfinished, BatchesOf
  <2>2. \A b \in Batches : b.slot \in Slots /\ b.value \in Nat /\ b.request \in Nat
    BY DEF Batches
  <2> QED BY <1>2, <2>1, <2>2, BatchPlaces
<1>4. ASSUME NEW b \in Unfinished PROVE BatchKept(b)'
  <2>1. BatchKept(b) /\ b.slot \in Slots /\ b.value \in Nat /\ reached[b.slot] \in Nat
    BY <1>3 DEF BatchesKept, FrameTyped
  <2>2. CASE b.slot = k
    <3>1. Spares(b, r, s)
      BY <2>2
    <3>2. reached'[b.slot] < b.value /\ b.value <= s.value
      BY <1>1, <1>2, <2>1, <2>2 DEF BatchKept
    <3>3. \A u \in Threads : thread'[u].request = b.request => thread'[u].slot = b.slot
      BY <1>1, <2>1 DEF BatchKept
    <3> QED BY <1>1, <1>2, <2>1, <2>2, <3>1, <3>2, <3>3 DEF BatchKept, Spares
  <2>3. CASE b.slot # k
    <3>1. slots'[b.slot] = slots[b.slot]
      BY <1>1, <2>1, <2>3
    <3>2. \A u \in Threads : thread'[u].request = b.request => thread'[u].slot = b.slot
      BY <1>1, <2>1 DEF BatchKept
    <3>3. slots[b.slot].state = "recording" =>
              \E u \in Threads : /\ thread'[u].pc = "send" /\ thread'[u].sent
                                 /\ thread'[u].slot = b.slot /\ thread'[u].request = b.request
      <4> SUFFICES ASSUME slots[b.slot].state = "recording"
                   PROVE  \E u \in Threads : /\ thread'[u].pc = "send" /\ thread'[u].sent
                                             /\ thread'[u].slot = b.slot /\ thread'[u].request = b.request
        OBVIOUS
      <4>1. PICK u \in Threads : /\ thread[u].pc = "send" /\ thread[u].sent
                                 /\ thread[u].slot = b.slot /\ thread[u].request = b.request
        BY <2>1 DEF BatchKept
      <4>2. u # t
        BY <1>1, <2>3, <4>1
      <4> QED BY <1>1, <4>1, <4>2
    <3> QED BY <1>2, <2>1, <3>1, <3>2, <3>3 DEF BatchKept
  <2> QED BY <2>2, <2>3
<1>5. CASE queues' = queues
  BY <1>2, <1>3, <1>4, <1>5 DEF BatchesKept
<1>6. CASE Sends(r, k, s) /\ r.request \in s.retained /\ s.state # "idle" /\ (s.state = "recording" => r.pc = "send" /\ r.sent)
  <2>1. PICK q \in Queues, b \in Batches :
            /\ queues' = JoinQueue(queues, q, b)
            /\ b.slot = k /\ b.request = r.request /\ b.value = slots[k].value + 1 /\ s.value = b.value
    BY <1>6 DEF Sends
  <2>2. \A c \in BatchesOf(queues) : c.slot = b.slot => c.value # b.value
    <3> SUFFICES ASSUME NEW c \in Unfinished, c.slot = k PROVE c.value # b.value
      BY <1>3, <2>1
    <3>1. c.value <= slots[k].value /\ c.value \in Nat
      BY <1>3 DEF BatchesKept, BatchKept
    <3> QED BY <1>1, <2>1, <3>1
  <2>3. /\ queues' \in [Queues -> Seq(Batches)] /\ Once(queues') /\ Unfinished' = Unfinished \cup {b}
    BY <1>2, <1>3, <2>1, <2>2, QueueGrows
  <2>4. BatchKept(b)'
    <3>1. reached'[b.slot] < b.value /\ b.value <= slots'[b.slot].value
      BY <1>1, <1>2, <2>1
    <3>2. \A u \in Threads : thread'[u].request = b.request => thread'[u].slot = b.slot
      BY <1>1, <2>1
    <3>3. b.request \in slots'[b.slot].retained /\ b.request \in 1 .. requests' /\ slots'[b.slot].state # "idle"
      BY <1>1, <1>2, <1>6, <2>1
    <3>4. slots'[b.slot].state = "recording" =>
              \E u \in Threads : /\ thread'[u].pc = "send" /\ thread'[u].sent
                                 /\ thread'[u].slot = b.slot /\ thread'[u].request = b.request
      BY <1>1, <1>6, <2>1
    <3> QED BY <3>1, <3>2, <3>3, <3>4 DEF BatchKept
  <2>5. queues' # queues \/ b \in Unfinished
    BY <1>3, <2>3
  <2>6. \A c \in Unfinished' : BatchKept(c)'
    BY <1>4, <2>3, <2>4
  <2>7. BatchesKept'
    BY <2>3, <2>6 DEF BatchesKept
  <2> QED BY <2>1, <2>3, <2>5, <2>7
<1> QED BY <1>5, <1>6

LEMMA LeasesServed ==
    ASSUME FrameTyped, LeasesKept, NEW t \in Threads, NEW r, NEW k, NEW s, Serves(t, r, k, s)
    PROVE  LeasesKept'
<1>1. /\ k \in Slots /\ thread[t].slot = k /\ r.slot = k /\ r.request = thread[t].request
      /\ thread[t].request \in 1 .. requests
      /\ thread'[t] = r /\ \A u \in Threads \ {t} : thread'[u] = thread[u]
      /\ \A u \in Threads \ {t} : thread[u].slot # k /\ thread[u].request # thread[t].request
  BY ServesFacts
<1>2. thread[t].pc # "idle" /\ r.pc # "idle" /\ UNCHANGED <<free, requests>>
  BY DEF Serves
<1>3. \A u \in Threads : thread'[u].slot = thread[u].slot /\ thread'[u].request = thread[u].request
                         /\ (thread'[u].pc = "idle" <=> thread[u].pc = "idle")
  BY <1>1, <1>2
<1> QED BY <1>2, <1>3 DEF LeasesKept

LEMMA SlotsServed ==
    ASSUME FrameTyped, LeasesKept, SlotsKept, NEW t \in Threads, NEW r, NEW k, NEW s, Serves(t, r, k, s),
           poisoned => poisoned', s.state = "broken" => poisoned'
    PROVE  SlotsKept'
<1>1. /\ k \in Slots /\ thread[t].slot = k /\ r.slot = k /\ slots[k].value \in Nat /\ s.value \in Nat
      /\ thread'[t] = r /\ \A u \in Threads \ {t} : thread'[u] = thread[u]
      /\ slots'[k] = s /\ \A j \in Slots \ {k} : slots'[j] = slots[j]
      /\ \A u \in Threads \ {t} : thread[u].slot # k
  BY ServesFacts
<1>2. Leaves(r, s, layout.defer) /\ slots[k].value <= s.value /\ (s.deferred => layout.defer) /\ UNCHANGED <<layout, reached>>
      /\ reached \in [Slots -> Nat]
  BY DEF Serves, FrameTyped
<1>3. ASSUME NEW u \in Threads, thread'[u].pc # "idle" PROVE Leaves(thread'[u], slots'[thread'[u].slot], layout'.defer)
  <2>1. CASE u = t
    BY <1>1, <1>2, <2>1 DEF Leaves
  <2>2. CASE u # t
    <3>1. thread'[u] = thread[u] /\ thread[u].slot \in Slots \ {k}
      BY <1>1, <1>3, <2>2 DEF LeasesKept
    <3>2. slots'[thread[u].slot] = slots[thread[u].slot]
      BY <1>1, <3>1
    <3>3. Leaves(thread[u], slots[thread[u].slot], layout.defer)
      BY <1>3, <3>1 DEF SlotsKept
    <3> QED BY <1>2, <3>1, <3>2, <3>3 DEF Leaves
  <2> QED BY <2>1, <2>2
<1>4. ASSUME NEW j \in Slots
      PROVE  /\ slots'[j].state \in {"recording", "pending"} => \E u \in Threads : thread'[u].slot = j
             /\ slots'[j].state = "broken" => poisoned'
             /\ slots'[j].deferred => layout'.defer
             /\ reached'[j] <= slots'[j].value
  <2>1. CASE j = k
    BY <1>1, <1>2, <2>1 DEF SlotsKept
  <2>2. CASE j # k
    <3>1. slots'[j] = slots[j]
      BY <1>1, <2>2
    <3>2. \A u \in Threads : thread[u].slot = j => thread'[u].slot = j
      BY <1>1
    <3> QED BY <1>2, <3>1, <3>2 DEF SlotsKept
  <2> QED BY <2>1, <2>2
<1> QED BY <1>3, <1>4 DEF SlotsKept

\* What was published stays so: a request of VapourSynth's device that has
\* published its plane sends no more.
LEMMA SentServed ==
    ASSUME FrameTyped, LeasesKept, NEW t \in Threads, NEW r, NEW k, NEW s, Serves(t, r, k, s),
           NEW p \in Planes, SentAll(p),
           \A b \in Unfinished' : b \in Unfinished \/ (queues' # queues /\ b.slot = k /\ b.request = r.request),
           layout.core /\ thread[t].pc \in Sent /\ slots[k].recording = {} =>
               r.pc \in Sent /\ s.recording = {} /\ queues' = queues
    PROVE  SentAll(p)'
<1>1. /\ k \in Slots /\ thread[t].slot = k /\ r.slot = k /\ r.request = thread[t].request
      /\ thread'[t] = r /\ \A u \in Threads \ {t} : thread'[u] = thread[u]
      /\ slots'[k] = s /\ \A j \in Slots \ {k} : slots'[j] = slots[j]
      /\ \A u \in Threads \ {t} : thread[u].slot # k /\ thread[u].request # thread[t].request
  BY ServesFacts
<1>2. UNCHANGED <<layout, requests>> /\ layout.core /\ p.request \in 1 .. requests /\ p.slot \in Slots
  BY DEF Serves, SentAll, Planes
<1>3. thread[t].request = p.request => p.slot = k /\ r.pc \in Sent /\ s.recording = {} /\ queues' = queues
  BY <1>1, <1>2 DEF SentAll
<1>4. ASSUME NEW u \in Threads, thread'[u].request = p.request
      PROVE  thread'[u].pc \in Sent /\ thread'[u].slot = p.slot /\ slots'[p.slot].recording = {}
  <2>1. CASE u = t
    BY <1>1, <1>3, <1>4, <2>1
  <2>2. CASE u # t
    <3>1. thread'[u] = thread[u] /\ thread[u].slot = p.slot /\ p.slot # k /\ thread[u].pc \in Sent
          /\ slots[p.slot].recording = {}
      BY <1>1, <1>4, <2>2 DEF SentAll
    <3> QED BY <1>1, <1>2, <3>1
  <2> QED BY <2>1, <2>2
<1>5. ASSUME NEW b \in Unfinished', b.request = p.request PROVE b.slot = p.slot /\ b.value <= p.value
  <2>1. b \in Unfinished
    BY <1>1, <1>3, <1>5
  <2> QED BY <1>5, <2>1 DEF SentAll
<1> QED BY <1>2, <1>4, <1>5 DEF SentAll

\* A plane that is published is one whose request has sent all.
Publishes ==
    /\ published' \in Seq(Planes)
    /\ \A i \in 1 .. Len(published') : \/ i \in 1 .. Len(published) /\ published'[i] = published[i]
                                       \/ \E p \in Planes : published'[i] = p /\ SentAll(p)'

LEMMA PublishesNothing ==
    ASSUME FrameInv, UNCHANGED published PROVE Publishes
BY DEF Publishes, FrameInv, FrameTyped

\* All of it.
LEMMA ServedKeeps ==
    ASSUME FrameInv, NEW t \in Threads, NEW r, NEW k, NEW s, Serves(t, r, k, s),
           \A b \in Unfinished : b.slot = k => Spares(b, r, s),
           \/ queues' = queues
           \/ Sends(r, k, s) /\ r.request \in s.retained /\ s.state # "idle"
              /\ (s.state = "recording" => r.pc = "send" /\ r.sent),
           poisoned' \in BOOLEAN, poisoned => poisoned', s.state = "broken" => poisoned',
           layout.core /\ thread[t].pc \in Sent /\ slots[k].recording = {} =>
               r.pc \in Sent /\ s.recording = {} /\ queues' = queues,
           Publishes
    PROVE  FrameInv'
<1>1. FrameTyped /\ LeasesKept /\ BatchesKept /\ SlotsKept /\ PublishedKept /\ EndKept
  BY DEF FrameInv
<1>2. /\ thread' = [u \in Threads |-> thread'[u]] /\ \A u \in Threads : ThreadShape(thread'[u])
      /\ slots' = [j \in Slots |-> slots'[j]] /\ \A j \in Slots : SlotShape(slots'[j])
  BY <1>1, ServesFacts
<1>3. /\ BatchesKept' /\ queues' \in [Queues -> Seq(Batches)]
      /\ \A b \in Unfinished' : b \in Unfinished \/ (queues' # queues /\ b.slot = k /\ b.request = r.request)
  BY <1>1, BatchesServed
<1>4. UNCHANGED <<layout, reached, free, requests, destroyed>> /\ thread[t].pc # "idle"
  BY DEF Serves
<1>5. FrameTyped'
  BY <1>1, <1>2, <1>3, <1>4 DEF FrameTyped, Publishes
<1>6. LeasesKept' /\ SlotsKept'
  BY <1>1, LeasesServed, SlotsServed
<1>7. PublishedKept'
  <2>1. published \in Seq(Planes)
    BY <1>1 DEF FrameTyped
  <2>2. ASSUME NEW i \in 1 .. Len(published') PROVE \E p \in Planes : published'[i] = p /\ SentAll(p)'
    <3>1. CASE i \in 1 .. Len(published) /\ published'[i] = published[i]
      <4>1. published[i] \in Planes /\ SentAll(published[i])
        BY <1>1, <2>1, <3>1, ElementOfSeq DEF PublishedKept
      <4>2. PICK p \in Planes : p = published[i] /\ SentAll(p)
        BY <4>1
      <4>3. SentAll(p)'
        BY <1>1, <1>3, <4>2, SentServed
      <4> QED BY <3>1, <4>2, <4>3
    <3> QED BY <3>1 DEF Publishes
  <2> QED BY <2>2 DEF PublishedKept, SentAll
<1>8. EndKept'
  BY <1>1, <1>4 DEF EndKept
<1> QED BY <1>3, <1>5, <1>6, <1>7, <1>8 DEF FrameInv

-----------------------------------------------------------------------------
(* The steps.                                                              *)

LEMMA ServingFacts ==
    ASSUME FrameInv, NEW t \in Threads, thread[t].pc # "idle"
    PROVE  /\ thread[t].slot \in Slots /\ Leaves(thread[t], Mine(t), layout.defer) /\ SlotShape(Mine(t)) /\ ThreadShape(thread[t])
           /\ thread = [u \in Threads |-> thread[u]] /\ slots = [j \in Slots |-> slots[j]]
           /\ DOMAIN thread[t] = {"pc", "slot", "request", "todo", "defer", "sent"}
           /\ DOMAIN Mine(t) = {"state", "recording", "waits", "value", "deferred", "retained"}
<1>1. thread[t].slot \in Slots /\ Mine(t) = slots[thread[t].slot]
  BY DEF FrameInv, LeasesKept, Mine
<1>2. SlotShape(Mine(t)) /\ ThreadShape(thread[t])
  BY <1>1 DEF FrameInv, FrameTyped
<1>3. /\ DOMAIN thread[t] = {"pc", "slot", "request", "todo", "defer", "sent"}
      /\ DOMAIN Mine(t) = {"state", "recording", "waits", "value", "deferred", "retained"}
  BY <1>2 DEF ThreadShape, SlotShape, NoRequest, IdleSlot
<1> QED BY <1>1, <1>2, <1>3 DEF FrameInv, SlotsKept, FrameTyped

\* No batch of the slot is in a queue.
LEMMA QuietSlot ==
    ASSUME FrameInv, NEW t \in Threads, thread[t].pc # "idle",
           \/ Mine(t).state = "idle" \/ Done(t)
           \/ Mine(t).state = "recording" /\ ~(thread[t].pc = "send" /\ thread[t].sent)
    PROVE  \A b \in Unfinished : b.slot # thread[t].slot
<1> SUFFICES ASSUME NEW b \in Unfinished, b.slot = thread[t].slot PROVE FALSE
  OBVIOUS
<1>1. BatchKept(b) /\ b \in Batches /\ b.value \in Nat
  <2>1. b \in Batches
    BY BatchPlaces DEF FrameInv, FrameTyped, Unfinished, BatchesOf
  <2> QED BY <2>1 DEF FrameInv, BatchesKept, Batches
<1>2. thread[t].slot \in Slots /\ SlotShape(Mine(t)) /\ reached[thread[t].slot] \in Nat
  BY ServingFacts DEF FrameInv, FrameTyped
<1>3. Mine(t).value \in Nat /\ b.value <= Mine(t).value /\ reached[thread[t].slot] < b.value /\ Mine(t).state # "idle"
  BY <1>1, <1>2 DEF BatchKept, Mine, SlotShape
<1>4. ~Done(t)
  BY <1>1, <1>2, <1>3 DEF Done
<1>5. Mine(t).state = "recording" /\ ~(thread[t].pc = "send" /\ thread[t].sent)
  BY <1>3, <1>4
<1>6. PICK u \in Threads : thread[u].pc = "send" /\ thread[u].sent /\ thread[u].slot = b.slot
  BY <1>1, <1>5 DEF BatchKept, Mine
<1>7. u = t
  BY <1>6 DEF FrameInv, LeasesKept
<1> QED BY <1>5, <1>6, <1>7

LEMMA RecordKeeps ==
    ASSUME FrameInv, NEW t \in Threads, NEW stages \in Frames, Record(t, stages)
    PROVE  FrameInv'
<1> DEFINE k == thread[t].slot
           r == [thread[t] EXCEPT !.pc = IF stages = {} THEN "wait" ELSE "send", !.defer = Defers(stages),
                                  !.todo = IF Defers(stages) THEN stages \ {Download} ELSE stages]
<1>1. /\ thread[t].pc = "record" /\ Mine(t).state = "idle" /\ stages \subseteq Stages
      /\ UNCHANGED <<layout, reached, free, requests, destroyed, queues, poisoned, published>>
  BY VkSlotAssumption DEF Record
<1>2. /\ k \in Slots /\ SlotShape(Mine(t)) /\ ThreadShape(thread[t])
      /\ thread = [u \in Threads |-> thread[u]] /\ slots = [j \in Slots |-> slots[j]]
      /\ DOMAIN thread[t] = {"pc", "slot", "request", "todo", "defer", "sent"}
      /\ DOMAIN Mine(t) = {"state", "recording", "waits", "value", "deferred", "retained"}
  BY <1>1, ServingFacts
<1>3. PICK waits \in [Stages -> Waits] :
          Becomes(t, [Recorded(Mine(t), stages, thread[t].request) EXCEPT !.waits = waits])
  <2>1. PICK w \in [stages -> {<<>>} \cup OtherTimelines(k)] :
            Becomes(t, [Recorded(Mine(t), stages, thread[t].request) EXCEPT
                           !.waits = [g \in Stages |-> IF g \in stages THEN w[g] ELSE <<>>]])
    BY DEF Record
  <2>2. OtherTimelines(k) \subseteq Slots \X Nat
    <3>1. \A u \in Slots : slots[u].value \in Nat
      BY DEF FrameInv, FrameTyped, SlotShape
    <3> QED BY <3>1 DEF OtherTimelines
  <2>3. [g \in Stages |-> IF g \in stages THEN w[g] ELSE <<>>] \in [Stages -> Waits]
    BY <1>1, <2>1, <2>2 DEF Waits
  <2> QED BY <2>1, <2>3
<1> DEFINE s == [Recorded(Mine(t), stages, thread[t].request) EXCEPT !.waits = waits]
<1>4. thread' = [thread EXCEPT ![t] = r]
  BY <1>2 DEF Record
<1>5. /\ DOMAIN s = DOMAIN Mine(t) /\ s.state = IF stages = {} THEN "idle" ELSE "recording"
      /\ s.recording = stages /\ s.waits = waits /\ s.value = Mine(t).value /\ s.deferred = Mine(t).deferred
      /\ s.retained = Mine(t).retained \cup {thread[t].request}
  BY <1>2 DEF Recorded
<1>6. /\ DOMAIN r = DOMAIN thread[t] /\ r.pc = IF stages = {} THEN "wait" ELSE "send"
      /\ r.defer = Defers(stages) /\ r.todo = IF Defers(stages) THEN stages \ {Download} ELSE stages
      /\ r.slot = k /\ r.request = thread[t].request /\ r.sent = thread[t].sent
  BY <1>2
<1>7. Puts(t, r, k, s)
  BY <1>3, <1>4 DEF Puts, Becomes
<1> HIDE DEF r, s
<1>8. /\ Defers(stages) \in BOOLEAN /\ (Defers(stages) => layout.defer /\ Download \in stages)
  BY DEF Defers
<1>9. ThreadShape(r) /\ SlotShape(s)
  BY <1>1, <1>2, <1>5, <1>6, <1>8 DEF ThreadShape, SlotShape, FrameSteps
<1>10. Leaves(r, s, layout.defer)
  BY <1>5, <1>6, <1>8 DEF Leaves
<1>11. Serves(t, r, k, s)
  <2>1. slots[k].value <= s.value /\ (s.deferred => layout.defer)
    BY <1>2, <1>5 DEF Mine, SlotShape, FrameInv, SlotsKept
  <2> QED BY <1>1, <1>6, <1>7, <1>9, <1>10, <2>1 DEF Serves
<1>12. \A b \in Unfinished : b.slot # k
  BY <1>1, QuietSlot
<1>14. Publishes
  BY <1>1, PublishesNothing
<1>13. s.state # "broken" /\ thread[t].pc \notin Sent /\ poisoned \in BOOLEAN
  BY <1>1, <1>5 DEF Sent, FrameInv, FrameTyped
<1> HIDE DEF k
<1> QED BY <1>1, <1>11, <1>12, <1>13, <1>14, ServedKeeps

\* A thread goes to its next step and leaves its slot as s.
LEMMA GoesOn ==
    ASSUME FrameInv, NEW t \in Threads, thread[t].pc # "idle", NEW next \in FrameSteps, GoesTo(t, next), NEW s, Becomes(t, s)
    PROVE  \E r : /\ Puts(t, r, thread[t].slot, s) /\ ThreadShape(r) /\ r.pc = next
                  /\ r.slot = thread[t].slot /\ r.request = thread[t].request
                  /\ r.todo = thread[t].todo /\ r.defer = thread[t].defer /\ r.sent = thread[t].sent
<1> DEFINE r == [thread[t] EXCEPT !.pc = next]
<1>1. /\ ThreadShape(thread[t]) /\ thread = [u \in Threads |-> thread[u]]
      /\ DOMAIN thread[t] = {"pc", "slot", "request", "todo", "defer", "sent"}
  BY ServingFacts
<1>2. /\ DOMAIN r = DOMAIN thread[t] /\ r.pc = next /\ r.slot = thread[t].slot /\ r.request = thread[t].request
      /\ r.todo = thread[t].todo /\ r.defer = thread[t].defer /\ r.sent = thread[t].sent
  BY <1>1
<1>3. thread' = [thread EXCEPT ![t] = r]
  BY <1>1 DEF GoesTo
<1> HIDE DEF r
<1>4. ThreadShape(r)
  BY <1>1, <1>2 DEF ThreadShape
<1> QED BY <1>2, <1>3, <1>4 DEF Puts, Becomes

\* What a slot's batches need of the step, when the slot is not reset.
LEMMA StillSpared ==
    ASSUME FrameInv, NEW t \in Threads, thread[t].pc # "idle", NEW r, NEW s,
           Mine(t).retained \subseteq s.retained, s.state # "idle",
           s.state = "recording" /\ thread[t].pc = "send" /\ thread[t].sent =>
               r.pc = "send" /\ r.sent /\ r.request = thread[t].request,
           s.state = "recording" => Mine(t).state \in {"idle", "recording"}
    PROVE  \A b \in Unfinished : b.slot = thread[t].slot => Spares(b, r, s)
<1> SUFFICES ASSUME NEW b \in Unfinished, b.slot = thread[t].slot PROVE Spares(b, r, s)
  OBVIOUS
<1>1. BatchKept(b)
  BY DEF FrameInv, BatchesKept
<1>2. b.request \in s.retained
  BY <1>1 DEF BatchKept, Mine
<1>3. ASSUME s.state = "recording" PROVE r.pc = "send" /\ r.sent /\ r.request = b.request
  <2>1. Mine(t).state = "recording"
    BY <1>1, <1>3 DEF BatchKept, Mine
  <2>2. PICK u \in Threads : thread[u].pc = "send" /\ thread[u].sent /\ thread[u].slot = b.slot /\ thread[u].request = b.request
    BY <1>1, <2>1 DEF BatchKept, Mine
  <2>3. u = t
    BY <2>2 DEF FrameInv, LeasesKept
  <2> QED BY <1>3, <2>2, <2>3
<1> QED BY <1>2, <1>3 DEF Spares

LEMMA RecordFailsKeeps ==
    ASSUME FrameInv, NEW t \in Threads, NEW stages \in Frames, RecordFails(t, stages)
    PROVE  FrameInv'
<1> DEFINE k == thread[t].slot
           s == Recorded(Mine(t), stages, thread[t].request)
<1>1. /\ thread[t].pc = "record" /\ Mine(t).state = "idle" /\ stages \subseteq Stages
      /\ Becomes(t, s) /\ GoesTo(t, "failed")
      /\ UNCHANGED <<layout, reached, free, requests, destroyed, queues, poisoned, published>>
  BY VkSlotAssumption DEF RecordFails
<1>2. /\ k \in Slots /\ SlotShape(Mine(t))
      /\ DOMAIN Mine(t) = {"state", "recording", "waits", "value", "deferred", "retained"}
  BY <1>1, ServingFacts
<1>3. /\ DOMAIN s = DOMAIN Mine(t) /\ s.state = IF stages = {} THEN "idle" ELSE "recording"
      /\ s.recording = stages /\ s.waits = Mine(t).waits /\ s.value = Mine(t).value /\ s.deferred = Mine(t).deferred
  BY <1>2 DEF Recorded
<1> HIDE DEF s
<1>4. SlotShape(s)
  BY <1>1, <1>2, <1>3 DEF SlotShape
<1>5. PICK r : Puts(t, r, k, s) /\ ThreadShape(r) /\ r.pc = "failed" /\ r.slot = k /\ r.request = thread[t].request
  BY <1>1, GoesOn DEF FrameSteps
<1>6. Serves(t, r, k, s)
  <2>1. slots[k].value <= s.value /\ (s.deferred => layout.defer)
    BY <1>2, <1>3 DEF Mine, SlotShape, FrameInv, SlotsKept
  <2> QED BY <1>1, <1>4, <1>5, <2>1 DEF Serves, Leaves
<1>7. \A b \in Unfinished : b.slot # k
  BY <1>1, QuietSlot
<1>8. s.state # "broken" /\ thread[t].pc \notin Sent /\ poisoned \in BOOLEAN
  BY <1>1, <1>3 DEF Sent, FrameInv, FrameTyped
<1>9. Publishes
  BY <1>1, PublishesNothing
<1> HIDE DEF k
<1> QED BY <1>1, <1>6, <1>7, <1>8, <1>9, ServedKeeps

LEMMA RecordBrokenKeeps ==
    ASSUME FrameInv, NEW t \in Threads, RecordBroken(t)
    PROVE  FrameInv'
<1> DEFINE k == thread[t].slot
           s == slots[k]
<1>1. /\ thread[t].pc = "record" /\ s.state = "broken" /\ s = Mine(t) /\ GoesTo(t, "failed")
      /\ UNCHANGED <<layout, reached, free, requests, destroyed, slots, queues, poisoned, published>>
  BY DEF RecordBroken, Mine
<1>2. k \in Slots /\ SlotShape(s) /\ slots = [j \in Slots |-> slots[j]]
  BY <1>1, ServingFacts
<1>3. Becomes(t, s)
  BY <1>1, <1>2 DEF Becomes
<1> HIDE DEF s
<1>5. PICK r : Puts(t, r, k, s) /\ ThreadShape(r) /\ r.pc = "failed" /\ r.slot = k /\ r.request = thread[t].request
  BY <1>1, <1>3, GoesOn DEF FrameSteps
<1>6. Serves(t, r, k, s)
  <2>1. slots[k].value <= s.value /\ (s.deferred => layout.defer)
    BY <1>1, <1>2 DEF Mine, SlotShape, FrameInv, SlotsKept
  <2> QED BY <1>1, <1>2, <1>5, <2>1 DEF Serves, Leaves
<1>7. \A b \in Unfinished : b.slot = k => Spares(b, r, s)
  BY <1>1, StillSpared
<1>8. poisoned /\ thread[t].pc \notin Sent /\ poisoned \in BOOLEAN
  BY <1>1, <1>2 DEF Sent, FrameInv, FrameTyped, SlotsKept, Mine
<1>9. Publishes
  BY <1>1, PublishesNothing
<1> HIDE DEF k
<1> QED BY <1>1, <1>6, <1>7, <1>8, <1>9, ServedKeeps

\* submit_stage(g): the batch joins the stage's queue.
LEMMA SubmittedFacts ==
    ASSUME FrameInv, NEW t \in Threads, thread[t].pc # "idle", NEW g \in Stages, NEW s0, Submitted(t, g, s0),
           SlotShape(s0), s0.value = Mine(t).value
    PROVE  \E s : /\ Becomes(t, s) /\ SlotShape(s) /\ s.state = s0.state /\ s.deferred = s0.deferred
                  /\ s.recording = s0.recording \ {g} /\ s.retained = s0.retained /\ s.value = s0.value + 1
                  /\ \A r : r.request = thread[t].request => Sends(r, thread[t].slot, s)
<1> DEFINE s == [s0 EXCEPT !.recording = @ \ {g}, !.value = @ + 1]
           k == thread[t].slot
           b == Batch(t, g)
           q == layout.queue[g]
<1>1. k \in Slots /\ SlotShape(Mine(t)) /\ ThreadShape(thread[t]) /\ Mine(t) = slots[k]
  BY ServingFacts DEF Mine
<1>2. DOMAIN s0 = {"state", "recording", "waits", "value", "deferred", "retained"}
  BY DEF SlotShape, IdleSlot
<1>3. /\ DOMAIN s = DOMAIN s0 /\ s.state = s0.state /\ s.deferred = s0.deferred /\ s.waits = s0.waits
      /\ s.recording = s0.recording \ {g} /\ s.retained = s0.retained /\ s.value = s0.value + 1
  BY <1>2
<1>4. Becomes(t, s) /\ queues' = JoinQueue(queues, q, b)
  BY DEF Submitted, JoinQueue
<1> HIDE DEF s
<1>5. SlotShape(s)
  BY <1>3 DEF SlotShape
<1>6. Mine(t).value \in Nat /\ Mine(t).waits[g] \in Waits /\ thread[t].request \in Nat
  BY <1>1 DEF SlotShape, ThreadShape
<1>7. /\ b \in Batches /\ b.slot = k /\ b.request = thread[t].request /\ b.value = slots[k].value + 1
  BY <1>1, <1>6 DEF Batch, Batches
<1>8. q \in Queues
  BY DEF FrameInv, FrameTyped
<1>9. s.value = b.value
  BY <1>1, <1>3, <1>7
<1> HIDE DEF b, q, k
<1>10. \A r : r.request = thread[t].request => Sends(r, k, s)
  BY <1>4, <1>7, <1>8, <1>9 DEF Sends
<1> QED BY <1>3, <1>4, <1>5, <1>10 DEF k

LEMMA SendNextKeeps ==
    ASSUME FrameInv, NEW t \in Threads, SendNext(t)
    PROVE  FrameInv'
<1> DEFINE k == thread[t].slot
<1>1. /\ thread[t].pc = "send"
      /\ UNCHANGED <<layout, reached, free, requests, destroyed, poisoned, published>>
  BY DEF SendNext
<1>2. PICK g \in Stages : /\ First(t, g) /\ Submitted(t, g, Mine(t))
                          /\ thread' = [thread EXCEPT ![t].todo = @ \ {g}, ![t].sent = TRUE]
  BY DEF SendNext
<1>3. /\ k \in Slots /\ SlotShape(Mine(t)) /\ ThreadShape(thread[t]) /\ thread = [u \in Threads |-> thread[u]]
      /\ Leaves(thread[t], Mine(t), layout.defer) /\ Mine(t) = slots[k] /\ Mine(t).value \in Nat
      /\ DOMAIN thread[t] = {"pc", "slot", "request", "todo", "defer", "sent"}
  BY <1>1, ServingFacts DEF Mine, SlotShape
<1>4. PICK s : /\ Becomes(t, s) /\ SlotShape(s) /\ s.state = Mine(t).state /\ s.deferred = Mine(t).deferred
               /\ s.recording = Mine(t).recording \ {g} /\ s.retained = Mine(t).retained /\ s.value = Mine(t).value + 1
               /\ \A r : r.request = thread[t].request => Sends(r, k, s)
  BY <1>1, <1>2, <1>3, SubmittedFacts
<1> DEFINE r == [thread[t] EXCEPT !.todo = @ \ {g}, !.sent = TRUE]
<1>5. /\ DOMAIN r = DOMAIN thread[t] /\ r.pc = "send" /\ r.slot = k /\ r.request = thread[t].request
      /\ r.todo = thread[t].todo \ {g} /\ r.defer = thread[t].defer /\ r.sent = TRUE
  BY <1>1, <1>3
<1>6. thread' = [thread EXCEPT ![t] = r]
  BY <1>2, <1>3
<1> HIDE DEF r
<1>7. Puts(t, r, k, s) /\ ThreadShape(r)
  <2>1. Puts(t, r, k, s)
    BY <1>4, <1>6 DEF Puts, Becomes
  <2>2. ThreadShape(r)
    BY <1>3, <1>5 DEF ThreadShape, FrameSteps
  <2> QED BY <2>1, <2>2
<1>8. Leaves(r, s, layout.defer)
  <2>1. g \in thread[t].todo
    BY <1>2 DEF First
  <2> QED BY <1>1, <1>3, <1>4, <1>5, <2>1 DEF Leaves
<1>9. Serves(t, r, k, s)
  <2>1. slots[k].value <= s.value /\ (s.deferred => layout.defer)
    BY <1>3, <1>4 DEF FrameInv, SlotsKept
  <2> QED BY <1>1, <1>4, <1>5, <1>7, <1>8, <2>1 DEF Serves
<1>10. s.state = "recording" /\ thread[t].request \in s.retained
  BY <1>1, <1>3, <1>4 DEF Leaves
<1>11. \A b \in Unfinished : b.slot = k => Spares(b, r, s)
  BY <1>1, <1>4, <1>5, <1>10, StillSpared
<1>12. s.state # "broken" /\ thread[t].pc \notin Sent /\ poisoned \in BOOLEAN /\ Publishes
  BY <1>1, <1>10, PublishesNothing DEF Sent, FrameInv, FrameTyped
<1>13. Sends(r, k, s) /\ r.request \in s.retained /\ s.state # "idle" /\ (s.state = "recording" => r.pc = "send" /\ r.sent)
  BY <1>4, <1>5, <1>10
<1> HIDE DEF k
<1> QED BY <1>1, <1>9, <1>11, <1>12, <1>13, ServedKeeps

LEMMA SendFailsKeeps ==
    ASSUME FrameInv, NEW t \in Threads, SendFails(t)
    PROVE  FrameInv'
<1> DEFINE k == thread[t].slot
<1>1. /\ thread[t].pc = "send" /\ GoesTo(t, "failed")
      /\ UNCHANGED <<layout, reached, free, requests, destroyed, queues, poisoned, published>>
  BY DEF SendFails
<1>2. PICK g \in Stages : \E ended \in {{}, {g}} :
          Becomes(t, [Mine(t) EXCEPT !.recording = @ \ ended, !.state = StateAfterFailure(t)])
  BY DEF SendFails
<1>3. PICK ended \in {{}, {g}} : Becomes(t, [Mine(t) EXCEPT !.recording = @ \ ended, !.state = StateAfterFailure(t)])
  BY <1>2
<1> DEFINE s == [Mine(t) EXCEPT !.recording = @ \ ended, !.state = StateAfterFailure(t)]
<1>4. /\ k \in Slots /\ SlotShape(Mine(t)) /\ Leaves(thread[t], Mine(t), layout.defer) /\ Mine(t) = slots[k]
      /\ DOMAIN Mine(t) = {"state", "recording", "waits", "value", "deferred", "retained"}
  BY <1>1, ServingFacts DEF Mine
<1>5. /\ DOMAIN s = DOMAIN Mine(t) /\ s.state = IF thread[t].sent THEN "pending" ELSE "recording"
      /\ s.recording = Mine(t).recording \ ended /\ s.waits = Mine(t).waits /\ s.value = Mine(t).value
      /\ s.deferred = Mine(t).deferred /\ s.retained = Mine(t).retained
  BY <1>4 DEF StateAfterFailure
<1>6. Becomes(t, s)
  BY <1>3
<1> HIDE DEF s
<1>7. SlotShape(s)
  BY <1>4, <1>5 DEF SlotShape
<1>8. PICK r : Puts(t, r, k, s) /\ ThreadShape(r) /\ r.pc = "failed" /\ r.slot = k /\ r.request = thread[t].request
  BY <1>1, <1>6, GoesOn DEF FrameSteps
<1>9. Serves(t, r, k, s)
  <2>1. slots[k].value <= s.value /\ (s.deferred => layout.defer)
    BY <1>4, <1>5 DEF SlotShape, FrameInv, SlotsKept
  <2> QED BY <1>1, <1>7, <1>8, <2>1 DEF Serves, Leaves
<1>10. \A b \in Unfinished : b.slot = k => Spares(b, r, s)
  <2>1. CASE thread[t].sent
    BY <1>1, <1>5, <2>1, StillSpared
  <2>2. CASE ~thread[t].sent
    <3>1. Mine(t).state = "recording"
      BY <1>1, <1>4 DEF Leaves
    <3> QED BY <1>1, <2>2, <3>1, QuietSlot
  <2> QED BY <2>1, <2>2
<1>11. s.state # "broken" /\ thread[t].pc \notin Sent /\ poisoned \in BOOLEAN /\ Publishes
  BY <1>1, <1>5, PublishesNothing DEF Sent, FrameInv, FrameTyped
<1> HIDE DEF k
<1> QED BY <1>1, <1>9, <1>10, <1>11, ServedKeeps

LEMMA EndSubmitKeeps ==
    ASSUME FrameInv, NEW t \in Threads, EndSubmit(t)
    PROVE  FrameInv'
<1> DEFINE k == thread[t].slot
           s == [Mine(t) EXCEPT !.state = "pending", !.deferred = thread[t].defer]
<1>1. /\ thread[t].pc = "send" /\ thread[t].todo = {} /\ GoesTo(t, "wait") /\ Becomes(t, s)
      /\ UNCHANGED <<layout, reached, free, requests, destroyed, queues, poisoned>>
  BY DEF EndSubmit
<1>2. /\ k \in Slots /\ SlotShape(Mine(t)) /\ Leaves(thread[t], Mine(t), layout.defer) /\ Mine(t) = slots[k]
      /\ DOMAIN Mine(t) = {"state", "recording", "waits", "value", "deferred", "retained"}
      /\ ThreadShape(thread[t])
  BY <1>1, ServingFacts DEF Mine
<1>3. /\ DOMAIN s = DOMAIN Mine(t) /\ s.state = "pending"
      /\ s.recording = Mine(t).recording /\ s.waits = Mine(t).waits /\ s.value = Mine(t).value
      /\ s.deferred = thread[t].defer /\ s.retained = Mine(t).retained
  BY <1>2
<1> HIDE DEF s
<1>4. SlotShape(s)
  BY <1>2, <1>3 DEF SlotShape, ThreadShape
<1>5. PICK r : Puts(t, r, k, s) /\ ThreadShape(r) /\ r.pc = "wait" /\ r.slot = k /\ r.request = thread[t].request
  BY <1>1, GoesOn DEF FrameSteps
<1>6. Serves(t, r, k, s)
  <2>1. slots[k].value <= s.value /\ (s.deferred => layout.defer)
    BY <1>1, <1>2, <1>3 DEF SlotShape, Leaves
  <2>2. Leaves(r, s, layout.defer)
    BY <1>1, <1>2, <1>3, <1>5 DEF Leaves
  <2> QED BY <1>1, <1>4, <1>5, <2>1, <2>2 DEF Serves
<1>7. \A b \in Unfinished : b.slot = k => Spares(b, r, s)
  BY <1>1, <1>3, StillSpared
<1>8. s.state # "broken" /\ thread[t].pc \notin Sent /\ poisoned \in BOOLEAN
  BY <1>1, <1>3 DEF Sent, FrameInv, FrameTyped
<1>9. Publishes
  <2>0. [request |-> thread[t].request, slot |-> k, value |-> Mine(t).value] \in Planes
    BY <1>2 DEF Planes, SlotShape, ThreadShape
  <2>9. PICK p \in Planes : p = [request |-> thread[t].request, slot |-> k, value |-> Mine(t).value]
    BY <2>0
  <2>1. p.request = thread[t].request /\ p.slot = k /\ p.value = Mine(t).value /\ p \in Planes
    BY <2>9
  <2>2. published' = IF layout.core THEN Append(published, p) ELSE published
    BY <2>9 DEF EndSubmit
  <2>3. CASE ~layout.core
    BY <2>2, <2>3, PublishesNothing
  <2>4. CASE layout.core
    <3>1. /\ published \in Seq(Planes) /\ published' = Append(published, p) /\ Len(published) \in Nat
          /\ Append(published, p) \in Seq(Planes) /\ Len(Append(published, p)) = Len(published) + 1
          /\ Append(published, p)[Len(published) + 1] = p
          /\ \A i \in 1 .. Len(published) : Append(published, p)[i] = published[i]
      BY <2>1, <2>2, <2>4, AppendProperties, LenProperties DEF FrameInv, FrameTyped
    <3>2. \A i \in 1 .. Len(published') : i \in 1 .. Len(published) \/ i = Len(published) + 1
      BY <3>1
    <3>3. SentAll(p)'
      <4>1. /\ thread[t].request \in 1 .. requests /\ slots'[k] = s /\ thread'[t] = r
            /\ \A u \in Threads \ {t} : thread'[u] = thread[u] /\ thread[u].request # thread[t].request
        BY <1>6, ServesFacts DEF FrameInv
      <4>2. s.recording = {}
        <5>1. ~layout.defer
          BY <2>4 DEF FrameInv, FrameTyped
        <5> QED BY <1>1, <1>2, <1>3, <5>1 DEF Leaves
      <4>3. ASSUME NEW u \in Threads, thread'[u].request = p.request
            PROVE  thread'[u].pc \in Sent /\ thread'[u].slot = p.slot /\ slots'[p.slot].recording = {}
        <5>1. u = t
          BY <2>1, <4>1, <4>3
        <5> QED BY <1>5, <2>1, <4>1, <4>2, <5>1 DEF Sent
      <4>4. ASSUME NEW b \in Unfinished', b.request = p.request PROVE b.slot = p.slot /\ b.value <= p.value
        <5>1. b \in Unfinished
          BY <1>1 DEF Unfinished
        <5>2. BatchKept(b)
          BY <5>1 DEF FrameInv, BatchesKept
        <5> QED BY <1>2, <2>1, <4>4, <5>2 DEF BatchKept
      <4> QED BY <1>1, <2>1, <2>4, <4>1, <4>3, <4>4 DEF SentAll
    <3> QED BY <2>1, <3>1, <3>2, <3>3 DEF Publishes
  <2> QED BY <2>3, <2>4
<1> HIDE DEF k
<1> QED BY <1>1, <1>6, <1>7, <1>8, <1>9, ServedKeeps

LEMMA WaitThenDownloadKeeps ==
    ASSUME FrameInv, NEW t \in Threads, WaitThenDownload(t)
    PROVE  FrameInv'
<1> DEFINE k == thread[t].slot
           r == thread[t]
           s0 == [Mine(t) EXCEPT !.deferred = FALSE]
<1>1. /\ thread[t].pc = "wait" /\ Mine(t).state = "pending" /\ Mine(t).deferred /\ Done(t)
      /\ Submitted(t, Download, s0)
      /\ UNCHANGED <<layout, reached, free, requests, destroyed, thread, poisoned, published>>
  BY DEF WaitThenDownload
<1>2. /\ k \in Slots /\ SlotShape(Mine(t)) /\ Leaves(thread[t], Mine(t), layout.defer) /\ Mine(t) = slots[k]
      /\ DOMAIN Mine(t) = {"state", "recording", "waits", "value", "deferred", "retained"}
      /\ ThreadShape(thread[t]) /\ thread = [u \in Threads |-> thread[u]]
  BY <1>1, ServingFacts DEF Mine
<1>3. /\ DOMAIN s0 = DOMAIN Mine(t) /\ s0.state = "pending" /\ s0.recording = Mine(t).recording
      /\ s0.waits = Mine(t).waits /\ s0.value = Mine(t).value /\ s0.deferred = FALSE /\ s0.retained = Mine(t).retained
  BY <1>1, <1>2
<1> HIDE DEF s0
<1>4. SlotShape(s0) /\ Download \in Stages
  BY <1>2, <1>3 DEF SlotShape, Stages
<1>5. PICK s : /\ Becomes(t, s) /\ SlotShape(s) /\ s.state = s0.state /\ s.deferred = s0.deferred
               /\ s.recording = s0.recording \ {Download} /\ s.retained = s0.retained /\ s.value = s0.value + 1
               /\ Sends(r, k, s)
  BY <1>1, <1>3, <1>4, SubmittedFacts
<1>6. Serves(t, r, k, s)
  <2>1. Puts(t, r, k, s)
    BY <1>1, <1>2, <1>5 DEF Puts, Becomes
  <2>2. slots[k].value <= s.value /\ (s.deferred => layout.defer)
    BY <1>2, <1>3, <1>5 DEF SlotShape
  <2>3. Leaves(r, s, layout.defer)
    BY <1>1, <1>2, <1>3, <1>5 DEF Leaves
  <2> QED BY <1>1, <1>2, <1>5, <2>1, <2>2, <2>3 DEF Serves
<1>7. \A b \in Unfinished : b.slot = k => Spares(b, r, s)
  BY <1>1, <1>3, <1>5, StillSpared
<1>8. ~layout.core
  BY <1>1, <1>2 DEF FrameInv, FrameTyped, SlotsKept
<1>9. s.state = "pending" /\ poisoned \in BOOLEAN /\ Publishes /\ r.request \in s.retained
  BY <1>1, <1>2, <1>3, <1>5, PublishesNothing DEF FrameInv, FrameTyped, Leaves
<1> HIDE DEF k, r
<1> QED BY <1>1, <1>5, <1>6, <1>7, <1>8, <1>9, ServedKeeps

LEMMA DownloadFailsKeeps ==
    ASSUME FrameInv, NEW t \in Threads, DownloadFails(t)
    PROVE  FrameInv'
<1> DEFINE k == thread[t].slot
<1>1. /\ thread[t].pc = "wait" /\ Mine(t).state = "pending" /\ Mine(t).deferred /\ GoesTo(t, "failed")
      /\ UNCHANGED <<layout, reached, free, requests, destroyed, queues, poisoned, published>>
  BY DEF DownloadFails
<1>2. PICK ended \in {{}, {Download}} : Becomes(t, [Mine(t) EXCEPT !.recording = @ \ ended, !.deferred = FALSE])
  BY DEF DownloadFails
<1> DEFINE s == [Mine(t) EXCEPT !.recording = @ \ ended, !.deferred = FALSE]
<1>3. /\ k \in Slots /\ SlotShape(Mine(t)) /\ Mine(t) = slots[k]
      /\ DOMAIN Mine(t) = {"state", "recording", "waits", "value", "deferred", "retained"}
  BY <1>1, ServingFacts DEF Mine
<1>4. /\ DOMAIN s = DOMAIN Mine(t) /\ s.state = "pending"
      /\ s.recording = Mine(t).recording \ ended /\ s.waits = Mine(t).waits /\ s.value = Mine(t).value
      /\ s.deferred = FALSE /\ s.retained = Mine(t).retained
  BY <1>1, <1>3
<1>5. Becomes(t, s)
  BY <1>2
<1> HIDE DEF s
<1>6. SlotShape(s)
  BY <1>3, <1>4 DEF SlotShape
<1>7. PICK r : Puts(t, r, k, s) /\ ThreadShape(r) /\ r.pc = "failed" /\ r.slot = k /\ r.request = thread[t].request
  BY <1>1, <1>5, GoesOn DEF FrameSteps
<1>8. Serves(t, r, k, s)
  <2>1. slots[k].value <= s.value /\ (s.deferred => layout.defer)
    BY <1>3, <1>4 DEF SlotShape
  <2> QED BY <1>1, <1>6, <1>7, <2>1 DEF Serves, Leaves
<1>9. \A b \in Unfinished : b.slot = k => Spares(b, r, s)
  BY <1>1, <1>4, StillSpared
<1>10. ~layout.core
  BY <1>1, <1>3 DEF FrameInv, FrameTyped, SlotsKept
<1>11. s.state # "broken" /\ poisoned \in BOOLEAN /\ Publishes
  BY <1>1, <1>4, PublishesNothing DEF FrameInv, FrameTyped
<1> HIDE DEF k
<1> QED BY <1>1, <1>8, <1>9, <1>10, <1>11, ServedKeeps

LEMMA WaitKeeps ==
    ASSUME FrameInv, NEW t \in Threads, Wait(t)
    PROVE  FrameInv'
<1> DEFINE k == thread[t].slot
           s == Idled(Mine(t))
<1>1. /\ thread[t].pc = "wait" /\ Becomes(t, s) /\ GoesTo(t, "served")
      /\ Mine(t).state \in {"idle", "pending"} /\ (Mine(t).state = "pending" => Done(t))
      /\ UNCHANGED <<layout, reached, free, requests, destroyed, queues, poisoned, published>>
  <2>1. Leaves(thread[t], Mine(t), layout.defer)
    BY ServingFacts DEF Wait
  <2> QED BY <2>1 DEF Wait, Leaves
<1>2. /\ k \in Slots /\ SlotShape(Mine(t)) /\ Mine(t) = slots[k]
      /\ DOMAIN Mine(t) = {"state", "recording", "waits", "value", "deferred", "retained"}
  BY <1>1, ServingFacts DEF Mine
<1>3. /\ DOMAIN s = DOMAIN Mine(t) /\ s.state = "idle" /\ s.recording = {} /\ s.waits = [g \in Stages |-> <<>>]
      /\ s.value = Mine(t).value /\ s.deferred = FALSE
  BY <1>2 DEF Idled
<1> HIDE DEF s
<1>4. SlotShape(s)
  BY <1>2, <1>3 DEF SlotShape, Waits
<1>5. PICK r : Puts(t, r, k, s) /\ ThreadShape(r) /\ r.pc = "served" /\ r.slot = k /\ r.request = thread[t].request
  BY <1>1, GoesOn DEF FrameSteps
<1>6. Serves(t, r, k, s)
  <2>1. slots[k].value <= s.value /\ (s.deferred => layout.defer)
    BY <1>2, <1>3 DEF SlotShape
  <2> QED BY <1>1, <1>3, <1>4, <1>5, <2>1 DEF Serves, Leaves
<1>7. \A b \in Unfinished : b.slot # k
  BY <1>1, QuietSlot
<1>8. s.state # "broken" /\ r.pc \in Sent /\ s.recording = {} /\ poisoned \in BOOLEAN /\ Publishes
  BY <1>1, <1>3, <1>5, PublishesNothing DEF Sent, FrameInv, FrameTyped
<1> HIDE DEF k
<1> QED BY <1>1, <1>6, <1>7, <1>8, ServedKeeps

LEMMA WaitFailsKeeps ==
    ASSUME FrameInv, NEW t \in Threads, WaitFails(t)
    PROVE  FrameInv'
<1> DEFINE k == thread[t].slot
           s == FailSlot(Mine(t))
<1>1. /\ thread[t].pc \in {"wait", "failed"} /\ Becomes(t, s) /\ GoesTo(t, "failed") /\ poisoned' = TRUE
      /\ Mine(t).state = "pending"
      /\ UNCHANGED <<layout, reached, free, requests, destroyed, queues, published>>
  BY DEF WaitFails, Fail
<1>2. /\ k \in Slots /\ SlotShape(Mine(t)) /\ Mine(t) = slots[k]
      /\ DOMAIN Mine(t) = {"state", "recording", "waits", "value", "deferred", "retained"}
  BY <1>1, ServingFacts DEF Mine
<1>3. /\ DOMAIN s = DOMAIN Mine(t) /\ s.state = "broken" /\ s.recording = Mine(t).recording /\ s.waits = Mine(t).waits
      /\ s.value = Mine(t).value /\ s.deferred = Mine(t).deferred /\ s.retained = Mine(t).retained
  BY <1>2 DEF FailSlot
<1> HIDE DEF s
<1>4. SlotShape(s)
  BY <1>2, <1>3 DEF SlotShape
<1>5. PICK r : Puts(t, r, k, s) /\ ThreadShape(r) /\ r.pc = "failed" /\ r.slot = k /\ r.request = thread[t].request
  BY <1>1, GoesOn DEF FrameSteps
<1>6. Serves(t, r, k, s)
  <2>1. slots[k].value <= s.value /\ (s.deferred => layout.defer)
    BY <1>2, <1>3 DEF SlotShape, FrameInv, SlotsKept
  <2> QED BY <1>1, <1>4, <1>5, <2>1 DEF Serves, Leaves
<1>7. \A b \in Unfinished : b.slot = k => Spares(b, r, s)
  BY <1>1, <1>3, StillSpared
<1>8. /\ poisoned' \in BOOLEAN /\ Publishes /\ r.pc \in Sent
      /\ slots[k].recording = {} => s.recording = {}
  BY <1>1, <1>2, <1>3, <1>5, PublishesNothing DEF Sent
<1> HIDE DEF k
<1> QED BY <1>1, <1>6, <1>7, <1>8, ServedKeeps

-----------------------------------------------------------------------------
(* Leases.                                                                 *)

\* The planes published before are kept, when each is.
LEMMA PublishedAgain ==
    ASSUME published \in Seq(Planes), UNCHANGED published,
           \A i \in 1 .. Len(published) : \A p \in Planes : p = published[i] => SentAll(p)'
    PROVE  PublishedKept'
<1>1. ASSUME NEW i \in 1 .. Len(published') PROVE SentAll(published[i])'
  <2>1. published[i] \in Planes /\ i \in 1 .. Len(published) /\ published'[i] = published[i]
    BY <1>1, ElementOfSeq
  <2>2. PICK p \in Planes : p = published[i] /\ p = published'[i]
    BY <2>1
  <2>3. SentAll(p)'
    BY <2>1, <2>2
  <2> QED BY <2>2, <2>3 DEF SentAll
<1> QED BY <1>1 DEF PublishedKept

\* Thread t takes the slot given back last, for a request of its own.
LEMMA LeaseFacts ==
    ASSUME FrameInv, NEW t \in Threads, Lease(t)
    PROVE  \E n \in Nat : \E k \in Slots : \E r :
              /\ n + 1 = Len(free) /\ free[n + 1] = k /\ free' \in Seq(Slots) /\ Len(free') = n
              /\ \A i \in 1 .. n : free'[i] = free[i]
              /\ r.pc = "record" /\ r.slot = k /\ r.request = requests + 1 /\ ThreadShape(r)
              /\ thread' = [u \in Threads |-> thread'[u]] /\ thread'[t] = r
              /\ \A u \in Threads \ {t} : thread'[u] = thread[u]
<1> DEFINE n == Len(free) - 1
           k == Last(free)
           r == [NoRequest EXCEPT !.pc = "record", !.slot = k, !.request = requests + 1]
<1>1. /\ free \in Seq(Slots) /\ free # <<>> /\ requests \in Nat /\ thread = [u \in Threads |-> thread[u]]
      /\ thread' = [thread EXCEPT ![t] = r] /\ free' = Front(free)
  BY DEF Lease, FrameInv, FrameTyped
<1>2. n \in Nat /\ n + 1 = Len(free) /\ n + 1 \in 1 .. Len(free) /\ free[n + 1] = k /\ k \in Slots
  <2>1. Len(free) \in Nat /\ Len(free) # 0
    BY <1>1, LenProperties, EmptySeq
  <2>2. n \in Nat /\ n + 1 = Len(free) /\ n + 1 \in 1 .. Len(free)
    BY <2>1
  <2> QED BY <1>1, <2>2, ElementOfSeq DEF Last
<1>3. free' \in Seq(Slots) /\ Len(free') = n /\ \A i \in 1 .. n : free'[i] = free[i]
  <2>1. \A i \in 1 .. n : free[i] \in Slots
    BY <1>1, <1>2, ElementOfSeq
  <2>2. free' = SubSeq(free, 1, n)
    BY <1>1 DEF Front
  <2>3. /\ SubSeq(free, 1, n) \in Seq(Slots) /\ Len(SubSeq(free, 1, n)) = IF 1 <= n THEN n - 1 + 1 ELSE 0
        /\ \A i \in 1 .. n - 1 + 1 : SubSeq(free, 1, n)[i] = free[1 + i - 1]
    <3> HIDE DEF n
    <3> QED BY <1>2, <2>1, SubSeqProperties
  <2> HIDE DEF n
  <2> QED BY <1>2, <2>2, <2>3
<1>4. /\ DOMAIN r = DOMAIN NoRequest /\ r.pc = "record" /\ r.slot = k /\ r.request = requests + 1 /\ r.todo = {}
      /\ r.defer = FALSE /\ r.sent = FALSE
  BY DEF NoRequest
<1> HIDE DEF k, n, r
<1>5. ThreadShape(r)
  <2>1. r.pc \in FrameSteps /\ r.slot \in Slots \cup {0} /\ r.request \in Nat
    BY <1>1, <1>2, <1>4 DEF FrameSteps
  <2>2. r.todo \subseteq Stages /\ r.defer \in BOOLEAN /\ r.sent \in BOOLEAN
    BY <1>4
  <2> QED BY <1>4, <2>1, <2>2 DEF ThreadShape
<1>6. thread' = [u \in Threads |-> thread'[u]] /\ thread'[t] = r /\ \A u \in Threads \ {t} : thread'[u] = thread[u]
  BY <1>1
<1> QED BY <1>2, <1>3, <1>4, <1>5, <1>6

LEMMA LeaseKeeps ==
    ASSUME FrameInv, NEW t \in Threads, Lease(t)
    PROVE  FrameInv'
<1>0. FrameTyped /\ LeasesKept /\ BatchesKept /\ SlotsKept /\ PublishedKept /\ EndKept
  BY DEF FrameInv
<1>1. PICK n \in Nat : \E k \in Slots : \E r :
              /\ n + 1 = Len(free) /\ free[n + 1] = k /\ free' \in Seq(Slots) /\ Len(free') = n
              /\ \A i \in 1 .. n : free'[i] = free[i]
              /\ r.pc = "record" /\ r.slot = k /\ r.request = requests + 1 /\ ThreadShape(r)
              /\ thread' = [u \in Threads |-> thread'[u]] /\ thread'[t] = r
              /\ \A u \in Threads \ {t} : thread'[u] = thread[u]
  BY LeaseFacts
<1>2. PICK k \in Slots : \E r :
              /\ n + 1 = Len(free) /\ free[n + 1] = k /\ free' \in Seq(Slots) /\ Len(free') = n
              /\ \A i \in 1 .. n : free'[i] = free[i]
              /\ r.pc = "record" /\ r.slot = k /\ r.request = requests + 1 /\ ThreadShape(r)
              /\ thread' = [u \in Threads |-> thread'[u]] /\ thread'[t] = r
              /\ \A u \in Threads \ {t} : thread'[u] = thread[u]
  BY <1>1
<1>3. PICK r :
              /\ n + 1 = Len(free) /\ free[n + 1] = k /\ free' \in Seq(Slots) /\ Len(free') = n
              /\ \A i \in 1 .. n : free'[i] = free[i]
              /\ r.pc = "record" /\ r.slot = k /\ r.request = requests + 1 /\ ThreadShape(r)
              /\ thread' = [u \in Threads |-> thread'[u]] /\ thread'[t] = r
              /\ \A u \in Threads \ {t} : thread'[u] = thread[u]
  BY <1>2
<1>4. /\ thread[t].pc = "idle" /\ destroyed = {} /\ requests' = requests + 1 /\ requests \in Nat
      /\ UNCHANGED <<layout, slots, queues, reached, poisoned, published, destroyed>>
  BY <1>0 DEF Lease, FrameTyped
<1>5. /\ thread[t].slot = 0 /\ thread[t].request = 0
      /\ \A u \in Threads : thread[u].slot # k /\ thread[u].request # requests + 1
      /\ \A i \in 1 .. n : free[i] # k /\ i \in 1 .. Len(free)
  <2>1. n + 1 \in 1 .. Len(free) /\ \A i \in 1 .. n : i \in 1 .. Len(free) /\ i # n + 1
    BY <1>3
  <2>2. thread[t].slot = 0 /\ thread[t].request = 0
    BY <1>0, <1>4 DEF LeasesKept
  <2>3. \A u \in Threads : thread[u].slot # k
    BY <1>0, <1>3, <2>1 DEF LeasesKept
  <2>4. \A i \in 1 .. n : free[i] # k
    BY <1>0, <1>3, <2>1 DEF LeasesKept
  <2>5. \A u \in Threads : thread[u].request = 0 \/ thread[u].request \in 1 .. requests
    BY <1>0 DEF LeasesKept
  <2>6. \A m \in 1 .. requests : m # requests + 1
    BY <1>4
  <2>7. 0 # requests + 1
    BY <1>4
  <2> QED BY <2>1, <2>2, <2>3, <2>4, <2>5, <2>6, <2>7
<1>6. FrameTyped'
  <2>1. \A u \in Threads : ThreadShape(thread'[u])
    BY <1>0, <1>3 DEF FrameTyped
  <2> QED BY <1>0, <1>3, <1>4, <2>1 DEF FrameTyped
<1>7. LeasesKept'
  <2>1. \A i, j \in 1 .. Len(free') : free'[i] = free'[j] => i = j
    BY <1>0, <1>3, <1>5 DEF LeasesKept
  <2>2. \A i \in 1 .. Len(free'), u \in Threads : free'[i] # thread'[u].slot
    BY <1>0, <1>3, <1>5 DEF LeasesKept
  <2>3. \A u \in Threads : IF thread'[u].pc = "idle" THEN thread'[u].slot = 0 /\ thread'[u].request = 0
                           ELSE thread'[u].slot \in Slots /\ thread'[u].request \in 1 .. requests'
    <3>1. requests + 1 \in 1 .. requests' /\ \A m \in 1 .. requests : m \in 1 .. requests'
      BY <1>4
    <3> QED BY <1>0, <1>3, <3>1 DEF LeasesKept
  <2>4. \A u, v \in Threads :
            (/\ thread'[u].pc # "idle" /\ thread'[v].pc # "idle"
             /\ thread'[u].slot = thread'[v].slot \/ thread'[u].request = thread'[v].request) => u = v
    BY <1>0, <1>3, <1>5 DEF LeasesKept
  <2> QED BY <2>1, <2>2, <2>3, <2>4 DEF LeasesKept
<1>8. BatchesKept'
  <2>1. Unfinished' = Unfinished /\ Once(queues')
    BY <1>0, <1>4 DEF Unfinished, BatchesKept
  <2>2. ASSUME NEW b \in Unfinished PROVE BatchKept(b)'
    <3>1. BatchKept(b)
      BY <1>0 DEF BatchesKept
    <3>2. b.request \in 1 .. requests' /\ b.request # requests + 1
      BY <1>4, <3>1 DEF BatchKept
    <3>3. \A u \in Threads : thread'[u].request = b.request => thread'[u].slot = b.slot
      BY <1>3, <3>1, <3>2 DEF BatchKept
    <3>4. slots[b.slot].state = "recording" =>
              \E u \in Threads : /\ thread'[u].pc = "send" /\ thread'[u].sent
                                 /\ thread'[u].slot = b.slot /\ thread'[u].request = b.request
      BY <1>3, <1>4, <3>1 DEF BatchKept
    <3> QED BY <1>4, <3>1, <3>2, <3>3, <3>4 DEF BatchKept
  <2> QED BY <2>1, <2>2 DEF BatchesKept
<1>9. SlotsKept'
  <2>1. slots[k].state \in {"idle", "broken"}
    <3>1. slots[k].state \in {"idle", "recording", "pending", "broken"}
      BY <1>0 DEF FrameTyped, SlotShape
    <3> QED BY <1>0, <1>5, <3>1 DEF SlotsKept
  <2>2. ASSUME NEW u \in Threads, thread'[u].pc # "idle" PROVE Leaves(thread'[u], slots'[thread'[u].slot], layout'.defer)
    <3>1. CASE u = t
      BY <1>3, <1>4, <2>1, <3>1 DEF Leaves
    <3>2. CASE u # t
      <4>1. Leaves(thread[u], slots[thread[u].slot], layout.defer) /\ thread'[u] = thread[u]
        BY <1>0, <1>3, <2>2, <3>2 DEF SlotsKept
      <4> QED BY <1>4, <4>1 DEF Leaves
    <3> QED BY <3>1, <3>2
  <2>3. ASSUME NEW j \in Slots PROVE (\E u \in Threads : thread[u].slot = j) => \E u \in Threads : thread'[u].slot = j
    BY <1>3, <1>5, NoSlotZero
  <2> QED BY <1>0, <1>4, <2>2, <2>3 DEF SlotsKept
<1>10. PublishedKept'
  <2>1. ASSUME NEW i \in 1 .. Len(published), NEW p \in Planes, p = published[i] PROVE SentAll(p)'
    <3>1. SentAll(p)
      BY <1>0, <2>1 DEF PublishedKept
    <3>2. p.request \in 1 .. requests' /\ p.request # requests + 1
      BY <1>4, <3>1 DEF SentAll
    <3>3. \A u \in Threads : thread'[u].request = p.request =>
              thread'[u].pc \in Sent /\ thread'[u].slot = p.slot /\ slots[p.slot].recording = {}
      BY <1>3, <3>1, <3>2 DEF SentAll
    <3>4. Unfinished' = Unfinished
      BY <1>4 DEF Unfinished
    <3> QED BY <1>4, <3>1, <3>2, <3>3, <3>4 DEF SentAll
  <2> QED BY <1>0, <1>4, <2>1, PublishedAgain DEF FrameTyped
<1>11. EndKept'
  BY <1>4 DEF EndKept
<1> QED BY <1>6, <1>7, <1>8, <1>9, <1>10, <1>11 DEF FrameInv

\* The slot that is given back: as it was when it is broken, else idle, and no
\* batch of it is in a queue.
LEMMA GiveBackFacts ==
    ASSUME FrameInv, NEW t \in Threads, GiveBack(t)
    PROVE  \E k \in Slots : \E s :
              /\ thread[t].slot = k /\ thread[t].pc \in {"failed", "served"} /\ SlotShape(s) /\ s.value = slots[k].value
              /\ s.deferred => layout.defer
              /\ (s = slots[k] /\ s.state = "broken") \/ (s.state = "idle" /\ \A b \in Unfinished : b.slot # k)
              /\ slots' = [j \in Slots |-> slots'[j]] /\ slots'[k] = s /\ \A j \in Slots \ {k} : slots'[j] = slots[j]
              /\ thread' = [u \in Threads |-> thread'[u]] /\ thread'[t] = NoRequest
              /\ \A u \in Threads \ {t} : thread'[u] = thread[u] /\ thread[u].slot # k
<1> DEFINE k == thread[t].slot
           s == IF Mine(t).state = "broken" THEN Mine(t) ELSE Idled(Mine(t))
<1>1. /\ thread[t].pc \in {"failed", "served"} /\ MaySettle(t) /\ Becomes(t, s)
      /\ thread' = [thread EXCEPT ![t] = NoRequest]
  BY DEF GiveBack
<1>2. /\ k \in Slots /\ SlotShape(Mine(t)) /\ Mine(t) = slots[k]
      /\ DOMAIN Mine(t) = {"state", "recording", "waits", "value", "deferred", "retained"}
      /\ thread = [u \in Threads |-> thread[u]] /\ slots = [j \in Slots |-> slots[j]]
  BY <1>1, ServingFacts DEF Mine
<1>3. /\ SlotShape(s) /\ s.value = slots[k].value /\ (s.deferred => layout.defer)
      /\ (s = slots[k] /\ s.state = "broken") \/ (s.state = "idle" /\ \A b \in Unfinished : b.slot # k)
  <2>1. CASE Mine(t).state = "broken"
    <3>1. s = slots[k] /\ s.state = "broken"
      BY <1>2, <2>1
    <3> HIDE DEF s
    <3>2. SlotShape(s) /\ (s.deferred => layout.defer)
      BY <1>2, <3>1 DEF FrameInv, SlotsKept
    <3> QED BY <3>1, <3>2
  <2>2. CASE Mine(t).state # "broken"
    <3> DEFINE idled == Idled(Mine(t))
    <3>1. /\ DOMAIN idled = DOMAIN Mine(t) /\ idled.state = "idle" /\ idled.recording = {}
          /\ idled.waits = [g \in Stages |-> <<>>] /\ idled.value = Mine(t).value /\ idled.deferred = FALSE
      BY <1>2 DEF Idled
    <3>2. s = idled
      BY <2>2
    <3> HIDE DEF idled, s
    <3>3. SlotShape(idled)
      BY <1>2, <3>1 DEF SlotShape, Waits
    <3>4. \A b \in Unfinished : b.slot # k
      <4>1. Mine(t).state \in {"idle", "recording", "pending"}
        BY <1>2, <2>2 DEF SlotShape
      <4>2. Mine(t).state = "idle" \/ Done(t) \/ (Mine(t).state = "recording" /\ ~(thread[t].pc = "send" /\ thread[t].sent))
        BY <1>1, <4>1 DEF MaySettle
      <4>3. thread[t].pc # "idle"
        BY <1>1
      <4> QED BY <4>2, <4>3, QuietSlot
    <3> QED BY <1>2, <3>1, <3>2, <3>3, <3>4
  <2> QED BY <2>1, <2>2
<1>4. \A u \in Threads \ {t} : thread[u].slot # k
  <2>1. ASSUME NEW u \in Threads \ {t} PROVE thread[u].slot # k
    <3>1. CASE thread[u].pc = "idle"
      <4>1. thread[u].slot = 0
        BY <3>1 DEF FrameInv, LeasesKept
      <4> QED BY <1>2, <4>1, NoSlotZero
    <3>2. CASE thread[u].pc # "idle"
      BY <1>1, <3>2 DEF FrameInv, LeasesKept
    <3> QED BY <3>1, <3>2
  <2> QED BY <2>1
<1>5. slots' = [slots EXCEPT ![k] = s]
  BY <1>1 DEF Becomes
<1> HIDE DEF s
<1>6. /\ slots' = [j \in Slots |-> slots'[j]] /\ slots'[k] = s /\ \A j \in Slots \ {k} : slots'[j] = slots[j]
      /\ thread' = [u \in Threads |-> thread'[u]] /\ thread'[t] = NoRequest
      /\ \A u \in Threads \ {t} : thread'[u] = thread[u]
  BY <1>1, <1>2, <1>5
<1> HIDE DEF k
<1> QED BY <1>1, <1>2, <1>3, <1>4, <1>6 DEF k

LEMMA GiveBackKeeps ==
    ASSUME FrameInv, NEW t \in Threads, GiveBack(t)
    PROVE  FrameInv'
<1>0. FrameTyped /\ LeasesKept /\ BatchesKept /\ SlotsKept /\ PublishedKept /\ EndKept
  BY DEF FrameInv
<1>1. PICK k \in Slots : \E s :
              /\ thread[t].slot = k /\ thread[t].pc \in {"failed", "served"} /\ SlotShape(s) /\ s.value = slots[k].value
              /\ s.deferred => layout.defer
              /\ (s = slots[k] /\ s.state = "broken") \/ (s.state = "idle" /\ \A b \in Unfinished : b.slot # k)
              /\ slots' = [j \in Slots |-> slots'[j]] /\ slots'[k] = s /\ \A j \in Slots \ {k} : slots'[j] = slots[j]
              /\ thread' = [u \in Threads |-> thread'[u]] /\ thread'[t] = NoRequest
              /\ \A u \in Threads \ {t} : thread'[u] = thread[u] /\ thread[u].slot # k
  BY GiveBackFacts
<1>2. PICK s :
              /\ thread[t].slot = k /\ thread[t].pc \in {"failed", "served"} /\ SlotShape(s) /\ s.value = slots[k].value
              /\ s.deferred => layout.defer
              /\ (s = slots[k] /\ s.state = "broken") \/ (s.state = "idle" /\ \A b \in Unfinished : b.slot # k)
              /\ slots' = [j \in Slots |-> slots'[j]] /\ slots'[k] = s /\ \A j \in Slots \ {k} : slots'[j] = slots[j]
              /\ thread' = [u \in Threads |-> thread'[u]] /\ thread'[t] = NoRequest
              /\ \A u \in Threads \ {t} : thread'[u] = thread[u] /\ thread[u].slot # k
  BY <1>1
<1>3. /\ free' = Append(free, k) /\ free \in Seq(Slots) /\ requests \in Nat
      /\ UNCHANGED <<layout, queues, reached, poisoned, published, requests, destroyed>>
  BY <1>0, <1>2 DEF GiveBack, FrameTyped
<1>4. /\ free' \in Seq(Slots) /\ Len(free) \in Nat /\ Len(free') = Len(free) + 1
      /\ \A i \in 1 .. Len(free') : (i \in 1 .. Len(free) /\ free'[i] = free[i]) \/ (i = Len(free) + 1 /\ free'[i] = k)
  <2>1. /\ Append(free, k) \in Seq(Slots) /\ Len(free) \in Nat /\ Len(Append(free, k)) = Len(free) + 1
        /\ Append(free, k)[Len(free) + 1] = k /\ \A i \in 1 .. Len(free) : Append(free, k)[i] = free[i]
    BY <1>3, AppendProperties, LenProperties
  <2>2. \A i \in 1 .. Len(free) + 1 : i \in 1 .. Len(free) \/ i = Len(free) + 1
    BY <2>1
  <2>3. free' = Append(free, k)
    BY <1>3
  <2>4. ASSUME NEW i \in 1 .. Len(free') PROVE (i \in 1 .. Len(free) /\ free'[i] = free[i]) \/ (i = Len(free) + 1 /\ free'[i] = k)
    <3>1. i \in 1 .. Len(free) \/ i = Len(free) + 1
      BY <2>1, <2>2, <2>3
    <3> QED BY <2>1, <2>3, <3>1
  <2> QED BY <2>1, <2>3, <2>4
<1>5. /\ NoRequest.pc = "idle" /\ NoRequest.slot = 0 /\ NoRequest.request = 0 /\ ThreadShape(NoRequest)
      /\ 0 \notin Slots
  BY NoSlotZero DEF NoRequest, ThreadShape, FrameSteps
<1>6. FrameTyped'
  <2>1. \A u \in Threads : ThreadShape(thread'[u])
    BY <1>0, <1>2, <1>5 DEF FrameTyped
  <2>2. \A j \in Slots : SlotShape(slots'[j])
    BY <1>0, <1>2 DEF FrameTyped
  <2> QED BY <1>0, <1>2, <1>3, <1>4, <2>1, <2>2 DEF FrameTyped
<1>7. LeasesKept'
  <2>0. \A i \in 1 .. Len(free) : free[i] # k /\ free[i] \in Slots
    BY <1>0, <1>2, <1>3, ElementOfSeq DEF LeasesKept
  <2>1. \A i, j \in 1 .. Len(free') : free'[i] = free'[j] => i = j
    BY <1>0, <1>4, <2>0 DEF LeasesKept
  <2>2. ASSUME NEW i \in 1 .. Len(free'), NEW u \in Threads PROVE free'[i] # thread'[u].slot
    <3>1. free'[i] \in Slots
      BY <1>4, <2>0
    <3>2. CASE u = t
      BY <1>2, <1>5, <3>1, <3>2
    <3>3. CASE u # t
      BY <1>0, <1>2, <1>4, <3>3 DEF LeasesKept
    <3> QED BY <3>2, <3>3
  <2>3. \A u \in Threads : IF thread'[u].pc = "idle" THEN thread'[u].slot = 0 /\ thread'[u].request = 0
                           ELSE thread'[u].slot \in Slots /\ thread'[u].request \in 1 .. requests'
    BY <1>0, <1>2, <1>3, <1>5 DEF LeasesKept
  <2>4. \A u, v \in Threads :
            (/\ thread'[u].pc # "idle" /\ thread'[v].pc # "idle"
             /\ thread'[u].slot = thread'[v].slot \/ thread'[u].request = thread'[v].request) => u = v
    BY <1>0, <1>2, <1>5 DEF LeasesKept
  <2> QED BY <2>1, <2>2, <2>3, <2>4 DEF LeasesKept
<1>8. BatchesKept'
  <2>1. Unfinished' = Unfinished /\ Once(queues')
    BY <1>0, <1>3 DEF Unfinished, BatchesKept
  <2>2. ASSUME NEW b \in Unfinished PROVE BatchKept(b)'
    <3>1. BatchKept(b)
      BY <1>0 DEF BatchesKept
    <3>2. slots'[b.slot] = slots[b.slot]
      <4>1. b \in Batches
        BY <1>0, BatchPlaces DEF FrameTyped, Unfinished, BatchesOf
      <4>2. b.slot \in Slots
        BY <4>1 DEF Batches
      <4> QED BY <1>2, <4>2
    <3>3. \A u \in Threads : thread'[u].request = b.request => thread'[u].slot = b.slot
      <4>1. b.request # 0
        BY <3>1, <1>3 DEF BatchKept
      <4> QED BY <1>2, <1>5, <3>1, <4>1 DEF BatchKept
    <3>4. slots[b.slot].state = "recording" =>
              \E u \in Threads : /\ thread'[u].pc = "send" /\ thread'[u].sent
                                 /\ thread'[u].slot = b.slot /\ thread'[u].request = b.request
      BY <1>2, <3>1 DEF BatchKept
    <3> QED BY <1>3, <3>1, <3>2, <3>3, <3>4 DEF BatchKept
  <2> QED BY <2>1, <2>2 DEF BatchesKept
<1>9. SlotsKept'
  <2>2. ASSUME NEW u \in Threads, thread'[u].pc # "idle" PROVE Leaves(thread'[u], slots'[thread'[u].slot], layout'.defer)
    <3>1. u # t
      BY <1>2, <1>5, <2>2
    <3>2. Leaves(thread[u], slots[thread[u].slot], layout.defer) /\ thread'[u] = thread[u] /\ thread[u].slot \in Slots \ {k}
      BY <1>0, <1>2, <2>2, <3>1 DEF SlotsKept, LeasesKept
    <3>3. slots'[thread[u].slot] = slots[thread[u].slot]
      BY <1>2, <3>2
    <3> QED BY <1>3, <3>2, <3>3 DEF Leaves
  <2>3. ASSUME NEW j \in Slots
        PROVE  /\ slots'[j].state \in {"recording", "pending"} => \E u \in Threads : thread'[u].slot = j
               /\ slots'[j].state = "broken" => poisoned'
               /\ slots'[j].deferred => layout'.defer
               /\ reached'[j] <= slots'[j].value
    <3>1. CASE j = k
      BY <1>0, <1>2, <1>3, <3>1 DEF SlotsKept
    <3>2. CASE j # k
      <4>1. slots'[j] = slots[j]
        BY <1>2, <3>2
      <4>2. \A u \in Threads : thread[u].slot = j => thread'[u].slot = j
        BY <1>2, <3>2
      <4> QED BY <1>0, <1>3, <4>1, <4>2 DEF SlotsKept
    <3> QED BY <3>1, <3>2
  <2> QED BY <2>2, <2>3 DEF SlotsKept
<1>10. PublishedKept'
  <2>1. ASSUME NEW i \in 1 .. Len(published), NEW p \in Planes, p = published[i] PROVE SentAll(p)'
    <3>1. SentAll(p) /\ p.slot \in Slots
      BY <1>0, <2>1 DEF PublishedKept, Planes
    <3>2. p.request # 0
      BY <1>3, <3>1 DEF SentAll
    <3>3. ASSUME NEW u \in Threads, thread'[u].request = p.request
          PROVE  thread'[u].pc \in Sent /\ thread'[u].slot = p.slot /\ slots'[p.slot].recording = {}
      <4>1. u # t
        BY <1>2, <1>5, <3>2, <3>3
      <4>2. thread'[u] = thread[u] /\ thread[u].slot # k
        BY <1>2, <4>1
      <4> QED BY <1>2, <3>1, <3>3, <4>2 DEF SentAll
    <3>4. Unfinished' = Unfinished
      BY <1>3 DEF Unfinished
    <3> QED BY <1>3, <3>1, <3>3, <3>4 DEF SentAll
  <2> QED BY <1>0, <1>3, <2>1, PublishedAgain DEF FrameTyped
<1>11. EndKept'
  BY <1>0, <1>2, <1>3 DEF EndKept
<1> QED BY <1>6, <1>7, <1>8, <1>9, <1>10, <1>11 DEF FrameInv

-----------------------------------------------------------------------------
(* The queues and the end.                                                 *)

LEMMA FinishKeeps ==
    ASSUME FrameInv, NEW q \in Queues, Finish(q)
    PROVE  FrameInv'
<1>0. FrameTyped /\ LeasesKept /\ BatchesKept /\ SlotsKept /\ PublishedKept /\ EndKept
  BY DEF FrameInv
<1> DEFINE b == Head(queues[q])
<1>1. /\ queues[q] # <<>> /\ queues' = ShortQueue(queues, q)
      /\ reached[b.slot] = b.value - 1 /\ reached' = [reached EXCEPT ![b.slot] = b.value]
      /\ UNCHANGED <<layout, slots, poisoned, free, thread, published, requests, destroyed>>
  BY DEF Finish, ShortQueue
<1>2. queues \in [Queues -> Seq(Batches)] /\ reached \in [Slots -> Nat] /\ Once(queues)
  BY <1>0 DEF FrameTyped, BatchesKept
<1>3. Unfinished = BatchesOf(queues) /\ Unfinished' = BatchesOf(queues')
  BY DEF Unfinished, BatchesOf
<1>4. /\ queues' \in [Queues -> Seq(Batches)] /\ Once(queues') /\ b \in Unfinished /\ b \in Batches
      /\ \A c \in Unfinished' : c \in Unfinished /\ (c.slot = b.slot => c.value # b.value)
  BY <1>1, <1>2, <1>3, QueueShrinks
<1> HIDE DEF b
<1>5. /\ b.slot \in Slots /\ b.value \in Nat /\ b.value <= slots[b.slot].value
      /\ reached' \in [Slots -> Nat] /\ reached'[b.slot] = b.value /\ \A j \in Slots \ {b.slot} : reached'[j] = reached[j]
  <2>1. b.slot \in Slots /\ b.value \in Nat
    BY <1>4 DEF Batches
  <2>2. b.value <= slots[b.slot].value
    BY <1>0, <1>4 DEF BatchesKept, BatchKept
  <2> QED BY <1>1, <1>2, <2>1, <2>2
<1>6. FrameTyped'
  BY <1>0, <1>1, <1>4, <1>5 DEF FrameTyped
<1>7. LeasesKept'
  BY <1>0, <1>1 DEF LeasesKept
<1>8. BatchesKept'
  <2>1. ASSUME NEW c \in Unfinished' PROVE BatchKept(c)'
    <3>1. BatchKept(c) /\ c \in Batches
      <4>1. c \in Unfinished
        BY <1>4
      <4> QED BY <1>0, <1>2, <1>3, <4>1, BatchPlaces DEF BatchesKept
    <3>2. c.slot \in Slots /\ c.value \in Nat
      BY <3>1 DEF Batches
    <3>3. reached'[c.slot] < c.value
      <4>1. CASE c.slot = b.slot
        <5>1. c.value # b.value /\ b.value - 1 < c.value
          BY <1>1, <1>4, <3>1, <4>1 DEF BatchKept
        <5> QED BY <1>5, <3>2, <4>1, <5>1
      <4>2. CASE c.slot # b.slot
        BY <1>5, <3>1, <3>2, <4>2 DEF BatchKept
      <4> QED BY <4>1, <4>2
    <3> QED BY <1>1, <3>1, <3>3 DEF BatchKept
  <2> QED BY <1>4, <2>1 DEF BatchesKept
<1>9. SlotsKept'
  <2>1. ASSUME NEW j \in Slots PROVE reached'[j] <= slots[j].value
    BY <1>0, <1>5 DEF SlotsKept
  <2> QED BY <1>0, <1>1, <2>1 DEF SlotsKept
<1>10. PublishedKept'
  <2>1. ASSUME NEW i \in 1 .. Len(published), NEW p \in Planes, p = published[i] PROVE SentAll(p)'
    <3>1. SentAll(p)
      BY <1>0, <2>1 DEF PublishedKept
    <3> QED BY <1>1, <1>4, <3>1 DEF SentAll
  <2> QED BY <1>0, <1>1, <2>1, PublishedAgain DEF FrameTyped
<1>11. EndKept'
  BY <1>0, <1>1, <1>4 DEF EndKept
<1> QED BY <1>6, <1>7, <1>8, <1>9, <1>10, <1>11 DEF FrameInv

LEMMA EndKeeps ==
    ASSUME FrameInv, End
    PROVE  FrameInv'
<1>0. FrameTyped /\ LeasesKept /\ BatchesKept /\ SlotsKept /\ PublishedKept /\ EndKept
  BY DEF FrameInv
<1>1. /\ \A t \in Threads : thread[t].pc = "idle"
      /\ destroyed' = {s \in Slots : ~Leaked(s)} \cup (IF poisoned THEN {} ELSE {0})
      /\ UNCHANGED <<layout, slots, queues, reached, poisoned, free, thread, published, requests>>
  BY DEF End
<1>2. ASSUME destroyed' # {} PROVE Unfinished = {}
  <2>1. ~poisoned
    BY <1>1, <1>2 DEF Leaked
  <2>2. SUFFICES ASSUME NEW b \in Unfinished PROVE FALSE
    OBVIOUS
  <2>3. BatchKept(b) /\ b \in Batches
    BY <1>0, BatchPlaces DEF FrameTyped, BatchesKept, Unfinished, BatchesOf
  <2>4. b.slot \in Slots /\ slots[b.slot].state # "idle"
    BY <2>3 DEF Batches, BatchKept
  <2>5. slots[b.slot].state \in {"recording", "pending", "broken"}
    BY <1>0, <2>4 DEF FrameTyped, SlotShape
  <2>6. slots[b.slot].state # "broken"
    BY <1>0, <2>1, <2>4 DEF SlotsKept
  <2>7. PICK t \in Threads : thread[t].slot = b.slot
    BY <1>0, <2>4, <2>5, <2>6 DEF SlotsKept
  <2>8. thread[t].slot = 0
    BY <1>0, <1>1 DEF LeasesKept
  <2> QED BY <2>4, <2>7, <2>8, NoSlotZero
<1>3. Unfinished' = Unfinished
  BY <1>1 DEF Unfinished
<1>4. FrameTyped' /\ LeasesKept'
  BY <1>0, <1>1 DEF FrameTyped, LeasesKept
<1>5. BatchesKept'
  BY <1>0, <1>1, <1>3 DEF BatchesKept, BatchKept
<1>6. SlotsKept'
  BY <1>0, <1>1 DEF SlotsKept
<1>7. PublishedKept'
  BY <1>0, <1>1, <1>3 DEF PublishedKept, SentAll
<1>8. EndKept'
  BY <1>1, <1>2, <1>3 DEF EndKept
<1> QED BY <1>4, <1>5, <1>6, <1>7, <1>8 DEF FrameInv

LEMMA LayoutTyped ==
    ASSUME NEW copies \in Int, NEW one
    PROVE  LET l == QueueLayout(copies, one)
           IN  l.queue \in [Stages -> Queues] /\ l.core \in BOOLEAN /\ l.defer \in BOOLEAN /\ (l.core => ~l.defer)
<1> DEFINE l == QueueLayout(copies, one)
<1>0. \A a, b, c \in Queues : <<a, b, c>> \in [Stages -> Queues]
  <2> SUFFICES ASSUME NEW a \in Queues, NEW b \in Queues, NEW c \in Queues PROVE <<a, b, c>> \in [Stages -> Queues]
    OBVIOUS
  <2>1. Stages = 1 .. 3
    BY DEF Stages, Upload, Compute, Download
  <2>2. <<a, b, c>> \in [1 .. 3 -> Queues]
    OBVIOUS
  <2> QED BY <2>1, <2>2
<1>1. CASE copies = -1
  <2>1. l = [queue |-> <<"compute", "compute", "compute">>, core |-> TRUE, defer |-> FALSE]
    BY <1>1 DEF QueueLayout
  <2>2. "compute" \in Queues
    BY DEF Queues
  <2> QED BY <1>0, <2>1, <2>2
<1>2. CASE copies >= 2
  <2>1. l = [queue |-> <<"copy1", "compute", "copy2">>, core |-> FALSE, defer |-> FALSE]
    BY <1>2 DEF QueueLayout
  <2>2. "compute" \in Queues /\ "copy1" \in Queues /\ "copy2" \in Queues
    BY DEF Queues
  <2> QED BY <1>0, <2>1, <2>2
<1>3. CASE copies # -1 /\ ~(copies >= 2)
  <2> DEFINE up == IF copies = 0 THEN "compute" ELSE "copy1"
             down == IF one = "compute" THEN "compute" ELSE up
             defers == copies # 0 /\ one # "compute" /\ one # "shared"
  <2>1. l = [queue |-> <<up, "compute", down>>, core |-> FALSE, defer |-> defers]
    BY <1>3 DEF QueueLayout
  <2>2. "compute" \in Queues /\ up \in Queues /\ down \in Queues
    BY DEF Queues
  <2>3. defers \in BOOLEAN
    OBVIOUS
  <2> HIDE DEF up, down, defers
  <2> QED BY <1>0, <2>1, <2>2, <2>3
<1> QED BY <1>1, <1>2, <1>3

LEMMA FrameInvInit == Init => FrameInv
<1> SUFFICES ASSUME Init PROVE FrameInv
  OBVIOUS
<1>1. /\ slots = [s \in Slots |-> IdleSlot] /\ queues = [q \in Queues |-> <<>>] /\ reached = [s \in Slots |-> 0]
      /\ poisoned = FALSE /\ free = [s \in Slots |-> s] /\ thread = [t \in Threads |-> NoRequest]
      /\ published = <<>> /\ requests = 0 /\ destroyed = {}
  BY DEF Init
<1>2. /\ layout.queue \in [Stages -> Queues] /\ layout.core \in BOOLEAN /\ layout.defer \in BOOLEAN
      /\ layout.core => ~layout.defer
  <2>1. PICK l \in Layouts : layout = QueueLayout(l[1], l[2])
    BY DEF Init
  <2>2. l[1] \in Int
    BY VkSlotAssumption
  <2> QED BY <2>1, <2>2, LayoutTyped
<1>3. /\ IdleSlot.state = "idle" /\ IdleSlot.value = 0 /\ IdleSlot.deferred = FALSE /\ IdleSlot.recording = {}
      /\ IdleSlot.waits = [g \in Stages |-> <<>>]
      /\ NoRequest.pc = "idle" /\ NoRequest.slot = 0 /\ NoRequest.request = 0 /\ NoRequest.todo = {}
      /\ NoRequest.defer = FALSE /\ NoRequest.sent = FALSE
  BY DEF IdleSlot, NoRequest
<1>4. SlotShape(IdleSlot) /\ ThreadShape(NoRequest)
  <2>1. SlotShape(IdleSlot)
    BY DEF SlotShape, Waits, IdleSlot
  <2>2. ThreadShape(NoRequest)
    BY DEF ThreadShape, FrameSteps, NoRequest
  <2> QED BY <2>1, <2>2
<1>5. Unfinished = {}
  BY <1>1 DEF Unfinished, ToSet
<1>6. queues \in [Queues -> Seq(Batches)] /\ published \in Seq(Planes) /\ Len(published) = 0
      /\ \A q \in Queues : Len(queues[q]) = 0
  BY <1>1
<1>7. free \in Seq(Slots) /\ Slots = 1 .. Len(free) /\ \A i \in 1 .. Len(free) : free[i] = i
  <2>1. Cardinality(Slots) \in Nat /\ Slots = 1 .. Cardinality(Slots)
    BY FS_CardinalityType, VkSlotAssumption
  <2> QED BY <1>1, <2>1
<1>8. FrameTyped
  BY <1>1, <1>2, <1>3, <1>4, <1>6, <1>7 DEF FrameTyped
<1>9. LeasesKept
  BY <1>1, <1>3, <1>7, NoSlotZero DEF LeasesKept
<1>10. BatchesKept
  BY <1>5, <1>6 DEF BatchesKept, Once
<1>11. SlotsKept
  BY <1>1, <1>3 DEF SlotsKept
<1>12. PublishedKept /\ EndKept
  BY <1>1, <1>6 DEF PublishedKept, EndKept
<1> QED BY <1>8, <1>9, <1>10, <1>11, <1>12 DEF FrameInv

LEMMA FrameInvNext == FrameInv /\ [Next]_vars => FrameInv'
<1> SUFFICES ASSUME FrameInv, [Next]_vars PROVE FrameInv'
  OBVIOUS
<1>1. CASE UNCHANGED vars
  <2>0. FrameTyped /\ LeasesKept /\ BatchesKept /\ SlotsKept /\ PublishedKept /\ EndKept
    BY DEF FrameInv
  <2>1. UNCHANGED <<layout, slots, queues, reached, poisoned, free, thread, published, requests, destroyed>>
    BY <1>1 DEF vars
  <2>2. FrameTyped' /\ LeasesKept'
    BY <2>0, <2>1 DEF FrameTyped, LeasesKept
  <2>3. Unfinished' = Unfinished
    BY <2>1 DEF Unfinished
  <2>4. BatchesKept'
    BY <2>0, <2>1, <2>3 DEF BatchesKept, BatchKept
  <2>5. SlotsKept'
    BY <2>0, <2>1 DEF SlotsKept
  <2>6. PublishedKept'
    BY <2>0, <2>1, <2>3 DEF PublishedKept, SentAll
  <2>7. EndKept'
    BY <2>0, <2>1, <2>3 DEF EndKept
  <2> QED BY <2>2, <2>4, <2>5, <2>6, <2>7 DEF FrameInv
<1>2. ASSUME NEW t \in Threads, Lease(t) PROVE FrameInv'
  BY <1>2, LeaseKeeps
<1>3. ASSUME NEW t \in Threads, Step(t) PROVE FrameInv'
  <2>1. ASSUME NEW stages \in Frames, Record(t, stages) PROVE FrameInv'
    BY <2>1, RecordKeeps
  <2>2. CASE RecordBroken(t)
    BY <2>2, RecordBrokenKeeps
  <2>3. CASE SendNext(t)
    BY <2>3, SendNextKeeps
  <2>4. CASE EndSubmit(t)
    BY <2>4, EndSubmitKeeps
  <2>5. CASE WaitThenDownload(t)
    BY <2>5, WaitThenDownloadKeeps
  <2>6. CASE Wait(t)
    BY <2>6, WaitKeeps
  <2>7. CASE GiveBack(t)
    BY <2>7, GiveBackKeeps
  <2> QED BY <1>3, <2>1, <2>2, <2>3, <2>4, <2>5, <2>6, <2>7 DEF Step
<1>4. ASSUME NEW t \in Threads, Failure(t) PROVE FrameInv'
  <2>1. ASSUME NEW stages \in Frames, RecordFails(t, stages) PROVE FrameInv'
    BY <2>1, RecordFailsKeeps
  <2>2. CASE SendFails(t)
    BY <2>2, SendFailsKeeps
  <2>3. CASE DownloadFails(t)
    BY <2>3, DownloadFailsKeeps
  <2>4. CASE WaitFails(t)
    BY <2>4, WaitFailsKeeps
  <2> QED BY <1>4, <2>1, <2>2, <2>3, <2>4 DEF Failure
<1>5. ASSUME NEW q \in Queues, Finish(q) PROVE FrameInv'
  BY <1>5, FinishKeeps
<1>6. CASE End
  BY <1>6, EndKeeps
<1> QED BY <1>1, <1>2, <1>3, <1>4, <1>5, <1>6 DEF Next

LEMMA FrameInvHolds == Spec => []FrameInv
<1> QED BY FrameInvInit, FrameInvNext, PTL DEF Spec

\* Work the device has not finished keeps what it uses: its slot retains its
\* frames and is not reset or recorded again before it has run, and what the
\* end of the node destroys is used by no batch, whatever call failed and
\* whenever a wait was given up (Slot::submit, wait, settle, ~Slot).
THEOREM WorkUndisturbedHolds == Spec => []WorkUndisturbed
<1>1. ASSUME FrameInv PROVE WorkUndisturbed
  <2>0. BatchesKept /\ EndKept
    BY <1>1 DEF FrameInv
  <2>1. ASSUME NEW b \in Unfinished
        PROVE  /\ b.request \in slots[b.slot].retained
               /\ \/ slots[b.slot].state \in {"pending", "broken"}
                  \/ \E t \in Threads : thread[t].slot = b.slot /\ thread[t].request = b.request /\ thread[t].sent
    <3>1. BatchKept(b) /\ b \in Batches
      BY <1>1, <2>0, BatchPlaces DEF FrameInv, FrameTyped, BatchesKept, Unfinished, BatchesOf
    <3>2. b.slot \in Slots
      BY <3>1 DEF Batches
    <3>3. slots[b.slot].state \in {"idle", "recording", "pending", "broken"}
      BY <1>1, <3>2 DEF FrameInv, FrameTyped, SlotShape
    <3> QED BY <3>1, <3>3 DEF BatchKept
  <2>2. FramesOutliveWork
    BY <2>1 DEF FramesOutliveWork
  <2>3. QuietSlots
    BY <2>1 DEF QuietSlots
  <2>4. DestroyedUnused
    BY <2>0 DEF EndKept, DestroyedUnused
  <2> QED BY <2>2, <2>3, <2>4 DEF WorkUndisturbed
<1> QED BY <1>1, FrameInvHolds, PTL

\* A published plane is written once its producer pair is reached: no batch of
\* its request is left in a queue, and its request will not send another
\* (GpuFrames::publish, Slot::last_value).
THEOREM PublishedWrittenHolds == Spec => []PublishedWritten
<1>1. ASSUME FrameInv PROVE PublishedWritten
  <2>1. BatchesKept /\ PublishedKept /\ published \in Seq(Planes) /\ queues \in [Queues -> Seq(Batches)]
        /\ reached \in [Slots -> Nat]
    BY <1>1 DEF FrameInv, FrameTyped
  <2>2. ASSUME NEW i \in DOMAIN published, reached[published[i].slot] >= published[i].value
        PROVE  /\ \A b \in Unfinished : b.request # published[i].request
               /\ \A t \in Threads : thread[t].request = published[i].request =>
                     Download \notin slots[published[i].slot].recording
    <3>0. DOMAIN published = 1 .. Len(published)
      BY <2>1, LenProperties
    <3>1. SentAll(published[i]) /\ published[i] \in Planes
      BY <2>1, <3>0, ElementOfSeq DEF PublishedKept
    <3>2. ASSUME NEW b \in Unfinished PROVE b.request # published[i].request
      <4>1. BatchKept(b) /\ b \in Batches
        BY <2>1, BatchPlaces DEF BatchesKept, Unfinished, BatchesOf
      <4>2. b.value \in Nat /\ b.slot \in Slots /\ published[i].value \in Nat /\ published[i].slot \in Slots
        BY <3>1, <4>1 DEF Batches, Planes
      <4>3. reached[published[i].slot] \in Nat
        BY <2>1, <4>2
      <4> QED BY <2>2, <3>1, <4>1, <4>2, <4>3 DEF BatchKept, SentAll
    <3> QED BY <3>1, <3>2 DEF SentAll
  <2> QED BY <2>2 DEF PublishedWritten
<1> QED BY <1>1, FrameInvHolds, PTL

-----------------------------------------------------------------------------
(* The pool of slots, of either backend.                                   *)

PoolPlaces == {"idle", "asleep", "ready", "passOn", "holds", "wakeAll", "wakeOne"}

PoolTyped ==
    /\ unleased \in Seq(Slots)
    /\ waiting \in [PoolThreads -> Orders \cup {Pool!NoOrder}]
    /\ pc \in [PoolThreads -> PoolPlaces]
    /\ slot \in [PoolThreads -> Slots \cup {Pool!NoSlot}]

\* A thread is in the multiset while it waits, and has a slot from acquire()
\* to the critical section of give_back.
PlacesKnown ==
    \A t \in PoolThreads : /\ waiting[t] # Pool!NoOrder <=> pc[t] \in {"asleep", "ready"}
                           /\ slot[t] # Pool!NoSlot <=> pc[t] \in {"passOn", "holds"}

\* A slot is once in free_ or leased by one thread.
SlotsOnce ==
    /\ \A i, j \in 1 .. Len(unleased) : unleased[i] = unleased[j] => i = j
    /\ \A i \in 1 .. Len(unleased), t \in PoolThreads : unleased[i] # slot[t]
    /\ \A t, u \in PoolThreads : slot[t] = slot[u] /\ slot[t] # Pool!NoSlot => t = u

PoolInv == PoolTyped /\ PlacesKnown /\ SlotsOnce

-----------------------------------------------------------------------------
\* The slot that is taken, from whichever end, is one that nobody has, and
\* the list that is left has every other once.
LEMMA TakenAndLeft ==
    ASSUME PoolTyped, SlotsOnce, unleased # <<>>
    PROVE  /\ Pool!Taken \in Slots /\ \A t \in PoolThreads : slot[t] # Pool!Taken
           /\ Pool!Left \in Seq(Slots)
           /\ \A i, j \in 1 .. Len(Pool!Left) : Pool!Left[i] = Pool!Left[j] => i = j
           /\ \A i \in 1 .. Len(Pool!Left) : Pool!Left[i] # Pool!Taken /\ \A t \in PoolThreads : Pool!Left[i] # slot[t]
<1>1. Len(unleased) \in Nat \ {0} /\ \A i \in 1 .. Len(unleased) : unleased[i] \in Slots
  BY EmptySeq, LenProperties DEF PoolTyped
<1>2. CASE mode = "lifo"
  <2>1. Pool!Left = SubSeq(unleased, 1, Len(unleased) - 1)
    BY <1>2 DEF Pool!Left, Pool!Front
  <2>2. Len(unleased) - 1 \in 0 .. Len(unleased) /\ \A i \in 1 .. Len(unleased) - 1 : i \in 1 .. Len(unleased) /\ i # Len(unleased)
    BY <1>1
  <2>3. /\ Pool!Left \in Seq(Slots) /\ Len(Pool!Left) = Len(unleased) - 1
        /\ \A i \in 1 .. Len(unleased) - 1 : Pool!Left[i] = unleased[i]
    <3> DEFINE last == Len(unleased) - 1
    <3>1. last \in Int /\ 1 \in Int /\ last >= 0 /\ \A i \in 1 .. last : unleased[i] \in Slots
      BY <1>1, <2>2
    <3> HIDE DEF last
    <3>2. /\ SubSeq(unleased, 1, last) \in Seq(Slots)
          /\ Len(SubSeq(unleased, 1, last)) = IF 1 <= last THEN last - 1 + 1 ELSE 0
          /\ \A i \in 1 .. last - 1 + 1 : SubSeq(unleased, 1, last)[i] = unleased[1 + i - 1]
      BY <3>1, SubSeqProperties
    <3>3. Pool!Left = SubSeq(unleased, 1, last)
      BY <2>1 DEF last
    <3>4. /\ Pool!Left \in Seq(Slots) /\ Len(Pool!Left) = last
          /\ \A i \in 1 .. last : Pool!Left[i] = unleased[i]
      BY <3>1, <3>2, <3>3
    <3> QED BY <3>4 DEF last
  <2>4. Pool!Taken = unleased[Len(unleased)]
    BY <1>2 DEF Pool!Taken, Pool!Last
  <2>5. /\ Len(unleased) \in 1 .. Len(unleased) /\ Pool!Taken \in Slots
        /\ \A i \in 1 .. Len(Pool!Left) : /\ Pool!Left[i] = unleased[i] /\ i \in 1 .. Len(unleased)
                                         /\ i # Len(unleased)
    BY <1>1, <2>2, <2>3, <2>4
  <2>6. \A t \in PoolThreads : slot[t] # Pool!Taken
    BY <2>4, <2>5 DEF SlotsOnce
  <2>7. \A i, j \in 1 .. Len(Pool!Left) : Pool!Left[i] = Pool!Left[j] => i = j
    BY <2>5 DEF SlotsOnce
  <2>8. \A i \in 1 .. Len(Pool!Left) : Pool!Left[i] # Pool!Taken /\ \A t \in PoolThreads : Pool!Left[i] # slot[t]
    BY <2>4, <2>5 DEF SlotsOnce
  <2> QED BY <2>3, <2>5, <2>6, <2>7, <2>8
<1>3. CASE mode # "lifo"
  <2>1. Pool!Left = Tail(unleased) /\ Pool!Taken = unleased[1]
    BY <1>1, <1>3 DEF Pool!Left, Pool!Taken, PoolTyped
  <2>2. /\ Pool!Left \in Seq(Slots) /\ Len(Pool!Left) = Len(unleased) - 1
        /\ \A i \in 1 .. Len(Pool!Left) : Pool!Left[i] = unleased[i + 1]
    BY <1>1, <2>1 DEF PoolTyped
  <2>3. \A i \in 1 .. Len(Pool!Left) : i + 1 \in 1 .. Len(unleased) /\ i + 1 # 1
    BY <1>1, <2>2
  <2> QED BY <1>1, <2>1, <2>2, <2>3 DEF SlotsOnce
<1> QED BY <1>2, <1>3

-----------------------------------------------------------------------------
(* The invariant.                                                          *)

LEMMA PoolInitHolds ==
    ASSUME Pool!PoolAssumption, Pool!Init
    PROVE  PoolInv
<1>1. unleased \in Seq(Slots) /\ Len(unleased) = Cardinality(Slots) /\ \A i \in 1 .. Len(unleased) : unleased[i] = i
  <2>1. Cardinality(Slots) \in Nat
    BY FS_CardinalityType, VkSlotAssumption
  <2>2. unleased = [i \in 1 .. Cardinality(Slots) |-> i] /\ Slots = 1 .. Cardinality(Slots)
    BY VkSlotAssumption DEF Pool!Init
  <2> QED BY <2>1, <2>2
<1>2. PoolTyped
  BY <1>1 DEF Pool!Init, PoolTyped, PoolPlaces
<1>3. PlacesKnown
  BY DEF Pool!Init, PlacesKnown
<1>4. SlotsOnce
  BY <1>1, NoSlotZero DEF Pool!Init, SlotsOnce, Pool!NoSlot
<1> QED BY <1>2, <1>3, <1>4 DEF PoolInv

\* The end of acquire(), with the thread's order in the multiset or not yet.
LEMMA TakeKeeps ==
    ASSUME Pool!PoolAssumption, PoolInv, NEW t \in PoolThreads, pc[t] \in {"idle", "ready"},
           NEW asking \in [PoolThreads -> Orders \cup {Pool!NoOrder}],
           \A u \in PoolThreads \ {t} : asking[u] = waiting[u], Pool!Take(t, asking)
    PROVE  PoolInv'
<1>1. unleased # <<>> /\ unleased' = Pool!Left /\ slot' = [slot EXCEPT ![t] = Pool!Taken] /\ waiting' = [asking EXCEPT ![t] = Pool!NoOrder]
  BY DEF Pool!Take, Pool!MayTake
<1>2. PICK next \in {"passOn", "holds"} : pc' = [pc EXCEPT ![t] = next]
  BY DEF Pool!Take
<1>3. /\ Pool!Taken \in Slots /\ \A u \in PoolThreads : slot[u] # Pool!Taken
      /\ Pool!Left \in Seq(Slots)
      /\ \A i, j \in 1 .. Len(Pool!Left) : Pool!Left[i] = Pool!Left[j] => i = j
      /\ \A i \in 1 .. Len(Pool!Left) : Pool!Left[i] # Pool!Taken /\ \A u \in PoolThreads : Pool!Left[i] # slot[u]
  BY <1>1, TakenAndLeft DEF PoolInv
<1>4. PoolTyped'
  BY <1>1, <1>2, <1>3 DEF PoolInv, PoolTyped, PoolPlaces
<1>5. PlacesKnown'
  <2>1. Pool!Taken # Pool!NoSlot
    BY <1>3, NoSlotZero DEF Pool!NoSlot
  <2> QED BY <1>1, <1>2, <2>1 DEF PoolInv, PoolTyped, PlacesKnown
<1>6. SlotsOnce'
  <2>1. \A u \in PoolThreads : slot'[u] = IF u = t THEN Pool!Taken ELSE slot[u]
    BY <1>1 DEF PoolInv, PoolTyped
  <2> QED BY <1>1, <1>3, <2>1 DEF PoolInv, SlotsOnce
<1> QED BY <1>4, <1>5, <1>6 DEF PoolInv

LEMMA SleepKeeps ==
    ASSUME PoolInv, NEW t \in PoolThreads, pc[t] \in {"idle", "ready"},
           NEW asking \in [PoolThreads -> Orders \cup {Pool!NoOrder}], asking[t] # Pool!NoOrder,
           \A u \in PoolThreads \ {t} : asking[u] = waiting[u], Pool!Sleep(t, asking)
    PROVE  PoolInv'
<1> USE DEF Pool!Sleep
<1>1. PoolTyped'
  BY DEF PoolInv, PoolTyped, PoolPlaces
<1>2. PlacesKnown'
  BY DEF PoolInv, PoolTyped, PlacesKnown
<1>3. SlotsOnce'
  BY DEF PoolInv, SlotsOnce
<1> QED BY <1>1, <1>2, <1>3 DEF PoolInv

LEMMA AcquireKeeps ==
    ASSUME Pool!PoolAssumption, PoolInv, NEW t \in PoolThreads, NEW o \in Orders, Pool!Acquire(t, o)
    PROVE  PoolInv'
<1> DEFINE asking == [waiting EXCEPT ![t] = o]
<1>1. /\ asking \in [PoolThreads -> Orders \cup {Pool!NoOrder}] /\ asking[t] = o /\ o # Pool!NoOrder
      /\ \A u \in PoolThreads \ {t} : asking[u] = waiting[u]
  BY DEF PoolInv, PoolTyped, Pool!PoolAssumption, Pool!NoOrder
<1>2. pc[t] = "idle" /\ (Pool!Take(t, asking) \/ Pool!Sleep(t, asking))
  BY DEF Pool!Acquire
<1> HIDE DEF asking
<1> QED BY <1>1, <1>2, TakeKeeps, SleepKeeps

LEMMA RecheckKeeps ==
    ASSUME Pool!PoolAssumption, PoolInv, NEW t \in PoolThreads, Pool!Recheck(t)
    PROVE  PoolInv'
<1>1. waiting \in [PoolThreads -> Orders \cup {Pool!NoOrder}] /\ waiting[t] # Pool!NoOrder /\ pc[t] = "ready"
  BY DEF PoolInv, PoolTyped, PlacesKnown, Pool!Recheck
<1> QED BY <1>1, TakeKeeps, SleepKeeps DEF Pool!Recheck

\* A step that only wakes sleepers and takes t past its notification.
LEMMA NotifyKeeps ==
    ASSUME PoolInv, NEW t \in PoolThreads, NEW next \in {"holds", "idle"},
           pc[t] \notin {"asleep", "ready"}, pc[t] = "passOn" <=> next = "holds", pc[t] # "holds",
           pc' \in [PoolThreads -> PoolPlaces], pc'[t] = next,
           \A u \in PoolThreads \ {t} : pc'[u] = pc[u] \/ (pc[u] = "asleep" /\ pc'[u] = "ready"),
           UNCHANGED <<unleased, waiting, slot>>
    PROVE  PoolInv'
<1>1. PlacesKnown'
  BY DEF PoolInv, PlacesKnown
<1> QED BY <1>1 DEF PoolInv, PoolTyped, SlotsOnce

LEMMA WokenType ==
    ASSUME PoolTyped, NEW threads, NEW t \in PoolThreads, NEW next \in PoolPlaces,
           pc' = [Pool!Woken(threads) EXCEPT ![t] = next]
    PROVE  /\ pc' \in [PoolThreads -> PoolPlaces] /\ pc'[t] = next
           /\ \A u \in PoolThreads \ {t} : pc'[u] = pc[u] \/ (pc[u] = "asleep" /\ pc'[u] = "ready")
<1>1. pc' = [u \in PoolThreads |-> IF u = t THEN next ELSE IF u \in threads /\ pc[u] = "asleep" THEN "ready" ELSE pc[u]]
  BY DEF Pool!Woken
<1>2. \A u \in PoolThreads : pc[u] \in PoolPlaces /\ "ready" \in PoolPlaces
  BY DEF PoolTyped, PoolPlaces
<1> QED BY <1>1, <1>2

LEMMA PassOnKeeps ==
    ASSUME PoolInv, NEW t \in PoolThreads, Pool!PassOn(t)
    PROVE  PoolInv'
<1>1. pc[t] = "passOn" /\ "holds" \in PoolPlaces /\ "holds" \in {"holds", "idle"} /\ UNCHANGED <<unleased, waiting, slot>>
  BY DEF Pool!PassOn, Pool!NotifyAll, PoolPlaces
<1>2. /\ pc' \in [PoolThreads -> PoolPlaces] /\ pc'[t] = "holds"
      /\ \A u \in PoolThreads \ {t} : pc'[u] = pc[u] \/ (pc[u] = "asleep" /\ pc'[u] = "ready")
  BY <1>1, WokenType DEF Pool!PassOn, Pool!NotifyAll, PoolInv
<1> QED BY <1>1, <1>2, NotifyKeeps

LEMMA WakeKeeps ==
    ASSUME PoolInv, NEW t \in PoolThreads, Pool!Wake(t)
    PROVE  PoolInv'
<1>1. pc[t] \in {"wakeAll", "wakeOne"} /\ "idle" \in PoolPlaces /\ UNCHANGED <<unleased, waiting, slot>>
  BY DEF Pool!Wake, Pool!NotifyAll, Pool!NotifyOne, PoolPlaces
<1>2. /\ pc' \in [PoolThreads -> PoolPlaces] /\ pc'[t] = "idle"
      /\ \A u \in PoolThreads \ {t} : pc'[u] = pc[u] \/ (pc[u] = "asleep" /\ pc'[u] = "ready")
  <2>1. ASSUME NEW threads, pc' = [Pool!Woken(threads) EXCEPT ![t] = "idle"]
        PROVE  /\ pc' \in [PoolThreads -> PoolPlaces] /\ pc'[t] = "idle"
               /\ \A u \in PoolThreads \ {t} : pc'[u] = pc[u] \/ (pc[u] = "asleep" /\ pc'[u] = "ready")
    BY <1>1, <2>1, WokenType DEF PoolInv
  <2>2. CASE pc' = [pc EXCEPT ![t] = "idle"]
    BY <1>1, <2>2 DEF PoolInv, PoolTyped
  <2> QED BY <2>1, <2>2 DEF Pool!Wake, Pool!NotifyAll, Pool!NotifyOne
<1> QED BY <1>1, <1>2, NotifyKeeps

LEMMA SpuriousKeeps ==
    ASSUME PoolInv, NEW t \in PoolThreads, Pool!Spurious(t)
    PROVE  PoolInv'
<1> USE DEF Pool!Spurious
<1>1. PoolTyped'
  BY DEF PoolInv, PoolTyped, PoolPlaces
<1>2. PlacesKnown'
  BY DEF PoolInv, PoolTyped, PlacesKnown
<1>3. SlotsOnce'
  BY DEF PoolInv, SlotsOnce
<1> QED BY <1>1, <1>2, <1>3 DEF PoolInv

LEMMA PoolGiveBackKeeps ==
    ASSUME Pool!PoolAssumption, PoolInv, NEW t \in PoolThreads, Pool!GiveBack(t)
    PROVE  PoolInv'
<1> USE DEF Pool!GiveBack
<1>1. PICK next \in {"wakeAll", "wakeOne"} : pc' = [pc EXCEPT ![t] = next]
  OBVIOUS
<1>2. slot[t] \in Slots /\ slot[t] # Pool!NoSlot
  BY DEF PoolInv, PoolTyped, PlacesKnown
<1>3. /\ unleased' \in Seq(Slots) /\ Len(unleased) \in Nat /\ Len(unleased') = Len(unleased) + 1
      /\ \A i \in 1 .. Len(unleased') : unleased'[i] = IF i = Len(unleased) + 1 THEN slot[t] ELSE unleased[i]
  BY <1>2 DEF PoolInv, PoolTyped
<1>4. \A i \in 1 .. Len(unleased') : i = Len(unleased) + 1 \/ i \in 1 .. Len(unleased)
  BY <1>3
<1>5. PoolTyped'
  BY <1>1, <1>3 DEF PoolInv, PoolTyped, PoolPlaces
<1>6. PlacesKnown'
  BY <1>1 DEF PoolInv, PoolTyped, PlacesKnown
<1>7. SlotsOnce'
  <2>1. \A u \in PoolThreads : slot'[u] = IF u = t THEN Pool!NoSlot ELSE slot[u]
    BY DEF PoolInv, PoolTyped
  <2>2. \A i \in 1 .. Len(unleased') : unleased'[i] # Pool!NoSlot
    <3>1. Slots \subseteq Nat \ {0}
      BY NoSlotZero
    <3>2. \A i \in 1 .. Len(unleased') : unleased'[i] \in Slots
      BY <1>3
    <3> QED BY <3>1, <3>2 DEF Pool!NoSlot
  <2>3. \A i, j \in 1 .. Len(unleased') : unleased'[i] = unleased'[j] => i = j
    BY <1>2, <1>3, <1>4 DEF PoolInv, SlotsOnce
  <2>4. \A i \in 1 .. Len(unleased'), u \in PoolThreads : unleased'[i] # slot'[u]
    BY <2>1, <2>2, <1>2, <1>3, <1>4 DEF PoolInv, SlotsOnce
  <2>5. \A u, v \in PoolThreads : slot'[u] = slot'[v] /\ slot'[u] # Pool!NoSlot => u = v
    BY <2>1 DEF PoolInv, SlotsOnce
  <2> QED BY <2>3, <2>4, <2>5 DEF SlotsOnce
<1> QED BY <1>5, <1>6, <1>7 DEF PoolInv

LEMMA PoolStepKeeps ==
    ASSUME Pool!PoolAssumption, PoolInv, [Pool!Next]_(Pool!vars)
    PROVE  PoolInv'
<1>1. CASE UNCHANGED Pool!vars
  BY <1>1 DEF Pool!vars, PoolInv, PoolTyped, PlacesKnown, SlotsOnce
<1>2. ASSUME NEW t \in PoolThreads, Pool!Step(t) \/ Pool!Spurious(t)
      PROVE  PoolInv'
  BY <1>2, RecheckKeeps, PassOnKeeps, PoolGiveBackKeeps, WakeKeeps, SpuriousKeeps DEF Pool!Step
<1>3. ASSUME NEW t \in PoolThreads, NEW o \in Orders, Pool!Acquire(t, o)
      PROVE  PoolInv'
  BY <1>3, AcquireKeeps
<1> QED BY <1>1, <1>2, <1>3 DEF Pool!Next

LEMMA PoolInvariantHolds ==
    ASSUME Pool!PoolAssumption
    PROVE  Pool!Spec => []PoolInv
<1>1. Pool!Init => PoolInv
  BY PoolInitHolds
<1>2. PoolInv /\ [Pool!Next]_(Pool!vars) => PoolInv'
  BY PoolStepKeeps
<1> QED BY <1>1, <1>2, PTL DEF Pool!Spec

-----------------------------------------------------------------------------
(* The pool implements SlotTurns: each step is one of its steps or leaves  *)
(* what it sees alone.                                                     *)

\* A thread that finds a slot free as it asks.
LEMMA TakesAtOnce ==
    ASSUME Pool!PoolAssumption, PoolInv, NEW t \in PoolThreads, NEW o \in Orders, pc[t] = "idle",
           Pool!Take(t, [waiting EXCEPT ![t] = o]), UNCHANGED mode
    PROVE  Pool!Turns!AskAndGet(t, o)
<1> DEFINE asking == [waiting EXCEPT ![t] = o]
<1>1. waiting[t] = Pool!NoOrder /\ slot[t] = Pool!NoSlot /\ o # Pool!NoOrder
  BY DEF PoolInv, PlacesKnown, Pool!PoolAssumption, Pool!NoOrder
<1>2. \A u \in PoolThreads : asking[u] = IF u = t THEN o ELSE waiting[u]
  BY DEF PoolInv, PoolTyped
<1>3. /\ unleased # <<>> /\ slot' = [slot EXCEPT ![t] = Pool!Taken] /\ waiting' = [asking EXCEPT ![t] = Pool!NoOrder]
      /\ mode = "ordered" => \A u \in PoolThreads : asking[u] # Pool!NoOrder => asking[t] <= asking[u]
  BY DEF Pool!Take, Pool!MayTake
<1>4. waiting' = waiting
  BY <1>1, <1>3 DEF PoolInv, PoolTyped
<1>5. Pool!Taken \in Slots /\ \A u \in PoolThreads : slot[u] # Pool!Taken
  BY <1>3, TakenAndLeft DEF PoolInv
<1>6. mode = "ordered" => \A u \in PoolThreads : waiting[u] # Pool!NoOrder => o <= waiting[u]
  BY <1>1, <1>2, <1>3
<1>7. Pool!Taken \in Pool!Turns!Free
  BY <1>5 DEF Pool!Turns!Free
<1> QED BY <1>1, <1>3, <1>4, <1>6, <1>7 DEF Pool!Turns!AskAndGet, Pool!Turns!NoOrder, Pool!Turns!NoSlot, Pool!NoOrder, Pool!NoSlot

\* A woken thread that finds a slot free.
LEMMA TakesItsTurn ==
    ASSUME Pool!PoolAssumption, PoolInv, NEW t \in PoolThreads, pc[t] = "ready", Pool!Take(t, waiting), UNCHANGED mode
    PROVE  Pool!Turns!Grant(t)
<1>1. waiting[t] # Pool!NoOrder
  BY DEF PoolInv, PlacesKnown
<1>2. /\ unleased # <<>> /\ slot' = [slot EXCEPT ![t] = Pool!Taken] /\ waiting' = [waiting EXCEPT ![t] = Pool!NoOrder]
      /\ mode = "ordered" => \A u \in PoolThreads : waiting[u] # Pool!NoOrder => waiting[t] <= waiting[u]
  BY DEF Pool!Take, Pool!MayTake
<1>3. Pool!Taken \in Pool!Turns!Free
  BY <1>2, TakenAndLeft DEF PoolInv, Pool!Turns!Free
<1> QED BY <1>1, <1>2, <1>3 DEF Pool!Turns!Grant, Pool!Turns!IsNext, Pool!Turns!NoOrder, Pool!NoOrder

LEMMA StepSimulated ==
    ASSUME Pool!PoolAssumption, PoolInv, [Pool!Next]_(Pool!vars)
    PROVE  [Pool!Turns!TurnsNext]_(Pool!Turns!turnVars)
<1> USE DEF Pool!Turns!turnVars
<1>1. CASE UNCHANGED Pool!vars
  BY <1>1 DEF Pool!vars
<1>2. ASSUME NEW t \in PoolThreads, NEW o \in Orders, Pool!Acquire(t, o)
      PROVE  Pool!Turns!TurnsNext
  <2> DEFINE asking == [waiting EXCEPT ![t] = o]
  <2>1. pc[t] = "idle" /\ UNCHANGED mode
    BY <1>2 DEF Pool!Acquire
  <2>2. CASE Pool!Take(t, asking)
    BY <2>1, <2>2, TakesAtOnce DEF Pool!Turns!TurnsNext
  <2>3. CASE Pool!Sleep(t, asking)
    BY <2>1, <2>3 DEF Pool!Sleep, PoolInv, PlacesKnown, Pool!Turns!TurnsNext, Pool!Turns!Ask,
                      Pool!Turns!NoOrder, Pool!Turns!NoSlot, Pool!NoOrder, Pool!NoSlot
  <2> QED BY <1>2, <2>2, <2>3 DEF Pool!Acquire
<1>3. ASSUME NEW t \in PoolThreads, Pool!Recheck(t)
      PROVE  [Pool!Turns!TurnsNext]_(Pool!Turns!turnVars)
  <2>1. pc[t] = "ready" /\ UNCHANGED mode
    BY <1>3 DEF Pool!Recheck
  <2>2. CASE Pool!Take(t, waiting)
    BY <2>1, <2>2, TakesItsTurn DEF Pool!Turns!TurnsNext
  <2>3. CASE Pool!Sleep(t, waiting)
    BY <2>1, <2>3 DEF Pool!Sleep
  <2> QED BY <1>3, <2>2, <2>3 DEF Pool!Recheck
<1>4. ASSUME NEW t \in PoolThreads, Pool!GiveBack(t)
      PROVE  Pool!Turns!TurnsNext
  BY <1>4 DEF Pool!GiveBack, PoolInv, PlacesKnown, Pool!Turns!TurnsNext, Pool!Turns!Return, Pool!Turns!NoSlot, Pool!NoSlot
<1>5. ASSUME NEW t \in PoolThreads, Pool!PassOn(t) \/ Pool!Wake(t) \/ Pool!Spurious(t)
      PROVE  UNCHANGED Pool!Turns!turnVars
  BY <1>5 DEF Pool!PassOn, Pool!Wake, Pool!Spurious, Pool!NotifyAll, Pool!NotifyOne
<1> QED BY <1>1, <1>2, <1>3, <1>4, <1>5 DEF Pool!Next, Pool!Step

\* Whatever the threads' orders, wake-ups (notified, lost to another thread or
\* spurious) and the end that slots are taken from (acquire(), acquire(order)
\* and give_back of stream_pool.hpp and slot.hpp): a slot goes to a thread that
\* asks, from the slots that nobody has, in ordered mode to one with a lowest
\* order, and stays with it until it is given back.
THEOREM TurnsImplemented ==
    ASSUME Pool!PoolAssumption
    PROVE  Pool!Spec => Pool!Turns!TurnsInit /\ [][Pool!Turns!TurnsNext]_(Pool!Turns!turnVars)
<1>1. Pool!Init => Pool!Turns!TurnsInit
  BY DEF Pool!Init, Pool!Turns!TurnsInit, Pool!Turns!NoOrder, Pool!Turns!NoSlot, Pool!NoOrder, Pool!NoSlot
<1>2. PoolInv /\ [Pool!Next]_(Pool!vars) => [Pool!Turns!TurnsNext]_(Pool!Turns!turnVars)
  BY StepSimulated
<1> QED BY <1>1, <1>2, PoolInvariantHolds, PTL DEF Pool!Spec

\* A slot (its stream, arena and staging) is never leased to two threads, nor
\* free while one has it, nor twice in free_.
THEOREM SlotsOnceHolds ==
    ASSUME Pool!PoolAssumption
    PROVE  Pool!Spec => []SlotsOnce
<1>1. PoolInv => SlotsOnce
  BY DEF PoolInv
<1> QED BY <1>1, PoolInvariantHolds, PTL
=============================================================================
