-------------------------- MODULE ChunkCacheProofs --------------------------
(***************************************************************************)
(* Proofs about ChunkCache for every set of threads, starts and blocks and *)
(* every cache size, and about the requests of RollingDriver around it:    *)
(* every step of a request is one of ChunkCache or leaves the cache alone, *)
(* so what the cache promises holds of the driver too.                     *)
(***************************************************************************)
EXTENDS RollingDriver, FoldLemmas, FiniteSetTheorems, TLAPS

\* What a request's shared_ptr<Store> is at each place, and that the list is finite.
StoreAtPlace ==
    /\ IsFiniteSet(Cached)
    /\ \A t \in Threads : store[t] = None <=> pc[t] \in {"idle", "get", "compute", "failed"}

IInv == TypeOK /\ StoreAtPlace /\ SingleFlight /\ HitsStayCached /\ FilledAlone

USE SizesAssumption, NoneAssumption, ThreadsAssumption

-----------------------------------------------------------------------------
\* The four list operations keep the entries' types, starts and readers as
\* std::list keeps its elements, and change only what each is about.
LEMMA AnyStartType == AnyStart \in Starts
  BY StartsAssumption DEF AnyStart

LEMMA EntryType ==
    ASSUME NEW start \in Starts, NEW readers \in Int, NEW pos \in Int
    PROVE  /\ Entry(start, readers, pos) \in Entries
           /\ Entry(start, readers, pos).start = start
           /\ Entry(start, readers, pos).readers = readers
           /\ Entry(start, readers, pos).pos = pos
  BY DEF Entry, Entries

LEMMA EntryParts ==
    ASSUME NEW e \in Entries
    PROVE  e.start \in Starts /\ e.readers \in Int /\ e.pos \in Int
  BY DEF Entries

LEMMA TouchList ==
    ASSUME NEW c, c \in [DOMAIN c -> Entries], NEW b \in DOMAIN c
    PROVE  /\ DOMAIN TouchAndRead(c, b) = DOMAIN c
           /\ TouchAndRead(c, b) \in [DOMAIN c -> Entries]
           /\ \A x \in DOMAIN c :
                /\ TouchAndRead(c, b)[x].start = c[x].start
                /\ TouchAndRead(c, b)[x].readers = IF x = b THEN c[x].readers + 1 ELSE c[x].readers
<1>1. \A x \in DOMAIN c : c[x] \in Entries
  OBVIOUS
<1>2. ASSUME NEW x \in DOMAIN c
      PROVE /\ TouchAndRead(c, b)[x] \in Entries
            /\ TouchAndRead(c, b)[x].start = c[x].start
            /\ TouchAndRead(c, b)[x].readers = IF x = b THEN c[x].readers + 1 ELSE c[x].readers
  <2>1. c[x].start \in Starts /\ c[x].readers \in Int /\ c[x].pos \in Int /\ c[b].pos \in Int
    BY <1>1, EntryParts
  <2>2. CASE x = b
    <3>1. TouchAndRead(c, b)[x] = Entry(c[x].start, c[x].readers + 1, 0)
      BY <2>2 DEF TouchAndRead
    <3>2. c[x].readers + 1 \in Int
      BY <2>1
    <3> QED BY <3>1, <3>2, <2>1, <2>2, EntryType
  <2>3. CASE x # b
    <3> DEFINE k == IF c[x].pos < c[b].pos THEN 1 ELSE 0
    <3>1. TouchAndRead(c, b)[x] = Entry(c[x].start, c[x].readers, c[x].pos + k)
      BY <2>3 DEF TouchAndRead
    <3>2. c[x].pos + k \in Int
      BY <2>1 DEF k
    <3> HIDE DEF k
    <3> QED BY <3>1, <3>2, <2>1, <2>3, EntryType
  <2> QED BY <2>2, <2>3
<1> QED BY <1>2 DEF TouchAndRead

LEMMA PushType ==
    ASSUME NEW c, c \in [DOMAIN c -> Entries], NEW b \in Blocks, b \notin DOMAIN c, NEW s \in Starts
    PROVE  PushFront(c, b, s) \in [DOMAIN c \union {b} -> Entries]
<1>1. ASSUME NEW x \in DOMAIN c
      PROVE c[x].start \in Starts /\ c[x].readers \in Int /\ c[x].pos + 1 \in Int
  BY EntryParts
<1>2. ASSUME NEW x \in DOMAIN c
      PROVE PushFront(c, b, s)[x] \in Entries
  BY <1>1, EntryType DEF PushFront
<1>3. PushFront(c, b, s)[b] \in Entries
  <2>1. PushFront(c, b, s)[b] = Entry(s, 0, 0)
    BY DEF PushFront
  <2> QED BY <2>1, EntryType
<1> QED BY <1>2, <1>3 DEF PushFront

LEMMA PushParts ==
    ASSUME NEW c, c \in [DOMAIN c -> Entries], NEW b \in Blocks, b \notin DOMAIN c, NEW s \in Starts
    PROVE  /\ PushFront(c, b, s)[b].start = s
           /\ PushFront(c, b, s)[b].readers = 0
           /\ \A x \in DOMAIN c : /\ PushFront(c, b, s)[x].start = c[x].start
                                  /\ PushFront(c, b, s)[x].readers = c[x].readers
  BY DEF PushFront, Entry

LEMMA UnreadList ==
    ASSUME NEW c, c \in [DOMAIN c -> Entries], NEW b \in DOMAIN c
    PROVE  /\ DOMAIN Unread(c, b) = DOMAIN c
           /\ Unread(c, b) \in [DOMAIN c -> Entries]
           /\ \A x \in DOMAIN c :
                /\ Unread(c, b)[x].start = c[x].start
                /\ Unread(c, b)[x].readers = IF x = b THEN c[x].readers - 1 ELSE c[x].readers
<1>1. ASSUME NEW x \in DOMAIN c
      PROVE c[x].start \in Starts /\ c[x].readers \in Int /\ c[x].pos \in Int
  BY EntryParts
<1>2. ASSUME NEW x \in DOMAIN c
      PROVE /\ Unread(c, b)[x] \in Entries
            /\ Unread(c, b)[x].start = c[x].start
            /\ Unread(c, b)[x].readers = IF x = b THEN c[x].readers - 1 ELSE c[x].readers
  <2>1. CASE x = b
    <3>1. Unread(c, b)[x] = Entry(c[x].start, c[x].readers - 1, c[x].pos)
      BY <2>1 DEF Unread
    <3>2. c[x].readers - 1 \in Int
      BY <1>1
    <3> QED BY <3>1, <3>2, <1>1, <2>1, EntryType
  <2>2. CASE x # b
    BY <2>2 DEF Unread
  <2> QED BY <2>1, <2>2
<1> QED BY <1>2 DEF Unread

LEMMA EraseList ==
    ASSUME NEW c, IsFiniteSet(DOMAIN c), c \in [DOMAIN c -> Entries],
           NEW gone, gone \subseteq DOMAIN c
    PROVE  /\ DOMAIN Erase(c, gone) = DOMAIN c \ gone
           /\ Erase(c, gone) \in [DOMAIN c \ gone -> Entries]
           /\ \A x \in DOMAIN c \ gone : /\ Erase(c, gone)[x].start = c[x].start
                                         /\ Erase(c, gone)[x].readers = c[x].readers
<1>1. ASSUME NEW x \in DOMAIN c
      PROVE Cardinality({g \in gone : c[g].pos < c[x].pos}) \in Nat
  BY FS_Subset, FS_CardinalityType
<1>2. ASSUME NEW x \in DOMAIN c
      PROVE c[x].start \in Starts /\ c[x].readers \in Int /\ c[x].pos \in Int
  BY EntryParts
<1>3. ASSUME NEW x \in DOMAIN c \ gone
      PROVE /\ Erase(c, gone)[x] \in Entries
            /\ Erase(c, gone)[x].start = c[x].start
            /\ Erase(c, gone)[x].readers = c[x].readers
  <2> DEFINE k == Cardinality({g \in gone : c[g].pos < c[x].pos})
  <2>1. Erase(c, gone)[x] = Entry(c[x].start, c[x].readers, c[x].pos - k)
    BY DEF Erase
  <2>2. k \in Int
    BY <1>1
  <2> HIDE DEF k
  <2> QED BY <2>1, <2>2, <1>2, EntryType
<1> QED BY <1>3 DEF Erase

\* Erasing victims never takes an entry a hit reads.
LEMMA VictimsUnread ==
    ASSUME NEW c
    PROVE  /\ Victims(c) \subseteq DOMAIN c
           /\ \A b \in Victims(c) : c[b].readers = 0
  BY DEF Victims, Evictable

LEMMA ReadersFinite ==
    ASSUME NEW b
    PROVE  IsFiniteSet(Readers(b)) /\ Cardinality(Readers(b)) \in Nat
  BY FS_Subset, FS_CardinalityType DEF Readers

\* dropped_ stays a sequence of starts.
LEMMA DroppedType ==
    ASSUME NEW c, c \in [DOMAIN c -> Entries], IsFiniteSet(DOMAIN c),
           NEW gone, gone \subseteq DOMAIN c, NEW o \in DropOrders(c, gone),
           NEW d \in Seq(Starts)
    PROVE  /\ d \o [i \in DOMAIN o |-> c[o[i]].start] \in Seq(Starts)
           /\ Trim(d \o [i \in DOMAIN o |-> c[o[i]].start]) \in Seq(Starts)
<1> DEFINE n == Cardinality(gone)
           starts == [i \in DOMAIN o |-> c[o[i]].start]
<1>1. n \in Nat
  BY FS_Subset, FS_CardinalityType
<1>2. DOMAIN o = 1..n /\ \A i \in 1..n : o[i] \in DOMAIN c
  BY DEF DropOrders
<1>3. \A i \in 1..n : c[o[i]].start \in Starts
  BY <1>2, EntryParts
<1>4. starts \in Seq(Starts)
  BY <1>1, <1>2, <1>3
<1> HIDE DEF starts
<1>5. d \o starts \in Seq(Starts)
  BY <1>4
<1>6. DroppedBound \in Nat
  BY DEF DroppedBound
<1>7. Trim(d \o starts) \in Seq(Starts)
  BY <1>5, <1>6 DEF Trim
<1> QED BY <1>5, <1>7 DEF starts

-----------------------------------------------------------------------------
LEMMA InitIInv == Init => IInv
<1> SUFFICES ASSUME Init PROVE IInv
  OBVIOUS
<1>1. Cached = {} /\ IsFiniteSet(Cached)
  BY FS_EmptySet DEF Init, Cached
<1>2. TypeOK
  BY <1>1, AnyStartType DEF Init, TypeOK, Locations, Entries, Cached
<1>3. StoreAtPlace
  BY <1>1 DEF Init, StoreAtPlace
<1>4. SingleFlight
  BY <1>1 DEF Init, SingleFlight, Computes
<1>5. HitsStayCached /\ FilledAlone
  BY <1>1 DEF Init, HitsStayCached, FilledAlone
<1> QED BY <1>2, <1>3, <1>4, <1>5 DEF IInv

LEMMA AskIInv == ASSUME IInv, NEW t \in Threads, NEW start \in Starts, Ask(t, start) PROVE IInv'
<1> USE DEF IInv, Ask, Cached
<1>1. TypeOK'
  BY DEF TypeOK, Locations
<1>2. StoreAtPlace'
  BY DEF StoreAtPlace, TypeOK
<1>3. SingleFlight'
  BY DEF SingleFlight, TypeOK, Computes
<1>4. HitsStayCached'
  <2>1. \A b : Readers(b)' = Readers(b)
    BY DEF Readers, TypeOK
  <2> QED BY <2>1 DEF HitsStayCached, TypeOK
<1>5. FilledAlone'
  BY DEF FilledAlone, TypeOK, Referenced
<1> QED BY <1>1, <1>2, <1>3, <1>4, <1>5

LEMMA HitIInv == ASSUME IInv, NEW t \in Threads, Hit(t) PROVE IInv'
<1> USE DEF IInv, Hit, Cached
<1>1. PICK b \in Cached : /\ cache[b].start = want[t]
                         /\ cache' = TouchAndRead(cache, b)
                         /\ store' = [store EXCEPT ![t] = b]
  OBVIOUS
<1>2. /\ Cached' = Cached
      /\ cache' \in [Cached -> Entries]
      /\ \A x \in Cached : /\ cache'[x].start = cache[x].start
                           /\ cache'[x].readers = IF x = b THEN cache[x].readers + 1 ELSE cache[x].readers
  BY <1>1, TouchList DEF TypeOK
<1>3. TypeOK'
  BY <1>1, <1>2 DEF TypeOK, Locations
<1>4. StoreAtPlace'
  BY <1>1, <1>2 DEF StoreAtPlace, TypeOK
<1>5. SingleFlight'
  BY <1>1, <1>2 DEF SingleFlight, TypeOK, Computes
<1>6. HitsStayCached'
  <2>1. \A x \in Cached : x # b => Readers(x)' = Readers(x)
    BY <1>1 DEF Readers, TypeOK, StoreAtPlace
  <2>2. Readers(b)' = Readers(b) \union {t} /\ t \notin Readers(b)
    BY <1>1 DEF Readers, TypeOK
  <2>3. Cardinality(Readers(b)') = Cardinality(Readers(b)) + 1
    BY <2>2, ReadersFinite, FS_AddElement
  <2>4. \A x \in Cached' : cache'[x].readers = Cardinality(Readers(x)')
    BY <1>2, <2>1, <2>3 DEF HitsStayCached
  <2>5. \A u \in Threads : pc'[u] = "hit" => store'[u] \in Cached' /\ cache'[store'[u]].start = want'[u]
    BY <1>1, <1>2 DEF HitsStayCached, TypeOK
  <2> QED BY <2>4, <2>5 DEF HitsStayCached
<1>7. FilledAlone'
  <2>1. Referenced(cache, store)' \subseteq Referenced(cache, store)
    BY <1>1, <1>2 DEF Referenced, TypeOK
  <2> QED BY <1>1, <1>2, <2>1 DEF FilledAlone, TypeOK
<1> QED BY <1>3, <1>4, <1>5, <1>6, <1>7

\* Steps that leave the list, the stores and the hits as they are.
LEMMA QuietIInv ==
    ASSUME IInv, NEW t \in Threads,
           WaitForComputing(t) \/ ReleaseNotify(t) \/ SpuriousWake(t)
    PROVE  IInv'
<1> USE DEF IInv, Cached, WaitForComputing, ReleaseNotify, SpuriousWake
<1>1. TypeOK'
  BY DEF TypeOK, Locations
<1>2. StoreAtPlace'
  BY DEF StoreAtPlace, TypeOK
<1>3. SingleFlight'
  BY DEF SingleFlight, TypeOK, Computes
<1>4. HitsStayCached'
  <2>1. \A b : Readers(b)' = Readers(b)
    BY DEF Readers, TypeOK
  <2> QED BY <2>1 DEF HitsStayCached, TypeOK
<1>5. FilledAlone'
  BY DEF FilledAlone, TypeOK, Referenced
<1> QED BY <1>1, <1>2, <1>3, <1>4, <1>5

LEMMA MissIInv == ASSUME IInv, NEW t \in Threads, Miss(t) PROVE IInv'
<1> USE DEF IInv, Cached
<1>1. /\ pc[t] = "get" /\ \A b \in Cached : cache[b].start # want[t]
      /\ want[t] \notin computing
      /\ computing' = computing \union {want[t]}
      /\ pc' = [pc EXCEPT ![t] = "compute"]
      /\ UNCHANGED <<cache, pool, want, store, asleep, asked>>
  BY DEF Miss, IsComputing
<1>2. /\ dropped' \in Seq(Starts)
      /\ droppedHits' \in {0, 1}
      /\ size' \in CacheSize..CacheCap
  <2>1. CASE UNCHANGED <<dropped, droppedHits, size>>
    BY <2>1 DEF TypeOK
  <2>2. CASE /\ size < CacheCap
             /\ \E again \in DOMAIN dropped : dropped' = EraseFirst(dropped, again)
             /\ droppedHits' = IF droppedHits + 1 >= GrowAfter THEN 0 ELSE droppedHits + 1
             /\ size' = IF droppedHits + 1 >= GrowAfter THEN size + 1 ELSE size
    <3>1. PICK again \in DOMAIN dropped : dropped' = EraseFirst(dropped, again)
      BY <2>2
    <3>2. droppedHits' \in {0, 1}
      BY <2>2 DEF TypeOK, GrowAfter
    <3>3. size' \in CacheSize..CacheCap
      BY <2>2 DEF TypeOK
    <3>4. dropped \in Seq(Starts) /\ again \in 1..Len(dropped)
      BY DEF TypeOK
    <3>5. /\ SubSeq(dropped, 1, again - 1) \in Seq(Starts)
          /\ SubSeq(dropped, again + 1, Len(dropped)) \in Seq(Starts)
      BY <3>4
    <3> QED BY <3>1, <3>2, <3>3, <3>5 DEF EraseFirst
  <2> QED BY <2>1, <2>2 DEF Miss, MayGrow
<1>3. TypeOK'
  BY <1>1, <1>2 DEF TypeOK, Locations
<1>4. StoreAtPlace'
  BY <1>1 DEF StoreAtPlace, TypeOK
<1>5. SingleFlight'
  BY <1>1 DEF SingleFlight, TypeOK, Computes
<1>6. HitsStayCached'
  <2>1. \A b : Readers(b)' = Readers(b)
    BY <1>1 DEF Readers, TypeOK
  <2> QED BY <1>1, <2>1 DEF HitsStayCached, TypeOK
<1>7. FilledAlone'
  BY <1>1 DEF FilledAlone, TypeOK, Referenced
<1> QED BY <1>3, <1>4, <1>5, <1>6, <1>7

LEMMA MakeStoreIInv == ASSUME IInv, NEW t \in Threads, MakeStore(t) PROVE IInv'
<1> USE DEF IInv, Cached
<1>1. PICK b \in Blocks : /\ IF pool # {} THEN b \in pool ELSE b \notin Allocated
                         /\ store' = [store EXCEPT ![t] = b]
                         /\ pool' = pool \ {b}
  BY DEF MakeStore
<1>2. /\ pc[t] = "compute" /\ pc' = [pc EXCEPT ![t] = "filling"]
      /\ UNCHANGED <<cache, size, computing, dropped, droppedHits, want, asleep, asked>>
  BY DEF MakeStore
<1>3. b \notin Referenced(cache, store)
  BY <1>1 DEF FilledAlone, Allocated
<1>4. b \notin Cached /\ \A u \in Threads : store[u] # b
  BY <1>3 DEF Referenced
<1>5. TypeOK'
  BY <1>1, <1>2 DEF TypeOK, Locations
<1>6. StoreAtPlace'
  BY <1>1, <1>2 DEF StoreAtPlace, TypeOK
<1>7. SingleFlight'
  BY <1>2 DEF SingleFlight, TypeOK, Computes
<1>8. HitsStayCached'
  <2>1. \A x : Readers(x)' = Readers(x)
    BY <1>1, <1>2 DEF Readers, TypeOK
  <2> QED BY <1>1, <1>2, <2>1 DEF HitsStayCached, TypeOK
<1>9. FilledAlone'
  <2>1. Referenced(cache, store)' \subseteq Referenced(cache, store) \union {b}
    BY <1>1, <1>2 DEF Referenced, TypeOK
  <2> QED BY <1>1, <1>2, <1>4, <2>1 DEF FilledAlone, TypeOK
<1> QED BY <1>5, <1>6, <1>7, <1>8, <1>9

\* A request lets go of its store without having published it, or after.
LEMMA LetGoIInv ==
    ASSUME IInv, NEW t \in Threads, ComputeThrows(t) \/ DropStore(t)
    PROVE  IInv'
<1> USE DEF IInv, Cached, ComputeThrows, DropStore
<1>1. Referenced(cache, store)' \subseteq Referenced(cache, store)
  BY DEF Referenced, TypeOK
<1>2. Referenced(cache, store)' = Referenced(cache, store')
  BY DEF Referenced
<1>3. TypeOK'
  <2>1. Referenced(cache, store) \subseteq Blocks
    BY DEF Referenced, TypeOK
  <2> QED BY <2>1, AnyStartType DEF TypeOK, Locations, Reclaim
<1>4. StoreAtPlace'
  BY DEF StoreAtPlace, TypeOK
<1>5. SingleFlight'
  BY DEF SingleFlight, TypeOK, Computes
<1>6. HitsStayCached'
  <2>1. \A x : Readers(x)' = Readers(x)
    BY DEF Readers, TypeOK
  <2> QED BY <2>1 DEF HitsStayCached, TypeOK
<1>7. FilledAlone'
  BY <1>1, <1>2 DEF FilledAlone, TypeOK, Reclaim, StoreAtPlace
<1> QED BY <1>3, <1>4, <1>5, <1>6, <1>7

LEMMA RethrowIInv == ASSUME IInv, NEW t \in Threads, Rethrow(t) PROVE IInv'
<1> USE DEF IInv, Cached, Rethrow
<1>1. TypeOK'
  BY AnyStartType DEF TypeOK, Locations
<1>2. StoreAtPlace'
  BY DEF StoreAtPlace, TypeOK
<1>3. SingleFlight'
  BY DEF SingleFlight, TypeOK, Computes
<1>4. HitsStayCached'
  <2>1. \A b : Readers(b)' = Readers(b)
    BY DEF Readers, TypeOK
  <2> QED BY <2>1 DEF HitsStayCached, TypeOK
<1>5. FilledAlone'
  BY DEF FilledAlone, TypeOK, Referenced
<1> QED BY <1>1, <1>2, <1>3, <1>4, <1>5

LEMMA ReleaseIInv == ASSUME IInv, NEW t \in Threads, Release(t) PROVE IInv'
<1> USE DEF IInv, Cached, Release
<1>1. PICK b \in Cached : b = store[t]
  BY DEF HitsStayCached
<1>2. /\ Cached' = Cached
      /\ cache' \in [Cached -> Entries]
      /\ \A x \in Cached : /\ cache'[x].start = cache[x].start
                           /\ cache'[x].readers = IF x = b THEN cache[x].readers - 1 ELSE cache[x].readers
  <2>1. cache' = Unread(cache, b) /\ b \in DOMAIN cache /\ cache \in [DOMAIN cache -> Entries]
    BY <1>1 DEF TypeOK
  <2> QED BY <2>1, UnreadList
<1>3. TypeOK'
  BY <1>2 DEF TypeOK, Locations
<1>4. StoreAtPlace'
  BY <1>2 DEF StoreAtPlace, TypeOK
<1>5. SingleFlight'
  BY <1>2 DEF SingleFlight, TypeOK, Computes
<1>6. HitsStayCached'
  <2>1. \A x \in Cached : x # b => Readers(x)' = Readers(x)
    BY <1>1 DEF Readers, TypeOK
  <2>2. Readers(b)' = Readers(b) \ {t} /\ t \in Readers(b)
    BY <1>1 DEF Readers, TypeOK
  <2>3. Cardinality(Readers(b)') = Cardinality(Readers(b)) - 1
    BY <2>2, ReadersFinite, FS_RemoveElement
  <2>4. \A x \in Cached' : cache'[x].readers = Cardinality(Readers(x)')
    BY <1>2, <2>1, <2>3 DEF HitsStayCached
  <2>5. \A u \in Threads : pc'[u] = "hit" => store'[u] \in Cached' /\ cache'[store'[u]].start = want'[u]
    BY <1>1, <1>2 DEF HitsStayCached, TypeOK
  <2> QED BY <2>4, <2>5 DEF HitsStayCached
<1>7. FilledAlone'
  BY <1>2 DEF FilledAlone, TypeOK, Referenced
<1> QED BY <1>3, <1>4, <1>5, <1>6, <1>7

\* What EvictOrWait keeps, whichever chunk was pushed before it.
LEMMA EvictList ==
    ASSUME NEW c, c \in [DOMAIN c -> Entries], IsFiniteSet(DOMAIN c),
           NEW t \in Threads, dropped \in Seq(Starts), EvictOrWait(t, c)
    PROVE  /\ Cached' \subseteq DOMAIN c
           /\ IsFiniteSet(Cached')
           /\ cache' \in [Cached' -> Entries]
           /\ \A x \in Cached' : /\ cache'[x].start = c[x].start
                                 /\ cache'[x].readers = c[x].readers
           /\ \A x \in DOMAIN c : c[x].readers # 0 => x \in Cached'
           /\ dropped' \in Seq(Starts)
           /\ pool' = Reclaim(cache', store)
           /\ \/ pc' = [pc EXCEPT ![t] = "own"] /\ asleep' = {}
              \/ pc' = [pc EXCEPT ![t] = "evict"] /\ asleep' = asleep \union {t}
<1> DEFINE gone == Victims(c)
<1>1. /\ gone \subseteq DOMAIN c
      /\ \A b \in gone : c[b].readers = 0
  BY VictimsUnread
<1>2. /\ cache' = Erase(c, gone)
      /\ pool' = Reclaim(cache', store)
  BY DEF EvictOrWait
<1>3. \/ pc' = [pc EXCEPT ![t] = "own"] /\ asleep' = {}
      \/ pc' = [pc EXCEPT ![t] = "evict"] /\ asleep' = asleep \union {t}
  BY DEF EvictOrWait
<1>4. \E o \in DropOrders(c, gone) :
        \/ dropped' = Trim(dropped \o [i \in DOMAIN o |-> c[o[i]].start])
        \/ dropped' = dropped \o [i \in DOMAIN o |-> c[o[i]].start]
  BY DEF EvictOrWait
<1> HIDE DEF gone
<1>5. dropped' \in Seq(Starts)
  <2>1. PICK o \in DropOrders(c, gone) :
          \/ dropped' = Trim(dropped \o [i \in DOMAIN o |-> c[o[i]].start])
          \/ dropped' = dropped \o [i \in DOMAIN o |-> c[o[i]].start]
    BY <1>4
  <2>2. /\ dropped \o [i \in DOMAIN o |-> c[o[i]].start] \in Seq(Starts)
        /\ Trim(dropped \o [i \in DOMAIN o |-> c[o[i]].start]) \in Seq(Starts)
    BY <1>1, DroppedType
  <2> QED BY <2>1, <2>2
<1>6. /\ DOMAIN cache' = DOMAIN c \ gone
      /\ cache' \in [DOMAIN c \ gone -> Entries]
      /\ \A x \in DOMAIN c \ gone : /\ cache'[x].start = c[x].start
                                    /\ cache'[x].readers = c[x].readers
  <2>1. /\ DOMAIN Erase(c, gone) = DOMAIN c \ gone
        /\ Erase(c, gone) \in [DOMAIN c \ gone -> Entries]
        /\ \A x \in DOMAIN c \ gone : /\ Erase(c, gone)[x].start = c[x].start
                                      /\ Erase(c, gone)[x].readers = c[x].readers
    BY <1>1, EraseList
  <2> QED BY <1>2, <2>1
<1>7. IsFiniteSet(DOMAIN c \ gone)
  BY FS_Subset
<1> QED BY <1>1, <1>2, <1>3, <1>5, <1>6, <1>7 DEF Cached

LEMMA PublishIInv == ASSUME IInv, NEW t \in Threads, Publish(t) PROVE IInv'
<1> USE DEF IInv
<1>0. PICK b \in Blocks : b = store[t]
  <2>1. pc[t] = "filling"
    BY DEF Publish
  <2> QED BY <2>1 DEF StoreAtPlace, TypeOK
<1> DEFINE c == PushFront(cache, b, want[t])
<1>1. /\ pc[t] = "filling"
      /\ computing' = computing \ {want[t]}
      /\ EvictOrWait(t, c)
      /\ UNCHANGED <<size, droppedHits, want, store, asked>>
  BY <1>0 DEF Publish
<1>2. b \notin Cached /\ \A u \in Threads \ {t} : store[u] # b
  BY <1>0, <1>1 DEF FilledAlone, StoreAtPlace, TypeOK
<1>3. /\ DOMAIN c = Cached \union {b}
      /\ c \in [Cached \union {b} -> Entries]
      /\ c[b].start = want[t] /\ c[b].readers = 0
      /\ \A x \in Cached : c[x].start = cache[x].start /\ c[x].readers = cache[x].readers
  <2>1. cache \in [DOMAIN cache -> Entries] /\ b \notin DOMAIN cache /\ want[t] \in Starts
    BY <1>2 DEF TypeOK, Cached
  <2>2. PushFront(cache, b, want[t]) \in [DOMAIN cache \union {b} -> Entries]
    BY <2>1, PushType
  <2>3. /\ PushFront(cache, b, want[t])[b].start = want[t]
        /\ PushFront(cache, b, want[t])[b].readers = 0
        /\ \A x \in DOMAIN cache : /\ PushFront(cache, b, want[t])[x].start = cache[x].start
                                   /\ PushFront(cache, b, want[t])[x].readers = cache[x].readers
    BY <2>1, PushParts
  <2> QED BY <2>2, <2>3 DEF Cached
<1> HIDE DEF c
<1>4. IsFiniteSet(DOMAIN c)
  BY <1>3, FS_AddElement DEF StoreAtPlace
<1>5. dropped \in Seq(Starts)
  BY DEF TypeOK
<1>6. /\ Cached' \subseteq DOMAIN c
      /\ IsFiniteSet(Cached')
      /\ cache' \in [Cached' -> Entries]
      /\ \A x \in Cached' : /\ cache'[x].start = c[x].start
                            /\ cache'[x].readers = c[x].readers
      /\ \A x \in DOMAIN c : c[x].readers # 0 => x \in Cached'
      /\ dropped' \in Seq(Starts)
      /\ pool' = Reclaim(cache', store)
      /\ \/ pc' = [pc EXCEPT ![t] = "own"] /\ asleep' = {}
         \/ pc' = [pc EXCEPT ![t] = "evict"] /\ asleep' = asleep \union {t}
  BY <1>1, <1>3, <1>4, <1>5, EvictList
<1>7. Referenced(cache, store)' = Referenced(cache', store)
  BY <1>1 DEF Referenced
<1>8. Referenced(cache, store)' \subseteq Referenced(cache, store)
  BY <1>0, <1>1, <1>3, <1>6 DEF Referenced, Cached
<1>9. TypeOK'
  <2>1. Referenced(cache, store) \subseteq Blocks
    BY DEF Referenced, TypeOK, Cached
  <2>2. Cached' \subseteq Blocks /\ pool' \subseteq Blocks
    BY <1>2, <1>3, <1>6, <2>1 DEF TypeOK, Reclaim
  <2> QED BY <1>1, <1>6, <2>2 DEF TypeOK, Locations
<1>10. StoreAtPlace'
  BY <1>1, <1>6 DEF StoreAtPlace, TypeOK
<1>11. SingleFlight'
  <2>1. \A u \in Threads : Computes(u)' <=> Computes(u) /\ u # t
    BY <1>1, <1>6 DEF TypeOK, Computes
  <2>2. Computes(t) /\ want' = want
    BY <1>1 DEF Computes
  <2>3. \A u, v \in Threads : Computes(u)' /\ Computes(v)' /\ want'[u] = want'[v] => u = v
    BY <2>1, <2>2 DEF SingleFlight
  <2>4. computing' = {want'[u] : u \in {v \in Threads : Computes(v)'}}
    BY <1>1, <2>1, <2>2 DEF SingleFlight
  <2>5. want[t] \in computing /\ \A x \in Cached : cache[x].start # want[t]
    BY <2>2 DEF SingleFlight
  <2>6. \A x \in Cached' : cache'[x].start \notin computing'
    BY <1>1, <1>3, <1>6 DEF SingleFlight
  <2>7. \A x, y \in Cached' : cache'[x].start = cache'[y].start => x = y
    BY <1>3, <1>6, <2>5 DEF SingleFlight
  <2> QED BY <2>3, <2>4, <2>6, <2>7 DEF SingleFlight
<1>12. HitsStayCached'
  <2>1. \A x : Readers(x)' = Readers(x)
    BY <1>1, <1>6 DEF Readers, TypeOK
  <2>2. Readers(b) = {}
    BY <1>0, <1>1, <1>2 DEF Readers
  <2>3. Cardinality(Readers(b)) = 0
    BY <2>2, FS_EmptySet
  <2>4. \A x \in DOMAIN c : c[x].readers = Cardinality(Readers(x))
    BY <1>3, <2>3 DEF HitsStayCached
  <2>5. \A x \in Cached' : cache'[x].readers = Cardinality(Readers(x)')
    BY <1>6, <2>1, <2>4
  <2>6. ASSUME NEW u \in Threads, pc'[u] = "hit"
        PROVE  store'[u] \in Cached' /\ cache'[store'[u]].start = want'[u]
    <3>1. pc[u] = "hit" /\ store'[u] = store[u] /\ want'[u] = want[u]
      BY <1>1, <1>6, <2>6 DEF TypeOK
    <3>2. store[u] \in Cached /\ cache[store[u]].start = want[u]
      BY <3>1 DEF HitsStayCached
    <3>3. u \in Readers(store[u])
      BY <3>1 DEF Readers
    <3>4. c[store[u]].readers # 0
      BY <3>2, <3>3, <2>4, <1>3, ReadersFinite, FS_EmptySet
    <3> QED BY <3>1, <3>2, <3>4, <1>3, <1>6
  <2> QED BY <2>5, <2>6 DEF HitsStayCached
<1>13. FilledAlone'
  BY <1>1, <1>2, <1>3, <1>6, <1>7, <1>8 DEF FilledAlone, TypeOK, Reclaim
<1> QED BY <1>9, <1>10, <1>11, <1>12, <1>13

LEMMA EvictAgainIInv == ASSUME IInv, NEW t \in Threads, EvictAgain(t) PROVE IInv'
<1> USE DEF IInv
<1>1. /\ pc[t] = "evict"
      /\ EvictOrWait(t, cache)
      /\ UNCHANGED <<size, computing, droppedHits, want, store, asked>>
  BY DEF EvictAgain
<1>2. /\ cache \in [DOMAIN cache -> Entries] /\ dropped \in Seq(Starts)
      /\ IsFiniteSet(DOMAIN cache)
  BY DEF TypeOK, StoreAtPlace, Cached
<1>3. /\ Cached' \subseteq Cached
      /\ IsFiniteSet(Cached')
      /\ cache' \in [Cached' -> Entries]
      /\ \A x \in Cached' : /\ cache'[x].start = cache[x].start
                            /\ cache'[x].readers = cache[x].readers
      /\ \A x \in Cached : cache[x].readers # 0 => x \in Cached'
      /\ dropped' \in Seq(Starts)
      /\ pool' = Reclaim(cache', store)
      /\ \/ pc' = [pc EXCEPT ![t] = "own"] /\ asleep' = {}
         \/ pc' = [pc EXCEPT ![t] = "evict"] /\ asleep' = asleep \union {t}
  BY <1>1, <1>2, EvictList DEF Cached
<1>4. Referenced(cache, store)' = Referenced(cache', store)
  BY <1>1 DEF Referenced
<1>5. Referenced(cache, store)' \subseteq Referenced(cache, store)
  BY <1>1, <1>3 DEF Referenced, Cached
<1>6. TypeOK'
  <2>1. Referenced(cache, store) \subseteq Blocks
    BY DEF Referenced, TypeOK, Cached
  <2>2. Cached' \subseteq Blocks /\ pool' \subseteq Blocks
    BY <1>3, <2>1 DEF TypeOK, Reclaim
  <2> QED BY <1>1, <1>3, <2>2 DEF TypeOK, Locations
<1>7. StoreAtPlace'
  BY <1>1, <1>3 DEF StoreAtPlace, TypeOK
<1>8. SingleFlight'
  <2>1. \A u \in Threads : Computes(u)' <=> Computes(u)
    BY <1>1, <1>3 DEF TypeOK, Computes
  <2> QED BY <1>1, <1>3, <2>1 DEF SingleFlight
<1>9. HitsStayCached'
  <2>1. \A x : Readers(x)' = Readers(x)
    BY <1>1, <1>3 DEF Readers, TypeOK
  <2>2. \A x \in Cached' : cache'[x].readers = Cardinality(Readers(x)')
    BY <1>3, <2>1 DEF HitsStayCached
  <2>3. ASSUME NEW u \in Threads, pc'[u] = "hit"
        PROVE  store'[u] \in Cached' /\ cache'[store'[u]].start = want'[u]
    <3>1. pc[u] = "hit" /\ store'[u] = store[u] /\ want'[u] = want[u]
      BY <1>1, <1>3, <2>3 DEF TypeOK
    <3>2. store[u] \in Cached /\ cache[store[u]].start = want[u]
      BY <3>1 DEF HitsStayCached
    <3>3. u \in Readers(store[u])
      BY <3>1 DEF Readers
    <3>4. cache[store[u]].readers # 0
      BY <3>2, <3>3, ReadersFinite, FS_EmptySet DEF HitsStayCached
    <3> QED BY <3>1, <3>2, <3>4, <1>3
  <2> QED BY <2>2, <2>3 DEF HitsStayCached
<1>10. FilledAlone'
  BY <1>1, <1>3, <1>4, <1>5 DEF FilledAlone, TypeOK, Reclaim
<1> QED BY <1>6, <1>7, <1>8, <1>9, <1>10

LEMMA ClearIInv == ASSUME IInv, Clear PROVE IInv'
<1> USE DEF IInv, Clear
<1>1. Cached' = {} /\ IsFiniteSet(Cached')
  BY FS_EmptySet DEF Cached
<1>2. TypeOK'
  BY <1>1 DEF TypeOK, Cached
<1>3. StoreAtPlace'
  BY <1>1 DEF StoreAtPlace
<1>4. SingleFlight'
  BY <1>1 DEF SingleFlight, Computes
<1>5. HitsStayCached' /\ FilledAlone'
  BY <1>1 DEF HitsStayCached, FilledAlone
<1> QED BY <1>2, <1>3, <1>4, <1>5

LEMMA StutterIInv == ASSUME IInv, UNCHANGED cacheVars PROVE IInv'
  BY DEF IInv, cacheVars, TypeOK, StoreAtPlace, SingleFlight, HitsStayCached, FilledAlone,
         Cached, Computes, Readers, Referenced

LEMMA CacheStep == ASSUME IInv, [Next]_cacheVars PROVE IInv'
<1>1. CASE Clear
  BY <1>1, ClearIInv
<1>2. CASE UNCHANGED cacheVars
  BY <1>2, StutterIInv
<1>3. ASSUME NEW t \in Threads, NEW start \in Starts, Ask(t, start) PROVE IInv'
  BY <1>3, AskIInv
<1>4. ASSUME NEW t \in Threads, Step(t) PROVE IInv'
  BY <1>4, HitIInv, QuietIInv, MissIInv, MakeStoreIInv, RethrowIInv, PublishIInv,
     EvictAgainIInv, ReleaseIInv, LetGoIInv DEF Step
<1>5. ASSUME NEW t \in Threads, ComputeThrows(t) \/ SpuriousWake(t) PROVE IInv'
  BY <1>5, LetGoIInv, QuietIInv
<1> QED BY <1>1, <1>2, <1>3, <1>4, <1>5 DEF Next

\* The inductive invariant: every step of every request keeps it.
THEOREM CacheInvariant == Spec => []IInv
<1>1. IInv /\ [Next]_cacheVars => IInv'
  BY CacheStep
<1> QED BY InitIInv, <1>1, PTL DEF Spec

\* Every variable of the cache keeps its type: size_ stays within the cap
\* whatever chunks are asked for again, dropped_ is a sequence of starts.
THEOREM CacheTypes == Spec => []TypeOK
<1>1. IInv => TypeOK
  BY DEF IInv
<1> QED BY CacheInvariant, <1>1, PTL

\* No chunk is computed by two requests at once, computed while it is cached
\* or cached twice (ChunkCache::get).
THEOREM CacheSingleFlight == Spec => []SingleFlight
<1>1. IInv => SingleFlight
  BY DEF IInv
<1> QED BY CacheInvariant, <1>1, PTL

\* The eviction loop never takes a chunk a hit reads, and readers counts the hits.
THEOREM CacheKeepsHits == Spec => []HitsStayCached
<1>1. IInv => HitsStayCached
  BY DEF IInv
<1> QED BY CacheInvariant, <1>1, PTL

\* The block a chunk is downloaded into has one owner (make_store, ~ChunkStore).
THEOREM CacheFillsAlone == Spec => []FilledAlone
<1>1. IInv => FilledAlone
  BY DEF IInv
<1> QED BY CacheInvariant, <1>1, PTL

-----------------------------------------------------------------------------
\* The chunks that are in the cache and not those of requests in its eviction loop.
Settled == Cached \ {store[t] : t \in Evicting}

LEMMA SettledFinite == ASSUME IInv PROVE IsFiniteSet(Settled) /\ Cardinality(Settled) \in Nat
  BY FS_Subset, FS_CardinalityType DEF IInv, StoreAtPlace, Settled

\* A step that settles no chunk keeps the bound.
LEMMA FewerSettled ==
    ASSUME IInv, OverSizeOnlyWaiting, Settled' \subseteq Settled, size' \in Int, size' >= size
    PROVE  OverSizeOnlyWaiting'
<1>1. Cardinality(Settled) \in Nat /\ size \in Int
  BY SettledFinite DEF IInv, TypeOK
<1>2. Cardinality(Settled') \in Nat /\ Cardinality(Settled') <= Cardinality(Settled)
  BY SettledFinite, FS_Subset, FS_CardinalityType
<1> QED BY <1>1, <1>2 DEF OverSizeOnlyWaiting, Settled

\* What EvictOrWait does to the cache's size.
LEMMA EvictSize ==
    ASSUME NEW c, c \in [DOMAIN c -> Entries], IsFiniteSet(DOMAIN c),
           NEW t \in Threads, EvictOrWait(t, c)
    PROVE  /\ Cached' \subseteq DOMAIN c
           /\ \/ Cardinality(Cached') <= size
              \/ pc' = [pc EXCEPT ![t] = "evict"]
<1> DEFINE gone == Victims(c)
<1>1. gone \subseteq DOMAIN c
  BY VictimsUnread
<1>2. /\ cache' = Erase(c, gone)
      /\ \/ Cardinality(DOMAIN c \ gone) <= size
         \/ pc' = [pc EXCEPT ![t] = "evict"]
  BY DEF EvictOrWait
<1> HIDE DEF gone
<1>3. DOMAIN Erase(c, gone) = DOMAIN c \ gone
  BY <1>1, EraseList
<1> QED BY <1>2, <1>3 DEF Cached

\* A cache within its size is within the bound.
LEMMA FitsSettled ==
    ASSUME IInv, IInv', Cardinality(Cached') <= size'
    PROVE  OverSizeOnlyWaiting'
<1>1. IsFiniteSet(Cached') /\ Settled' \subseteq Cached'
  BY DEF IInv, StoreAtPlace, Settled
<1>2. /\ Cardinality(Settled') \in Nat /\ Cardinality(Cached') \in Nat
      /\ Cardinality(Settled') <= Cardinality(Cached')
  BY <1>1, FS_Subset, FS_CardinalityType
<1> QED BY <1>2 DEF OverSizeOnlyWaiting, Settled, IInv, TypeOK

LEMMA PublishSize ==
    ASSUME IInv, IInv', OverSizeOnlyWaiting, NEW t \in Threads, Publish(t)
    PROVE  OverSizeOnlyWaiting'
<1> USE DEF IInv
<1>0. PICK b \in Blocks : b = store[t]
  <2>1. pc[t] = "filling"
    BY DEF Publish
  <2> QED BY <2>1 DEF StoreAtPlace, TypeOK
<1> DEFINE c == PushFront(cache, b, want[t])
<1>1. pc[t] = "filling" /\ EvictOrWait(t, c) /\ size' = size /\ store' = store
  BY <1>0 DEF Publish
<1>2. cache \in [DOMAIN cache -> Entries] /\ b \notin DOMAIN cache /\ want[t] \in Starts
  BY <1>0, <1>1 DEF TypeOK, FilledAlone, Cached
<1>3. c \in [Cached \union {b} -> Entries]
  BY <1>2, PushType DEF Cached
<1> HIDE DEF c
<1>4. DOMAIN c = Cached \union {b} /\ c \in [DOMAIN c -> Entries]
  BY <1>3
<1>5. IsFiniteSet(DOMAIN c)
  BY <1>4, FS_AddElement DEF StoreAtPlace
<1>6. /\ Cached' \subseteq Cached \union {b}
      /\ \/ Cardinality(Cached') <= size
         \/ pc' = [pc EXCEPT ![t] = "evict"]
  BY <1>1, <1>4, <1>5, EvictSize
<1>7. CASE Cardinality(Cached') <= size
  BY <1>1, <1>7, FitsSettled
<1>8. CASE pc' = [pc EXCEPT ![t] = "evict"]
  <2>1. Evicting' = Evicting \union {t}
    BY <1>1, <1>8 DEF Evicting, TypeOK
  <2>2. Settled' \subseteq Settled
    BY <1>0, <1>1, <1>6, <2>1 DEF Settled
  <2> QED BY <1>1, <2>2, FewerSettled DEF TypeOK
<1> QED BY <1>6, <1>7, <1>8

LEMMA EvictAgainSize ==
    ASSUME IInv, IInv', OverSizeOnlyWaiting, NEW t \in Threads, EvictAgain(t)
    PROVE  OverSizeOnlyWaiting'
<1> USE DEF IInv
<1>1. pc[t] = "evict" /\ EvictOrWait(t, cache) /\ size' = size /\ store' = store
  BY DEF EvictAgain
<1>2. cache \in [DOMAIN cache -> Entries] /\ IsFiniteSet(DOMAIN cache)
  BY DEF TypeOK, StoreAtPlace, Cached
<1>3. /\ Cached' \subseteq Cached
      /\ \/ Cardinality(Cached') <= size
         \/ pc' = [pc EXCEPT ![t] = "evict"]
  BY <1>1, <1>2, EvictSize DEF Cached
<1>4. CASE Cardinality(Cached') <= size
  BY <1>1, <1>4, FitsSettled
<1>5. CASE pc' = [pc EXCEPT ![t] = "evict"]
  <2>1. Evicting' = Evicting
    BY <1>1, <1>5 DEF Evicting, TypeOK
  <2>2. Settled' \subseteq Settled
    BY <1>1, <1>3, <2>1 DEF Settled
  <2> QED BY <1>1, <2>2, FewerSettled DEF TypeOK
<1> QED BY <1>3, <1>4, <1>5

\* Apart from the chunks of requests in the eviction loop, the cache holds
\* size_ chunks at most.
THEOREM CacheOverSize == Spec => []OverSizeOnlyWaiting
<1>1. Init => OverSizeOnlyWaiting
  <2> SUFFICES ASSUME Init PROVE OverSizeOnlyWaiting
    OBVIOUS
  <2>1. Settled = {} /\ Cardinality(Settled) = 0
    BY FS_EmptySet DEF Init, Cached, Settled
  <2> QED BY <2>1 DEF Init, OverSizeOnlyWaiting, Settled
<1>2. ASSUME IInv, IInv', OverSizeOnlyWaiting, [Next]_cacheVars PROVE OverSizeOnlyWaiting'
  <2> USE <1>2 DEF IInv
  <2>1. CASE Clear
    BY <2>1, FewerSettled DEF Clear, Cached, Settled, TypeOK
  <2>2. CASE UNCHANGED cacheVars
    BY <2>2, FewerSettled DEF cacheVars, Cached, Evicting, Settled, TypeOK
  <2>3. ASSUME NEW t \in Threads, Publish(t) \/ EvictAgain(t) PROVE OverSizeOnlyWaiting'
    BY <2>3, PublishSize, EvictAgainSize
  <2>4. ASSUME NEW t \in Threads, NEW start \in Starts, Ask(t, start) PROVE OverSizeOnlyWaiting'
    <3>1. Cached' = Cached /\ size' = size /\ store' = store
      BY <2>4 DEF Ask, Cached
    <3>2. Evicting' = Evicting
      BY <2>4 DEF Ask, Evicting, TypeOK
    <3> QED BY <3>1, <3>2, FewerSettled DEF Settled, TypeOK
  <2>5. ASSUME NEW t \in Threads, Hit(t) \/ Release(t) PROVE OverSizeOnlyWaiting'
    <3>1. Cached' = Cached /\ size' = size
      BY <2>5 DEF Hit, Release, Cached, TouchAndRead, Unread
    <3>2. Evicting' = Evicting /\ \A u \in Evicting : store'[u] = store[u]
      BY <2>5 DEF Hit, Release, Evicting, TypeOK
    <3> QED BY <3>1, <3>2, FewerSettled DEF Settled, TypeOK
  <2>6. ASSUME NEW t \in Threads, Miss(t) PROVE OverSizeOnlyWaiting'
    <3>1. size' \in Int /\ size' >= size
      BY <2>6 DEF Miss, TypeOK
    <3>2. Cached' = Cached /\ Evicting' = Evicting /\ store' = store
      BY <2>6 DEF Miss, Cached, Evicting, TypeOK
    <3> QED BY <3>1, <3>2, FewerSettled DEF Settled
  <2>7. ASSUME NEW t \in Threads,
               \/ WaitForComputing(t) \/ MakeStore(t) \/ Rethrow(t) \/ ReleaseNotify(t)
               \/ DropStore(t) \/ ComputeThrows(t) \/ SpuriousWake(t)
        PROVE  OverSizeOnlyWaiting'
    <3>1. Cached' = Cached /\ size' = size
      BY <2>7 DEF WaitForComputing, MakeStore, Rethrow, ReleaseNotify, DropStore,
                  ComputeThrows, SpuriousWake, Cached
    <3>2. Evicting' = Evicting /\ \A u \in Evicting : store'[u] = store[u]
      BY <2>7 DEF WaitForComputing, MakeStore, Rethrow, ReleaseNotify, DropStore,
                  ComputeThrows, SpuriousWake, Evicting, TypeOK
    <3> QED BY <3>1, <3>2, FewerSettled DEF Settled, TypeOK
  <2> QED BY <2>1, <2>2, <2>3, <2>4, <2>5, <2>6, <2>7 DEF Next, Step
<1> QED BY <1>1, <1>2, CacheInvariant, PTL DEF Spec

LEMMA ImageCardinality ==
    ASSUME NEW S, IsFiniteSet(S), NEW f
    PROVE  /\ IsFiniteSet({f[x] : x \in S})
           /\ Cardinality({f[x] : x \in S}) <= Cardinality(S)
<1> DEFINE T == {f[x] : x \in S}
           g == [x \in S |-> f[x]]
<1>1. g \in Surjection(S, T)
  BY DEF Surjection
<1> HIDE DEF g, T
<1>2. IsFiniteSet(T) /\ Cardinality(T) <= Cardinality(S)
  BY <1>1, FS_Surjection
<1> QED BY <1>2 DEF T

LEMMA UnionCardinality ==
    ASSUME NEW S, NEW T, IsFiniteSet(S), IsFiniteSet(T)
    PROVE  /\ IsFiniteSet(S \union T)
           /\ Cardinality(S \union T) <= Cardinality(S) + Cardinality(T)
<1>1. IsFiniteSet(S \intersect T)
  BY FS_Subset
<1>2. Cardinality(S) \in Nat /\ Cardinality(T) \in Nat /\ Cardinality(S \intersect T) \in Nat
  BY <1>1, FS_CardinalityType
<1>3. IsFiniteSet(S \union T)
  BY FS_Union
<1>4. Cardinality(S \union T) = Cardinality(S) + Cardinality(T) - Cardinality(S \intersect T)
  BY FS_Union
<1> QED BY <1>2, <1>3, <1>4

\* The stores in use never exceed what the memory plan counts by more than
\* the readers that are leaving ~Chunk.
THEOREM CacheStoresAccounted == Spec => []StoresAccounted
<1>1. ASSUME IInv, OverSizeOnlyWaiting PROVE StoresAccounted
  <2> USE <1>1 DEF IInv
  <2> DEFINE H1 == {t \in Threads : pc[t] \in {"filling", "evict", "own"}}
             H2 == {t \in Threads : pc[t] \in {"notify", "unread"}}
             S1 == {store[t] : t \in H1}
             S2 == {store[t] : t \in H2}
  <2>1. Referenced(cache, store) \subseteq (Settled \union S1) \union S2
    BY DEF Referenced, Settled, Evicting, StoreAtPlace, HitsStayCached, TypeOK, Locations, Cached
  <2>2. IsFiniteSet(H1) /\ IsFiniteSet(H2)
    BY FS_Subset
  <2>3. /\ IsFiniteSet(S1) /\ Cardinality(S1) <= Cardinality(H1)
        /\ IsFiniteSet(S2) /\ Cardinality(S2) <= Cardinality(H2)
    <3> HIDE DEF H1, H2
    <3> QED BY <2>2, ImageCardinality
  <2>4. IsFiniteSet(Settled) /\ Cardinality(Settled) <= size
    BY SettledFinite DEF OverSizeOnlyWaiting, Settled
  <2> HIDE DEF S1, S2, H1, H2
  <2>5. /\ IsFiniteSet(Settled \union S1)
        /\ Cardinality(Settled \union S1) <= Cardinality(Settled) + Cardinality(S1)
    BY <2>3, <2>4, UnionCardinality
  <2>6. /\ IsFiniteSet((Settled \union S1) \union S2)
        /\ Cardinality((Settled \union S1) \union S2) <= Cardinality(Settled \union S1) + Cardinality(S2)
    BY <2>3, <2>5, UnionCardinality
  <2>7. Cardinality(Referenced(cache, store)) <= Cardinality((Settled \union S1) \union S2)
    BY <2>1, <2>6, FS_Subset
  <2>8. /\ Cardinality(Referenced(cache, store)) \in Nat
        /\ Cardinality((Settled \union S1) \union S2) \in Nat
        /\ Cardinality(Settled \union S1) \in Nat
        /\ Cardinality(Settled) \in Nat /\ Cardinality(S1) \in Nat /\ Cardinality(S2) \in Nat
        /\ Cardinality(H1) \in Nat /\ Cardinality(H2) \in Nat /\ size \in Int
    BY <2>1, <2>2, <2>3, <2>4, <2>5, <2>6, FS_Subset, FS_CardinalityType DEF TypeOK
  <2>9. Cardinality(Referenced(cache, store)) <= size + Cardinality(H1) + Cardinality(H2)
    BY <2>3, <2>4, <2>5, <2>6, <2>7, <2>8
  <2> QED BY <2>9 DEF StoresAccounted, H1, H2
<1> QED BY <1>1, CacheInvariant, CacheOverSize, PTL

-----------------------------------------------------------------------------
(* No wakeup is lost.  A request sleeps in the eviction loop only while a  *)
(* chunk is read: the loop drops every chunk behind the front that is not, *)
(* and there is one front.                                                 *)

\* The entries have a place of their own each.
Placed(c) == \A x \in DOMAIN c : /\ c[x].pos >= 0
                                 /\ \A y \in DOMAIN c : c[x].pos = c[y].pos => x = y

LEMMA PositionsTyped ==
    ASSUME NEW c, c \in [DOMAIN c -> Entries]
    PROVE  \A x \in DOMAIN c : c[x].pos \in Int /\ c[x].readers \in Int
  BY EntryParts

LEMMA TouchPlaced ==
    ASSUME NEW c, c \in [DOMAIN c -> Entries], NEW b \in DOMAIN c, Placed(c)
    PROVE  Placed(TouchAndRead(c, b))
<1>1. \A x \in DOMAIN c : c[x].pos \in Int
  BY PositionsTyped
<1>2. DOMAIN TouchAndRead(c, b) = DOMAIN c
  BY DEF TouchAndRead
<1>3. \A x \in DOMAIN c :
          TouchAndRead(c, b)[x].pos = IF x = b THEN 0 ELSE c[x].pos + (IF c[x].pos < c[b].pos THEN 1 ELSE 0)
  BY DEF TouchAndRead, Entry
<1>4. \A x \in DOMAIN c : x # b => c[x].pos # c[b].pos
  BY DEF Placed
<1>5. \A x \in DOMAIN c : TouchAndRead(c, b)[x].pos >= 0 /\ (x # b => TouchAndRead(c, b)[x].pos > 0)
  BY <1>1, <1>3, <1>4 DEF Placed
<1>6. ASSUME NEW x \in DOMAIN c, NEW y \in DOMAIN c, TouchAndRead(c, b)[x].pos = TouchAndRead(c, b)[y].pos
      PROVE  x = y
  <2>1. CASE x = b \/ y = b
    BY <1>3, <1>5, <1>6, <2>1
  <2>2. CASE x # b /\ y # b
    <3>1. c[x].pos = c[y].pos
      BY <1>1, <1>3, <1>4, <1>6, <2>2
    <3> QED BY <3>1 DEF Placed
  <2> QED BY <2>1, <2>2
<1> QED BY <1>2, <1>5, <1>6 DEF Placed

LEMMA PushPlaced ==
    ASSUME NEW c, c \in [DOMAIN c -> Entries], NEW b, b \notin DOMAIN c, NEW s, Placed(c)
    PROVE  Placed(PushFront(c, b, s))
<1>1. \A x \in DOMAIN c : c[x].pos \in Int /\ c[x].pos >= 0
  BY PositionsTyped DEF Placed
<1>2. DOMAIN PushFront(c, b, s) = DOMAIN c \union {b}
  BY DEF PushFront
<1>3. PushFront(c, b, s)[b].pos = 0 /\ \A x \in DOMAIN c : PushFront(c, b, s)[x].pos = c[x].pos + 1
  BY DEF PushFront, Entry
<1> QED BY <1>1, <1>2, <1>3 DEF Placed

LEMMA UnreadPlaced ==
    ASSUME NEW c, c \in [DOMAIN c -> Entries], NEW b \in DOMAIN c, Placed(c)
    PROVE  Placed(Unread(c, b))
<1>1. DOMAIN Unread(c, b) = DOMAIN c /\ \A x \in DOMAIN c : Unread(c, b)[x].pos = c[x].pos
  BY DEF Unread, Entry
<1> QED BY <1>1 DEF Placed

\* As many entries as there are places between two, at most.
LEMMA PlacesBetween ==
    ASSUME NEW c, c \in [DOMAIN c -> Entries], Placed(c), NEW S \in SUBSET DOMAIN c,
           NEW low \in Int, NEW high \in Int, low <= high,
           \A x \in S : low <= c[x].pos /\ c[x].pos < high
    PROVE  IsFiniteSet(S) /\ Cardinality(S) \in Nat /\ Cardinality(S) <= high - low
<1> DEFINE place == [x \in S |-> c[x].pos]
<1>0. PICK last \in Int : last = high - 1
  OBVIOUS
<1>1. IsFiniteSet(low .. last) /\ Cardinality(low .. last) = high - low
  <2>1. IsFiniteSet(low .. last) /\ Cardinality(low .. last) = IF low > last THEN 0 ELSE last - low + 1
    BY FS_Interval
  <2> QED BY <1>0, <2>1
<1>2. \A x \in S : c[x].pos \in low .. last
  BY <1>0, PositionsTyped
<1>3. place \in Injection(S, low .. last)
  BY <1>2 DEF Injection, IsInjective, Placed
<1> HIDE DEF place
<1>4. IsFiniteSet(S) /\ Cardinality(S) <= Cardinality(low .. last)
  BY <1>1, <1>3, FS_Injection
<1> QED BY <1>1, <1>4, FS_CardinalityType

LEMMA ErasePlaced ==
    ASSUME NEW c, c \in [DOMAIN c -> Entries], NEW gone \in SUBSET DOMAIN c, Placed(c)
    PROVE  Placed(Erase(c, gone))
<1> DEFINE Before(x) == {g \in gone : c[g].pos < c[x].pos}
           Mid(x, y) == {g \in gone : c[x].pos < c[g].pos /\ c[g].pos < c[y].pos}
           e == Erase(c, gone)
<1>1. \A x \in DOMAIN c : c[x].pos \in Int /\ c[x].pos >= 0
  BY PositionsTyped DEF Placed
<1>2. DOMAIN e = DOMAIN c \ gone /\ \A x \in DOMAIN e : e[x].pos = c[x].pos - Cardinality(Before(x))
  BY DEF Erase, Entry
<1>3. ASSUME NEW x \in DOMAIN c
      PROVE  IsFiniteSet(Before(x)) /\ Cardinality(Before(x)) \in Nat /\ Cardinality(Before(x)) <= c[x].pos
  <2>1. Before(x) \in SUBSET DOMAIN c /\ \A g \in Before(x) : 0 <= c[g].pos /\ c[g].pos < c[x].pos
    BY <1>1
  <2> HIDE DEF Before
  <2>2. PICK low \in Int, high \in Int : low = 0 /\ high = c[x].pos /\ low <= high
    BY <1>1
  <2>3. PICK S \in SUBSET DOMAIN c : S = Before(x)
    BY <2>1
  <2>4. \A g \in S : low <= c[g].pos /\ c[g].pos < high
    BY <2>1, <2>2, <2>3
  <2>5. IsFiniteSet(S) /\ Cardinality(S) \in Nat /\ Cardinality(S) <= high - low
    BY <2>2, <2>4, PlacesBetween
  <2> QED BY <2>2, <2>3, <2>5
<1>4. ASSUME NEW x \in DOMAIN c \ gone, NEW y \in DOMAIN c \ gone, c[x].pos < c[y].pos
      PROVE  c[x].pos - Cardinality(Before(x)) < c[y].pos - Cardinality(Before(y))
  <2>1. \A g \in gone : c[g].pos # c[x].pos
    BY DEF Placed
  <2>2. Before(y) = Before(x) \union Mid(x, y)
    BY <1>1, <1>4, <2>1
  <2>3. Mid(x, y) \in SUBSET DOMAIN c /\ \A g \in Mid(x, y) : c[x].pos + 1 <= c[g].pos /\ c[g].pos < c[y].pos
    BY <1>1
  <2> HIDE DEF Before, Mid
  <2>4. c[x].pos + 1 \in Int /\ c[x].pos + 1 <= c[y].pos /\ c[y].pos \in Int
    BY <1>1, <1>4
  <2>5. /\ IsFiniteSet(Mid(x, y)) /\ Cardinality(Mid(x, y)) \in Nat
        /\ Cardinality(Mid(x, y)) <= c[y].pos - (c[x].pos + 1)
    BY <2>3, <2>4, PlacesBetween
  <2>6. Cardinality(Before(x) \union Mid(x, y)) <= Cardinality(Before(x)) + Cardinality(Mid(x, y))
    BY <1>3, <2>5, UnionCardinality
  <2>7. /\ Cardinality(Before(x)) \in Nat /\ Cardinality(Before(y)) \in Nat
        /\ c[x].pos \in Int /\ c[y].pos \in Int
    BY <1>1, <1>3
  <2>8. Cardinality(Before(y)) <= Cardinality(Before(x)) + Cardinality(Mid(x, y))
    BY <2>2, <2>6
  <2> QED BY <2>5, <2>7, <2>8
<1> HIDE DEF Before, Mid, e
<1>5. \A x \in DOMAIN e : e[x].pos >= 0
  BY <1>1, <1>2, <1>3
<1>6. ASSUME NEW x \in DOMAIN e, NEW y \in DOMAIN e, e[x].pos = e[y].pos
      PROVE  x = y
  <2>1. /\ x \in DOMAIN c \ gone /\ y \in DOMAIN c \ gone
        /\ c[x].pos - Cardinality(Before(x)) = c[y].pos - Cardinality(Before(y))
    BY <1>2, <1>6
  <2>2. ~(c[x].pos < c[y].pos) /\ ~(c[y].pos < c[x].pos)
    BY <1>1, <1>3, <1>4, <2>1
  <2>3. c[x].pos = c[y].pos
    BY <1>1, <2>1, <2>2
  <2> QED BY <2>1, <2>3 DEF Placed
<1> QED BY <1>5, <1>6 DEF Placed, e

\* The loop stops before an evictable chunk only when the cache fits.
LEMMA VictimsFit ==
    ASSUME NEW c, c \in [DOMAIN c -> Entries], IsFiniteSet(DOMAIN c), size \in Int,
           NEW b \in Evictable(c), b \notin Victims(c)
    PROVE  Cardinality(DOMAIN c \ Victims(c)) <= size
<1> DEFINE Older(x) == {y \in Evictable(c) : c[y].pos > c[x].pos}
           kept == Evictable(c) \ Victims(c)
           counts == {Cardinality(Older(x)) : x \in kept}
<1>1. /\ Evictable(c) \subseteq DOMAIN c /\ IsFiniteSet(Evictable(c))
      /\ \A x \in DOMAIN c : c[x].pos \in Int
  BY FS_Subset, PositionsTyped DEF Evictable
<1>2. \A x : IsFiniteSet(Older(x)) /\ Cardinality(Older(x)) \in Nat
  <2> TAKE x
  <2>1. Older(x) \in SUBSET Evictable(c)
    OBVIOUS
  <2> QED BY <1>1, <2>1, FS_Subset, FS_CardinalityType
<1>3. /\ Victims(c) \subseteq DOMAIN c
      /\ \A x \in Evictable(c) : x \in Victims(c) <=> Cardinality(Older(x)) < Cardinality(DOMAIN c) - size
  BY <1>1 DEF Victims
<1> HIDE DEF Older
<1>4. counts \in SUBSET Nat /\ counts # {}
  BY <1>2
<1>5. PICK a \in kept : \A x \in kept : Cardinality(Older(a)) <= Cardinality(Older(x))
  <2>1. PICK least \in counts : \A n \in counts : least <= n
    BY <1>4, Smallest
  <2> QED BY <2>1
<1>6. ASSUME NEW y \in Older(a)
      PROVE  y \in Victims(c)
  <2>1. y \in Evictable(c) /\ c[y].pos > c[a].pos /\ a \in Evictable(c)
    BY <1>6 DEF Older
  <2>2. Older(y) \in SUBSET (Older(a) \ {y})
    BY <1>1, <2>1 DEF Older
  <2>3. IsFiniteSet(Older(a) \ {y}) /\ Cardinality(Older(a) \ {y}) = Cardinality(Older(a)) - 1
    BY <1>2, <1>6, FS_RemoveElement
  <2>4. Cardinality(Older(y)) <= Cardinality(Older(a) \ {y})
    BY <2>2, <2>3, FS_Subset
  <2>5. Cardinality(Older(y)) < Cardinality(Older(a))
    BY <1>2, <2>3, <2>4
  <2> QED BY <1>2, <1>5, <2>1, <2>5
<1>7. IsFiniteSet(Victims(c)) /\ Cardinality(Victims(c)) \in Nat
  BY <1>3, FS_Subset, FS_CardinalityType
<1>8. Cardinality(Older(a)) <= Cardinality(Victims(c))
  BY <1>6, <1>7, FS_Subset
<1>9. Cardinality(Older(a)) >= Cardinality(DOMAIN c) - size
  <2>1. ~(Cardinality(Older(a)) < Cardinality(DOMAIN c) - size)
    BY <1>3
  <2> QED BY <1>2, <2>1, FS_CardinalityType
<1>10. Cardinality(DOMAIN c \ Victims(c)) = Cardinality(DOMAIN c) - Cardinality(Victims(c))
  <2>1. DOMAIN c \intersect Victims(c) = Victims(c)
    BY <1>3
  <2> QED BY <1>7, <2>1, FS_Difference
<1> QED BY <1>2, <1>7, <1>8, <1>9, <1>10, FS_CardinalityType

\* A cache the loop leaves over size has a chunk that is read.
LEMMA ReaderLeft ==
    ASSUME NEW c, c \in [DOMAIN c -> Entries], IsFiniteSet(DOMAIN c), Placed(c), size \in Int, size >= 1,
           ~(Cardinality(DOMAIN c \ Victims(c)) <= size)
    PROVE  \E x \in DOMAIN c : c[x].readers # 0
<1> DEFINE rest == DOMAIN c \ Victims(c)
<1>1. IsFiniteSet(rest) /\ Cardinality(rest) \in Nat /\ Cardinality(rest) > 1
  BY FS_Subset, FS_CardinalityType
<1>2. \A x \in rest : x \notin Evictable(c)
  BY VictimsFit
<1>3. \A x \in DOMAIN c : c[x].pos \in Int
  BY PositionsTyped
<1> HIDE DEF rest
<1>4. PICK x \in rest : TRUE
  BY <1>1, FS_EmptySet
<1>5. PICK y \in rest : y # x
  <2>1. Cardinality(rest \ {x}) = Cardinality(rest) - 1 /\ IsFiniteSet(rest \ {x})
    BY <1>1, <1>4, FS_RemoveElement
  <2>2. rest \ {x} # {}
    BY <1>1, <2>1, FS_EmptySet
  <2> QED BY <2>2
<1>6. x \in DOMAIN c /\ y \in DOMAIN c
  BY DEF rest
<1>7. c[x].readers # 0 \/ c[y].readers # 0
  <2>1. ~(c[x].pos > 0 /\ c[x].readers = 0) /\ ~(c[y].pos > 0 /\ c[y].readers = 0)
    BY <1>2, <1>6 DEF Evictable
  <2>2. ~(c[x].pos = 0 /\ c[y].pos = 0)
    BY <1>5, <1>6 DEF Placed
  <2> QED BY <1>3, <1>6, <2>1, <2>2 DEF Placed
<1> QED BY <1>6, <1>7

LEMMA EvictPlaced ==
    ASSUME NEW c, c \in [DOMAIN c -> Entries], IsFiniteSet(DOMAIN c), Placed(c), size \in Int, size >= 1,
           NEW t \in Threads, EvictOrWait(t, c)
    PROVE  /\ Placed(cache')
           /\ \/ asleep' = {}
              \/ /\ asleep' = asleep \union {t} /\ pc' = [pc EXCEPT ![t] = "evict"]
                 /\ \E x \in DOMAIN c : c[x].readers # 0
<1>1. Victims(c) \in SUBSET DOMAIN c
  BY VictimsUnread
<1>2. Placed(Erase(c, Victims(c)))
  BY <1>1, ErasePlaced
<1>3. cache' = Erase(c, Victims(c))
  BY DEF EvictOrWait
<1>4. CASE Cardinality(DOMAIN c \ Victims(c)) <= size
  BY <1>2, <1>3, <1>4 DEF EvictOrWait
<1>5. CASE ~(Cardinality(DOMAIN c \ Victims(c)) <= size)
  <2>1. asleep' = asleep \union {t} /\ pc' = [pc EXCEPT ![t] = "evict"]
    BY <1>5 DEF EvictOrWait
  <2>2. \E x \in DOMAIN c : c[x].readers # 0
    BY <1>5, ReaderLeft
  <2> QED BY <1>2, <1>3, <2>1, <2>2
<1> QED BY <1>4, <1>5

\* Somebody will wake request t.
WokenAt(t, step, asks) ==
    \/ step[t] = "get" /\ \E u \in Threads :
            \/ step[u] \in {"compute", "filling", "failed"} /\ asks[u] = asks[t]
            \/ step[u] \in {"evict", "notify"}
    \/ step[t] = "evict" /\ \E u \in Threads : step[u] \in {"hit", "notify"}

Wakes == Placed(cache) /\ \A t \in asleep : WokenAt(t, pc, want)

LEMMA WakesSay == Wakes => WakerAhead
  BY DEF Wakes, WokenAt, WakerAhead, Computes

\* A step that leaves the requests which wake others where they are, or one
\* step nearer to it, and wakes or leaves everyone who sleeps.
LEMMA StillWoken ==
    ASSUME IInv, NEW t \in Threads, NEW u \in Threads, u # t, WokenAt(u, pc, want),
           \A v \in Threads : v # t => pc'[v] = pc[v] /\ want'[v] = want[v],
           \/ pc[t] \in {"idle", "get", "own", "unread"}
           \/ pc'[t] \in {"evict", "notify"} /\ pc[t] \in {"compute", "filling", "evict", "hit"}
              /\ (pc[t] = "hit" => pc'[t] = "notify")
           \/ pc'[t] \in {"compute", "filling", "failed"} /\ pc[t] \in {"compute", "filling"} /\ want'[t] = want[t]
    PROVE  WokenAt(u, pc', want')
<1>1. pc'[u] = pc[u] /\ want'[u] = want[u]
  OBVIOUS
<1>2. CASE pc[u] = "get"
  <2>1. PICK v \in Threads : \/ pc[v] \in {"compute", "filling", "failed"} /\ want[v] = want[u]
                             \/ pc[v] \in {"evict", "notify"}
    BY <1>2 DEF WokenAt
  <2>2. CASE v # t
    BY <1>1, <1>2, <2>1, <2>2 DEF WokenAt
  <2>3. CASE v = t
    BY <1>1, <1>2, <2>1, <2>3 DEF WokenAt
  <2> QED BY <2>2, <2>3
<1>3. CASE pc[u] # "get"
  <2>1. PICK v \in Threads : pc[v] \in {"hit", "notify"} /\ pc[u] = "evict"
    BY <1>3 DEF WokenAt
  <2>2. CASE v # t
    BY <1>1, <2>1, <2>2 DEF WokenAt
  <2>3. CASE v = t
    BY <1>1, <2>1, <2>3 DEF WokenAt
  <2> QED BY <2>2, <2>3
<1> QED BY <1>2, <1>3

LEMMA AsleepAt ==
    ASSUME IInv, Wakes, NEW t \in asleep
    PROVE  t \in Threads /\ pc[t] \in {"get", "evict"}
  BY DEF Wakes, WokenAt, IInv, TypeOK

\* Request t waits or is woken while a chunk is read.
LEMMA EvictWakes ==
    ASSUME IInv, Wakes, NEW t \in Threads, NEW c, c \in [DOMAIN c -> Entries], IsFiniteSet(DOMAIN c), Placed(c),
           EvictOrWait(t, c), pc[t] \in {"filling", "evict"}, want' = want,
           \A x \in DOMAIN c : c[x].readers # 0 => \E u \in Threads : pc[u] = "hit"
    PROVE  Wakes'
<1>1. size \in Int /\ size >= 1
  BY DEF IInv, TypeOK
<1>2. /\ Placed(cache')
      /\ \/ asleep' = {}
         \/ /\ asleep' = asleep \union {t} /\ pc' = [pc EXCEPT ![t] = "evict"]
            /\ \E x \in DOMAIN c : c[x].readers # 0
  BY <1>1, EvictPlaced
<1>3. CASE asleep' = {}
  BY <1>2, <1>3 DEF Wakes, Placed
<1>4. CASE asleep' = asleep \union {t} /\ pc' = [pc EXCEPT ![t] = "evict"] /\ \E x \in DOMAIN c : c[x].readers # 0
  <2>1. pc'[t] = "evict" /\ \A u \in Threads : u # t => pc'[u] = pc[u]
    BY <1>4 DEF IInv, TypeOK
  <2>2. PICK reader \in Threads : pc[reader] = "hit"
    BY <1>4
  <2>3. WokenAt(t, pc', want')
    BY <2>1, <2>2 DEF WokenAt
  <2>4. ASSUME NEW u \in asleep, u # t
        PROVE  WokenAt(u, pc', want')
    BY <2>1, <2>4, AsleepAt, StillWoken DEF Wakes
  <2> QED BY <1>2, <1>4, <2>3, <2>4 DEF Wakes, Placed, WokenAt
<1> QED BY <1>2, <1>3, <1>4

\* A step that keeps the list as it is placed and sends request t, which does
\* not sleep, on.
LEMMA GoOnWakes ==
    ASSUME IInv, Wakes, NEW t \in Threads, Placed(cache'),
           \/ asleep' = {}
           \/ /\ asleep' \subseteq asleep /\ t \notin asleep
              /\ \A v \in Threads : v # t => pc'[v] = pc[v] /\ want'[v] = want[v]
              /\ \/ pc[t] \in {"idle", "get", "own", "unread"}
                 \/ pc'[t] \in {"evict", "notify"} /\ pc[t] \in {"compute", "filling", "evict", "hit"}
                    /\ (pc[t] = "hit" => pc'[t] = "notify")
                 \/ pc'[t] \in {"compute", "filling", "failed"} /\ pc[t] \in {"compute", "filling"} /\ want'[t] = want[t]
    PROVE  Wakes'
<1>1. CASE asleep' = {}
  BY <1>1 DEF Wakes, Placed
<1>2. CASE asleep' # {}
  <2>1. ASSUME NEW u \in asleep'
        PROVE  WokenAt(u, pc', want')
    <3>1. u \in asleep /\ u \in Threads /\ u # t /\ WokenAt(u, pc, want)
      BY <1>2, <2>1, AsleepAt DEF Wakes
    <3> QED BY <1>2, <3>1, StillWoken
  <2> QED BY <2>1 DEF Wakes, Placed, WokenAt
<1> QED BY <1>1, <1>2

LEMMA CacheTyped ==
    ASSUME IInv
    PROVE  /\ cache \in [DOMAIN cache -> Entries] /\ IsFiniteSet(DOMAIN cache)
           /\ \A x \in DOMAIN cache : cache[x].readers # 0 => \E u \in Threads : pc[u] = "hit"
<1>1. cache \in [DOMAIN cache -> Entries] /\ IsFiniteSet(DOMAIN cache)
  BY DEF IInv, TypeOK, StoreAtPlace, Cached
<1>2. ASSUME NEW x \in DOMAIN cache, cache[x].readers # 0
      PROVE  \E u \in Threads : pc[u] = "hit"
  <2>1. Cardinality(Readers(x)) # 0 /\ IsFiniteSet(Readers(x))
    BY <1>2, ReadersFinite DEF IInv, HitsStayCached, Cached
  <2>2. Readers(x) # {}
    BY <2>1, FS_EmptySet
  <2> QED BY <2>2 DEF Readers
<1> QED BY <1>1, <1>2

LEMMA PublishWakes == ASSUME IInv, Wakes, NEW t \in Threads, Publish(t) PROVE Wakes'
<1>1. PICK b \in Blocks : b = store[t]
  BY DEF Publish, IInv, StoreAtPlace, TypeOK
<1>2. PICK c : c = PushFront(cache, b, want[t])
  OBVIOUS
<1>3. pc[t] = "filling" /\ EvictOrWait(t, c) /\ want' = want
  BY <1>1, <1>2 DEF Publish
<1>4. b \notin DOMAIN cache /\ want[t] \in Starts
  BY <1>1, <1>3 DEF IInv, FilledAlone, TypeOK, Cached
<1>5. c \in [DOMAIN cache \union {b} -> Entries]
  BY <1>2, <1>4, CacheTyped, PushType
<1>6. DOMAIN c = DOMAIN cache \union {b}
  BY <1>5
<1>7. IsFiniteSet(DOMAIN c)
  BY <1>6, CacheTyped, FS_AddElement
<1>8. Placed(c)
  BY <1>2, <1>4, CacheTyped, PushPlaced DEF Wakes
<1>9. \A x \in DOMAIN c : c[x].readers # 0 => \E u \in Threads : pc[u] = "hit"
  <2>1. c[b].readers = 0 /\ \A x \in DOMAIN cache : c[x].readers = cache[x].readers
    BY <1>2, <1>4, CacheTyped, PushParts
  <2> QED BY <1>6, <2>1, CacheTyped
<1> QED BY <1>3, <1>5, <1>6, <1>7, <1>8, <1>9, EvictWakes

LEMMA EvictAgainWakes == ASSUME IInv, Wakes, NEW t \in Threads, EvictAgain(t) PROVE Wakes'
<1>1. pc[t] = "evict" /\ EvictOrWait(t, cache) /\ want' = want
  BY DEF EvictAgain
<1>2. Placed(cache)
  BY DEF Wakes
<1> QED BY <1>1, <1>2, CacheTyped, EvictWakes

LEMMA WaitWakes == ASSUME IInv, Wakes, NEW t \in Threads, WaitForComputing(t) PROVE Wakes'
<1>1. /\ asleep' = asleep \union {t} /\ cache' = cache /\ pc' = pc /\ want' = want
      /\ pc[t] = "get" /\ want[t] \in computing
  BY DEF WaitForComputing, IsComputing
<1>2. PICK u \in Threads : pc[u] \in {"compute", "filling", "failed"} /\ want[u] = want[t]
  BY <1>1 DEF IInv, SingleFlight, Computes
<1>3. WokenAt(t, pc, want)
  BY <1>1, <1>2 DEF WokenAt
<1> QED BY <1>1, <1>3 DEF Wakes, Placed, WokenAt

LEMMA WakesStep == ASSUME IInv, Wakes, [Next]_cacheVars PROVE Wakes'
<1>1. pc \in [Threads -> Locations] /\ want \in [Threads -> Starts]
  BY DEF IInv, TypeOK
<1>2. Placed(cache) /\ cache \in [DOMAIN cache -> Entries]
  BY CacheTyped DEF Wakes
<1>3. \A t \in asleep : pc[t] \in {"get", "evict"}
  BY AsleepAt
<1>4. CASE Clear
  <2>1. asleep' = asleep /\ asleep = {}
    BY <1>3, <1>4, AsleepAt DEF Clear
  <2>2. DOMAIN cache' = {}
    BY <1>4 DEF Clear
  <2> QED BY <2>1, <2>2 DEF Wakes, Placed
<1>5. CASE UNCHANGED cacheVars
  BY <1>5 DEF cacheVars, Wakes, Placed, WokenAt
<1>6. ASSUME NEW t \in Threads, NEW start \in Starts, Ask(t, start) PROVE Wakes'
  <2>1. /\ cache' = cache /\ asleep' = asleep /\ t \notin asleep /\ pc[t] = "idle"
        /\ \A v \in Threads : v # t => pc'[v] = pc[v] /\ want'[v] = want[v]
    BY <1>1, <1>3, <1>6 DEF Ask
  <2> QED BY <1>2, <2>1, GoOnWakes
<1>7. ASSUME NEW t \in Threads, Hit(t) PROVE Wakes'
  <2>1. PICK b \in DOMAIN cache : cache' = TouchAndRead(cache, b)
    BY <1>7 DEF Hit, Cached
  <2>2. Placed(cache')
    BY <1>2, <2>1, TouchPlaced
  <2>3. /\ asleep' = asleep /\ t \notin asleep /\ pc[t] = "get"
        /\ \A v \in Threads : v # t => pc'[v] = pc[v] /\ want'[v] = want[v]
    BY <1>1, <1>7 DEF Hit
  <2> QED BY <2>2, <2>3, GoOnWakes
<1>8. ASSUME NEW t \in Threads, Miss(t) PROVE Wakes'
  <2>1. /\ cache' = cache /\ asleep' = asleep /\ t \notin asleep /\ pc[t] = "get"
        /\ \A v \in Threads : v # t => pc'[v] = pc[v] /\ want'[v] = want[v]
    BY <1>1, <1>8 DEF Miss
  <2> QED BY <1>2, <2>1, GoOnWakes
<1>9. ASSUME NEW t \in Threads, MakeStore(t) \/ ComputeThrows(t) PROVE Wakes'
  <2>1. /\ cache' = cache /\ asleep' = asleep /\ t \notin asleep /\ pc[t] \in {"compute", "filling"}
        /\ \A v \in Threads : v # t => pc'[v] = pc[v] /\ want'[v] = want[v]
        /\ pc'[t] \in {"compute", "filling", "failed"} /\ want'[t] = want[t]
    BY <1>1, <1>3, <1>9 DEF MakeStore, ComputeThrows
  <2> QED BY <1>2, <2>1, GoOnWakes
<1>10. ASSUME NEW t \in Threads, Rethrow(t) \/ ReleaseNotify(t) PROVE Wakes'
  <2>1. cache' = cache /\ asleep' = {}
    BY <1>10 DEF Rethrow, ReleaseNotify
  <2> QED BY <1>2, <2>1, GoOnWakes
<1>11. ASSUME NEW t \in Threads, Release(t) PROVE Wakes'
  <2>1. store[t] \in DOMAIN cache /\ cache' = Unread(cache, store[t])
    BY <1>11 DEF Release, IInv, HitsStayCached, Cached
  <2>2. Placed(cache')
    BY <1>2, <2>1, UnreadPlaced
  <2>3. /\ asleep' = asleep /\ t \notin asleep /\ pc[t] = "hit" /\ pc'[t] = "notify"
        /\ \A v \in Threads : v # t => pc'[v] = pc[v] /\ want'[v] = want[v]
    BY <1>1, <1>3, <1>11 DEF Release
  <2> QED BY <2>2, <2>3, GoOnWakes
<1>12. ASSUME NEW t \in Threads, DropStore(t) PROVE Wakes'
  <2>1. /\ cache' = cache /\ asleep' = asleep /\ t \notin asleep /\ pc[t] \in {"own", "unread"}
        /\ \A v \in Threads : v # t => pc'[v] = pc[v] /\ want'[v] = want[v]
    BY <1>1, <1>3, <1>12 DEF DropStore
  <2> QED BY <1>2, <2>1, GoOnWakes
<1>13. ASSUME NEW t \in Threads, SpuriousWake(t) PROVE Wakes'
  <2>1. cache' = cache /\ asleep' \subseteq asleep /\ pc' = pc /\ want' = want
    BY <1>13 DEF SpuriousWake
  <2> QED BY <2>1 DEF Wakes, Placed, WokenAt
<1>14. ASSUME NEW t \in Threads, Step(t) PROVE Wakes'
  BY <1>7, <1>8, <1>9, <1>10, <1>11, <1>12, <1>14, PublishWakes, EvictAgainWakes, WaitWakes DEF Step
<1> QED BY <1>4, <1>5, <1>6, <1>9, <1>13, <1>14 DEF Next

\* Whoever sleeps in cv_.wait sleeps while somebody has a notify_all still to
\* make, however many requests, chunks and blocks there are: get() and
\* release() between them lose no wakeup.
THEOREM CacheWakes == Spec => []WakerAhead
<1>1. Init => Wakes
  BY DEF Init, Wakes, Placed
<1>2. IInv /\ Wakes /\ [Next]_cacheVars => Wakes'
  BY WakesStep
<1>3. Wakes => WakerAhead
  BY WakesSay
<1> QED BY <1>1, <1>2, <1>3, CacheInvariant, PTL DEF Spec

-----------------------------------------------------------------------------
(* RollingDriver: what requests hold while they wait follows from where    *)
(* they are.                                                               *)

Places == {"out", "order", "staging", "store", "plan", "device", "permit", "copy", "leave"}

\* Where a request is in the cache at each of its places outside.
CacheAt(place) ==
    CASE place = "out" -> {"idle", "get"}
      [] place \in {"order", "staging", "store"} -> {"compute"}
      [] place \in {"plan", "device"} -> {"filling"}
      [] place = "permit" -> {"evict", "hit", "own"}
      [] place = "copy" -> {"hit", "own"}
      [] place = "leave" -> {"hit", "own", "notify", "unread", "failed", "idle"}

\* A request that computes its chunk has a staging set from the order on until
\* it ends; a permit is held while the frame is copied.
DInv ==
    /\ at \in [Threads -> Places]
    /\ staging \subseteq Threads /\ permits \subseteq Threads
    /\ Cardinality(staging) <= StagingSets
    /\ \A t \in Threads : /\ pc[t] \in CacheAt(at[t])
                          /\ at[t] \in {"out", "order", "staging"} => t \notin staging
                          /\ at[t] \in {"store", "plan", "device"} \/ pc[t] \in {"evict", "own"} => t \in staging
                          /\ t \in permits => at[t] = "copy"

-----------------------------------------------------------------------------
(* The driver's steps are the cache's.                                     *)

LEMMA CacheInit == DInit => Init
  BY DEF DInit

LEMMA CacheNext == [DNext]_vars => [Next]_cacheVars
<1> SUFFICES ASSUME [DNext]_vars PROVE [Next]_cacheVars
  OBVIOUS
<1>1. ASSUME NEW t \in Threads, NEW start \in Starts, Request(t, start)
      PROVE  Next
  BY <1>1 DEF Request, Next
<1>2. ASSUME NEW t \in Threads, RequestStep(t)
      PROVE  Next \/ UNCHANGED cacheVars
  BY <1>2 DEF RequestStep, TakeHit, WaitForOther, StartCompute, LeaveOrder, TakeStaging, TakeStore, Plan, FinishCompute,
              KeepEvicting, RethrowFailure, TakePermit, CopyOut, LeaveChunk, EndRequest, Next, Step
<1>3. ASSUME NEW t \in Threads, FailCompute(t) \/ WakeSpuriously(t)
      PROVE  Next
  BY <1>3 DEF FailCompute, WakeSpuriously, Next
<1>4. CASE FreeFilter
  BY <1>4 DEF FreeFilter, Next
<1>5. CASE UNCHANGED vars
  BY <1>5 DEF vars
<1> QED BY <1>1, <1>2, <1>3, <1>4, <1>5 DEF DNext

LEMMA DriverIsCache == DSpec => Spec
  BY CacheInit, CacheNext, PTL DEF DSpec, Spec

-----------------------------------------------------------------------------
(* What each step does to the request that takes it.                       *)

LEMMA CachePlaces ==
    ASSUME IInv, NEW t \in Threads
    PROVE  /\ Hit(t) => pc[t] = "get" /\ pc' = [pc EXCEPT ![t] = "hit"]
           /\ Miss(t) => pc[t] = "get" /\ pc' = [pc EXCEPT ![t] = "compute"]
           /\ MakeStore(t) => pc[t] = "compute" /\ pc' = [pc EXCEPT ![t] = "filling"]
           /\ ComputeThrows(t) => pc' = [pc EXCEPT ![t] = "failed"]
           /\ Rethrow(t) => pc[t] = "failed" /\ pc' = [pc EXCEPT ![t] = "idle"]
           /\ Publish(t) => pc[t] = "filling" /\ \E x \in {"own", "evict"} : pc' = [pc EXCEPT ![t] = x]
           /\ EvictAgain(t) => pc[t] = "evict" /\ \E x \in {"own", "evict"} : pc' = [pc EXCEPT ![t] = x]
           /\ Release(t) => pc[t] = "hit" /\ pc' = [pc EXCEPT ![t] = "notify"]
           /\ ReleaseNotify(t) => pc[t] = "notify" /\ pc' = [pc EXCEPT ![t] = "unread"]
           /\ DropStore(t) => pc[t] \in {"own", "unread"} /\ pc' = [pc EXCEPT ![t] = "idle"]
           /\ \A start \in Starts : Ask(t, start) => pc[t] = "idle" /\ pc' = [pc EXCEPT ![t] = "get"]
           /\ WaitForComputing(t) \/ SpuriousWake(t) => pc' = pc
<1>1. ASSUME NEW c, EvictOrWait(t, c)
      PROVE  \E x \in {"own", "evict"} : pc' = [pc EXCEPT ![t] = x]
  BY <1>1 DEF EvictOrWait
<1>2. Publish(t) => pc[t] = "filling" /\ \E x \in {"own", "evict"} : pc' = [pc EXCEPT ![t] = x]
  BY <1>1 DEF Publish
<1>3. EvictAgain(t) => pc[t] = "evict" /\ \E x \in {"own", "evict"} : pc' = [pc EXCEPT ![t] = x]
  BY <1>1 DEF EvictAgain
<1>4. /\ Hit(t) => pc[t] = "get" /\ pc' = [pc EXCEPT ![t] = "hit"]
      /\ Miss(t) => pc[t] = "get" /\ pc' = [pc EXCEPT ![t] = "compute"]
      /\ MakeStore(t) => pc[t] = "compute" /\ pc' = [pc EXCEPT ![t] = "filling"]
      /\ ComputeThrows(t) => pc' = [pc EXCEPT ![t] = "failed"]
      /\ Rethrow(t) => pc[t] = "failed" /\ pc' = [pc EXCEPT ![t] = "idle"]
  BY DEF Hit, Miss, MakeStore, ComputeThrows, Rethrow
<1>5. /\ Release(t) => pc[t] = "hit" /\ pc' = [pc EXCEPT ![t] = "notify"]
      /\ ReleaseNotify(t) => pc[t] = "notify" /\ pc' = [pc EXCEPT ![t] = "unread"]
      /\ DropStore(t) => pc[t] \in {"own", "unread"} /\ pc' = [pc EXCEPT ![t] = "idle"]
      /\ \A start \in Starts : Ask(t, start) => pc[t] = "idle" /\ pc' = [pc EXCEPT ![t] = "get"]
      /\ WaitForComputing(t) \/ SpuriousWake(t) => pc' = pc
  BY DEF Release, ReleaseNotify, DropStore, Ask, WaitForComputing, SpuriousWake
<1> QED BY <1>2, <1>3, <1>4, <1>5

\* Request t goes from a place to a place while the cache takes it from
\* location to location, and may take or give back a staging set or a permit.
Moves(t, place, x, taken, allowed) ==
    /\ place \in Places
    /\ at' = [at EXCEPT ![t] = place] /\ pc' = [pc EXCEPT ![t] = x]
    /\ x \in CacheAt(place)
    /\ \/ taken = staging
       \/ taken = staging \union {t} /\ Cardinality(staging) < StagingSets
       \/ taken = staging \ {t}
    /\ staging' = taken /\ permits' = allowed
    /\ allowed \subseteq permits \union {t}
    /\ place \in {"out", "order", "staging"} => t \notin taken
    /\ place \in {"store", "plan", "device"} \/ x \in {"evict", "own"} => t \in taken
    /\ t \in allowed => place = "copy"

LEMMA StagingBound ==
    ASSUME DInv, NEW t \in Threads, NEW taken,
           \/ taken = staging
           \/ taken = staging \union {t} /\ Cardinality(staging) < StagingSets
           \/ taken = staging \ {t}
    PROVE  taken \subseteq Threads /\ Cardinality(taken) <= StagingSets
<1>1. IsFiniteSet(staging) /\ Cardinality(staging) \in Nat /\ Cardinality(staging) <= StagingSets /\ StagingSets \in Nat
  BY ThreadsAssumption, DriverAssumption, FS_Subset, FS_CardinalityType DEF DInv
<1>2. Cardinality(staging \union {t}) <= Cardinality(staging) + 1 /\ Cardinality(staging \union {t}) \in Nat
  <2>1. IsFiniteSet(staging \union {t})
    BY <1>1, FS_AddElement
  <2>2. Cardinality(staging \union {t}) = IF t \in staging THEN Cardinality(staging) ELSE Cardinality(staging) + 1
    BY <1>1, FS_AddElement
  <2> QED BY <1>1, <2>1, <2>2, FS_CardinalityType
<1>3. Cardinality(staging \ {t}) <= Cardinality(staging) /\ Cardinality(staging \ {t}) \in Nat
  <2>1. IsFiniteSet(staging \ {t})
    BY <1>1, FS_RemoveElement
  <2>2. Cardinality(staging \ {t}) = IF t \in staging THEN Cardinality(staging) - 1 ELSE Cardinality(staging)
    BY <1>1, FS_RemoveElement
  <2> QED BY <1>1, <2>1, <2>2, FS_CardinalityType
<1>4. Cardinality(taken) <= StagingSets
  BY <1>1, <1>2, <1>3
<1> QED BY <1>4 DEF DInv

LEMMA MovesKeep ==
    ASSUME IInv, DInv, NEW t \in Threads, NEW place, NEW x, NEW taken, NEW allowed, Moves(t, place, x, taken, allowed)
    PROVE  DInv'
<1>1. pc \in [Threads -> Locations] /\ at \in [Threads -> Places]
  BY DEF IInv, TypeOK, DInv
<1>2. at' \in [Threads -> Places] /\ at'[t] = place /\ pc'[t] = x
  BY <1>1 DEF Moves
<1>3. \A u \in Threads : u # t => at'[u] = at[u] /\ pc'[u] = pc[u]
  BY <1>1 DEF Moves
<1>4. staging' = taken /\ permits' = allowed /\ taken \subseteq Threads /\ Cardinality(taken) <= StagingSets
  BY StagingBound DEF Moves
<1>5. \A u \in Threads : u # t => (u \in taken <=> u \in staging) /\ (u \in allowed => u \in permits)
  BY DEF Moves
<1>6. allowed \subseteq Threads
  BY DEF Moves, DInv
<1>7. ASSUME NEW u \in Threads
      PROVE  /\ pc'[u] \in CacheAt(at'[u])
             /\ at'[u] \in {"out", "order", "staging"} => u \notin taken
             /\ at'[u] \in {"store", "plan", "device"} \/ pc'[u] \in {"evict", "own"} => u \in taken
             /\ u \in allowed => at'[u] = "copy"
  <2>1. CASE u = t
    BY <1>2, <2>1 DEF Moves
  <2>2. CASE u # t
    BY <1>3, <1>5, <2>2 DEF DInv
  <2> QED BY <2>1, <2>2
<1> QED BY <1>2, <1>4, <1>6, <1>7 DEF DInv, CacheAt

\* Where a request is outside the cache tells where it is inside, and back.
LEMMA PlaceFacts ==
    ASSUME IInv, DInv, NEW t \in Threads
    PROVE  /\ at[t] \in Places /\ pc[t] \in Locations
           /\ pc[t] = "get" => at[t] = "out"
           /\ pc[t] = "filling" => at[t] \in {"plan", "device"}
           /\ pc[t] = "evict" => at[t] = "permit"
           /\ pc[t] = "failed" => at[t] = "leave"
           /\ pc[t] \in {"hit", "own"} => at[t] \in {"permit", "copy", "leave"}
           /\ pc[t] \in {"notify", "unread"} => at[t] = "leave"
           /\ at[t] = "out" => pc[t] \in {"idle", "get"}
           /\ at[t] \in {"order", "staging", "store"} => pc[t] = "compute"
           /\ at[t] \in {"plan", "device"} => pc[t] = "filling"
           /\ at[t] = "permit" => pc[t] \in {"evict", "hit", "own"}
           /\ at[t] = "copy" => pc[t] \in {"hit", "own"}
<1>1. at[t] \in Places /\ pc[t] \in CacheAt(at[t]) /\ pc[t] \in Locations
  BY DEF DInv, IInv, TypeOK
<1> QED BY <1>1 DEF CacheAt, Places

\* A step in the cache alone.
LEMMA CacheMoves ==
    ASSUME IInv, DInv, NEW t \in Threads, NEW x, pc' = [pc EXCEPT ![t] = x], UNCHANGED driverVars,
           x \in CacheAt(at[t]), x \in {"evict", "own"} => t \in staging
    PROVE  DInv'
<1>1. at \in [Threads -> Places]
  BY DEF DInv
<1>2. at' = [at EXCEPT ![t] = at[t]] /\ staging' = staging /\ permits' = permits
  BY <1>1 DEF driverVars
<1>3. Moves(t, at[t], x, staging, permits)
  BY <1>1, <1>2 DEF Moves, DInv
<1> QED BY <1>3, MovesKeep

LEMMA RequestKeeps ==
    ASSUME IInv, DInv, NEW t \in Threads, NEW start \in Starts, Request(t, start)
    PROVE  DInv'
<1>1. at[t] = "out" /\ pc' = [pc EXCEPT ![t] = "get"] /\ UNCHANGED driverVars
  BY CachePlaces DEF Request, At
<1> QED BY <1>1, CacheMoves DEF CacheAt

LEMMA LookupKeeps ==
    ASSUME IInv, DInv, NEW t \in Threads, TakeHit(t) \/ StartCompute(t) \/ LeaveOrder(t)
    PROVE  DInv'
<1>1. CASE TakeHit(t)
  <2>1. pc[t] = "get" /\ pc' = [pc EXCEPT ![t] = "hit"] /\ at' = [at EXCEPT ![t] = "permit"]
        /\ staging' = staging /\ permits' = permits
    BY <1>1, CachePlaces DEF TakeHit, Goto
  <2>2. at[t] = "out"
    BY <2>1, PlaceFacts
  <2>3. Moves(t, "permit", "hit", staging, permits)
    BY <2>1, <2>2 DEF Moves, CacheAt, Places, DInv
  <2> QED BY <2>3, MovesKeep
<1>2. CASE StartCompute(t)
  <2>1. pc[t] = "get" /\ pc' = [pc EXCEPT ![t] = "compute"] /\ at' = [at EXCEPT ![t] = "order"]
        /\ staging' = staging /\ permits' = permits
    BY <1>2, CachePlaces DEF StartCompute, Goto
  <2>2. at[t] = "out"
    BY <2>1, PlaceFacts
  <2>3. Moves(t, "order", "compute", staging, permits)
    BY <2>1, <2>2 DEF Moves, CacheAt, Places, DInv
  <2> QED BY <2>3, MovesKeep
<1>3. CASE LeaveOrder(t)
  <2>1. at[t] = "order" /\ pc' = pc /\ at' = [at EXCEPT ![t] = "staging"] /\ staging' = staging /\ permits' = permits
    BY <1>3 DEF LeaveOrder, Goto, At, cacheVars
  <2>2. pc[t] = "compute" /\ pc' = [pc EXCEPT ![t] = "compute"]
    BY <2>1, PlaceFacts DEF IInv, TypeOK
  <2>3. Moves(t, "staging", "compute", staging, permits)
    BY <2>1, <2>2 DEF Moves, CacheAt, Places, DInv
  <2> QED BY <2>3, MovesKeep
<1> QED BY <1>1, <1>2, <1>3

LEMMA ComputeKeeps ==
    ASSUME IInv, DInv, NEW t \in Threads,
           TakeStaging(t) \/ TakeStore(t) \/ Plan(t) \/ FinishCompute(t) \/ FailCompute(t)
    PROVE  DInv'
<1>1. CASE TakeStaging(t)
  <2>1. /\ at[t] = "staging" /\ pc' = pc /\ at' = [at EXCEPT ![t] = "store"]
        /\ Cardinality(staging) < StagingSets /\ staging' = staging \union {t} /\ permits' = permits
    BY <1>1 DEF TakeStaging, Goto, At, cacheVars
  <2>2. pc[t] = "compute" /\ pc' = [pc EXCEPT ![t] = "compute"]
    BY <2>1, PlaceFacts DEF IInv, TypeOK
  <2>3. Moves(t, "store", "compute", staging \union {t}, permits)
    BY <2>1, <2>2 DEF Moves, CacheAt, Places, DInv
  <2> QED BY <2>3, MovesKeep
<1>2. CASE TakeStore(t)
  <2>1. /\ at[t] = "store" /\ pc' = [pc EXCEPT ![t] = "filling"] /\ at' = [at EXCEPT ![t] = "plan"]
        /\ staging' = staging /\ permits' = permits
    BY <1>2, CachePlaces DEF TakeStore, Goto, At
  <2>2. Moves(t, "plan", "filling", staging, permits)
    BY <2>1 DEF Moves, CacheAt, Places, DInv
  <2> QED BY <2>2, MovesKeep
<1>3. CASE Plan(t)
  <2>1. at[t] = "plan" /\ pc' = pc /\ at' = [at EXCEPT ![t] = "device"] /\ staging' = staging /\ permits' = permits
    BY <1>3 DEF Plan, Goto, At, cacheVars
  <2>2. pc[t] = "filling" /\ pc' = [pc EXCEPT ![t] = "filling"]
    BY <2>1, PlaceFacts DEF IInv, TypeOK
  <2>3. Moves(t, "device", "filling", staging, permits)
    BY <2>1, <2>2 DEF Moves, CacheAt, Places, DInv
  <2> QED BY <2>3, MovesKeep
<1>4. CASE FinishCompute(t)
  <2>1. /\ at[t] = "device" /\ at' = [at EXCEPT ![t] = "permit"] /\ staging' = staging /\ permits' = permits
        /\ Publish(t)
    BY <1>4 DEF FinishCompute, Goto, At
  <2>2. PICK x \in {"own", "evict"} : pc' = [pc EXCEPT ![t] = x]
    BY <2>1, CachePlaces
  <2>3. Moves(t, "permit", x, staging, permits)
    BY <2>1, <2>2 DEF Moves, CacheAt, Places, DInv
  <2> QED BY <2>3, MovesKeep
<1>5. CASE FailCompute(t)
  <2>1. /\ at[t] \in {"store", "plan", "device"} /\ pc' = [pc EXCEPT ![t] = "failed"]
        /\ at' = [at EXCEPT ![t] = "leave"] /\ staging' = staging /\ permits' = permits
    BY <1>5, CachePlaces DEF FailCompute, Goto
  <2>2. Moves(t, "leave", "failed", staging, permits)
    BY <2>1 DEF Moves, CacheAt, Places, DInv
  <2> QED BY <2>2, MovesKeep
<1> QED BY <1>1, <1>2, <1>3, <1>4, <1>5

LEMMA InCacheKeeps ==
    ASSUME IInv, DInv, NEW t \in Threads,
           WaitForOther(t) \/ WakeSpuriously(t) \/ KeepEvicting(t) \/ RethrowFailure(t) \/ LeaveChunk(t)
    PROVE  DInv'
<1>1. CASE WaitForOther(t) \/ WakeSpuriously(t)
  <2>1. pc' = pc /\ UNCHANGED driverVars
    BY <1>1, CachePlaces DEF WaitForOther, WakeSpuriously
  <2> QED BY <2>1 DEF DInv, driverVars, CacheAt
<1>2. CASE KeepEvicting(t)
  <2>1. pc[t] = "evict" /\ UNCHANGED driverVars
    BY <1>2, CachePlaces DEF KeepEvicting
  <2>2. PICK x \in {"own", "evict"} : pc' = [pc EXCEPT ![t] = x]
    BY <1>2, CachePlaces DEF KeepEvicting
  <2>3. at[t] = "permit" /\ t \in staging
    BY <2>1, PlaceFacts DEF DInv
  <2> QED BY <2>1, <2>2, <2>3, CacheMoves DEF CacheAt
<1>3. CASE RethrowFailure(t)
  <2>1. pc[t] = "failed" /\ UNCHANGED driverVars /\ pc' = [pc EXCEPT ![t] = "idle"]
    BY <1>3, CachePlaces DEF RethrowFailure
  <2>2. at[t] = "leave"
    BY <2>1, PlaceFacts
  <2> QED BY <2>1, <2>2, CacheMoves DEF CacheAt
<1>4. CASE LeaveChunk(t)
  <2>1. at[t] = "leave" /\ UNCHANGED driverVars
    BY <1>4 DEF LeaveChunk, At
  <2>2. \E x \in {"notify", "unread", "idle"} : pc' = [pc EXCEPT ![t] = x]
    BY <1>4, CachePlaces DEF LeaveChunk
  <2> QED BY <2>1, <2>2, CacheMoves DEF CacheAt
<1> QED BY <1>1, <1>2, <1>3, <1>4

LEMMA CopyKeeps ==
    ASSUME IInv, DInv, NEW t \in Threads, TakePermit(t) \/ CopyOut(t) \/ EndRequest(t)
    PROVE  DInv'
<1>1. pc[t] \in Locations /\ pc \in [Threads -> Locations]
  BY DEF IInv, TypeOK
<1>2. pc' = pc => pc' = [pc EXCEPT ![t] = pc[t]]
  BY <1>1
<1>3. CASE TakePermit(t)
  <2>1. /\ at[t] = "permit" /\ pc[t] \in {"hit", "own"} /\ pc' = pc /\ at' = [at EXCEPT ![t] = "copy"]
        /\ staging' = staging /\ permits' = permits \union {t}
    BY <1>3 DEF TakePermit, Goto, At, cacheVars
  <2>2. Moves(t, "copy", pc[t], staging, permits \union {t})
    BY <1>2, <2>1 DEF Moves, CacheAt, Places, DInv
  <2> QED BY <2>2, MovesKeep
<1>4. CASE CopyOut(t)
  <2>1. /\ at[t] = "copy" /\ pc' = pc /\ at' = [at EXCEPT ![t] = "leave"]
        /\ staging' = staging /\ permits' = permits \ {t}
    BY <1>4 DEF CopyOut, Goto, At, cacheVars
  <2>2. pc[t] \in {"hit", "own"}
    BY <2>1, PlaceFacts
  <2>3. Moves(t, "leave", pc[t], staging, permits \ {t})
    BY <1>2, <2>1, <2>2 DEF Moves, CacheAt, Places, DInv
  <2> QED BY <2>3, MovesKeep
<1>5. CASE EndRequest(t)
  <2>1. /\ at[t] = "leave" /\ pc[t] = "idle" /\ pc' = pc /\ at' = [at EXCEPT ![t] = "out"]
        /\ staging' = staging \ {t} /\ permits' = permits
    BY <1>5 DEF EndRequest, Goto, At, cacheVars
  <2>2. Moves(t, "out", pc[t], staging \ {t}, permits)
    BY <1>2, <2>1 DEF Moves, CacheAt, Places, DInv
  <2> QED BY <2>2, MovesKeep
<1> QED BY <1>3, <1>4, <1>5

LEMMA DInvInit == ASSUME DInit PROVE DInv
<1>1. Cardinality({}) = 0
  BY FS_EmptySet
<1>2. \A t \in Threads : at[t] = "out" /\ pc[t] = "idle"
  BY DEF DInit, Init
<1>3. at \in [Threads -> Places]
  BY DEF DInit, Places
<1> QED BY <1>1, <1>2, <1>3, DriverAssumption DEF DInit, DInv, CacheAt

LEMMA DInvStep == ASSUME IInv, DInv, [DNext]_vars PROVE DInv'
<1>1. ASSUME NEW t \in Threads, RequestStep(t) PROVE DInv'
  BY <1>1, LookupKeeps, ComputeKeeps, InCacheKeeps, CopyKeeps DEF RequestStep
<1>2. CASE FreeFilter
  <2>1. pc' = pc /\ UNCHANGED driverVars
    BY <1>2 DEF FreeFilter, Clear
  <2> QED BY <2>1 DEF DInv, driverVars, CacheAt
<1>3. CASE UNCHANGED vars
  <2>1. pc' = pc /\ UNCHANGED driverVars
    BY <1>3 DEF vars, cacheVars
  <2> QED BY <2>1 DEF DInv, driverVars, CacheAt
<1> QED BY <1>1, <1>2, <1>3, RequestKeeps, ComputeKeeps, InCacheKeeps DEF DNext

LEMMA HeldStores == ASSUME IInv, DInv, StoresAccounted PROVE StoresWithinPlan
<1> DEFINE using == {t \in Threads : pc[t] \in {"filling", "evict", "own"}}
           leaving == {t \in Threads : pc[t] \in {"notify", "unread"}}
<1>1. using \subseteq staging
  <2>1. \A t \in Threads : pc[t] = "filling" => at[t] \in {"plan", "device"}
    BY PlaceFacts
  <2> QED BY <2>1 DEF DInv
<1>2. IsFiniteSet(staging) /\ IsFiniteSet(leaving)
  BY ThreadsAssumption, FS_Subset DEF DInv
<1>3. /\ IsFiniteSet(using) /\ Cardinality(using) <= Cardinality(staging)
      /\ Cardinality(using) \in Nat /\ Cardinality(staging) \in Nat /\ Cardinality(leaving) \in Nat
  BY <1>1, <1>2, FS_Subset, FS_CardinalityType
<1>4. size \in Int /\ size <= CacheCap /\ CacheCap \in Nat /\ StagingSets \in Nat /\ Cardinality(staging) <= StagingSets
  BY SizesAssumption, DriverAssumption DEF IInv, TypeOK, DInv
<1>5. Cardinality(Referenced(cache, store)) <= size + Cardinality(using) + Cardinality(leaving)
  BY DEF StoresAccounted
<1> HIDE DEF using, leaving
<1>6. IsFiniteSet(Referenced(cache, store)) /\ Cardinality(Referenced(cache, store)) \in Nat
  <2>1. IsFiniteSet({store[t] : t \in Threads})
    BY ThreadsAssumption, ImageCardinality
  <2>2. IsFiniteSet(DOMAIN cache)
    BY DEF IInv, StoreAtPlace, Cached
  <2>3. IsFiniteSet(DOMAIN cache \union {store[t] : t \in Threads})
    BY <2>1, <2>2, UnionCardinality
  <2>4. Referenced(cache, store) \subseteq DOMAIN cache \union {store[t] : t \in Threads}
    BY DEF Referenced
  <2> QED BY <2>3, <2>4, FS_Subset, FS_CardinalityType
<1>7. Cardinality(Referenced(cache, store)) <= CacheCap + StagingSets + Cardinality(leaving)
  BY <1>3, <1>4, <1>5, <1>6
<1> QED BY <1>1, <1>7 DEF StoresWithinPlan, using, leaving

LEMMA HeldWaiting == ASSUME IInv, DInv PROVE HoldsWhileWaiting
<1> SUFFICES ASSUME NEW t \in Threads
             PROVE  /\ at[t] \in {"out", "order", "staging"} => t \notin staging \union permits /\ store[t] = None
                    /\ pc[t] = "evict" => t \in staging \ permits
                    /\ t \in permits => pc[t] \in {"hit", "own"} /\ at[t] = "copy"
  BY DEF HoldsWhileWaiting
<1>1. store[t] = None <=> pc[t] \in {"idle", "get", "compute", "failed"}
  BY DEF IInv, StoreAtPlace
<1>2. /\ at[t] \in {"out", "order", "staging"} => t \notin staging
      /\ pc[t] = "evict" => t \in staging
      /\ t \in permits => at[t] = "copy"
  BY DEF DInv
<1> QED BY <1>1, <1>2, PlaceFacts

\* What requests hold of the node's resources: the stores in use are those the
\* memory plan counts, and a request that waits for the order, a staging set, a
\* reader or a permit holds nothing that whoever it waits for needs, for any
\* number of requests, chunks and staging sets (getFrame, compute_chunk).
THEOREM ResourcesHold == DSpec => []ResourcesHeld
<1>1. DSpec => []IInv
  BY DriverIsCache, CacheInvariant, PTL
<1>2. DSpec => []StoresAccounted
  BY DriverIsCache, CacheStoresAccounted, PTL
<1>3. DInit => DInv
  BY DInvInit
<1>4. IInv /\ DInv /\ [DNext]_vars => DInv'
  BY DInvStep
<1>5. IInv /\ DInv /\ StoresAccounted => ResourcesHeld
  BY HeldStores, HeldWaiting DEF ResourcesHeld
<1> QED BY <1>1, <1>2, <1>3, <1>4, <1>5, PTL DEF DSpec
=============================================================================
