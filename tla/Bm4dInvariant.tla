---------------------------- MODULE Bm4dInvariant ---------------------------
(***************************************************************************)
(* What holds of BM4D's chunks (Bm4dChunks) in every state, in the parts   *)
(* that its steps disturb one by one; MemoryProofs proves that it does.    *)
(***************************************************************************)
EXTENDS Bm4dChunks

Computes == {"store", "slot", "upload", "order", "waiting", "tiles", "download", "drain"}
Filling == Computes \ {"store"}
Slotted == Filling \ {"slot"}
Claiming == Computes \cup {"launch", "permit", "finish"}
Copying == {"output", "copy"}
HelperPlaces == Computes \cup {"out", "finish", "evict", "end"}
CallerPlaces == Claiming \cup Copying \cup
                {"out", "reserve", "claim", "unreserve", "look", "asleep", "evict", "unread", "return"}

ChunkNumbers == Nat \cup {NoChunk}
CacheEntries == [store : Stores, readers : Int]
Contents == [first : ChunkNumbers, planes : SUBSET Nat]

Once(c) == \A i, j \in DOMAIN c : c[i].store = c[j].store => i = j

ClipTyped ==
    /\ node \in Nodes
    /\ cache \in Seq(CacheEntries)
    /\ computing \subseteq Nat /\ running \subseteq Nat /\ spare \subseteq Stores /\ prefetching \in Int
    /\ store \in [Stores -> Contents]
    /\ frames = [p \in {0, 1} |-> frames[p]]
    /\ at \in [Actors -> CallerPlaces \cup HelperPlaces]
    /\ \A t \in Callers : at[t] \in CallerPlaces
    /\ \A h \in Helpers : at[h] \in HelperPlaces
    /\ want \in [Callers -> ChunkNumbers] /\ \A t \in Callers : at[t] # "out" => want[t] \in Nat
    /\ job \in [Actors -> ChunkNumbers]
    /\ plane \in [Actors -> Nat]
    /\ held \in [Actors -> Stores \cup {NoStore}]
    /\ queued \in [Actors -> Nat]
    /\ computers \subseteq Callers /\ permits \subseteq Callers

\* A chunk that somebody is to compute is claimed, and its own.
ClaimRight(a) ==
    /\ job[a] # NoChunk <=> at[a] \in Claiming
    /\ at[a] \in Claiming => job[a] \in computing
    /\ a \in Callers =>
          /\ at[a] \in Computes \cup {"permit"} \/ (at[a] = "finish" /\ a \in computers) => job[a] = want[a]
          /\ at[a] \in Computes \cup {"return"} => a \in computers
          /\ a \in computers => at[a] \in Computes \cup Copying \cup {"finish", "evict", "return"}
ClaimsKept ==
    /\ \A a \in Actors : ClaimRight(a)
    /\ \A a, b \in Actors : job[a] = job[b] /\ job[a] # NoChunk => a = b

\* A chunk is cached once and not computed meanwhile; who sleeps for one waits
\* for its computation.
SleepsFor(t) == at[t] = "asleep" => want[t] \in computing
CacheKept ==
    /\ Once(cache)
    /\ \A s, u \in CachedStores : store[s].first = store[u].first => s = u
    /\ \A s \in CachedStores : store[s].first \in Nat \ computing
    /\ \A t \in Callers : SleepsFor(t)

\* Who holds which store.
HoldRight(a) ==
    /\ at[a] \in Filling => held[a] # NoStore
    /\ held[a] # NoStore => at[a] \in Filling \cup {"finish"} \/ (a \in Callers /\ at[a] \in Copying \cup {"evict"})
    /\ at[a] \in Filling \cup {"finish"} /\ held[a] # NoStore =>
          store[held[a]].first = job[a] /\ held[a] \notin CachedStores
    /\ a \in Callers =>
          /\ at[a] \in Copying => held[a] # NoStore
          /\ at[a] \in {"finish", "evict"} /\ held[a] # NoStore => a \in computers
          /\ at[a] \in Copying \cup {"evict"} /\ held[a] # NoStore => store[held[a]].first = want[a]
HoldsKept ==
    /\ spare \cap (CachedStores \cup HeldStores) = {}
    /\ \A a \in Actors : HoldRight(a)
    /\ \A a, b \in Actors :
          at[a] \in Filling \cup {"finish"} /\ held[a] # NoStore /\ held[b] = held[a] => b = a

\* The hits of an entry are those that read it.
IsHit(t) == t \notin computers /\ at[t] \in Copying \cup {"unread"}
Hits == [chunk \in ChunkNumbers |-> {t \in Callers : IsHit(t) /\ want[t] = chunk}]
HitRight(t) ==
    IsHit(t) => \E s \in CachedStores : store[s].first = want[t] /\ (at[t] # "unread" => held[t] = s)
ReadersRight(e) == e.readers = Cardinality(Hits[store[e.store].first])
HitsKept ==
    /\ \A i \in DOMAIN cache : ReadersRight(cache[i])
    /\ \A t \in Callers : HitRight(t)

\* Slots and the device have one user each, and who waits for its order has a
\* smaller chunk before it.
SlotRight(a) == InSlot(a) => job[a] \in running
OrderRight(a) == at[a] = "waiting" => \E c \in running : c < job[a]
SlotsKept ==
    /\ \A a \in Actors : SlotRight(a) /\ OrderRight(a)
    /\ \A c \in running : \E a \in Actors : InSlot(a) /\ job[a] = c
    /\ \A a, b \in Actors : InSlot(a) /\ InSlot(b) /\ Parity(job[a]) = Parity(job[b]) => a = b
    /\ \A a, b \in Actors : At(a, "download") /\ At(b, "download") => a = b

\* What has been done to a chunk where its actor is, for host stores.
PlanesHeld(a) == store[held[a]].planes
FilledTo(a) ==
    /\ queued[a] = 0
    /\ at[a] = "slot" => PlanesHeld(a) = {}
    /\ at[a] \in Slotted \ {"drain"} => plane[a] \in 1 .. node.planes /\ PlanesHeld(a) = 1 .. plane[a] - 1
    /\ at[a] \in {"order", "waiting", "tiles"} => frames[Parity(job[a])] = <<job[a], plane[a]>>
    /\ at[a] = "download" => outputs = <<job[a], plane[a]>>
    /\ at[a] = "drain" => plane[a] = 0 \/ PlanesHeld(a) = 1 .. node.planes
    /\ at[a] \in Copying \cup {"finish", "evict"} /\ held[a] # NoStore => PlanesHeld(a) = 1 .. node.planes
DataKept ==
    ~node.gpu =>
        /\ \A a \in Actors : FilledTo(a)
        /\ \A s \in CachedStores : store[s].planes = 1 .. node.planes

\* Permits, prefetch threads and stores are no more than there are.
Prefetchers ==
    {t \in Callers : at[t] \in {"claim", "launch", "unreserve"} \/ (at[t] \in {"finish", "evict"} /\ t \notin computers)}
    \cup {h \in Helpers : at[h] # "out"}
Evicting == {a \in Actors : At(a, "evict") /\ (a \in Helpers \/ held[a] # NoStore)}
InTheWay == CachedStores \cup ({held[a] : a \in Evicting} \ {NoStore})
ReservedKept == Cardinality(Prefetchers) <= prefetching /\ prefetching <= Cardinality(Helpers)
PermitsKept ==
    /\ permits = {t \in Callers : At(t, "copy")}
    /\ Cardinality(computers) <= Computers /\ Cardinality(permits) <= Copiers
RoomKept == Cardinality(InTheWay) <= CacheLimit + Cardinality(Evicting) /\ StoresCounted

ClipInv ==
    /\ ClipTyped /\ ClaimsKept /\ CacheKept /\ HoldsKept /\ HitsKept /\ SlotsKept /\ DataKept
    /\ ReservedKept /\ PermitsKept /\ RoomKept
=============================================================================
