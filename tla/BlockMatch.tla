------------------------------- MODULE BlockMatch -------------------------------
(***************************************************************************)
(* Block matching: the group of a reference is its own block and the       *)
(* group - 1 best candidates of a search window, then of the windows that  *)
(* the temporal search follows from frame to frame.  The repository holds  *)
(* one search written many times - for the CPU (cpu/bm/matcher.hpp), for   *)
(* CUDA (common/match.cu, match_window.cu, match_square.cu,                *)
(* match_column.cu) and for Vulkan (shaders/common/match_*.comp) - and all *)
(* of them promise the same list: "Match ordering is part of the denoiser  *)
(* contract".  Each scans the window in an order of its own, holds the     *)
(* best in a container of its own and drops overlapping windows in a way   *)
(* of its own.                                                             *)
(*                                                                         *)
(* A position is its raster index.  A key is one integer that sorts as     *)
(* (distance, t, y, x); the largest distance stands for every value that   *)
(* is not finite (sortable_distance, kLaneInfinity); Empty is the          *)
(* sentinel.  The distances of a frame are an input of the step that       *)
(* searches it: how they are summed is outside the model.                  *)
(***************************************************************************)
EXTENDS Integers, Sequences, FiniteSets, FiniteSetsExt, SequencesExt

CONSTANTS
    Columns, Rows,  \* positions a block can take: (max_x + 1) by (max_y + 1)
    Distances,      \* the largest distance; it stands for "not finite"
    Frames,         \* ntemp, the frames of the temporal window
    Shapes,         \* the searches: see ShapeOK
    Lanes,          \* lanes of a reference (L), keys of a merge half (kSlots)
    Parts,          \* columns a lane scan totals at once (kLaneParts)
    SortSize,       \* keys of the block's shared buffer (N), a power of two
    Digit, Rounds,  \* the radix select: values of a digit (256), digits (6)
    Queue,          \* entries of a column thread's queue (kQueue)
    Near, Survivors,  \* the tensor matcher: kTensorSubset, kTensorList
    Roundings,      \* the errors its rounding may give the candidates
    Inputs          \* the distances a frame may have, by the shape's name for them

VARIABLES
    shape,    \* the search: reference, window, group, temporal parameters
    layer,    \* the step the search is at: <<sign, dt>>, <<0, 0>> first
    spatial,  \* method -> its list of the centre frame
    search,   \* path -> [held, seeds, centers] of the temporal search
    ideal     \* the same for the search by definition

vars == <<shape, layer, spatial, search, ideal>>

-----------------------------------------------------------------------------
(* Positions, windows and keys.                                            *)

Positions == 0 .. Columns * Rows - 1
X(p) == p % Columns
Y(p) == p \div Columns
At(x, y) == y * Columns + x
Inside(x, y) == x \in 0 .. Columns - 1 /\ y \in 0 .. Rows - 1

\* spatial_window(): the candidates around p that are on the plane.
Window(p, lo, hi) ==
    {q \in Positions : /\ X(q) \in X(p) - lo .. X(p) + hi
                       /\ Y(q) \in Y(p) - lo .. Y(p) + hi}

\* make_key(), lane_position(): distance, then frame, then raster order.
Key(d, t, p) == (d * Frames + t) * Columns * Rows + p
KeyPosition(k) == k % (Columns * Rows)
Empty == (Distances + 1) * Frames * Columns * Rows

\* The digits of the radix select hold every key, and the sentinel above them.
DigitsHoldKeys == Digit ^ Rounds > Empty

\* The entries that are keys: what a kernel counts (`filled`) and writes.
Filled(s) == SelectSeq(s, LAMBDA k : k # Empty)
FirstOf(s, n) == SubSeq(s, 1, IF Len(s) < n THEN Len(s) ELSE n)
Sorted(s) == SortSeq(s, <)
\* The same sequence, every entry of which TLC evaluates once.
Evaluated(s) == SubSeq(s, 1, Len(s))
Ascending(S) ==
    Evaluated([i \in 1 .. Cardinality(S) |->
                 CHOOSE k \in S : Cardinality({j \in S : j < k}) = i - 1])
KeysOf(keys, scan) == Evaluated([i \in DOMAIN scan |-> keys[scan[i]]])

-----------------------------------------------------------------------------
(* The containers that hold the best keys.                                 *)

\* The place of the largest held key: StableTopK::add() and
\* CachedWorstTopK::scan() look for it in the same way.
Worst(s) == CHOOSE i \in DOMAIN s : \A j \in DOMAIN s : s[j] <= s[i]

\* StableTopK::add(): the worst entry gives way.
StableAdd(s, k, room) ==
    CASE Len(s) < room -> Append(s, k)
      [] Len(s) = room /\ room > 0 /\ k < s[Worst(s)] -> [s EXCEPT ![Worst(s)] = k]
      [] OTHER -> s
StableTopK(s, scan, room) ==
    Sorted(FoldLeft(LAMBDA held, k : StableAdd(held, k, room), s, scan))

\* CachedWorstTopK::add(): the place of the worst is kept from the last change.
CachedAdd(c, k, room) ==
    LET changed(s) == [p |-> s, worst |-> Worst(s)] IN
    CASE Len(c.p) + 1 < room -> [c EXCEPT !.p = Append(@, k)]
      [] Len(c.p) + 1 = room -> changed(Append(c.p, k))
      [] Len(c.p) = room /\ k < c.p[c.worst] -> changed([c.p EXCEPT ![c.worst] = k])
      [] OTHER -> c
CachedWorstTopK(scan, room) ==
    Sorted(FoldLeft(LAMBDA c, k : CachedAdd(c, k, room), [p |-> <<>>, worst |-> 1], scan).p)

\* SortedTopK::add(): unsorted until it is full, then kept in order.
SortedAdd(s, k, room) ==
    CASE Len(s) + 1 < room -> Append(s, k)
      [] Len(s) + 1 = room -> Sorted(Append(s, k))
      [] Len(s) = room /\ k < s[room] ->
           LET at == Cardinality({i \in 1 .. room : s[i] < k}) + 1
           IN  FirstOf(InsertAt(s, at, k), room)
      [] OTHER -> s
SortedTopK(scan, room) ==
    LET s == FoldLeft(LAMBDA held, k : SortedAdd(held, k, room), <<>>, scan)
    IN  IF Len(s) < room THEN Sorted(s) ELSE s

\* bitonic_sort(): the compare-exchange passes, in order.
Powers(n) == Ascending({p \in 2 .. n : \E e \in 1 .. n : p = 2 ^ e})
Passes(n) ==
    FoldLeft(LAMBDA acc, k :
               acc \o [i \in DOMAIN Powers(k) |-> <<k, k \div Powers(k)[i]>>],
             <<>>, Powers(n))
Exchange(s, k, j) ==
    [i \in DOMAIN s |->
       LET at == i - 1
           low == IF (at \div j) % 2 = 0 THEN at ELSE at - j
           a == s[low + 1]
           b == s[low + j + 1]
           swap == (b < a) = ((low \div k) % 2 = 0)
       IN  IF (at = low) = swap THEN b ELSE a]
PassesOf == [n \in {SortSize, 2 * SortSize} |-> Passes(n)]
BitonicSort(s) ==
    FoldLeft(LAMBDA r, p : Evaluated(Exchange(r, p[1], p[2])), s, PassesOf[Len(s)])

\* BlockTopK: the list in the front of the buffer, a chunk of candidates
\* behind it, one sort, and everything past the wanted keys emptied.
PowerAtLeast(n) == Min({2 ^ e : e \in {f \in 0 .. n : 2 ^ f >= n}})
Merge(held, chunk, k) ==
    LET front == PowerAtLeast(IF k > 0 THEN k ELSE 1)
        buffer == [i \in 1 .. SortSize |->
                     IF i <= Len(held) THEN held[i]
                     ELSE IF i > front /\ i - front <= Len(chunk) THEN chunk[i - front]
                     ELSE Empty]
    IN  Filled(FirstOf(BitonicSort(buffer), k))
Chunks(scan, k) ==
    LET size == SortSize - PowerAtLeast(IF k > 0 THEN k ELSE 1)
        count == (Len(scan) + size - 1) \div size
    IN  [c \in 1 .. count |->
           SubSeq(scan, (c - 1) * size + 1, IF c < count THEN c * size ELSE Len(scan))]
BlockTopK(scan, k) ==
    FoldLeft(LAMBDA held, chunk : Merge(held, chunk, k), <<>>, Chunks(scan, k))

\* warp_select(), warp_select_raster() and the warp kernel's merge: k rounds
\* of the smallest key that no round has consumed.
WarpSelect(scan, k) ==
    LET Round(s, n) ==
          LET left == {scan[i] : i \in DOMAIN scan} \ ({Empty} \cup {s[i] : i \in DOMAIN s})
          IN  IF left = {} THEN s ELSE Append(s, Min(left))
    IN  FoldLeft(Round, <<>>, [n \in 1 .. k |-> n])

\* The radix select: the key of the wanted rank, a digit a round from the
\* top, then everything up to it, ranked.
RadixSelect(scan, k) ==
    LET keys == {scan[i] : i \in DOMAIN scan}
        total == Len(scan)
        wanted == IF k + 1 <= total THEN k ELSE total - 1
        Round(st, r) ==
          LET unit == Digit ^ (Rounds - r)
              sharing == {x \in keys : x \div (unit * Digit) = st.prefix}
              Through(d) == Cardinality({x \in sharing : (x \div unit) % Digit <= d})
              digit == CHOOSE d \in 0 .. Digit - 1 :
                         Through(d - 1) < st.need /\ st.need <= Through(d)
          IN  IF st.exact THEN st
              ELSE [prefix |-> st.prefix * Digit + digit,
                    need |-> st.need - Through(digit - 1),
                    exact |-> Through(digit) = st.need,
                    unit |-> unit]
        end == FoldLeft(Round, [prefix |-> 0, need |-> wanted, exact |-> FALSE, unit |-> 1],
                        [r \in 1 .. Rounds |-> r])
    IN  IF wanted <= 0 THEN <<>>
        ELSE Ascending({x \in keys : x \div end.unit <= end.prefix})

\* lane_scan(), HeldList::insert(): every lane that the key enters takes the
\* key or the entry of the lane before it.
Shift(held, k) ==
    [i \in DOMAIN held |->
       IF ~(k < held[i]) THEN held[i]
       ELSE IF i = 1 \/ ~(k < held[i - 1]) THEN k
       ELSE held[i - 1]]
NoKeys(n) == [i \in 1 .. n |-> Empty]
LaneTopK(held, scan) == FoldLeft(LAMBDA h, k : Evaluated(Shift(h, k)), held, scan)

\* lane_scan<Dedupe>: a key that a lane holds does not enter again.
\* (mutation) Every window enters the candidate that overlapping windows share.
EntersAgain(held, k) == TRUE
Enters(held, k) == \A i \in DOMAIN held : held[i] # k
LaneDedupe(held, scan) ==
    FoldLeft(LAMBDA h, k : IF Enters(h, k) THEN Evaluated(Shift(h, k)) ELSE h, held, scan)

\* insert_sorted(), only for a key below the last entry; the table is the
\* wanted length rounded up to 2^n - 1.
InsertSorted(t, k) ==
    [i \in DOMAIN t |->
       IF i > 1 /\ k < t[i - 1] THEN t[i - 1] ELSE IF k < t[i] THEN k ELSE t[i]]
SquareTopK(scan, k) ==
    LET table == NoKeys(2 * PowerAtLeast((k + 2) \div 2) - 1)
        Step(t, x) == IF x < t[Len(t)] THEN Evaluated(InsertSorted(t, x)) ELSE t
    IN  Filled(FirstOf(FoldLeft(Step, table, scan), k))

\* The column kernel: keys below the table's last wait in a queue, which is
\* emptied when a queue of the warp is full: this thread's, or another's, here
\* one that fills at every `other`-th candidate.
\* (mutation) The queue is emptied without a word to the table.
FlushForgets(st) == [table |-> st.table, queue |-> <<>>]
Flush(st) == [table |-> FoldLeft(LAMBDA t, k : Evaluated(InsertSorted(t, k)), st.table, st.queue),
              queue |-> <<>>]
ColumnTopK(scan, k, other) ==
    LET Step(st, i) ==
          LET x == scan[i]
              q == IF x < st.table[k] THEN [st EXCEPT !.queue = Append(@, x)] ELSE st
          IN  IF Len(q.queue) = Queue \/ i % other = 0 THEN Flush(q) ELSE q
    IN  Filled(Flush(FoldLeft(Step, [table |-> NoKeys(k), queue |-> <<>>],
                              [i \in DOMAIN scan |-> i])).table)

\* insert_round(): while a lane's smallest key is below the list's last, one of
\* those enters: the smallest of all lanes, or on older devices the first lane's.
Entering(st, k) == {l \in DOMAIN st.key : st.key[l] # <<>> /\ st.key[l][1] < st.held[k]}
InsertRound(held, key, k, newer) ==
    LET Next1(st) ==
          LET in == Entering(st, k)
          IN  IF newer THEN Min({st.key[l][1] : l \in in}) ELSE st.key[Min(in)][1]
        Step(st, n) ==
          IF Entering(st, k) = {} THEN st
          ELSE [held |-> Evaluated(Shift(st.held, Next1(st))),
                key |-> Evaluated([l \in DOMAIN st.key |->
                           IF st.key[l] # <<>> /\ st.key[l][1] = Next1(st)
                           THEN Tail(st.key[l]) ELSE st.key[l]])]
    IN  FoldLeft(Step, [held |-> held, key |-> key], [n \in 1 .. Len(held) * Len(key) + 2 |-> n]).held

-----------------------------------------------------------------------------
(* The order in which a path scans a window.                               *)

RasterScan(P) == Ascending(P)

\* lane_scan(), square_match_kernel, column_match_kernel: column by column over
\* the window that the plane does not clamp, `parts` columns at once; a
\* position off the plane adds no key.
ColumnScan(keys, c, lo, hi, parts) ==
    LET side == lo + hi + 1
        groups == (side + parts - 1) \div parts
    IN  [i \in 1 .. groups * side * parts |->
           LET n == i - 1
               dx == (n \div (parts * side)) * parts + (n % parts)
               x == X(c) - lo + dx
               y == Y(c) - lo + ((n \div parts) % side)
           IN  IF dx < side /\ Inside(x, y) THEN keys[At(x, y)] ELSE Empty]

\* window_match_kernel: tiles of the window, in a tile two lanes a round, each
\* with the keys of up to two rows of a column; the keys of a round sorted.
Tile == 2
WindowTopK(keys, c, lo, hi, k, newer) ==
    LET side == lo + hi + 1
        tiles == (side + Tile - 1) \div Tile
        key(dx, dy) == LET x == X(c) - lo + dx
                           y == Y(c) - lo + dy
                       IN  IF dx < side /\ dy < side /\ Inside(x, y)
                           THEN keys[At(x, y)] ELSE Empty
        lane(t, l) == LET ox == (t % tiles) * Tile
                          oy == (t \div tiles) * Tile
                      IN  Sorted(<<key(ox + l, oy), key(ox + l, oy + 1)>>)
        Step(held, t) == InsertRound(held, <<lane(t, 0), lane(t, 1)>>, k, newer)
    IN  Filled(FirstOf(FoldLeft(Step, NoKeys(Lanes), [i \in 1 .. tiles * tiles |-> i - 1]), k))

-----------------------------------------------------------------------------
(* The centre frame.                                                       *)

Wanted(s) == s.group - 1
Methods == {"stable", "sorted", "cached", "block", "radix", "warp", "lane", "tensor",
            "square", "column", "column_full", "window", "window_sm75"}

\* tensor_match_kernel: distances are first taken with an error e[p], of which
\* only the size is known (errs).  The K-th of the candidates near the
\* reference bounds the K-th of all; what that bound does not rule out is
\* ranked by its exact key.  Too many survivors, or a plane with a value that
\* cannot be rounded, and every candidate is.
Size(n) == IF n < 0 THEN -n ELSE n
TensorBound(s, approx, emax) ==
    LET near == Window(s.c, Min({Near, s.lo}), Min({Near, s.hi})) \ {s.c}
        k == Wanted(s)
    IN  IF Cardinality(near) < k THEN Distances + emax
        ELSE Min({v \in 0 .. Distances + emax :
                    Cardinality({p \in near : approx[p] <= v}) >= k}) + emax
TensorList(s, keys, d, e) ==
    LET window == Window(s.c, s.lo, s.hi) \ {s.c}
        emax == Max({Size(e[p]) : p \in Positions})
        approx == [p \in Positions |-> Max({0, d[p] + e[p]})]
        bound == TensorBound(s, approx, emax)
        left == {p \in window : approx[p] <= bound + Size(e[p])}
        usable == \A p \in Positions : d[p] < Distances
        exact == IF usable /\ Cardinality(left) <= Survivors THEN left ELSE window
    IN  WarpSelect(KeysOf(keys, RasterScan(exact)), Wanted(s))

\* collect_spatial_coords() and the kernels' spatial halves: the list of
\* `method`, without the reference, which every one of them writes first.
SpatialList(method, s, keys, d, e) ==
    LET raster == KeysOf(keys, RasterScan(Window(s.c, s.lo, s.hi)))
        others == Filled(raster)      \* matcher.hpp steps over the reference
        columns(parts) == ColumnScan(keys, s.c, s.lo, s.hi, parts)
        k == Wanted(s)
    IN  CASE method = "stable" -> StableTopK(<<>>, others, k)
          [] method = "sorted" -> SortedTopK(others, k)
          [] method = "cached" -> CachedWorstTopK(others, k)
          [] method = "block" -> BlockTopK(raster, k)
          [] method = "radix" -> RadixSelect(raster, k)
          [] method = "warp" -> WarpSelect(raster, k)
          [] method = "lane" -> Filled(FirstOf(LaneTopK(NoKeys(Lanes), columns(Parts)), k))
          [] method = "tensor" -> TensorList(s, keys, d, e)
          [] method = "square" -> SquareTopK(columns(1), k)
          [] method = "column" -> ColumnTopK(columns(1), k, 3)
          [] method = "column_full" -> ColumnTopK(columns(1), k, 1 + Len(columns(1)))
          [] method = "window" -> WindowTopK(keys, s.c, s.lo, s.hi, k, TRUE)
          [] method = "window_sm75" -> WindowTopK(keys, s.c, s.lo, s.hi, k, FALSE)

\* The contract: the wanted best of the window, best first.
Best(K, k) == FirstOf(Ascending(K), k)

\* The keys of a frame; the reference never enters its own list.
FrameKeys(d, t, skip) ==
    [p \in Positions |-> IF p \in skip THEN Empty ELSE Key(d[p], t, p)]

-----------------------------------------------------------------------------
(* The temporal search.                                                    *)

\* The paths, with the method that searches the centre frame for each.  The
\* seeded kernels take the list of another matcher; "pair" is the Vulkan
\* kernel for ps_num = 2.
Paths == {"cpu", "block", "warp", "lane", "seeded", "pair"}
CentreMethod == [cpu |-> "stable", block |-> "block", warp |-> "warp",
                 lane |-> "lane", seeded |-> "square", pair |-> "window"]
Serves(path, s) == path = "pair" => s.ps_num = 2

LocalK(s) == IF s.ps_num < s.group THEN s.ps_num ELSE s.group
Union(s, centers) == UNION {Window(centers[i], s.ps_range, s.ps_range) : i \in DOMAIN centers}

\* collect_temporal(): row by row, the intervals of the centers in order of
\* their left end, each from where the last one ended.
RowScan(s, centers, y) ==
    LET on == {i \in DOMAIN centers :
                 y \in Y(centers[i]) - s.ps_range .. Y(centers[i]) + s.ps_range}
        left(i) == Max({0, X(centers[i]) - s.ps_range})
        right(i) == Min({Columns - 1, X(centers[i]) + s.ps_range})
        intervals == SortSeq(Ascending(on),
                             LAMBDA a, b : left(a) < left(b) \/ (left(a) = left(b) /\ right(a) < right(b)))
        Step(st, i) ==
          LET from == Max({st.done + 1, left(i)})
          IN  [scan |-> st.scan \o [n \in 1 .. right(i) - from + 1 |-> At(from + n - 1, y)],
               done |-> Max({st.done, right(i)})]
    IN  FoldLeft(Step, [scan |-> <<>>, done |-> -1], intervals).scan
RowsScan(s, centers) ==
    FoldLeft(LAMBDA acc, y : acc \o RowScan(s, centers, y), <<>>, [i \in 1 .. Rows |-> i - 1])

\* predictive_match_kernel: the bounding box of the windows, less what is in
\* none of them.
BoxScan(s, centers, keys) ==
    LET U == Union(s, centers)
        box == {p \in Positions : /\ \E q \in U : X(p) <= X(q)
                                  /\ \E q \in U : X(p) >= X(q)
                                  /\ \E q \in U : Y(p) <= Y(q)
                                  /\ \E q \in U : Y(p) >= Y(q)}
        scan == RasterScan(box)
    IN  [i \in 1 .. Cardinality(box) |->
           IF scan[i] \in U THEN keys[scan[i]] ELSE Empty]

\* predictive_match_warp_kernel: window after window; a position belongs to
\* the first center whose window contains it.
CenterScan(s, centers, keys) ==
    FoldLeft(LAMBDA acc, i :
               acc \o [n \in 1 .. (2 * s.ps_range + 1) ^ 2 |->
                        LET side == 2 * s.ps_range + 1
                            x == X(centers[i]) - s.ps_range + ((n - 1) % side)
                            y == Y(centers[i]) - s.ps_range + ((n - 1) \div side)
                            owner == \A e \in 1 .. i - 1 :
                                       At(x, y) \notin Window(centers[e], s.ps_range, s.ps_range)
                        IN  IF Inside(x, y) /\ owner THEN keys[At(x, y)] ELSE Empty],
             <<>>, [i \in DOMAIN centers |-> i])

\* predictive_match_lane_kernel, match_lane.comp: a lane scan of each center's
\* window into one list; a single center cannot meet a key twice.
LaneLayer(s, centers, keys) ==
    LET Scan(held, i) ==
          LET scan == ColumnScan(keys, centers[i], s.ps_range, s.ps_range, Parts)
          IN  IF s.ps_num = 1 THEN LaneTopK(held, scan) ELSE LaneDedupe(held, scan)
    IN  FoldLeft(Scan, NoKeys(Lanes), [i \in DOMAIN centers |-> i])

\* lane_scan2(): the best two on every lane.
BestTwo(b, k) ==
    LET fresh == k # b[1] /\ k # b[2]
        first == k < b[1]
        second == fresh /\ ~first /\ k < b[2]
    IN  <<IF first THEN k ELSE b[1],
          IF first THEN b[1] ELSE IF second THEN k ELSE b[2]>>
PairLayer(s, centers, keys) ==
    FoldLeft(LAMBDA b, i :
               FoldLeft(BestTwo, b, ColumnScan(keys, centers[i], s.ps_range, s.ps_range, 1)),
             <<Empty, Empty>>, [i \in DOMAIN centers |-> i])

\* The layer's best LocalK keys along `path`.
LayerBest(path, s, centers, keys) ==
    LET k == LocalK(s) IN
    CASE path = "cpu" -> StableTopK(<<>>, KeysOf(keys, RowsScan(s, centers)), k)
      [] path = "block" -> BlockTopK(BoxScan(s, centers, keys), k)
      [] path = "warp" -> WarpSelect(CenterScan(s, centers, keys), k)
      [] path \in {"lane", "seeded"} -> Filled(FirstOf(LaneLayer(s, centers, keys), k))
      [] path = "pair" -> Filled(FirstOf(PairLayer(s, centers, keys), k))

\* The layer's best into the group's list.
GlobalMerge(path, s, held, local) ==
    LET k == Wanted(s)
        halves == [i \in 1 .. 2 * SortSize |->
                     IF i <= Len(held) THEN held[i]
                     ELSE IF i > SortSize /\ i - SortSize <= Len(local) THEN local[i - SortSize]
                     ELSE Empty]
        lanes == [i \in 1 .. Lanes |-> IF i <= Len(held) THEN held[i] ELSE Empty]
    IN  CASE path = "cpu" -> StableTopK(held, local, k)
          [] path = "block" -> Filled(FirstOf(BitonicSort(halves), k))
          [] path = "warp" -> WarpSelect(held \o local, k)
          [] path \in {"lane", "seeded", "pair"} -> Filled(FirstOf(LaneTopK(lanes, local), k))

-----------------------------------------------------------------------------
(* The search of one reference.                                            *)

ShapeOK(s) ==
    /\ s.c \in Positions /\ s.lo \in Nat /\ s.hi \in Nat
    /\ s.group \in 2 .. Lanes + 1 /\ s.ps_num \in 1 .. Lanes /\ s.ps_range \in Nat
    /\ s.t0 \in 0 .. Frames - 1 /\ s.radius \in Nat
    /\ s.first \in 0 .. Frames - 1 /\ s.last \in 1 .. Frames  \* valid_t_begin, valid_t_end
    /\ Inputs[s.inputs] \subseteq [Positions -> 0 .. Distances]

ShapesOK == \A s \in Shapes : ShapeOK(s)

\* The frames of one direction end at the first that is not valid.
Within(s, sign, dt) ==
    /\ dt <= s.radius
    /\ s.t0 + sign * dt \in s.first .. s.last - 1

\* Where the search stands after the layer <<sign, dt>>; `more` says whether
\* that layer found a candidate.
After(s, sign, dt, more) ==
    CASE sign = -1 /\ more /\ Within(s, -1, dt + 1) -> <<-1, dt + 1>>
      [] sign = 1 /\ more /\ Within(s, 1, dt + 1) -> <<1, dt + 1>>
      [] sign = -1 /\ ~(more /\ Within(s, -1, dt + 1)) /\ Within(s, 1, 1) -> <<1, 1>>
      [] OTHER -> <<2, 0>>
FirstLayer(s) ==
    IF s.radius = 0 \/ Frames = 1 THEN <<2, 0>>
    ELSE IF Within(s, -1, 1) THEN <<-1, 1>> ELSE After(s, -1, 0, FALSE)

\* The seeds: the reference and the best matches, at most ps_num.
Started(s, held) ==
    LET seeds == FirstOf(<<s.c>> \o [i \in DOMAIN held |-> KeyPosition(held[i])], s.ps_num)
    IN  [held |-> held, seeds |-> seeds, centers |-> seeds]

\* The path after a layer's best; the other direction starts from the seeds.
Followed(st, held, local, next) ==
    [held |-> held, seeds |-> st.seeds,
     centers |-> IF next = <<1, 1>> THEN st.seeds
                 ELSE [i \in DOMAIN local |-> KeyPosition(local[i])]]

NoSearch == [held |-> <<>>, seeds |-> <<>>, centers |-> <<>>]

Init ==
    /\ shape \in Shapes
    /\ layer = <<0, 0>>
    /\ spatial = [m \in Methods |-> <<>>]
    /\ search = [p \in Paths |-> NoSearch]
    /\ ideal = NoSearch

\* The centre frame's search, along every path.
Spatial(d, e) ==
    /\ layer = <<0, 0>>
    /\ LET keys == FrameKeys(d, shape.t0, {shape.c})
           best == Best({keys[p] : p \in Window(shape.c, shape.lo, shape.hi) \ {shape.c}},
                        Wanted(shape))
       IN  /\ spatial' = [m \in Methods |-> SpatialList(m, shape, keys, d, e)]
           /\ search' = [p \in Paths |-> IF Serves(p, shape)
                                         THEN Started(shape, spatial'[CentreMethod[p]])
                                         ELSE NoSearch]
           /\ ideal' = Started(shape, best)
    /\ layer' = FirstLayer(shape)
    /\ UNCHANGED shape

\* One frame of the temporal search, along every path.
Layer(d) ==
    /\ layer[1] \in {-1, 1}
    /\ LET sign == layer[1]
           dt == layer[2]
           keys == FrameKeys(d, shape.t0 + sign * dt, {})
           best == Best({keys[p] : p \in Union(shape, ideal.centers)}, LocalK(shape))
           next == After(shape, sign, dt, best # <<>>)
           Along(p) == LET st == search[p]
                           local == LayerBest(p, shape, st.centers, keys)
                       IN  Followed(st, GlobalMerge(p, shape, st.held, local), local, next)
       IN  /\ layer' = next
           /\ search' = [p \in Paths |-> IF Serves(p, shape) THEN Along(p) ELSE NoSearch]
           /\ ideal' = Followed(ideal, Best({ideal.held[i] : i \in DOMAIN ideal.held}
                                              \cup {best[i] : i \in DOMAIN best}, Wanted(shape)),
                                best, next)
    /\ UNCHANGED <<shape, spatial>>

Next == \E d \in Inputs[shape.inputs] :
            Layer(d) \/ \E e \in Roundings : Spatial(d, e)
Spec == Init /\ [][Next]_vars

-----------------------------------------------------------------------------
(* Properties.                                                             *)

\* Every method finds the wanted best candidates of the window in the order of
\* the contract, whatever its scan order and container: ties fall to the frame
\* and the raster position, a distance that is not finite comes last and still
\* fills a group that has nothing better.
SpatialListsAgree ==
    layer # <<0, 0>> =>
        \A m, n \in Methods : spatial[m] = spatial[n] /\
            (layer = FirstLayer(shape) => spatial[m] = ideal.held)

\* Every path's temporal search holds the same list and follows the same
\* centers as the search by definition: overlapping windows never enter a
\* candidate twice and none is lost where they overlap.
SearchesAgree ==
    \A p \in Paths : Serves(p, shape) => search[p] = ideal

===============================================================================
