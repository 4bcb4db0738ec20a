------------------------------- MODULE MatchGrid -------------------------------
(***************************************************************************)
(* Which thread searches which reference.  The references of a plane are   *)
(* the raster grid of gpuhost/geometry.hpp, whose last column and row are  *)
(* clamped to the plane; a driver hands them out in batches of any size.   *)
(* Each matcher cuts a batch into thread blocks in its own way: lanes of a *)
(* warp, whole warps, one block column after the other (match_column.cu),  *)
(* eight to a warp in at most two grid rows (the tensor matcher), or a     *)
(* lattice of tiles with extra passes for the clamped edges                *)
(* (match_square.cu).  A thread that is live writes the list of its        *)
(* reference.                                                              *)
(***************************************************************************)
EXTENDS Integers, Sequences, FiniteSets, FiniteSetsExt, SequencesExt

CONSTANTS
    Planes,      \* [width, height, block, step]: the planes searched
    Side,        \* threads a side of a square block (kSide)
    RowThreads,  \* threads of a column block (kThreads)
    PerBlock,    \* references of a block of lanes or warps
    WarpRefs     \* references a warp of the tensor matcher takes (8)

VARIABLES
    plane,   \* the plane
    begin,   \* ref_begin: the references before it have been handed out
    written  \* matcher -> reference -> times its list was written

gridVars == <<plane, begin, written>>

-----------------------------------------------------------------------------
(* The raster grid.                                                        *)

CeilDiv(a, b) == (a + b - 1) \div b

\* make_raster_grid()
Grid(p) == [max_x |-> p.width - p.block, max_y |-> p.height - p.block, step |-> p.step,
            nx |-> CeilDiv(p.width - p.block, p.step) + 1,
            ny |-> CeilDiv(p.height - p.block, p.step) + 1]
Count(g) == g.nx * g.ny
GridX(g, i) == Min({(i % g.nx) * g.step, g.max_x})
GridY(g, i) == Min({(i \div g.nx) * g.step, g.max_y})

\* append_raster_jobs(): the corners of the CPU's jobs, row by row.
Corners(extent, block, step) ==
    [i \in 1 .. CeilDiv(extent - block + step, step) |->
        Min({(i - 1) * step, extent - block})]
RasterJobs(p) ==
    LET xs == Corners(p.width, p.block, p.step)
        ys == Corners(p.height, p.block, p.step)
    IN  [i \in 1 .. Len(xs) * Len(ys) |->
           <<xs[((i - 1) % Len(xs)) + 1], ys[((i - 1) \div Len(xs)) + 1]>>]

-----------------------------------------------------------------------------
(* The references that the live threads of a launch write, as a sequence:  *)
(* a reference is there once for each thread that writes it.  A batch is   *)
(* the references first .. first + count - 1.                              *)

\* launch_lane(), the warp kernels, Matcher::dispatch(): consecutive
\* references, the idle lanes of the last block write nothing.
LaneThreads(g, first, count) ==
    LET blocks == CeilDiv(count, PerBlock)
        slots == [i \in 1 .. blocks * PerBlock |-> first + i - 1]
    IN  SelectSeq(slots, LAMBDA r : r - first < count)

\* row_block() and launch_column(): a block for each segment of each grid row
\* that the batch touches.
ColumnThreads(g, first, count) ==
    LET row_first == first \div g.nx
        row_last == (first + count - 1) \div g.nx
        segs == CeilDiv(g.nx, RowThreads)
        Live(row, seg, tid) ==
          LET col_first == seg * RowThreads
              lo_col == Max({col_first, first - row * g.nx})
              hi_col == Min({col_first + RowThreads, g.nx, first + count - row * g.nx}) - 1
          IN  row < g.ny /\ col_first + tid \in lo_col .. hi_col
        thread == [i \in 1 .. (row_last - row_first + 1) * segs * RowThreads |->
                     LET block == (i - 1) \div RowThreads
                     IN  [row |-> row_first + block \div segs, seg |-> block % segs,
                          tid |-> (i - 1) % RowThreads]]
        live == SelectSeq(thread, LAMBDA t : Live(t.row, t.seg, t.tid))
    IN  [i \in DOMAIN live |-> live[i].row * g.nx + live[i].seg * RowThreads + live[i].tid]

\* tensor_match_kernel: eight references a warp, in the row of the first one
\* and, from `split` on, in the row of the first that is not in it.  A warp
\* writes every reference, with the row its part was searched in.
TensorSplit(g, first, n) ==
    Min({n} \cup {j \in 1 .. n - 1 : GridY(g, first + j) # GridY(g, first)})
TensorThreads(g, first, count) ==
    FoldLeft(LAMBDA acc, w :
               LET at == first + w * WarpRefs
                   n == Min({WarpRefs, count - w * WarpRefs})
                   split == TensorSplit(g, at, n)
                   row(j) == GridY(g, IF j < split THEN at ELSE at + split)
                   searched == SelectSeq([j \in 1 .. n |-> j - 1],
                                         LAMBDA j : row(j) = GridY(g, at + j))
               IN  acc \o [i \in DOMAIN searched |-> at + searched[i]],
             <<>>, [w \in 1 .. CeilDiv(count, WarpRefs) |-> w - 1])

\* plan_square(): the main lattice and those shifted onto the clamped column
\* and row.  A pass is [ox, oy, columns of blocks, bands of blocks].
SquareRows(span, refs) ==
    IF span > 0 THEN CeilDiv(span, CeilDiv(span, refs)) ELSE 1
ClampsX(g) == g.max_x % g.step # 0
ClampsY(g) == g.max_y % g.step # 0
PlanSquare(g, r, first, count) ==
    LET q == g.step
        refs == Side - r + 1
        row_first == first \div g.nx
        row_last == (first + count - 1) \div g.nx
        lattice_cols == IF ClampsX(g) THEN g.nx - 1 ELSE g.nx
        lattice_rows == IF ClampsY(g) THEN g.ny - 1 ELSE g.ny
        blocks_x == CeilDiv(lattice_cols, refs)
        span == Min({row_last, lattice_rows - 1}) - row_first + 1
        bands == IF span > 0 THEN CeilDiv(span, refs) ELSE 0
        rows == SquareRows(span, refs)
        shift_x == g.max_x - q * (refs - 1)
        shift_y == g.max_y - q * (rows - 1)
        last_row == ClampsY(g) /\ row_last = g.ny - 1
        main == {[ox |-> 0, oy |-> q * row_first, bx |-> blocks_x, bands |-> bands]}
        right == {[ox |-> shift_x, oy |-> q * row_first, bx |-> 1, bands |-> bands]}
        bottom == {[ox |-> 0, oy |-> shift_y, bx |-> blocks_x, bands |-> 1]}
        corner == {[ox |-> shift_x, oy |-> shift_y, bx |-> 1, bands |-> 1]}
        passes == main \cup (IF ClampsX(g) THEN right ELSE {})
                       \cup (IF last_row THEN bottom ELSE {})
                       \cup (IF last_row /\ ClampsX(g) THEN corner ELSE {})
    IN  [rows |-> rows, refs |-> refs, passes |-> {p \in passes : p.bx > 0 /\ p.bands > 0}]

\* grid_index(): the column (row) of the reference at v, -1 where none is.
GridIndex(v, max_v, q, n) ==
    CASE v < 0 \/ v > max_v -> -1
      [] v = max_v -> n - 1
      [] v \in 0 .. max_v - 1 /\ v % q = 0 -> v \div q
      [] OTHER -> -1

\* square_match_kernel: the threads that write, of all passes.
SquareThreads(g, r, first, count) ==
    LET plan == PlanSquare(g, r, first, count)
        Thread == UNION {{[pass |-> p, bx |-> bx, by |-> by, tx |-> tx, ty |-> ty] :
                            bx \in 0 .. p.bx - 1, by \in 0 .. p.bands - 1,
                            tx \in 0 .. Side - 1, ty \in 0 .. plan.rows + r - 2} :
                         p \in plan.passes}
        Ref(t) == LET x0 == t.pass.ox + g.step * (plan.refs * t.bx + t.tx)
                      y0 == t.pass.oy + g.step * (plan.rows * t.by + t.ty)
                      col == GridIndex(x0, g.max_x, g.step, g.nx)
                      row == GridIndex(y0, g.max_y, g.step, g.ny)
                  IN  IF t.tx < plan.refs /\ t.ty < plan.rows /\ col >= 0 /\ row >= 0
                      THEN row * g.nx + col ELSE -1
        Writes(ref) == Cardinality({t \in Thread : Ref(t) = ref})
    IN  [ref \in 0 .. Count(g) - 1 |-> IF ref \in first .. first + count - 1 THEN Writes(ref) ELSE 0]

-----------------------------------------------------------------------------
Matchers == {"lanes", "columns", "tensor", "square"}
\* Mutant: the tensor matcher takes grids whose rows are shorter than its warps.
TakesTensorAlways(g) == TRUE

\* spatial_match_tensor(), spatial_match_square_shape()
TakesTensor(g) == g.nx >= WarpRefs
TakesSquare(p) == p.block % p.step = 0 /\ p.block > p.step

\* How often each reference of the grid is written for a batch.
Times(threads, g) ==
    [ref \in 0 .. Count(g) - 1 |-> Cardinality({i \in DOMAIN threads : threads[i] = ref})]
Written(m, p, first, count) ==
    LET g == Grid(p) IN
    CASE m = "columns" -> Times(ColumnThreads(g, first, count), g)
      [] m = "tensor" /\ TakesTensor(g) -> Times(TensorThreads(g, first, count), g)
      [] m = "square" /\ TakesSquare(p) -> SquareThreads(g, p.block \div p.step, first, count)
      [] OTHER -> Times(LaneThreads(g, first, count), g)

GridInit ==
    /\ plane \in Planes
    /\ begin = 0
    /\ written = [m \in Matchers |-> [ref \in 0 .. Count(Grid(plane)) - 1 |-> 0]]

\* The next batch, of any size the memory plan may give it.
Batch(count) ==
    /\ begin + count <= Count(Grid(plane))
    /\ written' = [m \in Matchers |->
                     LET now == Written(m, plane, begin, count)
                     IN  [ref \in DOMAIN now |-> written[m][ref] + now[ref]]]
    /\ begin' = begin + count
    /\ UNCHANGED plane

GridNext == \E count \in 1 .. Count(Grid(plane)) : Batch(count)
GridSpec == GridInit /\ [][GridNext]_gridVars

-----------------------------------------------------------------------------
\* Whatever the batches, every reference that has been handed out was searched
\* by exactly one thread of the matcher's launch, and no other was: the list of
\* a reference is neither missing nor written twice.  The grid is the CPU's.
ReferencesOnce ==
    /\ \A m \in Matchers : \A ref \in DOMAIN written[m] :
          written[m][ref] = IF ref < begin THEN 1 ELSE 0
    /\ LET g == Grid(plane) IN
          RasterJobs(plane) = [i \in 1 .. Count(g) |-> <<GridX(g, i - 1), GridY(g, i - 1)>>]
===============================================================================
