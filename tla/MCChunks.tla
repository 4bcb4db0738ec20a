------------------------------ MODULE MCChunks ------------------------------
(* Three questions about a chunk of the CUDA filters in one run: the streams *)
(* that fill one plane of it (RollPlane), the matchers behind its kernels    *)
(* (BlockMatch, MatchGrid), and BM4D's chunks and prefetch threads           *)
(* (Bm4dChunks).  A behaviour is about one of them; the others stay in an    *)
(* initial state.                                                            *)
EXTENDS MCBm4dChunks, MCRollNodes, MCMatching

VARIABLES part

\* RollPlane
CONSTANT PlaneNodes
VARIABLES d, plans, promised, next_start, chain, failed_chain, issued, turn, resident, event,
          queue, done, src, ref, sums, basic, out, planeStore, left
planeVars == <<d, plans, promised, next_start, chain, failed_chain, issued, turn, resident, event,
               queue, done, src, ref, sums, basic, out, planeStore, left>>
Plane == INSTANCE RollPlane WITH Nodes <- PlaneNodes, store <- planeStore

\* BlockMatch
CONSTANTS Distances, MatchFrames, Shapes, Lanes, Parts, SortSize, Digit, Rounds, Queue,
          Near, Survivors, Roundings, Inputs
VARIABLES shape, layer, spatial, search, ideal
matchVars == <<shape, layer, spatial, search, ideal>>
Match == INSTANCE BlockMatch WITH Frames <- MatchFrames

\* MatchGrid
CONSTANTS Planes, Side, RowThreads, PerBlock, WarpRefs
VARIABLES grid, begin, written
gridVars == <<grid, begin, written>>
Launches == INSTANCE MatchGrid WITH plane <- grid

ASSUME Plane!PlaneAssumption
ASSUME Match!DigitsHoldKeys /\ Match!ShapesOK
ASSUME Bm4dAssumption

MCInit ==
    /\ part \in {"plane", "lists", "references", "clip"}
    /\ Plane!Init /\ (part # "plane" => d = CHOOSE n \in PlaneNodes : TRUE)
    /\ Match!Init /\ (part # "lists" => shape = CHOOSE s \in Shapes : TRUE)
    /\ Launches!GridInit /\ (part # "references" => grid = CHOOSE p \in Planes : TRUE)
    /\ ClipInit /\ Instance /\ (part # "clip" => node = CHOOSE n \in Nodes : TRUE)

MCNext ==
    \/ part = "plane" /\ Plane!Next /\ UNCHANGED <<part, matchVars, gridVars, clipVars>>
    \/ part = "lists" /\ Match!Next /\ UNCHANGED <<part, planeVars, gridVars, clipVars>>
    \/ part = "references" /\ Launches!GridNext /\ UNCHANGED <<part, planeVars, matchVars, clipVars>>
    \/ part = "clip" /\ ClipNext /\ UNCHANGED <<part, planeVars, matchVars, gridVars>>

MCSpec == MCInit /\ [][MCNext]_<<part, planeVars, matchVars, gridVars, clipVars>>

\* "rolling plan and device state disagree" is never thrown (RollPlane).
PlanAgrees == Plane!PlanAgrees

\* Nothing reads a buffer that is still to be written (RollPlane).
ReadersWait == Plane!ReadersWait

\* The frames of every chunk that ends well are all in its store and each is
\* made of the right frames and sums (RollPlane).
FramesRight == Plane!FramesRight /\ Plane!StoreComplete

\* Every matcher finds the same list of the centre frame (BlockMatch).
SpatialListsAgree == Match!SpatialListsAgree

\* Every path of the temporal search finds the list of its definition
\* (BlockMatch).
SearchesAgree == Match!SearchesAgree

\* Every reference is searched once, however it is handed out (MatchGrid).
ReferencesOnce == Launches!ReferencesOnce
=============================================================================
