--------------------------- MODULE MCRollingFilters ---------------------------
(* Rolling output outside the CUDA group filters, in one run: the BM        *)
(* filters on the CPU (CpuRolling) and the whole-image filters on CUDA      *)
(* (ImageRolling).  A behaviour is about one; the other stays in an initial *)
(* state.                                                                   *)
EXTENDS CpuRolling

CONSTANTS ImageThreads, ImageNodes, CarryBacklog
VARIABLES part, image, roll, leased, stream, ring, sums, staging, request, served

Node(radius, frames, chunk, cache_limit) ==
    [radius |-> radius, frames |-> frames, chunk |-> chunk, cache_limit |-> cache_limit]
\* Chunks longer and shorter than a window, a last chunk that is cut short,
\* clips shorter than a window.
MCNodes == {Node(1, 5, 2, 1), Node(2, 4, 1, 2), Node(2, 8, 3, 1), Node(3, 3, 2, 1)}

ImageNode(rolling, radius, frames, chunk, slots, sets, requests) ==
    [rolling |-> rolling, radius |-> radius, frames |-> frames, chunk |-> chunk,
     slots |-> slots, sets |-> sets, requests |-> requests]
\* Chunks shorter than a window and as long as one, a clip shorter than one;
\* a stream with two staging sets and three streams with three, as the code
\* makes them; the legacy output.
MCImageNodes == {ImageNode(TRUE, 1, 3, 1, 1, 2, 3), ImageNode(TRUE, 1, 6, 3, 1, 2, 3),
                 ImageNode(TRUE, 1, 3, 1, 3, 3, 3), ImageNode(TRUE, 2, 4, 2, 1, 2, 3),
                 ImageNode(FALSE, 1, 3, 1, 1, 2, 3)}
Symmetric == Permutations(Threads) \cup Permutations(ImageThreads)

imageVars == <<image, roll, leased, stream, ring, sums, staging, request, served>>
Image == INSTANCE ImageRolling WITH Threads <- ImageThreads, Nodes <- ImageNodes, d <- image

MCInit ==
    /\ part \in {"cpu", "image"}
    /\ Init /\ (part = "image" => d = CHOOSE node \in Nodes : TRUE)
    /\ Image!Init /\ (part = "cpu" => image = CHOOSE node \in ImageNodes : TRUE)
MCNext ==
    \/ part = "cpu" /\ Next /\ UNCHANGED <<part, imageVars>>
    \/ part = "image" /\ Image!Next /\ UNCHANGED <<part, vars>>
MCSpec == MCInit /\ [][MCNext]_<<part, vars, imageVars>>

\* Every request of a whole-image filter that ends well has the right result,
\* and what it queued finds its staging set and frames (ImageRolling).
ImagesRight == Image!ImagesRight

\* A chunk that starts afresh is never failed by an earlier run, and turns,
\* sets and slots never wait for each other in a circle (ImageRolling).
TurnsGoOn == Image!TurnsGoOn
===============================================================================
