---------------------------- MODULE MCRollNodes ----------------------------
(* The nodes whose planes RollPlane is checked on.                          *)
EXTENDS Integers

\* A clip of frames frames in chunks of chunk, with radius radius, of which
\* turns chunks are planned.
RollNode(radius, frames, chunk, turns) ==
    [radius |-> radius, frames |-> frames, chunk |-> chunk, turns |-> turns,
     two_stage |-> FALSE, basic |-> FALSE, guide |-> FALSE, batch_out |-> TRUE]
TwoStage(node) == [node EXCEPT !.two_stage = TRUE, !.basic = TRUE]
Unfiltered(node) == [node EXCEPT !.two_stage = TRUE]
Guided(node) == [node EXCEPT !.guide = TRUE]
OneByOne(node) == [node EXCEPT !.batch_out = FALSE]

\* Windows that overlap two chunks and clips shorter than a window; three
\* chunks in a row where the frames are few.
MCPlaneNodes ==
    {RollNode(1, 6, 2, 2), Guided(OneByOne(RollNode(1, 5, 2, 2))), Guided(RollNode(2, 5, 3, 2)),
     TwoStage(RollNode(1, 6, 3, 2)), TwoStage(OneByOne(RollNode(1, 5, 1, 2))),
     OneByOne(RollNode(1, 3, 1, 3)), Guided(RollNode(2, 3, 2, 2)), TwoStage(RollNode(2, 2, 1, 2))}

\* sigma_basic is 0 for the plane: the first stage leaves it alone.
MCUnfiltered == {Unfiltered(RollNode(1, 4, 2, 1))}
=============================================================================
