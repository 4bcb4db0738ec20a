---------------------------- MODULE MCBm4dChunks ----------------------------
EXTENDS Bm4dChunks, TLC

Node(chunks, planes, gpu) == [chunks |-> chunks, planes |-> planes, gpu |-> gpu]

\* Three chunks share two slots; chunks of two planes wait for their order
\* twice, and device frames leave their downloads on the stream.  Claims are
\* lost on the smallest node, which adds little to the run (Instance).
MCNodes == {Node(3, 1, FALSE), Node(2, 2, TRUE), Node(2, 1, FALSE)}
Instance == faults = {"collect"} <=> node = Node(2, 1, FALSE)
MCDeviceNodes == {Node(2, 1, TRUE)}
MCHostNodes == {Node(3, 1, FALSE)}
MCStores == 1 .. 7

MCFaultSets == {{"compute", "launch"}, {"collect"}}
MCNoFaults == {{}}
MCCollectFaults == {{"collect"}}

Symmetric == Permutations(Callers)
=============================================================================
