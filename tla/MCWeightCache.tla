--------------------------- MODULE MCWeightCache ----------------------------
EXTENDS WeightCache

MCSets == {1, 2}
MCFaultSets == {{"record", "partial"}}
=============================================================================
