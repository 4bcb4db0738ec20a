----------------------------- MODULE MCRollPlane ----------------------------
EXTENDS RollPlane, MCRollNodes
=============================================================================
