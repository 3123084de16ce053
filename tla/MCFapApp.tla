------------------------------ MODULE MCFapApp ------------------------------
EXTENDS FapApp

CONSTANTS Claude, OpenCode

MCAgents == {Claude, OpenCode}
MCSolidAgents == {Claude}
=============================================================================
