--------------------------- MODULE MCSyncGates ---------------------------
\* Instance of SyncGates: four seconds, heartbeats of two.
EXTENDS SyncGates
=============================================================================
