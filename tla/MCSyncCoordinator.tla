-------------------------- MODULE MCSyncCoordinator ----------------------------
EXTENDS SyncCoordinator

CONSTANTS a1, a2

\* The first seller's archive, another one, and the first again under a new epoch.
MCArchiveOf == <<a1, a2, a1>>
================================================================================
