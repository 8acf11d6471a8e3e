---------------------------- MODULE MCOutboxService ----------------------------
EXTENDS OutboxService, TLC

TaskSymmetry == Permutations(Tasks)
================================================================================
