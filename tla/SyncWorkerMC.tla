---------------------------- MODULE SyncWorkerMC ----------------------------
EXTENDS SyncWorker
=============================================================================
