-------------------------- MODULE TrashRetentionMC --------------------------
EXTENDS TrashRetention
=============================================================================
