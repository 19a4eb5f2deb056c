--------------------------- MODULE MailboxSyncMC ---------------------------
(* Instances of MailboxSync for TLC.                                       *)
EXTENDS MailboxSync, TLC

OneFault == [p \in Providers |-> 1]

\* Gmail's cursor expires, and then something fails under its baseline.
TwoFaults == [p \in Providers |-> 2]

\* Sound for the safety runs: no constant of theirs tells messages apart.
Symmetry == Permutations(Messages)
=============================================================================
