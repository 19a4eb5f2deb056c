---------------------------- MODULE AccountProofs ----------------------------
(***************************************************************************)
(* Accounts, for any ids, addresses, readers and bound on faults: the row  *)
(* and the secret of a linked account (AccountLifecycle), and what the     *)
(* loader, the watchers and the sync worker make of the rows (SyncWorker,  *)
(* instantiated as W over the same ids and over the state of AccountList). *)
(***************************************************************************)
EXTENDS AccountLifecycle, AccountList, Sequences, TLAPS

VARIABLES fresh, snap, watchers, queue, pc, todo

W == INSTANCE SyncWorker WITH Accounts <- Ids

-----------------------------------------------------------------------------
(* Types.                                                                  *)

LEMMA LinkTyped == TypeOK /\ LinkStep => TypeOK'
<1> SUFFICES ASSUME TypeOK, LinkStep PROVE TypeOK'
  OBVIOUS
<1> USE AccountConstantsOK DEF TypeOK, removal, refresh, EndLink, Fault, Store, Forget
<1>1. ASSUME NEW a \in Addresses, StartLink(a) PROVE TypeOK'
  BY <1>1 DEF StartLink
<1>2. CASE CancelLink
  BY <1>2 DEF CancelLink
<1>3. CASE Authorize
  BY <1>3 DEF Authorize
<1>4. CASE InsertRow
  BY <1>4 DEF InsertRow
<1>5. CASE SaveSecret
  BY <1>5 DEF SaveSecret
<1>6. CASE RefuseSecret
  BY <1>6 DEF RefuseSecret
<1>7. CASE RollbackRow
  BY <1>7 DEF RollbackRow, Without
<1> QED BY <1>1, <1>2, <1>3, <1>4, <1>5, <1>6, <1>7 DEF LinkStep

LEMMA RemovalTyped == TypeOK /\ RemovalStep => TypeOK'
<1> SUFFICES ASSUME TypeOK, RemovalStep PROVE TypeOK'
  OBVIOUS
<1> USE AccountConstantsOK DEF TypeOK, link, refresh, Fault, Forget, Linked, Without
<1>1. ASSUME NEW i \in Ids, UnlinkSecret(i) PROVE TypeOK'
  BY <1>1 DEF UnlinkSecret
<1>2. ASSUME NEW i \in Ids, UnlinkRow(i) PROVE TypeOK'
  BY <1>2 DEF UnlinkRow
<1>3. CASE ListAccounts
  BY <1>3 DEF ListAccounts
<1>4. CASE DeleteSecrets
  BY <1>4 DEF DeleteSecrets
<1>5. CASE DeleteRows
  BY <1>5 DEF DeleteRows
<1>6. CASE LeaveSettings
  BY <1>6 DEF LeaveSettings
<1> QED BY <1>1, <1>2, <1>3, <1>4, <1>5, <1>6 DEF RemovalStep

LEMMA RefreshTyped == TypeOK /\ (RefreshStep \/ Crash) => TypeOK'
<1> SUFFICES ASSUME TypeOK, RefreshStep \/ Crash PROVE TypeOK'
  OBVIOUS
<1> USE AccountConstantsOK DEF TypeOK, link, removal
<1>1. ASSUME NEW r \in Readers, NEW i \in Ids, TakeAccount(r, i) PROVE TypeOK'
  BY <1>1 DEF TakeAccount
<1>2. ASSUME NEW r \in Readers, ReadSecret(r) PROVE TypeOK'
  BY <1>2 DEF ReadSecret
<1>3. ASSUME NEW r \in Readers, NEW rotated \in BOOLEAN, Answered(r, rotated) PROVE TypeOK'
  BY <1>3 DEF Answered, Store
<1>4. CASE Crash
  BY <1>4 DEF Crash, Fault, EndLink
<1> QED BY <1>1, <1>2, <1>3, <1>4 DEF RefreshStep

\* Every variable keeps its type.
THEOREM TypeCorrect == Spec => []TypeOK
<1>1. Init => TypeOK
  BY AccountConstantsOK DEF Init, TypeOK
<1>2. TypeOK /\ [Next]_vars => TypeOK'
  <2> SUFFICES ASSUME TypeOK, [Next]_vars PROVE TypeOK'
    OBVIOUS
  <2>1. CASE UNCHANGED vars
    BY <2>1 DEF vars, link, removal, refresh, TypeOK
  <2> QED BY <2>1, LinkTyped, RemovalTyped, RefreshTyped DEF Next
<1> QED BY <1>1, <1>2, PTL DEF Spec

-----------------------------------------------------------------------------
(* Secrets and rows.                                                       *)

\* A secret that is not late belongs to an account whose removal has not begun.
SecretInv == \A i \in vault \ late : ~Leaving(i)

\* An account to be kept is complete, no removal is under way, and it is not
\* the one being linked.
KeptInv ==
  /\ kept \subseteq Linked \cap vault \cap used
  /\ kept \cap unlinking = {}
  /\ wiping # "idle" => kept = {}
  /\ candidate \notin kept

AccountInv == TypeOK /\ SecretInv /\ KeptInv

LEMMA LinkKeepsInv ==
  ASSUME AccountInv, TypeOK', LinkStep
  PROVE  SecretInv' /\ KeptInv'
<1> USE AccountConstantsOK DEF AccountInv, TypeOK, SecretInv, KeptInv, Leaving, Linked, EndLink,
                               Store, Forget, removal, refresh
<1>1. ASSUME NEW a \in Addresses, StartLink(a) PROVE SecretInv' /\ KeptInv'
  BY <1>1 DEF StartLink
<1>2. CASE CancelLink
  BY <1>2 DEF CancelLink
<1>3. CASE Authorize
  BY <1>3 DEF Authorize
<1>4. CASE InsertRow
  BY <1>4 DEF InsertRow
<1>5. CASE SaveSecret
  BY <1>5 DEF SaveSecret
<1>6. CASE RefuseSecret
  BY <1>6 DEF RefuseSecret
<1>7. CASE RollbackRow
  BY <1>7 DEF RollbackRow, Without
<1> QED BY <1>1, <1>2, <1>3, <1>4, <1>5, <1>6, <1>7 DEF LinkStep

LEMMA RemovalKeepsInv ==
  ASSUME AccountInv, TypeOK', RemovalStep
  PROVE  SecretInv' /\ KeptInv'
<1> USE AccountConstantsOK DEF AccountInv, TypeOK, SecretInv, KeptInv, Leaving, Linked,
                               Forget, Without, link, refresh
<1>1. ASSUME NEW i \in Ids, UnlinkSecret(i) PROVE SecretInv' /\ KeptInv'
  BY <1>1 DEF UnlinkSecret
<1>2. ASSUME NEW i \in Ids, UnlinkRow(i) PROVE SecretInv' /\ KeptInv'
  BY <1>2 DEF UnlinkRow
<1>3. CASE ListAccounts
  BY <1>3 DEF ListAccounts
<1>4. CASE DeleteSecrets
  BY <1>4 DEF DeleteSecrets
<1>5. CASE DeleteRows
  BY <1>5 DEF DeleteRows
<1>6. CASE LeaveSettings
  BY <1>6 DEF LeaveSettings
<1> QED BY <1>1, <1>2, <1>3, <1>4, <1>5, <1>6 DEF RemovalStep

LEMMA RefreshKeepsInv ==
  ASSUME AccountInv, TypeOK', RefreshStep \/ Crash
  PROVE  SecretInv' /\ KeptInv'
<1> USE AccountConstantsOK DEF AccountInv, TypeOK, SecretInv, KeptInv, Leaving, Linked,
                               link, removal
<1>1. ASSUME NEW r \in Readers, NEW i \in Ids, TakeAccount(r, i) PROVE SecretInv' /\ KeptInv'
  BY <1>1 DEF TakeAccount
<1>2. ASSUME NEW r \in Readers, ReadSecret(r) PROVE SecretInv' /\ KeptInv'
  BY <1>2 DEF ReadSecret
<1>3. ASSUME NEW r \in Readers, NEW rotated \in BOOLEAN, Answered(r, rotated)
      PROVE  SecretInv' /\ KeptInv'
  BY <1>3 DEF Answered, Store
<1>4. CASE Crash
  BY <1>4 DEF Crash, EndLink
<1> QED BY <1>1, <1>2, <1>3, <1>4 DEF RefreshStep

LEMMA AccountInvHolds == Spec => []AccountInv
<1>1. Init => AccountInv
  <2> SUFFICES ASSUME Init PROVE AccountInv
    OBVIOUS
  <2>1. TypeOK
    BY AccountConstantsOK DEF Init, TypeOK
  <2>2. SecretInv /\ KeptInv
    BY DEF Init, SecretInv, KeptInv
  <2> QED BY <2>1, <2>2 DEF AccountInv
<1>2. AccountInv /\ TypeOK' /\ [Next]_vars => AccountInv'
  <2> SUFFICES ASSUME AccountInv, TypeOK', [Next]_vars PROVE AccountInv'
    OBVIOUS
  <2>1. CASE UNCHANGED vars
    BY <2>1 DEF vars, link, removal, refresh, AccountInv, SecretInv, KeptInv, Leaving, Linked
  <2> QED BY <2>1, LinkKeepsInv, RemovalKeepsInv, RefreshKeepsInv DEF Next, AccountInv
<1> QED BY <1>1, <1>2, TypeCorrect, PTL DEF Spec

\* No sequence of failures, cancellations and crashes orphans a secret, unless
\* it was stored when the removal of its account had begun.
THEOREM NoOrphanSecretHolds == Spec => []NoOrphanSecret
<1>1. AccountInv => NoOrphanSecret
  BY DEF AccountInv, TypeOK, SecretInv, NoOrphanSecret, Leaving, Linked
<1> QED BY <1>1, AccountInvHolds, PTL

\* Nothing but the user's own request takes a linked account apart.
THEOREM AccountsPersistHolds == Spec => []AccountsPersist
<1>1. AccountInv => AccountsPersist
  BY DEF AccountInv, KeptInv, AccountsPersist
<1> QED BY <1>1, AccountInvHolds, PTL

-----------------------------------------------------------------------------
(* The accounts that state.accounts holds: SyncWorker.  What it assumes of *)
(* its constants is a hypothesis here.                                     *)

LEMMA WorkerInitTyped == W!Init => W!TypeOK
<1> SUFFICES ASSUME W!Init PROVE W!TypeOK OBVIOUS
<1>1. queue \in Seq(W!Targets) BY DEF W!Init, W!Targets
<1> QED BY <1>1 DEF W!Init, W!TypeOK

LEMMA SentTyped ==
  ASSUME NEW q \in Seq(W!Targets), NEW t \in W!Targets
  PROVE  W!Sent(q, t) \in Seq(W!Targets)
  BY DEF W!Sent

\* Every step keeps the types.
LEMMA WorkerNextTyped ==
  ASSUME W!ConstantsOK, W!TypeOK, [W!Next]_(W!vars)
  PROVE  W!TypeOK'
<1> USE DEF W!ConstantsOK, W!TypeOK, W!view, W!worker
<1>1. CASE W!LoaderRead
  <2>1. faults' \in Nat BY <1>1 DEF W!LoaderRead, W!Fault
  <2> QED BY <1>1, <2>1 DEF W!LoaderRead
<1>2. CASE W!LoaderDone BY <1>2 DEF W!LoaderDone
<1>3. CASE W!Effect BY <1>3 DEF W!Effect
<1>4. CASE W!WorkerStep
  <2>1. CASE W!Receive
    <3>1. faults' \in Nat BY <2>1 DEF W!Receive, W!Fault
    <3>2. queue' \in Seq(W!Targets) BY <2>1 DEF W!Receive
    <3> QED BY <2>1, <3>1, <3>2 DEF W!Receive
  <2>2. CASE W!Finish BY <2>2 DEF W!Finish, W!Bump
  <2>3. ASSUME NEW a \in Ids, W!Pass(a) PROVE W!TypeOK' BY <2>3 DEF W!Pass
  <2> QED BY <1>4, <2>1, <2>2, <2>3 DEF W!WorkerStep
<1>5. CASE W!LinkStep
  <2>1. CASE W!AnnounceLink
    <3>1. queue' \in Seq(W!Targets) BY <2>1, SentTyped DEF W!AnnounceLink, W!Targets
    <3> QED BY <2>1, <3>1 DEF W!AnnounceLink, W!Bump
  <2>2. CASE W!AbandonLink BY <2>2 DEF W!AbandonLink
  <2>3. ASSUME NEW a \in Ids, W!Link(a) PROVE W!TypeOK' BY <2>3 DEF W!Link
  <2> QED BY <1>5, <2>1, <2>2, <2>3 DEF W!LinkStep
<1>6. CASE W!PageStep
  <2>1. CASE W!LeavePage BY <2>1 DEF W!LeavePage
  <2>2. CASE W!AnnounceRemoval BY <2>2 DEF W!AnnounceRemoval, W!Bump
  <2>3. ASSUME NEW t \in W!Targets, W!Remove(t) PROVE W!TypeOK' BY <2>3 DEF W!Remove, W!Without
  <2> QED BY <1>6, <2>1, <2>2, <2>3 DEF W!PageStep
<1>7. ASSUME NEW a \in Ids, W!Poll(a) PROVE W!TypeOK'
  <2>1. queue' \in Seq(W!Targets) BY <1>7, SentTyped DEF W!Poll, W!Targets
  <2> QED BY <1>7, <2>1 DEF W!Poll
<1>8. ASSUME NEW t \in W!Targets, W!ClickSync(t) PROVE W!TypeOK'
  <2>1. queue' \in Seq(W!Targets) BY <1>8, SentTyped DEF W!ClickSync
  <2> QED BY <1>8, <2>1 DEF W!ClickSync
<1>9. CASE UNCHANGED W!vars BY <1>9 DEF W!vars
<1> QED BY <1>1, <1>2, <1>3, <1>4, <1>5, <1>6, <1>7, <1>8, <1>9 DEF W!Next

\* Type correctness of the worker, the loader, the watchers and the tasks that change rows.
THEOREM WorkerTypeCorrect ==
  ASSUME W!ConstantsOK
  PROVE  W!Spec => []W!TypeOK
<1>1. W!TypeOK /\ [W!Next]_(W!vars) => W!TypeOK'
  BY WorkerNextTyped
<1> QED BY <1>1, WorkerInitTyped, PTL DEF W!Spec

-----------------------------------------------------------------------------
\* No task owes an announcement and no change has gone without one.
Quiet == linked = Nothing /\ removed = Nothing /\ ~stale

\* What the loader holds, or what it last stored, is the rows unless a bump is still to come.
LoadedIsCurrent ==
  /\ Quiet /\ loader = "read" => snap = rows
  /\ Quiet /\ loader = "idle" => known = rows

LEMMA WorkerInitCurrent == W!Init => LoadedIsCurrent
BY DEF W!Init, LoadedIsCurrent

LEMMA WorkerNextCurrent ==
  ASSUME W!ConstantsOK, W!TypeOK, LoadedIsCurrent, [W!Next]_(W!vars)
  PROVE  LoadedIsCurrent'
<1> USE DEF W!ConstantsOK, W!TypeOK, LoadedIsCurrent, Quiet, W!view, W!worker, W!Targets
<1>1. CASE W!LoaderRead BY <1>1 DEF W!LoaderRead
<1>2. CASE W!LoaderDone BY <1>2 DEF W!LoaderDone
<1>3. CASE W!Effect BY <1>3 DEF W!Effect
<1>4. CASE W!WorkerStep
  <2>1. CASE W!Receive BY <2>1 DEF W!Receive
  <2>2. CASE W!Finish BY <2>2 DEF W!Finish, W!Bump
  <2>3. ASSUME NEW a \in Ids, W!Pass(a) PROVE LoadedIsCurrent' BY <2>3 DEF W!Pass
  <2> QED BY <1>4, <2>1, <2>2, <2>3 DEF W!WorkerStep
<1>5. CASE W!LinkStep
  <2>1. CASE W!AnnounceLink BY <2>1 DEF W!AnnounceLink, W!Bump
  <2>2. CASE W!AbandonLink BY <2>2 DEF W!AbandonLink
  <2>3. ASSUME NEW a \in Ids, W!Link(a) PROVE LoadedIsCurrent' BY <2>3 DEF W!Link
  <2> QED BY <1>5, <2>1, <2>2, <2>3 DEF W!LinkStep
<1>6. CASE W!PageStep
  <2>1. CASE W!LeavePage BY <2>1 DEF W!LeavePage
  <2>2. CASE W!AnnounceRemoval BY <2>2 DEF W!AnnounceRemoval, W!Bump
  <2>3. ASSUME NEW t \in W!Targets, W!Remove(t) PROVE LoadedIsCurrent' BY <2>3 DEF W!Remove
  <2> QED BY <1>6, <2>1, <2>2, <2>3 DEF W!PageStep
<1>7. ASSUME NEW a \in Ids, W!Poll(a) PROVE LoadedIsCurrent' BY <1>7 DEF W!Poll
<1>8. ASSUME NEW t \in W!Targets, W!ClickSync(t) PROVE LoadedIsCurrent' BY <1>8 DEF W!ClickSync
<1>9. CASE UNCHANGED W!vars BY <1>9 DEF W!vars
<1> QED BY <1>1, <1>2, <1>3, <1>4, <1>5, <1>6, <1>7, <1>8, <1>9 DEF W!Next

\* Once every change has been announced and loaded, state.accounts holds the accounts that
\* have a row.
THEOREM AccountsShownHolds ==
  ASSUME W!ConstantsOK
  PROVE  W!Spec => []AccountsShown
<1>1. W!TypeOK /\ LoadedIsCurrent /\ [W!Next]_(W!vars) => LoadedIsCurrent'
  BY WorkerNextCurrent
<1>2. LoadedIsCurrent => AccountsShown
  BY DEF LoadedIsCurrent, AccountsShown, Settled, Quiet
<1> QED BY <1>1, <1>2, WorkerInitCurrent, WorkerTypeCorrect, PTL DEF W!Spec
=============================================================================
