----------------------------- MODULE SyncWorker -----------------------------
(***************************************************************************)
(* The parts of main.rs that keep the mailboxes of all accounts polled:    *)
(* the sync worker with its command queue, the loader that copies the      *)
(* account rows into state.accounts whenever refresh_trigger is bumped,    *)
(* and the watchers, one polling task per account in that copy.  Rows come *)
(* and go under them: the auth worker links, the settings page unlinks and *)
(* wipes, and each announces its change only in a later step of its task.  *)
(*                                                                         *)
(* All tasks share the UI thread and interleave at their awaits.  A pass   *)
(* over one mailbox is the subject of MailboxSync and takes one step here; *)
(* what a wipe or a link does to the keyring that of AccountLifecycle.     *)
(***************************************************************************)
EXTENDS AccountList, Naturals, FiniteSets, Sequences

CONSTANTS
  Accounts,   \* account ids; each is linked at most once
  MaxFaults   \* bound: database calls that fail

ConstantsOK ==
  /\ IsFiniteSet(Accounts) /\ MaxFaults \in Nat
  /\ {Nothing, "all"} \cap Accounts = {} /\ Nothing # "all"

ASSUME SyncWorkerConstantsOK == ConstantsOK

VARIABLES
  fresh,                     \* accounts never linked so far
  snap,                      \* what the account loader has read
  watchers,                  \* running_watchers
  queue, pc, todo,           \* the sync worker and the accounts its pass has still to visit
  faults

worker   == <<queue, pc, todo>>
view     == <<known, watchers>>
vars == <<fresh, rows, view, loader, snap, worker, linked, removed, stale, faults>>

Targets == Accounts \cup {"all"}

TypeOK ==
  /\ fresh \subseteq Accounts /\ rows \subseteq Accounts \ fresh
  /\ known \subseteq Accounts \ fresh /\ watchers \subseteq Accounts \ fresh
  /\ loader \in {"idle", "sent", "read"} /\ snap \subseteq Accounts \ fresh
  /\ queue \in Seq(Targets)
  /\ pc \in {"idle", "pass"}
  /\ todo \subseteq Accounts \ fresh
  /\ linked \in (Accounts \ fresh) \cup {Nothing}
  /\ removed \in Targets \cup {Nothing}
  /\ stale \in BOOLEAN /\ faults \in Nat

Fault == faults < MaxFaults /\ faults' = faults + 1

\* The unbounded channel.  Bound: no two equal commands wait in it.
Sent(q, t) == IF \E i \in DOMAIN q : q[i] = t THEN q ELSE Append(q, t)

\* refresh_trigger += 1: the loader starts over, its running call is dropped.
Bump == loader' = "sent" /\ snap' = {} /\ stale' = FALSE

\* The start sends the first command; the loader runs once at the mount.
Init ==
  /\ rows \in SUBSET Accounts /\ fresh = Accounts \ rows
  /\ known = {} /\ watchers = {}
  /\ loader = "sent" /\ snap = {}
  /\ queue = <<"all">> /\ pc = "idle" /\ todo = {} 
  /\ linked = Nothing /\ removed = Nothing
  /\ stale = FALSE /\ faults = 0

-----------------------------------------------------------------------------
(* The account loader and the watchers.                                    *)

\* If list_accounts fails, the copy stays as it is.
LoaderRead ==
  /\ loader = "sent"
  /\ \/ loader' = "read" /\ snap' = rows /\ UNCHANGED <<stale, faults>>
     \/ Fault /\ loader' = "idle" /\ stale' = TRUE /\ UNCHANGED snap
  /\ UNCHANGED <<fresh, rows, view, worker, linked, removed>>

LoaderDone ==
  /\ loader = "read"
  /\ loader' = "idle" /\ known' = snap /\ snap' = {}
  /\ UNCHANGED <<fresh, rows, watchers, worker, linked, removed, stale, faults>>

\* Mutant: the effect starts watchers and cancels none.
EffectNoRetain ==
  /\ ~(known \subseteq watchers)
  /\ watchers' = watchers \cup known
  /\ UNCHANGED <<fresh, rows, known, loader, snap, worker, linked, removed, stale, faults>>

\* Mutant: the effect cancels watchers and starts none.
EffectNoInsert ==
  /\ ~(watchers \subseteq known)
  /\ watchers' = watchers \cap known
  /\ UNCHANGED <<fresh, rows, known, loader, snap, worker, linked, removed, stale, faults>>

\* The effect over state.accounts; without a difference it does nothing.
Effect ==
  /\ watchers # known
  /\ watchers' = known
  /\ UNCHANGED <<fresh, rows, known, loader, snap, worker, linked, removed, stale, faults>>

\* A watcher wakes up after POLL_INTERVAL_SECS; it does not look at the account.
Poll(a) ==
  /\ a \in watchers
  /\ queue' = Sent(queue, a)
  /\ UNCHANGED <<fresh, rows, view, loader, snap, pc, todo, linked, removed, stale, faults>>

\* Sync All of the tray; Sync Now of the inbox for the selected account, which may have
\* gone, or for all.
ClickSync(t) ==
  /\ t \notin fresh /\ (t = "all" \/ pc = "idle")
  /\ queue' = Sent(queue, t)
  /\ UNCHANGED <<fresh, rows, view, loader, snap, pc, todo, linked, removed, stale, faults>>

-----------------------------------------------------------------------------
(* The sync worker: one command, and in it one account, after the other.   *)

\* A command is received and get_account or list_accounts answers.  An account without a
\* row and a failed call end its pass; what follows does not depend on the pass's result.
Receive ==
  /\ pc = "idle" /\ queue # <<>>
  /\ pc' = "pass" /\ queue' = Tail(queue)
  /\ \/ todo' = (IF Head(queue) = "all" THEN rows ELSE rows \cap {Head(queue)}) /\ UNCHANGED faults
     \/ Fault /\ UNCHANGED todo
  /\ UNCHANGED <<fresh, rows, view, loader, snap, linked, removed, stale>>

\* sync_one_account; how it ends does not matter to the accounts that follow.
Pass(a) ==
  /\ pc = "pass" /\ a \in todo
  /\ todo' = todo \ {a}
  /\ UNCHANGED <<fresh, rows, view, loader, snap, queue, pc, linked, removed, stale, faults>>

\* The command is done: the trash is purged and every view is told to read again.
Finish ==
  /\ pc = "pass" /\ todo = {}
  /\ pc' = "idle"
  /\ Bump
  /\ UNCHANGED <<fresh, rows, view, queue, todo, linked, removed, faults>>

-----------------------------------------------------------------------------
(* The auth task, from the insertion of the row on.                        *)

Link(a) ==
  /\ linked = Nothing /\ a \in fresh
  /\ fresh' = fresh \ {a} /\ rows' = rows \cup {a} /\ linked' = a
  /\ UNCHANGED <<view, loader, snap, worker, removed, stale, faults>>

\* Mutant: a finished link asks for a pass and bumps nothing.
LinkQuietly ==
  /\ linked # Nothing /\ linked' = Nothing
  /\ queue' = Sent(queue, linked)
  /\ UNCHANGED <<fresh, rows, view, loader, snap, pc, todo, removed, stale, faults>>

AnnounceLink ==
  /\ linked # Nothing /\ linked' = Nothing
  /\ Bump /\ queue' = Sent(queue, linked)
  /\ UNCHANGED <<fresh, rows, view, pc, todo, removed, faults>>

\* The keyring fails and the row is taken back, or the task is cancelled with the row there.
AbandonLink ==
  /\ linked # Nothing /\ linked' = Nothing /\ stale' = TRUE
  /\ rows' \in {rows, rows \ {linked}}
  /\ UNCHANGED <<fresh, view, loader, snap, worker, removed, faults>>

-----------------------------------------------------------------------------
(* The settings page: Remove of an account, "all" the wipe of everything.  *)
(* What a click asked for shows only when its statement runs, so the two   *)
(* are one action.                                                         *)

Without(t) == IF t = "all" THEN {} ELSE rows \ {t}

\* delete_account or wipe_all_data; the page may have been left since the click, which drops
\* the task and not the statement.  One that fails, or finds no row, changes and
\* announces nothing.
\* Bound: the removals before it have been announced.
Remove(t) ==
  /\ removed = Nothing /\ t \in (known \cap rows) \cup {"all"}
  /\ rows' = Without(t)
  /\ \/ removed' = t /\ UNCHANGED stale
     \/ stale' = TRUE /\ UNCHANGED removed
  /\ UNCHANGED <<fresh, view, loader, snap, worker, linked, faults>>

AnnounceRemoval ==
  /\ removed # Nothing /\ removed' = Nothing
  /\ Bump
  /\ IF removed = "all" THEN known' = {} ELSE UNCHANGED known
  /\ UNCHANGED <<fresh, rows, watchers, worker, linked, faults>>

LeavePage ==
  /\ removed # Nothing /\ removed' = Nothing /\ stale' = TRUE
  /\ UNCHANGED <<fresh, rows, view, loader, snap, worker, linked, faults>>

WorkerStep == Receive \/ Finish \/ \E a \in Accounts : Pass(a)
LinkStep   == AnnounceLink \/ AbandonLink \/ \E a \in Accounts : Link(a)
PageStep   == LeavePage \/ AnnounceRemoval \/ \E t \in Targets : Remove(t)

Next ==
  \/ LoaderRead \/ LoaderDone \/ Effect \/ WorkerStep \/ LinkStep \/ PageStep
  \/ \E a \in Accounts : Poll(a)
  \/ \E t \in Targets : ClickSync(t)

\* Calls return and timers fire; nothing obliges a user.  A bump may drop the loader's call
\* again and again, but a pass outlasts the reading of a few rows.
Fairness ==
  /\ WF_vars(WorkerStep) /\ WF_vars(LoaderRead) /\ SF_vars(LoaderDone) /\ WF_vars(Effect)
  /\ WF_vars(AnnounceLink \/ AbandonLink) /\ WF_vars(AnnounceRemoval \/ LeavePage)
  /\ \A a \in Accounts : WF_vars(Poll(a))

Spec == Init /\ [][Next]_vars /\ Fairness

-----------------------------------------------------------------------------
\* A watcher whose account has lost its row is cancelled in the end, even if nothing announced
\* the removal: the watcher's own polls make the worker bump (main.rs, "prevent ghost polling
\* loops").
GhostsVanish == \A a \in Accounts : a \in watchers \ rows ~> a \notin watchers

\* An account that keeps its row is covered by passes again and again, however full the queue
\* and however many mailboxes fail.  Only a row may be passed over whose change nothing has
\* announced, or after whose announcement the load failed, and that until the next bump (stale).
MailboxPolled ==
  \A a \in Accounts : <>[](a \in rows /\ ~stale) => []<><<Pass(a)>>_vars
=============================================================================
