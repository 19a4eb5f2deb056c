---------------------------- MODULE AccountList ----------------------------
(***************************************************************************)
(* state.accounts, the program's copy of the account rows, and what the    *)
(* pages and watchers that read it are promised.  Who changes the rows and *)
(* the copy, and when, is the subject of SyncWorker.                       *)
(***************************************************************************)
CONSTANTS
  Nothing    \* no change that is still to be announced

VARIABLES
  rows,      \* accounts with a row
  known,     \* state.accounts
  loader,    \* the list_accounts call of the account loader
  linked,    \* account whose row the auth task has inserted, not yet announced
  removed,   \* removal of the settings page that is still to be announced
  stale      \* history: rows changed, or a load failed, and no bump has followed

\* Nothing is under way that will change the copy of the accounts.
Settled == loader = "idle" /\ linked = Nothing /\ removed = Nothing /\ ~stale

\* When everything has been announced and loaded, the accounts the program shows
\* and polls are the rows (main.rs, the account loader).
AccountsShown == Settled => known = rows
=============================================================================
