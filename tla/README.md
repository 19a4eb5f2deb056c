# Fumiko in TLA+

Fumiko is a desktop mail client (Rust, Dioxus) that mirrors Gmail, Outlook and
IMAP inboxes into SQLite and has a local language model match incoming mail
against the user's criteria. This directory holds TLA+ models of the parts of
it whose correctness depends on order, failure and concurrency, the TLC
configurations that check them, and TLAPS proofs.

## Inventory

| Part | State | Operations | Interacts with |
|---|---|---|---|
| Sync pass (`email_core/src/sync_page.rs`) | nothing of its own between passes; in a pass the account row it read, the page, the loops, `fetch_errors_occurred`, `newly_saved` | discovery, hydration, server-side changes, cursor write, classification, purge | providers (HTTP/IMAP), SQLite, keyring, classifier, progress channel |
| Providers (`email_core/src/email_providers`) | none; cursors are opaque strings in SQLite | `initial_sync`, `incremental_sync`, `fetch_message_metadata`, `fetch_full_message` | mail servers |
| Store (`storage/src`) | SQLite tables `linked_accounts`, `emails`, `watch_criteria`, `classifications`, `settings` | one statement each, few transactions | every other part |
| Secrets (`storage/src/secrets`) | OS keyring entries per account and per OAuth client | get, set, delete | linking, token refresh, unlinking, wipe |
| Linking (`email_core/src/linking.rs`) and OAuth (`oauth/src`) | a loopback listener, an authorization in flight, token sets | link, cancel, refresh, revoke | browser, token endpoint, keyring, SQLite |
| Application shell (`app/src/main.rs`, `tray.rs`) | worker queues, the child process of the model server, `is_syncing`, `pending_navigation` | sync worker, auth worker, account watchers, AI supervisor, tray | all of the above |
| Local AI (`local_ai/src`) | model files, the server process | download, delete, start, stop, classify | supervisor, settings, classifier |
| Mail pages (`app/src/routes/{dashboard,inbox,findings,trash}.rs`) | a query's answer, filters, `selected_account` | trash, restore, delete, clear, switch a criterion | store; `refresh_trigger` and `sync_tick`, bumped by whoever changes rows |
| Settings page (`app/src/routes/settings`) | signals loaded once, jobs of its clicks | select, download and delete models, edit criteria and retention, link, unlink, wipe | supervisor, auth worker, store |

What is hard about each, and what makes it correct:

* **Sync pass.** It works on a copy of the account row while the user and the
  server go on, every call may fail, and the process may die between two
  statements. *Correct* means: the recorded cursor never hides mail that was
  not stored; a replayed page does not undo newer decisions; deletions and mail
  arrive in the end; foreign keys hold.
* **Providers.** A page is put together from several requests while the
  mailbox changes; identifiers may be reassigned (IMAP UIDVALIDITY). *Correct*
  means: a page with cursor `n` names everything up to `n`.
* **Linking, unlinking, secrets.** A keyring and a database without a common
  transaction. *Correct* means: a secret exists exactly as long as its account.
* **OAuth loopback.** A blocking thread that outlives the task that started it,
  a browser tab that outlives both, and ports that are given out again.
  *Correct* means: the code that is exchanged is one's own, and every listener ends.
* **Sync worker, watchers.** One queue serves every mailbox; the copy of the
  accounts that decides what is polled is brought up to date by announcements
  that a dropped task never makes. *Correct* means: every account is polled, and
  no account that has gone is.
* **Trash retention.** Four places delete for good by a setting that they read
  in one step and use in another. *Correct* means: nothing is deleted early, and
  what has expired goes.
* **Mail pages.** Buttons act on rows as they were last rendered. *Correct*
  means: a page is never silently out of date, and a button does no more than it says.
* **AI supervisor.** Commands queue behind awaits; a mutex is shared with the
  tray's event handler. *Correct* means: commands take effect in the order
  given, the server follows the settings, and Quit always ends the program.
* **Model download.** Gigabytes arrive in chunks under a page that may be left.
  *Correct* means: a file under a model's own name is whole.
* **Classification and criteria.** Four concurrent tasks share a budget of three
  full-body fetches over a snapshot of a table the user edits and a start seeds.
  *Correct* means: the budget is kept, findings belong to active criteria, and
  what the user deleted stays deleted.

How the modules share the system: each models one part in detail and takes
from its neighbours what they do to its own state.

| What | In detail in | Elsewhere |
|---|---|---|
| a sync pass | `MailboxSync` | one step per account in `SyncWorker`; any change of rows in `MailViews` |
| an account's row and secret | `AccountLifecycle` | the row alone in `SyncWorker`, an unlinking in `MailboxSync` |
| an authorization | `Authorization` | one step in `AccountLifecycle` |
| the tasks that ask the model | `Classification` | one step per message in `MailboxSync` |
| the purge of the trash | `TrashRetention` | a deletion in `MailboxSync` and `MailViews` |
| a model's file | `ModelDownload` | arrives complete in `AiSupervisor` |

## Modules

For every component `X` there is `XMC`, which gives TLC its symmetry sets and
function-valued constants, a `.cfg` per run, and `XProofs` with the theorems;
`AccountProofs` holds those of `AccountLifecycle` and of `SyncWorker`. An operator named in a comment `Mutant:` is a
plausible bug next to the definition it would replace; nothing refers to it
except the record of the mutants in `PROJECT.json`. Variables marked
*history* exist for the properties (`registered` of `ModelDownload` also stands for what
Ollama's stream reports).

### MailboxSync: one account and the pass that mirrors it

The server numbers its changes; a cursor is the number of the last change it
covers. `at[op][m]` is the number of the latest change of kind `op` of message
`m`, which is all a discovery page can tell apart. `box[m]` is where the message
is, and `Retrievable(m)` whether a fetch by its id finds it (Gmail keeps ids in
trash, Graph and IMAP do not). `provider` is chosen at the start and never changes.

`pc` walks through `sync_one_account_inner`: discover, (baseline, profile,) fetch,
save, trash, restore, delete, commit, gate, classify, purge, purge findings. One action is one
call that commits something or reads the server: `SaveEmail(m)` is one
`save_email`, `UpdateCursor` the cursor write; the purge is two statements, each committed by itself (`PurgeInbox`,
`PurgeFindings`), and the user may act in between. `held` is the copy of
`sync_cursor` the pass read at its start, and nothing else of the account row is
read again, as in the code. Gmail's baseline is two requests: `ListInbox` lists the
inbox, and `ReadHistoryId` asks for the position to record; the server goes on in
between. What arrives there is in neither, and the position covers it: it is kept
in `slipped`. `fetch_message_metadata` returns after every id has been asked for,
so `FetchMetadata` is one step with any subset of ids failing. `Fail` is any `?`;
`Crash` ends the pass without recording anything. The user trashes, restores,
deletes, clears findings and unlinks the account at any moment.

Abstractions: message content, flags of the mail, progress and logging are left
out. A discovery other than Gmail's baseline is one read of the server. The
order of Graph's folder listing is arbitrary (`Listings`). Message ids are never
reused. A provider that never answers 401 (IMAP) has fewer behaviours than the
model gives it.

### CursorContract: what a cursor promises

Five actions: mail is received, touched, delivered to the store, acknowledged
by recording a position, or the position is forgotten. A position may be
acknowledged only when everything up to it that can still be fetched is
delivered or excused. `MailboxSync` implements it under the substitution at the
end of that module (`ImplementsCursorContract`); what is excused are the messages a
baseline left out by its limit, those that slipped between its two requests, and those
whose error is misread as a 404.

### SyncWorker and AccountList: commands, watchers and the copy of the accounts

`AccountList` has the rows, their copy and what says whether the two must agree
(`AccountsShown`); `SyncWorker` extends it by everybody who changes them.
`rows` are the linked accounts, `known` is `state.accounts`, which the loader
(`loader`, `snap`) reads in one step and stores in a later one whenever
`refresh_trigger` is bumped, and `watchers` the polling tasks the effect over
`known` starts and cancels. `queue`, `pc` and `todo` are the sync worker. `linked`
and `removed` are changes whose row is written and whose announcement is a later
step of a task that may be cancelled or dropped with its page; `stale` remembers
one that never came. A pass is one step per account, with whatever result.

### AccountLifecycle: a row, a secret, and no common transaction

`row[i]` is the `linked_accounts` row of id `i`, `vault` the ids with a keyring
entry. `linking` follows the one task of the auth worker through
`link_account_with_config` and `link_imap_account`: authorize, insert, save, rollback.
`unlinking` holds the ids whose `delete_account` has deleted the secret and awaits its
DELETE; `wiping` and `listed` follow `wipe_all_data`; `reading` and `asked` are the tasks in
`get_access_token_for_account` (the sync worker and the reading pane).

An action runs from one await to the next: keyring calls are synchronous, so
`SaveSecret` and what follows it are one step, while another task may run
between `InsertRow` and `SaveSecret`. `CancelLink`, `StartLink`, `LeaveSettings` and `Crash` drop tasks
at their awaits. A statement a dropped task has sent is taken to have run
before the drop, or never.

`late` names the secrets stored when the removal of their account had begun
(`Leaving`): the code has no way to notice, and the exception is as narrow as it
can be. `kept` names the accounts nobody asked to remove.

Abstractions: a secret has no value, so the order of two rotations is not seen;
a provider may rotate any token; display names and the developer credentials
are left out.

### Authorization: from the button to the row

`isLinking` and `queue` are the Add Account page and the auth worker's channel;
`attempt`, `provider`, `phase`, `keyId`, `pair` and `code` the one task the worker
keeps, from the client id it reads to the registration. Each attempt has a
listener of its own, a thread in `accept()`: `listener`, `port`, `backlog` (connections
that wait), `conn` (the one being served), `cancelled` (the flag) and `answer`. `tabs`
are consent pages, which redirect to their port whoever listens there by then.
`DropTask` is the drop of a future together with its `ListenerGuard`. `clientId`,
`clientSecret`, `saving` and `removing` are the keys a user brings along, in two
stores written one after the other. A listener ends by itself only when `accept()` fails
(`AcceptFails`), which closes it with a failure for its task. HTTP is reduced to the kinds of request the
thread tells apart.

### TrashRetention: a setting and four purges

A message is in the inbox, gone, or in the trash with an age in days. `setting`
is the row; `field`, `load`, `found`, `writing` and `purging` the editor, whose saves are
tasks of their own; `shown` and `pagePurge` the Trash page, whose purge goes by
the value it was last rendered with; `retention` what the worker, or `sync_all`, has
read. `shortest` and `clash` are history. Every purge deletes all that is at least
as old as the value it has; trashing a trashed message again starts its age anew.

The editor's read may fail: the field then stays at the default, whatever is saved, and nothing
tells the user. A wipe deletes the setting while the page is still shown. `clash` records both,
a write that failed, and calls of the editor that overlapped; it does so until the next save
made while nothing else of the editor is under way, or until the page is left.
`FieldShowsSetting` excepts the time in between, and so claims also that such a save repairs
the field.

### MailViews: four pages over the same tables

`box` and `found` are the rows of `emails` and `classifications`, `labelOf` the
labels of the criteria. A page is a route, a query (`query`) and what it shows
(`shown`); `owed` says who has changed rows and not announced it yet, `stale` that
somebody never will. Buttons act on entries of `shown`, whatever the tables hold
by then. Capacities, the search field and the reading pane are left out.

### Classification: criteria, cards and a pass of concurrent tasks

`rows`, `active` and `ownLabel` are `watch_criteria`, `tombstone` the flag of the
seeding, which `boot` and `nextDefault` follow insert by insert. One dashboard card at
a time is followed (`card`, with its statements in `writes`, and in `adrift` those of a
dashboard that was left). A pass has a `snapshot`, and a `stage` per message; at most
`Slots` are between their two ends. A label is a name and a spelling, because the
back ends trim an answer and compare without case, and the guard before the save
compares exactly (`Canonical`, `Accept`). The model's answer is any criterion or none.

`Wipe` is the part of `wipe_all_data` that concerns the criteria: rows, findings and the flag
of the seeding go together, and the next start seeds all defaults anew, those the user had
deleted before the wipe too. `settled` says that a start has completed the seeding, or found
its flag, since the last wipe; `DeletedStaysDeleted` speaks of such states only.

### ModelDownload: files, chunks and pulls

Each running download has a slot: `job`, `stage`, `pos` and `handle`, the file it has
open. `parts` and `files` are the names on the disk, `got` and `whole` their chunks; a rename
takes open handles along, as on Unix. `downloading` is the one signal all downloads
share. The Ollama half has the daemon, its registry, the page's list of it, and a pull per
model. The two lists share nothing but the page, so a behaviour shows one of them.

### AiSupervisor: the model server and everybody who wants something of it

`sup` is where the supervisor task of `main.rs` stands: reading the two settings
(`boot`, `bootModel`), in `recv().await`, or asleep in the 200 ms after it killed
a server (`killing`). The registry `ACTIVE_CHILD_PROCESS` is `child` (the model of the
registered `Child`) and `childUp` (that process lives); `owner` says the
supervisor holds the registry's mutex, which it does across that sleep. `stray`
counts live server processes nobody can kill any more.

The settings page is `screen` (its `use_resource` reads the backend, then the
model; a setting that is absent leaves its signal as it was), `shown` (the signals `active_backend` and `active_model`) and `jobs`. A
click runs to its first await in one step: it changes the signals, sends
commands on `queue` and spawns a job. `jobs[i]` lists what the job still awaits,
one statement per step, and the jobs of different clicks interleave. Leaving the
page drops them all, because a Dioxus task lives in the scope that spawned it.
Each statement may fail; the code ignores it (`let _ =`).

All tasks run on the thread of the event loop, so each of their actions has `ui = "running"`
as a guard; `Quit` while `owner` holds blocks that thread (`ui = "blocked"`).

`manner` is chosen at the start. The patient user lets every click finish before the
next, leaves the page only when nothing is pending, does not click before the
supervisor has read the settings, and meets no failure. The code does not enforce that, so
what the patient user is promised (`ServerFollowsSettings`, `PageShowsSettings`,
`OrphanProtection`, `SettingsTakeEffect`) is not claimed for the hasty one, for whom
`NoStrayServer` and `ServerFollowsCommands` hold regardless.

Abstractions: health polling (it sets an indicator), the download in progress
(it arrives as a complete file), the Ollama service (a list of names; uninstall
may fail), the port. `deleted` and `last` are history variables.

## Runs

| Run | Bounds | Shows |
|---|---|---|
| `mailbox_gmail` | 2 messages, 4 changes on the server, 2 faults | the cursor hides nothing (`SafeCursor`), never moves back, and keeps its contract; rows and findings stay together; a replay applies only news |
| `mailbox_folders` | IMAP and Outlook: 2 messages, 4 changes, 1 fault | the cursor hides nothing there either, with listings in any order, flag changes, and messages that leave between search and fetch |
| `mailbox_liveness` | Gmail: 2 messages, 3 changes, 1 fault | mail and deletions arrive in the end |
| `sync_worker` | 2 accounts, 1 failing read | the account list and its watchers follow the table; every account that stays is polled for ever |
| `account_secrets` | 2 ids, 2 addresses, 2 readers, 2 faults | no secret without its row; nobody's account is taken apart by another's attempt |
| `authorization` | 2 attempts, 2 ports, 2 key pairs, 1 edit, 1 waiting connection | own codes only, listeners woken and ended, keys that belong together |
| `retention` | 1 message, default of 1 day, at most 2, ages up to 3 | no early purge, the editor's field, expiry in the end |
| `views` | 2 accounts with 1 message each, 2 criteria, 2 labels | pages show the tables or are known to be out of date; a clear takes no finding of another label |
| `classification` | 2 defaults and one criterion of the user's, 3 messages, 2 slots, budget 1, 2 faults | budget, progress, active criteria only, cards, deleted defaults |
| `model_download` | 2 built-in models, 2 of Ollama, 3 chunks, 2 downloads at a time | types; whole files, the row shown, no pull reported that is not complete, no signal stuck |
| `ai_supervisor` | 2 built-in models, 1 of Ollama; 4 clicks of a patient user, or 2 of a hasty one with 1 fault | one server at most; the last command decides; settings, page, server and files agree; the settings take effect |
| `ai_quit` | patient user, 2 clicks | *violated*: Quit blocks on the registry's mutex |

**Bounds.** Constants named `Max...` and the guards marked *Bound* in the modules
restrict the model only.

* *Mailboxes.* Four changes allow arrival, trash, restoring and deletion of one
  message, or two arrivals with a change each, all before, inside or after a
  pass. One fault is enough for a replay after a partial failure, two for a
  failed recovery (expiry followed by a crash, a 401 twice). Limits of 1
  make the baseline leave mail out and the purge delete rows. Two messages
  distinguish a failed from a successful fetch in one page, and the listed from
  the omitted one in a baseline. `Misread` is empty in the runs: SafeCursor with
  a misread message is covered by its proof.
* *Accounts.* Two ids let one account collide with an attempt to link the same
  address, and one be removed while the other is linked; two readers refresh
  the same account at once; two faults are a failure and the failure of its recovery.
* *Authorization.* A second attempt is needed for a tab left over, a second port
  for two listeners at once; one port is enough for reuse and occurs too. One
  edit next to keys kept from an earlier run makes the two stores differ.
* *SyncWorker.* Two accounts: one goes while the other is visited or waits.
  Equal commands are not queued twice, as they would only repeat a pass.
* *TrashRetention.* One message: the purges treat messages independently.
  Retentions below and above the default, and an age beyond the largest. Overlaps, failures
  and wipes are not bounded.
* *MailViews.* Two accounts and two labels for the two filters; two criteria
  which may share a label.
* *Classification.* Three messages on two slots make a task wait for a slot, and
  a budget of one makes two concurrent tasks compete for it. Two faults are a
  start that breaks off and the crash of the next one.
* *ModelDownload.* Two downloads of one model, or of two; three chunks let one
  overtake the other in the middle of a file.
* *AiSupervisor.* Two clicks make two jobs interleave and put two commands in
  the channel; four let a patient user select, switch, delete and wipe. Two
  models are needed to replace one server by another.

Deadlock is not checked for `MailboxSync`, where an unlinked account with its changes
used up has nothing left to do, nor for `AiSupervisor`, whose program ends. Everywhere
else TLC checks it.

**Fairness.**

* `MailboxSync`: weak fairness of `SyncStep`. The watchers of `main.rs` send a command
  every 60 seconds for ever, and the worker runs what it receives. Nothing is
  assumed of the server, the user, or faults, which are bounded: the
  properties say what happens once failures stop.
* `SyncWorker`: the worker, the loader, the effect, announcements and each watcher's timer
  are weakly fair. `LoaderDone` is strongly fair, because a bump drops the
  loader's call, and reading a few rows takes less time than a pass.
* `Authorization`: the listener threads and the 120-second timer. Users, tabs and the
  token endpoint owe nothing, and `accept()` need not fail.
* `TrashRetention`: the worker comes round; of its rounds some read the setting and
  purge by what they have read (strong fairness: a call that fails every time is
  excluded, one that fails any number of times is not).
* `MailViews`: passes end and handlers that are not dropped run on; `Answer` is strongly fair,
  because bumps restart a query and a query may fail.
* `ModelDownload`: requests are answered or broken off; the jobs of a page are polled.
* `AiSupervisor`: the supervisor, the jobs as a whole and the page's two reads are tasks
  of one event loop, which polls whatever can go on as long as it is not blocked.
  Clicks, quitting and failures are never owed.

A call that never returns is outside all of these.

## Proofs

Every theorem holds for all values of the constants that satisfy the named assumption of
its module (`ConstantsOK` and the like: finite sets where the code counts, natural numbers
for bounds, distinct model values). Every proof module proves type correctness
(`TypeCorrect`, `WorkerTypeCorrect`), which only the run of `ModelDownload` checks besides.
All invariants and action properties of the passing runs are proved.

**MailboxSyncProofs.**

* `SafeCursorHolds`. `SafeCursor` is not inductive: at the cursor write it needs to know
  what the pass did since discovery. `SyncInv` adds `ServerInv` (what the mailbox
  guarantees), `CursorInv` (the recorded cursor, and the copy in `held`, settle
  everything up to them), `PageInv` (every message due by the page's position and not
  settled by `held` is in the page, or left out or missed by a baseline) and `HydrationInv`
  (after fetching without errors, each such message is saved, to be saved, or
  misread). One lemma per group of actions shows that `SyncInv` is kept.
* `DocumentedCursorHolds`: with `Misread = {}`, the invariant without the exception for a
  misread error.
* `CursorNeverRegressesHolds`: only `UpdateCursor` records a position, and `SyncInv` bounds the
  old one by the page's.
* `ContractHolds`: the refinement of `CursorContract`. The initial states map to its initial
  states; each action maps to one of its actions or to a stutter, with `SyncInv` for the
  acknowledgement.
* `ReferentialIntegrityHolds`: by itself inductive; the work is in the purge and in the
  statements of a pass under an account that goes.
* `OnlyNewsIsAppliedHolds`: `NewsInv` says that an incremental page asks only for what
  changed after `held`, and that the loops hold nothing else; `CursorInv` has the recorded
  cursor at or below `held` while a pass runs.

**AccountProofs.** `NoOrphanSecretHolds`: the strengthening `SecretInv` says of every
secret that is not late that the removal of its account has not begun; that a row still
exists says nothing about a DELETE already on its way. `AccountsPersistHolds`: `KeptInv`
adds that a kept account is not the candidate of the running link and that none is kept
while a wipe runs.
`AccountsShownHolds`, of `SyncWorker` over the same ids: `known = rows` once all is announced
and loaded. The strengthening `LoadedIsCurrent` says what the loader's answer is worth: if
nothing is owed, a snapshot that was read is the table, and so is the copy when no load is
under way. `SyncWorker` is instantiated there, so what it assumes of its constants is a
hypothesis of its two theorems.

**AuthorizationProofs.** `StoppedListenersAreWokenHolds`, `CodeIsOwnHolds` and `LinkingShownHolds`
from one invariant, `AttemptInv`: besides the three properties it says that an attempt that has
not got to its listener has none, and that an answer comes from a listener that has ended.
`KeysBelongTogetherHolds`: `PairInv` says what the two stores and the id an attempt has read
may hold while a save is under way.

**TrashRetentionProofs.** `NoEarlyPurgeHolds`: every value that a purge may go by - the editor's,
the page's, the worker's - is at least the shortest retention in force, or the default.
`FieldShowsSettingHolds`: `EditorInv` follows the editor through its read and its one save: a
read that is under way has seen the row as it is, and the value being written is the one the
field shows. Overlaps, failures and a wipe set `clash`; nothing is claimed from there to the next
save that is made alone, which clears it, and after which the field shows the setting again.

**MailViewsProofs.** `ShownIsStoredHolds`: inductive with the types; every action that changes
a table owes a bump, marks the page stale, or bumps. `ClearsOnlyTheCategoryHolds` needs no
invariant: the criterion of a clear comes from an entry that the label filter lets through,
and the account filter is applied to the rows that go.

**ClassificationProofs.** `BudgetKeptHolds` (`Cardinality(fetched) + budget <= Budget`),
`ProgressCompletesHolds` (`completed` counts the tasks that are done, and lemma `GuardFinds`: a
label the back ends let through is found again by the exact guard, so no task is dropped),
`CardShowsStoreHolds` (`CardInv`: a card that is not muddled has at most the statement of its
last click under way), `OnlyActiveMatchedHolds` and `DeletedStaysDeletedHolds` (`SeedInv`: since the last wipe, a
settled seeding has its flag in the table and no start inserts anything).

**AiSupervisorProofs.** `NoStrayServerHolds`: while the supervisor sleeps with the mutex held
the registry is empty, so the process it registers on waking replaces none.
`ServerFollowsCommandsHolds`: `CommandInv` relates `last` to the channel: it is the channel's
last element if there is one, and otherwise the command that was taken last,
which the task either holds in `arg` or has carried out.
`OrphanProtectionHolds`, `PageShowsSettingsHolds` and `ServerFollowsSettingsHolds`, for the
patient user: none of the three is inductive, since the promise is broken between a click and
its last write. `PageInv` says that at most one job is left, lists the six forms it can have
(`Pending`), and says of each what its remaining statements will make of the settings: those
the signals show, for which the right command has been sent (`Asked`). `QuietInv` is what
holds with no job left, also while the page loads. `StoppedInv` completes `CommandInv`: with
the channel drained, nothing is registered only after a stop. From the two the server follows
the settings.

**ModelDownloadProofs.** One invariant, `DiskInv`. Two downloads of a model have overlapped
(`AloneInv`); one that has its model for itself (`Sole`) finds no file under the model's name,
writes to the `.part` file, and that file holds the chunks it has written (`SoleInv`). Hence
what the rename puts in place is whole (`InstalledIsWholeHolds`), and the removal before it
finds nothing to remove (`DownloadKeepsModelsHolds`). `DownloadShownHolds`: `RowInv` adds that
without a crowd at most one download runs. `PullHonestHolds`: `PullInv`, a success line that
was read means the model is registered.

**Only model-checked.** Liveness under fairness (`MailIsStoredInTheEnd`, `DeletionsArrive`,
`GhostsVanish`, `MailboxPolled`, `ListenersEnd`, `ExpiredIsPurged`, `ShownInTheEnd`,
`PageSettles`, `SettingsTakeEffect`, `QuitTerminates`), which the prover does not do.

## Findings

* `ai_quit`: the guard of `main.rs:535` is held across a 200 ms sleep; the tray's handler
  locks the same `std::sync::Mutex` on the same thread and never gets it.

Disagreements between code and documents met while modelling, without a run of their own.
The models do what the code does; where a property would be false because of it, the
property names the exception.

* *Misread 404.* `is_not_found_error` (`sync_page.rs:618`) searches the error text for "404".
  The text of a transport error contains the URL and so the message id. `email_core/src/lib.rs:10`
  and `docs/email_core.md:134` say the cursor never advances on a partial failure
  (`Misread` in `SafeCursor`).
* *Gmail's baseline.* `gmail/mod.rs:231` reads the historyId after the inbox was listed: mail that
  arrives in between is in neither, and the recorded position covers it (`slipped`).
* *Taken-back mail.* `mark_untrashed` (`email.rs:186`) does nothing without a local row, and a
  restored id is not fetched; `docs/email_core.md:32`: "restores the message locally"
  (`TakenBackIsStored` states it and is not claimed).
* *Stored, never classified.* Classification (`sync_page.rs:344`) looks only at rows this pass
  saved; after a crash or an error in between no later pass does, while
  `docs/email_core.md:117` says every incoming email is evaluated.
* *Rollback.* `link_*_account` (`linking.rs:80`) rolls back with `delete_account`, which begins
  with a keyring call. A keyring that is down refuses that too, and the row stays;
  `docs/email_core.md:68` says it is rolled back (`FailedLinkIsRolledBack`, not claimed).
* *Late secret.* A refresh that is under way when its account is unlinked or wiped stores the
  rotated token afterwards (`tokens.rs:152`), an entry no row names any more: the
  exception `late` in `NoOrphanSecret`.
* *Purge by default.* The Trash page purges by the default before the setting is read, and a
  read that fails counts as the default (`trash.rs:41`, `main.rs:276`), while the page promises
  the saved number of days (`trash.rs:59`; `PurgeRespectsRetention`, not claimed).
* *Overlapping downloads.* The button of a running download comes back when another starts;
  two downloads of one model share its `.part` file (`downloader.rs:78`), and the file under the
  model's name may be incomplete, which `downloader.rs:43` and `docs/local_ai.md:43` exclude
  (`overlapped`).
* *Half-seeded.* If seeding breaks off before its flag is set and the user deletes what was
  inserted, the next start seeds everything (`criteria.rs:18`); the comment at
  `criteria.rs:12` says deletions are respected (`settled` in `DeletedStaysDeleted`). A wipe
  has the same effect (`accounts.rs:232`), which for a wipe of everything may be meant.
* *Unread retention.* The editor's read of the setting ignores an error
  (`trash_retention.rs:29`) and leaves the default in the field, as if it were in force
  (`clash` in `FieldShowsSetting`).
* *Labels.* A label typed with blanks around it is stored so and never matched; two criteria may
  share a label, and Clear Category then clears one of them.
* *Start of the server.* The start-up launches the server for whatever name the setting holds
  (`main.rs:528`), although `docs/app.md:97` says it looks for the file and for a running
  server first.
* *Deleting before loading.* `delete_builtin` (`ai_selection.rs:147`) decides by the page's signals
  whether the deleted model is the active one; before they are loaded it leaves
  `ACTIVE_AI_MODEL_ID` naming a deleted file (hence `manner` in `OrphanProtection`).

## Not modelled

* What several requests of one discovery see, except Gmail's baseline: paging within a
  listing, and UIDVALIDITY changes that reassign uids to other messages.
* The order in which two refreshes of one account store their rotated tokens: secrets have
  no versions.
* Calls that never return, and with them everything about progress behind them.
* Overflow of an IMAP uid (a `u32`) past the highest: positions are unbounded numbers.
* The fate of `.part` files of abandoned downloads, and files held open on Windows.
* The reading pane, paging and search of the pages; texts, status lines and progress
  percentages.
* Message parsing and HTML sanitising, the updater's one request, styling and logging: pure
  conversions or nothing that interleaves.
