--------------------------- MODULE AccountLifecycle ---------------------------
(***************************************************************************)
(* The two halves of a linked account, its linked_accounts row and its     *)
(* secret in the OS keyring, which share no transaction: linking           *)
(* (email_core/src/linking.rs) run by the auth worker of main.rs,          *)
(* delete_account and wipe_all_data (storage/src/accounts.rs), and the     *)
(* token refresh (oauth/src/tokens.rs), all of them tasks that give the    *)
(* thread up at each await.                                                *)
(*                                                                         *)
(* An action runs from the answer of one await to the next await.  Keyring *)
(* calls are synchronous.  A statement a dropped task has already sent     *)
(* either counts as executed before the drop or is not executed.           *)
(***************************************************************************)
EXTENDS Integers, FiniteSets

CONSTANTS
  Ids,        \* account ids; a UUIDv7 is never generated twice
  Addresses,  \* mail addresses
  Readers,    \* tasks that ask for access tokens: the sync worker, the reading pane
  None,
  MaxFaults   \* bound: failed keyring calls and statements, crashes

ASSUME AccountConstantsOK ==
  /\ None \notin Ids \cup Addresses \cup Readers
  /\ MaxFaults \in Nat

VARIABLES
  row,        \* row[i]: email_address of the row of i, or None
  vault,      \* ids with an entry in the keyring
  used,       \* ids generated so far
  linking,    \* where the one linking task is
  applicant,  \* the address it links
  candidate,  \* the id it gave the account
  unlinking,  \* ids whose delete_account awaits its DELETE
  wiping,     \* where wipe_all_data is
  listed,     \* the accounts it listed
  reading,    \* reading[r]: the account whose token r asks for
  asked,      \* readers waiting for the token endpoint
  refused,    \* history: ids whose secret the keyring refused when they were linked
  late,       \* history: secrets stored when the removal of their account had begun
  kept,       \* history: accounts linked and since then never asked to be removed
  faults

link    == <<linking, applicant, candidate, used>>
removal == <<unlinking, wiping, listed>>
refresh == <<reading, asked>>
vars == <<row, vault, link, removal, refresh, refused, late, kept, faults>>

TypeOK ==
  /\ row \in [Ids -> Addresses \cup {None}]
  /\ vault \subseteq Ids /\ used \subseteq Ids
  /\ linking \in {"idle", "authorize", "insert", "save", "rollback"}
  /\ applicant \in Addresses \cup {None}
  /\ linking # "idle" => applicant # None
  /\ candidate \in IF linking \in {"idle", "authorize"} THEN {None} ELSE used
  /\ unlinking \subseteq Ids /\ listed \subseteq Ids
  /\ wiping \in {"idle", "secrets", "rows"}
  /\ reading \in [Readers -> Ids \cup {None}]
  /\ asked \subseteq {r \in Readers : reading[r] # None}
  /\ refused \subseteq Ids /\ late \subseteq vault /\ kept \subseteq Ids
  /\ faults \in Nat

Init ==
  /\ row = [i \in Ids |-> None] /\ vault = {} /\ used = {}
  /\ linking = "idle" /\ applicant = None /\ candidate = None
  /\ unlinking = {} /\ wiping = "idle" /\ listed = {}
  /\ reading = [r \in Readers |-> None] /\ asked = {}
  /\ refused = {} /\ late = {} /\ kept = {}
  /\ faults = 0

Fault == faults < MaxFaults /\ faults' = faults + 1
Linked == {i \in Ids : row[i] # None}
Without(ids) == [i \in Ids |-> IF i \in ids THEN None ELSE row[i]]

\* The row of i is gone, or will go without another look at the keyring.
Leaving(i) ==
  \/ i \notin Linked
  \/ i \in unlinking
  \/ wiping = "rows"
  \/ wiping = "secrets" /\ i \notin listed
  \/ linking = "rollback" /\ candidate = i

\* save_account_secret and delete_account_secret, when they succeed.
Store(i) ==
  /\ vault' = vault \cup {i}
  /\ late' = IF Leaving(i) THEN late \cup {i} ELSE late
Forget(ids) == vault' = vault \ ids /\ late' = late \ ids

-----------------------------------------------------------------------------
(* Linking.                                                                *)

EndLink == linking' = "idle" /\ candidate' = None /\ UNCHANGED applicant

\* AuthCommand::Start and StartImap cancel the task that is under way.
StartLink(a) ==
  /\ linking' = "authorize" /\ applicant' = a /\ candidate' = None
  /\ UNCHANGED <<row, vault, used, removal, refresh, refused, late, kept, faults>>

CancelLink ==
  /\ linking # "idle" /\ EndLink
  /\ UNCHANGED <<row, vault, used, removal, refresh, refused, late, kept, faults>>

\* The browser flow and get_profile, or the IMAP login.
Authorize ==
  /\ linking = "authorize"
  /\ \/ \E i \in Ids \ used :
          linking' = "insert" /\ candidate' = i /\ used' = used \cup {i} /\ UNCHANGED applicant
     \/ EndLink /\ UNCHANGED used
  /\ UNCHANGED <<row, vault, removal, refresh, refused, late, kept, faults>>

\* Mutant: INSERT OR REPLACE.
InsertReplacing ==
  /\ linking = "insert" /\ linking' = "save"
  /\ row' = [i \in Ids |-> IF i = candidate THEN applicant
                           ELSE IF row[i] = applicant THEN None ELSE row[i]]
  /\ UNCHANGED <<vault, applicant, candidate, used, removal, refresh, refused, late, kept, faults>>

\* add_account: an address that is linked already is a conflict.
InsertRow ==
  /\ linking = "insert"
  /\ \/ /\ \A i \in Ids : row[i] # applicant
        /\ row' = [row EXCEPT ![candidate] = applicant]
        /\ linking' = "save" /\ UNCHANGED <<applicant, candidate, faults>>
     \/ /\ \E i \in Ids : row[i] = applicant
        /\ EndLink /\ UNCHANGED <<row, faults>>
     \/ Fault /\ EndLink /\ UNCHANGED row
  /\ UNCHANGED <<vault, used, removal, refresh, refused, late, kept>>

SaveSecret ==
  /\ linking = "save" /\ EndLink /\ Store(candidate)
  /\ kept' = IF Leaving(candidate) \/ wiping # "idle" THEN kept ELSE kept \cup {candidate}
  /\ UNCHANGED <<row, used, removal, refresh, refused, faults>>

\* The keyring refuses the secret, and delete_account begins with another
\* keyring call, whose failure leaves the row.
RefuseSecret ==
  /\ linking = "save"
  /\ refused' = refused \cup {candidate}
  /\ \/ /\ Fault /\ linking' = "rollback" /\ Forget({candidate})
        /\ UNCHANGED <<applicant, candidate>>
     \/ /\ faults + 1 < MaxFaults /\ faults' = faults + 2 /\ EndLink
        /\ UNCHANGED <<vault, late>>
  /\ UNCHANGED <<row, used, removal, refresh, kept>>

RollbackRow ==
  /\ linking = "rollback" /\ EndLink
  /\ \/ row' = Without({candidate}) /\ UNCHANGED faults
     \/ Fault /\ UNCHANGED row
  /\ UNCHANGED <<vault, used, removal, refresh, refused, late, kept>>

LinkStep ==
  \/ \E a \in Addresses : StartLink(a)
  \/ CancelLink \/ Authorize \/ InsertRow \/ SaveSecret \/ RefuseSecret \/ RollbackRow

-----------------------------------------------------------------------------
(* Removal.                                                                *)

\* Mutant: the keyring's failure is ignored.
UnlinkHeedless(i) ==
  /\ i \in Linked
  /\ unlinking' = unlinking \cup {i} /\ kept' = kept \ {i}
  /\ \/ Forget({i}) /\ UNCHANGED faults
     \/ Fault /\ UNCHANGED <<vault, late>>
  /\ UNCHANGED <<row, link, wiping, listed, refresh, refused>>

\* delete_account up to its await.
UnlinkSecret(i) ==
  /\ i \in Linked
  /\ kept' = kept \ {i}
  /\ \/ Forget({i}) /\ unlinking' = unlinking \cup {i} /\ UNCHANGED faults
     \/ Fault /\ UNCHANGED <<vault, late, unlinking>>
  /\ UNCHANGED <<row, link, wiping, listed, refresh, refused>>

UnlinkRow(i) ==
  /\ i \in unlinking /\ unlinking' = unlinking \ {i}
  /\ \/ row' = Without({i}) /\ UNCHANGED faults
     \/ Fault /\ UNCHANGED row
  /\ UNCHANGED <<vault, link, wiping, listed, refresh, refused, late, kept>>

\* wipe_all_data: list_accounts, then every secret, then the transaction.
ListAccounts ==
  /\ wiping = "idle" /\ wiping' = "secrets" /\ listed' = Linked /\ kept' = {}
  /\ UNCHANGED <<row, vault, link, unlinking, refresh, refused, late, faults>>

\* The first failure ends the wipe; the secrets before it are gone.
DeleteSecrets ==
  /\ wiping = "secrets"
  /\ \/ Forget(listed) /\ wiping' = "rows" /\ UNCHANGED faults
     \/ \E done \in SUBSET listed : done # listed /\ Forget(done) /\ Fault /\ wiping' = "idle"
  /\ UNCHANGED <<row, link, unlinking, listed, refresh, refused, kept>>

DeleteRows ==
  /\ wiping = "rows" /\ wiping' = "idle"
  /\ \/ row' = Without(Ids) /\ UNCHANGED faults
     \/ Fault /\ UNCHANGED row
  /\ UNCHANGED <<vault, link, unlinking, listed, refresh, refused, late, kept>>

\* The settings page is unmounted; it takes its tasks along.
LeaveSettings ==
  /\ unlinking' = {} /\ wiping' = "idle"
  /\ UNCHANGED <<row, vault, link, listed, refresh, refused, late, kept, faults>>

RemovalStep ==
  \/ \E i \in Ids : UnlinkSecret(i) \/ UnlinkRow(i)
  \/ ListAccounts \/ DeleteSecrets \/ DeleteRows \/ LeaveSettings

-----------------------------------------------------------------------------
(* Token refresh.                                                          *)

\* The reader holds a copy of the account's row.
TakeAccount(r, i) ==
  /\ reading[r] = None /\ i \in Linked
  /\ reading' = [reading EXCEPT ![r] = i]
  /\ UNCHANGED <<row, vault, link, removal, asked, refused, late, kept, faults>>

\* Without a secret, or without an answer of the keyring, the reader gives up.
ReadSecret(r) ==
  /\ reading[r] # None /\ r \notin asked
  /\ \/ reading[r] \in vault /\ asked' = asked \cup {r} /\ UNCHANGED reading
     \/ reading' = [reading EXCEPT ![r] = None] /\ UNCHANGED asked
  /\ UNCHANGED <<row, vault, link, removal, refused, late, kept, faults>>

\* The endpoint answers, or the request fails or is dropped.  A token the
\* provider rotated is stored under the id the reader holds.
Answered(r, rotated) ==
  /\ r \in asked
  /\ asked' = asked \ {r} /\ reading' = [reading EXCEPT ![r] = None]
  /\ IF rotated THEN Store(reading[r]) ELSE UNCHANGED <<vault, late>>
  /\ UNCHANGED <<row, link, removal, refused, kept, faults>>

RefreshStep == \E r \in Readers :
  \/ \E i \in Ids : TakeAccount(r, i)
  \/ ReadSecret(r)
  \/ \E rotated \in BOOLEAN : Answered(r, rotated)

\* The process ends; rows and keyring entries stay.
Crash ==
  /\ Fault /\ EndLink /\ unlinking' = {} /\ wiping' = "idle"
  /\ reading' = [r \in Readers |-> None] /\ asked' = {}
  /\ UNCHANGED <<row, vault, used, listed, refused, late, kept>>

Next == LinkStep \/ RemovalStep \/ RefreshStep \/ Crash
Spec == Init /\ [][Next]_vars

-----------------------------------------------------------------------------
(* Properties.                                                             *)

\* storage.md: unlinking and wiping leave no orphaned entries in the keychain.
\* No sequence of failures, cancellations and crashes leaves a secret without
\* its row, except a secret stored when the removal of its account had begun.
NoOrphanSecret == \A i \in vault \ late : row[i] # None

\* An account that was linked and that nobody asked to remove keeps its row and
\* its secret, whatever other attempts, refreshes, failures and crashes do.
AccountsPersist == kept \subseteq Linked \cap vault

\* email_core.md: "If keyring storage fails, the newly created account row in
\* SQLite is rolled back and deleted", once the attempt is over.  Not true of the code: a
\* keyring that refuses the secret may refuse the rollback too.
FailedLinkIsRolledBack == linking = "idle" => refused \cap Linked = {}
=============================================================================
