---------------------------- MODULE MailboxSync ----------------------------
(***************************************************************************)
(* One linked account and the pass that mirrors it: SyncService in         *)
(* email_core/src/sync_page.rs, the rows it writes (storage/src/email.rs   *)
(* and sync.rs), the mailbox behind an EmailProvider, and the user acting  *)
(* on the same rows while a pass is under way.                             *)
(*                                                                         *)
(* The server numbers its changes 1, 2, 3, ...  A sync cursor is the       *)
(* number of the last change a page covered: a Gmail historyId, a Graph    *)
(* delta link or an IMAP "validity:uid".  Discovery reads the server once, *)
(* except for Gmail's baseline: it lists the inbox, and asks for the       *)
(* historyId to record in a second request.                                *)
(***************************************************************************)
EXTENDS Integers, FiniteSets

CONSTANTS
  Messages,          \* provider message ids; an id is never reused
  Providers,         \* the account is with one of them: "gmail", "outlook", "imap"
  InitialLimit,      \* initial_sync_options: ids listed by a baseline
  InboxCapacity,     \* setting inbox_capacity
  FindingsCapacity,  \* setting findings_capacity
  ClassifierReady,   \* an active criterion and a selected model exist
  Misread,           \* ids whose error text contains "404"
  MaxEvents,         \* bound: changes on the server
  MaxFaults          \* bound, for each provider: failed calls, expiries and crashes together

ASSUME ConstantsOK ==
  /\ Providers \subseteq {"gmail", "outlook", "imap"} /\ MaxFaults \in [Providers -> Nat]
  /\ {InitialLimit, InboxCapacity, FindingsCapacity, MaxEvents} \subseteq Nat
  /\ ClassifierReady \in BOOLEAN
  /\ Misread \subseteq Messages

VARIABLES
  provider,   \* of the account, from its linking on
  tip,        \* number of the latest change on the server
  at,         \* at[op][m]: number of the last change op of m, 0 if none
  box,        \* where m is on the server
  linked,     \* the linked_accounts row exists
  cursor,     \* linked_accounts.sync_cursor
  syncError,  \* linked_accounts.last_sync_error is set
  rows,       \* the emails row of m: absent, or its is_trashed flag
  tags,       \* emails with a classifications row
  pc,         \* where the pass is
  held,       \* account.sync_cursor as the pass read it when it began
  attempt,    \* discovery attempt, 2 after a 401
  page,       \* the SyncPage, with what the baseline left out
  todo,       \* messages the running loop has still to handle
  fetchErr,   \* fetch_errors_occurred
  fresh,      \* newly_saved
  everSaved,  \* history: messages save_email stored at least once
  beyond,     \* history: messages the last recorded baseline left out by its limit
  slipped,    \* history: messages that arrived between its two requests
  faults      \* failures so far

server  == <<provider, tip, at, box>>
account == <<linked, cursor, syncError>>
mail    == <<rows, tags>>
pass    == <<held, attempt, page, todo, fetchErr, fresh>>
history == <<everSaved, beyond, slipped>>
vars == <<server, account, mail, pc, pass, history, faults>>

Op == {"arrive", "trash", "restore", "delete", "update"}
Place == {"none", "inbox", "trash", "gone"}
Row == {"absent", "inbox", "trash"}
Phase == {"idle", "discover", "baseline", "profile", "fetch", "save", "trash", "restore",
          "delete", "commit", "gate", "classify", "purge", "purge findings"}
NoCursor == -1
Cursor == Nat \cup {NoCursor}
SyncPage == [new : SUBSET Messages, trashed : SUBSET Messages,
             deleted : SUBSET Messages, restored : SUBSET Messages,
             next : Nat, initial : BOOLEAN,
             omitted : SUBSET Messages, missed : SUBSET Messages]

EmptyPage == [new |-> {}, trashed |-> {}, deleted |-> {}, restored |-> {},
              next |-> 0, initial |-> FALSE, omitted |-> {}, missed |-> {}]

TypeOK ==
  /\ provider \in Providers
  /\ tip \in Nat
  /\ at \in [Op -> [Messages -> Nat]]
  /\ box \in [Messages -> Place]
  /\ linked \in BOOLEAN /\ syncError \in BOOLEAN /\ fetchErr \in BOOLEAN
  /\ cursor \in Cursor /\ held \in Cursor
  /\ rows \in [Messages -> Row]
  /\ tags \subseteq Messages
  /\ pc \in Phase
  /\ attempt \in {1, 2}
  /\ page \in SyncPage
  /\ todo \subseteq Messages /\ fresh \subseteq Messages
  /\ everSaved \subseteq Messages
  /\ beyond \subseteq Messages /\ slipped \subseteq Messages
  /\ faults \in Nat

Init ==
  /\ provider \in Providers
  /\ tip = 0
  /\ at = [op \in Op |-> [m \in Messages |-> 0]]
  /\ box = [m \in Messages |-> "none"]
  /\ linked = TRUE /\ cursor = NoCursor /\ syncError = FALSE
  /\ rows = [m \in Messages |-> "absent"]
  /\ tags = {}
  /\ pc = "idle"
  /\ held = NoCursor /\ attempt = 1 /\ page = EmptyPage
  /\ todo = {} /\ fetchErr = FALSE /\ fresh = {}
  /\ everSaved = {} /\ beyond = {} /\ slipped = {}
  /\ faults = 0

-----------------------------------------------------------------------------
(* The mailbox behind the provider.                                        *)

\* fetch_message_metadata finds m.  Gmail serves a trashed message by its id;
\* Graph and IMAP give a message that left the inbox another id.
Retrievable(m) == IF provider = "gmail" THEN box[m] \in {"inbox", "trash"}
                                        ELSE box[m] = "inbox"

Inbox == {m \in Messages : box[m] = "inbox"}

Change(op, m, place) ==
  /\ tip < MaxEvents
  /\ tip' = tip + 1
  /\ at' = [at EXCEPT ![op] = [@ EXCEPT ![m] = tip + 1]]
  /\ box' = [box EXCEPT ![m] = place]
  /\ UNCHANGED <<provider, account, mail, pc, pass, history, faults>>

Arrive(m)      == box[m] = "none" /\ Change("arrive", m, "inbox")
MoveToTrash(m) == box[m] = "inbox" /\ Change("trash", m, "trash")
TakeBack(m)    == provider = "gmail" /\ box[m] = "trash" /\ Change("restore", m, "inbox")
Expunge(m)     == Retrievable(m) /\ Change("delete", m, "gone")
ChangeFlags(m) == provider = "outlook" /\ box[m] = "inbox" /\ Change("update", m, "inbox")

ServerStep == \E m \in Messages :
  Arrive(m) \/ MoveToTrash(m) \/ TakeBack(m) \/ Expunge(m) \/ ChangeFlags(m)

-----------------------------------------------------------------------------
(* Discovery.                                                              *)

SinceInclusive(op) == {m \in Messages : at[op][m] >= held}
Since(op) == {m \in Messages : at[op][m] > held}
Touched == UNION {Since(op) : op \in Op}

PageOf(new, trashed, restored, deleted) ==
  [new |-> new, trashed |-> trashed, restored |-> restored, deleted |-> deleted,
   next |-> tip, initial |-> FALSE, omitted |-> {}, missed |-> {}]

\* Mutants of the page: a response without a historyId recorded as position 0,
\* and a window whose messagesDeleted records are not read.
GmailPageUnnumbered ==
  IF Touched = {} THEN EmptyPage
  ELSE PageOf(Since("arrive") \ Since("delete"), Since("trash"),
              Since("restore"), Since("delete"))
GmailPageUndeleting == PageOf(Since("arrive"), Since("trash"), Since("restore"), {})

\* history.list: what happened to an id inside the window, not in which order.
GmailPage == PageOf(Since("arrive") \ Since("delete"), Since("trash"),
                    Since("restore"), Since("delete"))

\* messages/delta: every touched message of the folder, @removed if it left.
OutlookPage == PageOf(Touched \cap Inbox, Touched \ Inbox, {}, {})

ImapPageSkipping ==
  PageOf({m \in Inbox : at["arrive"][m] > held + 1}, {}, {}, {})

\* UID SEARCH: the uids past the cursor that are still in the folder.
ImapPage == PageOf(Since("arrive") \cap Inbox, {}, {}, {})

Newest(S, k) ==
  {m \in S : Cardinality({n \in S : at["arrive"][n] > at["arrive"][m]}) < k}

\* The order in which Graph enumerates a folder is not asked for by the code.
Listings ==
  IF provider = "outlook"
  THEN {S \in SUBSET Inbox :
          \/ S = Inbox /\ Cardinality(Inbox) <= InitialLimit
          \/ Cardinality(S) = InitialLimit}
  ELSE {Newest(Inbox, InitialLimit)}

InitialPage(S) ==
  [new |-> S, trashed |-> {}, restored |-> {}, deleted |-> {}, next |-> tip,
   initial |-> TRUE, omitted |-> {m \in Messages \ S : Retrievable(m)}, missed |-> {}]

-----------------------------------------------------------------------------
(* One pass: sync_one_account.                                             *)

Goto(p) == pc' = p
Fault == faults < MaxFaults[provider] /\ faults' = faults + 1

EndPass ==
  /\ Goto("idle")
  /\ held' = NoCursor /\ attempt' = 1 /\ page' = EmptyPage
  /\ todo' = {} /\ fetchErr' = FALSE /\ fresh' = {}

\* sync_account / sync_all read the account row; an unlinked one is not found.
StartPass ==
  /\ pc = "idle" /\ linked
  /\ Goto("discover")
  /\ held' = cursor
  /\ UNCHANGED <<server, account, mail, attempt, page, todo, fetchErr, fresh,
                 history, faults>>

Discovered(p, phase) ==
  /\ page' = p
  /\ Goto(phase)
  /\ UNCHANGED <<server, account, mail, held, attempt, todo, fetchErr, fresh,
                 history, faults>>

IncrementalSync ==
  /\ pc = "discover" /\ held # NoCursor
  /\ \/ provider = "gmail"   /\ Discovered(GmailPage, "fetch")
     \/ provider = "outlook" /\ Discovered(OutlookPage, "fetch")
     \/ provider = "imap"    /\ Discovered(ImapPage, "fetch")

Baseline == pc = "baseline" \/ (pc = "discover" /\ held = NoCursor)

InitialSync ==
  /\ Baseline /\ provider # "gmail"
  /\ \E S \in Listings : Discovered(InitialPage(S), "fetch")

\* Gmail: messages.list, and in a request of its own the historyId, by then perhaps a later one.
ListInbox ==
  /\ Baseline /\ provider = "gmail"
  /\ \E S \in Listings : Discovered(InitialPage(S), "profile")

ReadHistoryId ==
  /\ pc = "profile"
  /\ Discovered([page EXCEPT !.next = tip,
                            !.missed = {m \in Messages : at["arrive"][m] > page.next}], "fetch")

\* CursorExpired: the cursor is cleared, and a failure to clear it is ignored.
CursorExpired ==
  /\ pc = "discover" /\ held # NoCursor
  /\ Fault
  /\ cursor' \in {cursor, NoCursor}
  /\ Goto("baseline")
  /\ UNCHANGED <<server, linked, syncError, mail, pass, history>>

Rediscover ==
  /\ pc \in {"discover", "baseline", "profile"}
  /\ Fault
  /\ attempt' = attempt + 1
  /\ Goto("discover") /\ page' = EmptyPage
  /\ UNCHANGED <<server, account, mail, held, todo, fetchErr, fresh, history>>

\* A 401 during discovery: fresh token, and fetch_sync_page once more.
Unauthorized == attempt = 1 /\ Rediscover

Hydrate(failed, noticed) ==
  /\ pc = "fetch"
  /\ IF failed = {} THEN UNCHANGED faults ELSE Fault
  /\ todo' = {m \in page.new \ failed : Retrievable(m)}
  /\ fetchErr' = (noticed # {})
  /\ Goto("save")
  /\ UNCHANGED <<server, account, mail, held, attempt, page, fresh, history>>

FetchMetadataHeedless == \E failed \in SUBSET page.new : Hydrate(failed, {})

\* fetch_message_metadata asks for every id before the first row is written;
\* an error that reads like a 404 counts as "the message is gone".
FetchMetadata == \E failed \in SUBSET page.new : Hydrate(failed, failed \ Misread)

\* save_email: an upsert that leaves is_trashed of an existing row alone.
SaveEmail(m) ==
  /\ pc = "save" /\ m \in todo /\ linked
  /\ rows' = [rows EXCEPT ![m] = IF @ = "absent" THEN "inbox" ELSE @]
  /\ todo' = todo \ {m}
  /\ fresh' = fresh \cup {m}
  /\ everSaved' = everSaved \cup {m}
  /\ UNCHANGED <<server, account, tags, pc, held, attempt, page, fetchErr,
                 beyond, slipped, faults>>

NextLoop(from, to, S) ==
  /\ pc = from /\ todo = {}
  /\ Goto(to)
  /\ todo' = S
  /\ UNCHANGED <<server, account, mail, held, attempt, page, fetchErr, fresh,
                 history, faults>>

LoopEnds ==
  \/ NextLoop("save", "trash", page.trashed)
  \/ NextLoop("trash", "restore", page.restored)
  \/ NextLoop("restore", "delete", page.deleted)
  \/ NextLoop("delete", "commit", {})

\* One statement of one of the three loops; a missing row is a no-op.
Apply(phase, m, newRow, newTags) ==
  /\ pc = phase /\ m \in todo
  /\ rows' = [rows EXCEPT ![m] = IF @ = "absent" THEN @ ELSE newRow]
  /\ tags' = newTags
  /\ todo' = todo \ {m}
  /\ UNCHANGED <<server, account, pc, held, attempt, page, fetchErr, fresh,
                 history, faults>>

MarkTrashed(m)   == Apply("trash", m, "trash", tags)
MarkUntrashed(m) == Apply("restore", m, "inbox", tags)
DeleteRowAlone(m) == Apply("delete", m, "absent", tags)
DeleteRow(m)     == Apply("delete", m, "absent", tags \ {m})

CommitUnless(stays) ==
  /\ pc = "commit"
  /\ IF stays
     THEN UNCHANGED <<account, beyond, slipped>>
     ELSE /\ cursor' = page.next
          /\ syncError' = FALSE
          /\ beyond' = IF page.initial THEN page.omitted ELSE beyond
          /\ slipped' = IF page.initial THEN page.missed ELSE slipped
          /\ UNCHANGED linked
  /\ Goto("gate")
  /\ UNCHANGED <<server, mail, pass, everSaved, faults>>

UpdateCursorAnyway == CommitUnless(~linked)

\* The cursor moves only when nothing failed to hydrate; update_sync_cursor
\* of an unlinked account touches no row.
UpdateCursor == CommitUnless(fetchErr \/ ~linked)

\* classify_new_emails returns at once without mail, criteria or a model.
EnterClassifier ==
  /\ pc = "gate"
  /\ Goto(IF fresh = {} \/ ~ClassifierReady THEN "purge" ELSE "classify")
  /\ UNCHANGED <<server, account, mail, pass, history, faults>>

\* Match or no match; save_classification fails if the row is gone by then.
ClassifyEmail(m) ==
  /\ pc = "classify" /\ m \in fresh
  /\ tags' \in {tags, tags \cup ({m} \cap {n \in Messages : rows[n] # "absent"})}
  /\ fresh' = fresh \ {m}
  /\ UNCHANGED <<server, account, rows, pc, held, attempt, page, todo, fetchErr,
                 history, faults>>

ClassifierDone ==
  /\ pc = "classify" /\ fresh = {}
  /\ Goto("purge")
  /\ UNCHANGED <<server, account, mail, pass, history, faults>>

\* purge_old_emails: two statements, each committed by itself.  An error of the first
\* skips the second; the pass ignores both.
Shown == {m \in Messages : rows[m] = "inbox"}

Purge(S) ==
  /\ rows' = [m \in Messages |-> IF m \in S THEN "absent" ELSE rows[m]]
  /\ tags' = tags \ S
  /\ UNCHANGED faults

PurgeInbox ==
  /\ pc = "purge"
  /\ \/ /\ Purge((Shown \ tags) \ Newest(Shown \ tags, InboxCapacity))
        /\ Goto("purge findings")
        /\ UNCHANGED pass
     \/ Fault /\ UNCHANGED mail /\ EndPass
  /\ UNCHANGED <<server, account, history>>

PurgeFindings ==
  /\ pc = "purge findings"
  /\ \/ Purge((Shown \cap tags) \ Newest(Shown \cap tags, FindingsCapacity))
     \/ Fault /\ UNCHANGED mail
  /\ EndPass
  /\ UNCHANGED <<server, account, history>>

\* Any `?' on the way: the pass ends and sync_one_account records the error.
Fail ==
  /\ pc \in {"discover", "baseline", "profile", "fetch", "save", "trash", "restore",
             "delete", "commit"}
  /\ pc = "commit" => ~fetchErr
  /\ IF pc = "save" /\ ~linked THEN UNCHANGED faults ELSE Fault
  /\ syncError' = linked
  /\ EndPass
  /\ UNCHANGED <<server, linked, cursor, mail, history>>

\* The process dies between two statements; SQLite keeps what was written.
Crash ==
  /\ pc # "idle"
  /\ Fault
  /\ EndPass
  /\ UNCHANGED <<server, account, mail, history>>

SyncStep ==
  \/ StartPass \/ IncrementalSync \/ InitialSync \/ ListInbox \/ ReadHistoryId
  \/ FetchMetadata \/ LoopEnds
  \/ \E m \in Messages : \/ SaveEmail(m) \/ MarkTrashed(m) \/ MarkUntrashed(m)
                         \/ DeleteRow(m) \/ ClassifyEmail(m)
  \/ UpdateCursor \/ EnterClassifier \/ ClassifierDone \/ PurgeInbox \/ PurgeFindings

FaultStep == CursorExpired \/ Unauthorized \/ Fail \/ Crash

-----------------------------------------------------------------------------
(* The user, on the same rows.                                             *)

UserWrites(newRows, newTags) ==
  /\ rows' = newRows /\ tags' = newTags
  /\ UNCHANGED <<server, account, pc, pass, history, faults>>

TrashEmail(m)   == rows[m] = "inbox" /\ UserWrites([rows EXCEPT ![m] = "trash"], tags)
RestoreEmail(m) == rows[m] = "trash" /\ UserWrites([rows EXCEPT ![m] = "inbox"], tags)

\* Deleted from the trash view, or trashed for longer than the retention.
DeleteForever(m) ==
  rows[m] = "trash" /\ UserWrites([rows EXCEPT ![m] = "absent"], tags \ {m})

ClearFinding(m) == m \in tags /\ UserWrites(rows, tags \ {m})

\* delete_account: the row goes, emails and classifications cascade.
UnlinkAccount ==
  /\ linked
  /\ linked' = FALSE /\ cursor' = NoCursor /\ syncError' = FALSE
  /\ rows' = [m \in Messages |-> "absent"] /\ tags' = {}
  /\ UNCHANGED <<server, pc, pass, history, faults>>

UserStep ==
  \/ \E m \in Messages : \/ TrashEmail(m) \/ RestoreEmail(m)
                         \/ DeleteForever(m) \/ ClearFinding(m)
  \/ UnlinkAccount

Next == ServerStep \/ SyncStep \/ FaultStep \/ UserStep

Spec == Init /\ [][Next]_vars
\* The watcher polls for ever and the worker runs what it is sent.
FairSpec == Spec /\ WF_vars(SyncStep)

-----------------------------------------------------------------------------
(* What the pass owes the user.                                            *)

\* What a recorded baseline does not bring: mail past its limit, and mail that arrived in Gmail
\* after its listing and before its historyId, which nothing will report any more.
Excused == beyond \cup slipped

\* A recorded cursor never hides mail: whatever arrived up to it and can still
\* be fetched was stored, was left out by the baseline, or had its error taken
\* for a 404 (sync_page.rs, "Safe Cursor Advancement Invariant").
SafeCursor ==
  \A m \in Messages :
    Retrievable(m) /\ at["arrive"][m] <= cursor => m \in everSaved \cup Excused \cup Misread

\* The same as the documents put it, with no exception for a misread error:
\* a failed fetch leaves the cursor where it was.  It holds if Misread = {}.
SafeCursorAsDocumented ==
  \A m \in Messages :
    Retrievable(m) /\ at["arrive"][m] <= cursor => m \in everSaved \cup Excused

\* A message taken back from trash or spam is shown once the cursor covers
\* that change ("Fumiko catches both and restores the message locally").  Not true of the
\* code: a message without a row stays away.
TakenBackIsStored ==
  \A m \in Messages :
    box[m] = "inbox" /\ at["restore"][m] \in 1..cursor => m \in everSaved

\* Foreign keys hold whatever a pass and the user interleave: no email without
\* its account, no classification without its email.
ReferentialIntegrity ==
  /\ tags \subseteq {m \in Messages : rows[m] # "absent"}
  /\ ~linked => \A m \in Messages : rows[m] = "absent"

\* A pass works on a copy of the account row read at its start; it still never
\* moves the recorded cursor back.
CursorNeverRegresses ==
  [][cursor # NoCursor /\ cursor' # NoCursor => cursor' >= cursor]_vars

\* A pass changes the row of a message, the user's trash, restore or permanent
\* deletion included, only for news the recorded cursor does not cover yet or
\* under a new baseline.
OnlyNewsIsApplied ==
  [][\A m \in todo \ todo' :
       rows'[m] # rows[m] => \/ page.initial
                             \/ \E op \in Op : at[op][m] > cursor]_vars

\* Fetchable mail is stored in the end, once failures stop, unless the
\* baseline left it out or the account is unlinked.
MailIsStoredInTheEnd ==
  \A m \in Messages :
    Retrievable(m) ~> \/ m \in everSaved \cup Excused \cup Misread
                      \/ ~Retrievable(m) \/ ~linked

\* A deletion on the server reaches the local row, unless the cursor that would
\* have reported it expires first (only Gmail reports deletions as such).
DeletionsArrive ==
  \A m \in Messages :
    (box[m] = "gone" /\ cursor # NoCursor /\ at["delete"][m] > cursor)
      ~> \/ rows[m] = "absent" \/ cursor = NoCursor
         \/ pc = "baseline" \/ page.initial

Contract == INSTANCE CursorContract WITH
  arrival <- at["arrive"], alive <- {m \in Messages : Retrievable(m)},
  acked <- cursor, delivered <- everSaved, excused <- Excused \cup Misread

\* The pass implements the contract of the cursor.
ImplementsCursorContract == Contract!Spec
=============================================================================
