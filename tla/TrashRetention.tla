---------------------------- MODULE TrashRetention ---------------------------
(***************************************************************************)
(* How long a trashed message is kept: the setting trash_retention_days,   *)
(* its editor on the settings page, and the four places that purge the     *)
(* trash by it - the sync worker after every command, sync_all, the editor *)
(* after a save and the Trash page whenever it opens or a pass has ended.  *)
(* None of them purges in the step in which it has read the setting.       *)
(*                                                                         *)
(* Ages and retentions are days; the moment of trashing is kept with the   *)
(* message (trashed_at), so an age is all a purge looks at.                *)
(***************************************************************************)
EXTENDS Integers

CONSTANTS
  Mail,
  Default,  \* DEFAULT_TRASH_RETENTION_DAYS
  MaxDays,  \* the largest retention, 365 in the code
  MaxAge,   \* bound: an age stops growing here
  None

ASSUME TrashRetentionConstantsOK ==
  /\ MaxDays \in Nat /\ MaxAge \in Nat /\ Default \in 0..MaxDays /\ MaxDays <= MaxAge
  /\ None \notin Int

VARIABLES
  mail,             \* Inbox, Gone or the age of a trashed message
  setting,          \* the row of trash_retention_days; None if it was never saved
  page,
  field, load, found, \* the editor: its signal, its read of the setting and what it found
  writing, purging, \* the editor's saves: values to be written, values to be purged by
  shown, pagePurge, \* the Trash page: its resource's value and its purge under way
  retention,        \* what the worker has read and will purge by
  shortest,         \* history: the shortest retention ever in force
  purgedAt,         \* history: the ages of the messages the last automatic purge deleted
  clash             \* history: the last save overlapped another or the read, it or the read
                    \* failed, or a wipe came after them

editor == <<field, load, found, writing, purging, clash>>
trash  == <<shown, pagePurge>>
past   == <<shortest, purgedAt>>
vars   == <<mail, setting, page, editor, trash, retention, past>>

Days == 0..MaxDays
Ages == 0..MaxAge
OptDays == Days \cup {None}
Inbox == -1
Gone == -2

TypeOK ==
  /\ mail \in [Mail -> {Inbox, Gone} \cup Ages]
  /\ setting \in OptDays /\ page \in {"settings", "trash", "other"}
  /\ field \in OptDays /\ load \in {"idle", "sent", "read"} /\ found \in OptDays
  /\ writing \subseteq Days /\ purging \subseteq Days
  /\ shown \in OptDays /\ pagePurge \in OptDays /\ retention \in OptDays
  /\ shortest \in Days /\ purgedAt \subseteq Ages /\ clash \in BOOLEAN

Trashed(m) == mail[m] \in Ages
OrDefault(d) == IF d = None THEN Default ELSE d
Lower(x, y) == IF x <= y THEN x ELSE y

Init ==
  /\ mail \in [Mail -> {Inbox} \cup Ages]
  /\ setting \in OptDays
  /\ page = "other" /\ field = Default /\ load = "idle" /\ found = None
  /\ writing = {} /\ purging = {}
  /\ shown = None /\ pagePurge = None /\ retention = None
  /\ shortest = OrDefault(setting) /\ purgedAt = {} /\ clash = FALSE

\* Mutant: only what is older than the retention is purged.
PurgeOlder(days) ==
  LET expired == {m \in Mail : Trashed(m) /\ mail[m] > days}
  IN mail' = [m \in Mail |-> IF m \in expired THEN Gone ELSE mail[m]] /\ UNCHANGED purgedAt

\* purge_expired_trash(days), for the purges nobody clicked.
Purge(days) ==
  LET expired == {m \in Mail : Trashed(m) /\ mail[m] >= days}
  IN /\ mail' = [m \in Mail |-> IF m \in expired THEN Gone ELSE mail[m]]
     /\ purgedAt' = {mail[m] : m \in expired}

-----------------------------------------------------------------------------
(* Messages and time.                                                      *)

\* trash_email, or mark_trashed in a pass, which sets trashed_at of a trashed row anew.
ToTrash(m) ==
  /\ mail[m] # Gone /\ mail' = [mail EXCEPT ![m] = 0]
  /\ UNCHANGED <<setting, page, editor, trash, retention, past>>

\* restore_email, or mark_untrashed in a pass.
Restore(m) ==
  /\ Trashed(m) /\ mail' = [mail EXCEPT ![m] = Inbox]
  /\ UNCHANGED <<setting, page, editor, trash, retention, past>>

\* Delete Forever of one message or Empty Trash Now, which purges by zero days.
EmptyTrash(set) ==
  /\ page = "trash"
  /\ mail' = [m \in Mail |-> IF m \in set /\ Trashed(m) THEN Gone ELSE mail[m]]
  /\ UNCHANGED <<setting, page, editor, trash, retention, past>>

Day ==
  /\ mail' = [m \in Mail |-> IF Trashed(m) THEN Lower(mail[m] + 1, MaxAge) ELSE mail[m]]
  /\ UNCHANGED <<setting, page, editor, trash, retention, past>>

-----------------------------------------------------------------------------
(* The editor of the settings page.                                        *)

\* Its signal begins at the default and the setting is read once.
OpenSettings ==
  /\ page = "other" /\ page' = "settings"
  /\ field' = Default /\ load' = "sent" /\ clash' = FALSE
  /\ UNCHANGED <<mail, setting, found, writing, purging, trash, retention, past>>

\* A read that fails is taken for a setting that was never saved.
LoadReads ==
  /\ load = "sent" /\ load' = "read"
  /\ \/ found' = setting /\ UNCHANGED clash
     \/ found' = None /\ clash' = TRUE
  /\ UNCHANGED <<mail, setting, page, field, writing, purging, trash, retention, past>>

\* Mutant: the answer does not reach the signal.
LoadEndsUnseen ==
  /\ load = "read" /\ load' = "idle" /\ found' = None
  /\ UNCHANGED <<mail, setting, page, field, writing, purging, clash, trash, retention, past>>

\* A setting that was never saved leaves the signal alone.
LoadEnds ==
  /\ load = "read" /\ load' = "idle" /\ found' = None
  /\ field' = IF found = None THEN field ELSE found
  /\ UNCHANGED <<mail, setting, page, writing, purging, clash, trash, retention, past>>

\* What is typed and is no number is kept in the signal only.
TypeText ==
  /\ page = "settings" /\ field' = None
  /\ UNCHANGED <<mail, setting, page, load, found, writing, purging, clash, trash, retention, past>>

\* save_retention_days: a preset, a step up or down, or every number along the typing of one.
\* Bound: no two saves of one value at once.
Save(d) ==
  /\ page = "settings" /\ Lower(d, MaxDays) \notin writing
  /\ field' = Lower(d, MaxDays) /\ writing' = writing \cup {Lower(d, MaxDays)}
  /\ clash' = (writing # {} \/ load # "idle")
  /\ UNCHANGED <<mail, setting, page, load, found, purging, trash, retention, past>>

\* The statements of two saves may run in either order; a failure is ignored, and the purge
\* follows all the same.
Write(d) ==
  /\ d \in writing /\ writing' = writing \ {d} /\ purging' = purging \cup {d}
  /\ shortest' = Lower(shortest, d)
  /\ \/ setting' = d /\ UNCHANGED clash
     \/ clash' = TRUE /\ UNCHANGED setting
  /\ UNCHANGED <<mail, page, field, load, found, trash, retention, purgedAt>>

PurgeSaved(d) ==
  /\ d \in purging /\ purging' = purging \ {d}
  /\ Purge(d)
  /\ UNCHANGED <<setting, page, field, load, found, writing, clash, trash, retention, shortest>>

\* wipe_all_data commits: the setting goes with the rows, the editor shows what it showed
\* until the router leaves the page.  The page may have been left since the click.
Wipe ==
  /\ setting' = None /\ mail' = [m \in Mail |-> Gone]
  /\ clash' = (clash \/ (load # "sent" /\ writing = {}))
  /\ UNCHANGED <<page, field, load, found, writing, purging, trash, retention, past>>

\* Leaving drops the tasks; what they have sent to the database may still run.
LeaveSettings ==
  /\ page = "settings" /\ page' = "other"
  /\ load' = "idle" /\ found' = None /\ field' = Default /\ writing' = {} /\ purging' = {} /\ clash' = FALSE
  /\ \/ setting' \in writing /\ shortest' = Lower(shortest, setting') /\ UNCHANGED <<mail, purgedAt>>
     \/ \E d \in purging : Purge(d) /\ UNCHANGED <<setting, shortest>>
     \/ UNCHANGED <<setting, mail, past>>
  /\ UNCHANGED <<trash, retention>>

-----------------------------------------------------------------------------
(* The Trash page.                                                         *)

\* Its purge is made by the value the page was last rendered with: at the mount the setting
\* has not been read.
OpenTrash ==
  /\ page = "other" /\ page' = "trash"
  /\ pagePurge' = OrDefault(shown)
  /\ UNCHANGED <<mail, setting, editor, shown, retention, past>>

\* The resource answers; a read that fails counts as the default.
ShowRetention ==
  /\ page = "trash"
  /\ shown' \in {OrDefault(setting), Default}
  /\ UNCHANGED <<mail, setting, page, editor, pagePurge, retention, past>>

PagePurges ==
  /\ pagePurge # None /\ pagePurge' = None
  /\ Purge(pagePurge)
  /\ UNCHANGED <<setting, page, editor, shown, retention, shortest>>

LeaveTrash ==
  /\ page = "trash" /\ page' = "other"
  /\ shown' = None /\ pagePurge' = None
  /\ UNCHANGED <<mail, setting, editor, retention, past>>

-----------------------------------------------------------------------------
(* The sync worker, and sync_all before it, which does the same without    *)
(* telling the pages.                                                      *)

ReadRetention ==
  /\ retention = None /\ retention' = OrDefault(setting)
  /\ UNCHANGED <<mail, setting, page, editor, trash, past>>

\* Mutant: a read that fails counts as zero days.
ReadFailsToZero ==
  /\ retention = None /\ retention' = 0
  /\ UNCHANGED <<mail, setting, page, editor, trash, past>>

\* A read that fails counts as the default.
ReadFails ==
  /\ retention = None /\ retention' = Default
  /\ UNCHANGED <<mail, setting, page, editor, trash, past>>

\* sync_tick makes the Trash page purge again, by the value it shows.
Tick == IF page = "trash" THEN pagePurge' = OrDefault(shown) ELSE UNCHANGED pagePurge

WorkerPurges ==
  /\ retention # None /\ retention' = None
  /\ Purge(retention) /\ (Tick \/ UNCHANGED pagePurge)
  /\ UNCHANGED <<setting, page, editor, shown, shortest>>

PurgeFails ==
  /\ retention # None /\ retention' = None
  /\ Tick \/ UNCHANGED pagePurge
  /\ UNCHANGED <<mail, setting, page, editor, shown, past>>

MailStep   == Day \/ \E m \in Mail : ToTrash(m) \/ Restore(m) \/ EmptyTrash({m})
EditorStep ==
  \/ OpenSettings \/ LoadReads \/ LoadEnds \/ TypeText \/ Wipe \/ LeaveSettings
  \/ \E d \in 0..(MaxDays + 1) : Save(d)
  \/ \E d \in Days : Write(d) \/ PurgeSaved(d)
TrashStep  == OpenTrash \/ ShowRetention \/ PagePurges \/ LeaveTrash \/ EmptyTrash(Mail)
WorkerStep == ReadRetention \/ ReadFails \/ WorkerPurges \/ PurgeFails

Next == MailStep \/ EditorStep \/ TrashStep \/ WorkerStep

\* Linked accounts are polled, so the worker comes round; its calls do not fail every time, and
\* of its rounds some read the setting and purge by what they have read.
Fairness ==
  /\ WF_vars(WorkerStep) /\ SF_vars(ReadRetention)
  /\ SF_vars(WorkerPurges /\ retention = OrDefault(setting))

Spec == Init /\ [][Next]_vars /\ Fairness

-----------------------------------------------------------------------------
\* Trash is never purged automatically before the shortest retention the user has had in
\* force, the default included, however reads, saves and purges overlap (trash.rs, main.rs
\* and save_retention_days).
NoEarlyPurge == \A age \in purgedAt : age >= Lower(shortest, Default)

\* "Emails are permanently deleted after {retention_days} days." (trash.rs): not before.  Not
\* true of the code: with a longer retention the default is still used before it has been read.
PurgeRespectsRetention == \A age \in purgedAt : age >= shortest

\* With all its reads and saves done, the editor shows the retention in force, unless the last
\* of them failed or ran into another, or a wipe came after it; the next save made alone
\* brings the two together again, whatever came before (trash_retention.rs).
FieldShowsSetting ==
  page = "settings" /\ load = "idle" /\ writing = {} /\ ~clash => field \in {None, OrDefault(setting)}

\* A message whose retention is over does not stay in the trash (main.rs, the worker).
ExpiredIsPurged ==
  \A m \in Mail : Trashed(m) /\ mail[m] >= OrDefault(setting)
                  ~> ~(Trashed(m) /\ mail[m] >= OrDefault(setting))
=============================================================================
