------------------------------ MODULE MailViews ------------------------------
(***************************************************************************)
(* The four pages that list mail - Dashboard, Inbox, Findings and Trash -  *)
(* over the tables they read.  A page is a query, made again whenever      *)
(* refresh_trigger or sync_tick is bumped or another account is selected,  *)
(* and buttons whose handlers act on the rows as last rendered.  Rows      *)
(* change under the page by the sync worker's passes, by handlers of a     *)
(* page already left, and by the Trash page's own purge.                   *)
(*                                                                         *)
(* An entry <<m, None>> is a message as a row, <<m, c>> a finding.  A page *)
(* keeps its old entries while its query runs; the query's statement and   *)
(* its answer are one step, since a change between them is followed by a   *)
(* bump, which drops the answer, or is noted as unannounced.  Capacities,  *)
(* the search field and the reading pane are left out.                     *)
(***************************************************************************)
EXTENDS Naturals

CONSTANTS
  Accounts,
  Ids,      \* messages of each account
  Criteria,
  Labels,
  None

ASSUME MailViewsConstantsOK == None \notin Accounts \cup Criteria \cup Labels

VARIABLES
  labelOf,    \* watch_criteria: nothing makes a label unique
  box,        \* emails: "inbox", "trash" or, without a row, "none"
  found,      \* classifications
  page, selected, label,  \* the route, selected_account and the label filter of Findings
  query, shown,           \* the page's resource: its call, and its entries
  owed,       \* who has changed rows and not bumped yet: a pass, a handler
  stale       \* history: rows changed without a bump, or a query failed, since the last bump

store == <<labelOf, box, found>>
place == <<page, selected, label>>
vars  == <<store, place, query, shown, owed, stale>>

Mail    == Accounts \X Ids
Entries == Mail \X (Criteria \cup {None})
Pages   == {"dashboard", "inbox", "findings", "trash"}

TypeOK ==
  /\ labelOf \in [Criteria -> Labels]
  /\ box \in [Mail -> {"none", "inbox", "trash"}]
  /\ found \subseteq {m \in Mail : box[m] # "none"} \X Criteria
  /\ page \in Pages /\ selected \in Accounts \cup {None} /\ label \in Labels \cup {None}
  /\ query \in {"idle", "sent"} /\ shown \subseteq Entries
  /\ owed \subseteq {"pass", "handler"} /\ stale \in BOOLEAN

Account(m) == m[1]
InAccount(m) == selected \in {None, Account(m)}

\* list_inbox, list_criteria and list_trash, each for the selected account or for all; the
\* trash is not divided.
InboxRows   == {m \in Mail : box[m] = "inbox" /\ InAccount(m)} \X {None}
FindingRows == {e \in found : box[e[1]] = "inbox" /\ InAccount(e[1])}
TrashRows   == {m \in Mail : box[m] = "trash"} \X {None}

Contents ==
  {e \in InboxRows : page \in {"dashboard", "inbox"}}
  \cup {e \in FindingRows : page \in {"dashboard", "findings"}}
  \cup {e \in TrashRows : page = "trash"}

Init ==
  /\ labelOf \in [Criteria -> Labels]
  /\ box = [m \in Mail |-> "none"] /\ found = {}
  /\ page = "dashboard" /\ selected = None /\ label = None
  /\ query = "sent" /\ shown = {} /\ owed = {} /\ stale = FALSE

Bump == query' = "sent" /\ stale' = FALSE

-----------------------------------------------------------------------------
(* The page.                                                               *)

Answer ==
  /\ query = "sent" /\ query' = "idle"
  /\ shown' = Contents
  /\ UNCHANGED <<store, place, owed, stale>>

\* A page shows a query that failed as an empty list.
AnswerFails ==
  /\ query = "sent" /\ query' = "idle"
  /\ shown' = {} /\ stale' = TRUE
  /\ UNCHANGED <<store, place, owed>>

\* The tasks of the page that is left are dropped, and with them what they owe.
Open(p) ==
  /\ page # p /\ page' = p /\ label' = None
  /\ query' = "sent" /\ shown' = {}
  /\ owed' = owed \ {"handler"} /\ stale' = (stale \/ "handler" \in owed)
  /\ UNCHANGED <<store, selected>>

\* The sidebar.  The Trash page does not ask which account is selected.
Select(a) ==
  /\ selected # a /\ selected' = a
  /\ query' = IF page = "trash" THEN query ELSE "sent"
  /\ UNCHANGED <<store, page, label, shown, owed, stale>>

\* The chips of the Findings page are the labels in its list; the one chosen stays chosen
\* when the list loses it.
ChooseLabel(l) ==
  /\ page = "findings" /\ (l = None \/ \E e \in shown : labelOf[e[2]] = l)
  /\ label' = l
  /\ UNCHANGED <<store, page, selected, query, shown, owed, stale>>

-----------------------------------------------------------------------------
(* What the buttons do.  The statement of a handler runs while its task    *)
(* waits for it, or after the task has been dropped with its page.         *)

Owe == \/ owed' = owed \cup {"handler"} /\ UNCHANGED stale
       \/ stale' = TRUE /\ UNCHANGED owed

Delete(gone) ==
  /\ box' = [m \in Mail |-> IF m \in gone THEN "none" ELSE box[m]]
  /\ found' = {e \in found : e[1] \notin gone}

\* Bound: a handler starts when the one before it has announced its change.
Click(e) == e \in shown /\ "handler" \notin owed /\ Owe /\ UNCHANGED <<labelOf, place, query, shown>>

\* Move to Trash on a row, a card or a finding; a row that has gone is an error.
TrashEmail(e) ==
  /\ page # "trash" /\ box[e[1]] # "none" /\ Click(e)
  /\ box' = [box EXCEPT ![e[1]] = "trash"]
  /\ UNCHANGED found

RestoreEmail(e) ==
  /\ page = "trash" /\ box[e[1]] # "none" /\ Click(e)
  /\ box' = [box EXCEPT ![e[1]] = "inbox"]
  /\ UNCHANGED found

\* Delete Forever does not look where the message is now.
DeleteForever(e) ==
  /\ page = "trash" /\ box[e[1]] # "none" /\ Click(e)
  /\ Delete({e[1]})

\* Empty Trash Now, offered if the list is not empty.
EmptyTrash ==
  /\ \E e \in shown : page = "trash" /\ Click(e)
  /\ Delete({m \in Mail : box[m] = "trash"})

RemoveMatch(e) ==
  /\ page = "findings" /\ Click(e)
  /\ found' = found \ {e}
  /\ UNCHANGED box

\* The entries that pass the label filter.
Visible == {e \in shown : label \in {None, labelOf[e[2]]}}

Cleared(criteria) == {e \in found : InAccount(e[1]) /\ e[2] \in criteria}

\* Mutant: the button is there whenever the list is not empty, filtered or not.
ClearFindingsUnseen ==
  /\ page = "findings"
  /\ \E e \in shown :
       /\ Click(e)
       /\ found' = found \ Cleared(IF label = None \/ e \notin Visible THEN Criteria ELSE {e[2]})
  /\ UNCHANGED box

\* Clear All and Clear Category are offered if something is visible.  A category's criterion
\* is the one of the first finding in the list that has the label.
ClearFindings ==
  /\ page = "findings"
  /\ \E e \in Visible :
       /\ Click(e)
       /\ found' = found \ Cleared(IF label = None THEN Criteria ELSE {e[2]})
  /\ UNCHANGED box

\* Mutant: the handler forgets refresh_trigger.
AnnounceNothing ==
  /\ "handler" \in owed /\ owed' = owed \ {"handler"}
  /\ UNCHANGED <<store, place, query, shown, stale>>

Announce ==
  /\ "handler" \in owed /\ owed' = owed \ {"handler"}
  /\ Bump
  /\ UNCHANGED <<store, place, shown>>

\* The purge of the Trash page, at the mount and at every sync_tick, tells nobody.
PagePurges(m) ==
  /\ page = "trash" /\ box[m] = "trash"
  /\ Delete({m}) /\ stale' = TRUE
  /\ UNCHANGED <<labelOf, place, query, shown, owed>>

-----------------------------------------------------------------------------
(* The sync worker.                                                        *)

\* Messages arrive, move and vanish with the server's, or by a purge.
PassMoves(m, b) ==
  /\ box[m] # b /\ (box[m] = "none" => b = "inbox")
  /\ IF b = "none" THEN Delete({m}) ELSE (box' = [box EXCEPT ![m] = b] /\ UNCHANGED found)
  /\ owed' = owed \cup {"pass"}
  /\ UNCHANGED <<labelOf, place, query, shown, stale>>

PassFinds(m, c) ==
  /\ box[m] = "inbox" /\ <<m, c>> \notin found
  /\ found' = found \cup {<<m, c>>}
  /\ owed' = owed \cup {"pass"}
  /\ UNCHANGED <<labelOf, box, place, query, shown, stale>>

\* Mutant: a pass does not move sync_tick on.
PassEndsQuietly ==
  /\ owed' = owed \ {"pass"}
  /\ UNCHANGED <<store, place, query, shown, stale>>

\* Every command ends in a bump, whatever became of it.
PassEnds ==
  /\ owed' = owed \ {"pass"}
  /\ Bump
  /\ UNCHANGED <<store, place, shown>>

PageStep == \/ Answer \/ AnswerFails \/ \E p \in Pages : Open(p)
            \/ \E a \in Accounts \cup {None} : Select(a)
            \/ \E l \in Labels \cup {None} : ChooseLabel(l)
EntryStep(e) == TrashEmail(e) \/ RestoreEmail(e) \/ DeleteForever(e) \/ RemoveMatch(e)
ClickStep == ClearFindings \/ EmptyTrash \/ Announce \/ \E e \in Entries : EntryStep(e)
PassStep == PassEnds \/ \E m \in Mail :
              \/ PagePurges(m)
              \/ \E b \in {"none", "inbox", "trash"} : PassMoves(m, b)
              \/ \E c \in Criteria : PassFinds(m, c)

Next == PageStep \/ ClickStep \/ PassStep

\* Passes come round and end, handlers run on, and queries do not fail every time.
Fairness == WF_vars(PassEnds) /\ WF_vars(Announce) /\ SF_vars(Answer)

Spec == Init /\ [][Next]_vars /\ Fairness

-----------------------------------------------------------------------------
\* What a page shows is not known to be out of date.
UpToDate == query = "idle" /\ owed = {} /\ ~stale

\* A page whose query is done shows the tables as they are, unless somebody still owes the
\* bump or was dropped before it (the use_resource of every page and the bumps of handlers).
ShownIsStored == UpToDate => shown = Contents

\* Clear Category and Clear All leave the findings of other labels and other accounts alone,
\* however old the list is that the button was rendered with (findings.rs, clear_findings).
ClearsOnlyTheCategory ==
  [][ClearFindings => \A e \in found \ found' : label \in {None, labelOf[e[2]]} /\ InAccount(e[1])]_vars

\* While tables and page are left alone, the page shows the tables again and again, also after
\* changes nobody announced: the next pass bumps for all of them.
ShownInTheEnd == <>[][FALSE]_<<store, place>> => []<>(shown = Contents)
=============================================================================
