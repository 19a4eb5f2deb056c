--------------------------- MODULE MailViewsProofs ---------------------------
(***************************************************************************)
(* What a page shows, for any accounts, messages, criteria and labels.     *)
(***************************************************************************)
EXTENDS MailViews, TLAPS

Inv == TypeOK /\ ShownIsStored

\* Contents is a set of entries.
LEMMA ContentsTyped ==
  ASSUME TypeOK
  PROVE  Contents \subseteq Entries
BY DEF TypeOK, Contents, InboxRows, FindingRows, TrashRows, Entries, Mail

\* The Trash page does not depend on the selected account: the sidebar may change it without
\* a new query (trash.rs).
LEMMA TrashIsUndivided ==
  ASSUME page = "trash", UNCHANGED <<store, page>>
  PROVE  Contents' = Contents
BY DEF Contents, store, Mail, TrashRows

\* The lists at the start are empty.
LEMMA Initial ==
  ASSUME Init
  PROVE  Inv
BY DEF Init, Inv, TypeOK, ShownIsStored, UpToDate, Pages, Mail, Entries

\* Deleting messages keeps findings attached to messages that are there (the cascade of
\* migrations/0001_init.sql).
LEMMA DeleteTyped ==
  ASSUME TypeOK, NEW gone \in SUBSET Mail, Delete(gone)
  PROVE  /\ box' \in [Mail -> {"none", "inbox", "trash"}]
         /\ found' \subseteq {m \in Mail : box'[m] # "none"} \X Criteria
BY DEF TypeOK, Delete

\* What the page does by itself.
LEMMA PageSteps ==
  ASSUME Inv, PageStep
  PROVE  Inv'
<1> USE DEF Inv, TypeOK, store, place
<1>1. CASE Answer
  <2>1. Contents' = Contents
    BY <1>1 DEF Answer, Contents, InboxRows, FindingRows, TrashRows, InAccount
  <2> QED  BY <1>1, <2>1, ContentsTyped DEF Answer, ShownIsStored, UpToDate
<1>2. CASE AnswerFails
  BY <1>2 DEF AnswerFails, ShownIsStored, UpToDate
<1>3. ASSUME NEW p \in Pages, Open(p)  PROVE Inv'
  BY <1>3 DEF Open, ShownIsStored, UpToDate
<1>4. ASSUME NEW a \in Accounts \cup {None}, Select(a)  PROVE Inv'
  BY <1>4, TrashIsUndivided DEF Select, ShownIsStored, UpToDate
<1>5. ASSUME NEW l \in Labels \cup {None}, ChooseLabel(l)  PROVE Inv'
  <2>1. Contents' = Contents
    BY <1>5 DEF ChooseLabel, Contents, InboxRows, FindingRows, TrashRows, InAccount
  <2> QED  BY <1>5, <2>1 DEF ChooseLabel, ShownIsStored, UpToDate
<1> QED  BY <1>1, <1>2, <1>3, <1>4, <1>5 DEF PageStep

\* After a click somebody owes a bump, or was dropped before it.
LEMMA Clicked ==
  ASSUME Inv, NEW e, Click(e)
  PROVE  /\ ShownIsStored'
         /\ owed' \subseteq {"pass", "handler"} /\ stale' \in BOOLEAN
         /\ UNCHANGED <<labelOf, page, selected, label, query, shown>>
<1>1. CASE owed' = owed \cup {"handler"} /\ UNCHANGED stale
  BY <1>1 DEF Inv, TypeOK, Click, Owe, ShownIsStored, UpToDate, place
<1>2. CASE stale' = TRUE /\ UNCHANGED owed
  BY <1>2 DEF Inv, TypeOK, Click, Owe, ShownIsStored, UpToDate, place
<1> QED  BY <1>1, <1>2 DEF Click, Owe

\* What the buttons do.
LEMMA ClickSteps ==
  ASSUME Inv, ClickStep
  PROVE  Inv'
<1> USE DEF Inv, TypeOK
<1>1. CASE ClearFindings
  BY <1>1, Clicked DEF ClearFindings
<1>2. CASE EmptyTrash
  <2> DEFINE gone == {m \in Mail : box[m] = "trash"}
  <2>1. gone \in SUBSET Mail  OBVIOUS
  <2> QED  BY <1>2, <2>1, Clicked, DeleteTyped DEF EmptyTrash
<1>3. CASE Announce
  BY <1>3 DEF Announce, Bump, store, place, ShownIsStored, UpToDate
<1>4. ASSUME NEW e \in Entries, EntryStep(e)  PROVE Inv'
  <2>1. e \in shown /\ e[1] \in Mail
    BY <1>4 DEF EntryStep, TrashEmail, RestoreEmail, DeleteForever, RemoveMatch, Click, Entries
  <2>2. CASE TrashEmail(e)
    BY <2>1, <2>2, Clicked DEF TrashEmail
  <2>3. CASE RestoreEmail(e)
    BY <2>1, <2>3, Clicked DEF RestoreEmail
  <2>4. CASE DeleteForever(e)
    <3>1. {e[1]} \in SUBSET Mail  BY <2>1
    <3> QED  BY <3>1, <2>4, Clicked, DeleteTyped DEF DeleteForever
  <2>5. CASE RemoveMatch(e)
    BY <2>5, Clicked DEF RemoveMatch
  <2> QED  BY <1>4, <2>2, <2>3, <2>4, <2>5 DEF EntryStep
<1> QED  BY <1>1, <1>2, <1>3, <1>4 DEF ClickStep

\* What passes and the purge of the Trash page do.
LEMMA PassSteps ==
  ASSUME Inv, PassStep
  PROVE  Inv'
<1> USE DEF Inv, TypeOK, place
<1>1. CASE PassEnds
  BY <1>1 DEF PassEnds, Bump, store, ShownIsStored, UpToDate
<1>2. ASSUME NEW m \in Mail, PagePurges(m)  PROVE Inv'
  BY <1>2, DeleteTyped, {m} \in SUBSET Mail DEF PagePurges, ShownIsStored, UpToDate
<1>3. ASSUME NEW m \in Mail, NEW b \in {"none", "inbox", "trash"}, PassMoves(m, b)  PROVE Inv'
  <2>1. CASE b = "none"
    BY <1>3, <2>1, DeleteTyped, {m} \in SUBSET Mail DEF PassMoves, ShownIsStored, UpToDate
  <2>2. CASE b # "none"
    BY <1>3, <2>2 DEF PassMoves, ShownIsStored, UpToDate
  <2> QED  BY <2>1, <2>2
<1>4. ASSUME NEW m \in Mail, NEW c \in Criteria, PassFinds(m, c)  PROVE Inv'
  BY <1>4 DEF PassFinds, ShownIsStored, UpToDate
<1> QED  BY <1>1, <1>2, <1>3, <1>4 DEF PassStep

\* A step that changes nothing.
LEMMA Stutters ==
  ASSUME Inv, UNCHANGED vars
  PROVE  Inv'
<1>1. Contents' = Contents
  BY DEF vars, store, place, Contents, InboxRows, FindingRows, TrashRows, InAccount
<1> QED  BY <1>1 DEF Inv, TypeOK, ShownIsStored, UpToDate, vars, store, place

\* The inductive invariant holds throughout.
LEMMA Invariance == Spec => []Inv
<1>1. Inv /\ [Next]_vars => Inv'
  BY PageSteps, ClickSteps, PassSteps, Stutters DEF Next
<1> QED  BY <1>1, Initial, PTL DEF Spec

\* Route, filters, query, lists and tables keep their types, and no finding outlives its
\* message, whatever passes, purges and buttons do to it.
THEOREM TypeCorrect == Spec => []TypeOK
BY Invariance, PTL DEF Inv

\* A page whose query is done shows the tables as they are, unless a bump is owed or its
\* sender was dropped: every refresh_trigger and sync_tick reaches every page.
THEOREM ShownIsStoredHolds == Spec => []ShownIsStored
BY Invariance, PTL DEF Inv

\* Clear Category and Clear All take no finding of another label or of another account, however
\* old the list is: the criterion comes from an entry with the chosen label.
THEOREM ClearsOnlyTheCategoryHolds == Spec => ClearsOnlyTheCategory
<1> DEFINE Kept ==
      ClearFindings => \A e \in found \ found' : label \in {None, labelOf[e[2]]} /\ InAccount(e[1])
<1>1. ASSUME ClearFindings, NEW e \in found \ found'
      PROVE  label \in {None, labelOf[e[2]]} /\ InAccount(e[1])
  <2>1. PICK v \in Visible : found' = found \ Cleared(IF label = None THEN Criteria ELSE {v[2]})
    BY <1>1 DEF ClearFindings
  <2>2. e \in Cleared(IF label = None THEN Criteria ELSE {v[2]})
    BY <1>1, <2>1
  <2>3. InAccount(e[1]) /\ (label # None => e[2] = v[2])
    BY <2>2 DEF Cleared
  <2>4. label \in {None, labelOf[v[2]]}
    BY DEF Visible
  <2> QED  BY <2>3, <2>4
<1>2. Kept
  BY <1>1
<1>3. [Next]_vars => [Kept]_vars
  BY <1>2
<1> QED  BY <1>3, PTL DEF Spec, ClearsOnlyTheCategory
=============================================================================
