------------------------- MODULE MailboxSyncProofs -------------------------
(***************************************************************************)
(* For every set of messages, provider, limit and bound: the pass is type  *)
(* correct, never hides mail behind its cursor, never moves the cursor     *)
(* back, implements the contract of the cursor, keeps rows and findings    *)
(* together, and changes a row only for news.                              *)
(*                                                                         *)
(* SafeCursor is not inductive: a pass works on a copy of the cursor, on a *)
(* page read earlier and on fetch results older than the rows it writes.   *)
(* SyncInv says what each of these still knows about the server.           *)
(***************************************************************************)
EXTENDS MailboxSync, TLAPS

USE DEF Excused

\* What is known of the mailbox: no change is newer than tip, a message that
\* has not arrived is nowhere, and only a message that is gone was deleted.
ServerInv ==
  /\ \A op \in Op, m \in Messages : at[op][m] <= tip
  /\ \A m \in Messages : box[m] = "none" <=> at["arrive"][m] = 0
  /\ \A m \in Messages : box[m] # "gone" => at["delete"][m] = 0

\* m arrived up to position n and can still be fetched.
Due(m, n) == Retrievable(m) /\ at["arrive"][m] <= n

SettledUpTo(n) == \A m \in Messages : Due(m, n) => m \in everSaved \cup Excused \cup Misread

Running == {"discover", "baseline", "profile", "fetch", "save", "trash", "restore", "delete",
            "commit"}
Discovering == {"discover", "baseline"}
Hydrated == {"save", "trash", "restore", "delete", "commit"}

\* The cursor and the pass's copy of it.
CursorInv ==
  /\ cursor <= tip /\ held <= tip
  /\ SettledUpTo(cursor) /\ SettledUpTo(held)
  /\ pc \in Running => cursor <= held

\* A discovered page names everything due that no earlier cursor settled.
PageInv ==
  pc \in Running \ Discovering =>
    /\ held <= page.next /\ page.next <= tip
    /\ \A m \in Messages : Due(m, page.next) =>
         \/ m \in page.new
         \/ m \in IF page.initial THEN page.omitted \cup page.missed
                                  ELSE everSaved \cup Excused \cup Misread
    /\ pc = "profile" => page.initial /\ page.missed = {}

\* Without a fetch error, whatever the page named is stored or still to store.
HydrationInv ==
  pc \in Hydrated /\ ~fetchErr =>
    \A m \in page.new : Due(m, page.next) =>
      \/ m \in everSaved \cup Misread
      \/ pc = "save" /\ m \in todo

SyncInv == TypeOK /\ ServerInv /\ CursorInv /\ PageInv /\ HydrationInv

-----------------------------------------------------------------------------
(* Type correctness.                                                       *)

LEMMA PagesTyped ==
  ASSUME TypeOK
  PROVE  /\ {GmailPage, OutlookPage, ImapPage} \subseteq SyncPage
         /\ \A S \in Listings : InitialPage(S) \in SyncPage
         /\ EmptyPage \in SyncPage
<1>1. \A op \in Op : Since(op) \in SUBSET Messages
  BY DEF Since
<1>2. Inbox \in SUBSET Messages /\ Touched \in SUBSET Messages
  BY <1>1 DEF Inbox, Touched
<1>3. {GmailPage, OutlookPage, ImapPage} \subseteq SyncPage
  BY <1>1, <1>2 DEF TypeOK, GmailPage, OutlookPage, ImapPage, PageOf, SyncPage, Op
<1>4. \A S \in Listings : S \in SUBSET Messages
  BY <1>2 DEF Listings, Newest
<1>5. ASSUME NEW S \in Listings PROVE InitialPage(S) \in SyncPage
  BY <1>4 DEF TypeOK, InitialPage, SyncPage
<1>6. EmptyPage \in SyncPage
  BY DEF EmptyPage, SyncPage
<1> QED BY <1>3, <1>5, <1>6

\* The page of Gmail's baseline once the historyId is known.
Numbered == [page EXCEPT !.next = tip,
                         !.missed = {m \in Messages : at["arrive"][m] > page.next}]

LEMMA NumberedPage ==
  ASSUME TypeOK
  PROVE  /\ Numbered \in SyncPage
         /\ Numbered.new = page.new /\ Numbered.next = tip
         /\ Numbered.initial = page.initial /\ Numbered.omitted = page.omitted
         /\ Numbered.trashed = page.trashed /\ Numbered.restored = page.restored
         /\ Numbered.deleted = page.deleted
         /\ Numbered.missed = {m \in Messages : at["arrive"][m] > page.next}
<1> DEFINE late == {m \in Messages : at["arrive"][m] > page.next}
<1>1. page \in SyncPage /\ tip \in Nat /\ late \in SUBSET Messages
  BY DEF TypeOK
<1> HIDE DEF late
<1>2. LET q == [page EXCEPT !.next = tip, !.missed = late]
      IN  /\ q \in SyncPage /\ q.new = page.new /\ q.next = tip
          /\ q.initial = page.initial /\ q.omitted = page.omitted /\ q.missed = late
          /\ q.trashed = page.trashed /\ q.restored = page.restored /\ q.deleted = page.deleted
  BY <1>1 DEF SyncPage
<1> QED BY <1>2 DEF Numbered, late

LEMMA ChangeTyped ==
  ASSUME TypeOK, NEW op \in Op, NEW m \in Messages, NEW place \in Place,
         Change(op, m, place)
  PROVE  TypeOK'
<1>1. at' \in [Op -> [Messages -> Nat]]
  BY DEF TypeOK, Change
<1>2. box' \in [Messages -> Place] /\ tip' \in Nat
  BY DEF TypeOK, Change
<1> QED BY <1>1, <1>2 DEF TypeOK, Change, account, mail, pass, history

LEMMA ServerTyped == TypeOK /\ ServerStep => TypeOK'
<1> SUFFICES ASSUME TypeOK, NEW m \in Messages,
                    Arrive(m) \/ MoveToTrash(m) \/ TakeBack(m) \/ Expunge(m) \/ ChangeFlags(m)
             PROVE  TypeOK'
  BY DEF ServerStep
<1>1. PICK op \in Op, place \in Place : Change(op, m, place)
  BY DEF Arrive, MoveToTrash, TakeBack, Expunge, ChangeFlags, Op, Place
<1> QED BY <1>1, ChangeTyped

LEMMA EndPassTyped ==
  EndPass => /\ pc' \in Phase /\ held' \in Cursor /\ attempt' \in {1, 2}
             /\ page' \in SyncPage
             /\ todo' = {} /\ fresh' = {} /\ fetchErr' = FALSE
  BY DEF EndPass, Goto, Phase, Cursor, NoCursor, EmptyPage, SyncPage

LEMMA FaultCounted == TypeOK /\ Fault => faults' \in Nat
  BY DEF TypeOK, Fault

LEMMA DiscoveryTyped ==
  ASSUME TypeOK
  PROVE  /\ StartPass \/ IncrementalSync \/ InitialSync \/ ListInbox \/ ReadHistoryId => TypeOK'
         /\ CursorExpired \/ Unauthorized => TypeOK'
<1> USE DEF Goto, Phase, server, account, mail, pass, history
<1>1. StartPass => TypeOK'
  BY DEF StartPass, TypeOK
<1>2. ASSUME NEW p \in SyncPage, NEW phase \in {"profile", "fetch"}, Discovered(p, phase)
      PROVE  TypeOK'
  BY <1>2 DEF Discovered, TypeOK
<1>3. IncrementalSync => TypeOK'
  BY <1>2, PagesTyped DEF IncrementalSync
<1>4. InitialSync => TypeOK'
  BY <1>2, PagesTyped DEF InitialSync
<1>5. ListInbox => TypeOK'
  BY <1>2, PagesTyped DEF ListInbox
<1>6. ReadHistoryId => TypeOK'
  BY <1>2, NumberedPage DEF ReadHistoryId, Numbered
<1>7. CursorExpired => TypeOK'
  BY DEF CursorExpired, TypeOK, Fault, Cursor
<1>8. Unauthorized => TypeOK'
  <2> SUFFICES ASSUME Unauthorized PROVE TypeOK'
    OBVIOUS
  <2>1. faults' \in Nat /\ attempt' = 2
    BY FaultCounted DEF Unauthorized, Rediscover
  <2> QED BY <2>1, PagesTyped DEF Unauthorized, Rediscover, TypeOK
<1> QED BY <1>1, <1>3, <1>4, <1>5, <1>6, <1>7, <1>8

LEMMA HydrationTyped ==
  ASSUME TypeOK
  PROVE  /\ FetchMetadata \/ LoopEnds => TypeOK'
         /\ \A m \in Messages :
              SaveEmail(m) \/ MarkTrashed(m) \/ MarkUntrashed(m) \/ DeleteRow(m) => TypeOK'
<1> USE DEF Goto, Phase, server, account, mail, pass, history
<1>1. FetchMetadata => TypeOK'
  <2> SUFFICES ASSUME FetchMetadata PROVE TypeOK'
    OBVIOUS
  <2>1. PICK failed \in SUBSET page.new :
          /\ IF failed = {} THEN UNCHANGED faults ELSE Fault
          /\ todo' = {n \in page.new \ failed : Retrievable(n)}
          /\ fetchErr' = (failed \ Misread # {})
    BY DEF FetchMetadata, Hydrate
  <2>2. page.new \subseteq Messages
    BY DEF TypeOK, SyncPage
  <2>3. todo' \subseteq Messages
    BY <2>1, <2>2
  <2>4. fetchErr' \in BOOLEAN
    BY <2>1
  <2>5. faults' \in Nat
    BY <2>1, FaultCounted DEF TypeOK
  <2> QED BY <2>3, <2>4, <2>5 DEF FetchMetadata, Hydrate, TypeOK
<1>2. ASSUME NEW m \in Messages PROVE SaveEmail(m) => TypeOK'
  BY DEF SaveEmail, TypeOK, Row
<1>3. LoopEnds => TypeOK'
  BY DEF LoopEnds, NextLoop, TypeOK, SyncPage
<1>4. ASSUME NEW row \in Row, NEW newTags \in SUBSET Messages, NEW phase,
             NEW m \in Messages, Apply(phase, m, row, newTags)
      PROVE  TypeOK'
  BY <1>4 DEF Apply, TypeOK
<1>5. ASSUME NEW m \in Messages PROVE MarkTrashed(m) => TypeOK'
  BY <1>4 DEF MarkTrashed, Row, TypeOK
<1>6. ASSUME NEW m \in Messages PROVE MarkUntrashed(m) => TypeOK'
  BY <1>4 DEF MarkUntrashed, Row, TypeOK
<1>7. ASSUME NEW m \in Messages PROVE DeleteRow(m) => TypeOK'
  BY <1>4 DEF DeleteRow, Row, TypeOK
<1> QED BY <1>1, <1>2, <1>3, <1>5, <1>6, <1>7

LEMMA FinishTyped ==
  ASSUME TypeOK
  PROVE  /\ UpdateCursor \/ EnterClassifier \/ ClassifierDone \/ PurgeInbox
              \/ PurgeFindings \/ Fail \/ Crash => TypeOK'
         /\ \A m \in Messages : ClassifyEmail(m) => TypeOK'
<1> USE DEF server, account, mail, pass, history
<1>1. UpdateCursor => TypeOK'
  BY DEF UpdateCursor, CommitUnless, TypeOK, SyncPage, Cursor, Goto, Phase
<1>2. EnterClassifier \/ ClassifierDone => TypeOK'
  BY DEF EnterClassifier, ClassifierDone, TypeOK, Goto, Phase
<1>3. ASSUME NEW m \in Messages PROVE ClassifyEmail(m) => TypeOK'
  BY DEF ClassifyEmail, TypeOK
<1>4. PurgeInbox \/ PurgeFindings => TypeOK'
  <2> SUFFICES ASSUME PurgeInbox \/ PurgeFindings PROVE TypeOK'
    OBVIOUS
  <2>1. /\ UNCHANGED <<server, account, history>>
        /\ (\E S : Purge(S)) \/ (Fault /\ UNCHANGED mail)
    BY DEF PurgeInbox, PurgeFindings
  <2>2. rows' \in [Messages -> Row] /\ tags' \subseteq Messages
    BY <2>1 DEF Purge, TypeOK, Row
  <2>3. faults' \in Nat
    BY <2>1, FaultCounted DEF Purge, TypeOK
  <2>4. EndPass \/ (pc' = "purge findings" /\ UNCHANGED pass)
    BY DEF PurgeInbox, PurgeFindings, Goto
  <2>5. CASE EndPass
    BY <2>1, <2>2, <2>3, <2>5, EndPassTyped DEF TypeOK
  <2>6. CASE pc' = "purge findings" /\ UNCHANGED pass
    BY <2>1, <2>2, <2>3, <2>6 DEF TypeOK, Phase
  <2> QED BY <2>4, <2>5, <2>6
<1>5. Fail => TypeOK'
  <2> SUFFICES ASSUME Fail PROVE TypeOK'
    OBVIOUS
  <2>1. faults' \in Nat
    BY FaultCounted DEF Fail, TypeOK
  <2> QED BY <2>1, EndPassTyped DEF Fail, TypeOK
<1>6. Crash => TypeOK'
  <2> SUFFICES ASSUME Crash PROVE TypeOK'
    OBVIOUS
  <2>1. faults' \in Nat
    BY FaultCounted DEF Crash, TypeOK
  <2> QED BY <2>1, EndPassTyped DEF Crash, TypeOK
<1> QED BY <1>1, <1>2, <1>3, <1>4, <1>5, <1>6

LEMMA UserTyped == TypeOK /\ UserStep => TypeOK'
<1> USE DEF server, account, mail, pass, history
<1>1. ASSUME TypeOK, NEW newRows \in [Messages -> Row], NEW newTags \in SUBSET Messages,
             UserWrites(newRows, newTags)
      PROVE  TypeOK'
  BY <1>1 DEF UserWrites, TypeOK
<1>2. ASSUME TypeOK, NEW m \in Messages,
             TrashEmail(m) \/ RestoreEmail(m) \/ DeleteForever(m) \/ ClearFinding(m)
      PROVE  TypeOK'
  <2>1. PICK newRows \in [Messages -> Row], newTags \in SUBSET Messages :
          UserWrites(newRows, newTags)
    BY <1>2 DEF TrashEmail, RestoreEmail, DeleteForever, ClearFinding, TypeOK, Row
  <2> QED BY <1>1, <1>2, <2>1
<1>3. TypeOK /\ UnlinkAccount => TypeOK'
  BY DEF UnlinkAccount, TypeOK, Cursor, Row
<1> QED BY <1>2, <1>3 DEF UserStep

LEMMA InitTyped == Init => TypeOK
<1> SUFFICES ASSUME Init PROVE TypeOK
  OBVIOUS
<1>1. at \in [Op -> [Messages -> Nat]]
  BY DEF Init
<1>2. box \in [Messages -> Place] /\ rows \in [Messages -> Row]
  BY DEF Init, Place, Row
<1>3. page \in SyncPage
  BY DEF Init, EmptyPage, SyncPage
<1> QED BY <1>1, <1>2, <1>3 DEF Init, TypeOK, Phase, Cursor, NoCursor

LEMMA StepTyped == TypeOK /\ [Next]_vars => TypeOK'
<1> SUFFICES ASSUME TypeOK, [Next]_vars PROVE TypeOK'
  OBVIOUS
<1>1. CASE ServerStep
  BY <1>1, ServerTyped
<1>2. CASE SyncStep
  BY <1>2, DiscoveryTyped, HydrationTyped, FinishTyped DEF SyncStep
<1>3. CASE FaultStep
  BY <1>3, DiscoveryTyped, FinishTyped DEF FaultStep
<1>4. CASE UserStep
  BY <1>4, UserTyped
<1>5. CASE UNCHANGED vars
  BY <1>5 DEF TypeOK, vars, server, account, mail, pass, history
<1> QED BY <1>1, <1>2, <1>3, <1>4, <1>5 DEF Next

\* Every variable keeps its type, for every value of the constants.
THEOREM TypeCorrect == Spec => []TypeOK
  BY InitTyped, StepTyped, PTL DEF Spec

-----------------------------------------------------------------------------
(* Changes on the server.                                                  *)

LEMMA ChangeKeepsServerInv ==
  ASSUME TypeOK, ServerInv, ServerStep
  PROVE  ServerInv'
<1>1. PICK m \in Messages :
        Arrive(m) \/ MoveToTrash(m) \/ TakeBack(m) \/ Expunge(m) \/ ChangeFlags(m)
  BY DEF ServerStep
<1>2. ASSUME NEW op \in Op, NEW place \in Place, Change(op, m, place),
             op = "arrive" <=> box[m] = "none", place # "none",
             op = "delete" <=> place = "gone", box[m] # "gone"
      PROVE  ServerInv'
  <2>1. tip \in Nat /\ tip' = tip + 1
    BY <1>2 DEF Change, TypeOK
  <2>2. \A o \in Op, n \in Messages :
          at'[o][n] = IF o = op /\ n = m THEN tip + 1 ELSE at[o][n]
    BY <1>2 DEF Change, TypeOK
  <2>3. \A n \in Messages : box'[n] = IF n = m THEN place ELSE box[n]
    BY <1>2 DEF Change, TypeOK
  <2>4. \A o \in Op, n \in Messages : at[o][n] \in Nat
    BY DEF TypeOK
  <2>5. "arrive" \in Op /\ "delete" \in Op
    BY DEF Op
  <2>6. \A o \in Op, n \in Messages : at'[o][n] <= tip'
    BY <2>1, <2>2, <2>4 DEF ServerInv
  <2>7. \A n \in Messages : box'[n] = "none" <=> at'["arrive"][n] = 0
    BY <2>1, <2>2, <2>3, <2>5, <1>2 DEF ServerInv
  <2>8. \A n \in Messages : box'[n] # "gone" => at'["delete"][n] = 0
    BY <2>2, <2>3, <2>5, <1>2 DEF ServerInv
  <2> QED BY <2>6, <2>7, <2>8 DEF ServerInv
<1> QED
  BY <1>1, <1>2 DEF Arrive, MoveToTrash, TakeBack, Expunge, ChangeFlags, Retrievable, Op, Place

\* Whatever the server does, nothing becomes due up to a position it has passed.
LEMMA ChangeMakesNothingDue ==
  ASSUME TypeOK, ServerStep
  PROVE  \A m \in Messages, n \in Cursor : n <= tip /\ Due(m, n)' => Due(m, n)
<1>1. PICK k \in Messages :
        Arrive(k) \/ MoveToTrash(k) \/ TakeBack(k) \/ Expunge(k) \/ ChangeFlags(k)
  BY DEF ServerStep
<1> SUFFICES ASSUME NEW m \in Messages, NEW n \in Cursor, n <= tip, Due(m, n)'
             PROVE  Due(m, n)
  OBVIOUS
<1>2. tip \in Nat /\ n \in Int
  BY DEF TypeOK, Cursor, NoCursor
<1>3. CASE Arrive(k)
  <2>1. at'["arrive"][k] = tip + 1 /\ at'["arrive"][m] = IF m = k THEN tip + 1 ELSE at["arrive"][m]
    BY <1>3 DEF Arrive, Change, TypeOK, Op
  <2>2. m # k
    BY <2>1, <1>2 DEF Due
  <2> QED BY <1>3, <2>1, <2>2 DEF Due, Arrive, Change, TypeOK, Retrievable
<1>4. ASSUME NEW op \in Op, op # "arrive", NEW place, Change(op, k, place),
             Retrievable(m)'=> Retrievable(m)
      PROVE  Due(m, n)
  <2>1. at'["arrive"][m] = at["arrive"][m]
    BY <1>4 DEF Change, TypeOK, Op
  <2> QED BY <2>1, <1>4 DEF Due
<1>5. CASE MoveToTrash(k)
  BY <1>4, <1>5 DEF MoveToTrash, Change, Retrievable, TypeOK, Op
<1>6. CASE TakeBack(k)
  BY <1>4, <1>6 DEF TakeBack, Change, Retrievable, TypeOK, Op
<1>7. CASE Expunge(k)
  BY <1>4, <1>7 DEF Expunge, Change, Retrievable, TypeOK, Op
<1>8. CASE ChangeFlags(k)
  BY <1>4, <1>8 DEF ChangeFlags, Change, Retrievable, TypeOK, Op
<1> QED BY <1>1, <1>3, <1>5, <1>6, <1>7, <1>8

LEMMA ServerKeepsInv == SyncInv /\ ServerStep => SyncInv'
<1> SUFFICES ASSUME SyncInv, ServerStep PROVE SyncInv'
  OBVIOUS
<1>1. TypeOK /\ TypeOK' /\ ServerInv'
  BY ServerTyped, ChangeKeepsServerInv DEF SyncInv
<1>2. tip \in Nat /\ tip' = tip + 1 /\ UNCHANGED <<account, mail, pc, pass, history>>
  BY <1>1 DEF ServerStep, Arrive, MoveToTrash, TakeBack, Expunge, ChangeFlags, Change, TypeOK
<1>3. cursor \in Cursor /\ held \in Cursor /\ page.next \in Nat
  BY <1>1 DEF TypeOK, SyncPage
<1>4. \A m \in Messages, n \in Cursor : n <= tip /\ Due(m, n)' => Due(m, n)
  BY <1>1, ChangeMakesNothingDue
<1>5. UNCHANGED <<cursor, held, page, pc, todo, fetchErr, everSaved, beyond, slipped>>
  BY <1>2 DEF account, pass, history
<1>6. \A n \in Int : n <= tip => n <= tip'
  BY <1>2
<1>7. CursorInv'
  <2>1. \A n \in Cursor : n <= tip /\ SettledUpTo(n) => SettledUpTo(n)'
    BY <1>4, <1>5 DEF SettledUpTo
  <2> QED BY <2>1, <1>3, <1>5, <1>6 DEF SyncInv, CursorInv, Cursor, NoCursor
<1>8. page.next <= tip => \A m \in Messages : Due(m, page.next)' => Due(m, page.next)
  BY <1>3, <1>4, <1>5 DEF Cursor, Due
<1>9. PageInv'
  <2> SUFFICES ASSUME pc \in Running \ Discovering
               PROVE  PageInv'
    BY <1>5 DEF PageInv
  <2>1. page.next <= tip /\ page.next <= tip'
    BY <1>3, <1>6 DEF SyncInv, PageInv
  <2> QED BY <1>5, <1>8, <2>1 DEF SyncInv, PageInv
<1>10. HydrationInv'
  <2> SUFFICES ASSUME pc \in Hydrated, ~fetchErr PROVE HydrationInv'
    BY <1>5 DEF HydrationInv
  <2>1. page.next <= tip
    BY DEF SyncInv, PageInv, Hydrated, Running, Discovering
  <2>2. page.new \subseteq Messages
    BY <1>1 DEF TypeOK, SyncPage
  <2> QED BY <1>5, <1>8, <2>1, <2>2 DEF SyncInv, HydrationInv
<1> QED BY <1>1, <1>7, <1>9, <1>10 DEF SyncInv

-----------------------------------------------------------------------------
(* The pass.                                                               *)

\* Steps that leave the mailbox and the history alone know what they knew.
Quiet == UNCHANGED <<server, everSaved, beyond, slipped>>

LEMMA QuietFacts ==
  ASSUME Quiet
  PROVE  /\ ServerInv => ServerInv'
         /\ tip' = tip
         /\ \A m \in Messages : Retrievable(m)' <=> Retrievable(m)
         /\ at' = at /\ everSaved' = everSaved /\ beyond' = beyond /\ slipped' = slipped
  BY DEF Quiet, server, ServerInv, Retrievable

\* Discovery: StartPass, CursorExpired and Unauthorized.
LEMMA BeforeDiscovery ==
  ASSUME SyncInv, TypeOK', StartPass \/ CursorExpired \/ Unauthorized
  PROVE  SyncInv'
<1>1. Quiet
  BY DEF StartPass, CursorExpired, Unauthorized, Rediscover, Quiet, history
<1>2. pc' \in Discovering /\ pc' \notin Hydrated
  BY DEF StartPass, CursorExpired, Unauthorized, Rediscover, Goto, Discovering, Hydrated
<1>3. /\ cursor' \in {cursor, NoCursor} /\ held' \in {held, cursor}
      /\ held' \in Cursor /\ cursor' \in Cursor /\ tip \in Nat
      /\ cursor' <= held'
  BY DEF SyncInv, TypeOK, CursorInv, StartPass, CursorExpired, Unauthorized, Rediscover, account, pass,
         Running, Cursor, NoCursor
<1>4. \A m \in Messages : at["arrive"][m] \in Nat
  BY DEF SyncInv, TypeOK, Op
<1>5. CursorInv'
  <2>1. cursor' <= tip' /\ held' <= tip'
    BY <1>1, <1>3, QuietFacts DEF SyncInv, CursorInv, NoCursor
  <2>2. SettledUpTo(NoCursor)
    BY <1>4 DEF SettledUpTo, Due, NoCursor
  <2>3. \A n \in {cursor, held, NoCursor} : SettledUpTo(n)
    BY <2>2 DEF SyncInv, CursorInv
  <2>4. SettledUpTo(cursor)' /\ SettledUpTo(held)'
    BY <2>3, <1>1, <1>3, QuietFacts DEF SettledUpTo, Due
  <2> QED BY <2>1, <2>4, <1>3 DEF CursorInv
<1> QED BY <1>1, <1>2, <1>5, QuietFacts DEF SyncInv, PageInv, HydrationInv

LEMMA DiscoveredKeepsInv ==
  ASSUME SyncInv, TypeOK', NEW p, NEW phase \in {"profile", "fetch"}, Discovered(p, phase),
         pc \in Discovering \cup {"profile"},
         p.next = tip,
         \A m \in Messages : Due(m, tip) =>
           \/ m \in p.new
           \/ m \in IF p.initial THEN p.omitted \cup p.missed
                                ELSE everSaved \cup Excused \cup Misread,
         phase = "profile" => p.initial /\ p.missed = {}
  PROVE  SyncInv'
<1>1. Quiet /\ pc' = phase /\ page' = p /\ UNCHANGED <<cursor, held>>
  BY DEF Discovered, Quiet, Goto, account, history
<1>2. CursorInv'
  BY <1>1, QuietFacts DEF SyncInv, CursorInv, SettledUpTo, Due, Running, Discovering
<1>3. PageInv'
  <2>1. held' <= page'.next /\ page'.next <= tip'
    BY <1>1, QuietFacts DEF SyncInv, CursorInv, TypeOK
  <2> QED BY <1>1, <2>1, QuietFacts DEF PageInv, Due
<1> QED BY <1>1, <1>2, <1>3, QuietFacts DEF SyncInv, HydrationInv, Hydrated

LEMMA IncrementalKeepsInv == SyncInv /\ TypeOK' /\ IncrementalSync => SyncInv'
<1> SUFFICES ASSUME SyncInv, TypeOK', IncrementalSync PROVE SyncInv'
  OBVIOUS
<1>1. pc \in Discovering /\ held \in Nat /\ tip \in Nat
  BY DEF IncrementalSync, Discovering, SyncInv, TypeOK, Cursor
<1>2. \A m \in Messages : Due(m, tip) =>
        \/ m \in Since("arrive") /\ m \notin Since("delete")
        \/ m \in everSaved \cup Excused \cup Misread
  <2> SUFFICES ASSUME NEW m \in Messages, Due(m, tip), m \notin everSaved \cup Excused \cup Misread
               PROVE  m \in Since("arrive") /\ m \notin Since("delete")
    OBVIOUS
  <2>1. at["arrive"][m] \in Nat /\ at["delete"][m] \in Nat
    BY DEF SyncInv, TypeOK, Op
  <2>2. ~Due(m, held)
    BY DEF SyncInv, CursorInv, SettledUpTo
  <2>3. at["arrive"][m] > held
    BY <1>1, <2>1, <2>2 DEF Due
  <2>4. at["delete"][m] = 0
    BY DEF SyncInv, ServerInv, Due, Retrievable
  <2> QED BY <1>1, <2>3, <2>4 DEF Since
<1>3. CASE provider = "gmail"
  BY <1>1, <1>2, <1>3, DiscoveredKeepsInv DEF IncrementalSync, GmailPage, PageOf
<1>4. \A m \in Messages : provider # "gmail" /\ Due(m, tip) => m \in Inbox
  BY DEF Due, Retrievable, Inbox
<1>5. CASE provider = "outlook"
  <2>1. Since("arrive") \subseteq Touched
    BY DEF Touched, Op
  <2> QED BY <1>1, <1>2, <1>4, <1>5, <2>1, DiscoveredKeepsInv DEF IncrementalSync, OutlookPage, PageOf
<1>6. CASE provider = "imap"
  BY <1>1, <1>2, <1>4, <1>6, DiscoveredKeepsInv DEF IncrementalSync, ImapPage, PageOf
<1>7. provider \in {"gmail", "outlook", "imap"}
  BY ConstantsOK DEF SyncInv, TypeOK
<1> QED BY <1>3, <1>5, <1>6, <1>7

LEMMA InitialKeepsInv == SyncInv /\ TypeOK' /\ (InitialSync \/ ListInbox) => SyncInv'
<1> SUFFICES ASSUME SyncInv, TypeOK', NEW S \in Listings, NEW phase \in {"profile", "fetch"},
                    Discovered(InitialPage(S), phase), pc \in Discovering
             PROVE  SyncInv'
  BY DEF InitialSync, ListInbox, Baseline, Discovering
<1>1. \A m \in Messages : Due(m, tip) => m \in S \/ m \in {n \in Messages \ S : Retrievable(n)}
  BY DEF Due
<1> QED BY <1>1, DiscoveredKeepsInv DEF InitialPage

\* What arrived after the listing is due by the historyId and missed.
LEMMA HistoryIdKeepsInv == SyncInv /\ TypeOK' /\ ReadHistoryId => SyncInv'
<1> SUFFICES ASSUME SyncInv, TypeOK', ReadHistoryId PROVE SyncInv'
  OBVIOUS
<1>1. pc = "profile" /\ Discovered(Numbered, "fetch")
  BY DEF ReadHistoryId, Numbered
<1>2. /\ page.initial /\ page.missed = {}
      /\ \A m \in Messages : Due(m, page.next) => m \in page.new \cup page.omitted
  BY <1>1 DEF SyncInv, PageInv, Running, Discovering
<1>3. \A m \in Messages : at["arrive"][m] \in Nat
  BY DEF SyncInv, TypeOK, Op
<1>4. page.next \in Nat
  BY DEF SyncInv, TypeOK, SyncPage
<1>5. \A m \in Messages : Due(m, tip) => m \in Numbered.new \/ m \in Numbered.omitted \cup Numbered.missed
  BY <1>2, <1>3, <1>4, NumberedPage DEF Due, SyncInv
<1> QED BY <1>1, <1>2, <1>5, NumberedPage, DiscoveredKeepsInv DEF SyncInv

\* What a step inside a hydrated pass has to show: it keeps the mailbox, the
\* cursor and the page, forgets nothing stored, and drops no message still to
\* store without storing it.
LEMMA HydratedStep ==
  ASSUME SyncInv, TypeOK',
         UNCHANGED <<server, cursor, held, page, fetchErr, beyond, slipped>>,
         pc \in Hydrated, pc' \in Hydrated,
         everSaved \subseteq everSaved',
         pc = "save" => \A m \in todo : m \in everSaved' \/ (pc' = "save" /\ m \in todo')
  PROVE  SyncInv'
<1>1. \A m \in Messages : Retrievable(m)' <=> Retrievable(m)
  BY DEF server, Retrievable
<1>2. ServerInv'
  BY DEF server, SyncInv, ServerInv
<1>3. CursorInv'
  BY <1>1 DEF server, SyncInv, CursorInv, SettledUpTo, Due, Hydrated, Running
<1>4. PageInv'
  BY <1>1 DEF server, SyncInv, PageInv, Due, Hydrated, Running, Discovering
<1>5. page.new \subseteq Messages
  BY DEF SyncInv, TypeOK, SyncPage
<1>6. HydrationInv'
  BY <1>1, <1>5 DEF server, SyncInv, HydrationInv, Due
<1> QED BY <1>2, <1>3, <1>4, <1>6 DEF SyncInv

LEMMA FetchKeepsInv == SyncInv /\ TypeOK' /\ FetchMetadata => SyncInv'
<1> SUFFICES ASSUME SyncInv, TypeOK', FetchMetadata PROVE SyncInv'
  OBVIOUS
<1>1. PICK failed \in SUBSET page.new :
        /\ todo' = {m \in page.new \ failed : Retrievable(m)}
        /\ fetchErr' = (failed \ Misread # {})
  BY DEF FetchMetadata, Hydrate
<1>2. Quiet /\ pc = "fetch" /\ pc' = "save" /\ UNCHANGED <<cursor, held, page>>
  BY DEF FetchMetadata, Hydrate, Quiet, Goto, account, history
<1>3. CursorInv' /\ PageInv'
  BY <1>2, QuietFacts DEF SyncInv, CursorInv, PageInv, SettledUpTo, Due, Running, Discovering
<1>4. HydrationInv'
  <2> SUFFICES ASSUME ~fetchErr', NEW m \in page.new, Due(m, page.next)'
               PROVE  m \in Misread \/ m \in todo'
    BY <1>2 DEF HydrationInv
  <2>1. m \in Messages
    BY DEF SyncInv, TypeOK, SyncPage
  <2>2. Retrievable(m)
    BY <1>2, <2>1, QuietFacts DEF Due
  <2> QED BY <1>1, <2>2
<1> QED BY <1>2, <1>3, <1>4, QuietFacts DEF SyncInv

LEMMA LoopsKeepInv ==
  ASSUME SyncInv, TypeOK'
  PROVE  /\ LoopEnds => SyncInv'
         /\ \A m \in Messages :
              SaveEmail(m) \/ MarkTrashed(m) \/ MarkUntrashed(m) \/ DeleteRow(m) => SyncInv'
<1> USE DEF Goto, account, history
<1>1. LoopEnds => SyncInv'
  <2> SUFFICES ASSUME LoopEnds PROVE SyncInv'
    OBVIOUS
  <2>1. UNCHANGED <<server, cursor, held, page, fetchErr, beyond, slipped, everSaved>>
    BY DEF LoopEnds, NextLoop
  <2>2. pc \in Hydrated /\ pc' \in Hydrated /\ todo = {}
    BY DEF LoopEnds, NextLoop, Hydrated
  <2> QED BY <2>1, <2>2, HydratedStep
<1>2. ASSUME NEW m \in Messages, SaveEmail(m) PROVE SyncInv'
  BY <1>2, HydratedStep DEF SaveEmail, Hydrated
<1>3. ASSUME NEW m \in Messages, NEW phase \in {"trash", "restore", "delete"}, NEW row,
             NEW newTags, Apply(phase, m, row, newTags)
      PROVE  SyncInv'
  <2>1. UNCHANGED <<server, cursor, held, page, fetchErr, beyond, slipped, everSaved>>
    BY <1>3 DEF Apply
  <2>2. pc \in Hydrated /\ pc' = pc /\ pc # "save"
    BY <1>3 DEF Apply, Hydrated
  <2> QED BY <2>1, <2>2, HydratedStep
<1> QED BY <1>1, <1>2, <1>3 DEF MarkTrashed, MarkUntrashed, DeleteRow

LEMMA CommitKeepsInv == SyncInv /\ TypeOK' /\ UpdateCursor => SyncInv'
<1> SUFFICES ASSUME SyncInv, TypeOK', UpdateCursor PROVE SyncInv'
  OBVIOUS
<1>1. UNCHANGED <<server, everSaved, held, page>> /\ pc = "commit" /\ pc' = "gate"
  BY DEF UpdateCursor, CommitUnless, Goto, pass
<1>2. \A m \in Messages : Retrievable(m)' <=> Retrievable(m)
  BY <1>1 DEF server, Retrievable
<1>3. ServerInv'
  BY <1>1 DEF server, SyncInv, ServerInv
<1>4. PageInv' /\ HydrationInv'
  BY <1>1 DEF PageInv, HydrationInv, Running, Hydrated
<1>5. CASE fetchErr \/ ~linked
  <2>1. cursor' = cursor /\ beyond' = beyond /\ slipped' = slipped
    BY <1>5 DEF UpdateCursor, CommitUnless, account
  <2> QED BY <1>1, <1>2, <1>3, <1>4, <2>1 DEF server, SyncInv, CursorInv, SettledUpTo, Due, Running
<1>6. CASE ~fetchErr /\ linked
  <2>1. /\ cursor' = page.next
        /\ beyond' = IF page.initial THEN page.omitted ELSE beyond
        /\ slipped' = IF page.initial THEN page.missed ELSE slipped
    BY <1>6 DEF UpdateCursor, CommitUnless
  <2>2. held <= page.next /\ page.next <= tip /\ held <= tip
    BY <1>1 DEF SyncInv, PageInv, CursorInv, Running, Discovering
  <2>3. \A m \in Messages : Due(m, page.next) => m \in everSaved \cup Excused' \cup Misread
    <3>1. \A m \in page.new : Due(m, page.next) => m \in everSaved \cup Misread
      BY <1>1, <1>6 DEF SyncInv, HydrationInv, Hydrated
    <3> QED BY <1>1, <2>1, <3>1 DEF SyncInv, PageInv, Running, Discovering
  <2>4. \A m \in Messages : Due(m, held) => Due(m, page.next)
    <3>1. \A m \in Messages : at["arrive"][m] \in Nat
      BY DEF SyncInv, TypeOK, Op
    <3>2. held \in Int /\ page.next \in Int
      BY DEF SyncInv, TypeOK, Cursor, NoCursor, SyncPage
    <3> QED BY <2>2, <3>1, <3>2 DEF Due
  <2>5. SettledUpTo(cursor)' /\ SettledUpTo(held)'
    BY <1>1, <1>2, <2>1, <2>3, <2>4 DEF SettledUpTo, Due, server
  <2> QED BY <1>1, <1>3, <1>4, <2>1, <2>2, <2>5 DEF server, SyncInv, CursorInv, Running
<1> QED BY <1>3, <1>5, <1>6

\* Steps after the commit, and steps that end the pass.
LEMMA AfterCommitKeepsInv ==
  ASSUME SyncInv, TypeOK', Quiet, cursor' = cursor, pc' \notin Running,
         held' \in {held, NoCursor}
  PROVE  SyncInv'
<1>1. \A m \in Messages : at["arrive"][m] \in Nat
  BY DEF SyncInv, TypeOK, Op
<1>2. held' <= tip'
  BY QuietFacts DEF SyncInv, CursorInv, TypeOK, NoCursor
<1>3. SettledUpTo(cursor)' /\ SettledUpTo(held)'
  BY <1>1, QuietFacts DEF SyncInv, CursorInv, SettledUpTo, Due, NoCursor
<1>4. CursorInv'
  BY <1>2, <1>3, QuietFacts DEF SyncInv, CursorInv
<1>5. PageInv' /\ HydrationInv'
  BY DEF PageInv, HydrationInv, Running, Hydrated, Discovering
<1> QED BY <1>4, <1>5, QuietFacts DEF SyncInv

LEMMA EndKeepsInv ==
  ASSUME SyncInv, TypeOK'
  PROVE  /\ EnterClassifier \/ ClassifierDone \/ PurgeInbox \/ PurgeFindings
              \/ Fail \/ Crash => SyncInv'
         /\ \A m \in Messages : ClassifyEmail(m) => SyncInv'
<1> USE AfterCommitKeepsInv DEF Quiet, Goto, EndPass, Running, account, history
<1>1. EnterClassifier => SyncInv'
  BY DEF EnterClassifier, pass
<1>2. ClassifierDone => SyncInv'
  BY DEF ClassifierDone, pass
<1>3. PurgeInbox \/ PurgeFindings => SyncInv'
  <2> SUFFICES ASSUME PurgeInbox \/ PurgeFindings PROVE SyncInv'
    OBVIOUS
  <2>1. UNCHANGED <<server, account, history>>
    BY DEF PurgeInbox, PurgeFindings
  <2>2. pc' \in {"idle", "purge findings"} /\ held' \in {held, NoCursor}
    BY DEF PurgeInbox, PurgeFindings, pass
  <2> QED BY <2>1, <2>2
<1>4. Fail => SyncInv'
  BY DEF Fail
<1>5. Crash => SyncInv'
  BY DEF Crash
<1>6. ASSUME NEW m \in Messages, ClassifyEmail(m) PROVE SyncInv'
  BY <1>6 DEF ClassifyEmail
<1> QED BY <1>1, <1>2, <1>3, <1>4, <1>5, <1>6

\* The user never touches what the invariant is about, except by unlinking,
\* which forgets the cursor.
LEMMA UserKeepsInv == SyncInv /\ TypeOK' /\ UserStep => SyncInv'
<1> SUFFICES ASSUME SyncInv, TypeOK', UserStep PROVE SyncInv'
  OBVIOUS
<1>1. /\ Quiet /\ UNCHANGED <<pc, pass>>
      /\ cursor' \in {cursor, NoCursor}
  BY DEF UserStep, TrashEmail, RestoreEmail, DeleteForever, ClearFinding, UserWrites,
         UnlinkAccount, Quiet, account, history
<1>2. \A m \in Messages : at["arrive"][m] \in Nat
  BY DEF SyncInv, TypeOK, Op
<1>3. tip \in Nat /\ held \in Cursor /\ cursor \in Cursor
  BY DEF SyncInv, TypeOK
<1>4. CursorInv'
  <2>1. SettledUpTo(cursor)' /\ SettledUpTo(held)'
    BY <1>1, <1>2, QuietFacts DEF SyncInv, CursorInv, SettledUpTo, Due, NoCursor, pass
  <2>2. cursor' <= tip' /\ held' <= tip' /\ (pc' \in Running => cursor' <= held')
    BY <1>1, <1>3, QuietFacts DEF SyncInv, CursorInv, Cursor, NoCursor, pass
  <2> QED BY <2>1, <2>2 DEF CursorInv
<1>5. PageInv' /\ HydrationInv'
  BY <1>1, QuietFacts DEF SyncInv, PageInv, HydrationInv, Due, pass, TypeOK, SyncPage
<1> QED BY <1>1, <1>4, <1>5, QuietFacts DEF SyncInv

-----------------------------------------------------------------------------
(* The theorems.                                                           *)

LEMMA InitInv == Init => SyncInv
<1> SUFFICES ASSUME Init PROVE SyncInv
  OBVIOUS
<1>1. ServerInv
  BY DEF Init, ServerInv, Op
<1>2. CursorInv
  BY DEF Init, CursorInv, SettledUpTo, Due, Retrievable, NoCursor, Running
<1>3. PageInv /\ HydrationInv
  BY DEF Init, PageInv, HydrationInv, Running, Hydrated
<1> QED BY <1>1, <1>2, <1>3, InitTyped DEF SyncInv

LEMMA StepInv == SyncInv /\ [Next]_vars => SyncInv'
<1> SUFFICES ASSUME SyncInv, [Next]_vars PROVE SyncInv'
  OBVIOUS
<1>1. TypeOK'
  BY StepTyped DEF SyncInv
<1>2. CASE ServerStep
  BY <1>2, ServerKeepsInv
<1>3. CASE SyncStep
  BY <1>1, <1>3, BeforeDiscovery, IncrementalKeepsInv, InitialKeepsInv,
     HistoryIdKeepsInv, FetchKeepsInv,
     LoopsKeepInv, CommitKeepsInv, EndKeepsInv DEF SyncStep
<1>4. CASE FaultStep
  BY <1>1, <1>4, BeforeDiscovery, EndKeepsInv DEF FaultStep
<1>5. CASE UserStep
  BY <1>1, <1>5, UserKeepsInv
<1>6. CASE UNCHANGED vars
  <2>1. Quiet /\ UNCHANGED <<pc, pass, cursor>>
    BY <1>6 DEF vars, Quiet, account, history
  <2>2. CursorInv' /\ PageInv' /\ HydrationInv'
    BY <2>1, QuietFacts DEF SyncInv, CursorInv, PageInv, HydrationInv, SettledUpTo, Due, pass,
       TypeOK, SyncPage
  <2> QED BY <1>1, <2>1, <2>2, QuietFacts DEF SyncInv
<1> QED BY <1>2, <1>3, <1>4, <1>5, <1>6 DEF Next

\* What the cursor, the pass's copy of it, its page and its fetch results are worth
\* holds at every step of a pass (sync_page.rs, sync_one_account_inner).
THEOREM InvCorrect == Spec => []SyncInv
  BY InitInv, StepInv, PTL DEF Spec

\* A recorded cursor never hides mail that can still be fetched and was neither
\* stored, nor left out by the baseline, nor misread as missing.
THEOREM SafeCursorHolds == Spec => []SafeCursor
<1>1. SyncInv => SafeCursor
  BY DEF SyncInv, CursorInv, SettledUpTo, Due, SafeCursor
<1> QED BY <1>1, InvCorrect, PTL

\* If no error text is ever taken for a 404, the documented invariant holds.
THEOREM DocumentedCursorHolds ==
  ASSUME Misread = {}
  PROVE  Spec => []SafeCursorAsDocumented
<1>1. SyncInv => SafeCursorAsDocumented
  BY DEF SyncInv, CursorInv, SettledUpTo, Due, SafeCursorAsDocumented
<1> QED BY <1>1, InvCorrect, PTL

-----------------------------------------------------------------------------
(* The cursor, step by step.                                               *)

\* Only the commit and what forgets the cursor change it.
LEMMA CursorMoves ==
  ASSUME SyncInv, [Next]_vars
  PROVE  \/ cursor' = cursor
         \/ cursor' = NoCursor
         \/ UpdateCursor /\ ~fetchErr /\ linked
<1> USE DEF vars, server, account, mail, pass, history, EndPass, Goto
<1>1. CASE ServerStep
  BY <1>1 DEF ServerStep, Arrive, MoveToTrash, TakeBack, Expunge, ChangeFlags, Change
<1>2. CASE SyncStep
  <2>1. CASE StartPass \/ IncrementalSync \/ InitialSync \/ ListInbox \/ ReadHistoryId
    BY <2>1 DEF StartPass, IncrementalSync, InitialSync, ListInbox, ReadHistoryId, Discovered
  <2>2. CASE FetchMetadata \/ LoopEnds
    BY <2>2 DEF FetchMetadata, Hydrate, LoopEnds, NextLoop
  <2>3. ASSUME NEW m \in Messages, \/ SaveEmail(m) \/ MarkTrashed(m) \/ MarkUntrashed(m)
                                   \/ DeleteRow(m) \/ ClassifyEmail(m)
        PROVE  cursor' = cursor
    BY <2>3 DEF SaveEmail, MarkTrashed, MarkUntrashed, DeleteRow, Apply, ClassifyEmail
  <2>4. CASE UpdateCursor
    BY <2>4 DEF UpdateCursor, CommitUnless
  <2>5. CASE EnterClassifier \/ ClassifierDone \/ PurgeInbox \/ PurgeFindings
    BY <2>5 DEF EnterClassifier, ClassifierDone, PurgeInbox, PurgeFindings
  <2> QED BY <1>2, <2>1, <2>2, <2>3, <2>4, <2>5 DEF SyncStep
<1>3. CASE FaultStep
  BY <1>3 DEF FaultStep, CursorExpired, Unauthorized, Rediscover, Fail, Crash
<1>4. CASE UserStep
  BY <1>4 DEF UserStep, TrashEmail, RestoreEmail, DeleteForever, ClearFinding, UserWrites,
              UnlinkAccount
<1>5. CASE UNCHANGED vars
  BY <1>5
<1> QED BY <1>1, <1>2, <1>3, <1>4, <1>5 DEF Next

\* What a commit records is no older than what was recorded: no other pass
\* runs, and the page is no older than the copy it began with.
LEMMA CommitAdvances ==
  ASSUME SyncInv, UpdateCursor, ~fetchErr, linked
  PROVE  /\ cursor' = page.next /\ page.next \in 0..tip
         /\ cursor <= page.next
         /\ \A m \in Messages : Due(m, page.next) => m \in everSaved \cup Excused' \cup Misread
<1>1. /\ pc = "commit" /\ cursor' = page.next
      /\ beyond' = IF page.initial THEN page.omitted ELSE beyond
      /\ slipped' = IF page.initial THEN page.missed ELSE slipped
  BY DEF UpdateCursor, CommitUnless
<1>2. cursor \in Int /\ held \in Int /\ page.next \in Nat /\ tip \in Nat
  BY DEF SyncInv, TypeOK, SyncPage, Cursor, NoCursor
<1>3. cursor <= held /\ held <= page.next /\ page.next <= tip
  BY <1>1 DEF SyncInv, CursorInv, PageInv, Running, Discovering
<1>4. \A m \in page.new : Due(m, page.next) => m \in everSaved \cup Misread
  BY <1>1 DEF SyncInv, HydrationInv, Hydrated
<1>5. \A m \in Messages : Due(m, page.next) => m \in everSaved \cup Excused' \cup Misread
  BY <1>1, <1>4 DEF SyncInv, PageInv, Running, Discovering
<1>6. cursor <= page.next /\ page.next \in 0..tip
  BY <1>2, <1>3
<1> QED BY <1>1, <1>5, <1>6

\* A recorded cursor is replaced by a later one or forgotten, never moved back
\* (the copy of the account row in sync_page.rs).
THEOREM CursorNeverRegressesHolds == Spec => CursorNeverRegresses
<1>1. ASSUME SyncInv, [Next]_vars
      PROVE  [cursor # NoCursor /\ cursor' # NoCursor => cursor' >= cursor]_vars
  <2>1. cursor \in Int
    BY <1>1 DEF SyncInv, TypeOK, Cursor, NoCursor
  <2>2. CASE UpdateCursor /\ ~fetchErr /\ linked
    <3>1. cursor' = page.next /\ page.next \in Int /\ cursor <= page.next
      BY <1>1, <2>2, CommitAdvances
    <3> QED BY <2>1, <3>1
  <2> QED BY <1>1, <2>1, <2>2, CursorMoves
<1> QED BY <1>1, InvCorrect, PTL DEF Spec, CursorNeverRegresses

-----------------------------------------------------------------------------
(* The contract of the cursor.                                             *)

Alive == {m \in Messages : Retrievable(m)}

LEMMA ContractInit == Init => Contract!Init
<1> SUFFICES ASSUME Init PROVE Contract!Init
  OBVIOUS
<1>1. at["arrive"] = [m \in Messages |-> 0] /\ Alive = {}
  BY DEF Init, Alive, Retrievable, Op
<1>2. Excused \cup Misread \in SUBSET Messages
  BY ConstantsOK DEF Init
<1> QED BY <1>1, <1>2 DEF Contract!Init, Init, NoCursor, Contract!NoCursor, Alive

LEMMA ServerImplements ==
  ASSUME SyncInv, NEW m \in Messages,
         Arrive(m) \/ MoveToTrash(m) \/ TakeBack(m) \/ Expunge(m) \/ ChangeFlags(m)
  PROVE  Contract!Receive(m) \/ Contract!Touch(m)
<1>1. UNCHANGED <<cursor, everSaved, beyond, slipped>>
  BY DEF Arrive, MoveToTrash, TakeBack, Expunge, ChangeFlags, Change, account, history
<1>2. at \in [Op -> [Messages -> Nat]] /\ box \in [Messages -> Place]
  BY DEF SyncInv, TypeOK
<1>3. CASE Arrive(m)
  <2>1. tip' = tip + 1 /\ at' = [at EXCEPT !["arrive"] = [@ EXCEPT ![m] = tip + 1]]
        /\ box' = [box EXCEPT ![m] = "inbox"] /\ provider' = provider
    BY <1>3 DEF Arrive, Change
  <2>2. at'["arrive"] = [at["arrive"] EXCEPT ![m] = tip + 1]
    BY <1>2, <2>1 DEF Op
  <2>3. Alive' = Alive \cup {m}
    BY <1>2, <2>1 DEF Alive, Retrievable
  <2>4. at["arrive"][m] = 0
    BY <1>3 DEF Arrive, SyncInv, ServerInv
  <2> QED BY <1>1, <2>1, <2>2, <2>3, <2>4 DEF Contract!Receive, Alive
<1>4. ASSUME NEW op \in Op \ {"arrive"}, NEW place \in Place, Change(op, m, place),
             Alive' \in {Alive, Alive \ {m}}
      PROVE  Contract!Touch(m)
  <2>1. tip' = tip + 1 /\ at'["arrive"] = at["arrive"]
    BY <1>2, <1>4 DEF Change, Op
  <2> QED BY <1>1, <1>4, <2>1 DEF Contract!Touch, Alive
<1>5. ASSUME NEW op \in Op, NEW place \in Place, Change(op, m, place)
      PROVE  box' = [box EXCEPT ![m] = place] /\ provider' = provider
  BY <1>5 DEF Change
<1>6. ASSUME NEW op \in Op, NEW place \in Place, Change(op, m, place),
             \/ Retrievable(m)' <=> Retrievable(m)
             \/ ~Retrievable(m)'
      PROVE  Alive' \in {Alive, Alive \ {m}}
  <2>1. \A n \in Messages \ {m} : Retrievable(n)' <=> Retrievable(n)
    BY <1>2, <1>5, <1>6 DEF Retrievable
  <2> QED BY <1>6, <2>1 DEF Alive
<1>7. CASE MoveToTrash(m)
  <2>1. Change("trash", m, "trash") /\ box[m] = "inbox"
    BY <1>7 DEF MoveToTrash
  <2>2. (Retrievable(m)' <=> Retrievable(m)) \/ ~Retrievable(m)'
    BY <1>2, <1>5, <2>1 DEF Retrievable, Op, Place
  <2> QED BY <1>4, <1>6, <2>1, <2>2 DEF Op, Place
<1>8. CASE TakeBack(m)
  <2>1. Change("restore", m, "inbox") /\ box[m] = "trash" /\ provider = "gmail"
    BY <1>8 DEF TakeBack
  <2>2. (Retrievable(m)' <=> Retrievable(m)) \/ ~Retrievable(m)'
    BY <1>2, <1>5, <2>1 DEF Retrievable, Op, Place
  <2> QED BY <1>4, <1>6, <2>1, <2>2 DEF Op, Place
<1>9. CASE Expunge(m)
  <2>1. Change("delete", m, "gone")
    BY <1>9 DEF Expunge
  <2>2. ~Retrievable(m)'
    BY <1>2, <1>5, <2>1 DEF Retrievable, Op, Place
  <2> QED BY <1>4, <1>6, <2>1, <2>2 DEF Op, Place
<1>10. CASE ChangeFlags(m)
  <2>1. Change("update", m, "inbox") /\ box[m] = "inbox"
    BY <1>10 DEF ChangeFlags
  <2>2. Retrievable(m)' <=> Retrievable(m)
    BY <1>2, <1>5, <2>1 DEF Retrievable, Op, Place
  <2> QED BY <1>4, <1>6, <2>1, <2>2 DEF Op, Place
<1> QED BY <1>3, <1>7, <1>8, <1>9, <1>10

LEMMA CommitImplements ==
  ASSUME SyncInv, UpdateCursor, ~fetchErr, linked
  PROVE  Contract!Acknowledge(page.next, Excused' \cup Misread)
<1>1. /\ cursor' = page.next /\ page.next \in 0..tip /\ cursor <= page.next
      /\ \A m \in Messages : Due(m, page.next) => m \in everSaved \cup Excused' \cup Misread
  BY CommitAdvances
<1>2. UNCHANGED <<provider, tip, at, box, everSaved>>
  BY DEF UpdateCursor, CommitUnless, server
<1>3. Contract!Settled(page.next, Excused' \cup Misread)
  BY <1>1 DEF Contract!Settled, Due
<1>4. Alive' = Alive
  BY <1>2 DEF Alive, Retrievable
<1>5. page.next <= tip /\ page.next >= cursor
  <2>1. cursor \in Int /\ page.next \in Int /\ tip \in Int
    BY DEF SyncInv, TypeOK, SyncPage, Cursor, NoCursor
  <2> QED BY <1>1, <2>1
<1> QED BY <1>1, <1>2, <1>3, <1>4, <1>5 DEF Contract!Acknowledge, Alive

\* A step that changes nothing the contract speaks of but the cursor, which it may forget.
LEMMA OtherImplements ==
  ASSUME Quiet, cursor' \in {cursor, NoCursor}
  PROVE  Contract!Forget \/ UNCHANGED Contract!vars
<1>1. Alive' = Alive /\ UNCHANGED <<tip, at, everSaved, beyond, slipped>>
  BY DEF Quiet, server, Alive, Retrievable
<1>2. CASE cursor' = cursor
  BY <1>1, <1>2 DEF Contract!vars, Alive
<1>3. CASE cursor' = NoCursor
  BY <1>1, <1>3 DEF Contract!Forget, NoCursor, Contract!NoCursor, Alive
<1> QED BY <1>2, <1>3

LEMMA StepImplements ==
  ASSUME SyncInv, [Next]_vars
  PROVE  [Contract!Next]_(Contract!vars)
<1> USE DEF vars, account, mail, pass, history, EndPass, Goto
<1>1. CASE ServerStep
  <2>1. PICK m \in Messages :
          Arrive(m) \/ MoveToTrash(m) \/ TakeBack(m) \/ Expunge(m) \/ ChangeFlags(m)
    BY <1>1 DEF ServerStep
  <2> QED BY <2>1, ServerImplements DEF Contract!Next
<1>2. ASSUME NEW m \in Messages, SaveEmail(m) PROVE Contract!Next
  <2>1. /\ UNCHANGED <<provider, tip, at, box, cursor, beyond, slipped>>
        /\ everSaved' = everSaved \cup {m}
    BY <1>2 DEF SaveEmail, server
  <2>2. Alive' = Alive
    BY <2>1 DEF Alive, Retrievable
  <2>3. Contract!Deliver(m)
    BY <2>1, <2>2 DEF Contract!Deliver, Alive
  <2> QED BY <2>3 DEF Contract!Next
<1>3. CASE UpdateCursor /\ ~fetchErr /\ linked
  <2>1. Excused' \cup Misread \in SUBSET Messages
    <3>1. beyond' \subseteq Messages /\ slipped' \subseteq Messages
      BY <1>3 DEF UpdateCursor, CommitUnless, SyncInv, TypeOK, SyncPage
    <3> QED BY <3>1, ConstantsOK
  <2>2. page.next \in 0..tip
    BY <1>3, CommitAdvances
  <2> QED BY <1>3, <2>1, <2>2, CommitImplements DEF Contract!Next
<1>4. CASE UpdateCursor /\ (fetchErr \/ ~linked)
  <2>1. Quiet /\ cursor' = cursor
    BY <1>4 DEF UpdateCursor, CommitUnless, Quiet
  <2> QED BY <2>1, OtherImplements DEF Contract!Next
<1>5. ASSUME Quiet, cursor' \in {cursor, NoCursor} PROVE [Contract!Next]_(Contract!vars)
  BY <1>5, OtherImplements DEF Contract!Next
<1>6. CASE SyncStep
  <2>1. CASE StartPass \/ IncrementalSync \/ InitialSync \/ ListInbox \/ ReadHistoryId
    BY <1>5, <2>1 DEF StartPass, IncrementalSync, InitialSync, ListInbox, ReadHistoryId,
                      Discovered, Quiet
  <2>2. CASE FetchMetadata \/ LoopEnds
    BY <1>5, <2>2 DEF FetchMetadata, Hydrate, LoopEnds, NextLoop, Quiet
  <2>3. ASSUME NEW m \in Messages,
               MarkTrashed(m) \/ MarkUntrashed(m) \/ DeleteRow(m) \/ ClassifyEmail(m)
        PROVE  [Contract!Next]_(Contract!vars)
    BY <1>5, <2>3 DEF MarkTrashed, MarkUntrashed, DeleteRow, Apply, ClassifyEmail, Quiet
  <2>4. CASE EnterClassifier \/ ClassifierDone \/ PurgeInbox \/ PurgeFindings
    BY <1>5, <2>4 DEF EnterClassifier, ClassifierDone, PurgeInbox, PurgeFindings, Quiet
  <2> QED BY <1>2, <1>3, <1>4, <1>6, <2>1, <2>2, <2>3, <2>4 DEF SyncStep
<1>7. CASE FaultStep
  BY <1>5, <1>7 DEF FaultStep, CursorExpired, Unauthorized, Rediscover, Fail, Crash, Quiet
<1>8. CASE UserStep
  BY <1>5, <1>8 DEF UserStep, TrashEmail, RestoreEmail, DeleteForever, ClearFinding, UserWrites,
                    UnlinkAccount, Quiet
<1>9. CASE UNCHANGED vars
  BY <1>5, <1>9 DEF Quiet
<1> QED BY <1>1, <1>6, <1>7, <1>8, <1>9 DEF Next

\* Whatever the provider and however the pass, the server, the user and the
\* faults interleave: the recorded cursor acknowledges only what was delivered
\* or excused (sync_page.rs, the guard of update_sync_cursor).
THEOREM ContractHolds == Spec => ImplementsCursorContract
<1>1. Spec => Contract!Init /\ [][Contract!Next]_(Contract!vars)
  BY ContractInit, StepImplements, InvCorrect, PTL DEF Spec
<1> QED BY <1>1 DEF ImplementsCursorContract, Contract!Spec

-----------------------------------------------------------------------------
(* Rows and findings.                                                      *)

\* Every statement on a row, on its own.
LEMMA RowWritten ==
  ASSUME TypeOK, ReferentialIntegrity, linked' = linked,
         NEW m \in Messages, NEW row \in Row,
         rows' = [rows EXCEPT ![m] = row],
         rows[m] = "absent" => row = "absent" \/ linked,
         tags' = IF row = "absent" THEN tags \ {m} ELSE tags
  PROVE  ReferentialIntegrity'
  BY DEF TypeOK, ReferentialIntegrity, Row

LEMMA RowsKept ==
  ASSUME TypeOK, ReferentialIntegrity, [Next]_vars
  PROVE  ReferentialIntegrity'
<1> USE DEF vars, server, account, mail, pass, history, EndPass, Goto
<1>1. ASSUME UNCHANGED <<linked, rows, tags>> PROVE ReferentialIntegrity'
  BY <1>1 DEF ReferentialIntegrity
<1>2. CASE ServerStep
  BY <1>1, <1>2 DEF ServerStep, Arrive, MoveToTrash, TakeBack, Expunge, ChangeFlags, Change
<1>3. CASE SyncStep
  <2>1. CASE StartPass \/ IncrementalSync \/ InitialSync \/ ListInbox \/ ReadHistoryId
    BY <1>1, <2>1 DEF StartPass, IncrementalSync, InitialSync, ListInbox, ReadHistoryId, Discovered
  <2>2. CASE FetchMetadata \/ LoopEnds \/ UpdateCursor \/ EnterClassifier \/ ClassifierDone
    BY <1>1, <2>2 DEF FetchMetadata, Hydrate, LoopEnds, NextLoop, UpdateCursor, CommitUnless,
                      EnterClassifier, ClassifierDone
  <2>3. ASSUME NEW m \in Messages, SaveEmail(m) PROVE ReferentialIntegrity'
    <3>1. rows' = [rows EXCEPT ![m] = IF rows[m] = "absent" THEN "inbox" ELSE rows[m]]
          /\ UNCHANGED <<linked, tags>> /\ linked
      BY <2>3 DEF SaveEmail
    <3> QED BY <3>1 DEF ReferentialIntegrity, TypeOK, Row
  <2>4. ASSUME NEW m \in Messages, NEW phase, NEW row \in Row, NEW newTags,
               Apply(phase, m, row, newTags),
               newTags = IF row = "absent" THEN tags \ {m} ELSE tags
        PROVE  ReferentialIntegrity'
    <3>1. rows' = [rows EXCEPT ![m] = IF rows[m] = "absent" THEN "absent" ELSE row]
          /\ linked' = linked /\ tags' = newTags
      BY <2>4 DEF Apply, TypeOK
    <3> QED BY <2>4, <3>1 DEF ReferentialIntegrity, TypeOK, Row
  <2>5. ASSUME NEW m \in Messages, MarkTrashed(m) \/ MarkUntrashed(m) \/ DeleteRow(m)
        PROVE  ReferentialIntegrity'
    BY <2>4, <2>5 DEF MarkTrashed, MarkUntrashed, DeleteRow, Row
  <2>6. ASSUME NEW m \in Messages, ClassifyEmail(m) PROVE ReferentialIntegrity'
    BY <2>6 DEF ClassifyEmail, ReferentialIntegrity
  <2>7. CASE PurgeInbox \/ PurgeFindings
    <3>1. linked' = linked /\ ((\E S : Purge(S)) \/ UNCHANGED <<rows, tags>>)
      BY <2>7 DEF PurgeInbox, PurgeFindings
    <3> QED BY <1>1, <3>1 DEF Purge, ReferentialIntegrity, TypeOK
  <2> QED BY <1>3, <2>1, <2>2, <2>3, <2>5, <2>6, <2>7 DEF SyncStep
<1>4. CASE FaultStep
  BY <1>1, <1>4 DEF FaultStep, CursorExpired, Unauthorized, Rediscover, Fail, Crash
<1>5. CASE UserStep
  <2>1. ASSUME NEW m \in Messages, TrashEmail(m) \/ RestoreEmail(m) \/ DeleteForever(m)
        PROVE  ReferentialIntegrity'
    <3>1. PICK row \in Row : /\ rows' = [rows EXCEPT ![m] = row] /\ rows[m] # "absent"
                             /\ tags' = IF row = "absent" THEN tags \ {m} ELSE tags
      BY <2>1 DEF TrashEmail, RestoreEmail, DeleteForever, UserWrites, Row
    <3>2. linked' = linked
      BY <2>1 DEF TrashEmail, RestoreEmail, DeleteForever, UserWrites
    <3> QED BY <3>1, <3>2, RowWritten
  <2>2. ASSUME NEW m \in Messages, ClearFinding(m) PROVE ReferentialIntegrity'
    BY <2>2 DEF ClearFinding, UserWrites, ReferentialIntegrity
  <2>3. CASE UnlinkAccount
    BY <2>3 DEF UnlinkAccount, ReferentialIntegrity
  <2> QED BY <1>5, <2>1, <2>2, <2>3 DEF UserStep
<1>6. CASE UNCHANGED vars
  BY <1>1, <1>6
<1> QED BY <1>2, <1>3, <1>4, <1>5, <1>6 DEF Next

\* No email outlives its account and no finding its email, for any
\* interleaving of a pass with the user's deletions and the unlinking.
THEOREM ReferentialIntegrityHolds == Spec => []ReferentialIntegrity
<1>1. Init => ReferentialIntegrity
  BY DEF Init, ReferentialIntegrity
<1> QED BY <1>1, RowsKept, TypeCorrect, PTL DEF Spec

-----------------------------------------------------------------------------
(* A replayed page.                                                        *)

\* Everything a page asks to do to a row.
Asked == page.new \cup page.trashed \cup page.restored \cup page.deleted

\* m has changed since position n.
News(m, n) == \E op \in Op : at[op][m] > n

\* What a pass has still to apply was asked for by its page, and an incremental
\* page asks only for what is news to the copy of the cursor it began with.
NewsInv ==
  /\ pc \in Running \ Discovering => page.initial \/ \A m \in Asked : News(m, held)
  /\ pc \in Hydrated => todo \subseteq Asked
  /\ pc \notin Hydrated \ {"commit"} => todo = {}

LEMMA PagesOfNews ==
  ASSUME TypeOK, held \in Nat
  PROVE  \A p \in {GmailPage, OutlookPage, ImapPage} :
           \A m \in p.new \cup p.trashed \cup p.restored \cup p.deleted : News(m, held)
<1>1. \A op \in Op : \A m \in Since(op) : News(m, held)
  BY DEF Since, News
<1>2. \A m \in Touched : News(m, held)
  BY <1>1 DEF Touched
<1>3. {"arrive", "trash", "restore", "delete"} \subseteq Op
  BY DEF Op
<1> QED BY <1>1, <1>2, <1>3 DEF GmailPage, OutlookPage, ImapPage, PageOf

LEMMA DiscoveredNews ==
  ASSUME TypeOK, NewsInv, NEW p, NEW phase \in {"profile", "fetch"}, Discovered(p, phase),
         pc \in Discovering \cup {"profile"},
         \/ p.initial
         \/ \A m \in p.new \cup p.trashed \cup p.restored \cup p.deleted : News(m, held)
  PROVE  NewsInv'
<1>1. page' = p /\ pc' = phase /\ UNCHANGED <<at, held, todo>> /\ pc \notin Hydrated
  BY DEF Discovered, Goto, server, Discovering, Hydrated
<1>2. todo' = {} /\ pc' \notin Hydrated
  BY <1>1 DEF NewsInv, Hydrated
<1> QED BY <1>1, <1>2 DEF NewsInv, Asked, News

\* A step that reads nothing new of the server.
LEMMA KeptNews ==
  ASSUME NewsInv, UNCHANGED <<at, held, page>>, pc \in Running \ Discovering \/ pc' \notin Running,
         pc' \in Hydrated => todo' \subseteq Asked,
         pc' \notin Hydrated \ {"commit"} => todo' = {},
         pc' \notin Discovering
  PROVE  NewsInv'
  BY DEF NewsInv, Asked, News

LEMMA EndedNews ==
  ASSUME pc' \notin Running, todo' = {}
  PROVE  NewsInv'
  BY DEF NewsInv, Running, Hydrated

LEMMA NewsKept ==
  ASSUME TypeOK, ServerInv, CursorInv, NewsInv, [Next]_vars
  PROVE  NewsInv'
<1> USE DEF vars, server, account, mail, pass, history, EndPass, Goto
<1>1. ASSUME UNCHANGED <<at, pc, held, page, todo>> PROVE NewsInv'
  BY <1>1 DEF NewsInv, Asked, News
<1>2. CASE ServerStep
  <2>1. UNCHANGED <<pc, held, page, todo>>
    BY <1>2 DEF ServerStep, Arrive, MoveToTrash, TakeBack, Expunge, ChangeFlags, Change
  <2>2. PICK m \in Messages, op \in Op : \E place : Change(op, m, place)
    BY <1>2 DEF ServerStep, Arrive, MoveToTrash, TakeBack, Expunge, ChangeFlags, Op
  <2>3. \A o \in Op, n \in Messages : at'[o][n] \in {at[o][n], tip + 1}
    BY <2>2 DEF Change, TypeOK
  <2>4. \A o \in Op, n \in Messages : at[o][n] \in Nat /\ at[o][n] <= tip /\ tip \in Nat
    BY DEF TypeOK, ServerInv
  <2>5. \A n \in Messages : News(n, held) => News(n, held)'
    <3> SUFFICES ASSUME NEW n \in Messages, NEW o \in Op, at[o][n] > held
                 PROVE  at'[o][n] > held
      BY <2>1 DEF News
    <3> QED BY <2>3, <2>4 DEF TypeOK, Cursor, NoCursor
  <2>6. Asked \subseteq Messages
    BY DEF TypeOK, SyncPage, Asked
  <2> QED BY <2>1, <2>5, <2>6 DEF NewsInv, Asked
<1>3. CASE SyncStep
  <2>1. CASE StartPass
    BY <2>1 DEF StartPass, NewsInv, Running, Discovering, Hydrated
  <2>2. CASE IncrementalSync
    <3>1. held \in Nat /\ pc \in Discovering
      BY <2>2 DEF IncrementalSync, TypeOK, Cursor, Discovering
    <3> QED BY <2>2, <3>1, PagesOfNews, DiscoveredNews DEF IncrementalSync
  <2>3. CASE InitialSync \/ ListInbox
    <3>1. PICK S \in Listings, phase \in {"profile", "fetch"} : Discovered(InitialPage(S), phase)
      BY <2>3 DEF InitialSync, ListInbox
    <3>2. pc \in Discovering /\ InitialPage(S).initial
      BY <2>3 DEF InitialSync, ListInbox, Baseline, Discovering, InitialPage
    <3> QED BY <3>1, <3>2, DiscoveredNews
  <2>4. CASE ReadHistoryId
    <3>1. pc = "profile" /\ Discovered(Numbered, "fetch")
      BY <2>4 DEF ReadHistoryId, Numbered
    <3>2. page.initial \/ \A m \in Asked : News(m, held)
      BY <3>1 DEF NewsInv, Running, Discovering
    <3>3. /\ Numbered.new = page.new /\ Numbered.initial = page.initial
          /\ Numbered.trashed = page.trashed /\ Numbered.restored = page.restored
          /\ Numbered.deleted = page.deleted
      BY NumberedPage
    <3> QED BY <3>1, <3>2, <3>3, DiscoveredNews DEF Asked
  <2>5. CASE FetchMetadata
    <3>1. pc = "fetch" /\ pc' = "save" /\ UNCHANGED <<at, held, page>> /\ todo' \subseteq page.new
      BY <2>5 DEF FetchMetadata, Hydrate
    <3> QED BY <3>1, KeptNews DEF Asked, Running, Discovering, Hydrated
  <2>6. CASE LoopEnds
    <3>1. /\ pc \in Hydrated /\ pc' \in Hydrated /\ UNCHANGED <<at, held, page>>
          /\ todo' \in {page.trashed, page.restored, page.deleted, {}}
          /\ pc' = "commit" => todo' = {}
      BY <2>6 DEF LoopEnds, NextLoop, Hydrated
    <3> QED BY <3>1, KeptNews DEF Asked, Running, Discovering, Hydrated
  <2>7. ASSUME NEW m \in Messages, SaveEmail(m) \/ MarkTrashed(m) \/ MarkUntrashed(m) \/ DeleteRow(m)
        PROVE  NewsInv'
    <3>1. /\ pc \in Hydrated \ {"commit"} /\ pc' = pc /\ UNCHANGED <<at, held, page>>
          /\ todo' \subseteq todo
      BY <2>7 DEF SaveEmail, MarkTrashed, MarkUntrashed, DeleteRow, Apply, Hydrated
    <3>2. todo \subseteq Asked
      BY <3>1 DEF NewsInv
    <3> QED BY <3>1, <3>2, KeptNews DEF Running, Discovering, Hydrated
  <2>8. CASE UpdateCursor \/ EnterClassifier \/ ClassifierDone
    <3>1. pc \in {"commit", "gate", "classify"} /\ pc' \notin Running /\ todo' = todo
      BY <2>8 DEF UpdateCursor, CommitUnless, EnterClassifier, ClassifierDone, Running
    <3>2. todo = {}
      BY <3>1 DEF NewsInv, Hydrated
    <3> QED BY <3>1, <3>2, EndedNews
  <2>9. ASSUME NEW m \in Messages, ClassifyEmail(m) PROVE NewsInv'
    BY <1>1, <2>9 DEF ClassifyEmail
  <2>10. CASE PurgeInbox \/ PurgeFindings
    <3>1. pc' \notin Running /\ todo' = {}
      BY <2>10 DEF PurgeInbox, PurgeFindings, NewsInv, Running, Hydrated
    <3> QED BY <3>1, EndedNews
  <2> QED BY <1>3, <2>1, <2>2, <2>3, <2>4, <2>5, <2>6, <2>7, <2>8, <2>9, <2>10 DEF SyncStep
<1>4. CASE FaultStep
  <2>1. CASE CursorExpired \/ Unauthorized
    <3>1. pc \in Discovering \cup {"profile"} /\ pc' \in Discovering /\ todo' = todo
      BY <2>1 DEF CursorExpired, Unauthorized, Rediscover, Discovering
    <3> QED BY <3>1 DEF NewsInv, Running, Discovering, Hydrated
  <2>2. CASE Fail \/ Crash
    BY <2>2, EndedNews DEF Fail, Crash, Running
  <2> QED BY <1>4, <2>1, <2>2 DEF FaultStep
<1>5. CASE UserStep
  BY <1>1, <1>5 DEF UserStep, TrashEmail, RestoreEmail, DeleteForever, ClearFinding, UserWrites,
                    UnlinkAccount
<1>6. CASE UNCHANGED vars
  BY <1>1, <1>6
<1> QED BY <1>2, <1>3, <1>4, <1>5, <1>6 DEF Next

\* A row changes under a pass only for news its recorded cursor does not cover,
\* or under a new baseline: a replayed page undoes nothing the user did.
THEOREM OnlyNewsIsAppliedHolds == Spec => OnlyNewsIsApplied
<1>1. Init => NewsInv
  BY DEF Init, NewsInv, Running, Discovering, Hydrated
<1>2. SyncInv /\ NewsInv /\ [Next]_vars => NewsInv'
  BY NewsKept DEF SyncInv
<1>3. Spec => []NewsInv
  BY <1>1, <1>2, InvCorrect, PTL DEF Spec
<1>4. ASSUME SyncInv, NewsInv, [Next]_vars
      PROVE  [\A m \in todo \ todo' :
                rows'[m] # rows[m] => \/ page.initial
                                      \/ \E op \in Op : at[op][m] > cursor]_vars
  <2> SUFFICES ASSUME NEW m \in todo \ todo', rows'[m] # rows[m], ~page.initial
               PROVE  \E op \in Op : at[op][m] > cursor
    OBVIOUS
  <2>1. pc \in Hydrated
    BY <1>4 DEF NewsInv
  <2>2. m \in Messages /\ News(m, held)
    BY <1>4, <2>1 DEF NewsInv, SyncInv, TypeOK, Running, Discovering, Hydrated
  <2>3. cursor <= held /\ cursor \in Int /\ held \in Int
    BY <1>4, <2>1 DEF SyncInv, CursorInv, TypeOK, Cursor, NoCursor, Running, Hydrated
  <2>4. PICK op \in Op : at[op][m] > held
    BY <2>2 DEF News
  <2>5. at[op][m] \in Int
    BY <1>4, <2>2, <2>4 DEF SyncInv, TypeOK
  <2> QED BY <2>3, <2>4, <2>5
<1> QED BY <1>3, <1>4, InvCorrect, PTL DEF Spec, OnlyNewsIsApplied

=============================================================================
