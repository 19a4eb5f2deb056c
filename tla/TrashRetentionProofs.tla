------------------------ MODULE TrashRetentionProofs ------------------------
(***************************************************************************)
(* Theorems of TrashRetention for any messages, any default and any        *)
(* bounds on days and ages.                                                *)
(***************************************************************************)
EXTENDS TrashRetention, TLAPS

\* What a purge leaves, and what it has deleted.
LEMMA PurgeEffect ==
  ASSUME TypeOK, NEW d \in Days, Purge(d)
  PROVE  /\ mail' \in [Mail -> {Inbox, Gone} \cup Ages]
         /\ purgedAt' \subseteq Ages
         /\ \A age \in purgedAt' : age >= d
BY DEF Purge, TypeOK, Trashed

LEMMA InitTyped == Init => TypeOK
BY TrashRetentionConstantsOK DEF Init, TypeOK, Days, OptDays, OrDefault, Ages

\* Every step keeps the types.
LEMMA NextTyped == TypeOK /\ [Next]_vars => TypeOK'
<1> SUFFICES ASSUME TypeOK, [Next]_vars PROVE TypeOK' OBVIOUS
<1> USE TrashRetentionConstantsOK DEF TypeOK, editor, trash, past
<1>1. CASE MailStep
  <2>1. CASE Day BY <2>1 DEF Day, Trashed, Lower, Ages
  <2>2. ASSUME NEW m \in Mail, ToTrash(m) PROVE TypeOK' BY <2>2 DEF ToTrash, Ages
  <2>3. ASSUME NEW m \in Mail, Restore(m) PROVE TypeOK' BY <2>3 DEF Restore
  <2>4. ASSUME NEW m \in Mail, EmptyTrash({m}) PROVE TypeOK' BY <2>4 DEF EmptyTrash
  <2> QED BY <1>1, <2>1, <2>2, <2>3, <2>4 DEF MailStep
<1>2. CASE EditorStep
  <2>1. CASE OpenSettings BY <2>1 DEF OpenSettings, OptDays, Days
  <2>2. CASE LoadReads BY <2>2 DEF LoadReads, OptDays
  <2>3. CASE LoadEnds BY <2>3 DEF LoadEnds, OptDays
  <2>4. CASE TypeText BY <2>4 DEF TypeText, OptDays
  <2>5. CASE LeaveSettings
    <3>1. CASE setting' \in writing /\ shortest' = Lower(shortest, setting') /\ UNCHANGED <<mail, purgedAt>>
      BY <2>5, <3>1 DEF LeaveSettings, Lower, OptDays, Days
    <3>2. ASSUME NEW d \in purging, Purge(d), UNCHANGED <<setting, shortest>> PROVE TypeOK'
      BY <2>5, <3>2, PurgeEffect DEF LeaveSettings, OptDays, Days
    <3>3. CASE UNCHANGED <<setting, mail, past>> BY <2>5, <3>3 DEF LeaveSettings, OptDays, Days
    <3> QED BY <2>5, <3>1, <3>2, <3>3 DEF LeaveSettings
  <2>6. ASSUME NEW d \in 0..(MaxDays + 1), Save(d) PROVE TypeOK'
    <3>1. Lower(d, MaxDays) \in Days BY DEF Lower, Days
    <3> QED BY <2>6, <3>1 DEF Save, OptDays
  <2>7. ASSUME NEW d \in Days, Write(d) PROVE TypeOK' BY <2>7 DEF Write, Lower, OptDays, Days
  <2>8. ASSUME NEW d \in Days, PurgeSaved(d) PROVE TypeOK' BY <2>8, PurgeEffect DEF PurgeSaved
  <2>9. CASE Wipe BY <2>9 DEF Wipe, OptDays
  <2> QED BY <1>2, <2>1, <2>2, <2>3, <2>4, <2>5, <2>6, <2>7, <2>8, <2>9 DEF EditorStep
<1>3. CASE TrashStep
  <2>1. CASE OpenTrash BY <2>1 DEF OpenTrash, OrDefault, OptDays, Days
  <2>2. CASE ShowRetention BY <2>2 DEF ShowRetention, OrDefault, OptDays, Days
  <2>3. CASE PagePurges
    <3>1. pagePurge \in Days BY <2>3 DEF PagePurges, OptDays
    <3> QED BY <2>3, <3>1, PurgeEffect DEF PagePurges, OptDays
  <2>4. CASE LeaveTrash BY <2>4 DEF LeaveTrash, OptDays
  <2>5. CASE EmptyTrash(Mail) BY <2>5 DEF EmptyTrash
  <2> QED BY <1>3, <2>1, <2>2, <2>3, <2>4, <2>5 DEF TrashStep
<1>4. CASE WorkerStep
  <2>0. ASSUME Tick \/ UNCHANGED pagePurge PROVE pagePurge' \in OptDays
    BY <2>0 DEF Tick, OrDefault, OptDays, Days
  <2>1. CASE ReadRetention BY <2>1 DEF ReadRetention, OrDefault, OptDays, Days
  <2>2. CASE ReadFails BY <2>2 DEF ReadFails, OptDays, Days
  <2>3. CASE WorkerPurges
    <3>1. retention \in Days BY <2>3 DEF WorkerPurges, OptDays
    <3>2. Purge(retention) /\ pagePurge' \in OptDays BY <2>0, <2>3 DEF WorkerPurges
    <3> QED BY <2>3, <3>1, <3>2, PurgeEffect DEF WorkerPurges, OptDays
  <2>4. CASE PurgeFails
    <3>1. pagePurge' \in OptDays BY <2>0, <2>4 DEF PurgeFails
    <3> QED BY <2>4, <3>1 DEF PurgeFails, OptDays
  <2> QED BY <1>4, <2>1, <2>2, <2>3, <2>4 DEF WorkerStep
<1>5. CASE UNCHANGED vars BY <1>5 DEF vars
<1> QED BY <1>1, <1>2, <1>3, <1>4, <1>5 DEF Next

\* Type correctness of the setting, its editor, the Trash page, the worker and the messages.
THEOREM TypeCorrect == Spec => []TypeOK
<1> QED BY InitTyped, NextTyped, PTL DEF Spec

-----------------------------------------------------------------------------
Least == Lower(shortest, Default)

\* Every number of days on its way to a purge is at least the shortest retention so far, or
\* the default.
NothingEarlier ==
  /\ OrDefault(setting) >= Least /\ OrDefault(shown) >= Least
  /\ pagePurge # None => pagePurge >= Least
  /\ retention # None => retention >= Least
  /\ \A d \in purging : d >= Least
  /\ \A age \in purgedAt : age >= Least

LEMMA InitEarlier == Init => NothingEarlier
BY TrashRetentionConstantsOK DEF Init, NothingEarlier, Least, Lower, OrDefault, OptDays, Days

LEMMA NextEarlier == TypeOK /\ NothingEarlier /\ [Next]_vars => NothingEarlier'
<1> SUFFICES ASSUME TypeOK, NothingEarlier, [Next]_vars PROVE NothingEarlier' OBVIOUS
<1> USE TrashRetentionConstantsOK DEF NothingEarlier, editor, trash, past
<1>0. /\ Least \in Days /\ Least <= Default /\ Default \in Days /\ Days \subseteq Nat
      /\ setting \in OptDays /\ shown \in OptDays /\ pagePurge \in OptDays /\ retention \in OptDays
      /\ purging \subseteq Days /\ purgedAt \subseteq Ages /\ shortest \in Days
  BY DEF TypeOK, Least, Lower, Days
<1>1. CASE MailStep
  <2>1. UNCHANGED <<setting, page, editor, trash, retention, past>>
    BY <1>1 DEF MailStep, Day, ToTrash, Restore, EmptyTrash
  <2> QED BY <2>1 DEF Least, OrDefault
<1>2. CASE EditorStep
  <2>1. CASE OpenSettings BY <2>1 DEF OpenSettings, Least, OrDefault
  <2>2. CASE LoadReads BY <2>2 DEF LoadReads, Least, OrDefault
  <2>3. CASE LoadEnds BY <2>3 DEF LoadEnds, Least, OrDefault
  <2>4. CASE TypeText BY <2>4 DEF TypeText, Least, OrDefault
  <2>5. CASE LeaveSettings
    <3>1. CASE setting' \in writing /\ shortest' = Lower(shortest, setting') /\ UNCHANGED <<mail, purgedAt>>
      <4>1. setting' \in Days BY <3>1 DEF TypeOK
      <4>2. Least' <= Least /\ Least' <= setting' /\ Least' \in Days
        BY <1>0, <3>1, <4>1 DEF Least, Lower, Days
      <4> QED BY <1>0, <2>5, <3>1, <4>1, <4>2 DEF LeaveSettings, OrDefault, OptDays, Days, Ages
    <3>2. ASSUME NEW d \in purging, Purge(d), UNCHANGED <<setting, shortest>> PROVE NothingEarlier'
      <4>1. d >= Least /\ d \in Days BY <1>0
      <4>2. \A age \in purgedAt' : age \in Ages /\ age >= d BY <3>2, <4>1, PurgeEffect
      <4>3. Least' = Least BY <3>2 DEF Least
      <4> QED BY <1>0, <2>5, <3>2, <4>1, <4>2, <4>3 DEF LeaveSettings, OrDefault, Days, Ages
    <3>3. CASE UNCHANGED <<setting, mail, past>> BY <2>5, <3>3 DEF LeaveSettings, Least, OrDefault
    <3> QED BY <2>5, <3>1, <3>2, <3>3 DEF LeaveSettings
  <2>6. ASSUME NEW d \in 0..(MaxDays + 1), Save(d) PROVE NothingEarlier'
    BY <2>6 DEF Save, Least, OrDefault
  <2>7. ASSUME NEW d \in Days, Write(d) PROVE NothingEarlier'
    <3>1. Least' <= Least /\ Least' <= d /\ Least' \in Days
      BY <1>0, <2>7 DEF Write, Least, Lower, Days
    <3>2. setting' \in {setting, d} /\ purging' = purging \cup {d} BY <2>7 DEF Write
    <3> QED BY <1>0, <2>7, <3>1, <3>2 DEF Write, OrDefault, OptDays, Days, Ages
  <2>8. ASSUME NEW d \in Days, PurgeSaved(d) PROVE NothingEarlier'
    <3>1. d >= Least BY <2>8 DEF PurgeSaved
    <3>2. \A age \in purgedAt' : age \in Ages /\ age >= d BY <2>8, PurgeEffect DEF PurgeSaved
    <3>3. Least' = Least BY <2>8 DEF PurgeSaved, Least
    <3> QED BY <1>0, <2>8, <3>1, <3>2, <3>3 DEF PurgeSaved, OrDefault, Days, Ages
  <2>9. CASE Wipe BY <1>0, <2>9 DEF Wipe, Least, OrDefault, Days
  <2> QED BY <1>2, <2>1, <2>2, <2>3, <2>4, <2>5, <2>6, <2>7, <2>8, <2>9 DEF EditorStep
<1>3. CASE TrashStep
  <2>1. CASE OpenTrash BY <1>0, <2>1 DEF OpenTrash, Least, OrDefault
  <2>2. CASE ShowRetention BY <1>0, <2>2 DEF ShowRetention, Least, OrDefault, OptDays, Days
  <2>3. CASE PagePurges
    <3>1. pagePurge \in Days /\ pagePurge >= Least BY <1>0, <2>3 DEF PagePurges, OptDays
    <3>2. \A age \in purgedAt' : age \in Ages /\ age >= pagePurge
      BY <2>3, <3>1, PurgeEffect DEF PagePurges
    <3>3. Least' = Least BY <2>3 DEF PagePurges, Least
    <3> QED BY <1>0, <2>3, <3>1, <3>2, <3>3 DEF PagePurges, OrDefault, Days, Ages
  <2>4. CASE LeaveTrash BY <1>0, <2>4 DEF LeaveTrash, Least, OrDefault, Days
  <2>5. CASE EmptyTrash(Mail) BY <2>5 DEF EmptyTrash, Least, OrDefault
  <2> QED BY <1>3, <2>1, <2>2, <2>3, <2>4, <2>5 DEF TrashStep
<1>4. CASE WorkerStep
  <2>1. CASE ReadRetention BY <1>0, <2>1 DEF ReadRetention, Least, OrDefault
  <2>2. CASE ReadFails BY <1>0, <2>2 DEF ReadFails, Least, OrDefault, Days
  <2>3. CASE WorkerPurges
    <3>1. retention \in Days /\ retention >= Least BY <1>0, <2>3 DEF WorkerPurges, OptDays
    <3>2. \A age \in purgedAt' : age \in Ages /\ age >= retention
      BY <2>3, <3>1, PurgeEffect DEF WorkerPurges
    <3>3. Least' = Least /\ pagePurge' \in {pagePurge, OrDefault(shown)}
      BY <2>3 DEF WorkerPurges, Tick, Least
    <3> QED BY <1>0, <2>3, <3>1, <3>2, <3>3 DEF WorkerPurges, OrDefault, Days, Ages
  <2>4. CASE PurgeFails BY <1>0, <2>4 DEF PurgeFails, Tick, Least, OrDefault
  <2> QED BY <1>4, <2>1, <2>2, <2>3, <2>4 DEF WorkerStep
<1>5. CASE UNCHANGED vars BY <1>5 DEF vars, Least, OrDefault
<1> QED BY <1>1, <1>2, <1>3, <1>4, <1>5 DEF Next

\* No automatic purge deletes a message before the shortest retention the user has had in
\* force, the default included.
THEOREM NoEarlyPurgeHolds == Spec => []NoEarlyPurge
<1>1. NothingEarlier => NoEarlyPurge BY DEF NothingEarlier, NoEarlyPurge, Least
<1> QED BY <1>1, InitTyped, NextTyped, InitEarlier, NextEarlier, PTL DEF Spec

-----------------------------------------------------------------------------
(* The editor of the settings page.                                        *)

\* While nothing has gone wrong with the editor since its read or its last save made alone: the
\* read finds the setting untouched by saves, and a save under way is the only one and of the
\* number in the field.
EditorInv ==
  /\ page # "settings" => writing = {}
  /\ page = "settings" /\ ~clash =>
       /\ load # "idle" => writing = {} /\ field \in {None, Default}
       /\ load = "read" => found = setting
       /\ \A d \in writing : writing = {d} /\ field \in {None, d}
       /\ load = "idle" /\ writing = {} => field \in {None, OrDefault(setting)}

LEMMA InitEdited == Init => EditorInv
BY DEF Init, EditorInv

LEMMA NextEdited == TypeOK /\ EditorInv /\ [Next]_vars => EditorInv'
<1> SUFFICES ASSUME TypeOK, EditorInv, [Next]_vars PROVE EditorInv' OBVIOUS
<1> USE DEF editor, trash, past
<1>1. ASSUME UNCHANGED <<setting, field, load, found, writing, clash>>,
             page' # page => page # "settings" /\ page' # "settings"
      PROVE  EditorInv'
  BY <1>1 DEF EditorInv, OrDefault
<1>2. CASE MailStep
  BY <1>1, <1>2 DEF MailStep, Day, ToTrash, Restore, EmptyTrash
<1>3. CASE TrashStep
  BY <1>1, <1>3 DEF TrashStep, OpenTrash, ShowRetention, PagePurges, LeaveTrash, EmptyTrash
<1>4. CASE WorkerStep
  BY <1>1, <1>4 DEF WorkerStep, ReadRetention, ReadFails, WorkerPurges, PurgeFails
<1>5. CASE EditorStep
  <2>1. CASE OpenSettings BY <2>1 DEF OpenSettings, EditorInv
  <2>2. CASE LoadReads BY <2>2 DEF LoadReads, EditorInv
  <2>3. CASE LoadEnds
    <3>1. page = "settings" /\ ~clash => writing = {} /\ field \in {None, Default} /\ found = setting
      BY <2>3 DEF LoadEnds, EditorInv
    <3>2. field' = IF found = None THEN field ELSE found
      BY <2>3 DEF LoadEnds
    <3> QED BY <2>3, <3>1, <3>2 DEF LoadEnds, EditorInv, OrDefault
  <2>4. CASE TypeText BY <2>4 DEF TypeText, EditorInv
  <2>5. CASE LeaveSettings BY <2>5 DEF LeaveSettings, EditorInv
  <2>6. ASSUME NEW d \in 0..(MaxDays + 1), Save(d) PROVE EditorInv'
    BY <2>6 DEF Save, EditorInv
  <2>7. ASSUME NEW d \in Days, Write(d) PROVE EditorInv'
    <3>1. page = "settings" /\ page' = page /\ load' = load /\ field' = field
      BY <2>7 DEF Write, EditorInv
    <3>2. CASE clash' BY <3>1, <3>2 DEF EditorInv
    <3>3. CASE ~clash'
      <4>1. setting' = d /\ ~clash
        BY <2>7, <3>3 DEF Write
      <4>2. writing' = {} /\ load = "idle" /\ field \in {None, d}
        BY <2>7, <3>1, <4>1 DEF Write, EditorInv
      <4>3. OrDefault(setting)' = d
        BY <4>1, TrashRetentionConstantsOK DEF OrDefault, Days
      <4> QED BY <3>1, <4>2, <4>3 DEF EditorInv
    <3> QED BY <3>2, <3>3
  <2>8. ASSUME NEW d \in Days, PurgeSaved(d) PROVE EditorInv'
    BY <1>1, <2>8 DEF PurgeSaved
  <2>9. CASE Wipe
    <3>1. ~clash' => ~clash /\ (load = "sent" \/ writing # {})
      BY <2>9 DEF Wipe, TypeOK
    <3> QED BY <2>9, <3>1 DEF Wipe, EditorInv
  <2> QED BY <1>5, <2>1, <2>2, <2>3, <2>4, <2>5, <2>6, <2>7, <2>8, <2>9 DEF EditorStep
<1>6. CASE UNCHANGED vars BY <1>1, <1>6 DEF vars
<1> QED BY <1>2, <1>3, <1>4, <1>5, <1>6 DEF Next

\* The editor shows the retention in force when its reads and saves are done, unless the last of
\* them failed or overlapped, or a wipe came after it; a save made alone repairs what earlier
\* ones have torn (trash_retention.rs).
THEOREM FieldShowsSettingHolds == Spec => []FieldShowsSetting
<1>1. EditorInv => FieldShowsSetting BY DEF EditorInv, FieldShowsSetting
<1> QED BY <1>1, InitTyped, NextTyped, InitEdited, NextEdited, PTL DEF Spec
=============================================================================
