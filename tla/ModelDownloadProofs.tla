-------------------------- MODULE ModelDownloadProofs --------------------------
(***************************************************************************)
(* Theorems of ModelDownload for any catalog, number of chunks and number  *)
(* of downloads at a time: what is on the disk is whole, the row tells the *)
(* truth, and so does the end of a pull.                                   *)
(***************************************************************************)
EXTENDS ModelDownload, TLAPS

-----------------------------------------------------------------------------
(* The inductive invariant.                                                *)

\* What a download holds by its stage.
TaskInv ==
  \A i \in Slots :
    /\ IF stage[i] = "free" THEN job[i] = None ELSE job[i] \in Models
    /\ stage[i] \in {"free", "asking"} => pos[i] = 0 /\ handle[i] = "nowhere"

\* Two downloads of one model have overlapped.
AloneInv == \A i, k \in Busy : i # k /\ job[i] = job[k] => job[i] \in overlapped

\* A download that has its model for itself: the model is not there yet, and the .part file
\* holds the chunks written so far, all of them before the rename.
Sole == {i \in Busy : job[i] \notin overlapped}
SoleInv ==
  \A i \in Sole :
    /\ job[i] \notin files /\ stage[i] # "removing"
    /\ stage[i] # "asking" => handle[i] = "part" /\ got[job[i]] = 1..pos[i]
    /\ stage[i] = "renaming" => pos[i] = Chunks

DiskInv == TypeOK /\ TaskInv /\ AloneInv /\ SoleInv /\ InstalledIsWhole
RowInv == (~crowded => \A i, k \in Busy : i = k) /\ DownloadShown
PullInv == \A r \in Remotes : pull[r] = "success" => r \in registered

-----------------------------------------------------------------------------
(* Types.                                                                  *)

LEMMA InitTyped == Init => TypeOK
<1> USE DownloadConstantsOK
<1> SUFFICES ASSUME Init PROVE TypeOK
  OBVIOUS
<1>1. job \in [Slots -> Models \cup {None}] /\ pos \in [Slots -> 0..Chunks]
  BY DEF Init, NoJob, Start
<1>2. /\ stage \in [Slots -> {"free", "asking", "writing", "removing", "renaming"}]
      /\ handle \in [Slots -> {"part", "final", "nowhere"}]
  BY DEF Init, Free, NoFile
<1>3. got \in [Models -> SUBSET All] /\ whole \in [Models -> SUBSET All]
  BY DEF Init, Empty
<1>4. pull \in [Remotes -> {"none", "asking", "streaming", "success"}]
  BY DEF Init, NoPull
<1>5. page \in BOOLEAN /\ downloadError \in BOOLEAN /\ crowded \in BOOLEAN /\ pullError \in BOOLEAN
  BY DEF Init
<1> QED BY <1>1, <1>2, <1>3, <1>4, <1>5 DEF Init, TypeOK

\* The variables of the running downloads and of the signals they set.
TasksTyped ==
  /\ job \in [Slots -> Models \cup {None}] /\ pos \in [Slots -> 0..Chunks]
  /\ stage \in [Slots -> {"free", "asking", "writing", "removing", "renaming"}]
  /\ handle \in [Slots -> {"part", "final", "nowhere"}]

DiskTyped ==
  /\ parts \subseteq Models /\ files \subseteq Models
  /\ got \in [Models -> SUBSET All] /\ whole \in [Models -> SUBSET All]

RowTyped ==
  /\ downloading \in Models \cup {None} /\ downloadError \in BOOLEAN
  /\ overlapped \subseteq Models /\ crowded \in BOOLEAN

LEMMA BuiltinTyped ==
  ASSUME TypeOK, TaskInv, BuiltinStep
  PROVE  TypeOK'
<1> USE DownloadConstantsOK DEF ollama, pulls
<1>1. TasksTyped /\ DiskTyped /\ RowTyped
  BY DEF TypeOK, TasksTyped, DiskTyped, RowTyped
<1>2. ASSUME TasksTyped', DiskTyped', RowTyped', UNCHANGED <<page, tab, ollama, pulls>>
      PROVE  TypeOK'
  BY <1>2 DEF TypeOK, TasksTyped, DiskTyped, RowTyped
<1>3. ASSUME NEW i \in Slots, stage[i] # "free" PROVE job[i] \in Models
  BY <1>3 DEF TaskInv
<1>4. ASSUME NEW m \in Models, NEW from, NEW to \in {"part", "final", "nowhere"}
      PROVE  Moved(m, from, to) \in [Slots -> {"part", "final", "nowhere"}]
  BY <1>1 DEF Moved, TasksTyped
<1>5. ASSUME NEW i \in Slots, EndTask(i), NEW error \in BOOLEAN, DownloadEnds(error)
      PROVE  /\ job' \in [Slots -> Models \cup {None}] /\ pos' \in [Slots -> 0..Chunks]
             /\ stage' \in [Slots -> {"free", "asking", "writing", "removing", "renaming"}]
             /\ RowTyped'
  <2>1. /\ job' \in [Slots -> Models \cup {None}] /\ pos' \in [Slots -> 0..Chunks]
        /\ stage' \in [Slots -> {"free", "asking", "writing", "removing", "renaming"}]
    BY <1>1, <1>5 DEF EndTask, TasksTyped
  <2>2. crowded' \in BOOLEAN /\ downloadError' \in BOOLEAN
    BY <1>1, <1>5, Zenon DEF EndTask, DownloadEnds, RowTyped
  <2>3. downloading' \in Models \cup {None} /\ overlapped' \subseteq Models
    BY <1>1, <1>5 DEF DownloadEnds, RowTyped
  <2> QED BY <2>1, <2>2, <2>3 DEF RowTyped
<1>6. ASSUME NEW i \in Slots, NEW m \in Models, ClickDownload(i, m) PROVE TypeOK'
  <2>1. TasksTyped'
    BY <1>1, <1>6 DEF ClickDownload, Begin, TasksTyped
  <2>2. overlapped' \subseteq Models
    BY <1>1, <1>6 DEF ClickDownload, Begin, RowTyped
  <2>3. downloading' \in Models \cup {None} /\ downloadError' \in BOOLEAN /\ crowded' \in BOOLEAN
    BY <1>6 DEF ClickDownload, Begin
  <2>4. DiskTyped'
    BY <1>1, <1>6 DEF ClickDownload, Begin, disk, DiskTyped
  <2> QED BY <1>2, <1>6, <2>1, <2>2, <2>3, <2>4 DEF ClickDownload, Begin, RowTyped
<1>7. ASSUME NEW i \in Slots, CreatePart(i) PROVE TypeOK'
  <2>1. job[i] \in Models
    BY <1>3, <1>7 DEF CreatePart
  <2>2. TasksTyped' /\ DiskTyped' /\ RowTyped'
    BY <1>1, <1>7, <2>1 DEF CreatePart, TasksTyped, DiskTyped, RowTyped, row
  <2> QED BY <1>2, <1>7, <2>2 DEF CreatePart
<1>8. ASSUME NEW i \in Slots, WriteChunk(i) PROVE TypeOK'
  <2>1. job[i] \in Models /\ pos[i] + 1 \in All
    BY <1>1, <1>3, <1>8 DEF WriteChunk, TasksTyped, All
  <2>2. TasksTyped'
    BY <1>1, <1>8, <2>1 DEF WriteChunk, TasksTyped, All
  <2>3. got' \in [Models -> SUBSET All]
    BY <1>1, <1>8, <2>1 DEF WriteChunk, DiskTyped
  <2>4. whole' \in [Models -> SUBSET All]
    BY <1>1, <1>8, <2>1 DEF WriteChunk, DiskTyped
  <2>5. RowTyped'
    BY <1>1, <1>8 DEF WriteChunk, RowTyped, row
  <2> QED BY <1>1, <1>2, <1>8, <2>2, <2>3, <2>4, <2>5 DEF WriteChunk, DiskTyped
<1>9. ASSUME NEW i \in Slots, StreamEnds(i) PROVE TypeOK'
  <2>1. TasksTyped' /\ DiskTyped' /\ RowTyped'
    BY <1>1, <1>9 DEF StreamEnds, Written, TasksTyped, DiskTyped, RowTyped, row, disk
  <2> QED BY <1>2, <1>9, <2>1 DEF StreamEnds, Written
<1>10. ASSUME NEW i \in Slots, RemoveOld(i) PROVE TypeOK'
  <2>1. job[i] \in Models
    BY <1>3, <1>10 DEF RemoveOld
  <2>2. handle' \in [Slots -> {"part", "final", "nowhere"}]
    BY <1>1, <1>4, <1>10, <2>1 DEF RemoveOld, TasksTyped
  <2>3. TasksTyped' /\ DiskTyped' /\ RowTyped'
    BY <1>1, <1>10, <2>1, <2>2 DEF RemoveOld, TasksTyped, DiskTyped, RowTyped, row
  <2> QED BY <1>2, <1>10, <2>3 DEF RemoveOld
<1>11. ASSUME NEW i \in Slots, Rename(i) PROVE TypeOK'
  <2>1. job[i] \in Models /\ EndTask(i) /\ DownloadEnds(FALSE)
    BY <1>3, <1>11 DEF Rename
  <2>2. handle' \in [Slots -> {"part", "final", "nowhere"}]
    <3>1. Moved(job[i], "part", "final") \in [Slots -> {"part", "final", "nowhere"}]
      BY <1>4, <2>1
    <3> QED BY <1>11, <3>1 DEF Rename
  <2>3. DiskTyped'
    BY <1>1, <1>11, <2>1 DEF Rename, DiskTyped
  <2>4. TasksTyped' /\ RowTyped'
    BY <1>5, <2>1, <2>2 DEF TasksTyped
  <2> QED BY <1>2, <1>11, <2>3, <2>4 DEF Rename
<1>12. ASSUME NEW i \in Slots, DownloadFails(i) PROVE TypeOK'
  <2>1. EndTask(i) /\ DownloadEnds(TRUE) /\ DiskTyped'
        /\ handle' \in [Slots -> {"part", "final", "nowhere"}]
    BY <1>1, <1>12 DEF DownloadFails, DiskTyped, disk, TasksTyped
  <2>2. TasksTyped' /\ RowTyped'
    BY <1>5, <2>1 DEF TasksTyped
  <2> QED BY <1>2, <1>12, <2>1, <2>2 DEF DownloadFails
<1>13. ASSUME NEW m \in Models, DeleteModel(m) PROVE TypeOK'
  <2>1. handle' \in [Slots -> {"part", "final", "nowhere"}]
    BY <1>4, <1>13 DEF DeleteModel
  <2>2. TasksTyped' /\ DiskTyped' /\ RowTyped'
    BY <1>1, <1>13, <2>1 DEF DeleteModel, TasksTyped, DiskTyped, RowTyped, row
  <2> QED BY <1>2, <1>13, <2>2 DEF DeleteModel
<1> QED BY <1>6, <1>7, <1>8, <1>9, <1>10, <1>11, <1>12, <1>13 DEF BuiltinStep, TaskStep

LEMMA OllamaTyped ==
  ASSUME TypeOK, OllamaStep
  PROVE  TypeOK'
<1> USE DownloadConstantsOK DEF TypeOK
<1> DEFINE Ollama == /\ daemon \in {"off", "starting", "on"} /\ registry \subseteq Remotes
                     /\ listed \subseteq Remotes \cup {None} /\ serving \in {"no", "probe", "poll"}
           Pulling == /\ pulling \in Remotes \cup {None} /\ pullError \in BOOLEAN
                      /\ pull \in [Remotes -> {"none", "asking", "streaming", "success"}]
                      /\ registered \subseteq Remotes
<1>1. ASSUME Ollama', Pulling', UNCHANGED <<page, tab, tasks, disk, row>> PROVE TypeOK'
  BY <1>1 DEF tasks, disk, row
<1>2. CASE UNCHANGED pulls /\ (DaemonChanges \/ OthersChange \/ Reload \/ StartOllama \/ Probe \/ PollEnds)
  <2>1. Ollama'
    BY <1>2 DEF DaemonChanges, OthersChange, Reload, StartOllama, Probe, PollEnds
  <2>2. Pulling'
    BY <1>2 DEF pulls
  <2> QED BY <1>1, <1>2, <2>1, <2>2
          DEF DaemonChanges, OthersChange, Reload, StartOllama, Probe, PollEnds
<1>3. DaemonChanges \/ OthersChange \/ Reload \/ StartOllama \/ Probe \/ PollEnds => UNCHANGED pulls
  BY DEF DaemonChanges, OthersChange, Reload, StartOllama, Probe, PollEnds
<1>4. ASSUME NEW r \in Remotes, ClickPull(r) \/ PullAsked(r) \/ ReadSuccess(r) PROVE TypeOK'
  <2>1. Ollama' /\ Pulling'
    BY <1>4 DEF ClickPull, Pull, PullAsked, ReadSuccess, ollama
  <2> QED BY <1>1, <1>4, <2>1 DEF ClickPull, Pull, PullAsked, ReadSuccess
<1>5. ASSUME NEW r \in Remotes, PullEnds(r) \/ PullFails(r) PROVE TypeOK'
  <2>1. pullError' \in BOOLEAN
    BY <1>5, Zenon DEF PullEnds, PullFails, PullOver
  <2>2. Ollama' /\ Pulling'
    BY <1>5, <2>1 DEF PullEnds, PullFails, PullOver, ollama
  <2> QED BY <1>1, <1>5, <2>2 DEF PullEnds, PullFails, PullOver
<1>6. ASSUME NEW r \in Remotes, Register(r) \/ Uninstall(r) PROVE TypeOK'
  <2>1. Ollama' /\ Pulling'
    BY <1>6 DEF Register, Uninstall, pulls
  <2> QED BY <1>1, <1>6, <2>1 DEF Register, Uninstall
<1> QED BY <1>2, <1>3, <1>4, <1>5, <1>6 DEF OllamaStep, PullStep

LEMMA PageTyped ==
  ASSUME TypeOK, OpenPage \/ LeavePage \/ UNCHANGED vars
  PROVE  TypeOK'
<1> USE DownloadConstantsOK DEF disk, ollama
<1>1. CASE OpenPage
  BY <1>1 DEF OpenPage, TypeOK, tasks, row, pulls
<1>2. CASE LeavePage
  <2>1. job' \in [Slots -> Models \cup {None}] /\ pos' \in [Slots -> 0..Chunks]
    BY <1>2 DEF LeavePage, NoJob, Start
  <2>2. /\ stage' \in [Slots -> {"free", "asking", "writing", "removing", "renaming"}]
        /\ handle' \in [Slots -> {"part", "final", "nowhere"}]
    BY <1>2 DEF LeavePage, Free, NoFile
  <2>3. pull' \in [Remotes -> {"none", "asking", "streaming", "success"}]
    BY <1>2 DEF LeavePage, NoPull
  <2> QED BY <1>2, <2>1, <2>2, <2>3 DEF LeavePage, TypeOK
<1>3. CASE UNCHANGED vars
  BY <1>3 DEF vars, TypeOK, tasks, row, pulls
<1> QED BY <1>1, <1>2, <1>3

-----------------------------------------------------------------------------
(* Downloads and files.                                                    *)

\* Everything DiskInv is about.
LEMMA DiskKept ==
  ASSUME DiskInv, TypeOK', UNCHANGED <<job, stage, pos, handle, got, files, whole, overlapped>>
  PROVE  DiskInv'
BY DEF DiskInv, TaskInv, AloneInv, SoleInv, Sole, Busy, InstalledIsWhole

\* A download that has ended has nothing open and its slot is free.
LEMMA EndedTask ==
  ASSUME TypeOK, NEW i \in Slots, EndTask(i)
  PROVE  /\ Busy' = Busy \ {i}
         /\ job'[i] = None /\ stage'[i] = "free" /\ pos'[i] = 0
         /\ \A k \in Slots \ {i} : job'[k] = job[k] /\ stage'[k] = stage[k] /\ pos'[k] = pos[k]
BY DEF TypeOK, EndTask, Busy

LEMMA BeginKeepsDisk ==
  ASSUME DiskInv, TypeOK', NEW i \in Slots, NEW m \in Models, ClickDownload(i, m)
  PROVE  DiskInv'
<1> USE DownloadConstantsOK
<1>1. /\ stage[i] = "free" /\ m \notin files /\ Begin(i, m)
      /\ UNCHANGED <<pos, handle, got, files, whole>>
  BY DEF ClickDownload, Begin, disk
<1>2. /\ job'[i] = m /\ stage'[i] = "asking" /\ i \notin Busy
      /\ \A k \in Slots \ {i} : job'[k] = job[k] /\ stage'[k] = stage[k]
  BY <1>1 DEF Begin, DiskInv, TypeOK, Busy
<1>3. Busy' = Busy \cup {i}
  BY <1>2 DEF Busy
<1>4. TaskInv'
  BY <1>1, <1>2 DEF DiskInv, TaskInv
<1>5. IF \E k \in Busy : job[k] = m THEN overlapped' = overlapped \cup {m}
                                    ELSE overlapped' = overlapped \ {m}
  BY <1>1 DEF Begin
<1>6. AloneInv'
  <2> SUFFICES ASSUME NEW k \in Busy', NEW n \in Busy', k # n, job'[k] = job'[n]
               PROVE  job'[k] \in overlapped'
    BY DEF AloneInv
  <2>1. CASE k = i \/ n = i
    BY <1>2, <1>3, <1>5, <2>1 DEF Busy
  <2>2. CASE k # i /\ n # i
    BY <1>2, <1>3, <1>5, <2>2 DEF Busy, DiskInv, AloneInv
  <2> QED BY <2>1, <2>2
<1>7. ASSUME NEW k \in Sole' \ {i} PROVE k \in Sole /\ job'[k] = job[k] /\ stage'[k] = stage[k]
  BY <1>2, <1>3, <1>5, <1>7 DEF Sole, Busy
<1>8. SoleInv'
  BY <1>1, <1>2, <1>7 DEF SoleInv, DiskInv, Sole, Busy
<1>9. InstalledIsWhole'
  BY <1>1, <1>5 DEF InstalledIsWhole, DiskInv
<1> QED BY <1>4, <1>6, <1>8, <1>9 DEF DiskInv

LEMMA TaskKeepsDisk ==
  ASSUME DiskInv, TypeOK', NEW i \in Slots, TaskStep(i)
  PROVE  DiskInv'
<1> USE DownloadConstantsOK
<1> DEFINE m == job[i]
<1>1. i \in Busy /\ m \in Models /\ TypeOK
  BY DEF TaskStep, CreatePart, WriteChunk, StreamEnds, Written, RemoveOld, Rename, DownloadFails,
         Busy, DiskInv, TaskInv
<1>2. m \notin overlapped => \A k \in Busy : job[k] = m => k = i
  BY <1>1 DEF DiskInv, AloneInv
<1>3. CASE CreatePart(i)
  <2>1. /\ stage' = [stage EXCEPT ![i] = "writing"] /\ stage[i] = "asking"
        /\ got' = [got EXCEPT ![m] = {}] /\ handle' = [handle EXCEPT ![i] = "part"]
        /\ UNCHANGED <<job, pos, files, whole, overlapped>>
    BY <1>3 DEF CreatePart, row
  <2>2. Busy' = Busy /\ pos[i] = 0 /\ Sole' = Sole
    BY <1>1, <2>1 DEF Busy, DiskInv, TaskInv, TypeOK, Sole
  <2>3. TaskInv'
    BY <1>1, <2>1 DEF TaskInv, DiskInv, TypeOK
  <2>4. AloneInv' /\ InstalledIsWhole'
    BY <2>1, <2>2 DEF AloneInv, DiskInv, InstalledIsWhole
  <2>5. ASSUME NEW k \in Sole, k # i PROVE got'[job[k]] = got[job[k]]
    BY <1>1, <1>2, <2>1, <2>5 DEF Sole, Busy, TypeOK, DiskInv, TaskInv
  <2>6. SoleInv'
    BY <1>1, <2>1, <2>2, <2>5 DEF SoleInv, DiskInv, TypeOK, Sole, Busy
  <2> QED BY <2>3, <2>4, <2>6 DEF DiskInv
<1>4. CASE WriteChunk(i)
  <2>1. /\ stage[i] = "writing" /\ pos' = [pos EXCEPT ![i] = pos[i] + 1]
        /\ got'   = IF handle[i] = "part"  THEN [got EXCEPT ![m] = @ \cup {pos[i] + 1}]   ELSE got
        /\ whole' = IF handle[i] = "final" THEN [whole EXCEPT ![m] = @ \cup {pos[i] + 1}] ELSE whole
        /\ UNCHANGED <<job, stage, handle, files, overlapped>>
    BY <1>4 DEF WriteChunk, row
  <2>2. Busy' = Busy /\ Sole' = Sole
    BY <2>1 DEF Busy, Sole
  <2>3. TaskInv' /\ AloneInv'
    BY <1>1, <2>1, <2>2 DEF TaskInv, AloneInv, DiskInv, TypeOK
  <2>4. ASSUME i \in Sole PROVE handle[i] = "part" /\ got'[m] = 1..(pos[i] + 1) /\ whole' = whole
    <3>1. handle[i] = "part" /\ got[m] = 1..pos[i]
      BY <2>1, <2>4 DEF DiskInv, SoleInv
    <3>2. pos[i] \in Nat
      BY <1>1 DEF TypeOK
    <3>3. 1..(pos[i] + 1) = (1..pos[i]) \cup {pos[i] + 1}
      BY <3>2
    <3> QED BY <1>1, <2>1, <3>1, <3>3 DEF TypeOK
  <2>5. ASSUME NEW k \in Sole, k # i PROVE got'[job[k]] = got[job[k]] /\ pos'[k] = pos[k]
    BY <1>1, <1>2, <2>1, <2>5 DEF Sole, Busy, TypeOK, DiskInv, TaskInv
  <2>6. pos'[i] = pos[i] + 1
    BY <1>1, <2>1 DEF TypeOK, Busy
  <2>7. SoleInv'
    <3> SUFFICES ASSUME NEW k \in Sole
                 PROVE  /\ job[k] \notin files /\ stage[k] # "removing"
                        /\ stage[k] # "asking" => handle[k] = "part" /\ got'[job[k]] = 1..pos'[k]
                        /\ stage[k] = "renaming" => pos'[k] = Chunks
      BY <2>1, <2>2 DEF SoleInv
    <3>1. CASE k = i
      BY <2>1, <2>4, <2>6, <3>1 DEF DiskInv, SoleInv
    <3>2. CASE k # i
      BY <2>5, <3>2 DEF DiskInv, SoleInv
    <3> QED BY <3>1, <3>2
  <2>8. InstalledIsWhole'
    <3>1. CASE m \in overlapped
      BY <1>1, <2>1, <3>1 DEF InstalledIsWhole, DiskInv, TypeOK
    <3>2. CASE m \notin overlapped
      BY <1>1, <2>1, <2>4, <3>2 DEF InstalledIsWhole, DiskInv, Sole
    <3> QED BY <3>1, <3>2
  <2> QED BY <2>3, <2>7, <2>8 DEF DiskInv
<1>5. CASE StreamEnds(i)
  <2>1. /\ stage' = [stage EXCEPT ![i] = IF m \in files THEN "removing" ELSE "renaming"]
        /\ stage[i] = "writing" /\ pos[i] = Chunks
        /\ UNCHANGED <<job, pos, handle, got, files, whole, overlapped>>
    BY <1>5 DEF StreamEnds, Written, row, disk
  <2>2. Busy' = Busy /\ Sole' = Sole
    BY <1>1, <2>1 DEF Busy, Sole, TypeOK
  <2>3. TaskInv' /\ AloneInv' /\ InstalledIsWhole'
    BY <1>1, <2>1, <2>2 DEF TaskInv, AloneInv, DiskInv, TypeOK, InstalledIsWhole
  <2>4. SoleInv'
    BY <1>1, <2>1, <2>2 DEF SoleInv, DiskInv, TypeOK
  <2> QED BY <2>3, <2>4 DEF DiskInv
<1>6. CASE RemoveOld(i)
  <2>1. /\ stage[i] = "removing" /\ stage' = [stage EXCEPT ![i] = "renaming"]
        /\ UNCHANGED <<job, pos, got, overlapped>>
    BY <1>6 DEF RemoveOld, row
  <2>2. m \in overlapped
    BY <1>1, <2>1 DEF DiskInv, SoleInv, Sole
  <2>3. Busy' = Busy /\ Sole' = Sole
    BY <1>1, <2>1 DEF Busy, Sole, TypeOK
  <2>4. /\ files' \subseteq files
        /\ \A n \in Models \ {m} : whole'[n] = whole[n]
        /\ \A k \in Slots : handle'[k] # handle[k] => handle[k] = "final" /\ job[k] = m
    BY <1>1, <1>6 DEF RemoveOld, Moved, TypeOK
  <2>5. AloneInv' /\ InstalledIsWhole'
    BY <1>1, <2>1, <2>2, <2>3, <2>4 DEF AloneInv, DiskInv, InstalledIsWhole, TypeOK
  <2>6. TaskInv'
    BY <1>1, <2>1, <2>4 DEF TaskInv, DiskInv, TypeOK
  <2>7. SoleInv'
    BY <1>1, <2>1, <2>2, <2>3, <2>4 DEF SoleInv, Sole, Busy, DiskInv, TypeOK
  <2> QED BY <2>5, <2>6, <2>7 DEF DiskInv
<1>7. CASE Rename(i)
  <2>1. /\ stage[i] = "renaming" /\ EndTask(i) /\ overlapped' = overlapped
        /\ files' = files \cup {m} /\ whole' = [whole EXCEPT ![m] = got[m]]
        /\ got' = [got EXCEPT ![m] = {}]
    BY <1>7 DEF Rename, DownloadEnds
  <2>2. /\ Busy' = Busy \ {i} /\ job'[i] = None /\ stage'[i] = "free" /\ pos'[i] = 0
        /\ \A k \in Slots \ {i} : job'[k] = job[k] /\ stage'[k] = stage[k] /\ pos'[k] = pos[k]
    BY <1>1, <2>1, EndedTask
  <2>3. /\ handle'[i] = "nowhere"
        /\ \A k \in Slots \ {i} : job[k] # m => handle'[k] = handle[k]
    BY <1>7 DEF Rename, Moved
  <2>4. \A k \in Slots \ {i} : handle[k] = "nowhere" => handle'[k] = "nowhere"
    BY <1>7 DEF Rename, Moved
  <2>5. TaskInv'
    BY <2>2, <2>3, <2>4 DEF TaskInv, DiskInv
  <2>6. AloneInv'
    BY <2>1, <2>2 DEF AloneInv, DiskInv, Busy
  <2>7. ASSUME NEW k \in Sole'
        PROVE  k \in Sole /\ k # i /\ job[k] # m /\ job'[k] = job[k]
    BY <1>1, <1>2, <2>1, <2>2, <2>7 DEF Sole, Busy
  <2>8. SoleInv'
    BY <1>1, <2>1, <2>2, <2>3, <2>7 DEF SoleInv, DiskInv, TypeOK, Sole, Busy, TaskInv
  <2>9. m \notin overlapped => got[m] = All
    BY <1>1, <2>1 DEF DiskInv, SoleInv, Sole, All
  <2>10. InstalledIsWhole'
    BY <1>1, <2>1, <2>9 DEF InstalledIsWhole, DiskInv, TypeOK
  <2> QED BY <2>5, <2>6, <2>8, <2>10 DEF DiskInv
<1>8. CASE DownloadFails(i)
  <2>1. /\ EndTask(i) /\ handle' = [handle EXCEPT ![i] = "nowhere"]
        /\ UNCHANGED <<got, files, whole, overlapped>>
    BY <1>8 DEF DownloadFails, DownloadEnds, disk
  <2>2. /\ Busy' = Busy \ {i} /\ job'[i] = None /\ stage'[i] = "free" /\ pos'[i] = 0
        /\ \A k \in Slots \ {i} : job'[k] = job[k] /\ stage'[k] = stage[k] /\ pos'[k] = pos[k]
    BY <1>1, <2>1, EndedTask
  <2>3. handle'[i] = "nowhere" /\ \A k \in Slots \ {i} : handle'[k] = handle[k]
    BY <1>1, <2>1 DEF TypeOK
  <2>4. TaskInv'
    BY <2>2, <2>3 DEF TaskInv, DiskInv
  <2>5. AloneInv' /\ InstalledIsWhole'
    BY <2>1, <2>2 DEF AloneInv, DiskInv, InstalledIsWhole, Busy
  <2>6. SoleInv'
    BY <2>1, <2>2, <2>3 DEF SoleInv, DiskInv, Sole, Busy
  <2> QED BY <2>4, <2>5, <2>6 DEF DiskInv
<1> QED BY <1>3, <1>4, <1>5, <1>6, <1>7, <1>8 DEF TaskStep

LEMMA DeleteKeepsDisk ==
  ASSUME DiskInv, TypeOK', NEW m \in Models, DeleteModel(m)
  PROVE  DiskInv'
<1>1. /\ files' = files \ {m} /\ whole' = [whole EXCEPT ![m] = {}]
      /\ UNCHANGED <<job, stage, pos, got, overlapped>>
  BY DEF DeleteModel, row
<1>2. \A k \in Slots : handle'[k] = IF job[k] = m /\ handle[k] = "final" THEN "nowhere" ELSE handle[k]
  BY DEF DeleteModel, Moved
<1>3. TaskInv' /\ AloneInv'
  BY <1>1, <1>2 DEF TaskInv, AloneInv, DiskInv, Busy
<1>4. SoleInv'
  BY <1>1, <1>2 DEF SoleInv, DiskInv, Sole, Busy
<1>5. InstalledIsWhole'
  BY <1>1 DEF InstalledIsWhole, DiskInv, TypeOK
<1> QED BY <1>3, <1>4, <1>5 DEF DiskInv

LEMMA LeaveKeepsDisk ==
  ASSUME DiskInv, TypeOK', LeavePage
  PROVE  DiskInv'
<1>1. /\ \A i \in Slots : job'[i] = None /\ stage'[i] = "free" /\ pos'[i] = 0
                          /\ handle'[i] = "nowhere"
      /\ UNCHANGED <<files, whole, overlapped>>
  BY DEF LeavePage, NoJob, Free, Start, NoFile, disk
<1>2. Busy' = {}
  BY <1>1 DEF Busy
<1> QED BY <1>1, <1>2 DEF DiskInv, TaskInv, AloneInv, SoleInv, Sole, InstalledIsWhole

\* Ollama's part, opening the page and stuttering touch no download.
LEMMA OthersKeepDisk ==
  ASSUME DiskInv, TypeOK', OpenPage \/ OllamaStep \/ UNCHANGED vars
  PROVE  UNCHANGED <<tasks, disk, row>> /\ DiskInv'
<1>1. OllamaStep => UNCHANGED <<tasks, disk, row>>
  BY DEF OllamaStep, DaemonChanges, OthersChange, Reload, StartOllama, Probe, PollEnds, ClickPull,
     Pull, PullStep, PullAsked, ReadSuccess, PullEnds, PullFails, PullOver, Register, Uninstall
<1>2. UNCHANGED <<tasks, disk, row>>
  BY <1>1 DEF OpenPage, vars
<1> QED BY <1>2, DiskKept DEF tasks, disk, row

LEMMA DiskStep == DiskInv /\ [Next]_vars => DiskInv'
<1> SUFFICES ASSUME DiskInv, [Next]_vars PROVE DiskInv'
  OBVIOUS
<1>1. TypeOK'
  BY BuiltinTyped, OllamaTyped, PageTyped DEF Next, DiskInv
<1>2. CASE BuiltinStep
  BY <1>1, <1>2, BeginKeepsDisk, TaskKeepsDisk, DeleteKeepsDisk DEF BuiltinStep
<1>3. CASE LeavePage
  BY <1>1, <1>3, LeaveKeepsDisk
<1>4. CASE OpenPage \/ OllamaStep \/ UNCHANGED vars
  BY <1>1, <1>4, OthersKeepDisk
<1> QED BY <1>2, <1>3, <1>4 DEF Next

LEMMA InitDisk == Init => DiskInv
<1> SUFFICES ASSUME Init PROVE DiskInv
  OBVIOUS
<1>1. \A i \in Slots : stage[i] = "free" /\ job[i] = None /\ pos[i] = 0 /\ handle[i] = "nowhere"
  BY DEF Init, Free, NoJob, Start, NoFile
<1>2. Busy = {} /\ files = {}
  BY <1>1 DEF Busy, Init
<1> QED BY <1>1, <1>2, InitTyped
        DEF DiskInv, TaskInv, AloneInv, SoleInv, Sole, InstalledIsWhole

\* The inductive invariant of the downloads and the files they make.
THEOREM DiskInvHolds == Spec => []DiskInv
BY InitDisk, DiskStep, PTL DEF Spec

\* Types of both lists, for any catalog, number of chunks and number of downloads at a time.
THEOREM TypeCorrect == Spec => []TypeOK
<1>1. DiskInv => TypeOK
  BY DEF DiskInv
<1> QED BY <1>1, DiskInvHolds, PTL

\* However often the page is left, a call breaks off or a model is deleted in the middle of
\* its download, a file under a model's own name is complete, unless downloads of that model
\* overlapped.
THEOREM InstalledIsWholeHolds == Spec => []InstalledIsWhole
<1>1. DiskInv => InstalledIsWhole
  BY DEF DiskInv
<1> QED BY <1>1, DiskInvHolds, PTL

\* The removal before the rename never takes away a model that is there: its button offers no
\* download, and only an overlapping one can have brought it meanwhile.
THEOREM DownloadKeepsModelsHolds == Spec => DownloadKeepsModels
<1> DEFINE Keeps == stage' # stage /\ page' => files \ files' \subseteq overlapped
<1>1. ASSUME DiskInv, Next, stage' # stage, page' PROVE files \ files' \subseteq overlapped
  <2>1. CASE OpenPage \/ OllamaStep
    BY <1>1, <2>1 DEF OpenPage, OllamaStep, DaemonChanges, OthersChange, Reload, StartOllama, Probe,
       PollEnds, ClickPull, Pull, PullStep, PullAsked, ReadSuccess, PullEnds, PullFails, PullOver,
       Register, Uninstall, tasks
  <2>2. CASE LeavePage
    BY <1>1, <2>2 DEF LeavePage
  <2>3. ASSUME NEW i \in Slots, NEW m \in Models, ClickDownload(i, m)
        PROVE  files \ files' = {}
    BY <2>3 DEF ClickDownload, Begin, disk
  <2>4. ASSUME NEW m \in Models, DeleteModel(m) PROVE FALSE
    BY <1>1, <2>4 DEF DeleteModel
  <2>5. ASSUME NEW i \in Slots, RemoveOld(i) PROVE files \ files' \subseteq overlapped
    <3>1. stage[i] = "removing" /\ files \ files' \subseteq {job[i]}
      BY <2>5 DEF RemoveOld
    <3>2. job[i] \in overlapped
      BY <1>1, <3>1 DEF DiskInv, SoleInv, Sole, Busy
    <3> QED BY <3>1, <3>2
  <2>6. ASSUME NEW i \in Slots, CreatePart(i) \/ WriteChunk(i) \/ StreamEnds(i) \/ Rename(i)
                                \/ DownloadFails(i)
        PROVE  files \ files' = {}
    BY <2>6 DEF CreatePart, WriteChunk, StreamEnds, Written, Rename, DownloadFails, disk
  <2> QED BY <1>1, <2>1, <2>2, <2>3, <2>4, <2>5, <2>6 DEF Next, BuiltinStep, TaskStep
<1>2. DiskInv /\ [Next]_vars => [Keeps]_vars
  BY <1>1
<1> QED BY <1>2, DiskInvHolds, PTL DEF Spec, DownloadKeepsModels

-----------------------------------------------------------------------------
(* What the row shows.                                                     *)

LEMMA RowStep ==
  ASSUME DiskInv, DiskInv', RowInv, [Next]_vars
  PROVE  RowInv'
<1> USE DEF RowInv, DownloadShown
<1>1. ASSUME NEW i \in Slots, NEW m \in Models, ClickDownload(i, m), ~crowded'
      PROVE  Busy' = {i} /\ job'[i] = m /\ downloading' = m
  <2>1. Begin(i, m) /\ Busy = {}
    BY <1>1 DEF ClickDownload, Begin
  <2> QED BY <2>1 DEF Begin, Busy, DiskInv, TypeOK
<1>2. ASSUME NEW i \in Slots, EndTask(i), i \in Busy, downloading' = None, ~crowded'
      PROVE  Busy' = {}
  <2>1. Busy' = Busy \ {i}
    BY <1>2, EndedTask DEF DiskInv
  <2>2. ~crowded \/ Busy = {i}
    BY <1>2 DEF EndTask
  <2> QED BY <1>2, <2>1, <2>2
<1>3. ASSUME NEW i \in Slots, Rename(i) \/ DownloadFails(i), ~crowded'
      PROVE  Busy' = {} /\ downloading' = None
  BY <1>2, <1>3 DEF Rename, DownloadFails, DownloadEnds, Busy
<1>4. ASSUME NEW i \in Slots, CreatePart(i) \/ WriteChunk(i) \/ StreamEnds(i) \/ RemoveOld(i)
      PROVE  Busy' = Busy /\ UNCHANGED <<job, downloading, crowded>>
  BY <1>4 DEF CreatePart, WriteChunk, StreamEnds, Written, RemoveOld, row, Busy, DiskInv, TypeOK
<1>5. ASSUME NEW m \in Models, DeleteModel(m)
      PROVE  Busy' = Busy /\ UNCHANGED <<job, downloading, crowded>>
  BY <1>5 DEF DeleteModel, row, Busy
<1>6. LeavePage => Busy' = {} /\ downloading' = None
  BY DEF LeavePage, Busy, Free
<1>7. OpenPage \/ OllamaStep \/ UNCHANGED vars
        => Busy' = Busy /\ UNCHANGED <<job, downloading, crowded>>
  BY OthersKeepDisk DEF tasks, row, Busy, DiskInv
<1>8. Busy' = Busy /\ UNCHANGED <<job, downloading, crowded>> => RowInv'
  OBVIOUS
<1>9. ~crowded' => RowInv'
  <2> SUFFICES ASSUME ~crowded' PROVE RowInv'
    OBVIOUS
  <2>1. ASSUME Busy' = {}, downloading' = None PROVE RowInv'
    BY <2>1
  <2>2. ASSUME NEW i \in Slots, Busy' = {i}, downloading' = job'[i] PROVE RowInv'
    BY <2>2
  <2> QED BY <1>1, <1>3, <1>4, <1>5, <1>6, <1>7, <1>8, <2>1, <2>2 DEF Next, BuiltinStep, TaskStep
<1> QED BY <1>9

\* The list shows the download that is running, and none when there is none, unless one was
\* begun beside another: no end, failure or departure leaves a percentage behind.
THEOREM DownloadShownHolds == Spec => []DownloadShown
<1>1. Init => RowInv
  BY DEF Init, RowInv, DownloadShown, Busy, Free
<1>2. DiskInv /\ DiskInv' /\ RowInv /\ [Next]_vars => RowInv'
  BY RowStep
<1>3. RowInv => DownloadShown
  BY DEF RowInv
<1> QED BY <1>1, <1>2, <1>3, DiskInvHolds, PTL DEF Spec

-----------------------------------------------------------------------------
(* Pulls.                                                                  *)

LEMMA PullKept ==
  ASSUME TypeOK, PullInv, [Next]_vars
  PROVE  PullInv'
<1> USE DEF PullInv, TypeOK
<1>1. BuiltinStep => UNCHANGED pulls
  BY DEF BuiltinStep, ClickDownload, Begin, TaskStep, CreatePart, WriteChunk, StreamEnds, Written,
     RemoveOld, Rename, DownloadFails, DeleteModel
<1>2. OpenPage \/ DaemonChanges \/ OthersChange \/ Reload \/ StartOllama \/ Probe \/ PollEnds
        => UNCHANGED pulls
  BY DEF OpenPage, DaemonChanges, OthersChange, Reload, StartOllama, Probe, PollEnds
<1>3. LeavePage => PullInv'
  BY DEF LeavePage, NoPull
<1>4. ASSUME NEW r \in Remotes, ClickPull(r) PROVE PullInv'
  BY <1>4 DEF ClickPull, Pull
<1>5. ASSUME NEW r \in Remotes, PullStep(r) PROVE PullInv'
  BY <1>5 DEF PullStep, PullAsked, ReadSuccess, PullEnds, PullFails, PullOver
<1>6. ASSUME NEW r \in Remotes, Register(r) \/ Uninstall(r) PROVE PullInv'
  BY <1>6 DEF Register, Uninstall, pulls
<1>7. UNCHANGED pulls => PullInv'
  BY DEF pulls
<1>8. UNCHANGED vars => UNCHANGED pulls
  BY DEF vars
<1> QED BY <1>1, <1>2, <1>3, <1>4, <1>5, <1>6, <1>7, <1>8 DEF Next, OllamaStep

\* A pull ends without an error only if Ollama has completed the model under it: the end of a
\* stream alone is not taken for success.
THEOREM PullHonestHolds == Spec => PullHonest
<1> DEFINE Honest == \A r \in Pulled \ Pulled' : page' /\ ~pullError' => r \in registered
<1>1. Init => PullInv
  BY DEF Init, PullInv, NoPull
<1>2. ASSUME TypeOK, PullInv, Next, NEW r \in Pulled \ Pulled', page', ~pullError'
      PROVE  r \in registered
  <2> USE DEF Pulled, TypeOK
  <2>1. pull'[r] = "none" /\ pull[r] # "none"
    BY <1>2
  <2>2. CASE BuiltinStep
    BY <2>1, <2>2 DEF BuiltinStep, ClickDownload, Begin, TaskStep, CreatePart, WriteChunk, StreamEnds,
       Written, RemoveOld, Rename, DownloadFails, DeleteModel, pulls
  <2>3. CASE OpenPage \/ DaemonChanges \/ OthersChange \/ Reload \/ StartOllama \/ Probe \/ PollEnds
    BY <2>1, <2>3 DEF OpenPage, DaemonChanges, OthersChange, Reload, StartOllama, Probe, PollEnds, pulls
  <2>4. CASE LeavePage
    BY <1>2, <2>4 DEF LeavePage
  <2>5. ASSUME NEW s \in Remotes,
               ClickPull(s) \/ PullAsked(s) \/ ReadSuccess(s) \/ Register(s) \/ Uninstall(s)
        PROVE  FALSE
    BY <1>2, <2>1, <2>5 DEF ClickPull, Pull, PullAsked, ReadSuccess, Register, Uninstall, pulls
  <2>6. ASSUME NEW s \in Remotes, PullEnds(s) PROVE r \in registered
    <3>1. pull' = [pull EXCEPT ![s] = "none"] /\ s \in registered
      BY <1>2, <2>6 DEF PullEnds, PullOver, PullInv
    <3>2. r = s
      BY <1>2, <2>1, <3>1
    <3> QED BY <3>1, <3>2
  <2>7. ASSUME NEW s \in Remotes, PullFails(s) PROVE FALSE
    BY <1>2, <2>7 DEF PullFails, PullOver
  <2> QED BY <1>2, <2>2, <2>3, <2>4, <2>5, <2>6, <2>7 DEF Next, OllamaStep, PullStep
<1>3. TypeOK /\ PullInv /\ [Next]_vars => [Honest]_vars
  BY <1>2
<1>4. TypeOK /\ PullInv /\ [Next]_vars => PullInv'
  BY PullKept
<1> QED BY <1>1, <1>3, <1>4, TypeCorrect, PTL DEF Spec, PullHonest
=============================================================================
