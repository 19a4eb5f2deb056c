---------------------------- MODULE ModelDownload ----------------------------
(***************************************************************************)
(* How models come to the disk and to Ollama: the two lists of the AI      *)
(* section (ai_selection.rs), ModelDownloader with its .part file, and the *)
(* pulls and the start of the Ollama daemon (ollama/service.rs).  The jobs *)
(* belong to the page: leaving it, quitting and crashing drop them and     *)
(* leave the files as they are.                                            *)
(*                                                                         *)
(* A model is a number of chunks, the same whoever fetches it.  Files are  *)
(* those of Unix: a rename takes the open handles along.  An operation of  *)
(* the file system under way when its job is dropped is over or not begun. *)
(***************************************************************************)
EXTENDS Integers, FiniteSets

CONSTANTS
  Models,   \* BUILTIN_CATALOG
  Remotes,  \* PULLABLE_MODELS
  None,     \* no model
  Chunks,   \* number of chunks of a model
  Slots     \* bound: downloads at a time

ASSUME DownloadConstantsOK ==
  None \notin Models \cup Remotes /\ Chunks \in Nat \ {0} /\ IsFiniteSet(Slots)

VARIABLES
  page,        \* the AI section is mounted
  tab,         \* viewing_tab; bound: not switched, as the lists share nothing but the page
  job,         \* the model of each running download, or None
  stage, pos,  \* where each is, and how many chunks it has written
  handle,      \* where the file is that it has open: "part", "final" or "nowhere"
  parts, got,     \* models with a .part file, and its chunks
  files, whole,   \* models under their own name, and its chunks
  downloading, downloadError,  \* signals downloading_model and download_error.is_some()
  overlapped,  \* history: models whose download began while an earlier one was running
  crowded,     \* history: a download began while another was running, and one still is
  daemon,      \* "off", "starting" or "on"
  registry,    \* models Ollama has
  listed,      \* the page's list: what is installed, or {None} for a daemon that is offline
  serving,     \* starting_ollama, and how far its job is: "no", "probe" or "poll"
  pulling, pullError,  \* signals pulling_ollama and pull_ollama_error.is_some()
  pull,        \* of each remote model
  registered   \* history: models Ollama has completed under the pull that is running

disk   == <<parts, got, files, whole>>
tasks  == <<job, stage, pos, handle>>
row    == <<downloading, downloadError, overlapped, crowded>>
ollama == <<daemon, registry, listed, serving>>
pulls  == <<pulling, pullError, pull, registered>>
vars   == <<page, tab, tasks, disk, row, ollama, pulls>>

All == 1..Chunks

TypeOK ==
  /\ page \in BOOLEAN /\ tab \in {"builtin", "ollama"}
  /\ job \in [Slots -> Models \cup {None}] /\ pos \in [Slots -> 0..Chunks]
  /\ stage \in [Slots -> {"free", "asking", "writing", "removing", "renaming"}]
  /\ handle \in [Slots -> {"part", "final", "nowhere"}]
  /\ parts \subseteq Models /\ files \subseteq Models
  /\ got \in [Models -> SUBSET All] /\ whole \in [Models -> SUBSET All]
  /\ downloading \in Models \cup {None} /\ downloadError \in BOOLEAN
  /\ overlapped \subseteq Models /\ crowded \in BOOLEAN
  /\ daemon \in {"off", "starting", "on"} /\ registry \subseteq Remotes
  /\ listed \subseteq Remotes \cup {None} /\ serving \in {"no", "probe", "poll"}
  /\ pulling \in Remotes \cup {None} /\ pullError \in BOOLEAN
  /\ pull \in [Remotes -> {"none", "asking", "streaming", "success"}]
  /\ registered \subseteq Remotes

Busy == {i \in Slots : stage[i] # "free"}
Pulled == {r \in Remotes : pull[r] # "none"}

NoJob   == [i \in Slots |-> None]
Free    == [i \in Slots |-> "free"]
Start   == [i \in Slots |-> 0]
NoFile  == [i \in Slots |-> "nowhere"]
Empty   == [m \in Models |-> {}]
NoPull  == [r \in Remotes |-> "none"]

Init ==
  /\ page = FALSE /\ tab \in {"builtin", "ollama"}
  /\ job = NoJob /\ stage = Free /\ pos = Start /\ handle = NoFile
  /\ parts = {} /\ got = Empty /\ files = {} /\ whole = Empty
  /\ downloading = None /\ downloadError = FALSE /\ overlapped = {} /\ crowded = FALSE
  /\ daemon \in {"off", "on"} /\ registry \in SUBSET Remotes /\ listed = {None} /\ serving = "no"
  /\ tab = "builtin" => daemon = "off" /\ registry = {}
  /\ pulling = None /\ pullError = FALSE /\ pull = NoPull /\ registered = {}

OpenPage == ~page /\ page' = TRUE /\ UNCHANGED <<tab, tasks, disk, row, ollama, pulls>>

\* Every job is dropped with its signals; what Ollama does goes on.
LeavePage ==
  /\ page /\ page' = FALSE
  /\ job' = NoJob /\ stage' = Free /\ pos' = Start /\ handle' = NoFile
  /\ downloading' = None /\ downloadError' = FALSE /\ crowded' = FALSE
  /\ listed' = {None} /\ serving' = "no"
  /\ pulling' = None /\ pullError' = FALSE /\ pull' = NoPull /\ registered' = {}
  /\ UNCHANGED <<tab, disk, overlapped, daemon, registry>>

-----------------------------------------------------------------------------
(* The built-in list: download_builtin and ModelDownloader.                *)

Begin(i, m) ==
  /\ job' = [job EXCEPT ![i] = m] /\ stage' = [stage EXCEPT ![i] = "asking"]
  /\ downloading' = m /\ downloadError' = FALSE
  /\ overlapped' = IF \E k \in Busy : job[k] = m THEN overlapped \cup {m} ELSE overlapped \ {m}
  /\ crowded' = (Busy # {})
  /\ UNCHANGED <<page, tab, pos, handle, disk, ollama, pulls>>

\* Mutant: Download is offered for a model that is there.
ClickDownloadAnyway(i, m) ==
  page /\ tab = "builtin" /\ stage[i] = "free" /\ downloading # m /\ Begin(i, m)

\* Download is offered for a model that is neither there nor the one signalled; the downloads
\* of others do not disable it.
ClickDownload(i, m) ==
  /\ page /\ tab = "builtin" /\ stage[i] = "free"
  /\ m \notin files /\ downloading # m
  /\ Begin(i, m)

EndTask(i) ==
  /\ job' = [job EXCEPT ![i] = None] /\ stage' = [stage EXCEPT ![i] = "free"]
  /\ pos' = [pos EXCEPT ![i] = 0]
  /\ crowded' = (crowded /\ Busy # {i})

\* Mutant: a failure leaves the row at its percentage.
DownloadEndsShown(error) ==
  /\ downloading' = IF error THEN downloading ELSE None
  /\ downloadError' = (error \/ downloadError) /\ UNCHANGED overlapped

\* Both branches clear the signal, whosever download it names by now.
DownloadEnds(error) ==
  /\ downloading' = None /\ downloadError' = (error \/ downloadError) /\ UNCHANGED overlapped

\* A call, a chunk or a write fails: the .part file stays.
DownloadFails(i) ==
  /\ stage[i] # "free"
  /\ EndTask(i) /\ DownloadEnds(TRUE)
  /\ handle' = [handle EXCEPT ![i] = "nowhere"]
  /\ UNCHANGED <<page, tab, disk, ollama, pulls>>

\* File::create empties a .part file that is there.
CreatePart(i) ==
  LET m == job[i] IN
  /\ stage[i] = "asking" /\ stage' = [stage EXCEPT ![i] = "writing"]
  /\ parts' = parts \cup {m} /\ got' = [got EXCEPT ![m] = {}]
  /\ handle' = [handle EXCEPT ![i] = "part"]
  /\ UNCHANGED <<page, tab, job, pos, files, whole, row, ollama, pulls>>

\* Mutant: chunks are written while the server sends any.
WriteOn(i) ==
  /\ stage[i] = "writing" /\ pos' = [pos EXCEPT ![i] = @ + 1]
  /\ UNCHANGED <<page, tab, job, stage, handle, disk, row, ollama, pulls>>

WriteChunk(i) ==
  LET m == job[i]  k == pos[i] + 1 IN
  /\ stage[i] = "writing" /\ k <= Chunks /\ pos' = [pos EXCEPT ![i] = k]
  /\ got'   = IF handle[i] = "part"  THEN [got EXCEPT ![m] = @ \cup {k}]   ELSE got
  /\ whole' = IF handle[i] = "final" THEN [whole EXCEPT ![m] = @ \cup {k}] ELSE whole
  /\ UNCHANGED <<page, tab, job, stage, handle, parts, files, row, ollama, pulls>>

Written(i) ==
  /\ stage[i] = "writing"
  /\ stage' = [stage EXCEPT ![i] = IF job[i] \in files THEN "removing" ELSE "renaming"]
  /\ UNCHANGED <<page, tab, job, pos, handle, disk, row, ollama, pulls>>

\* Mutant: a broken stream ends the loop like a complete one.
StreamEndsAnyhow(i) == Written(i)

\* Flush, and the question whether the model is there already.
StreamEnds(i) == pos[i] = Chunks /\ Written(i)

\* The open handles of a file that is taken away, or moved to the model's own name.
Moved(m, from, to) ==
  [k \in Slots |-> IF job[k] = m /\ handle[k] = from THEN to ELSE handle[k]]

\* remove_file of the model that is there; an error is ignored.
RemoveOld(i) ==
  LET m == job[i] IN
  /\ stage[i] = "removing" /\ stage' = [stage EXCEPT ![i] = "renaming"]
  /\ \/ /\ files' = files \ {m} /\ whole' = [whole EXCEPT ![m] = {}]
        /\ handle' = Moved(m, "final", "nowhere")
     \/ UNCHANGED <<files, whole, handle>>
  /\ UNCHANGED <<page, tab, job, pos, parts, got, row, ollama, pulls>>

\* The .part file takes the model's name.  Without one the download fails.
Rename(i) ==
  LET m == job[i] IN
  /\ stage[i] = "renaming" /\ m \in parts
  /\ files' = files \cup {m} /\ whole' = [whole EXCEPT ![m] = got[m]]
  /\ parts' = parts \ {m} /\ got' = [got EXCEPT ![m] = {}]
  /\ handle' = [k \in Slots |-> IF k = i \/ (job[k] = m /\ handle[k] = "final") THEN "nowhere"
                                ELSE Moved(m, "part", "final")[k]]
  /\ EndTask(i) /\ DownloadEnds(FALSE)
  /\ UNCHANGED <<page, tab, ollama, pulls>>

\* Delete, or a wipe that was asked to remove the .gguf files; .part files stay.
DeleteModel(m) ==
  /\ page /\ tab = "builtin" /\ m \in files
  /\ files' = files \ {m} /\ whole' = [whole EXCEPT ![m] = {}]
  /\ handle' = Moved(m, "final", "nowhere")
  /\ UNCHANGED <<page, tab, job, stage, pos, parts, got, row, ollama, pulls>>

TaskStep(i) ==
  CreatePart(i) \/ WriteChunk(i) \/ StreamEnds(i) \/ RemoveOld(i) \/ Rename(i) \/ DownloadFails(i)

BuiltinStep ==
  \/ \E i \in Slots, m \in Models : ClickDownload(i, m)
  \/ \E i \in Slots : TaskStep(i)
  \/ \E m \in Models : DeleteModel(m)

-----------------------------------------------------------------------------
(* Ollama and its list.                                                    *)

\* The daemon stops, or comes up by the user's hand or after a spawn; others use it too.
DaemonChanges ==
  /\ tab = "ollama" /\ daemon' \in {"off", "on"} \ {daemon}
  /\ UNCHANGED <<page, tab, tasks, disk, row, registry, listed, serving, pulls>>

OthersChange ==
  /\ \E r \in Remotes : registry' \in {registry \cup {r}, registry \ {r}}
  /\ tab = "ollama" /\ daemon = "on"
  /\ UNCHANGED <<page, tab, tasks, disk, row, daemon, listed, serving, pulls>>

\* list_models_view, every ten seconds and after what the page does itself.
Reload ==
  /\ page /\ tab = "ollama" /\ listed' = IF daemon = "on" THEN registry ELSE {None}
  /\ UNCHANGED <<page, tab, tasks, disk, row, daemon, registry, serving, pulls>>

StartOllama ==
  /\ page /\ tab = "ollama" /\ listed = {None} /\ serving = "no" /\ serving' = "probe"
  /\ UNCHANGED <<page, tab, tasks, disk, row, daemon, registry, listed, pulls>>

\* Mutant: a daemon that answers already leaves the button disabled.
ProbeStuck ==
  /\ serving = "probe" /\ daemon # "on"
  /\ serving' = "poll" /\ daemon' = "starting"
  /\ UNCHANGED <<page, tab, tasks, disk, row, registry, listed, pulls>>

\* serve: AlreadyRunning, a spawn, or no Ollama to spawn.
Probe ==
  /\ serving = "probe"
  /\ \/ serving' = "no" /\ UNCHANGED daemon
     \/ daemon # "on" /\ serving' = "poll" /\ daemon' = "starting"
  /\ UNCHANGED <<page, tab, tasks, disk, row, registry, listed, pulls>>

\* It answers, or has not after the last attempt.
PollEnds ==
  /\ serving = "poll" /\ serving' = "no"
  /\ UNCHANGED <<page, tab, tasks, disk, row, daemon, registry, listed, pulls>>

Pull(r) ==
  /\ pulling' = r /\ pullError' = FALSE /\ pull' = [pull EXCEPT ![r] = "asking"]
  /\ registered' = registered \ {r}
  /\ UNCHANGED <<page, tab, tasks, disk, row, ollama>>

ClickPull(r) ==
  /\ page /\ listed # {None} /\ r \notin listed /\ pulling = None
  /\ Pull(r)

PullAsked(r) ==
  /\ pull[r] = "asking" /\ daemon = "on" /\ pull' = [pull EXCEPT ![r] = "streaming"]
  /\ UNCHANGED <<page, tab, tasks, disk, row, ollama, pulling, pullError, registered>>

\* Ollama completes the model; the page reads of it later, or never.
Register(r) ==
  /\ pull[r] = "streaming" /\ daemon = "on"
  /\ registry' = registry \cup {r} /\ registered' = registered \cup {r}
  /\ UNCHANGED <<page, tab, tasks, disk, row, daemon, listed, serving, pulling, pullError, pull>>

ReadSuccess(r) ==
  /\ pull[r] = "streaming" /\ r \in registered /\ pull' = [pull EXCEPT ![r] = "success"]
  /\ UNCHANGED <<page, tab, tasks, disk, row, ollama, pulling, pullError, registered>>

PullOver(r, error) ==
  /\ pull' = [pull EXCEPT ![r] = "none"] /\ pulling' = None /\ pullError' = (pullError \/ error)
  /\ UNCHANGED <<page, tab, tasks, disk, row, ollama, registered>>

\* Mutant: the end of the stream is taken for success.
PullEndsAnyhow(r) == pull[r] \in {"streaming", "success"} /\ PullOver(r, FALSE)

\* The stream ends after a success line.
PullEnds(r) == pull[r] = "success" /\ PullOver(r, FALSE)

\* No answer, a broken stream, an error line, or an end without a success line.
PullFails(r) == pull[r] # "none" /\ PullOver(r, TRUE)

Uninstall(r) ==
  /\ page /\ r \in listed /\ daemon = "on" /\ registry' = registry \ {r}
  /\ UNCHANGED <<page, tab, tasks, disk, row, daemon, listed, serving, pulls>>

PullStep(r) == PullAsked(r) \/ ReadSuccess(r) \/ PullEnds(r) \/ PullFails(r)

OllamaStep ==
  \/ DaemonChanges \/ OthersChange \/ Reload \/ StartOllama \/ Probe \/ PollEnds
  \/ \E r \in Remotes : ClickPull(r) \/ PullStep(r) \/ Register(r) \/ Uninstall(r)

Next == OpenPage \/ LeavePage \/ BuiltinStep \/ OllamaStep

\* Every request is answered or broken off, and the jobs of a page are polled.
Fairness ==
  /\ \A i \in Slots : WF_vars(TaskStep(i))
  /\ \A r \in Remotes : WF_vars(PullStep(r))
  /\ WF_vars(Probe \/ PollEnds)

Spec == Init /\ [][Next]_vars /\ Fairness

-----------------------------------------------------------------------------
\* A file under a model's own name is complete, wherever its download was interrupted, unless
\* two downloads of that model have overlapped (downloader.rs, the .part file).
InstalledIsWhole == \A m \in files \ overlapped : whole[m] = All

\* A download never takes away a model that is there, with the same exception (downloader.rs,
\* the removal before the rename).
DownloadKeepsModels ==
  [][stage' # stage /\ page' => files \ files' \subseteq overlapped]_vars

\* The list shows the download that is running, and none when there is none; only a download
\* begun beside another may go unshown (ai_selection.rs, downloading_model).
DownloadShown ==
  ~crowded => {downloading} = IF Busy = {} THEN {None} ELSE {job[i] : i \in Busy}

\* A pull ends without an error only if Ollama has completed the model under it, however the
\* stream broke off (service.rs, saw_success).
PullHonest ==
  [][\A r \in Pulled \ Pulled' : page' /\ ~pullError' => r \in registered]_vars

\* No row keeps its percentage and no button stays disabled (ai_selection.rs).
PageSettles ==
  /\ downloading # None ~> downloading = None
  /\ pulling # None ~> pulling = None
  /\ serving # "no" ~> serving = "no"
=============================================================================
