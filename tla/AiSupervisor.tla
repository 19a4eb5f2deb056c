---------------------------- MODULE AiSupervisor ----------------------------
(***************************************************************************)
(* The built-in model server and everybody who wants something of it: the  *)
(* supervisor task of app/src/main.rs, the AI section of the settings page *)
(* (ai_selection.rs), the wipe (danger_zone.rs), the tray and the update   *)
(* banner.  All of them run on the thread of the window's event loop; a    *)
(* task gives the thread up at its awaits only.                            *)
(*                                                                         *)
(* A click changes the page's signals, sends commands and spawns a job: a  *)
(* sequence of awaited statements, which the page takes with it when it is *)
(* left.  Statements of different jobs interleave.                         *)
(***************************************************************************)
EXTENDS Integers, Sequences, FiniteSets

CONSTANTS
  Models,      \* .gguf files of the catalog
  Remotes,     \* names of Ollama models
  None,        \* no model
  Manners,     \* "patient": a click finishes before the next one; "hasty"
  MaxClicks,   \* bound: clicks of a patient user on the settings page
  MaxHasty,    \* bound: clicks of a hasty one
  MaxFaults    \* bound: failed statements, failed spawns, dying servers, for the hasty user

ASSUME SupervisorConstantsOK ==
  /\ Models \cap Remotes = {} /\ None \notin Models \cup Remotes
  /\ Manners \subseteq {"patient", "hasty"}
  /\ {MaxClicks, MaxHasty, MaxFaults} \subseteq Nat

VARIABLES
  backend,   \* setting ai_backend; an absent one reads as "builtin"
  model,     \* setting active_ai_model_id
  files,     \* models on disk
  deleted,   \* history: models deleted from the list and not downloaded since
  manner,    \* whether the user lets a click finish
  screen,    \* the settings page: "closed", loading its signals, or "open"
  shown,     \* signals active_backend and active_model
  jobs,      \* jobs[i]: what click i has still to await
  clicks,    \* clicks so far
  queue,     \* the AiCommand channel
  last,      \* history: the last command sent
  sup,       \* where the supervisor task is
  arg,       \* what it holds across its await
  owner,     \* ACTIVE_CHILD_PROCESS is locked by the supervisor
  child,     \* the model of the registered Child
  childUp,   \* that process is alive
  stray,     \* live server processes that are not registered
  ui,        \* the event loop: "running", "blocked" in lock(), "exited"
  faults     \* failures so far

settings == <<backend, model, files, deleted>>
view     == <<screen, shown, jobs, clicks>>
channel  == <<queue, last>>
worker   == <<sup, arg, owner>>
server   == <<child, childUp, stray>>
vars == <<manner, settings, view, channel, worker, server, ui, faults>>

Backends == {"builtin", "ollama"}
Named == Models \cup Remotes \cup {None}
StartBuiltin(m) == <<"start", m>>
StopBuiltin == <<"stop", None>>
Command == ({"start"} \X (Models \cup Remotes)) \cup {StopBuiltin}
Statement == ({"backend"} \X Backends) \cup ({"model"} \X Named) \cup ({"file"} \X Models)
             \cup ({"uninstall"} \X Remotes) \cup {<<"wipe", None>>}
Signals(b, m) == [backend |-> b, model |-> m]

TypeOK ==
  /\ manner \in Manners
  /\ backend \in Backends /\ model \in Named /\ files \subseteq Models /\ deleted \subseteq Models
  /\ screen \in {"closed", "backend", "model", "open"}
  /\ shown \in [backend : Backends, model : Named]
  /\ jobs \in [1..MaxClicks -> Seq(Statement)]
  /\ clicks \in 0..MaxClicks
  /\ queue \in Seq(Command) /\ last \in Command
  /\ sup \in {"boot", "bootModel", "recv", "killing"}
  /\ arg \in IF sup = "bootModel" THEN Backends
            ELSE IF sup = "killing" THEN Models \cup Remotes ELSE {None}
  /\ owner \in BOOLEAN
  /\ child \in Named /\ childUp \in BOOLEAN /\ stray \in Nat
  /\ ui \in {"running", "blocked", "exited"}
  /\ faults \in Nat

NoJobs == [i \in 1..MaxClicks |-> <<>>]
Unloaded == Signals("builtin", None)

Init ==
  /\ manner \in Manners
  /\ files \in SUBSET Models /\ deleted = {}
  /\ \/ backend = "builtin" /\ model \in files \cup {None}
     \/ backend = "ollama"  /\ model \in Remotes \cup {None}
  /\ screen = "closed" /\ shown = Unloaded /\ jobs = NoJobs /\ clicks = 0
  /\ queue = <<>> /\ last = StopBuiltin
  /\ sup = "boot" /\ arg = None /\ owner = FALSE
  /\ child = None /\ childUp = FALSE /\ stray = 0
  /\ ui = "running" /\ faults = 0

Fault == manner = "hasty" /\ faults < MaxFaults /\ faults' = faults + 1
Idle == sup = "recv" /\ queue = <<>>
Send(cmds) ==
  /\ queue' = queue \o cmds
  /\ last' = IF cmds = <<>> THEN last ELSE cmds[Len(cmds)]

-----------------------------------------------------------------------------
(* The supervisor task.                                                    *)

\* The settings are read with an await in between.
BootBackend ==
  /\ ui = "running" /\ sup = "boot"
  /\ sup' = "bootModel" /\ arg' = backend
  /\ UNCHANGED <<manner, settings, view, channel, owner, server, ui, faults>>

BootModel ==
  /\ ui = "running" /\ sup = "bootModel"
  /\ Send(IF arg = "builtin" /\ model # None THEN <<StartBuiltin(model)>> ELSE <<>>)
  /\ sup' = "recv" /\ arg' = None
  /\ UNCHANGED <<manner, settings, view, owner, server, ui, faults>>

\* start_process and the registration of its Child; a Child that is replaced
\* there goes on running.
Launch(m) ==
  \/ /\ child' = m /\ childUp' = TRUE
     /\ stray' = IF childUp THEN stray + 1 ELSE stray
     /\ UNCHANGED faults
  \/ Fault /\ UNCHANGED server

TakeCommand ==
  /\ ui = "running" /\ sup = "recv" /\ queue # <<>>
  /\ queue' = Tail(queue)

\* Mutant: the registered process is not taken down first.
StartAnyway ==
  /\ TakeCommand /\ Head(queue)[1] = "start"
  /\ Launch(Head(queue)[2])
  /\ UNCHANGED <<manner, settings, view, last, worker, ui>>

\* No registered process: the start needs no await.
StartFresh ==
  /\ TakeCommand /\ Head(queue)[1] = "start" /\ child = None
  /\ Launch(Head(queue)[2])
  /\ UNCHANGED <<manner, settings, view, last, worker, ui>>

\* Kill and wait, then sleep(200ms).await with the lock still held.
StartReplacing ==
  /\ TakeCommand /\ Head(queue)[1] = "start" /\ child # None
  /\ arg' = Head(queue)[2] /\ sup' = "killing" /\ owner' = TRUE
  /\ child' = None /\ childUp' = FALSE
  /\ UNCHANGED <<manner, settings, view, last, stray, ui, faults>>

WakeUp ==
  /\ ui = "running" /\ sup = "killing"
  /\ Launch(arg)
  /\ sup' = "recv" /\ arg' = None /\ owner' = FALSE
  /\ UNCHANGED <<manner, settings, view, channel, ui>>

\* Mutant: the command is taken and the process left alone.
StopSkipped ==
  /\ TakeCommand /\ Head(queue)[1] = "stop"
  /\ UNCHANGED <<manner, settings, view, last, worker, server, ui, faults>>

StopServer ==
  /\ TakeCommand /\ Head(queue)[1] = "stop"
  /\ child' = None /\ childUp' = FALSE
  /\ UNCHANGED <<manner, settings, view, last, worker, stray, ui, faults>>

Supervise ==
  BootBackend \/ BootModel \/ StartFresh \/ StartReplacing \/ WakeUp \/ StopServer

ServerDies ==
  /\ childUp /\ Fault
  /\ childUp' = FALSE
  /\ UNCHANGED <<manner, settings, view, channel, worker, child, stray, ui>>

-----------------------------------------------------------------------------
(* The settings page.                                                      *)

Unhurried == screen \in {"closed", "open"} /\ jobs = NoJobs /\ sup \notin {"boot", "bootModel"}

OpenPage ==
  /\ ui = "running" /\ screen = "closed"
  /\ screen' = "backend" /\ shown' = Unloaded
  /\ UNCHANGED <<manner, settings, jobs, clicks, channel, worker, server, ui, faults>>

\* Mutant: the stored backend is not read.
LoadBackendUnread ==
  /\ ui = "running" /\ screen = "backend" /\ screen' = "model"
  /\ UNCHANGED <<manner, settings, shown, jobs, clicks, channel, worker, server, ui, faults>>

\* "builtin" may stand for an absent setting, and that leaves the signal as it is.
LoadBackend ==
  /\ ui = "running" /\ screen = "backend" /\ screen' = "model"
  /\ \/ shown' = Signals(backend, shown.model)
     \/ backend = "builtin" /\ UNCHANGED shown
  /\ UNCHANGED <<manner, settings, jobs, clicks, channel, worker, server, ui, faults>>

LoadModel ==
  /\ ui = "running" /\ screen = "model"
  /\ screen' = "open"
  /\ shown' = Signals(shown.backend, IF model = None THEN shown.model ELSE model)
  /\ UNCHANGED <<manner, settings, jobs, clicks, channel, worker, server, ui, faults>>

\* The component is unmounted and its spawned jobs are dropped.
LeavePage ==
  /\ ui = "running" /\ screen # "closed" /\ (manner = "patient" => Unhurried)
  /\ screen' = "closed" /\ jobs' = NoJobs
  /\ UNCHANGED <<manner, settings, shown, clicks, channel, worker, server, ui, faults>>

Click(signals, cmds, job) ==
  /\ ui = "running" /\ screen # "closed" /\ clicks < MaxClicks
  /\ IF manner = "patient" THEN Unhurried ELSE clicks < MaxHasty
  /\ shown' = signals
  /\ Send(cmds)
  /\ clicks' = clicks + 1
  /\ jobs' = [jobs EXCEPT ![clicks + 1] = job]
  /\ UNCHANGED <<manner, screen, worker, server, ui, faults>>

Active(b, m) == shown.backend = b /\ shown.model = m

SelectBuiltin(m) ==
  /\ m \in files /\ ~Active("builtin", m)
  /\ Click(Signals("builtin", m), <<StartBuiltin(m)>>,
           <<<<"backend", "builtin">>, <<"model", m>>>>)
  /\ UNCHANGED settings

DeselectBuiltin(m) ==
  /\ m \in files /\ Active("builtin", m)
  /\ Click(Signals(shown.backend, None), <<StopBuiltin>>, <<<<"model", None>>>>)
  /\ UNCHANGED settings

\* Mutant: the built-in server keeps running.
SelectOllamaOnly(r) ==
  /\ ~Active("ollama", r)
  /\ Click(Signals("ollama", r), <<>>,
           <<<<"backend", "ollama">>, <<"model", r>>>>)
  /\ UNCHANGED settings

SelectOllama(r) ==
  /\ ~Active("ollama", r)
  /\ Click(Signals("ollama", r), <<StopBuiltin>>,
           <<<<"backend", "ollama">>, <<"model", r>>>>)
  /\ UNCHANGED settings

DeselectOllama(r) ==
  /\ Active("ollama", r)
  /\ Click(Signals(shown.backend, None), <<>>, <<<<"model", None>>>>)
  /\ UNCHANGED settings

UninstallOllama(r) == Click(shown, <<>>, <<<<"uninstall", r>>>>) /\ UNCHANGED settings

\* Mutant: the file goes and the choice stays.
DeleteFileOnly(m) == m \in files /\ Click(shown, <<>>, <<<<"file", m>>>>) /\ UNCHANGED settings

\* An active model is deselected first, and 400 ms later the file goes.
DeleteBuiltin(m) ==
  /\ m \in files
  /\ IF Active("builtin", m)
     THEN Click(Signals(shown.backend, None), <<StopBuiltin>>,
                <<<<"model", None>>, <<"file", m>>>>)
     ELSE Click(shown, <<>>, <<<<"file", m>>>>)
  /\ UNCHANGED settings

\* Model files, if asked for, are removed before the first await.
Wipe ==
  /\ Click(shown, <<StopBuiltin>>, <<<<"wipe", None>>>>)
  /\ files' \in {files, {}}
  /\ UNCHANGED <<backend, model, deleted>>

\* ModelDownloader renames a complete file into place.
Download(m) ==
  /\ ui = "running" /\ files' = files \cup {m} /\ deleted' = deleted \ {m}
  /\ UNCHANGED <<manner, backend, model, view, channel, worker, server, ui, faults>>

\* One awaited statement of job i.
Await(i, what, rest) ==
  /\ ui = "running" /\ jobs[i] # <<>> /\ Head(jobs[i])[1] = what
  /\ jobs' = [jobs EXCEPT ![i] = rest]
  /\ UNCHANGED <<manner, clicks, channel, worker, server, ui>>

\* set_setting, delete_setting or delete_model; a failure is ignored or logged.
WriteStep(i) ==
  LET s == Head(jobs[i])
  IN /\ \E what \in {"backend", "model", "file"} : Await(i, what, Tail(jobs[i]))
     /\ UNCHANGED <<screen, shown>>
     /\ \/ /\ backend' = IF s[1] = "backend" THEN s[2] ELSE backend
           /\ model'   = IF s[1] = "model"   THEN s[2] ELSE model
           /\ files'   = IF s[1] = "file"    THEN files \ {s[2]} ELSE files
           /\ deleted' = IF s[1] = "file"    THEN deleted \cup {s[2]} ELSE deleted
           /\ UNCHANGED faults
        \/ Fault /\ UNCHANGED settings

\* Ollama's answer; only then is the active model looked at.
UninstallStep(i) ==
  /\ LET wasActive == Active("ollama", Head(jobs[i])[2])
     IN \/ /\ Await(i, "uninstall", IF wasActive THEN <<<<"model", None>>>> ELSE <<>>)
           /\ shown' = Signals(shown.backend, IF wasActive THEN None ELSE shown.model)
           /\ UNCHANGED faults
        \/ Await(i, "uninstall", <<>>) /\ Fault /\ UNCHANGED shown
  /\ UNCHANGED <<settings, screen>>

\* wipe_all_data; on success the router leaves the page.
WipeStep(i) ==
  /\ UNCHANGED shown
  /\ \/ /\ Await(i, "wipe", <<>>) /\ Fault
        /\ UNCHANGED <<settings, screen>>
     \/ /\ ui = "running" /\ jobs[i] # <<>> /\ Head(jobs[i])[1] = "wipe"
        /\ backend' = "builtin" /\ model' = None /\ screen' = "closed"
        /\ jobs' = NoJobs
        /\ UNCHANGED <<manner, files, deleted, clicks, channel, worker, server, ui, faults>>

JobStep == \E i \in 1..MaxClicks : WriteStep(i) \/ UninstallStep(i) \/ WipeStep(i)

PageStep ==
  \/ OpenPage \/ LoadBackend \/ LoadModel \/ LeavePage \/ Wipe
  \/ \E m \in Models : \/ SelectBuiltin(m) \/ DeselectBuiltin(m)
                       \/ DeleteBuiltin(m) \/ Download(m)
  \/ \E r \in Remotes : SelectOllama(r) \/ DeselectOllama(r) \/ UninstallOllama(r)

-----------------------------------------------------------------------------
(* The end of the process.                                                 *)

\* Tray Quit and Restart Now lock the registry on the event loop's thread.
Quit ==
  /\ ui = "running"
  /\ IF owner
     THEN ui' = "blocked" /\ UNCHANGED server
     ELSE ui' = "exited" /\ child' = None /\ childUp' = FALSE /\ UNCHANGED stray
  /\ UNCHANGED <<manner, settings, view, channel, worker, faults>>

\* The window loop returns: its tasks are dropped, the lock with them.
LoopReturns ==
  /\ ui = "running" /\ ui' = "exited"
  /\ owner' = FALSE /\ child' = None /\ childUp' = FALSE
  /\ UNCHANGED <<manner, settings, view, channel, sup, arg, stray, faults>>

Exit == Quit \/ LoopReturns

Next == Supervise \/ ServerDies \/ PageStep \/ JobStep \/ Exit

Spec == Init /\ [][Next]_vars
\* The event loop polls every task that can go on.
FairSpec == Spec /\ WF_vars(Supervise) /\ WF_vars(JobStep)
                 /\ WF_vars(LoadBackend \/ LoadModel)

-----------------------------------------------------------------------------
(* Properties.                                                             *)

\* At most one server runs, it is the registered one, and none outlives the
\* program (main.rs: "Terminates any existing instance before launching").
NoStrayServer ==
  /\ stray = 0
  /\ childUp => child # None
  /\ ui = "exited" => ~childUp

\* Commands take effect in the order they were sent: once the channel is
\* drained, a registered server is the one the last command asked for.
ServerFollowsCommands ==
  ui = "running" /\ Idle /\ child # None => last = StartBuiltin(child)

\* When nothing is pending, the registered server is the model the settings
\* name for the built-in backend, for a user who lets a click finish.
ServerFollowsSettings ==
  manner = "patient" /\ ui = "running" /\ Idle /\ jobs = NoJobs =>
    child = IF backend = "builtin" THEN model ELSE None

\* "If the user deletes a model that is currently marked as active,
\* ACTIVE_AI_MODEL_ID is cleared": when no job is pending, the settings name
\* no built-in model that was deleted (a user who deletes before the page has
\* loaded its signals is not protected).
OrphanProtection ==
  manner = "patient" /\ jobs = NoJobs /\ backend = "builtin" => model \notin deleted

\* The signals the page shows are what the next start will read, once the
\* clicks have finished.
PageShowsSettings ==
  manner = "patient" /\ screen = "open" /\ jobs = NoJobs =>
    shown = Signals(backend, model)

\* Whoever asks the program to end sees it end.
QuitTerminates == ui # "running" ~> ui = "exited"

\* For a user who lets a click finish, and without failures, the server the
\* settings ask for ends up running and no other.
SettingsTakeEffect ==
  manner = "patient" => <>[](ui # "running" \/ child = IF backend = "builtin" THEN model ELSE None)
=============================================================================
