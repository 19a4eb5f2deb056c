------------------------- MODULE AiSupervisorProofs -------------------------
(***************************************************************************)
(* The server process under every schedule of clicks, jobs, failures and   *)
(* exits: none is left running unregistered, and commands take effect in   *)
(* the order in which they were sent.  For a user who lets a click finish, *)
(* settings, page, files and server agree once nothing is pending.         *)
(***************************************************************************)
EXTENDS AiSupervisor, SequenceTheorems, TLAPS

LEMMA SendTyped ==
  ASSUME TypeOK, NEW cmds \in Seq(Command), Send(cmds)
  PROVE  queue' \in Seq(Command) /\ last' \in Command
<1>1. queue \in Seq(Command) /\ last \in Command
  BY DEF TypeOK
<1>2. cmds # <<>> => cmds[Len(cmds)] \in Command
  OBVIOUS
<1>3. queue \o cmds \in Seq(Command)
  BY <1>1
<1> QED BY <1>1, <1>2, <1>3 DEF Send

\* What a click leaves behind is well typed if its signals, commands and job are.
LEMMA ClickTyped ==
  ASSUME TypeOK,
         NEW signals \in [backend : Backends, model : Named],
         NEW cmds \in Seq(Command), NEW job \in Seq(Statement),
         Click(signals, cmds, job),
         UNCHANGED <<backend, model, deleted>>, files' \subseteq Models
  PROVE  TypeOK'
<1>1. queue' \in Seq(Command) /\ last' \in Command
  BY SendTyped DEF Click
<1>2. clicks + 1 \in 1..MaxClicks /\ clicks' = clicks + 1
  BY SupervisorConstantsOK DEF Click, TypeOK
<1>3. jobs' \in [1..MaxClicks -> Seq(Statement)]
  BY <1>2 DEF Click, TypeOK
<1>4. shown' \in [backend : Backends, model : Named]
  BY DEF Click
<1>5. clicks' \in 0..MaxClicks
  BY <1>2
<1> QED BY <1>1, <1>3, <1>4, <1>5 DEF TypeOK, Click, worker, server

LEMMA SupervisorTyped == TypeOK /\ (Supervise \/ ServerDies \/ Exit) => TypeOK'
<1> SUFFICES ASSUME TypeOK, Supervise \/ ServerDies \/ Exit PROVE TypeOK'
  OBVIOUS
<1> USE SupervisorConstantsOK DEF settings, view, channel, worker, server
<1>1. ASSUME TakeCommand
      PROVE  /\ queue' \in Seq(Command)
             /\ Head(queue) \in Command
             /\ Head(queue)[1] = "start" => Head(queue)[2] \in Models \cup Remotes
  <2>1. queue \in Seq(Command) /\ queue # <<>> /\ queue' = Tail(queue)
    BY <1>1 DEF TypeOK, TakeCommand
  <2>2. Head(queue) \in Command /\ Tail(queue) \in Seq(Command)
    BY <2>1
  <2> QED BY <2>1, <2>2 DEF Command, StopBuiltin
<1>2. ASSUME NEW m \in Models \cup Remotes, Launch(m)
      PROVE  child' \in Named /\ childUp' \in BOOLEAN /\ stray' \in Nat /\ faults' \in Nat
  <2>1. faults \in Nat /\ stray \in Nat /\ child \in Named /\ childUp \in BOOLEAN
    BY DEF TypeOK
  <2>2. faults' \in Nat
    BY <1>2, <2>1 DEF Launch, Fault
  <2>3. stray' \in Nat
    BY <1>2, <2>1 DEF Launch
  <2>5. childUp' \in BOOLEAN
    BY <1>2, <2>1, Zenon DEF Launch, server
  <2>4. child' \in Named
    BY <1>2, <2>1 DEF Launch, Named
  <2> QED BY <2>2, <2>3, <2>4, <2>5
<1>3. CASE BootBackend
  BY <1>3 DEF BootBackend, TypeOK
<1>4. CASE BootModel
  <2>1. (IF arg = "builtin" /\ model # None THEN <<StartBuiltin(model)>> ELSE <<>>) \in Seq(Command)
    <3>1. ASSUME model # None PROVE StartBuiltin(model) \in Command
      BY <3>1 DEF TypeOK, Named, Command, StartBuiltin
    <3> QED BY <3>1
  <2>2. queue' \in Seq(Command) /\ last' \in Command
    BY <1>4, <2>1, SendTyped DEF BootModel
  <2> QED BY <1>4, <2>2 DEF BootModel, TypeOK
<1>5. CASE StartFresh
  <2>1. TakeCommand /\ Launch(Head(queue)[2]) /\ Head(queue)[1] = "start"
    BY <1>5 DEF StartFresh
  <2>2. child' \in Named /\ childUp' \in BOOLEAN /\ stray' \in Nat /\ faults' \in Nat
    BY <1>1, <1>2, <2>1
  <2> QED BY <1>1, <1>5, <2>1, <2>2 DEF StartFresh, TypeOK
<1>6. CASE StartReplacing
  <2>1. TakeCommand /\ arg' \in Models \cup Remotes /\ sup' = "killing"
    BY <1>1, <1>6 DEF StartReplacing
  <2> QED BY <1>1, <1>6, <2>1 DEF StartReplacing, TypeOK, Named
<1>7. CASE WakeUp
  <2>1. child' \in Named /\ childUp' \in BOOLEAN /\ stray' \in Nat /\ faults' \in Nat
    BY <1>2, <1>7 DEF WakeUp, TypeOK
  <2> QED BY <1>7, <2>1 DEF WakeUp, TypeOK
<1>8. CASE StopServer
  BY <1>1, <1>8 DEF StopServer, TypeOK, Named
<1>9. CASE ServerDies
  <2>1. faults' \in Nat
    BY <1>9 DEF ServerDies, Fault, TypeOK
  <2> QED BY <1>9, <2>1 DEF ServerDies, TypeOK
<1>10. CASE Exit
  BY <1>10 DEF Exit, Quit, LoopReturns, TypeOK, Named
<1> QED BY <1>3, <1>4, <1>5, <1>6, <1>7, <1>8, <1>9, <1>10 DEF Supervise

LEMMA PageTyped == TypeOK /\ PageStep => TypeOK'
<1> SUFFICES ASSUME TypeOK, PageStep PROVE TypeOK'
  OBVIOUS
<1> USE SupervisorConstantsOK DEF settings, view, channel, worker, server
<1> DEFINE Sig == [backend : Backends, model : Named]
<1>1. shown \in Sig /\ shown.backend \in Backends /\ shown.model \in Named
  BY DEF TypeOK
<1>2. <<>> \in Seq(Command) /\ <<StopBuiltin>> \in Seq(Command)
  BY DEF Command
<1>3. ASSUME NEW b \in Backends, NEW m \in Named PROVE Signals(b, m) \in Sig
  BY DEF Signals
<1>4. NoJobs \in [1..MaxClicks -> Seq(Statement)]
  BY DEF NoJobs
<1>5. CASE OpenPage
  <2>1. shown' \in Sig
    BY <1>3, <1>5 DEF OpenPage, Unloaded, Named, Backends
  <2> QED BY <1>5, <2>1 DEF OpenPage, TypeOK
<1>6. CASE LoadBackend
  <2>1. shown' \in Sig
    BY <1>1, <1>3, <1>6 DEF LoadBackend, TypeOK
  <2> QED BY <1>6, <2>1 DEF LoadBackend, TypeOK
<1>7. CASE LoadModel
  <2>1. shown' \in Sig
    BY <1>1, <1>3, <1>7 DEF LoadModel, TypeOK
  <2> QED BY <1>7, <2>1 DEF LoadModel, TypeOK
<1>8. CASE LeavePage
  BY <1>4, <1>8 DEF LeavePage, TypeOK
<1>9. CASE Wipe
  <2>1. <<<<"wipe", None>>>> \in Seq(Statement)
    BY DEF Statement
  <2> QED BY <1>1, <1>2, <1>9, <2>1, ClickTyped DEF Wipe, TypeOK
<1>10. ASSUME NEW m \in Models, SelectBuiltin(m) PROVE TypeOK'
  <2>1. <<StartBuiltin(m)>> \in Seq(Command)
    BY DEF Command, StartBuiltin
  <2>2. <<<<"backend", "builtin">>, <<"model", m>>>> \in Seq(Statement)
    BY DEF Statement, Named, Backends
  <2>3. Signals("builtin", m) \in Sig
    BY <1>3 DEF Named, Backends
  <2> QED BY <1>10, <2>1, <2>2, <2>3, ClickTyped DEF SelectBuiltin, TypeOK
<1>11. <<<<"model", None>>>> \in Seq(Statement)
  BY DEF Statement, Named
<1>12. Signals(shown.backend, None) \in Sig
  BY <1>1, <1>3 DEF Named
<1>13. ASSUME NEW m \in Models, DeselectBuiltin(m) PROVE TypeOK'
  BY <1>2, <1>11, <1>12, <1>13, ClickTyped DEF DeselectBuiltin, TypeOK
<1>14. ASSUME NEW m \in Models, DeleteBuiltin(m) PROVE TypeOK'
  <2>1. /\ <<<<"model", None>>, <<"file", m>>>> \in Seq(Statement)
        /\ <<<<"file", m>>>> \in Seq(Statement)
    BY DEF Statement, Named
  <2> QED BY <1>1, <1>2, <1>12, <1>14, <2>1, ClickTyped DEF DeleteBuiltin, TypeOK
<1>15. ASSUME NEW m \in Models, Download(m) PROVE TypeOK'
  BY <1>15 DEF Download, TypeOK
<1>16. ASSUME NEW r \in Remotes, SelectOllama(r) PROVE TypeOK'
  <2>1. <<<<"backend", "ollama">>, <<"model", r>>>> \in Seq(Statement)
    BY DEF Statement, Named, Backends
  <2>2. Signals("ollama", r) \in Sig
    BY <1>3 DEF Named, Backends
  <2> QED BY <1>2, <1>16, <2>1, <2>2, ClickTyped DEF SelectOllama, TypeOK
<1>17. ASSUME NEW r \in Remotes, DeselectOllama(r) PROVE TypeOK'
  BY <1>2, <1>11, <1>12, <1>17, ClickTyped DEF DeselectOllama, TypeOK
<1>18. ASSUME NEW r \in Remotes, UninstallOllama(r) PROVE TypeOK'
  <2>1. <<<<"uninstall", r>>>> \in Seq(Statement)
    BY DEF Statement
  <2> QED BY <1>1, <1>2, <1>18, <2>1, ClickTyped DEF UninstallOllama, TypeOK
<1> QED BY <1>5, <1>6, <1>7, <1>8, <1>9, <1>10, <1>13, <1>14, <1>15, <1>16, <1>17, <1>18
        DEF PageStep

LEMMA JobTyped == TypeOK /\ JobStep => TypeOK'
<1> SUFFICES ASSUME TypeOK, NEW i \in 1..MaxClicks,
                    WriteStep(i) \/ UninstallStep(i) \/ WipeStep(i)
             PROVE  TypeOK'
  BY DEF JobStep
<1> USE SupervisorConstantsOK DEF settings, view, channel, worker, server
<1>1. ASSUME jobs[i] # <<>>
      PROVE  Head(jobs[i]) \in Statement /\ Tail(jobs[i]) \in Seq(Statement)
  BY <1>1 DEF TypeOK
<1>2. ASSUME NEW what, NEW rest \in Seq(Statement), Await(i, what, rest)
      PROVE  jobs' \in [1..MaxClicks -> Seq(Statement)] /\ jobs[i] # <<>>
  BY <1>2 DEF Await, TypeOK
<1>3. CASE WriteStep(i)
  <2>1. PICK what \in {"backend", "model", "file"} : Await(i, what, Tail(jobs[i]))
    BY <1>3 DEF WriteStep
  <2>2. jobs[i] # <<>>
    BY <2>1 DEF Await
  <2>3. jobs' \in [1..MaxClicks -> Seq(Statement)]
    BY <1>1, <1>2, <2>1, <2>2
  <2>4. Head(jobs[i]) \in Statement
    BY <1>1, <2>2
  <2>5. /\ Head(jobs[i])[1] = "backend" => Head(jobs[i])[2] \in Backends
        /\ Head(jobs[i])[1] = "model" => Head(jobs[i])[2] \in Named
        /\ Head(jobs[i])[1] = "file" => Head(jobs[i])[2] \in Models
    BY <2>4 DEF Statement
  <2>6. /\ backend' \in Backends /\ model' \in Named
        /\ files' \subseteq Models /\ deleted' \subseteq Models /\ faults' \in Nat
    BY <1>3, <2>5 DEF WriteStep, TypeOK, Fault
  <2> QED BY <1>3, <2>1, <2>3, <2>6 DEF WriteStep, Await, TypeOK
<1>4. CASE UninstallStep(i)
  <2> DEFINE rest == IF Active("ollama", Head(jobs[i])[2]) THEN <<<<"model", None>>>> ELSE <<>>
  <2>1. Await(i, "uninstall", rest) \/ Await(i, "uninstall", <<>>)
    BY <1>4 DEF UninstallStep
  <2>2. rest \in Seq(Statement) /\ <<>> \in Seq(Statement)
    <3>1. <<<<"model", None>>>> \in Seq(Statement) /\ <<>> \in Seq(Statement)
      BY DEF Statement, Named
    <3> QED  BY <3>1
  <2>3. jobs' \in [1..MaxClicks -> Seq(Statement)]
    BY <1>2, <2>1, <2>2
  <2>4. shown' \in [backend : Backends, model : Named]
    BY <1>4 DEF UninstallStep, Signals, TypeOK, Named
  <2>5. faults' \in Nat
    BY <1>4 DEF UninstallStep, Fault, TypeOK
  <2>6. UNCHANGED <<manner, settings, screen, clicks, channel, worker, server, ui>>
    BY <1>4, <2>1 DEF UninstallStep, Await
  <2> QED BY <2>3, <2>4, <2>5, <2>6 DEF TypeOK
<1>5. CASE WipeStep(i)
  <2>1. <<>> \in Seq(Statement) /\ NoJobs \in [1..MaxClicks -> Seq(Statement)]
    BY DEF NoJobs
  <2>2. CASE Await(i, "wipe", <<>>) /\ Fault /\ UNCHANGED <<shown, settings, screen>>
    <3>1. jobs' \in [1..MaxClicks -> Seq(Statement)]
      BY <1>2, <2>1, <2>2
    <3> QED BY <2>2, <3>1 DEF Await, Fault, TypeOK
  <2>3. CASE UNCHANGED shown /\ jobs' = NoJobs /\ backend' = "builtin" /\ model' = None
             /\ screen' = "closed"
             /\ UNCHANGED <<manner, files, deleted, clicks, channel, worker, server, ui, faults>>
    BY <2>1, <2>3 DEF TypeOK, Named, Backends
  <2> QED BY <1>5, <2>2, <2>3 DEF WipeStep
<1> QED BY <1>3, <1>4, <1>5

\* Every variable keeps its type for any number of models, clicks and faults.
THEOREM TypeCorrect == Spec => []TypeOK
<1> USE SupervisorConstantsOK
<1>1. Init => TypeOK
  <2> SUFFICES ASSUME Init PROVE TypeOK
    OBVIOUS
  <2>1. jobs \in [1..MaxClicks -> Seq(Statement)] /\ queue \in Seq(Command)
    BY DEF Init, NoJobs
  <2>2. shown \in [backend : Backends, model : Named]
    BY DEF Init, Unloaded, Signals, Backends, Named
  <2>3. last \in Command
    BY DEF Init, Command
  <2>4. model \in Named /\ backend \in Backends /\ child \in Named /\ arg \in {None}
    BY DEF Init, Named, Backends
  <2>5. faults \in Nat /\ stray \in Nat /\ clicks \in 0..MaxClicks
    BY DEF Init
  <2> QED BY <2>1, <2>2, <2>3, <2>4, <2>5 DEF Init, TypeOK
<1>2. TypeOK /\ [Next]_vars => TypeOK'
  <2> SUFFICES ASSUME TypeOK, [Next]_vars PROVE TypeOK'
    OBVIOUS
  <2>1. CASE UNCHANGED vars
    BY <2>1 DEF vars, settings, view, channel, worker, server, TypeOK
  <2> QED BY <2>1, SupervisorTyped, PageTyped, JobTyped DEF Next
<1> QED BY <1>1, <1>2, PTL DEF Spec

\* While the supervisor sleeps with the lock held, nothing is registered.
LockInv ==
  /\ sup \in {"boot", "bootModel", "recv", "killing"}
  /\ owner => sup = "killing"
  /\ sup = "killing" => child = None /\ ~childUp

ServerInv == TypeOK /\ LockInv /\ NoStrayServer

\* The page and its jobs touch neither the supervisor nor the server.
LEMMA PageLeavesServer ==
  ASSUME PageStep \/ JobStep
  PROVE  UNCHANGED <<sup, arg, owner, child, childUp, stray, ui>>
<1> USE DEF worker, server
<1>1. ASSUME NEW s, NEW c, NEW j, Click(s, c, j)
      PROVE  UNCHANGED <<sup, arg, owner, child, childUp, stray, ui>>
  BY <1>1 DEF Click
<1>2. ASSUME NEW i, NEW what, NEW rest, Await(i, what, rest)
      PROVE  UNCHANGED <<sup, arg, owner, child, childUp, stray, ui>>
  BY <1>2 DEF Await
<1>3. PageStep => UNCHANGED <<sup, arg, owner, child, childUp, stray, ui>>
  BY <1>1 DEF PageStep, OpenPage, LoadBackend, LoadModel, LeavePage, Wipe, SelectBuiltin,
     DeselectBuiltin, DeleteBuiltin, Download, SelectOllama, DeselectOllama, UninstallOllama
<1>4. JobStep => UNCHANGED <<sup, arg, owner, child, childUp, stray, ui>>
  BY <1>2 DEF JobStep, WriteStep, UninstallStep, WipeStep
<1> QED BY <1>3, <1>4

LEMMA ServerStep ==
  ASSUME ServerInv, TypeOK', [Next]_vars
  PROVE  ServerInv'
<1> USE SupervisorConstantsOK DEF ServerInv, LockInv, NoStrayServer, worker, server
<1>1. CASE Supervise
  <2>1. BootBackend \/ BootModel => ServerInv'
    BY DEF BootBackend, BootModel
  <2>2. StartFresh => ServerInv'
    <3> SUFFICES ASSUME StartFresh PROVE ServerInv'
      OBVIOUS
    <3>1. queue \in Seq(Command) /\ queue # <<>>
      BY DEF TypeOK, StartFresh, TakeCommand
    <3>2. Head(queue) \in Command
      BY <3>1
    <3>3. Head(queue)[2] # None
      BY <3>2 DEF Command, StopBuiltin, StartFresh
    <3> QED BY <3>3 DEF StartFresh, TakeCommand, Launch
  <2>3. StartReplacing \/ StopServer => ServerInv'
    BY DEF StartReplacing, StopServer, TakeCommand
  <2>4. WakeUp => ServerInv'
    <3> SUFFICES ASSUME WakeUp PROVE ServerInv'
      OBVIOUS
    <3>1. arg # None
      BY DEF WakeUp, TypeOK
    <3> QED BY <3>1 DEF WakeUp, Launch
  <2> QED BY <1>1, <2>1, <2>2, <2>3, <2>4 DEF Supervise
<1>2. CASE ServerDies
  BY <1>2 DEF ServerDies
<1>3. CASE PageStep \/ JobStep
  BY <1>3, PageLeavesServer
<1>4. CASE Exit
  BY <1>4 DEF Exit, Quit, LoopReturns
<1>5. CASE UNCHANGED vars
  BY <1>5 DEF vars
<1> QED BY <1>1, <1>2, <1>3, <1>4, <1>5 DEF Next

\* The inductive invariant of the registry and its lock.
THEOREM ServerInvHolds == Spec => []ServerInv
<1>1. Init /\ TypeOK => ServerInv
  BY DEF Init, ServerInv, LockInv, NoStrayServer
<1>2. ServerInv /\ TypeOK' /\ [Next]_vars => ServerInv'
  BY ServerStep
<1> QED BY <1>1, <1>2, TypeCorrect, PTL DEF Spec

\* At most one llama-server runs, it is the registered one, and it does not
\* outlive the program, whatever the user, the supervisor and the tray do.
THEOREM NoStrayServerHolds == Spec => []NoStrayServer
<1>1. ServerInv => NoStrayServer
  BY DEF ServerInv
<1> QED BY <1>1, ServerInvHolds, PTL

-----------------------------------------------------------------------------
(* Commands take effect in the order they were sent.                       *)

\* What the supervisor still owes to the last command, or has made of it.
CommandInv ==
  IF queue # <<>> THEN last = queue[Len(queue)]
  ELSE /\ sup = "killing" => last = StartBuiltin(arg)
       /\ sup = "recv" /\ child # None => last = StartBuiltin(child)

\* Nothing is registered before the channel is read for the first time.
BootInv == sup \in {"boot", "bootModel"} => child = None

OrderInv == ServerInv /\ BootInv /\ CommandInv

LEMMA SendKeepsLast ==
  ASSUME queue \in Seq(Command), NEW cmds \in Seq(Command), Send(cmds)
  PROVE  /\ cmds = <<>> => queue' = queue /\ last' = last
         /\ cmds # <<>> => queue' # <<>> /\ last' = queue'[Len(queue')]
<1>1. CASE cmds = <<>>
  BY <1>1 DEF Send
<1>2. CASE cmds # <<>>
  BY <1>2 DEF Send
<1> QED BY <1>1, <1>2

LEMMA PageSends ==
  ASSUME TypeOK, PageStep \/ JobStep
  PROVE  \E cmds \in Seq(Command) : Send(cmds)
<1> USE DEF channel
<1>1. <<>> \in Seq(Command) /\ <<StopBuiltin>> \in Seq(Command)
  BY DEF Command
<1>2. ASSUME NEW m \in Models PROVE <<StartBuiltin(m)>> \in Seq(Command)
  BY DEF Command, StartBuiltin
<1>3. ASSUME UNCHANGED channel PROVE Send(<<>>)
  <2>1. queue \in Seq(Command)
    BY DEF TypeOK
  <2> QED BY <1>3, <2>1 DEF Send
<1>4. ASSUME NEW s, NEW c, NEW j, Click(s, c, j) PROVE Send(c)
  BY <1>4 DEF Click
<1>5. CASE OpenPage \/ LoadBackend \/ LoadModel \/ LeavePage
           \/ (\E m \in Models : Download(m)) \/ JobStep
  <2>1. ASSUME NEW i, NEW what, NEW rest, Await(i, what, rest) PROVE UNCHANGED channel
    BY <2>1 DEF Await
  <2>2. JobStep => UNCHANGED channel
    BY <2>1 DEF JobStep, WriteStep, UninstallStep, WipeStep
  <2>3. UNCHANGED channel
    BY <1>5, <2>2 DEF OpenPage, LoadBackend, LoadModel, LeavePage, Download
  <2> QED BY <1>1, <1>3, <2>3
<1>6. CASE Wipe
  BY <1>1, <1>4, <1>6 DEF Wipe
<1>7. ASSUME NEW m \in Models, SelectBuiltin(m) \/ DeselectBuiltin(m) \/ DeleteBuiltin(m)
      PROVE  \E cmds \in Seq(Command) : Send(cmds)
  BY <1>1, <1>2, <1>4, <1>7 DEF SelectBuiltin, DeselectBuiltin, DeleteBuiltin
<1>8. ASSUME NEW r \in Remotes, SelectOllama(r) \/ DeselectOllama(r) \/ UninstallOllama(r)
      PROVE  \E cmds \in Seq(Command) : Send(cmds)
  BY <1>1, <1>4, <1>8 DEF SelectOllama, DeselectOllama, UninstallOllama
<1> QED BY <1>5, <1>6, <1>7, <1>8 DEF PageStep

\* The command taken is the last one exactly when the channel is empty after it.
LEMMA TakenCommand ==
  ASSUME TypeOK, CommandInv, TakeCommand
  PROVE  /\ Head(queue) \in Command
         /\ queue' = <<>> => last = Head(queue)
         /\ queue' # <<>> => last = queue'[Len(queue')]
<1>1. queue \in Seq(Command) /\ queue # <<>> /\ queue' = Tail(queue)
  BY DEF TypeOK, TakeCommand
<1>2. last = queue[Len(queue)]
  BY <1>1 DEF CommandInv
<1>3. Head(queue) \in Command
  BY <1>1
<1>4. CASE Len(queue) = 1
  BY <1>1, <1>2, <1>3, <1>4
<1>5. CASE Len(queue) # 1
  <2>1. Len(queue) \in Nat /\ Len(queue) > 1
    <3>1. Len(queue) \in Nat \ {0}
      BY <1>1, EmptySeq
    <3>2. \A n \in Nat \ {0} : n # 1 => n \in Nat /\ n > 1
      OBVIOUS
    <3> QED BY <1>5, <3>1, <3>2, Zenon
  <2>2. /\ queue' \in Seq(Command)
        /\ Len(queue') = Len(queue) - 1
    BY <1>1, <2>1, HeadTailProperties
  <2>3. queue' # <<>>
    BY <2>1, <2>2, EmptySeq
  <2>4. queue'[Len(queue')] = queue[Len(queue)]
    BY <1>1, <2>1, <2>2
  <2> QED BY <1>2, <1>3, <2>3, <2>4
<1> QED BY <1>4, <1>5

LEMMA OrderStep ==
  ASSUME OrderInv, ServerInv', [Next]_vars
  PROVE  OrderInv'
<1> USE SupervisorConstantsOK DEF OrderInv, BootInv, channel, worker, server
<1>1. TypeOK /\ LockInv
  BY DEF ServerInv
<1>2. CASE BootBackend
  BY <1>2 DEF BootBackend, CommandInv
<1>3. CASE BootModel
  <2> DEFINE cmds == IF arg = "builtin" /\ model # None THEN <<StartBuiltin(model)>> ELSE <<>>
  <2>1. ASSUME model # None PROVE StartBuiltin(model) \in Command
    BY <1>1, <2>1 DEF TypeOK, Named, Command, StartBuiltin
  <2>2. cmds \in Seq(Command)
    BY <2>1
  <2>3. queue \in Seq(Command) /\ Send(cmds)
    BY <1>1, <1>3 DEF TypeOK, BootModel
  <2>4. /\ cmds = <<>> => queue' = queue /\ last' = last
        /\ cmds # <<>> => queue' # <<>> /\ last' = queue'[Len(queue')]
    BY <2>2, <2>3, SendKeepsLast
  <2>5. child = None /\ child' = None /\ sup' = "recv"
    BY <1>3 DEF BootModel
  <2> QED BY <2>4, <2>5 DEF CommandInv
<1>4. CASE StartFresh
  <2>1. TakeCommand /\ Head(queue)[1] = "start" /\ Launch(Head(queue)[2]) /\ child = None
        /\ UNCHANGED <<last, sup>> /\ sup = "recv"
    BY <1>4 DEF StartFresh, TakeCommand
  <2>2. Head(queue) = StartBuiltin(Head(queue)[2])
    BY <1>1, <2>1, TakenCommand DEF Command, StopBuiltin, StartBuiltin
  <2>3. child' \in {None, Head(queue)[2]}
    BY <2>1 DEF Launch
  <2> QED BY <1>1, <2>1, <2>2, <2>3, TakenCommand DEF CommandInv
<1>5. CASE StartReplacing
  <2>1. TakeCommand /\ Head(queue)[1] = "start" /\ arg' = Head(queue)[2] /\ sup' = "killing"
        /\ UNCHANGED last
    BY <1>5 DEF StartReplacing
  <2>2. Head(queue) = StartBuiltin(Head(queue)[2])
    BY <1>1, <2>1, TakenCommand DEF Command, StopBuiltin, StartBuiltin
  <2> QED BY <1>1, <2>1, <2>2, TakenCommand DEF CommandInv
<1>6. CASE WakeUp
  <2>1. child = None /\ sup = "killing" /\ sup' = "recv" /\ UNCHANGED <<queue, last>>
    BY <1>1, <1>6 DEF WakeUp, LockInv
  <2>2. child' \in {None, arg}
    BY <1>6, <2>1 DEF WakeUp, Launch
  <2> QED BY <2>1, <2>2 DEF CommandInv
<1>7. CASE StopServer
  <2>1. TakeCommand /\ child' = None /\ UNCHANGED <<last, sup>> /\ sup = "recv"
    BY <1>7 DEF StopServer, TakeCommand
  <2> QED BY <1>1, <2>1, TakenCommand DEF CommandInv
<1>8. CASE ServerDies
  BY <1>8 DEF ServerDies, CommandInv
<1>9. CASE PageStep \/ JobStep
  <2>1. UNCHANGED <<sup, arg, child>>
    BY <1>9, PageLeavesServer
  <2>2. PICK cmds \in Seq(Command) : Send(cmds)
    BY <1>1, <1>9, PageSends
  <2>3. queue \in Seq(Command)
    BY <1>1 DEF TypeOK
  <2>4. (queue' = queue /\ last' = last) \/ (queue' # <<>> /\ last' = queue'[Len(queue')])
    BY <2>2, <2>3, SendKeepsLast
  <2> QED BY <2>1, <2>4 DEF CommandInv
<1>10. CASE Exit
  BY <1>10 DEF Exit, Quit, LoopReturns, CommandInv
<1>11. CASE UNCHANGED vars
  BY <1>11 DEF vars, CommandInv
<1> QED BY <1>2, <1>3, <1>4, <1>5, <1>6, <1>7, <1>8, <1>9, <1>10, <1>11 DEF Next, Supervise

\* Once the channel is drained, a registered server is the one the last command
\* asked for, however many clicks were made and whatever failed.
THEOREM ServerFollowsCommandsHolds == Spec => []ServerFollowsCommands
<1>1. Init /\ ServerInv => OrderInv
  BY DEF Init, OrderInv, BootInv, CommandInv
<1>2. OrderInv /\ ServerInv' /\ [Next]_vars => OrderInv'
  BY OrderStep
<1>3. OrderInv => ServerFollowsCommands
  BY DEF OrderInv, CommandInv, ServerFollowsCommands, Idle
<1> QED BY <1>1, <1>2, <1>3, ServerInvHolds, PTL DEF Spec

-----------------------------------------------------------------------------
(* A user who lets a click finish: the settings, the page and the server   *)
(* agree.                                                                  *)

\* The command that makes the server what the settings b and m ask for.
Desired(b, m) == IF b = "builtin" /\ m # None THEN StartBuiltin(m) ELSE StopBuiltin

Patient == manner = "patient"
Booting == sup \in {"boot", "bootModel"}

\* The signals are what the statements still to come will make of the settings.
Asked ==
  /\ last = Desired(shown.backend, shown.model)
  /\ shown.backend = "builtin" => shown.model \notin deleted

Applied == shown = Signals(backend, model)

\* The jobs a patient user's click can leave behind, and what is true while one is left.
Selecting(job) == job = <<<<"backend", shown.backend>>, <<"model", shown.model>>>>
Choosing(job)  == job = <<<<"model", shown.model>>>> /\ backend = shown.backend
Clearing(job, m)   == job = <<<<"model", None>>, <<"file", m>>>> /\ shown = Signals(backend, None)
Removing(job, m)   == job = <<<<"file", m>>>> /\ Applied /\ shown # Signals("builtin", m)
Uninstalling(job, r) == job = <<<<"uninstall", r>>>> /\ Applied
Wiping(job) == job = <<<<"wipe", None>>>> /\ last = StopBuiltin

Pending(job) ==
  \/ Wiping(job)
  \/ /\ Asked
     /\ \/ Selecting(job) \/ Choosing(job)
        \/ \E m \in Models : Clearing(job, m) \/ Removing(job, m)
        \/ \E r \in Remotes : Uninstalling(job, r)

Only(i, job) == [k \in 1..MaxClicks |-> IF k = i THEN job ELSE <<>>]

QuietInv ==
  /\ ~Booting => last = Desired(backend, model)
  /\ backend = "builtin" => model \notin deleted
  /\ screen = "open" => Applied
  /\ screen \in {"backend", "model"} => shown.model = None
  /\ screen = "backend" => shown.backend = "builtin"
  /\ screen = "model" => shown.backend = backend

PageInv ==
  /\ files \cap deleted = {}
  /\ Booting => jobs = NoJobs /\ last = StopBuiltin
  /\ sup = "bootModel" => arg = backend
  /\ jobs = NoJobs => QuietInv
  /\ jobs # NoJobs => /\ screen = "open"
                      /\ \E i \in 1..MaxClicks : jobs = Only(i, jobs[i]) /\ Pending(jobs[i])

\* Nothing is registered only after a stop.
StoppedInv == ui = "running" /\ queue = <<>> /\ sup = "recv" /\ child = None => last = StopBuiltin

PatientInv == Patient => PageInv /\ StoppedInv

\* Jobs of which at most one is left to do.
LEMMA OnlyJob ==
  ASSUME NEW i \in 1..MaxClicks
  PROVE  /\ Only(i, <<>>) = NoJobs
         /\ \A job : [NoJobs EXCEPT ![i] = job] = Only(i, job)
         /\ \A job, rest : [Only(i, job) EXCEPT ![i] = rest] = Only(i, rest)
         /\ \A job : Only(i, job)[i] = job
         /\ \A k \in 1..MaxClicks : \A job : Only(i, job)[k] # <<>> => k = i
         /\ \A job : job # <<>> => Only(i, job) # NoJobs
<1>1. \A job : Only(i, job)[i] = job /\ NoJobs[i] = <<>>
  BY DEF Only, NoJobs
<1>2. \A job : [NoJobs EXCEPT ![i] = job] = Only(i, job)
  BY DEF Only, NoJobs
<1>3. \A job, rest : [Only(i, job) EXCEPT ![i] = rest] = Only(i, rest)
  BY DEF Only
<1>4. \A k \in 1..MaxClicks : \A job : Only(i, job)[k] # <<>> => k = i
  BY DEF Only
<1>5. Only(i, <<>>) = NoJobs
  BY DEF Only, NoJobs
<1>6. \A job : job # <<>> => Only(i, job) # NoJobs
  BY <1>1
<1> QED BY <1>1, <1>2, <1>3, <1>4, <1>5, <1>6

\* First statement and rest of the jobs there are.
LEMMA ShortJobs ==
  /\ \A s : <<s>> # <<>> /\ Head(<<s>>) = s /\ Tail(<<s>>) = <<>>
  /\ \A s, t : <<s, t>> # <<>> /\ Head(<<s, t>>) = s /\ Tail(<<s, t>>) = <<t>>
  OBVIOUS

\* What a step of the supervisor, the tray or the window leaves alone.
LEMMA PageInvKept ==
  ASSUME PageInv, UNCHANGED <<settings, screen, shown, jobs, last>>,
         UNCHANGED <<sup, arg>> \/ (~Booting /\ ~Booting')
  PROVE  PageInv'
<1>1. UNCHANGED <<backend, model, files, deleted>>
  BY DEF settings
<1>2. QuietInv => (~Booting => last = Desired(backend, model)) /\ QuietInv'
  BY <1>1 DEF QuietInv, Booting, Applied
<1>3. ASSUME NEW i \in 1..MaxClicks, Pending(jobs[i])
      PROVE  Pending(jobs[i])'
  BY <1>1, <1>3 DEF Pending, Asked, Applied, Selecting, Choosing, Clearing, Removing, Uninstalling,
     Wiping
<1>4. \A i : (jobs = Only(i, jobs[i])) => (jobs = Only(i, jobs[i]))'
  BY DEF Only
<1>5. NoJobs' = NoJobs
  BY DEF NoJobs
<1> QED BY <1>1, <1>2, <1>3, <1>4, <1>5 DEF PageInv, Booting

\* A patient user clicks on a page that shows the settings, with nothing left to do.
LEMMA PatientClick ==
  ASSUME PageInv, Patient, NEW s, NEW c, NEW j, Click(s, c, j)
  PROVE  /\ Applied /\ jobs = NoJobs /\ ~Booting /\ ~Booting'
         /\ last = Desired(backend, model)
         /\ backend = "builtin" => model \notin deleted
         /\ shown.backend = backend /\ shown.model = model
         /\ shown' = s /\ last' = IF c = <<>> THEN last ELSE c[Len(c)]
<1>1. Unhurried /\ screen = "open"
  BY DEF Click, Unhurried, Patient
<1>2. ~Booting /\ jobs = NoJobs
  BY <1>1 DEF Unhurried, Booting
<1>3. QuietInv
  BY <1>2 DEF PageInv
<1>4. ~Booting'
  BY <1>2 DEF Click, worker, Booting
<1>5. shown' = s /\ last' = IF c = <<>> THEN last ELSE c[Len(c)]
  BY DEF Click, Send
<1>6. Applied
  BY <1>1, <1>3 DEF QuietInv
<1> QED BY <1>2, <1>3, <1>4, <1>5, <1>6 DEF QuietInv, Applied, Signals

LEMMA ClickKeepsPageInv ==
  ASSUME TypeOK, PageInv, Patient, NEW s, NEW c, NEW j, Click(s, c, j),
         UNCHANGED <<backend, model, deleted>>, files' \subseteq files,
         j # <<>>, Pending(j)'
  PROVE  PageInv'
<1>1. jobs = NoJobs /\ ~Booting' /\ screen = "open"
  BY PatientClick DEF Click, Patient, Unhurried
<1>2. PICK n \in 1..MaxClicks : n = clicks + 1
  BY SupervisorConstantsOK DEF Click, TypeOK
<1>3. jobs' = Only(n, j) /\ screen' = "open"
  BY <1>1, <1>2, OnlyJob DEF Click
<1>4. jobs'[n] = j /\ jobs' # NoJobs
  BY <1>3, OnlyJob
<1>5. (jobs = Only(n, jobs[n]))' /\ Pending(jobs[n])'
  BY <1>3, <1>4
<1>6. files' \cap deleted' = {}
  BY DEF PageInv
<1>7. \E i \in 1..MaxClicks : (jobs = Only(i, jobs[i]) /\ Pending(jobs[i]))'
  BY <1>5
<1>8. NoJobs' = NoJobs
  BY DEF NoJobs
<1> QED BY <1>1, <1>3, <1>4, <1>6, <1>7, <1>8 DEF PageInv, Booting

LEMMA PatientPageStep ==
  ASSUME TypeOK, PageInv, Patient, PageStep
  PROVE  PageInv'
<1> USE DEF settings, view, channel, worker
<1>1. None \notin Models /\ None \notin Remotes /\ Models \cap Remotes = {}
  BY SupervisorConstantsOK
<1>2. \A b, m : Signals(b, m).backend = b /\ Signals(b, m).model = m
  BY DEF Signals
<1>3. \A s, t : <<s>> # <<>> /\ <<s, t>> # <<>> /\ <<s>>[Len(<<s>>)] = s
  OBVIOUS
<1>4. files \cap deleted = {}
  BY DEF PageInv
<1>5. \A i, job : Only(i, job)' = Only(i, job)
  BY DEF Only
<1>6. CASE OpenPage
  BY <1>6, <1>2, <1>5 DEF OpenPage, PageInv, QuietInv, Booting, Unloaded
<1>7. CASE LoadBackend
  BY <1>7, <1>2 DEF LoadBackend, PageInv, QuietInv, Booting
<1>8. CASE LoadModel
  BY <1>8, <1>2 DEF LoadModel, PageInv, QuietInv, Booting, Applied
<1>9. CASE LeavePage
  BY <1>9 DEF LeavePage, PageInv, QuietInv, Booting, Unhurried, Patient
<1>10. CASE Wipe
  <2>1. Click(shown, <<StopBuiltin>>, <<<<"wipe", None>>>>)
    BY <1>10 DEF Wipe
  <2>2. last' = StopBuiltin
    BY <2>1, <1>3, PatientClick
  <2>3. Pending(<<<<"wipe", None>>>>)'
    BY <2>2 DEF Pending, Wiping
  <2>4. files' \subseteq files
    BY <1>10 DEF Wipe
  <2> QED BY <1>3, <1>10, <2>1, <2>3, <2>4, ClickKeepsPageInv DEF Wipe
<1>11. ASSUME NEW m \in Models, SelectBuiltin(m) PROVE PageInv'
  <2> DEFINE job == <<<<"backend", "builtin">>, <<"model", m>>>>
  <2>1. Click(Signals("builtin", m), <<StartBuiltin(m)>>, job) /\ m \in files
    BY <1>11 DEF SelectBuiltin
  <2>2. shown' = Signals("builtin", m) /\ last' = StartBuiltin(m)
    BY <2>1, <1>3, PatientClick
  <2>3. Asked' /\ Selecting(job)'
    BY <1>1, <1>2, <1>4, <1>11, <2>1, <2>2 DEF Asked, Desired, Selecting, SelectBuiltin
  <2>4. Pending(job)'
    BY <2>3 DEF Pending
  <2> QED BY <1>3, <1>11, <2>1, <2>4, ClickKeepsPageInv DEF SelectBuiltin
<1>12. ASSUME NEW m \in Models, DeselectBuiltin(m) PROVE PageInv'
  <2> DEFINE job == <<<<"model", None>>>>
  <2>1. Click(Signals(shown.backend, None), <<StopBuiltin>>, job)
    BY <1>12 DEF DeselectBuiltin
  <2>2. shown' = Signals(shown.backend, None) /\ last' = StopBuiltin /\ shown.backend = backend
    BY <2>1, <1>3, PatientClick
  <2>3. deleted \subseteq Models
    BY DEF TypeOK
  <2>4. Asked' /\ Choosing(job)'
    BY <1>1, <1>2, <1>12, <2>2, <2>3 DEF Asked, Desired, Choosing, DeselectBuiltin
  <2>5. Pending(job)'
    BY <2>4 DEF Pending
  <2> QED BY <1>3, <1>12, <2>1, <2>5, ClickKeepsPageInv DEF DeselectBuiltin
<1>13. ASSUME NEW r \in Remotes, SelectOllama(r) PROVE PageInv'
  <2> DEFINE job == <<<<"backend", "ollama">>, <<"model", r>>>>
  <2>1. Click(Signals("ollama", r), <<StopBuiltin>>, job)
    BY <1>13 DEF SelectOllama
  <2>2. shown' = Signals("ollama", r) /\ last' = StopBuiltin
    BY <2>1, <1>3, PatientClick
  <2>3. Asked' /\ Selecting(job)'
    BY <1>2, <2>2 DEF Asked, Desired, Selecting
  <2>4. Pending(job)'
    BY <2>3 DEF Pending
  <2> QED BY <1>3, <1>13, <2>1, <2>4, ClickKeepsPageInv DEF SelectOllama
<1>14. ASSUME NEW r \in Remotes, DeselectOllama(r) PROVE PageInv'
  <2> DEFINE job == <<<<"model", None>>>>
  <2>1. Click(Signals(shown.backend, None), <<>>, job) /\ shown.backend = "ollama"
    BY <1>14 DEF DeselectOllama, Active
  <2>2. shown' = Signals("ollama", None) /\ last' = last /\ backend = "ollama"
        /\ last = Desired(backend, model)
    BY <2>1, PatientClick
  <2>3. Asked' /\ Choosing(job)'
    BY <1>2, <1>14, <2>2 DEF Asked, Desired, Choosing, DeselectOllama
  <2>4. Pending(job)'
    BY <2>3 DEF Pending
  <2> QED BY <1>3, <1>14, <2>1, <2>4, ClickKeepsPageInv DEF DeselectOllama
<1>15. ASSUME NEW r \in Remotes, UninstallOllama(r) PROVE PageInv'
  <2> DEFINE job == <<<<"uninstall", r>>>>
  <2>1. Click(shown, <<>>, job)
    BY <1>15 DEF UninstallOllama
  <2>2. /\ shown' = shown /\ last' = last /\ last = Desired(backend, model) /\ Applied
        /\ shown.backend = backend /\ shown.model = model
        /\ backend = "builtin" => model \notin deleted
    BY <2>1, PatientClick
  <2>3. Asked' /\ Uninstalling(job, r)'
    BY <1>15, <2>2 DEF Asked, Desired, Uninstalling, Applied, UninstallOllama
  <2>4. Pending(job)'
    BY <2>3 DEF Pending
  <2> QED BY <1>3, <1>15, <2>1, <2>4, ClickKeepsPageInv DEF UninstallOllama
<1>16. ASSUME NEW m \in Models, DeleteBuiltin(m) PROVE PageInv'
  <2>1. CASE Active("builtin", m)
    <3> DEFINE job == <<<<"model", None>>, <<"file", m>>>>
    <3>1. Click(Signals(shown.backend, None), <<StopBuiltin>>, job)
      BY <1>16, <2>1 DEF DeleteBuiltin
    <3>2. shown' = Signals(shown.backend, None) /\ last' = StopBuiltin /\ shown.backend = backend
      BY <3>1, <1>3, PatientClick
    <3>3. deleted \subseteq Models
      BY DEF TypeOK
    <3>4. Asked' /\ Clearing(job, m)'
      BY <1>1, <1>2, <1>16, <3>2, <3>3 DEF Asked, Desired, Clearing, DeleteBuiltin
    <3>5. Pending(job)'
      BY <3>4 DEF Pending
    <3> QED BY <1>3, <1>16, <3>1, <3>5, ClickKeepsPageInv DEF DeleteBuiltin
  <2>2. CASE ~Active("builtin", m)
    <3> DEFINE job == <<<<"file", m>>>>
    <3>1. Click(shown, <<>>, job)
      BY <1>16, <2>2 DEF DeleteBuiltin
    <3>2. /\ shown' = shown /\ last' = last /\ last = Desired(backend, model) /\ Applied
          /\ shown.backend = backend /\ shown.model = model
          /\ backend = "builtin" => model \notin deleted
      BY <3>1, PatientClick
    <3>3. shown # Signals("builtin", m)
      BY <1>2, <2>2 DEF Active
    <3>4. Asked' /\ Removing(job, m)'
      BY <1>16, <3>2, <3>3 DEF Asked, Desired, Removing, Applied, DeleteBuiltin
    <3>5. Pending(job)'
      BY <3>4 DEF Pending
    <3> QED BY <1>3, <1>16, <3>1, <3>5, ClickKeepsPageInv DEF DeleteBuiltin
  <2> QED BY <2>1, <2>2
<1>17. ASSUME NEW m \in Models, Download(m) PROVE PageInv'
  <2>1. /\ UNCHANGED <<backend, model, screen, shown, jobs, last, sup, arg>>
        /\ files' = files \cup {m} /\ deleted' = deleted \ {m}
    BY <1>17 DEF Download
  <2>2. QuietInv => QuietInv'
    BY <2>1 DEF QuietInv, Booting, Applied
  <2>3. ASSUME NEW i \in 1..MaxClicks, Pending(jobs[i]) PROVE Pending(jobs[i])'
    BY <2>1, <2>3 DEF Pending, Asked, Applied, Selecting, Choosing, Clearing, Removing,
       Uninstalling, Wiping
  <2>4. \A i : (jobs = Only(i, jobs[i])) => (jobs = Only(i, jobs[i]))'
    BY <2>1 DEF Only
  <2>5. NoJobs' = NoJobs
    BY DEF NoJobs
  <2> QED BY <2>1, <2>2, <2>3, <2>4, <2>5 DEF PageInv, Booting
<1> QED BY <1>6, <1>7, <1>8, <1>9, <1>10, <1>11, <1>12, <1>13, <1>14, <1>15, <1>16, <1>17
        DEF PageStep

\* Of the one job that is left, a step takes the first statement.
LEMMA PatientJobStep ==
  ASSUME TypeOK, PageInv, Patient, JobStep
  PROVE  PageInv'
<1> USE DEF settings, channel, worker
<1>1. PICK i \in 1..MaxClicks : WriteStep(i) \/ UninstallStep(i) \/ WipeStep(i)
  BY DEF JobStep
<1>2. jobs[i] # <<>>
  BY <1>1 DEF WriteStep, UninstallStep, WipeStep, Await
<1>3. jobs # NoJobs
  BY <1>2 DEF NoJobs
<1>4. PICK k \in 1..MaxClicks : jobs = Only(k, jobs[k]) /\ Pending(jobs[k])
  BY <1>3 DEF PageInv
<1>5. k = i
  BY <1>2, <1>4, OnlyJob
<1>6. jobs = Only(i, jobs[i]) /\ Pending(jobs[i])
  BY <1>4, <1>5
<1>7. ~Fault
  BY DEF Fault, Patient
<1>8. screen = "open" /\ ~Booting /\ files \cap deleted = {}
  BY <1>3 DEF PageInv
<1>9. \A b, m : Signals(b, m).backend = b /\ Signals(b, m).model = m
  BY DEF Signals
<1>10. shown = Signals(shown.backend, shown.model)
  BY DEF TypeOK, Signals
<1>11. NoJobs' = NoJobs
  BY DEF NoJobs
<1>12. ASSUME NEW what, NEW rest, Await(i, what, rest)
       PROVE  jobs' = Only(i, rest) /\ jobs'[i] = rest
              /\ UNCHANGED <<last, sup, arg>> /\ Head(jobs[i])[1] = what
  BY <1>6, <1>12, OnlyJob DEF Await
<1>13. ASSUME NEW what, Await(i, what, <<>>), screen' = "open", files' \cap deleted' = {},
              last' = Desired(backend', model'), Applied',
              backend' = "builtin" => model' \notin deleted'
       PROVE  PageInv'
  <2>1. jobs' = NoJobs /\ UNCHANGED <<last, sup, arg>>
    BY <1>12, <1>13, OnlyJob
  <2> QED BY <2>1, <1>8, <1>11, <1>13 DEF PageInv, QuietInv, Booting
<1>14. ASSUME NEW what, NEW rest, Await(i, what, rest), rest # <<>>, screen' = "open",
              files' \cap deleted' = {}, Pending(rest)'
       PROVE  PageInv'
  <2>1. (jobs = Only(i, jobs[i]))' /\ jobs' # NoJobs /\ UNCHANGED <<last, sup, arg>>
        /\ jobs'[i] = rest
    BY <1>12, <1>14, OnlyJob
  <2>2. \E n \in 1..MaxClicks : (jobs = Only(n, jobs[n]) /\ Pending(jobs[n]))'
    BY <2>1, <1>14
  <2> QED BY <2>1, <2>2, <1>8, <1>11, <1>14 DEF PageInv, Booting
<1>15. CASE WriteStep(i)
  <2>1. PICK what \in {"backend", "model", "file"} : Await(i, what, Tail(jobs[i]))
    BY <1>15 DEF WriteStep
  <2>2. Head(jobs[i])[1] = what
    BY <2>1 DEF Await
  <2> DEFINE s == Head(jobs[i])
  <2>3. /\ backend' = IF s[1] = "backend" THEN s[2] ELSE backend
        /\ model'   = IF s[1] = "model"   THEN s[2] ELSE model
        /\ files'   = IF s[1] = "file"    THEN files \ {s[2]} ELSE files
        /\ deleted' = IF s[1] = "file"    THEN deleted \cup {s[2]} ELSE deleted
        /\ screen' = screen /\ shown' = shown
    BY <1>7, <1>15 DEF WriteStep
  <2>4. last' = last
    BY <1>12, <2>1
  <2>5. ~Wiping(jobs[i]) /\ \A r \in Remotes : ~Uninstalling(jobs[i], r)
    BY <2>2, ShortJobs DEF Wiping, Uninstalling
  <2>6. Asked
    BY <1>6, <2>5 DEF Pending
  <2>7. CASE Selecting(jobs[i])
    <3> DEFINE rest == <<<<"model", shown.model>>>>
    <3>1. s = <<"backend", shown.backend>> /\ Tail(jobs[i]) = rest
      BY <2>7, ShortJobs DEF Selecting
    <3>2. backend' = shown.backend /\ UNCHANGED <<model, files, deleted>>
      BY <2>3, <3>1
    <3>3. PICK r : r = rest
      OBVIOUS
    <3>4. Pending(r)' /\ r # <<>>
      BY <2>3, <2>4, <2>6, <3>1, <3>2, <3>3 DEF Pending, Choosing, Asked
    <3> QED BY <1>8, <1>14, <2>1, <2>3, <3>1, <3>2, <3>3, <3>4
  <2>8. CASE Choosing(jobs[i])
    <3>1. s = <<"model", shown.model>> /\ Tail(jobs[i]) = <<>>
      BY <2>8, ShortJobs DEF Choosing
    <3>2. model' = shown.model /\ backend' = shown.backend /\ UNCHANGED <<files, deleted>>
      BY <2>3, <2>8, <3>1 DEF Choosing
    <3> QED BY <1>8, <1>10, <1>13, <2>1, <2>3, <2>4, <2>6, <3>1, <3>2 DEF Asked, Applied
  <2>9. ASSUME NEW m \in Models, Clearing(jobs[i], m) PROVE PageInv'
    <3> DEFINE rest == <<<<"file", m>>>>
    <3>1. s = <<"model", None>> /\ Tail(jobs[i]) = rest
      BY <2>9, ShortJobs DEF Clearing
    <3>2. model' = None /\ UNCHANGED <<backend, files, deleted>>
      BY <2>3, <3>1
    <3>3. None # m
      BY SupervisorConstantsOK
    <3>4. Asked' /\ Removing(rest, m)'
      BY <1>9, <2>3, <2>4, <2>6, <2>9, <3>2, <3>3 DEF Removing, Clearing, Applied, Asked
    <3>5. Pending(rest)' /\ rest # <<>>
      BY <3>4, ShortJobs DEF Pending
    <3> QED BY <1>8, <1>14, <2>1, <2>3, <3>1, <3>2, <3>5
  <2>10. ASSUME NEW m \in Models, Removing(jobs[i], m) PROVE PageInv'
    <3>1. s = <<"file", m>> /\ Tail(jobs[i]) = <<>>
      BY <2>10, ShortJobs DEF Removing
    <3>2. UNCHANGED <<backend, model>> /\ files' = files \ {m} /\ deleted' = deleted \cup {m}
      BY <2>3, <3>1
    <3>3. Applied /\ Applied' /\ shown # Signals("builtin", m)
      BY <2>3, <2>10, <3>2 DEF Removing, Applied
    <3>4. backend = "builtin" => model # m
      BY <3>3 DEF Applied
    <3>5. shown.backend = backend /\ shown.model = model
      BY <1>9, <3>3 DEF Applied
    <3> QED BY <1>8, <1>13, <2>1, <2>3, <2>4, <2>6, <3>1, <3>2, <3>3, <3>4, <3>5 DEF Asked
  <2> QED BY <1>6, <2>5, <2>7, <2>8, <2>9, <2>10 DEF Pending
<1>16. CASE UninstallStep(i)
  <2>1. Head(jobs[i])[1] = "uninstall" /\ UNCHANGED <<backend, model, files, deleted, screen, last>>
    BY <1>16 DEF UninstallStep, Await
  <2>2. /\ ~Wiping(jobs[i]) /\ ~Selecting(jobs[i]) /\ ~Choosing(jobs[i])
        /\ \A m \in Models : ~Clearing(jobs[i], m) /\ ~Removing(jobs[i], m)
    BY <2>1, ShortJobs DEF Wiping, Selecting, Choosing, Clearing, Removing
  <2>3. PICK r \in Remotes : Asked /\ Uninstalling(jobs[i], r)
    BY <1>6, <2>2 DEF Pending
  <2>4. Head(jobs[i])[2] = r /\ Applied
    BY <2>3, ShortJobs DEF Uninstalling
  <2>5. shown.backend = backend /\ shown.model = model
    BY <1>9, <2>4 DEF Applied
  <2>6. CASE Active("ollama", r)
    <3> DEFINE rest == <<<<"model", None>>>>
    <3>1. Await(i, "uninstall", rest) /\ shown' = Signals(shown.backend, None)
      BY <1>7, <1>16, <2>4, <2>6 DEF UninstallStep
    <3>2. shown' = Signals("ollama", None) /\ backend = "ollama" /\ last = StopBuiltin
      BY <2>3, <2>5, <2>6, <3>1 DEF Active, Asked, Desired
    <3>3. Asked' /\ Choosing(rest)'
      BY <1>9, <2>1, <3>2 DEF Asked, Desired, Choosing
    <3>4. Pending(rest)' /\ rest # <<>>
      BY <3>3, ShortJobs DEF Pending
    <3> QED BY <1>8, <1>14, <2>1, <3>1, <3>4
  <2>7. CASE ~Active("ollama", r)
    <3>1. Await(i, "uninstall", <<>>) /\ shown' = Signals(shown.backend, shown.model)
      BY <1>7, <1>16, <2>4, <2>7 DEF UninstallStep
    <3>2. shown' = shown
      BY <1>10, <3>1
    <3> QED BY <1>8, <1>13, <2>1, <2>3, <2>4, <2>5, <3>1, <3>2 DEF Asked, Applied
  <2> QED BY <2>6, <2>7
<1>17. CASE WipeStep(i)
  <2>1. /\ Head(jobs[i])[1] = "wipe" /\ backend' = "builtin" /\ model' = None
        /\ screen' = "closed" /\ jobs' = NoJobs
        /\ UNCHANGED <<files, deleted, last, sup, arg>>
    BY <1>7, <1>17 DEF WipeStep
  <2>2. last = StopBuiltin
    BY <1>6, <2>1, ShortJobs
       DEF Pending, Wiping, Selecting, Choosing, Clearing, Removing, Uninstalling
  <2>3. None \notin deleted
    BY SupervisorConstantsOK DEF TypeOK
  <2> QED BY <1>8, <1>11, <2>1, <2>2, <2>3 DEF PageInv, QuietInv, Booting, Desired
<1> QED BY <1>1, <1>15, <1>16, <1>17

LEMMA PatientSupervisorStep ==
  ASSUME OrderInv, PageInv, StoppedInv, Patient, Supervise
  PROVE  PageInv' /\ StoppedInv'
<1> USE DEF settings, view, channel, worker, OrderInv, ServerInv
<1>1. ~Fault
  BY DEF Fault, Patient
<1>2. /\ UNCHANGED <<settings, screen, shown, jobs>>
      /\ ui = "running" /\ ui' = "running"
  BY DEF Supervise, BootBackend, BootModel, StartFresh, StartReplacing, WakeUp, StopServer,
     TakeCommand
<1>3. NoJobs' = NoJobs
  BY DEF NoJobs
<1>4. CASE BootBackend
  BY <1>2, <1>3, <1>4 DEF BootBackend, PageInv, QuietInv, Booting, Applied, StoppedInv
<1>5. CASE BootModel
  <2> DEFINE cmds == IF arg = "builtin" /\ model # None THEN <<StartBuiltin(model)>> ELSE <<>>
  <2>1. sup = "bootModel" /\ Send(cmds) /\ sup' = "recv"
    BY <1>5 DEF BootModel
  <2>2. jobs = NoJobs /\ last = StopBuiltin /\ arg = backend /\ QuietInv
        /\ files \cap deleted = {}
    BY <2>1 DEF PageInv, Booting
  <2>3. CASE arg = "builtin" /\ model # None
    <3>1. cmds = <<StartBuiltin(model)>>
      BY <2>3
    <3>2. queue' = queue \o <<StartBuiltin(model)>> /\ last' = StartBuiltin(model)
      BY <2>1, <3>1 DEF Send
    <3>3. queue' # <<>>
      BY <3>2 DEF TypeOK
    <3>4. last' = Desired(backend', model')
      BY <1>2, <2>2, <2>3, <3>2 DEF Desired
    <3> QED BY <1>2, <1>3, <2>1, <2>2, <3>3, <3>4
            DEF PageInv, QuietInv, Booting, Applied, StoppedInv
  <2>4. CASE ~(arg = "builtin" /\ model # None)
    <3>1. last' = StopBuiltin
      BY <2>1, <2>2, <2>4 DEF Send
    <3>2. last' = Desired(backend', model')
      BY <1>2, <2>2, <2>4, <3>1 DEF Desired
    <3> QED BY <1>2, <1>3, <2>1, <2>2, <3>1, <3>2
            DEF PageInv, QuietInv, Booting, Applied, StoppedInv
  <2> QED BY <2>3, <2>4
<1>6. CASE StartFresh \/ StartReplacing \/ WakeUp \/ StopServer
  <2>1. ~Booting /\ ~Booting' /\ last' = last
    BY <1>6 DEF StartFresh, StartReplacing, WakeUp, StopServer, TakeCommand, Booting
  <2>2. PageInv'
    BY <1>2, <2>1, PageInvKept
  <2>3. CASE StartFresh
    <3>1. TakeCommand /\ Head(queue)[1] = "start" /\ child' = Head(queue)[2]
      BY <1>1, <2>3 DEF StartFresh, Launch
    <3>2. child' # None
      BY <3>1, TakenCommand, SupervisorConstantsOK DEF Command, StopBuiltin
    <3> QED BY <2>2, <3>2 DEF StoppedInv
  <2>4. CASE StartReplacing
    BY <2>2, <2>4 DEF StartReplacing, StoppedInv
  <2>5. CASE WakeUp
    <3>1. child' = arg /\ arg # None
      BY <1>1, <2>5, SupervisorConstantsOK DEF WakeUp, Launch, TypeOK
    <3> QED BY <2>2, <3>1 DEF StoppedInv
  <2>6. CASE StopServer
    <3>1. TakeCommand /\ Head(queue)[1] = "stop"
      BY <2>6 DEF StopServer
    <3>2. queue' = <<>> => last = StopBuiltin
      BY <3>1, TakenCommand DEF Command
    <3> QED BY <2>1, <2>2, <3>2 DEF StoppedInv
  <2> QED BY <1>6, <2>3, <2>4, <2>5, <2>6
<1> QED BY <1>4, <1>5, <1>6 DEF Supervise

LEMMA PatientStep ==
  ASSUME OrderInv, PatientInv, [Next]_vars
  PROVE  PatientInv'
<1> USE DEF settings, view, channel, worker, server, OrderInv, ServerInv
<1> SUFFICES ASSUME Patient' PROVE PageInv' /\ StoppedInv'
  BY DEF PatientInv
<1>1. manner' = manner
  <2>1. ASSUME NEW i, NEW what, NEW rest, Await(i, what, rest) PROVE manner' = manner
    BY <2>1 DEF Await
  <2>2. JobStep => manner' = manner
    BY <2>1 DEF JobStep, WriteStep, UninstallStep, WipeStep
  <2>3. ASSUME NEW s, NEW c, NEW j, Click(s, c, j) PROVE manner' = manner
    BY <2>3 DEF Click
  <2>4. PageStep => manner' = manner
    BY <2>3 DEF PageStep, OpenPage, LoadBackend, LoadModel, LeavePage, Wipe, SelectBuiltin,
       DeselectBuiltin, DeleteBuiltin, Download, SelectOllama, DeselectOllama, UninstallOllama
  <2>5. Supervise \/ ServerDies \/ Exit => manner' = manner
    BY DEF Supervise, BootBackend, BootModel, StartFresh, StartReplacing, WakeUp, StopServer,
       TakeCommand, ServerDies, Exit, Quit, LoopReturns
  <2>6. UNCHANGED vars => manner' = manner
    BY DEF vars
  <2> QED BY <2>2, <2>4, <2>5, <2>6 DEF Next
<1>2. Patient /\ PageInv /\ StoppedInv
  BY <1>1 DEF PatientInv, Patient
<1>3. CASE Supervise
  BY <1>2, <1>3, PatientSupervisorStep
<1>4. CASE ServerDies
  BY <1>2, <1>4 DEF ServerDies, Fault, Patient
<1>5. CASE PageStep \/ JobStep
  <2>1. PageInv'
    BY <1>2, <1>5, PatientPageStep, PatientJobStep
  <2>2. UNCHANGED <<sup, child, ui>>
    BY <1>5, PageLeavesServer
  <2>3. PICK cmds \in Seq(Command) : Send(cmds)
    BY <1>5, PageSends
  <2>4. (queue' = queue /\ last' = last) \/ queue' # <<>>
    BY <2>3, SendKeepsLast DEF TypeOK
  <2> QED BY <1>2, <2>1, <2>2, <2>4 DEF StoppedInv
<1>6. CASE Exit
  <2>1. UNCHANGED <<settings, screen, shown, jobs, last, sup, arg>> /\ ui' # "running"
    BY <1>6 DEF Exit, Quit, LoopReturns
  <2> QED BY <1>2, <2>1, PageInvKept DEF StoppedInv
<1>7. CASE UNCHANGED vars
  <2>1. PageInv'
    BY <1>2, <1>7, PageInvKept DEF vars
  <2> QED BY <1>2, <1>7, <2>1 DEF vars, StoppedInv
<1> QED BY <1>3, <1>4, <1>5, <1>6, <1>7 DEF Next

\* The inductive invariant of a user who lets a click finish, and of the command order.
THEOREM PatientInvHolds == Spec => [](OrderInv /\ PatientInv)
<1>1. Init /\ ServerInv => OrderInv /\ PatientInv
  <2> SUFFICES ASSUME Init, ServerInv PROVE OrderInv /\ PatientInv
    OBVIOUS
  <2>1. OrderInv
    BY DEF Init, OrderInv, BootInv, CommandInv
  <2>2. PageInv /\ StoppedInv
    BY DEF Init, PageInv, QuietInv, StoppedInv, Booting
  <2> QED BY <2>1, <2>2 DEF PatientInv
<1>2. OrderInv /\ PatientInv /\ ServerInv' /\ [Next]_vars => (OrderInv /\ PatientInv)'
  BY OrderStep, PatientStep
<1> QED BY <1>1, <1>2, ServerInvHolds, PTL DEF Spec

\* "If the user deletes a model that is currently marked as active, ACTIVE_AI_MODEL_ID is
\* cleared": with no job pending, the settings of a user who lets a click finish name no
\* built-in model that was deleted.
THEOREM OrphanProtectionHolds == Spec => []OrphanProtection
<1>1. OrderInv /\ PatientInv => OrphanProtection
  BY DEF PatientInv, Patient, PageInv, QuietInv, OrphanProtection
<1> QED BY <1>1, PatientInvHolds, PTL

\* What the settings page shows once the clicks have finished is what the next start reads.
THEOREM PageShowsSettingsHolds == Spec => []PageShowsSettings
<1>1. OrderInv /\ PatientInv => PageShowsSettings
  BY DEF PatientInv, Patient, PageInv, QuietInv, Applied, PageShowsSettings
<1> QED BY <1>1, PatientInvHolds, PTL

\* With nothing pending, the registered server is the model the settings name for the
\* built-in backend, and there is none for Ollama.
THEOREM ServerFollowsSettingsHolds == Spec => []ServerFollowsSettings
<1>1. OrderInv /\ PatientInv => ServerFollowsSettings
  <2> SUFFICES ASSUME OrderInv, PatientInv, Patient, ui = "running", Idle, jobs = NoJobs
               PROVE  child = IF backend = "builtin" THEN model ELSE None
    BY DEF ServerFollowsSettings, Patient
  <2>1. last = Desired(backend, model)
    BY DEF PatientInv, PageInv, QuietInv, Idle, Booting
  <2>2. child # None => last = StartBuiltin(child)
    BY DEF OrderInv, CommandInv, Idle
  <2>3. child = None => last = StopBuiltin
    BY DEF PatientInv, StoppedInv, Idle
  <2>4. \A m, n : StartBuiltin(m) # StopBuiltin /\ (StartBuiltin(m) = StartBuiltin(n) => m = n)
    BY DEF StartBuiltin, StopBuiltin
  <2> QED BY <2>1, <2>2, <2>3, <2>4 DEF Desired
<1> QED BY <1>1, PatientInvHolds, PTL
=============================================================================
