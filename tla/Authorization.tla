---------------------------- MODULE Authorization ----------------------------
(***************************************************************************)
(* Linking an account up to the moment its row is written: the Add Account *)
(* page (routes/add_account), the auth worker of main.rs, run_oauth with   *)
(* its loopback listener (oauth/src/authorization.rs) and the OAuth client *)
(* keys a user may bring along (storage/src/secrets/oauth_credentials.rs). *)
(*                                                                         *)
(* Four parties run concurrently: the tasks of the UI thread, which give   *)
(* it up at each await; the listener of each attempt, a blocking thread    *)
(* that outlives the task that started it; the browser, whose tabs outlive *)
(* both; and the operating system, which hands the port of a closed        *)
(* listener to the next one.  What a dropped task leaves behind in row and *)
(* keyring is the subject of AccountLifecycle.                             *)
(***************************************************************************)
EXTENDS Integers, FiniteSets, Sequences

CONSTANTS
  Attempts,   \* link attempts; their number is a bound of the model
  Ports,      \* ephemeral ports
  Keys,       \* client id and secret as the user enters them together
  Bundled,    \* the pair built into the program, or None
  MaxWaiting, \* bound: connections that wait at one listener
  MaxEdits,   \* bound: how often the keys are saved or removed
  None

ASSUME AuthorizationConstantsOK ==
  /\ None \notin Attempts \cup Ports \cup Keys
  /\ Bundled \in Keys \cup {None}
  /\ IsFiniteSet(Attempts) /\ MaxWaiting \in Nat /\ MaxEdits \in Nat

VARIABLES
  isLinking,
  queue,      \* auth_tx
  begun,      \* attempts started so far
  attempt,    \* the attempt of active_task
  provider, phase,
  keyId,      \* the client id load_credentials has read
  pair,       \* the client id and secret the attempt uses
  code,       \* the tab whose authorization code is exchanged
  listener, port, backlog, conn, cancelled, answer,  \* per attempt: its listener
  tabs,       \* attempts with a consent page in the browser
  clientId, clientSecret,  \* settings row and keyring entry
  saving,     \* keys whose client id is being written
  removing,   \* the row of the client id is being deleted
  edits,
  mixed       \* history: a save of the keys broke off, or overlapped another use

sockets == <<listener, port, backlog, conn, cancelled, answer>>
keys    == <<clientId, clientSecret, saving, removing, edits>>
task    == <<attempt, provider, phase, keyId, pair, code>>
vars == <<isLinking, queue, begun, task, sockets, tabs, keys, mixed>>

Providers == {"google", "microsoft", "imap"}
\* A request carries the state of the attempt whose page sent it; "other" stands for the
\* ping of cancel_listener and for every connection that is no callback.
Failure   == <<"failed", None>>
Requests  == ({"code"} \X Attempts) \cup ({"denied", "other"} \X {None})
Answers   == ({"code"} \X Attempts) \cup {Failure}
Open      == {"accepting", "serving"}

TypeOK ==
  /\ isLinking \in BOOLEAN
  /\ queue \in Seq(Providers \cup {"cancel"})
  /\ begun \subseteq Attempts /\ tabs \subseteq begun
  /\ phase \in {"idle", "id", "secret", "callback", "exchange", "profile", "login", "register"}
  /\ attempt \in begun \cup {None} /\ (phase = "idle") = (attempt = None)
  /\ provider \in Providers \cup {None} /\ keyId \in Keys \cup {None}
  /\ pair \in (Keys \X Keys) \cup {None} /\ code \in Attempts \cup {None}
  /\ listener \in [Attempts -> {"unbound", "closed"} \cup Open]
  /\ port \in [Attempts -> Ports \cup {None}]
  /\ backlog \in [Attempts -> SUBSET Requests]
  /\ conn \in [Attempts -> Requests \cup {None}]
  /\ cancelled \in [Attempts -> BOOLEAN]
  /\ answer \in [Attempts -> Answers \cup {None}]
  /\ clientId \in Keys \cup {None} /\ clientSecret \in Keys \cup {None}
  /\ saving \subseteq Keys /\ removing \in BOOLEAN /\ edits \in Nat /\ mixed \in BOOLEAN

Each(v) == [n \in Attempts |-> v]

Init ==
  /\ isLinking = FALSE /\ queue = <<>>
  /\ begun = {} /\ attempt = None /\ provider = None /\ phase = "idle"
  /\ keyId = None /\ pair = None /\ code = None
  /\ listener = Each("unbound") /\ port = Each(None) /\ backlog = Each({})
  /\ conn = Each(None) /\ cancelled = Each(FALSE) /\ answer = Each(None) /\ tabs = {}
  /\ clientId \in Keys \cup {None} /\ clientSecret = clientId  \* kept from an earlier run
  /\ saving = {} /\ removing = FALSE /\ edits = 0
  /\ mixed = FALSE

\* Bound: attempts begun and starts that wait do not exceed the attempts there are.
Room == Cardinality(begun) + Len(queue) < Cardinality(Attempts)

HasKeys == clientId # None /\ clientSecret # None

-----------------------------------------------------------------------------
(* The Add Account page.  It may be shown at any time, so its handlers are *)
(* enabled whenever its buttons are.                                       *)

\* start_oauth, which for Gmail asks for the user's keys first, and start_imap.
ClickConnect(p) ==
  /\ ~isLinking /\ Room
  /\ p = "google" => HasKeys
  /\ queue' = Append(queue, p)
  /\ UNCHANGED <<isLinking, begun, task, sockets, tabs, keys, mixed>>

\* cancel_linking.  Bound: a cancel command waits alone.
ClickCancel ==
  /\ isLinking /\ queue = <<>>
  /\ queue' = Append(queue, "cancel")
  /\ UNCHANGED <<isLinking, begun, task, sockets, tabs, keys, mixed>>

\* Leaving the page - the user does, or the redirect after a success - drops its tasks; a
\* statement they have sent may still run.
LeavePage ==
  /\ saving # {} \/ removing
  /\ saving' = {} /\ removing' = FALSE
  /\ clientId' \in {clientId} \cup saving \cup (IF removing THEN {None} ELSE {})
  /\ mixed' = (mixed \/ saving # {})
  /\ UNCHANGED <<clientSecret, edits, isLinking, queue, begun, task, sockets, tabs>>

PageStep == ClickCancel \/ LeavePage \/ \E p \in Providers : ClickConnect(p)

-----------------------------------------------------------------------------
(* The custom keys of a Google developer, entered below the form.          *)

Edit == edits < MaxEdits /\ edits' = edits + 1

\* save_user_google_credentials: the secret goes first, then the client id.
SaveKeys(k) ==
  /\ Edit /\ k \notin saving
  /\ clientSecret' = k /\ saving' = saving \cup {k}
  /\ mixed' = (mixed \/ saving # {} \/ phase = "secret")
  /\ UNCHANGED <<isLinking, queue, begun, task, sockets, tabs, clientId, removing>>

\* Mutant: a save that fails leaves the secret in the keyring.
WriteIdNoRollback(k) ==
  /\ k \in saving /\ saving' = saving \ {k}
  /\ clientId' = k \/ UNCHANGED clientId
  /\ UNCHANGED <<clientSecret, mixed, isLinking, queue, begun, task, sockets, tabs, removing, edits>>

\* When the row cannot be written the secret is deleted; a failure of that is ignored.
WriteId(k) ==
  /\ k \in saving /\ saving' = saving \ {k}
  /\ \/ clientId' = k /\ UNCHANGED <<clientSecret, mixed>>
     \/ clientSecret' = None /\ UNCHANGED <<clientId, mixed>>
     \/ mixed' = TRUE /\ UNCHANGED <<clientId, clientSecret>>
  /\ UNCHANGED <<isLinking, queue, begun, task, sockets, tabs, removing, edits>>

\* delete_user_google_credentials; the keyring or the row may refuse.
RemoveKeys ==
  /\ Edit /\ ~removing
  /\ clientSecret' = None /\ removing' = TRUE
  /\ UNCHANGED <<isLinking, queue, begun, task, sockets, tabs, clientId, saving, mixed>>

DeleteId ==
  /\ removing /\ removing' = FALSE /\ clientId' \in {None, clientId}
  /\ UNCHANGED <<isLinking, queue, begun, task, sockets, tabs, clientSecret, saving, edits, mixed>>

KeyStep ==
  \/ RemoveKeys \/ DeleteId
  \/ \E k \in Keys : SaveKeys(k) \/ WriteId(k)

-----------------------------------------------------------------------------
(* The auth worker: one command at a time, one task at most.               *)

Connected(p, c) ==
  [n \in Attempts |-> IF listener[n] \in Open /\ port[n] = p THEN backlog[n] \cup {c} ELSE backlog[n]]

\* Mutant: cancel_listener sets the flag and connects to nothing.
WakeFlagOnly(n) == cancelled' = [cancelled EXCEPT ![n] = TRUE] /\ backlog' = backlog

\* cancel_listener, called by the guard that is dropped before the answer came.
Wake(n) ==
  /\ cancelled' = [cancelled EXCEPT ![n] = TRUE]
  /\ backlog' = Connected(port[n], <<"other", None>>)

\* task.cancel(): the future is dropped, and with it its ListenerGuard.
DropTask ==
  /\ IF phase = "callback" THEN Wake(attempt) ELSE UNCHANGED <<cancelled, backlog>>
  /\ UNCHANGED <<listener, port, conn, answer>>

HandleStart ==
  /\ queue # <<>> /\ Head(queue) # "cancel" /\ queue' = Tail(queue)
  /\ DropTask
  /\ \E n \in Attempts \ begun : attempt' = n /\ begun' = begun \cup {n}
  /\ provider' = Head(queue)
  /\ phase' = IF Head(queue) = "imap" THEN "login" ELSE "id"
  /\ keyId' = None /\ pair' = None /\ code' = None
  /\ isLinking' = TRUE
  /\ UNCHANGED <<tabs, keys, mixed>>

Forget ==
  /\ attempt' = None /\ phase' = "idle" /\ provider' = None
  /\ keyId' = None /\ pair' = None /\ code' = None

HandleCancel ==
  /\ queue # <<>> /\ Head(queue) = "cancel" /\ queue' = Tail(queue)
  /\ DropTask
  /\ Forget
  /\ isLinking' = FALSE
  /\ UNCHANGED <<begun, tabs, keys, mixed>>

-----------------------------------------------------------------------------
(* The task of the attempt: load_credentials, run_oauth, the profile and   *)
(* the registration of the account.                                        *)

EndTask ==
  /\ Forget /\ isLinking' = FALSE
  /\ UNCHANGED <<queue, begun, tabs, keys, mixed>>

Advance(p) ==
  /\ phase' = p
  /\ UNCHANGED <<isLinking, queue, begun, attempt, provider, keys>>

ReadClientId ==
  /\ phase = "id"
  /\ \/ Advance("secret") /\ keyId' = clientId /\ mixed' = (mixed \/ saving # {})
        /\ UNCHANGED <<pair, code, sockets, tabs>>
     \/ EndTask /\ UNCHANGED sockets

\* The keys of the attempt: the user's own where both parts are there, else the bundled pair.
Pair ==
  IF keyId # None /\ clientSecret # None THEN <<keyId, clientSecret>>
  ELSE IF Bundled # None THEN <<Bundled, Bundled>> ELSE None

Bind(p, flag, waiting) ==
  /\ ~\E n \in Attempts : listener[n] \in Open /\ port[n] = p
  /\ listener' = [listener EXCEPT ![attempt] = "accepting"]
  /\ port' = [port EXCEPT ![attempt] = p]
  /\ cancelled' = [cancelled EXCEPT ![attempt] = flag]
  /\ backlog' = [backlog EXCEPT ![attempt] = waiting]
  /\ UNCHANGED <<conn, answer>>

\* run_oauth up to its first await: bind, spawn the listener thread, open the browser.
OpenListener ==
  /\ phase = "secret"
  /\ \/ /\ provider = "google" => Pair # None
        /\ \E p \in Ports : Bind(p, FALSE, {})
        /\ Advance("callback") /\ tabs' = tabs \cup {attempt}
        /\ pair' = (IF provider = "google" THEN Pair ELSE None)
        /\ UNCHANGED <<keyId, code, mixed>>
     \/ /\ provider = "google" => Pair # None
        /\ \E p \in Ports : Bind(p, TRUE, {<<"other", None>>})
        /\ EndTask
     \/ EndTask /\ UNCHANGED sockets

\* Mutant: no validate_csrf_state.
ReceiveAnyState ==
  /\ phase = "callback" /\ answer[attempt] # None
  /\ IF answer[attempt] # Failure
       THEN Advance("exchange") /\ code' = answer[attempt][2] /\ UNCHANGED <<keyId, pair, tabs, mixed>>
       ELSE EndTask
  /\ UNCHANGED sockets

\* What the listener brought: only a code that carries this attempt's state is exchanged.
Receive ==
  /\ phase = "callback" /\ answer[attempt] # None
  /\ IF answer[attempt] = <<"code", attempt>>
       THEN Advance("exchange") /\ code' = attempt /\ UNCHANGED <<keyId, pair, tabs, mixed>>
       ELSE EndTask
  /\ UNCHANGED sockets

\* After 120 seconds; the guard wakes the thread.
Timeout ==
  /\ phase = "callback" /\ answer[attempt] = None
  /\ Wake(attempt) /\ EndTask
  /\ UNCHANGED <<listener, port, conn, answer>>

\* The token endpoint takes a secret only with the client id it was issued for.
Exchange ==
  /\ phase = "exchange"
  /\ \/ /\ pair # None => pair[1] = pair[2]
        /\ Advance("profile") /\ UNCHANGED <<keyId, pair, code, tabs, mixed>>
     \/ EndTask
  /\ UNCHANGED sockets

\* get_profile, with the token or by an IMAP login.
Profile ==
  /\ phase \in {"profile", "login"}
  /\ \/ Advance("register") /\ UNCHANGED <<keyId, pair, code, tabs, mixed>>
     \/ EndTask
  /\ UNCHANGED sockets

Register ==
  /\ phase = "register"
  /\ EndTask
  /\ UNCHANGED sockets

TaskStep == ReadClientId \/ OpenListener \/ Receive \/ Timeout \/ Exchange \/ Profile \/ Register

-----------------------------------------------------------------------------
(* The listener thread of attempt n and the browser.                       *)

Close(n, a) ==
  /\ listener' = [listener EXCEPT ![n] = "closed"]
  /\ backlog' = [backlog EXCEPT ![n] = {}] /\ conn' = [conn EXCEPT ![n] = None]
  /\ answer' = [answer EXCEPT ![n] = a]

\* Mutant: the flag is not looked at once accept() has returned.
AcceptUnflagged(n) ==
  /\ listener[n] = "accepting"
  /\ \E c \in backlog[n] :
       /\ listener' = [listener EXCEPT ![n] = "serving"]
       /\ conn' = [conn EXCEPT ![n] = c]
       /\ backlog' = [backlog EXCEPT ![n] = @ \ {c}]
  /\ UNCHANGED <<isLinking, queue, begun, task, port, cancelled, answer, tabs, keys, mixed>>

\* The flag is looked at once per connection, before the request is read.
Accept(n) ==
  /\ listener[n] = "accepting"
  /\ \E c \in backlog[n] :
       IF cancelled[n] THEN Close(n, Failure)
       ELSE /\ listener' = [listener EXCEPT ![n] = "serving"]
            /\ conn' = [conn EXCEPT ![n] = c]
            /\ backlog' = [backlog EXCEPT ![n] = @ \ {c}]
            /\ UNCHANGED answer
  /\ UNCHANGED <<isLinking, queue, begun, task, port, cancelled, tabs, keys, mixed>>

\* accept() fails, and the thread ends with the error.
AcceptFails(n) ==
  /\ listener[n] = "accepting" /\ Close(n, Failure)
  /\ UNCHANGED <<isLinking, queue, begun, task, port, cancelled, tabs, keys, mixed>>

\* handle_connection: a code or a refusal ends the loop, whichever attempt it is for.
Handle(n) ==
  /\ listener[n] = "serving"
  /\ \E c \in Requests :
       /\ conn[n] = c
       /\ \/ c[1] = "code" /\ Close(n, c)
          \/ c[1] = "denied" /\ Close(n, Failure)
          \/ /\ c[1] = "other"
             /\ listener' = [listener EXCEPT ![n] = "accepting"]
             /\ conn' = [conn EXCEPT ![n] = None] /\ UNCHANGED <<backlog, answer>>
  /\ UNCHANGED <<isLinking, queue, begun, task, port, cancelled, tabs, keys, mixed>>

Thread(n) == Accept(n) \/ Handle(n)

\* A consent page redirects to its own port, whoever listens there by now; other
\* programs connect to any port.
Visit ==
  /\ \E p \in Ports, c \in Requests :
       /\ c[1] = "code" => c[2] \in tabs /\ port[c[2]] = p
       /\ c[1] = "denied" => \E n \in tabs : port[n] = p
       /\ \A n \in Attempts : listener[n] \in Open /\ port[n] = p => Cardinality(backlog[n]) < MaxWaiting
       /\ backlog' = Connected(p, c)
  /\ UNCHANGED <<isLinking, queue, begun, task, tabs, keys, mixed,
                 listener, port, conn, cancelled, answer>>

-----------------------------------------------------------------------------
Next ==
  \/ PageStep \/ KeyStep \/ HandleStart \/ HandleCancel \/ TaskStep \/ Visit
  \/ \E n \in Attempts : Thread(n) \/ AcceptFails(n)

\* The executor runs the task's timer, the operating system the threads
\* (a connection is read for two seconds at most); accept() need not fail.
Fairness ==
  /\ WF_vars(Timeout)
  /\ \A n \in Attempts : WF_vars(Thread(n))

Spec == Init /\ [][Next]_vars /\ Fairness

-----------------------------------------------------------------------------
\* Every listener nobody waits for any more has its flag set and a connection that
\* makes it look at the flag: however an attempt ends - cancelled, replaced, timed
\* out, browser not found - ListenerGuard leaves no thread blocked in accept().
StoppedListenersAreWoken ==
  \A n \in Attempts :
    listener[n] \in Open /\ ~(phase = "callback" /\ attempt = n) => cancelled[n] /\ backlog[n] # {}

\* The code that is exchanged came from the consent page of this very attempt, even
\* when a tab left over from an earlier attempt redirects to a port that was reused
\* (validate_csrf_state after receive_authorization_code).
CodeIsOwn == phase \in {"exchange", "profile", "register"} /\ provider # "imap" => code = attempt

\* The page offers "Cancel" exactly while a task runs, although is_linking is written
\* by the worker and by tasks that are cancelled in mid-flight (main.rs, auth worker).
LinkingShown == isLinking <=> phase # "idle"

\* The client id an attempt signs in with and its secret were entered together, when
\* no save of the keys broke off or ran beside another use: the secret is taken back
\* when the row cannot be written (save_user_google_credentials).
KeysBelongTogether == pair # None /\ ~mixed => pair[1] = pair[2]

\* Every listener gives its port and its thread back.
ListenersEnd == \A n \in Attempts : listener[n] \in Open ~> listener[n] = "closed"
=============================================================================
