------------------------- MODULE AuthorizationProofs -------------------------
(***************************************************************************)
(* Theorems about Authorization, for any attempts, ports, keys, bundled    *)
(* pair and bounds.                                                        *)
(***************************************************************************)
EXTENDS Authorization, TLAPS

-----------------------------------------------------------------------------
(* Types.                                                                  *)

LEMMA PageTyped == TypeOK /\ (PageStep \/ KeyStep) => TypeOK'
<1> SUFFICES ASSUME TypeOK, PageStep \/ KeyStep PROVE TypeOK'
  OBVIOUS
<1> USE AuthorizationConstantsOK DEF TypeOK, task, sockets, keys
<1>1. ASSUME NEW p \in Providers, ClickConnect(p) PROVE TypeOK'
  BY <1>1 DEF ClickConnect
<1>2. CASE ClickCancel
  BY <1>2 DEF ClickCancel
<1>3. CASE LeavePage
  <2>1. clientId' \in {clientId} \cup saving \cup {None}
    BY <1>3 DEF LeavePage
  <2>2. clientId' \in Keys \cup {None}
    BY <2>1
  <2>3. saving' \subseteq Keys /\ removing' \in BOOLEAN /\ mixed' \in BOOLEAN
    BY <1>3 DEF LeavePage
  <2> QED BY <1>3, <2>2, <2>3 DEF LeavePage
<1>4. ASSUME NEW k \in Keys, SaveKeys(k) PROVE TypeOK'
  <2>1. mixed' \in BOOLEAN
    BY <1>4, Zenon DEF SaveKeys
  <2> QED BY <1>4, <2>1 DEF SaveKeys, Edit
<1>5. ASSUME NEW k \in Keys, WriteId(k) PROVE TypeOK'
  <2>1. mixed' \in BOOLEAN
    BY <1>5, Zenon DEF WriteId
  <2>2. UNCHANGED <<removing, edits>> /\ saving' \subseteq Keys
    BY <1>5 DEF WriteId
  <2>3. clientId' \in Keys \cup {None} /\ clientSecret' \in Keys \cup {None}
    BY <1>5 DEF WriteId
  <2> QED BY <1>5, <2>1, <2>2, <2>3 DEF WriteId
<1>6. CASE RemoveKeys
  BY <1>6 DEF RemoveKeys, Edit
<1>7. CASE DeleteId
  <2>1. removing' \in BOOLEAN /\ clientId' \in Keys \cup {None}
    BY <1>7 DEF DeleteId
  <2>2. UNCHANGED <<isLinking, queue, begun, task, sockets, tabs, clientSecret, saving, edits, mixed>>
    BY <1>7 DEF DeleteId
  <2> QED BY <2>1, <2>2
<1> QED BY <1>1, <1>2, <1>3, <1>4, <1>5, <1>6, <1>7 DEF PageStep, KeyStep

LEMMA WakeTyped ==
  ASSUME TypeOK, NEW n \in Attempts, Wake(n)
  PROVE  /\ cancelled' \in [Attempts -> BOOLEAN]
         /\ backlog' \in [Attempts -> SUBSET Requests]
BY DEF TypeOK, Wake, Connected, Requests

LEMMA WorkerTyped == TypeOK /\ (HandleStart \/ HandleCancel) => TypeOK'
<1> SUFFICES ASSUME TypeOK, HandleStart \/ HandleCancel PROVE TypeOK'
  OBVIOUS
<1> USE AuthorizationConstantsOK
<1>1. DropTask
  BY DEF HandleStart, HandleCancel
<1>2. /\ cancelled' \in [Attempts -> BOOLEAN]
      /\ backlog' \in [Attempts -> SUBSET Requests]
  <2>1. CASE phase = "callback"
    <3>1. attempt \in Attempts /\ Wake(attempt)
      BY <1>1, <2>1 DEF DropTask, TypeOK
    <3> QED BY <3>1, WakeTyped
  <2>2. CASE phase # "callback"
    BY <1>1, <2>2 DEF DropTask, TypeOK
  <2> QED BY <2>1, <2>2
<1>3. UNCHANGED <<listener, port, conn, answer>>
  BY <1>1 DEF DropTask
<1>4. CASE HandleStart
  <2>1. queue' \in Seq(Providers \cup {"cancel"}) /\ Head(queue) \in Providers
    BY <1>4 DEF HandleStart, TypeOK
  <2>2. PICK n \in Attempts \ begun : attempt' = n /\ begun' = begun \cup {n}
    BY <1>4 DEF HandleStart
  <2> QED BY <1>2, <1>3, <1>4, <2>1, <2>2 DEF HandleStart, TypeOK, keys
<1>5. CASE HandleCancel
  <2>1. queue' \in Seq(Providers \cup {"cancel"})
    BY <1>5 DEF HandleCancel, TypeOK
  <2> QED BY <1>2, <1>3, <1>5, <2>1 DEF HandleCancel, Forget, TypeOK, keys
<1> QED BY <1>4, <1>5

LEMMA TaskTyped == TypeOK /\ TaskStep => TypeOK'
<1> SUFFICES ASSUME TypeOK, TaskStep PROVE TypeOK'
  OBVIOUS
<1> USE AuthorizationConstantsOK DEF TypeOK, sockets, keys, EndTask, Forget, Advance
<1>1. CASE ReadClientId
  BY <1>1 DEF ReadClientId
<1>2. CASE OpenListener
  <2>1. attempt \in Attempts
    BY <1>2 DEF OpenListener
  <2>2. ASSUME NEW p \in Ports, NEW flag \in BOOLEAN, NEW waiting \in SUBSET Requests,
               Bind(p, flag, waiting)
        PROVE  /\ listener' \in [Attempts -> {"unbound", "closed"} \cup Open]
               /\ port' \in [Attempts -> Ports \cup {None}]
               /\ backlog' \in [Attempts -> SUBSET Requests]
               /\ conn' \in [Attempts -> Requests \cup {None}]
               /\ cancelled' \in [Attempts -> BOOLEAN]
               /\ answer' \in [Attempts -> Answers \cup {None}]
    BY <2>1, <2>2 DEF Bind, Open
  <2>3. {} \in SUBSET Requests /\ {<<"other", None>>} \in SUBSET Requests
    BY DEF Requests
  <2>4. Pair \in (Keys \X Keys) \cup {None}
    BY DEF Pair
  <2> QED BY <1>2, <2>1, <2>2, <2>3, <2>4 DEF OpenListener
<1>3. CASE Receive
  BY <1>3 DEF Receive
<1>4. CASE Timeout
  <2>1. attempt \in Attempts /\ Wake(attempt)
    BY <1>4 DEF Timeout
  <2> QED BY <1>4, <2>1, WakeTyped DEF Timeout
<1>5. CASE Exchange
  BY <1>5 DEF Exchange
<1>6. CASE Profile
  BY <1>6 DEF Profile
<1>7. CASE Register
  BY <1>7 DEF Register
<1> QED BY <1>1, <1>2, <1>3, <1>4, <1>5, <1>6, <1>7 DEF TaskStep

LEMMA ThreadTyped ==
  ASSUME TypeOK, Visit \/ \E n \in Attempts : Thread(n) \/ AcceptFails(n)
  PROVE  TypeOK'
<1> USE AuthorizationConstantsOK DEF TypeOK, task, keys
<1>1. CASE Visit
  <2>1. backlog' \in [Attempts -> SUBSET Requests]
    BY <1>1 DEF Visit, Connected
  <2> QED BY <1>1, <2>1 DEF Visit
<1>2. ASSUME NEW n \in Attempts, NEW a \in Answers, Close(n, a)
      PROVE  /\ listener' \in [Attempts -> {"unbound", "closed"} \cup Open]
             /\ backlog' \in [Attempts -> SUBSET Requests]
             /\ conn' \in [Attempts -> Requests \cup {None}]
             /\ answer' \in [Attempts -> Answers \cup {None}]
  BY <1>2 DEF Close
<1>3. Failure \in Answers
  BY DEF Answers, Failure
<1>4. ASSUME NEW n \in Attempts, Accept(n) PROVE TypeOK'
  BY <1>2, <1>3, <1>4 DEF Accept, Open
<1>5. ASSUME NEW n \in Attempts, Handle(n) PROVE TypeOK'
  <2>1. PICK c \in Requests : conn[n] = c /\ (\/ c[1] = "code" /\ Close(n, c)
                                              \/ c[1] = "denied" /\ Close(n, Failure)
                                              \/ /\ c[1] = "other"
                                                 /\ listener' = [listener EXCEPT ![n] = "accepting"]
                                                 /\ conn' = [conn EXCEPT ![n] = None]
                                                 /\ UNCHANGED <<backlog, answer>>)
    BY <1>5 DEF Handle
  <2>2. c[1] = "code" => c \in Answers
    BY DEF Requests, Answers
  <2> QED BY <1>2, <1>3, <1>5, <2>1, <2>2 DEF Handle, Open
<1>6. ASSUME NEW n \in Attempts, AcceptFails(n) PROVE TypeOK'
  BY <1>2, <1>3, <1>6 DEF AcceptFails, Open
<1> QED BY <1>1, <1>4, <1>5, <1>6 DEF Thread

LEMMA InitTyped == Init => TypeOK
<1> SUFFICES ASSUME Init PROVE TypeOK
  OBVIOUS
<1>1. queue \in Seq(Providers \cup {"cancel"})
  BY DEF Init
<1>2. /\ listener \in [Attempts -> {"unbound", "closed"} \cup Open]
      /\ port \in [Attempts -> Ports \cup {None}]
      /\ backlog \in [Attempts -> SUBSET Requests]
      /\ conn \in [Attempts -> Requests \cup {None}]
      /\ cancelled \in [Attempts -> BOOLEAN]
      /\ answer \in [Attempts -> Answers \cup {None}]
  BY DEF Init, Each
<1> QED BY <1>1, <1>2 DEF Init, TypeOK

\* Every variable keeps its type.
THEOREM TypeCorrect == Spec => []TypeOK
<1>2. TypeOK /\ [Next]_vars => TypeOK'
  <2> SUFFICES ASSUME TypeOK, [Next]_vars PROVE TypeOK'
    OBVIOUS
  <2>1. CASE UNCHANGED vars
    BY <2>1 DEF vars, task, sockets, keys, TypeOK
  <2> QED BY <2>1, PageTyped, WorkerTyped, TaskTyped, ThreadTyped DEF Next
<1> QED BY InitTyped, <1>2, PTL DEF Spec

-----------------------------------------------------------------------------
(* The listeners and their tasks.                                          *)

\* An attempt has no listener before its task binds one, and an answer is the
\* last thing a listener gives.
ListenerInv ==
  /\ \A n \in Attempts :
       n \notin begun \/ (n = attempt /\ phase \in {"id", "secret"}) => listener[n] = "unbound"
  /\ \A n \in Attempts : answer[n] # None => listener[n] = "closed"

TaskInv ==
  /\ phase = "login" => provider = "imap"
  /\ CodeIsOwn /\ LinkingShown

AttemptInv == TypeOK /\ ListenerInv /\ StoppedListenersAreWoken /\ TaskInv

LEMMA WakeWakes ==
  ASSUME TypeOK, NEW n \in Attempts, Wake(n)
  PROVE  /\ cancelled'[n] /\ (listener[n] \in Open => backlog'[n] # {})
         /\ \A o \in Attempts : cancelled[o] => cancelled'[o]
         /\ \A o \in Attempts : backlog[o] # {} => backlog'[o] # {}
BY DEF TypeOK, Wake, Connected

LEMMA WorkerKeepsInv ==
  ASSUME AttemptInv, TypeOK', HandleStart \/ HandleCancel
  PROVE  ListenerInv' /\ StoppedListenersAreWoken' /\ TaskInv'
<1> USE AuthorizationConstantsOK DEF AttemptInv
<1>1. DropTask
  BY DEF HandleStart, HandleCancel
<1>2. UNCHANGED <<listener, port, conn, answer>>
  BY <1>1 DEF DropTask
<1>3. phase' # "callback"
  BY DEF HandleStart, HandleCancel, Forget
<1>4. \A n \in Attempts : listener[n] \in Open => cancelled'[n] /\ backlog'[n] # {}
  <2>1. CASE phase = "callback"
    <3>1. attempt \in Attempts /\ Wake(attempt)
      BY <1>1, <2>1 DEF DropTask, TypeOK
    <3> QED BY <3>1, WakeWakes DEF StoppedListenersAreWoken
  <2>2. CASE phase # "callback"
    BY <1>1, <2>2 DEF DropTask, StoppedListenersAreWoken
  <2> QED BY <2>1, <2>2
<1>5. StoppedListenersAreWoken'
  BY <1>2, <1>3, <1>4 DEF StoppedListenersAreWoken
<1>6. ListenerInv'
  BY <1>2 DEF ListenerInv, HandleStart, HandleCancel, Forget, TypeOK
<1>7. TaskInv'
  BY DEF TaskInv, CodeIsOwn, LinkingShown, HandleStart, HandleCancel, Forget
<1> QED BY <1>5, <1>6, <1>7

LEMMA TaskKeepsInv ==
  ASSUME AttemptInv, TypeOK', TaskStep
  PROVE  ListenerInv' /\ StoppedListenersAreWoken' /\ TaskInv'
<1> USE AuthorizationConstantsOK
        DEF AttemptInv, TypeOK, ListenerInv, StoppedListenersAreWoken, TaskInv, CodeIsOwn,
            LinkingShown, sockets, keys, EndTask, Forget, Advance
<1>1. CASE ReadClientId
  <2>1. UNCHANGED sockets
    BY <1>1 DEF ReadClientId
  <2>2. CASE Advance("secret")
    BY <1>1, <2>1, <2>2 DEF ReadClientId
  <2>3. CASE EndTask
    BY <1>1, <2>1, <2>3 DEF ReadClientId
  <2> QED BY <1>1, <2>2, <2>3 DEF ReadClientId
<1>2. CASE OpenListener
  <2>1. attempt \in Attempts /\ attempt \in begun
    BY <1>2 DEF OpenListener
  <2>2. ASSUME NEW p \in Ports, Bind(p, FALSE, {}), Advance("callback")
        PROVE  ListenerInv' /\ StoppedListenersAreWoken' /\ TaskInv'
    BY <1>2, <2>1, <2>2 DEF OpenListener, Bind
  <2>3. ASSUME NEW p \in Ports, Bind(p, TRUE, {<<"other", None>>}), EndTask
        PROVE  ListenerInv' /\ StoppedListenersAreWoken' /\ TaskInv'
    BY <1>2, <2>1, <2>3 DEF OpenListener, Bind
  <2>4. CASE EndTask /\ UNCHANGED sockets
    BY <1>2, <2>1, <2>4 DEF OpenListener
  <2> QED BY <1>2, <2>2, <2>3, <2>4 DEF OpenListener
<1>3. CASE Receive
  BY <1>3 DEF Receive, Open
<1>4. CASE Timeout
  <2>1. attempt \in Attempts /\ Wake(attempt)
    BY <1>4 DEF Timeout
  <2>2. \A n \in Attempts : listener[n] \in Open => cancelled'[n] /\ backlog'[n] # {}
    BY <1>4, <2>1, WakeWakes DEF Timeout
  <2> QED BY <1>4, <2>2 DEF Timeout
<1>5. CASE Exchange
  BY <1>5 DEF Exchange
<1>6. CASE Profile
  BY <1>6 DEF Profile
<1>7. CASE Register
  BY <1>7 DEF Register
<1> QED BY <1>1, <1>2, <1>3, <1>4, <1>5, <1>6, <1>7 DEF TaskStep

LEMMA ThreadKeepsInv ==
  ASSUME AttemptInv, Visit \/ \E n \in Attempts : Thread(n) \/ AcceptFails(n)
  PROVE  ListenerInv' /\ StoppedListenersAreWoken' /\ TaskInv'
<1> USE AuthorizationConstantsOK
        DEF AttemptInv, TypeOK, ListenerInv, StoppedListenersAreWoken, TaskInv, CodeIsOwn,
            LinkingShown, task, keys, Open
<1>1. CASE Visit
  BY <1>1 DEF Visit, Connected
<1>2. ASSUME NEW n \in Attempts, Accept(n)
      PROVE  ListenerInv' /\ StoppedListenersAreWoken' /\ TaskInv'
  BY <1>2 DEF Accept, Close
<1>3. ASSUME NEW n \in Attempts, Handle(n)
      PROVE  ListenerInv' /\ StoppedListenersAreWoken' /\ TaskInv'
  BY <1>3 DEF Handle, Close
<1>4. ASSUME NEW n \in Attempts, AcceptFails(n)
      PROVE  ListenerInv' /\ StoppedListenersAreWoken' /\ TaskInv'
  BY <1>4 DEF AcceptFails, Close
<1> QED BY <1>1, <1>2, <1>3, <1>4 DEF Thread

LEMMA AttemptInvHolds == Spec => []AttemptInv
<1>1. Init => AttemptInv
  <2> SUFFICES ASSUME Init PROVE AttemptInv
    OBVIOUS
  <2>1. TypeOK
    BY InitTyped
  <2> QED BY <2>1 DEF Init, AttemptInv, ListenerInv, StoppedListenersAreWoken, TaskInv,
                      CodeIsOwn, LinkingShown, Each, Open
<1>2. AttemptInv /\ TypeOK' /\ [Next]_vars => AttemptInv'
  <2> SUFFICES ASSUME AttemptInv, TypeOK', [Next]_vars PROVE AttemptInv'
    OBVIOUS
  <2>1. CASE UNCHANGED vars \/ PageStep \/ KeyStep
    <3>1. UNCHANGED <<isLinking, begun, task, sockets>>
      BY <2>1 DEF vars, PageStep, KeyStep, ClickConnect, ClickCancel, LeavePage, SaveKeys, WriteId,
                  RemoveKeys, DeleteId
    <3> QED BY <3>1 DEF AttemptInv, ListenerInv, StoppedListenersAreWoken, TaskInv, CodeIsOwn,
                        LinkingShown, task, sockets
  <2> QED BY <2>1, WorkerKeepsInv, TaskKeepsInv, ThreadKeepsInv DEF Next, AttemptInv
<1> QED BY <1>1, <1>2, TypeCorrect, PTL DEF Spec

\* However an attempt ends, its listener is left with what makes it end, too.
THEOREM StoppedListenersAreWokenHolds == Spec => []StoppedListenersAreWoken
<1>1. AttemptInv => StoppedListenersAreWoken
  BY DEF AttemptInv
<1> QED BY <1>1, AttemptInvHolds, PTL

\* No code from the consent page of another attempt is ever exchanged.
THEOREM CodeIsOwnHolds == Spec => []CodeIsOwn
<1>1. AttemptInv => CodeIsOwn
  BY DEF AttemptInv, TaskInv
<1> QED BY <1>1, AttemptInvHolds, PTL

\* is_linking says whether a task runs.
THEOREM LinkingShownHolds == Spec => []LinkingShown
<1>1. AttemptInv => LinkingShown
  BY DEF AttemptInv, TaskInv
<1> QED BY <1>1, AttemptInvHolds, PTL

-----------------------------------------------------------------------------
(* The keys.                                                               *)

\* Between two uses of the keys that did not disturb each other, row and keyring
\* agree; a save under way has put its secret where only a removal takes it.
PairInv ==
  ~mixed =>
    /\ saving = {} /\ clientId # None /\ clientSecret # None => clientId = clientSecret
    /\ \A k \in saving : saving = {k} /\ clientSecret \in {k, None}
    /\ phase = "secret" =>
         saving = {} /\ (keyId # None /\ clientSecret # None => keyId = clientSecret)
    /\ pair # None => pair[1] = pair[2]

LEMMA PairInvHolds == Spec => []PairInv
<1>1. Init => PairInv
  BY DEF Init, PairInv
<1>2. TypeOK /\ PairInv /\ [Next]_vars => PairInv'
  <2> SUFFICES ASSUME TypeOK, PairInv, [Next]_vars PROVE PairInv'
    OBVIOUS
  <2> USE AuthorizationConstantsOK DEF TypeOK, PairInv, keys, task, sockets
  <2>1. CASE UNCHANGED vars
    BY <2>1 DEF vars
  <2>2. ASSUME NEW k \in Keys, SaveKeys(k) PROVE PairInv'
    BY <2>2 DEF SaveKeys
  <2>3. ASSUME NEW k \in Keys, WriteId(k) PROVE PairInv'
    BY <2>3 DEF WriteId
  <2>4. CASE RemoveKeys \/ DeleteId
    BY <2>4 DEF RemoveKeys, DeleteId
  <2>5. CASE PageStep
    BY <2>5 DEF PageStep, ClickConnect, ClickCancel, LeavePage
  <2>6. CASE HandleStart \/ HandleCancel
    BY <2>6 DEF HandleStart, HandleCancel, Forget
  <2>7. CASE ReadClientId
    BY <2>7 DEF ReadClientId, Advance, EndTask, Forget
  <2>8. CASE OpenListener
    <3>1. UNCHANGED keys /\ mixed' = mixed
      BY <2>8 DEF OpenListener, Advance, EndTask
    <3>2. phase' # "secret" /\ phase = "secret"
      BY <2>8 DEF OpenListener, Advance, EndTask, Forget
    <3>3. ~mixed /\ Pair # None => Pair[1] = Pair[2]
      BY <3>2 DEF Pair
    <3>4. pair' = None \/ pair' = Pair
      BY <2>8 DEF OpenListener, EndTask, Forget
    <3> QED BY <3>1, <3>2, <3>3, <3>4
  <2>9. CASE Receive \/ Timeout \/ Exchange \/ Profile \/ Register
    BY <2>9 DEF Receive, Timeout, Exchange, Profile, Register, Advance, EndTask, Forget
  <2>10. CASE Visit \/ \E n \in Attempts : Thread(n) \/ AcceptFails(n)
    BY <2>10 DEF Visit, Thread, Accept, AcceptFails, Handle
  <2> QED BY <2>1, <2>2, <2>3, <2>4, <2>5, <2>6, <2>7, <2>8, <2>9, <2>10
          DEF Next, KeyStep, TaskStep
<1> QED BY <1>1, <1>2, TypeCorrect, PTL DEF Spec

\* An attempt signs in with an id and a secret that belong together.
THEOREM KeysBelongTogetherHolds == Spec => []KeysBelongTogether
<1>1. PairInv => KeysBelongTogether
  BY DEF PairInv, KeysBelongTogether
<1> QED BY <1>1, PairInvHolds, PTL
=============================================================================
