--------------------------- MODULE CursorContract ---------------------------
(***************************************************************************)
(* What a recorded sync cursor promises, whatever the provider and however *)
(* a pass is organised: recording position n acknowledges every message    *)
(* that arrived up to n, so each of them that can still be fetched must    *)
(* have been delivered to the local store first, or be among the messages  *)
(* that the recording of a baseline excuses.                               *)
(***************************************************************************)
EXTENDS Integers

CONSTANT Messages

VARIABLES
  tip,        \* number of the latest change on the server
  arrival,    \* arrival[m]: the change that brought m, 0 before it
  alive,      \* messages that can still be fetched
  acked,      \* the recorded position, or NoCursor
  delivered,  \* messages stored at least once
  excused     \* messages no cursor has to wait for

vars == <<tip, arrival, alive, acked, delivered, excused>>

NoCursor == -1

Settled(n, excuse) ==
  \A m \in alive : arrival[m] <= n => m \in delivered \cup excuse

Init ==
  /\ tip = 0 /\ arrival = [m \in Messages |-> 0] /\ alive = {}
  /\ acked = NoCursor /\ delivered = {}
  /\ excused \in SUBSET Messages

Receive(m) ==
  /\ arrival[m] = 0
  /\ tip' = tip + 1
  /\ arrival' = [arrival EXCEPT ![m] = tip + 1]
  /\ alive' = alive \cup {m}
  /\ UNCHANGED <<acked, delivered, excused>>

\* Any other change of the mailbox; m may be out of reach after it.
Touch(m) ==
  /\ tip' = tip + 1
  /\ alive' \in {alive, alive \ {m}}
  /\ UNCHANGED <<arrival, acked, delivered, excused>>

Deliver(m) ==
  /\ delivered' = delivered \cup {m}
  /\ UNCHANGED <<tip, arrival, alive, acked, excused>>

\* Record position n; a baseline also replaces what is excused.
Acknowledge(n, excuse) ==
  /\ n <= tip /\ n >= acked
  /\ Settled(n, excuse)
  /\ acked' = n
  /\ excused' = excuse
  /\ UNCHANGED <<tip, arrival, alive, delivered>>

\* The cursor expired, or the account is gone.
Forget ==
  /\ acked' = NoCursor
  /\ UNCHANGED <<tip, arrival, alive, delivered, excused>>

Next ==
  \/ \E m \in Messages : Receive(m) \/ Touch(m) \/ Deliver(m)
  \/ \E n \in 0..tip, excuse \in SUBSET Messages : Acknowledge(n, excuse)
  \/ Forget

Spec == Init /\ [][Next]_vars

\* Nothing that can still be fetched is behind the recorded position without
\* having been delivered or excused.
NothingSkipped == Settled(acked, excused)
=============================================================================
