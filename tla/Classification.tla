---------------------------- MODULE Classification ----------------------------
(***************************************************************************)
(* The watch criteria and the passes that classify by them.  The table is  *)
(* seeded at the program's start, edited in the Settings page and switched *)
(* by the cards of the dashboard; a pass takes the active criteria as they *)
(* are when it gets to classify, and its tasks ask the model about one     *)
(* message each while the table goes on changing.                          *)
(*                                                                         *)
(* A label is a name and a spelling: "plain", "recased" (equal but for     *)
(* upper and lower case) or "padded" (with blanks at an end).  What the    *)
(* model answers and how the calls fail is nondeterministic.  A step of a  *)
(* task reaches from one await that others can notice to the next.         *)
(***************************************************************************)
EXTENDS Integers, FiniteSets

CONSTANTS
  Defaults,  \* number of default criteria; they are 1, 2, ... in the order of their insertion
  Typed,     \* labels the user types for the criterion of his own, the one after the defaults
  Mails,     \* number of messages handed to each pass; they are taken up in order
  Slots,     \* for_each_concurrent
  Budget,    \* MAX_TIER2_FETCHES_PER_SYNC
  MaxFaults  \* bound: statements that fail and crashes, together

Own == Defaults + 1
Criteria == 1..Own
Mail == 1..Mails
Spellings == {"plain", "recased", "padded"}
Labels == Criteria \X Spellings

ASSUME ClassificationConstantsOK ==
  /\ Defaults \in Nat /\ Typed \subseteq Labels /\ Typed # {}
  /\ Mails \in Nat /\ Slots \in Nat /\ Budget \in Nat /\ MaxFaults \in Nat

VARIABLES
  rows, active,        \* watch_criteria, and its rows with is_active
  ownLabel,            \* the label of the user's criterion
  tombstone,           \* has_seeded_default_criteria
  boot, nextDefault,   \* "down", "seeding" or "up"; the default seeded next
  settled,             \* history: since the last wipe a start has seeded, or found the table
                       \* or the flag there
  card,                \* the toggle of one criterion on the dashboard: {<<c, "on" or "off">>}
  writes, adrift,      \* statements of its clicks, and of those of a dashboard since left
  muddled,             \* history: statements of this card's criterion have overlapped
  passOn, initial,     \* a pass is classifying; is_initial_sync
  snapshot,            \* active_criteria
  wanted,              \* history: active when the pass took its snapshot
  stage, fetched,      \* of each task; the messages whose body was asked for
  budget, completed,   \* tier2_budget, completed_count
  found,               \* classifications saved by the pass under way
  faults

table == <<rows, active, ownLabel, tombstone>>
start == <<boot, nextDefault, settled>>
dash  == <<card, writes, adrift, muddled>>
pass  == <<passOn, initial, snapshot, wanted, stage, fetched, budget, completed, found>>
vars  == <<table, start, dash, pass, faults>>

Toggles == Criteria \X {"on", "off"}
Stages == {"new", "tier1", "body", "done", "dropped"}

TypeOK ==
  /\ rows \subseteq Criteria /\ active \subseteq rows /\ ownLabel \in Labels
  /\ tombstone \in BOOLEAN /\ settled \in BOOLEAN /\ muddled \in BOOLEAN
  /\ boot \in {"down", "seeding", "up"} /\ nextDefault \in Criteria
  /\ card \subseteq Toggles /\ writes \subseteq Toggles /\ adrift \subseteq Toggles
  /\ passOn \in BOOLEAN /\ initial \in BOOLEAN
  /\ snapshot \subseteq Criteria /\ wanted \subseteq Criteria
  /\ stage \in [Mail -> Stages] /\ fetched \subseteq Mail
  /\ budget \in 0..Budget /\ completed \in Nat
  /\ found \subseteq Mail \X rows
  /\ faults \in Nat

Init ==
  /\ rows = {} /\ active = {} /\ ownLabel = (CHOOSE l \in Typed : TRUE) /\ tombstone = FALSE
  /\ boot = "down" /\ nextDefault = 1 /\ settled = FALSE
  /\ card = {} /\ writes = {} /\ adrift = {} /\ muddled = FALSE
  /\ passOn = FALSE /\ initial = FALSE /\ snapshot = {} /\ wanted = {}
  /\ stage = [m \in Mail |-> "new"] /\ fetched = {} /\ budget = Budget /\ completed = 0
  /\ found = {} /\ faults = 0

Fault == faults < MaxFaults /\ faults' = faults + 1

Insert(c) == rows' = rows \cup {c} /\ active' = active \cup {c}

-----------------------------------------------------------------------------
(* The start of the program: seed_default_criteria.                        *)

Booted(b) == boot' = b /\ nextDefault' = 1

\* Mutant: existing criteria end the seeding, but the flag is not set for them.
StartUnflagged ==
  /\ boot = "down"
  /\ settled' = (settled \/ rows # {} \/ tombstone)
  /\ Booted(IF rows # {} \/ tombstone THEN "up" ELSE "seeding")
  /\ UNCHANGED <<table, dash, pass, faults>>

\* With the flag there is nothing to do; with criteria the flag is set; else they are seeded.
Start ==
  /\ boot = "down"
  /\ tombstone' = (rows # {} \/ tombstone)
  /\ settled' = (settled \/ rows # {} \/ tombstone)
  /\ Booted(IF tombstone' THEN "up" ELSE "seeding")
  /\ UNCHANGED <<rows, active, ownLabel, dash, pass, faults>>

SeedDefault ==
  /\ boot = "seeding" /\ nextDefault <= Defaults
  /\ Insert(nextDefault) /\ nextDefault' = nextDefault + 1
  /\ UNCHANGED <<ownLabel, tombstone, boot, settled, dash, pass, faults>>

SeedingDone ==
  /\ boot = "seeding" /\ nextDefault > Defaults
  /\ tombstone' = TRUE /\ settled' = TRUE /\ Booted("up")
  /\ UNCHANGED <<rows, active, ownLabel, dash, pass, faults>>

\* An error is logged, and the program goes on with what there is.
SeedingFails ==
  /\ boot \in {"down", "seeding"} /\ Fault
  /\ Booted("up")
  /\ UNCHANGED <<table, settled, dash, pass>>

PassOver ==
  /\ passOn' = FALSE /\ initial' = FALSE /\ snapshot' = {} /\ wanted' = {}
  /\ stage' = [m \in Mail |-> "new"] /\ fetched' = {} /\ budget' = Budget /\ completed' = 0
  /\ found' = {}

Quit ==
  /\ boot # "down" /\ Fault
  /\ Booted("down")
  /\ card' = {} /\ writes' = {} /\ adrift' = {} /\ muddled' = FALSE
  /\ PassOver
  /\ UNCHANGED <<table, settled>>

-----------------------------------------------------------------------------
(* The Settings page.  Its statements may run after the page is left.      *)

\* Add Criterion asks for a label that is not blank, and stores it as typed.  Bound: one
\* criterion of the user's at a time, and its id is not used again where it is remembered.
AddCriterion(l) ==
  /\ boot = "up" /\ Own \notin rows \cup snapshot
  /\ \A w \in card \cup writes \cup adrift : w[1] # Own
  /\ Insert(Own) /\ ownLabel' = l
  /\ UNCHANGED <<tombstone, start, dash, pass, faults>>

DeleteCriterion(c) ==
  /\ boot = "up" /\ c \in rows
  /\ rows' = rows \ {c} /\ active' = active \ {c}
  /\ found' = {e \in found : e[2] # c}
  /\ UNCHANGED <<ownLabel, tombstone, start, dash, faults, passOn, initial, snapshot, wanted,
                 stage, fetched, budget, completed>>

\* wipe_all_data commits: the criteria go with everything that refers to them, and the
\* settings with the flag of the seeding.
Wipe ==
  /\ boot = "up"
  /\ rows' = {} /\ active' = {} /\ found' = {}
  /\ tombstone' = FALSE /\ settled' = FALSE
  /\ UNCHANGED <<ownLabel, boot, nextDefault, dash, faults, passOn, initial, snapshot, wanted,
                 stage, fetched, budget, completed>>

-----------------------------------------------------------------------------
(* The cards of the dashboard.  One is followed at a time, between passes; *)
(* what the others do is SetActive.                                        *)

Value(c) == IF c \in active THEN "on" ELSE "off"
Flip(w) == <<w[1], IF w[2] = "on" THEN "off" ELSE "on">>

Store(w) == active' = IF w[2] = "on" THEN active \cup ({w[1]} \cap rows) ELSE active \ {w[1]}

SetActive(c) ==
  /\ boot = "up" /\ c \in rows /\ \A w \in card \cup writes \cup adrift : w[1] # c
  /\ Store(Flip(<<c, Value(c)>>))
  /\ UNCHANGED <<rows, ownLabel, tombstone, start, dash, pass, faults>>

\* The signal takes the row's value when the card is mounted, and never again.
OpenCard(c) ==
  /\ boot = "up" /\ ~passOn /\ card = {} /\ c \in rows
  /\ \A w \in adrift : w[1] = c
  /\ card' = {<<c, Value(c)>>} /\ muddled' = (adrift # {})
  /\ UNCHANGED <<table, start, writes, adrift, pass, faults>>

LeaveDashboard ==
  /\ card # {}
  /\ card' = {} /\ writes' = {} /\ adrift' = adrift \cup writes /\ muddled' = FALSE
  /\ UNCHANGED <<table, start, pass, faults>>

\* Bound: a card has one statement of each kind under way.
ClickToggle ==
  \E w \in card :
    /\ Flip(w) \notin writes
    /\ card' = {Flip(w)} /\ writes' = writes \cup {Flip(w)}
    /\ muddled' = (muddled \/ writes # {})
    /\ UNCHANGED <<table, start, adrift, pass, faults>>

\* Mutant: a failure leaves the signal as the click has set it.
WriteToggleUnreverted(w) ==
  /\ w \in writes /\ writes' = writes \ {w}
  /\ \/ w[1] \in rows /\ Store(w) /\ UNCHANGED faults
     \/ Fault /\ UNCHANGED active
  /\ UNCHANGED <<rows, ownLabel, tombstone, start, card, adrift, muddled, pass>>

\* set_criterion_active fails for a row that has gone, or like any statement.
WriteToggle(w) ==
  /\ w \in writes /\ writes' = writes \ {w}
  /\ \/ w[1] \in rows /\ Store(w) /\ UNCHANGED <<card, faults>>
     \/ w[1] \notin rows /\ card' = {Flip(w)} /\ UNCHANGED <<active, faults>>
     \/ Fault /\ card' = {Flip(w)} /\ UNCHANGED active
  /\ UNCHANGED <<rows, ownLabel, tombstone, start, adrift, muddled, pass>>

\* The statement of a dropped task runs late or not at all.
WriteAdrift(w) ==
  /\ w \in adrift /\ adrift' = adrift \ {w}
  /\ Store(w) \/ UNCHANGED active
  /\ UNCHANGED <<rows, ownLabel, tombstone, start, card, writes, muddled, pass, faults>>

-----------------------------------------------------------------------------
(* A pass: classify_new_emails.                                            *)

LabelOf(c) == IF c = Own THEN ownLabel ELSE <<c, "plain">>

First(S) == {c \in S : \A d \in S : c <= d}

\* Mutant: the label as the model has spelled it.
CanonicalAsAnswered(name) ==
  {<<name, s>> : s \in {"plain", "recased"} \cap {LabelOf(c)[2] : c \in Criteria}}

\* run_classification trims the answer and takes the first criterion that equals it but for
\* the case; a stored label with blanks around it equals no trimmed answer.
Canonical(name) ==
  {LabelOf(c) : c \in First({d \in snapshot : LabelOf(d)[1] = name /\ LabelOf(d)[2] # "padded"})}

\* Mutant: list_criteria for list_active_criteria.
StartPassWithAll(first) ==
  /\ boot = "up" /\ ~passOn /\ active # {} /\ card = {} /\ adrift = {}
  /\ passOn' = TRUE /\ initial' = first
  /\ snapshot' = rows /\ wanted' = active
  /\ UNCHANGED <<table, start, dash, stage, fetched, budget, completed, found, faults>>

\* Without criteria or a model there is nothing to do.  Bound: none with a card open.
StartPass(first) ==
  /\ boot = "up" /\ ~passOn /\ active # {} /\ card = {} /\ adrift = {}
  /\ passOn' = TRUE /\ initial' = first
  /\ snapshot' = active /\ wanted' = active
  /\ UNCHANGED <<table, start, dash, stage, fetched, budget, completed, found, faults>>

Busy == {m \in Mail : stage[m] \in {"tier1", "body"}}

Become(m, s) == stage' = [stage EXCEPT ![m] = s]

Begin(m) ==
  /\ passOn /\ stage[m] = "new" /\ Cardinality(Busy) < Slots
  /\ \A n \in Mail : n < m => stage[n] # "new"
  /\ Become(m, "tier1")
  /\ UNCHANGED <<table, start, dash, passOn, initial, snapshot, wanted, fetched, budget,
                 completed, found, faults>>

\* The guard against labels that are not in the snapshot returns before the message is counted.
\* save_classification fails for a criterion that has gone.
Accept(m, l) ==
  LET hit == First({c \in snapshot : LabelOf(c) = l}) IN
  IF hit = {}
  THEN Become(m, "dropped") /\ UNCHANGED <<completed, found>>
  ELSE /\ Become(m, "done") /\ completed' = completed + 1
       /\ found' = found \cup {<<m, c>> : c \in hit \cap rows}

Reject(m) == Become(m, "done") /\ completed' = completed + 1 /\ UNCHANGED found

\* Mutant: every task counts on a budget of its own.
Tier1PerTask(m) ==
  /\ passOn /\ stage[m] = "tier1"
  /\ ~initial /\ budget > 0
  /\ fetched' = fetched \cup {m} /\ Become(m, "body")
  /\ UNCHANGED <<table, start, dash, passOn, initial, snapshot, wanted, budget, completed,
                 found, faults>>

\* The answer is accepted, ambiguous, or no match or an error.
Tier1(m) ==
  /\ passOn /\ stage[m] = "tier1"
  /\ \/ /\ \/ \E name \in Criteria : \E l \in Canonical(name) : Accept(m, l)
           \/ Reject(m)
        /\ UNCHANGED <<fetched, budget>>
     \/ /\ ~initial /\ budget > 0
        /\ budget' = budget - 1 /\ fetched' = fetched \cup {m}
        /\ Become(m, "body")
        /\ UNCHANGED <<completed, found>>
  /\ UNCHANGED <<table, start, dash, passOn, initial, snapshot, wanted, faults>>

\* fetch_full_message and, if there is a body, classify_with_body.
Tier2(m) ==
  /\ passOn /\ stage[m] = "body"
  /\ \/ \E name \in Criteria : \E l \in Canonical(name) : Accept(m, l)
     \/ Reject(m)
  /\ UNCHANGED <<table, start, dash, passOn, initial, snapshot, wanted, fetched, budget, faults>>

AllAnswered == \A m \in Mail : stage[m] \in {"done", "dropped"}

EndPass ==
  /\ passOn /\ AllAnswered
  /\ PassOver
  /\ UNCHANGED <<table, start, dash, faults>>

StartStep == Start \/ SeedDefault \/ SeedingDone \/ SeedingFails \/ Quit
TableStep == \/ \E l \in Typed : AddCriterion(l)
             \/ \E c \in Criteria : DeleteCriterion(c) \/ SetActive(c)
             \/ Wipe
CardStep == \/ \E c \in Criteria : OpenCard(c)
            \/ LeaveDashboard \/ ClickToggle
            \/ \E w \in Toggles : WriteToggle(w) \/ WriteAdrift(w)
TaskStep(m) == Begin(m) \/ Tier1(m) \/ Tier2(m)
PassStep == \/ \E first \in BOOLEAN : StartPass(first)
            \/ \E m \in Mail : TaskStep(m)
            \/ EndPass

Next == StartStep \/ TableStep \/ CardStep \/ PassStep

Spec == Init /\ [][Next]_vars

-----------------------------------------------------------------------------
\* A pass asks for no more bodies than its budget, however its tasks interleave, and the first
\* pass of a mailbox for none (sync_page.rs, tier2_budget and is_initial_sync).
BudgetKept == Cardinality(fetched) <= Budget /\ (initial => fetched = {})

\* When every task has ended, the progress shown is that of the whole list: no answer of the
\* classifiers reaches the guard that returns early (sync_page.rs, completed_count).
ProgressCompletes == AllAnswered => completed = Mails

\* What a pass finds belongs to criteria that were active when it took its list, although they
\* are switched off and deleted under it (sync_page.rs, active_criteria).
OnlyActiveMatched ==
  [][\A e \in found' \ found : e[2] \in wanted /\ e[2] \in rows]_vars

\* Once a start has found the defaults seeded, or criteria or the flag there, no later start
\* brings a default back, whatever the user has deleted, until he wipes everything: then the
\* flag goes with the criteria, and the program is as newly installed (criteria.rs,
\* seed_default_criteria; accounts.rs, wipe_all_data).
DeletedStaysDeleted == [][settled => rows' \subseteq rows \cup {Own}]_vars

\* A card without statements under way shows its row, also after a statement that failed,
\* unless its clicks overlapped or those of an earlier visit were still on their way
\* (dashboard.rs, CriteriaItem).
CardShowsStore ==
  \A w \in card : writes = {} /\ ~muddled /\ w[1] \in rows => w[2] = Value(w[1])
=============================================================================
