------------------------- MODULE ClassificationProofs -------------------------
(***************************************************************************)
(* Theorems of Classification for any number of defaults, messages, slots, *)
(* bodies and faults, and any labels the user types.                       *)
(***************************************************************************)
EXTENDS Classification, FiniteSetTheorems, TLAPS

\* A start that has found or made the defaults is remembered by the flag until a wipe.
SeedInv == settled => tombstone /\ boot # "seeding"

\* A card that is not muddled has at most the statement of its last click under way, and its
\* row has the value from before the click until then.
CardInv ==
  /\ \A v, w \in card : v = w
  /\ card = {} => writes = {}
  /\ card # {} => boot = "up"
  /\ \A w \in writes, v \in card : w[1] = v[1]
  /\ card # {} /\ ~muddled =>
       /\ adrift = {}
       /\ \A w \in writes : card = {w} /\ (w[1] \in rows => w[2] # Value(w[1]))

\* What was taken off the budget was fetched; what is done has been counted.
Done == {m \in Mail : stage[m] = "done"}
PassInv ==
  /\ IsFiniteSet(fetched) /\ Cardinality(fetched) + budget <= Budget
  /\ initial \/ ~passOn => fetched = {}
  /\ \A m \in Mail : stage[m] # "dropped"
  /\ completed = Cardinality(Done)
  /\ snapshot \subseteq wanted

Inv == TypeOK /\ SeedInv /\ CardInv /\ CardShowsStore /\ PassInv

-----------------------------------------------------------------------------
(* Facts about the classifiers and their guard.                            *)

\* First picks only among its candidates.
LEMMA FirstIn == ASSUME NEW S PROVE First(S) \subseteq S
BY DEF First

\* A canonical label is found again by the guard: the first criterion that equals the name but
\* for the case is also the first with exactly its label.
LEMMA GuardFinds ==
  ASSUME NEW name, NEW l \in Canonical(name)
  PROVE  First({c \in snapshot : LabelOf(c) = l}) # {}
<1> DEFINE S == {d \in snapshot : LabelOf(d)[1] = name /\ LabelOf(d)[2] # "padded"}
<1>1. PICK c \in First(S) : l = LabelOf(c)
  BY DEF Canonical
<1>2. c \in snapshot /\ LabelOf(c)[1] = name /\ LabelOf(c)[2] # "padded" /\ \A d \in S : c <= d
  BY <1>1 DEF First
<1>3. \A d \in {e \in snapshot : LabelOf(e) = l} : d \in S
  BY <1>1, <1>2
<1> QED  BY <1>1, <1>2, <1>3 DEF First

\* Counting one more message that was not done.
LEMMA OneMoreDone ==
  ASSUME TypeOK, PassInv, NEW m \in Mail, stage[m] # "done", Mails \in Nat,
         Become(m, "done"), completed' = completed + 1
  PROVE  completed' = Cardinality(Done') /\ \A n \in Mail : stage'[n] # "dropped"
<1>1. Done' = Done \cup {m} /\ m \notin Done
  BY DEF Done, Become, TypeOK
<1>2. IsFiniteSet(Mail)
  BY FS_Interval DEF Mail
<1>3. IsFiniteSet(Done)
  BY <1>2, FS_Subset DEF Done
<1> QED  BY <1>1, <1>3, FS_AddElement DEF PassInv, Become, TypeOK

\* A task that goes on does not change what is done.
LEMMA SameDone ==
  ASSUME TypeOK, PassInv, NEW m \in Mail, NEW s, stage[m] # "done", s \notin {"done", "dropped"},
         Become(m, s), completed' = completed
  PROVE  completed' = Cardinality(Done') /\ \A n \in Mail : stage'[n] # "dropped"
<1>1. Done' = Done
  BY DEF Done, Become, TypeOK
<1> QED  BY <1>1 DEF PassInv, Become, TypeOK

\* An accepted answer is counted, and what it saves belongs to a row of the snapshot.
LEMMA AcceptCounts ==
  ASSUME NEW m \in Mail, NEW name, NEW l \in Canonical(name), Accept(m, l)
  PROVE  /\ Become(m, "done") /\ completed' = completed + 1
         /\ \A e \in found' \ found : e[1] = m /\ e[2] \in snapshot \cap rows
         /\ found' \subseteq found \cup {<<m, c>> : c \in snapshot \cap rows}
<1> DEFINE hit == First({c \in snapshot : LabelOf(c) = l})
<1>1. hit # {} /\ hit \subseteq snapshot
  BY GuardFinds, FirstIn
<1>2. /\ Become(m, "done") /\ completed' = completed + 1
      /\ found' = found \cup {<<m, c>> : c \in hit \cap rows}
  BY <1>1 DEF Accept
<1>3. \A c \in hit : c \in snapshot
  BY <1>1
<1> HIDE DEF hit
<1> QED  BY <1>2, <1>3

\* After a pass everything is as before the first.
LEMMA OverTyped ==
  ASSUME PassOver
  PROVE  1 \in Criteria /\ budget' \in 0..Budget /\ stage' \in [Mail -> Stages]
BY ClassificationConstantsOK DEF PassOver, Criteria, Own, Stages

\* After a pass nothing is left of it.
LEMMA OverInv ==
  ASSUME PassOver
  PROVE  PassInv'
<1>1. /\ fetched' = {} /\ budget' = Budget /\ initial' = FALSE /\ passOn' = FALSE /\ snapshot' = {} /\ wanted' = {}
      /\ completed' = 0 /\ stage' = [m \in Mail |-> "new"]
  BY DEF PassOver
<1>2. Done' = {}
  BY <1>1 DEF Done
<1> QED  BY <1>1, <1>2, FS_EmptySet, ClassificationConstantsOK DEF PassInv

\* Whoever leaves the pass alone leaves its invariant alone.
LEMMA PassKept ==
  ASSUME PassInv, UNCHANGED pass
  PROVE  PassInv'
<1>1. Done' = Done
  BY DEF Done, pass
<1> QED  BY <1>1 DEF PassInv, pass

-----------------------------------------------------------------------------
(* The start of the program.                                               *)

LEMMA Initial == Init => Inv
<1> SUFFICES ASSUME Init PROVE Inv  OBVIOUS
<1> USE ClassificationConstantsOK
<1>1. ownLabel \in Typed
  BY DEF Init
<1>2. TypeOK
  <2>1. 1 \in Criteria /\ Budget \in 0..Budget
    BY DEF Criteria, Own
  <2>2. stage \in [Mail -> Stages]
    BY DEF Init, Stages
  <2> QED  BY <1>1, <2>1, <2>2 DEF Init, TypeOK
<1>3. Done = {}
  BY DEF Init, Done
<1>4. PassInv
  BY <1>3, FS_EmptySet DEF Init, PassInv
<1> QED  BY <1>2, <1>4 DEF Init, Inv, SeedInv, CardInv, CardShowsStore

LEMMA StartSteps ==
  ASSUME Inv, StartStep
  PROVE  Inv'
<1> USE ClassificationConstantsOK DEF Inv
<1>1. CASE Start
  <2>1. TypeOK'
    BY <1>1 DEF Start, Booted, TypeOK, dash, pass, Criteria, Own
  <2>2. SeedInv'
    BY <1>1 DEF Start, Booted, SeedInv
  <2>3. card = {}
    BY <1>1 DEF Start, CardInv
  <2>4. CardInv' /\ CardShowsStore'
    BY <1>1, <2>3 DEF Start, dash, CardInv, CardShowsStore
  <2> QED  BY <1>1, <2>1, <2>2, <2>4, PassKept DEF Start
<1>2. CASE SeedDefault
  <2>1. nextDefault \in Criteria /\ nextDefault + 1 \in Criteria
    BY <1>2 DEF SeedDefault, TypeOK, Criteria, Own
  <2>2. TypeOK'
    BY <1>2, <2>1 DEF SeedDefault, Insert, TypeOK, dash, pass
  <2>3. card = {}
    BY <1>2 DEF SeedDefault, CardInv
  <2>4. CardInv' /\ CardShowsStore'
    BY <1>2, <2>3 DEF SeedDefault, dash, CardInv, CardShowsStore
  <2> QED  BY <1>2, <2>2, <2>4, PassKept DEF SeedDefault, SeedInv
<1>3. CASE SeedingDone
  <2>1. TypeOK'
    BY <1>3 DEF SeedingDone, Booted, TypeOK, dash, pass, Criteria, Own
  <2>2. card = {}
    BY <1>3 DEF SeedingDone, CardInv
  <2>3. CardInv' /\ CardShowsStore'
    BY <1>3, <2>2 DEF SeedingDone, dash, CardInv, CardShowsStore
  <2> QED  BY <1>3, <2>1, <2>3, PassKept DEF SeedingDone, Booted, SeedInv
<1>4. CASE SeedingFails
  <2>1. TypeOK'
    BY <1>4 DEF SeedingFails, Fault, Booted, TypeOK, table, dash, pass, Criteria, Own
  <2>2. card = {}
    BY <1>4 DEF SeedingFails, CardInv
  <2>3. CardInv' /\ CardShowsStore'
    BY <1>4, <2>2 DEF SeedingFails, dash, CardInv, CardShowsStore
  <2> QED  BY <1>4, <2>1, <2>3, PassKept DEF SeedingFails, Booted, SeedInv, table
<1>5. CASE Quit
  <2>1. PassOver /\ UNCHANGED <<table, settled>> /\ boot' = "down" /\ nextDefault' = 1
        /\ card' = {} /\ writes' = {} /\ adrift' = {} /\ muddled' = FALSE /\ faults' = faults + 1
    BY <1>5 DEF Quit, Fault, Booted
  <2>0. TypeOK'
    <3>1. /\ passOn' = FALSE /\ initial' = FALSE /\ snapshot' = {} /\ wanted' = {}
          /\ fetched' = {} /\ completed' = 0 /\ found' = {}
      BY <2>1 DEF PassOver
    <3>2. UNCHANGED <<rows, active, ownLabel, tombstone, settled>>
      BY <2>1 DEF table
    <3>3. faults' \in Nat /\ completed' \in Nat
      BY <2>1, <3>1 DEF TypeOK
    <3>4. 1 \in Criteria /\ budget' \in 0..Budget /\ stage' \in [Mail -> Stages]
      BY <2>1, OverTyped
    <3> QED  BY <2>1, <3>1, <3>2, <3>3, <3>4 DEF TypeOK
  <2>2. CardInv' /\ CardShowsStore'
    BY <1>5 DEF Quit, CardInv, CardShowsStore
  <2> QED  BY <1>5, <2>0, <2>1, <2>2, OverInv DEF Quit, Booted, SeedInv, table
<1> QED  BY <1>1, <1>2, <1>3, <1>4, <1>5 DEF StartStep

-----------------------------------------------------------------------------
(* The table and the card.                                                 *)

LEMMA TableSteps ==
  ASSUME Inv, TableStep
  PROVE  Inv'
<1> USE ClassificationConstantsOK DEF Inv
<1>1. ASSUME NEW l \in Typed, AddCriterion(l)  PROVE Inv'
  <2>1. TypeOK'
    BY <1>1 DEF AddCriterion, Insert, TypeOK, start, dash, pass, Criteria, Own
  <2>2. CardInv'
    BY <1>1 DEF AddCriterion, Insert, start, dash, CardInv, Value
  <2>3. CardShowsStore'
    BY <1>1 DEF AddCriterion, Insert, dash, CardShowsStore, Value
  <2> QED  BY <1>1, <2>1, <2>2, <2>3, PassKept DEF AddCriterion, SeedInv, start
<1>2. ASSUME NEW c \in Criteria, DeleteCriterion(c)  PROVE Inv'
  <2>1. TypeOK'
    BY <1>2 DEF DeleteCriterion, TypeOK, start, dash
  <2>2. CardInv'
    BY <1>2 DEF DeleteCriterion, start, dash, CardInv, Value
  <2>3. CardShowsStore'
    BY <1>2 DEF DeleteCriterion, dash, CardShowsStore, Value
  <2>4. Done' = Done
    BY <1>2 DEF DeleteCriterion, Done
  <2> QED  BY <1>2, <2>1, <2>2, <2>3, <2>4 DEF DeleteCriterion, SeedInv, PassInv, start
<1>3. ASSUME NEW c \in Criteria, SetActive(c)  PROVE Inv'
  <2>1. TypeOK'
    BY <1>3 DEF SetActive, Store, TypeOK, start, dash, pass
  <2>0. /\ \A d : d # c => (d \in active' <=> d \in active)
        /\ UNCHANGED <<rows, boot, card, writes, adrift, muddled>>
        /\ \A w \in card \cup writes : w[1] # c
    <3>1. Flip(<<c, Value(c)>>)[1] = c
      BY DEF Flip
    <3> QED  BY <1>3, <3>1 DEF SetActive, Store, start, dash
  <2>5. \A w \in card \cup writes : Value(w[1])' = Value(w[1])
    BY <2>0 DEF Value
  <2>2. CardInv'
    BY <2>0, <2>5 DEF CardInv
  <2>3. CardShowsStore'
    BY <2>0, <2>5 DEF CardShowsStore
  <2> QED  BY <1>3, <2>1, <2>2, <2>3, PassKept DEF SetActive, SeedInv, start
<1>4. CASE Wipe
  <2>1. TypeOK'
    BY <1>4 DEF Wipe, TypeOK, dash
  <2>2. CardInv'
    BY <1>4 DEF Wipe, dash, CardInv
  <2>3. CardShowsStore'
    BY <1>4 DEF Wipe, dash, CardShowsStore
  <2>4. Done' = Done
    BY <1>4 DEF Wipe, Done
  <2> QED  BY <1>4, <2>1, <2>2, <2>3, <2>4 DEF Wipe, SeedInv, PassInv
<1> QED  BY <1>1, <1>2, <1>3, <1>4 DEF TableStep

\* A card is one toggle.
LEMMA CardOf ==
  ASSUME CardInv, card # {}
  PROVE  \E v \in card : card = {v}
BY DEF CardInv

LEMMA CardSteps ==
  ASSUME Inv, CardStep
  PROVE  Inv'
<1> USE ClassificationConstantsOK DEF Inv
<1>1. ASSUME NEW c \in Criteria, OpenCard(c)  PROVE Inv'
  <2>1. Value(c) \in {"on", "off"}
    BY DEF Value
  <2>2. TypeOK'
    BY <1>1, <2>1 DEF OpenCard, TypeOK, Toggles, table, start, pass
  <2>3. /\ card' = {<<c, Value(c)>>} /\ muddled' = (adrift # {}) /\ writes = {}
        /\ UNCHANGED <<writes, adrift, rows, active, boot>> /\ boot = "up"
    BY <1>1 DEF OpenCard, table, start, CardInv
  <2>4. \E v : v = <<c, Value(c)>> /\ v[1] = c /\ v[2] = Value(c)
    <3>1. <<c, Value(c)>>[1] = c /\ <<c, Value(c)>>[2] = Value(c)
      OBVIOUS
    <3> QED  BY <3>1, Zenon
  <2>8. PICK v : v = <<c, Value(c)>> /\ v[1] = c /\ v[2] = Value(c)
    BY <2>4, Zenon
  <2>5. card' = {v} /\ writes' = {} /\ Value(c)' = Value(c)
    BY <2>3, <2>8 DEF Value
  <2>6. CardInv'
    BY <2>3, <2>5 DEF CardInv
  <2>7. CardShowsStore'
    BY <2>8, <2>5 DEF CardShowsStore
  <2> QED  BY <1>1, <2>2, <2>6, <2>7, PassKept DEF OpenCard, SeedInv, start, table
<1>2. CASE LeaveDashboard
  <2>1. TypeOK'
    BY <1>2 DEF LeaveDashboard, TypeOK, table, start, pass
  <2>2. CardInv' /\ CardShowsStore'
    BY <1>2 DEF LeaveDashboard, CardInv, CardShowsStore
  <2> QED  BY <1>2, <2>1, <2>2, PassKept DEF LeaveDashboard, SeedInv, start, table
<1>3. CASE ClickToggle
  <2>1. PICK w \in card :
          /\ card' = {Flip(w)} /\ writes' = writes \cup {Flip(w)}
          /\ muddled' = (muddled \/ writes # {})
          /\ UNCHANGED <<table, start, adrift, pass, faults>>
    BY <1>3 DEF ClickToggle
  <2>2. Flip(w) \in Toggles /\ Flip(w)[1] = w[1] /\ Flip(w)[2] # w[2]
    BY <2>1 DEF TypeOK, Toggles, Flip
  <2>3. TypeOK'
    BY <2>1, <2>2 DEF TypeOK, table, start, pass
  <2>4. CardInv'
    <3>1. ~muddled' => ~muddled /\ writes = {} /\ writes' = card'
      BY <2>1 DEF TypeOK
    <3>2. ~muddled' /\ w[1] \in rows => w[2] = Value(w[1])
      BY <2>1, <3>1 DEF CardShowsStore
    <3>3. active' = active /\ rows' = rows /\ boot' = boot /\ adrift' = adrift
      BY <2>1 DEF table, start
    <3>4. \A v \in writes : v[1] = w[1]
      BY DEF CardInv
    <3> QED  BY <2>1, <2>2, <3>1, <3>2, <3>3, <3>4 DEF CardInv, Value
  <2>5. CardShowsStore'
    BY <2>1 DEF CardShowsStore
  <2> QED  BY <2>1, <2>3, <2>4, <2>5, PassKept DEF SeedInv, start, table
<1>4. ASSUME NEW w \in Toggles, WriteToggle(w)  PROVE Inv'
  <2>0. Flip(w) \in Toggles /\ Flip(w)[1] = w[1] /\ (Flip(w)[2] = "on" <=> w[2] # "on")
    BY DEF Toggles, Flip
  <2>1. TypeOK'
    BY <1>4, <2>0 DEF WriteToggle, Store, Fault, TypeOK, start, pass
  <2>2. card # {} /\ boot = "up" /\ \A v \in card : v[1] = w[1]
    BY <1>4 DEF WriteToggle, CardInv
  <2>3. ~muddled => writes' = {} /\ card = {w}
    BY <1>4, <2>2 DEF WriteToggle, CardInv
  <2>4. \E v : card' = {v} /\ v[1] = w[1]
    BY <1>4, <2>0, <2>2, CardOf DEF WriteToggle
  <2>5. CardInv'
    BY <1>4, <2>2, <2>3, <2>4 DEF WriteToggle, CardInv, start
  <2>6. ~muddled /\ w[1] \in rows => w[2] # Value(w[1])
    BY <1>4, <2>2 DEF WriteToggle, CardInv
  <2>7. ~muddled /\ w[1] \in rows =>
          \/ card' = {w} /\ w[2] = Value(w[1])'
          \/ card' = {Flip(w)} /\ Flip(w)[2] = Value(w[1])'
    BY <1>4, <2>0, <2>3, <2>6 DEF WriteToggle, Store, Value, Toggles
  <2>8. CardShowsStore'
    BY <1>4, <2>0, <2>4, <2>7 DEF WriteToggle, CardShowsStore
  <2> QED  BY <1>4, <2>1, <2>5, <2>8, PassKept DEF WriteToggle, SeedInv, start
<1>5. ASSUME NEW w \in Toggles, WriteAdrift(w)  PROVE Inv'
  <2>1. TypeOK'
    BY <1>5 DEF WriteAdrift, Store, TypeOK, start, pass
  <2>2. card # {} => muddled
    BY <1>5 DEF WriteAdrift, CardInv
  <2>3. CardInv' /\ CardShowsStore'
    BY <1>5, <2>2 DEF WriteAdrift, CardInv, CardShowsStore, start
  <2> QED  BY <1>5, <2>1, <2>3, PassKept DEF WriteAdrift, SeedInv, start
<1> QED  BY <1>1, <1>2, <1>3, <1>4, <1>5 DEF CardStep

-----------------------------------------------------------------------------
(* The pass.                                                               *)

\* A step that touches neither the table nor the card nor the start.
LEMMA Elsewhere ==
  ASSUME Inv, UNCHANGED <<table, start, dash>>, TypeOK', PassInv'
  PROVE  Inv'
BY DEF Inv, SeedInv, CardInv, CardShowsStore, table, start, dash, Value

LEMMA TaskSteps ==
  ASSUME Inv, NEW m \in Mail, TaskStep(m)
  PROVE  Inv' /\ (\A e \in found' \ found : e[2] \in wanted /\ e[2] \in rows)
<1> USE ClassificationConstantsOK DEF Inv
<1>0. UNCHANGED <<table, start, dash>> /\ passOn /\ stage[m] # "done"
  BY DEF TaskStep, Begin, Tier1, Tier2
<1>1. CASE Begin(m)
  <2>1. TypeOK'
    BY <1>1 DEF Begin, Become, TypeOK, Stages, table, start, dash
  <2>2. PassInv'
    BY <1>0, <1>1, SameDone DEF Begin, PassInv
  <2> QED  BY <1>0, <1>1, <2>1, <2>2, Elsewhere DEF Begin
<1>2. ASSUME UNCHANGED <<passOn, initial, snapshot, wanted, fetched, budget, faults>>,
             \/ \E name \in Criteria : \E l \in Canonical(name) : Accept(m, l)
             \/ Reject(m)
      PROVE  Inv' /\ (\A e \in found' \ found : e[2] \in wanted /\ e[2] \in rows)
  <2>1. /\ Become(m, "done") /\ completed' = completed + 1
        /\ \A e \in found' \ found : e[2] \in snapshot \cap rows
        /\ found' \subseteq found \cup {<<m, c>> : c \in snapshot \cap rows}
    BY <1>2, AcceptCounts DEF Reject
  <2>2. found' \subseteq Mail \X rows
    BY <2>1 DEF TypeOK
  <2>3. TypeOK'
    BY <1>0, <1>2, <2>1, <2>2 DEF Become, TypeOK, Stages, table, start, dash
  <2>4. PassInv'
    BY <1>0, <1>2, <2>1, OneMoreDone DEF PassInv
  <2> QED  BY <1>0, <2>1, <2>3, <2>4, Elsewhere DEF PassInv
<1>3. ASSUME ~initial, budget > 0, budget' = budget - 1, fetched' = fetched \cup {m},
             Become(m, "body"),
             UNCHANGED <<passOn, initial, snapshot, wanted, completed, found, faults>>
      PROVE  Inv'
  <2>1. TypeOK'
    BY <1>0, <1>3 DEF Become, TypeOK, Stages, table, start, dash
  <2>2. IsFiniteSet(fetched') /\ Cardinality(fetched') <= Cardinality(fetched) + 1
    <3>1. IsFiniteSet(fetched) /\ Cardinality(fetched) \in Nat
      BY FS_CardinalityType DEF PassInv
    <3> QED  BY <1>3, <3>1, FS_AddElement
  <2>3. Cardinality(fetched') + budget' <= Budget
    BY <1>3, <2>2, FS_CardinalityType DEF PassInv, TypeOK
  <2>4. PassInv'
    BY <1>0, <1>3, <2>2, <2>3, SameDone DEF PassInv
  <2> QED  BY <1>0, <2>1, <2>4, Elsewhere
<1>4. CASE Tier1(m)
  BY <1>2, <1>3, <1>4 DEF Tier1
<1>5. CASE Tier2(m)
  BY <1>2, <1>5 DEF Tier2
<1> QED  BY <1>1, <1>4, <1>5 DEF TaskStep

LEMMA PassSteps ==
  ASSUME Inv, PassStep
  PROVE  Inv' /\ (\A e \in found' \ found : e[2] \in wanted /\ e[2] \in rows)
<1> USE ClassificationConstantsOK DEF Inv
<1>1. ASSUME NEW first \in BOOLEAN, StartPass(first)  PROVE Inv' /\ found' = found
  <2>1. TypeOK'
    BY <1>1 DEF StartPass, TypeOK, table, start, dash
  <2>2. Done' = Done
    BY <1>1 DEF StartPass, Done
  <2>3. PassInv'
    BY <1>1, <2>2 DEF StartPass, PassInv
  <2> QED  BY <1>1, <2>1, <2>3, Elsewhere DEF StartPass
<1>2. CASE EndPass
  <2>1. TypeOK'
    BY <1>2, OverTyped DEF EndPass, PassOver, TypeOK, table, start, dash
  <2> QED  BY <1>2, <2>1, OverInv, Elsewhere DEF EndPass, PassOver
<1> QED  BY <1>1, <1>2, TaskSteps DEF PassStep

\* A step that changes nothing.
LEMMA Stutters ==
  ASSUME Inv, UNCHANGED vars
  PROVE  Inv'
<1>1. TypeOK'
  BY DEF Inv, TypeOK, vars, table, start, dash, pass
<1> QED  BY <1>1, PassKept, Elsewhere DEF Inv, vars

\* The inductive invariant holds throughout.
LEMMA Invariance == Spec => []Inv
<1>1. Inv /\ [Next]_vars => Inv'
  BY StartSteps, TableSteps, CardSteps, PassSteps, Stutters DEF Next
<1> QED  BY <1>1, Initial, PTL DEF Spec

-----------------------------------------------------------------------------
\* Table, flag, cards and tasks keep their types, and no finding outlives its criterion
\* (the foreign keys of classifications).
THEOREM TypeCorrect == Spec => []TypeOK
BY Invariance, PTL DEF Inv

\* However many tasks share the counter, a pass fetches no more bodies than its budget, and
\* the first pass of a mailbox none (tier2_budget in sync_page.rs).
THEOREM BudgetKeptHolds == Spec => []BudgetKept
<1>1. Inv => BudgetKept
  <2> SUFFICES ASSUME Inv PROVE BudgetKept  OBVIOUS
  <2>1. Cardinality(fetched) \in Nat
    BY FS_CardinalityType DEF Inv, PassInv
  <2> QED  BY <2>1, ClassificationConstantsOK DEF Inv, TypeOK, PassInv, BudgetKept
<1> QED  BY <1>1, Invariance, PTL

\* The guard's early return is never taken, so that the progress of a pass that has ended is
\* complete (completed_count in sync_page.rs, run_classification of both back ends).
THEOREM ProgressCompletesHolds == Spec => []ProgressCompletes
<1>1. Inv => ProgressCompletes
  <2> SUFFICES ASSUME Inv, AllAnswered PROVE completed = Mails  BY DEF ProgressCompletes
  <2>1. Done = 1..Mails
    BY DEF Inv, PassInv, AllAnswered, Done, Mail
  <2> QED  BY <2>1, FS_Interval, ClassificationConstantsOK DEF Inv, PassInv
<1> QED  BY <1>1, Invariance, PTL

\* A card shows its row unless its clicks have overlapped (CriteriaItem in dashboard.rs).
THEOREM CardShowsStoreHolds == Spec => []CardShowsStore
BY Invariance, PTL DEF Inv

\* What a pass saves belongs to rows that were active when it took its list (active_criteria
\* in sync_page.rs).
THEOREM OnlyActiveMatchedHolds == Spec => OnlyActiveMatched
<1>1. ASSUME Inv, [Next]_vars
      PROVE  [\A e \in found' \ found : e[2] \in wanted /\ e[2] \in rows]_vars
  <2>1. CASE StartStep
    BY <2>1 DEF StartStep, Start, SeedDefault, SeedingDone, SeedingFails, Quit, PassOver, pass
  <2>2. CASE TableStep
    BY <2>2 DEF TableStep, AddCriterion, DeleteCriterion, SetActive, Wipe, pass
  <2>3. CASE CardStep
    BY <2>3 DEF CardStep, OpenCard, LeaveDashboard, ClickToggle, WriteToggle, WriteAdrift, pass
  <2> QED  BY <1>1, <2>1, <2>2, <2>3, PassSteps DEF Next
<1> QED  BY <1>1, Invariance, PTL DEF Spec, OnlyActiveMatched

\* A default that has gone after a start had found or made the defaults does not come back
\* before everything is wiped (seed_default_criteria in criteria.rs, wipe_all_data).
THEOREM DeletedStaysDeletedHolds == Spec => DeletedStaysDeleted
<1>1. ASSUME Inv, [Next]_vars
      PROVE  [settled => rows' \subseteq rows \cup {Own}]_vars
  <2>1. CASE StartStep
    BY <1>1, <2>1 DEF StartStep, Start, SeedDefault, SeedingDone, SeedingFails, Quit, Inv,
                      SeedInv, table
  <2>2. CASE TableStep
    BY <2>2 DEF TableStep, AddCriterion, Insert, DeleteCriterion, SetActive, Wipe
  <2>3. CASE CardStep
    BY <2>3 DEF CardStep, OpenCard, LeaveDashboard, ClickToggle, WriteToggle, WriteAdrift, table
  <2>4. CASE PassStep
    BY <2>4 DEF PassStep, StartPass, EndPass, TaskStep, Begin, Tier1, Tier2, table
  <2> QED  BY <1>1, <2>1, <2>2, <2>3, <2>4 DEF Next
<1> QED  BY <1>1, Invariance, PTL DEF Spec, DeletedStaysDeleted
=============================================================================
