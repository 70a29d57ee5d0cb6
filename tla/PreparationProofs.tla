-------------------------- MODULE PreparationProofs --------------------------
(***************************************************************************)
(* What holds of scheduler passes beside the owner for any contacts,       *)
(* Beats, time settings, wordings and passes under way, any number of      *)
(* crashes and of the owner's actions: a pass implements the promise of    *)
(* SchedulerStep, what that promise keeps of the follow-ups, and that one  *)
(* undisturbed pass makes of any of them what the settings ask for.        *)
(***************************************************************************)
EXTENDS Preparation, FollowUpsProofs, FiniteSetTheorems, FunctionTheorems

Instants == 0..MaxClock

\* A plan as it may be, whatever has happened since: it names one row of an
\* occurrence, and a created row carries from at most one row of its occurrence.
GoodPlan(q) ==
    /\ q \in PassType
    /\ q.updates \cup {e.key : e \in q.creates} \subseteq q.desired
    /\ \A e \in q.creates : e.key \notin q.updates
    /\ \A e \in q.owned : e[2] \in Instants
    /\ \A j, k \in q.desired : Occurrence(j) = Occurrence(k) => j = k
    /\ \A e \in q.creates : /\ e.snoozed \in Instants
                            /\ \A k \in e.from : Occurrence(k) = Occurrence(e.key)
                            /\ \A j, k \in e.from : j = k
    /\ \A e, f \in q.creates : e.key = f.key => e = f
    /\ q.pc \in {"idle", "settled", "settings", "rows"} => q.updates = {} /\ q.creates = {}

\* The rows to update that nobody wrote since they were read may still be prepared.
Current(q) == \A k \in q.updates \ q.moved : CanReconcile(row[k])

Plans ==
    /\ pass \in [Passes -> PassType]
    /\ \A p \in Passes : GoodPlan(pass[p]) /\ Current(pass[p])

\* Only a row that exists has a draft, and no snooze is later than the clock can be.
RowsAndDrafts ==
    /\ \A k \in drafts \cup saving : row[k].status # "none"
    /\ \A k \in Keys : row[k].snoozed \in Instants
    /\ IsFiniteSet(drafts)

PrepInv == IInv /\ RowsAndDrafts /\ Plans /\ crashes \in Nat

-----------------------------------------------------------------------------
(* What another step leaves of a pass's plan.                              *)

\* What every other pass sees of a step is a matter of fresh and moved alone.
LEMMA NoticedFields ==
    ASSUME NEW q \in PassType
    PROVE  /\ Noticed(q) \in PassType
           /\ \A f \in {"pc", "people", "wording", "owned", "settled", "desired", "creates",
                        "updates", "stale"} : Noticed(q)[f] = q[f]
           /\ q.pc # "idle" => Noticed(q).moved = q.moved \cup (Written \cap q.updates)
<1>1. Written \subseteq Keys
  BY DEF Written
<1>2. CASE q.pc = "idle"
  BY <1>2 DEF Noticed
<1>3. CASE q.pc # "idle"
  <2>1. Noticed(q) = [q EXCEPT !.fresh = q.fresh \cup Written,
                               !.moved = q.moved \cup (Written \cap q.updates)]
    BY <1>3 DEF Noticed, PassType
  <2>2. /\ q.fresh \cup Written \in SUBSET Keys
        /\ q.moved \cup (Written \cap q.updates) \in SUBSET Keys
    BY <1>1 DEF PassType
  <2> QED
    BY <2>1, <2>2 DEF PassType
<1> QED
  BY <1>2, <1>3

LEMMA NoticedIsGood ==
    ASSUME NEW q, GoodPlan(q)
    PROVE  GoodPlan(Noticed(q))
<1> DEFINE n == Noticed(q)
<1>1. q \in PassType
  BY DEF GoodPlan
<1>2. /\ n \in PassType /\ n.pc = q.pc /\ n.owned = q.owned /\ n.desired = q.desired
      /\ n.creates = q.creates /\ n.updates = q.updates
  BY <1>1, NoticedFields
<1> HIDE DEF n
<1>3. GoodPlan(n)
  BY <1>2 DEF GoodPlan
<1> QED
  BY <1>3 DEF n

LEMMA NoticedIsCurrent ==
    ASSUME NEW q, GoodPlan(q), Current(q)
    PROVE  \A k \in Noticed(q).updates \ Noticed(q).moved : CanReconcile(row'[k])
<1>1. q \in PassType /\ (q.pc = "idle" => q.updates = {}) /\ q.updates \subseteq Keys
  BY DEF GoodPlan, PassType
<1>2. Noticed(q).updates = q.updates
  BY <1>1, NoticedFields
<1>3. CASE q.pc = "idle"
  BY <1>1, <1>2, <1>3
<1>4. CASE q.pc # "idle"
  <2>1. Noticed(q).moved = q.moved \cup (Written \cap q.updates)
    BY <1>1, <1>4, NoticedFields
  <2>2. ASSUME NEW k \in Noticed(q).updates \ Noticed(q).moved
        PROVE  k \in q.updates \ q.moved /\ row'[k] = row[k]
    BY <1>1, <1>2, <2>1 DEF Written
  <2> QED
    BY <2>2 DEF Current
<1> QED
  BY <1>3, <1>4

\* The passes are as they may be after a step of pass p that leaves it a good plan.
LEMMA PassKeepsPlans ==
    ASSUME Plans, NEW p \in Passes, NEW q, GoodPlan(q), Current(q), Pass(p, q)
    PROVE  Plans'
<1> DEFINE before(x) == IF x = p THEN q ELSE pass[x]
<1>1. ASSUME NEW x \in Passes PROVE GoodPlan(before(x)) /\ Current(before(x))
  BY DEF Plans
<1>2. pass' = [x \in Passes |-> Noticed(before(x))]
  BY DEF Pass
<1> HIDE DEF before
<1>3. ASSUME NEW x \in Passes
      PROVE  /\ pass'[x] \in PassType /\ GoodPlan(pass'[x])
             /\ \A k \in pass'[x].updates \ pass'[x].moved : CanReconcile(row'[k])
  <2>1. pass'[x] = Noticed(before(x))
    BY <1>2
  <2>2. GoodPlan(pass'[x])
    BY <1>1, <2>1, NoticedIsGood
  <2> QED
    BY <1>1, <2>1, <2>2, NoticedIsCurrent DEF GoodPlan
<1>4. pass' \in [Passes -> PassType]
  BY <1>2, <1>3
<1> QED
  BY <1>3, <1>4 DEF Plans, Current, GoodPlan

LEMMA OthersKeepPlans ==
    ASSUME Plans, pass' = [x \in Passes |-> Noticed(pass[x])]
    PROVE  Plans'
<1>1. ASSUME NEW x \in Passes
      PROVE  /\ pass'[x] \in PassType /\ GoodPlan(pass'[x])
             /\ \A k \in pass'[x].updates \ pass'[x].moved : CanReconcile(row'[k])
  <2>1. pass'[x] = Noticed(pass[x]) /\ GoodPlan(pass[x]) /\ Current(pass[x])
    BY DEF Plans
  <2>2. GoodPlan(pass'[x])
    BY <2>1, NoticedIsGood
  <2> QED
    BY <2>1, <2>2, NoticedIsCurrent DEF GoodPlan
<1>2. pass' \in [Passes -> PassType]
  BY <1>1
<1> QED
  BY <1>1, <1>2 DEF Plans, Current, GoodPlan

LEMMA IdleIsGood ==
    ASSUME NEW w \in Wordings
    PROVE  GoodPlan(Idle(w)) /\ Current(Idle(w))
<1>1. Idle(w) \in PassType
  BY DEF Idle, PassType, PassSteps
<1> QED
  BY <1>1 DEF Idle, GoodPlan, Current

-----------------------------------------------------------------------------
(* What each step of a pass leaves of its own plan.                        *)

\* A pass that only reads and plans nothing has a good plan.
LEMMA ReadingIsGood ==
    ASSUME NEW q, q \in PassType, q.creates = {}, q.updates = {},
           \A e \in q.owned : e[2] \in Instants,
           \A j, k \in q.desired : Occurrence(j) = Occurrence(k) => j = k
    PROVE  GoodPlan(q) /\ Current(q)
BY DEF GoodPlan, Current

LEMMA BeginKeepsPlans ==
    ASSUME PrepInv, NEW p \in Passes, Begin(p)
    PROVE  Plans'
<1> DEFINE people == {<<c, enrollment[c].rev>> :
                        c \in {x \in Contacts : /\ setup.mix = "ACTIVE"
                                                /\ enrollment[x].active
                                                /\ x \notin setup.archived
                                                /\ x \notin setup.stopped}}
           owned == {<<k, row[k].snoozed>> :
                        k \in {x \in Pending : row[x].snoozed # NoTime \/ x \in drafts}}
           q == [Idle(setup.wording) EXCEPT !.pc = "settled", !.people = people,
                                            !.owned = owned]
<1>1. /\ enrollment \in [Contacts -> [active : BOOLEAN, rev : Nat]]
      /\ setup.wording \in Wordings /\ row \in [Keys -> Row]
  BY DEF PrepInv, IInv, Surroundings, GoodRows
<1>2. people \in SUBSET (Contacts \X Nat)
  BY <1>1
<1>3. owned \in SUBSET (Keys \X Nat) /\ \A e \in owned : e[2] \in Instants
  BY <1>1 DEF PrepInv, RowsAndDrafts, Pending, Row
<1> HIDE DEF people, owned
<1>4. /\ q \in PassType /\ q.creates = {} /\ q.updates = {} /\ q.owned = owned
      /\ q.desired = {}
  BY <1>1, <1>2, <1>3 DEF Idle, PassType, PassSteps
<1>5. GoodPlan(q) /\ Current(q)
  BY <1>3, <1>4, ReadingIsGood
<1>6. Pass(p, q)
  BY DEF Begin, people, owned
<1> QED
  BY <1>5, <1>6, PassKeepsPlans DEF PrepInv

\* A row's occurrence is a person's Beat.
LEMMA OccurrenceType ==
    ASSUME NEW k \in Keys
    PROVE  Occurrence(k) \in Contacts \X Beats
<1>1. PICK c \in Contacts, b \in Beats, r \in Rules : k = <<c, b, At[<<b, r>>]>>
  BY DEF Keys
<1> QED
  BY <1>1 DEF Occurrence

LEMMA ReadSettledKeepsPlans ==
    ASSUME PrepInv, NEW p \in Passes, ReadSettled(p)
    PROVE  Plans'
<1> DEFINE settled == {Occurrence(k) : k \in {x \in Keys : row[x].status \in Finished}}
           q == [pass[p] EXCEPT !.pc = "settings", !.settled = settled]
<1>1. /\ pass[p] \in PassType /\ GoodPlan(pass[p]) /\ pass[p].pc = "settled"
  BY DEF PrepInv, Plans, ReadSettled
<1>2. settled \in SUBSET (Contacts \X Beats)
  BY OccurrenceType
<1> HIDE DEF settled
<1>3. /\ q \in PassType /\ q.creates = {} /\ q.updates = {} /\ q.owned = pass[p].owned
      /\ q.desired = pass[p].desired
  BY <1>1, <1>2 DEF GoodPlan, PassType, PassSteps
<1>4. /\ \A e \in q.owned : e[2] \in Instants
      /\ \A j, k \in q.desired : Occurrence(j) = Occurrence(k) => j = k
  BY <1>1, <1>3 DEF GoodPlan
<1> HIDE DEF q
<1>5. GoodPlan(q) /\ Current(q)
  BY <1>3, <1>4, ReadingIsGood
<1>6. Pass(p, q)
  BY DEF ReadSettled, settled, q
<1> QED
  BY <1>5, <1>6, PassKeepsPlans DEF PrepInv

LEMMA ReadSettingsKeepsPlans ==
    ASSUME PrepInv, NEW p \in Passes, ReadSettings(p)
    PROVE  Plans'
<1> DEFINE free == {x \in pass[p].people : x[1] \notin setup.dnc}
           desired == {<<e[1], b, At[<<b, setup.rule>>]>> : e \in free, b \in Beats}
           q == [pass[p] EXCEPT !.pc = "rows", !.wording = setup.wording, !.desired = desired]
<1>1. /\ pass[p] \in PassType /\ GoodPlan(pass[p]) /\ pass[p].pc = "settings"
      /\ setup.rule \in Rules /\ setup.wording \in Wordings
  BY DEF PrepInv, IInv, Surroundings, Plans, ReadSettings
<1>2. \A e \in pass[p].people : e[1] \in Contacts
  BY <1>1 DEF PassType
<1>3. ASSUME NEW k \in desired
      PROVE  \E c \in Contacts, b \in Beats : k = <<c, b, At[<<b, setup.rule>>]>>
  <2>1. PICK e \in free, b \in Beats : k = <<e[1], b, At[<<b, setup.rule>>]>>
    BY SMTT(40)
  <2> QED
    BY <1>2, <2>1
<1> HIDE DEF desired
<1>4. desired \in SUBSET Keys
  <2>1. ASSUME NEW k \in desired PROVE k \in Keys
    <3>1. PICK c \in Contacts, b \in Beats : k = <<c, b, At[<<b, setup.rule>>]>>
      BY <1>3
    <3> QED
      BY <1>1, <3>1 DEF Keys
  <2> QED
    BY <2>1
<1>5. ASSUME NEW j \in desired, NEW k \in desired, Occurrence(j) = Occurrence(k)
      PROVE  j = k
  <2>1. PICK c \in Contacts, b \in Beats : j = <<c, b, At[<<b, setup.rule>>]>>
    BY <1>3
  <2>2. PICK d \in Contacts, e \in Beats : k = <<d, e, At[<<e, setup.rule>>]>>
    BY <1>3
  <2> QED
    BY <1>5, <2>1, <2>2 DEF Occurrence
<1>6. /\ q \in PassType /\ q.creates = {} /\ q.updates = {} /\ q.owned = pass[p].owned
      /\ q.desired = desired
  BY <1>1, <1>4 DEF GoodPlan, PassType, PassSteps
<1>7. \A e \in q.owned : e[2] \in Instants
  BY <1>1, <1>6 DEF GoodPlan
<1>8. GoodPlan(q) /\ Current(q)
  BY <1>5, <1>6, <1>7, ReadingIsGood
<1>9. Pass(p, q)
  BY DEF ReadSettings, desired
<1> QED
  BY <1>8, <1>9, PassKeepsPlans DEF PrepInv

\* A planned row carries from at most one row of its occurrence, and a snooze of it.
LEMMA PlannedCreateIsGood ==
    ASSUME NEW q, q \in PassType, \A e \in q.owned : e[2] \in Instants,
           NEW choice \in SUBSET q.owned, CarryChoice(q.owned, choice), NEW k \in Keys
    PROVE  LET e == PlannedCreate(k, q, choice)
           IN  /\ e \in Create /\ e.key = k /\ e.snoozed \in Instants
               /\ \A j \in e.from : Occurrence(j) = Occurrence(k)
               /\ \A i, j \in e.from : i = j
<1> DEFINE carried == {e \in choice : Occurrence(e[1]) = Occurrence(k) /\ e[1] \notin q.desired}
           snoozed == IF carried = {} THEN NoTime ELSE (CHOOSE e \in carried : TRUE)[2]
           from == {e[1] : e \in carried}
<1>1. \A e \in carried : e[1] \in Keys /\ e[2] \in Instants
  BY DEF PassType
<1>2. \A e, f \in carried : e = f
  BY DEF CarryChoice
<1>3. \A e \in carried : Occurrence(e[1]) = Occurrence(k)
  OBVIOUS
<1> HIDE DEF carried
<1>4. snoozed \in Instants
  <2>1. CASE carried = {}
    BY <2>1, FollowUpsAssumption DEF Instants, NoTime
  <2>2. CASE carried # {}
    BY <1>1, <2>2
  <2> QED
    BY <2>1, <2>2
<1>5. snoozed \in Nat
  BY <1>4, FollowUpsAssumption DEF Instants
<1>6. /\ from \in SUBSET Keys /\ \A i, j \in from : i = j
      /\ \A j \in from : Occurrence(j) = Occurrence(k)
  BY <1>1, <1>2, <1>3
<1>7. PlannedCreate(k, q, choice) = [key |-> k, snoozed |-> snoozed, from |-> from]
  BY DEF PlannedCreate, carried
<1> HIDE DEF snoozed, from
<1> QED
  BY <1>4, <1>5, <1>6, <1>7 DEF Create

LEMMA ReadRowsKeepsPlans ==
    ASSUME PrepInv, NEW p \in Passes, ReadRows(p)
    PROVE  Plans'
<1>1. /\ pass[p] \in PassType /\ GoodPlan(pass[p]) /\ \A e \in pass[p].owned : e[2] \in Instants
  BY DEF PrepInv, Plans, GoodPlan
<1>2. PICK choice \in SUBSET pass[p].owned :
         /\ CarryChoice(pass[p].owned, choice)
         /\ LET q == [pass[p] EXCEPT
                        !.owned = {}, !.settled = {},
                        !.creates = {PlannedCreate(k, pass[p], choice) : k \in MissingRows(pass[p])},
                        !.updates = ChangedRows(pass[p])]
            IN  Pass(p, [q EXCEPT !.pc = AfterRead(q)])
  BY DEF ReadRows
<1> DEFINE creates == {PlannedCreate(k, pass[p], choice) : k \in MissingRows(pass[p])}
           updates == ChangedRows(pass[p])
           r == [pass[p] EXCEPT !.owned = {}, !.settled = {},
                                !.creates = creates, !.updates = updates]
           q == [r EXCEPT !.pc = AfterRead(r)]
<1>3. /\ MissingRows(pass[p]) \subseteq pass[p].desired /\ updates \subseteq pass[p].desired
      /\ pass[p].desired \subseteq Keys
      /\ \A k \in MissingRows(pass[p]) : k \notin updates
      /\ \A k \in updates : CanReconcile(row[k])
  BY <1>1 DEF MissingRows, ChangedRows, PassType, CanReconcile
<1>4. \A e \in creates : /\ e \in Create /\ e.key \in MissingRows(pass[p])
                         /\ e = PlannedCreate(e.key, pass[p], choice)
                         /\ e.snoozed \in Instants
                         /\ \A k \in e.from : Occurrence(k) = Occurrence(e.key)
                         /\ \A j, k \in e.from : j = k
  <2>1. ASSUME NEW k \in MissingRows(pass[p])
        PROVE  LET e == PlannedCreate(k, pass[p], choice)
               IN  /\ e \in Create /\ e.key = k /\ e.snoozed \in Instants
                   /\ \A j \in e.from : Occurrence(j) = Occurrence(k)
                   /\ \A i, j \in e.from : i = j
    BY <1>1, <1>2, <1>3, PlannedCreateIsGood
  <2> QED
    BY <2>1
<1> HIDE DEF creates, updates
<1>5. /\ r.creates = creates /\ r.updates = updates /\ r.owned = {}
      /\ r.desired = pass[p].desired /\ r \in PassType
  BY <1>1, <1>3, <1>4 DEF PassType
<1>6. AfterRead(r) \in {"create", "update", "stale"}
  BY DEF AfterRead
<1> HIDE DEF r
<1>7. /\ q.creates = creates /\ q.updates = updates /\ q.owned = {}
      /\ q.desired = pass[p].desired /\ q \in PassType
      /\ q.pc \in {"create", "update", "stale"}
  BY <1>5, <1>6 DEF PassType, PassSteps
<1>8. \A e, f \in creates : e.key = f.key => e = f
  BY <1>4
<1>9. Pass(p, q)
  BY <1>2 DEF r, creates, updates
<1> HIDE DEF q
<1>10. GoodPlan(q)
  BY <1>1, <1>3, <1>4, <1>7, <1>8 DEF GoodPlan
<1>11. Current(q)
  BY <1>3, <1>7 DEF Current
<1> QED
  BY <1>9, <1>10, <1>11, PassKeepsPlans DEF PrepInv

LEMMA CreateKeepsPlans ==
    ASSUME PrepInv, NEW p \in Passes, CreateRows(p)
    PROVE  Plans'
<1> DEFINE q == [pass[p] EXCEPT !.creates = {},
                                !.pc = IF pass[p].updates # {} THEN "update" ELSE "stale"]
<1>1. pass[p] \in PassType /\ GoodPlan(pass[p]) /\ Current(pass[p])
  BY DEF PrepInv, Plans
<1>2. /\ q \in PassType /\ q.creates = {} /\ q.updates = pass[p].updates
      /\ q.moved = pass[p].moved /\ q.owned = pass[p].owned /\ q.desired = pass[p].desired
      /\ q.pc \in {"update", "stale"}
  BY <1>1 DEF PassType, PassSteps
<1>3. Pass(p, q)
  BY DEF CreateRows
<1> HIDE DEF q
<1>4. GoodPlan(q) /\ Current(q)
  BY <1>1, <1>2 DEF GoodPlan, Current
<1> QED
  BY <1>3, <1>4, PassKeepsPlans DEF PrepInv

LEMMA UpdateKeepsPlans ==
    ASSUME PrepInv, NEW p \in Passes, UpdateRows(p)
    PROVE  Plans'
<1> DEFINE q == [pass[p] EXCEPT !.updates = {}, !.moved = {}, !.people = {}, !.pc = "stale"]
<1>1. pass[p] \in PassType /\ GoodPlan(pass[p])
  BY DEF PrepInv, Plans
<1>2. /\ q \in PassType /\ q.creates = pass[p].creates /\ q.updates = {}
      /\ q.owned = pass[p].owned /\ q.desired = pass[p].desired /\ q.pc = "stale"
  BY <1>1 DEF PassType, PassSteps
<1>3. Pass(p, q)
  BY DEF UpdateRows
<1> HIDE DEF q
<1>4. GoodPlan(q) /\ Current(q)
  BY <1>1, <1>2 DEF GoodPlan, Current
<1> QED
  BY <1>3, <1>4, PassKeepsPlans DEF PrepInv

LEMMA ReadStaleKeepsPlans ==
    ASSUME PrepInv, NEW p \in Passes, ReadStale(p)
    PROVE  Plans'
<1> DEFINE q == [Idle(setup.wording) EXCEPT !.pc = "cancel", !.stale = StaleRows(pass[p])]
<1>1. setup.wording \in Wordings
  BY DEF PrepInv, IInv, Surroundings
<1>2. StaleRows(pass[p]) \subseteq Keys
  BY DEF StaleRows, Pending
<1>3. /\ q \in PassType /\ q.creates = {} /\ q.updates = {} /\ q.owned = {} /\ q.desired = {}
  BY <1>1, <1>2 DEF Idle, PassType, PassSteps
<1>4. GoodPlan(q) /\ Current(q)
  BY <1>3, ReadingIsGood
<1>5. Pass(p, q) \/ Pass(p, Idle(setup.wording))
  BY DEF ReadStale
<1> QED
  BY <1>1, <1>4, <1>5, IdleIsGood, PassKeepsPlans DEF PrepInv

LEMMA CancelKeepsPlans ==
    ASSUME PrepInv, NEW p \in Passes, CancelStale(p)
    PROVE  Plans'
<1>1. setup.wording \in Wordings
  BY DEF PrepInv, IInv, Surroundings
<1> QED
  BY <1>1, IdleIsGood, PassKeepsPlans DEF CancelStale, PrepInv

LEMMA CrashKeepsPlans ==
    ASSUME PrepInv, NEW p \in Passes, Crash(p)
    PROVE  Plans'
<1> DEFINE q == Idle(setup.wording)
<1>1. GoodPlan(q) /\ Current(q) /\ q \in PassType
  BY IdleIsGood DEF PrepInv, IInv, Surroundings, GoodPlan
<1>2. pass' = [pass EXCEPT ![p] = q] /\ row' = row
  BY DEF Crash, vars
<1> HIDE DEF q
<1>3. pass' \in [Passes -> PassType]
  BY <1>1, <1>2 DEF PrepInv, Plans
<1>4. ASSUME NEW x \in Passes
      PROVE  GoodPlan(pass'[x]) /\ \A k \in pass'[x].updates \ pass'[x].moved : CanReconcile(row'[k])
  <2>1. pass'[x] = IF x = p THEN q ELSE pass[x]
    BY <1>2 DEF PrepInv, Plans
  <2> QED
    BY <1>1, <1>2, <2>1 DEF PrepInv, Plans, Current
<1> QED
  BY <1>3, <1>4 DEF Plans, Current, GoodPlan

-----------------------------------------------------------------------------
(* Each write of a pass is one that a scheduler pass promises.             *)

\* Moving elements one to one out of a finite set and into it keeps its size.
LEMMA MovingKeepsCardinality ==
    ASSUME NEW S, IsFiniteSet(S), NEW F \in SUBSET S, NEW K, K \cap S = {},
           ExistsBijection(F, K)
    PROVE  /\ IsFiniteSet((S \ F) \cup K)
           /\ Cardinality((S \ F) \cup K) = Cardinality(S)
<1>1. IsFiniteSet(F) /\ IsFiniteSet(S \ F)
  BY FS_Subset, S \ F \in SUBSET S
<1>2. IsFiniteSet(K) /\ Cardinality(K) = Cardinality(F)
  BY <1>1, FS_Bijection
<1>3. (S \ F) \cup F = S /\ (S \ F) \cap F = {} /\ (S \ F) \cap K = {}
  OBVIOUS
<1>4. Cardinality({}) = 0
  BY FS_EmptySet
<1>5. Cardinality(S) = Cardinality(S \ F) + Cardinality(F) - 0
  BY <1>1, <1>3, <1>4, FS_Union
<1>6. /\ IsFiniteSet((S \ F) \cup K)
      /\ Cardinality((S \ F) \cup K) = Cardinality(S \ F) + Cardinality(K) - 0
  BY <1>1, <1>2, <1>3, <1>4, FS_Union
<1> QED
  BY <1>2, <1>5, <1>6

\* What creating rows does to the drafts: each draft carried leaves a pending row for
\* the new row of its occurrence, and no two drafts meet there.
LEMMA CreatingMovesDrafts ==
    ASSUME PrepInv, NEW p \in Passes, CreateRows(p)
    PROVE  /\ drafts' \subseteq Keys
           /\ IsFiniteSet(drafts')
           /\ Cardinality(drafts') = Cardinality(drafts)
           /\ \A k \in drafts' \ drafts : \E e \in pass[p].creates :
                 e.key = k /\ Allowed(pass[p], e.key)
           /\ \A k \in drafts \ drafts' :
                 /\ row'[k].status = "PENDING"
                 /\ \E j \in drafts' \ drafts : Occurrence(j) = Occurrence(k)
<1> DEFINE q == pass[p]
           landing == {e \in q.creates : Allowed(q, e.key)}
           C == Carries(landing)
           F == UNION {e.from : e \in C}
           K == {e.key : e \in C}
           source(x) == CHOOSE e \in C : x \in e.from
           f == [x \in F |-> source(x).key]
<1>1. /\ q \in PassType /\ GoodPlan(q) /\ drafts \subseteq Keys /\ IsFiniteSet(drafts)
  BY DEF PrepInv, Plans, IInv, Surroundings, RowsAndDrafts
<1>2. drafts' = (drafts \ F) \cup K
  BY DEF CreateRows
<1>3. \A e \in C : /\ e \in q.creates /\ Allowed(q, e.key)
                   /\ e.from # {} /\ e.from \subseteq drafts /\ e.key \notin drafts
                   /\ \A k \in e.from : row'[k].status = "PENDING"
  BY DEF Carries
<1>4. \A e \in C : /\ e.key \in q.desired
                   /\ \A k \in e.from : Occurrence(k) = Occurrence(e.key)
                   /\ \A j, k \in e.from : j = k
  BY <1>1, <1>3 DEF GoodPlan
<1>5. \A e, g \in C : Occurrence(e.key) = Occurrence(g.key) => e = g
  <2>1. ASSUME NEW e \in C, NEW g \in C, Occurrence(e.key) = Occurrence(g.key) PROVE e = g
    <3>1. e.key = g.key
      BY <1>1, <1>4, <2>1 DEF GoodPlan
    <3> QED
      BY <1>1, <1>3, <3>1 DEF GoodPlan
  <2> QED
    BY <2>1
<1> HIDE DEF C
<1>6. K \subseteq Keys
  <2>1. q.desired \subseteq Keys
    BY <1>1 DEF PassType
  <2> QED
    BY <1>4, <2>1
<1>7. F \in SUBSET drafts /\ K \cap drafts = {}
  BY <1>3
<1>8. \A x \in F : source(x) \in C /\ x \in source(x).from
  OBVIOUS
<1>9. \A x \in F, e \in C : x \in e.from => source(x) = e
  BY <1>4, <1>5, <1>8
<1> HIDE DEF F, K, source
<1>10. f \in [F -> K]
  <2>1. \A x \in F : source(x).key \in K
    BY <1>8 DEF K
  <2> QED
    BY <2>1
<1>11. \A x, y \in F : f[x] = f[y] => x = y
  <2>1. ASSUME NEW x \in F, NEW y \in F, f[x] = f[y] PROVE x = y
    <3>1. source(x) = source(y)
      BY <1>5, <1>8, <2>1
    <3> QED
      BY <1>4, <1>8, <3>1
  <2> QED
    BY <2>1
<1>12. \A k \in K : \E x \in F : f[x] = k
  <2>1. ASSUME NEW k \in K PROVE \E x \in F : f[x] = k
    <3>1. PICK e \in C : e.key = k
      BY DEF K
    <3>2. PICK x \in e.from : TRUE
      BY <1>3
    <3>3. x \in F
      BY DEF F
    <3> QED
      BY <1>9, <3>1, <3>2, <3>3
  <2> QED
    BY <2>1
<1> HIDE DEF f
<1>13. f \in Bijection(F, K)
  BY <1>10, <1>11, <1>12, Fun_IsBij
<1>14. ExistsBijection(F, K)
  BY <1>13 DEF ExistsBijection
<1>15. IsFiniteSet(drafts') /\ Cardinality(drafts') = Cardinality(drafts)
  BY <1>1, <1>2, <1>7, <1>14, MovingKeepsCardinality
<1>16. ASSUME NEW k \in drafts \ drafts'
       PROVE  /\ row'[k].status = "PENDING"
              /\ \E j \in drafts' \ drafts : Occurrence(j) = Occurrence(k)
  <2>1. k \in F
    BY <1>2
  <2>2. source(k) \in C /\ k \in source(k).from
    BY <1>8, <2>1
  <2>3. source(k).key \in K
    BY <2>2 DEF K
  <2> QED
    BY <1>2, <1>3, <1>4, <1>7, <2>2, <2>3
<1>17. ASSUME NEW k \in drafts' \ drafts
       PROVE  \E e \in q.creates : e.key = k /\ Allowed(q, e.key)
  <2>1. PICK e \in C : e.key = k
    BY <1>2 DEF K
  <2> QED
    BY <1>3, <2>1
<1> QED
  BY <1>1, <1>2, <1>6, <1>15, <1>16, <1>17

LEMMA CreateIsScheduled ==
    ASSUME PrepInv, NEW p \in Passes, CreateRows(p),
           UNCHANGED <<saving, setup, enrollment, clock, edits>>
    PROVE  SchedulerStep /\ RowsAndDrafts'
<1> DEFINE q == pass[p]
           landing == {e \in q.creates : Allowed(q, e.key)}
           Lands(k) == \E e \in landing : e.key = k
           create(k) == CHOOSE e \in landing : e.key = k
<1>1. /\ q \in PassType /\ GoodPlan(q) /\ drafts \subseteq Keys /\ saving \subseteq Keys
  BY DEF PrepInv, Plans, IInv, Surroundings
<1>2. row' = [k \in Keys |-> IF row[k].status = "none" /\ Lands(k)
                            THEN NewRow(k, create(k).snoozed, q.wording) ELSE row[k]]
  BY DEF CreateRows
<1>3. \A k \in Keys : Lands(k) => create(k) \in q.creates
  OBVIOUS
<1>4. \A k \in Keys : Lands(k) => create(k).snoozed \in Instants
  BY <1>1, <1>3 DEF GoodPlan
<1>5. q.wording \in Wordings
  BY <1>1 DEF PassType
<1>6. \A e \in q.creates : e.key \in Keys /\ (Allowed(q, e.key) => Lands(e.key))
  BY <1>1 DEF PassType, Create
<1> HIDE DEF q, Lands, create
<1>7. ASSUME NEW k \in Keys
      PROVE  \/ row'[k] = row[k] /\ (row[k].status = "none" => ~Lands(k))
             \/ /\ row[k].status = "none"
                /\ \E s \in Instants : row'[k] = NewRow(k, s, q.wording)
  BY <1>2, <1>4
<1>8. ASSUME NEW k \in Keys PROVE row'[k] = row[k] \/ row'[k] \in ScheduledRows(k)
  BY <1>5, <1>7 DEF ScheduledRows, Instants
<1>9. \A k \in Keys : \A s \in Instants :
         NewRow(k, s, q.wording).status = "PENDING" /\ NewRow(k, s, q.wording).snoozed = s
  BY DEF NewRow
<1>10. /\ drafts' \subseteq Keys /\ IsFiniteSet(drafts')
       /\ Cardinality(drafts') = Cardinality(drafts)
       /\ \A k \in drafts' \ drafts : \E e \in q.creates : e.key = k /\ Allowed(q, e.key)
       /\ \A k \in drafts \ drafts' :
             /\ row'[k].status = "PENDING"
             /\ \E j \in drafts' \ drafts : Occurrence(j) = Occurrence(k)
  BY CreatingMovesDrafts DEF q
<1>11. \A k \in drafts \cup saving : row[k].status # "none" /\ row'[k] = row[k]
  BY <1>1, <1>7 DEF PrepInv, RowsAndDrafts
<1>12. DraftsOnlyMove
  BY <1>10, <1>11 DEF DraftsOnlyMove
<1>13. \A k \in drafts' : row'[k].status # "none"
  <2>1. ASSUME NEW k \in drafts' \ drafts PROVE row'[k].status # "none"
    <3>1. k \in Keys /\ Lands(k)
      BY <1>6, <1>10
    <3> QED
      BY <1>7, <1>9, <3>1
  <2> QED
    BY <1>11, <2>1
<1>14. \A k \in Keys : row'[k].snoozed \in Instants
  BY <1>7, <1>9 DEF PrepInv, RowsAndDrafts
<1>15. RowsAndDrafts'
  BY <1>10, <1>11, <1>13, <1>14 DEF RowsAndDrafts
<1>16. row' = [k \in Keys |-> row'[k]]
  BY <1>2
<1> QED
  BY <1>8, <1>12, <1>15, <1>16 DEF SchedulerStep

LEMMA UpdateIsScheduled ==
    ASSUME PrepInv, NEW p \in Passes, UpdateRows(p),
           UNCHANGED <<saving, setup, enrollment, clock, edits>>
    PROVE  SchedulerStep /\ RowsAndDrafts'
<1> DEFINE q == pass[p]
           Lands(k) == k \in q.updates /\ Allowed(q, k) /\ Unmoved(q, k)
<1>1. /\ q \in PassType /\ Current(q) /\ row \in [Keys -> Row]
  BY DEF PrepInv, Plans, IInv, GoodRows
<1>2. row' = [k \in Keys |-> IF Lands(k) THEN Prepared(k, row[k], q.wording) ELSE row[k]]
      /\ drafts' = drafts
  BY DEF UpdateRows
<1>3. \A k \in Keys : Lands(k) => CanReconcile(row[k])
  BY <1>1 DEF Current, Unmoved
<1>4. q.wording \in Wordings
  BY <1>1 DEF PassType
<1> HIDE DEF q, Lands
<1>5. ASSUME NEW k \in Keys PROVE row'[k] = row[k] \/ row'[k] \in ScheduledRows(k)
  <2>1. CASE Lands(k)
    <3>1. row'[k] = Prepared(k, row[k], q.wording)
      BY <1>2, <2>1
    <3>2. row[k].status \in {"PENDING", "CANCELED"}
      BY <1>3, <2>1 DEF CanReconcile
    <3>3. Prepared(k, row[k], q.wording) \in ScheduledRows(k)
      BY <1>3, <1>4, <2>1, <3>2 DEF ScheduledRows
    <3> QED
      BY <3>1, <3>3
  <2>2. CASE ~Lands(k)
    BY <1>2, <2>2
  <2> QED
    BY <2>1, <2>2
<1>6. ASSUME NEW k \in Keys
      PROVE  /\ row'[k].snoozed = row[k].snoozed
             /\ row[k].status # "none" => row'[k].status # "none"
  BY <1>1, <1>2 DEF Prepared, Row
<1>7. DraftsOnlyMove
  BY <1>2 DEF DraftsOnlyMove, PrepInv, IInv, Surroundings
<1>8. RowsAndDrafts'
  <2>1. drafts \subseteq Keys /\ saving \subseteq Keys
    BY DEF PrepInv, IInv, Surroundings
  <2> QED
    BY <1>2, <1>6, <2>1 DEF PrepInv, RowsAndDrafts
<1>9. row' = [k \in Keys |-> row'[k]]
  BY <1>2
<1> QED
  BY <1>5, <1>7, <1>8, <1>9 DEF SchedulerStep

\* Canceling keeps that a row exists, and its snooze.
LEMMA CancelKeepsRowsAndDrafts ==
    ASSUME IInv, RowsAndDrafts, NEW S, NEW how, Cancel(S, how), UNCHANGED <<drafts, saving>>
    PROVE  RowsAndDrafts'
<1>1. ASSUME NEW k \in Keys
      PROVE  /\ row'[k].snoozed = row[k].snoozed
             /\ row[k].status # "none" => row'[k].status # "none"
  BY DEF Cancel, IInv, GoodRows, Row
<1> QED
  BY <1>1 DEF RowsAndDrafts, IInv, Surroundings

LEMMA CancelIsScheduled ==
    ASSUME PrepInv, NEW p \in Passes, CancelStale(p),
           UNCHANGED <<saving, setup, enrollment, clock, edits>>
    PROVE  SchedulerStep /\ RowsAndDrafts'
<1> DEFINE S == pass[p].stale \cap Pending
<1>1. Cancel(S, "reconciled") /\ drafts' = drafts
  BY DEF CancelStale
<1>2. S \subseteq Pending
  OBVIOUS
<1> HIDE DEF S
<1>3. RowsAndDrafts'
  BY <1>1, CancelKeepsRowsAndDrafts DEF PrepInv
<1>4. ASSUME NEW k \in Keys PROVE row'[k] = row[k] \/ row'[k] \in ScheduledRows(k)
  <2>1. CASE k \in S
    <3>1. /\ row'[k] = [row[k] EXCEPT !.status = "CANCELED", !.method = "reconciled"]
          /\ row[k].status = "PENDING"
      BY <1>1, <1>2, <2>1 DEF Cancel, Pending
    <3> QED
      BY <3>1 DEF ScheduledRows
  <2>2. CASE k \notin S
    BY <1>1, <2>2 DEF Cancel
  <2> QED
    BY <2>1, <2>2
<1>5. row' = [k \in Keys |-> row'[k]]
  BY <1>1 DEF Cancel
<1>6. DraftsOnlyMove
  BY <1>1 DEF DraftsOnlyMove, PrepInv, IInv, Surroundings
<1> QED
  BY <1>3, <1>4, <1>5, <1>6 DEF SchedulerStep

-----------------------------------------------------------------------------
(* The owner beside the passes.                                            *)

\* No action of the owner makes a row disappear or snoozes it past the clock's bound,
\* and a draft is begun for a pending row.
LEMMA OwnerKeepsRowsAndDrafts ==
    ASSUME IInv, RowsAndDrafts, OwnerAction
    PROVE  RowsAndDrafts'
<1>1. /\ row \in [Keys -> Row] /\ drafts \subseteq Keys /\ saving \subseteq Keys
      /\ \A k \in Keys : Coherent(row[k])
  BY DEF IInv, GoodRows, GoodRow, Surroundings
<1>2. ASSUME NEW how, NEW S, Cancel(S, how), UNCHANGED <<drafts, saving>> PROVE RowsAndDrafts'
  BY <1>2, CancelKeepsRowsAndDrafts
<1>3. ASSUME UNCHANGED <<row, drafts, saving>> PROVE RowsAndDrafts'
  BY <1>3 DEF RowsAndDrafts
<1>4. ASSUME UNCHANGED <<drafts, saving>>,
             \A k \in Keys : /\ row'[k].snoozed \in Instants
                             /\ row[k].status # "none" => row'[k].status # "none"
      PROVE  RowsAndDrafts'
  <2>1. drafts' = drafts /\ saving' = saving
    BY <1>4
  <2>2. \A k \in drafts' \cup saving' : k \in Keys /\ row[k].status # "none"
    BY <1>1, <2>1 DEF RowsAndDrafts
  <2>3. \A k \in drafts' \cup saving' : row'[k].status # "none"
    BY <1>4, <2>2
  <2> QED
    BY <1>4, <2>1, <2>3 DEF RowsAndDrafts
<1>5. ASSUME NEW k \in Keys, Complete(k) PROVE RowsAndDrafts'
  BY <1>1, <1>4, <1>5 DEF Complete, RowsAndDrafts, Row, Finished
<1>6. ASSUME NEW k \in Keys, Reopen(k) PROVE RowsAndDrafts'
  BY <1>1, <1>4, <1>6 DEF Reopen, RowsAndDrafts, Row
<1>7. ASSUME NEW k \in Keys, NEW t \in 1..MaxClock, Snooze(k, t) PROVE RowsAndDrafts'
  <2>1. t \in Instants
    BY DEF Instants
  <2> QED
    BY <1>1, <1>4, <1>7, <2>1 DEF Snooze, RowsAndDrafts, Row
<1>8. ASSUME NEW k \in Keys, BeginDraft(k) PROVE RowsAndDrafts'
  BY <1>1, <1>8 DEF BeginDraft, RowsAndDrafts
<1>9. ASSUME NEW k \in Keys, DiscardDraft(k) PROVE RowsAndDrafts'
  <2>1. IsFiniteSet(drafts \ {k})
    BY FS_RemoveElement DEF RowsAndDrafts
  <2> QED
    BY <1>9, <2>1 DEF DiscardDraft, RowsAndDrafts
<1>10. ASSUME NEW c \in Contacts,
              StopMix(c) \/ ArchiveContact(c) \/ SetDoNotContact(c) \/ RemoveEnrollment(c)
       PROVE  RowsAndDrafts'
  <2>1. /\ UNCHANGED <<drafts, saving>>
        /\ \/ Cancel(PendingOf(c), "mix_stopped_for_contact")
           \/ Cancel(PendingOf(c), "contact_archived")
           \/ Cancel(PendingOf(c), "do_not_contact")
           \/ Cancel(PendingOf(c), "reconciled")
    BY <1>10 DEF StopMix, ArchiveContact, SetDoNotContact, RemoveEnrollment
  <2> QED
    BY <1>2, <2>1
<1>11. ASSUME NEW c \in Contacts, ResumeMix(c) PROVE RowsAndDrafts'
  <2>1. UNCHANGED <<drafts, saving>>
    BY <1>11 DEF ResumeMix
  <2>2. ASSUME NEW k \in Keys
        PROVE  row'[k].snoozed = row[k].snoozed /\ row'[k].status = row[k].status
    BY <1>1, <1>11 DEF ResumeMix, Row
  <2>3. \A k \in Keys : /\ row'[k].snoozed \in Instants
                        /\ row[k].status # "none" => row'[k].status # "none"
    BY <2>2 DEF RowsAndDrafts
  <2> QED
    BY <1>4, <2>1, <2>3
<1>12. ASSUME NEW c \in Contacts, RestoreContact(c) \/ ClearDoNotContact(c) \/ StartEnrollment(c)
       PROVE  RowsAndDrafts'
  BY <1>3, <1>12 DEF RestoreContact, ClearDoNotContact, StartEnrollment
<1>13. CASE PauseMix \/ ArchiveMix
  BY <1>2, <1>13 DEF PauseMix, ArchiveMix
<1>14. CASE ActivateMix
  BY <1>3, <1>14 DEF ActivateMix
<1>15. ASSUME NEW r \in Rules, ChangeTimes(r) PROVE RowsAndDrafts'
  BY <1>3, <1>15 DEF ChangeTimes
<1>16. ASSUME NEW w \in Wordings, ChangeWording(w) PROVE RowsAndDrafts'
  BY <1>3, <1>16 DEF ChangeWording
<1> QED
  BY <1>5, <1>6, <1>7, <1>8, <1>9, <1>10, <1>11, <1>12, <1>13, <1>14, <1>15, <1>16
     DEF OwnerAction

\* The insert of a draft being saved adds one draft, of a row that exists.
LEMMA FinishSaveKeepsRowsAndDrafts ==
    ASSUME IInv, RowsAndDrafts, FinishSave
    PROVE  RowsAndDrafts'
<1>1. PICK k \in Keys : InsertDraft(k)
  BY DEF FinishSave
<1>2. IsFiniteSet(drafts \cup {k})
  BY FS_AddElement DEF RowsAndDrafts
<1> QED
  BY <1>1, <1>2 DEF InsertDraft, RowsAndDrafts

-----------------------------------------------------------------------------
(* Every step of a pass is a step of the follow-ups, and keeps PrepInv.    *)

LEMMA PassStepImplements ==
    ASSUME PrepInv, NEW p \in Passes, PassStep(p)
    PROVE  (SchedulerStep \/ UNCHANGED vars) /\ RowsAndDrafts' /\ Plans' /\ crashes' = crashes
<1>1. UNCHANGED <<saving, setup, enrollment, clock, edits>> /\ crashes' = crashes
  BY DEF PassStep
<1>2. ASSUME ReadOnly PROVE UNCHANGED vars /\ RowsAndDrafts'
  BY <1>1, <1>2 DEF ReadOnly, vars, PrepInv, RowsAndDrafts
<1>3. CASE Begin(p)
  <2>1. ReadOnly
    BY <1>3 DEF Begin
  <2>2. Plans'
    BY <1>3, BeginKeepsPlans
  <2> QED
    BY <1>1, <1>2, <2>1, <2>2
<1>4. CASE ReadSettled(p)
  <2>1. ReadOnly
    BY <1>4 DEF ReadSettled
  <2>2. Plans'
    BY <1>4, ReadSettledKeepsPlans
  <2> QED
    BY <1>1, <1>2, <2>1, <2>2
<1>5. CASE ReadSettings(p)
  <2>1. ReadOnly
    BY <1>5 DEF ReadSettings
  <2>2. Plans'
    BY <1>5, ReadSettingsKeepsPlans
  <2> QED
    BY <1>1, <1>2, <2>1, <2>2
<1>6. CASE ReadRows(p)
  <2>1. ReadOnly
    BY <1>6 DEF ReadRows
  <2>2. Plans'
    BY <1>6, ReadRowsKeepsPlans
  <2> QED
    BY <1>1, <1>2, <2>1, <2>2
<1>7. CASE CreateRows(p)
  BY <1>1, <1>7, CreateIsScheduled, CreateKeepsPlans
<1>8. CASE UpdateRows(p)
  BY <1>1, <1>8, UpdateIsScheduled, UpdateKeepsPlans
<1>9. CASE ReadStale(p)
  <2>1. ReadOnly
    BY <1>9 DEF ReadStale
  <2>2. Plans'
    BY <1>9, ReadStaleKeepsPlans
  <2> QED
    BY <1>1, <1>2, <2>1, <2>2
<1>10. CASE CancelStale(p)
  BY <1>1, <1>10, CancelIsScheduled, CancelKeepsPlans
<1> QED
  BY <1>3, <1>4, <1>5, <1>6, <1>7, <1>8, <1>9, <1>10 DEF PassStep

LEMMA PrepInitEstablishes == PrepInit => PrepInv
<1> SUFFICES ASSUME PrepInit PROVE PrepInv
  OBVIOUS
<1>1. IInv
  BY InitEstablishes DEF PrepInit
<1>2. GoodPlan(Idle(setup.wording)) /\ Current(Idle(setup.wording))
      /\ Idle(setup.wording) \in PassType
  BY <1>1, IdleIsGood DEF IInv, Surroundings, GoodPlan
<1>3. Plans /\ crashes \in Nat
  BY <1>2 DEF PrepInit, Plans
<1>4. RowsAndDrafts
  <2>1. row = [k \in Keys |-> NoRow(setup.wording)] /\ drafts = {} /\ saving = {}
    BY DEF PrepInit, Init
  <2>2. NoRow(setup.wording).snoozed \in Instants
    BY FollowUpsAssumption DEF NoRow, NoTime, Instants
  <2> QED
    BY <2>1, <2>2, FS_EmptySet DEF RowsAndDrafts
<1> QED
  BY <1>1, <1>3, <1>4 DEF PrepInv

LEMMA PrepStepPreserves ==
    ASSUME PrepInv, [PrepNext]_prepVars
    PROVE  PrepInv' /\ [Next]_vars
<1>1. IInv /\ RowsAndDrafts /\ Plans /\ crashes \in Nat
  BY DEF PrepInv
<1>2. ASSUME [Next]_vars, RowsAndDrafts', Plans', crashes' \in Nat PROVE PrepInv' /\ [Next]_vars
  BY <1>1, <1>2, StepPreserves DEF PrepInv
<1>3. CASE OthersStep
  <2>1. /\ (OwnerStep \/ FinishSave \/ Tick) /\ crashes' \in Nat
        /\ pass' = [x \in Passes |-> Noticed(pass[x])]
    BY <1>1, <1>3 DEF OthersStep
  <2>2. RowsAndDrafts'
    <3>1. CASE OwnerStep
      BY <1>1, <3>1, OwnerKeepsRowsAndDrafts DEF OwnerStep
    <3>2. CASE FinishSave
      BY <1>1, <3>2, FinishSaveKeepsRowsAndDrafts
    <3>3. CASE Tick
      BY <1>1, <3>3 DEF Tick, RowsAndDrafts
    <3> QED
      BY <1>3, <3>1, <3>2, <3>3 DEF OthersStep
  <2>3. Plans'
    BY <1>1, <1>3, OthersKeepPlans DEF OthersStep
  <2>4. Next
    BY <1>3 DEF OthersStep, Next
  <2>5. crashes' \in Nat
    BY <1>1, <1>3 DEF OthersStep
  <2> QED
    BY <1>2, <2>2, <2>3, <2>4, <2>5
<1>4. ASSUME NEW p \in Passes, PassStep(p) PROVE PrepInv' /\ [Next]_vars
  BY <1>1, <1>2, <1>4, PassStepImplements DEF Next
<1>5. ASSUME NEW p \in Passes, Crash(p) PROVE PrepInv' /\ [Next]_vars
  <2>1. UNCHANGED vars /\ crashes' = crashes + 1
    BY <1>5 DEF Crash
  <2>2. Plans'
    BY <1>5, CrashKeepsPlans
  <2>3. RowsAndDrafts'
    BY <1>1, <2>1 DEF vars, RowsAndDrafts
  <2> QED
    BY <1>1, <1>2, <2>1, <2>2, <2>3
<1>6. CASE UNCHANGED prepVars
  <2>1. UNCHANGED vars /\ UNCHANGED <<row, drafts, saving, pass, crashes>>
    BY <1>6 DEF prepVars, vars
  <2>2. RowsAndDrafts' /\ Plans'
    BY <1>1, <2>1 DEF RowsAndDrafts, Plans, Current, GoodPlan
  <2> QED
    BY <1>1, <1>2, <2>1, <2>2
<1> QED
  BY <1>3, <1>4, <1>5, <1>6 DEF PrepNext

LEMMA PrepInvHolds == PrepSpec => []PrepInv
BY PrepInitEstablishes, PrepStepPreserves, PTL DEF PrepSpec

-----------------------------------------------------------------------------
(* What follows of the passes.                                             *)

\* A plan of any pass stays within the rows that the pass wants and names each once,
\* whatever is written between its reads and its writes.
THEOREM PassTypesHold == PrepSpec => []PassTypeOK
<1>1. PrepInv => PassTypeOK
  BY DEF PrepInv, Plans, GoodPlan, PassTypeOK
<1> QED
  BY <1>1, PrepInvHolds, PTL

\* reconcileJumps keeps the promise that the rest of the system relies on: however
\* passes, crashes and the owner interleave, each write makes of a row only what
\* SchedulerStep allows, and drafts move and are never lost.
THEOREM PassesImplementFollowUps == PrepSpec => FollowUpsSpec
<1>1. PrepInit => Init
  BY DEF PrepInit
<1>2. PrepInv /\ [PrepNext]_prepVars => [Next]_vars
  BY PrepStepPreserves
<1> QED
  BY <1>1, <1>2, PrepInvHolds, PTL DEF PrepSpec, FollowUpsSpec

\* Passes honour the owner's snooze and keep the rows' types.
THEOREM PassesHonourSnoozes == PrepSpec => [](TypeOK /\ SnoozeHolds)
BY PassesImplementFollowUps, FollowUpsTypeCorrect, SnoozeIsHonoured, PTL

-----------------------------------------------------------------------------
(* What no step brings back.                                               *)

\* No owner's action takes back a canceled row, or changes one that a stop canceled
\* while the stop stands.
LEMMA OwnerTakesNothingBack ==
    ASSUME IInv, OwnerAction, NEW k \in Keys, row[k].status \notin {"PENDING"} \cup Finished
    PROVE  /\ row'[k].status # "PENDING"
           /\ /\ row[k].method = "mix_stopped_for_contact"
              /\ Person(k) \in setup'.stopped
              => row'[k] = row[k]
<1>1. /\ row \in [Keys -> Row] /\ row[k].status # "PENDING" /\ row[k].status \notin Finished
      /\ setup \in [mix : {"ACTIVE", "PAUSED", "ARCHIVED"}, stopped : SUBSET Contacts,
                    archived : SUBSET Contacts, dnc : SUBSET Contacts,
                    rule : Rules, wording : Wordings]
  BY DEF IInv, GoodRows, Surroundings
<1>2. ASSUME UNCHANGED row PROVE row'[k] = row[k]
  BY <1>2
<1>3. ASSUME NEW S \in SUBSET Pending, NEW how, Cancel(S, how) PROVE row'[k] = row[k]
  BY <1>1, <1>3 DEF Cancel, Pending
<1>4. ASSUME NEW j \in Keys, Complete(j) \/ Reopen(j) PROVE row'[k] = row[k]
  BY <1>1, <1>4 DEF Complete, Reopen
<1>5. ASSUME NEW j \in Keys, BeginDraft(j) \/ DiscardDraft(j) PROVE row'[k] = row[k]
  BY <1>5 DEF BeginDraft, DiscardDraft
<1>6. ASSUME NEW j \in Keys, NEW t \in 1..MaxClock, Snooze(j, t) PROVE row'[k] = row[k]
  BY <1>1, <1>6 DEF Snooze
<1>7. ASSUME NEW c \in Contacts,
             StopMix(c) \/ ArchiveContact(c) \/ SetDoNotContact(c) \/ RemoveEnrollment(c)
      PROVE  row'[k] = row[k]
  <2>1. \/ Cancel(PendingOf(c), "mix_stopped_for_contact")
        \/ Cancel(PendingOf(c), "contact_archived")
        \/ Cancel(PendingOf(c), "do_not_contact")
        \/ Cancel(PendingOf(c), "reconciled")
    BY <1>7 DEF StopMix, ArchiveContact, SetDoNotContact, RemoveEnrollment
  <2> QED
    BY <1>3, <2>1, PendingOfPersonIsPending
<1>8. ASSUME NEW c \in Contacts, ResumeMix(c)
      PROVE  /\ row'[k].status # "PENDING"
             /\ /\ row[k].method = "mix_stopped_for_contact"
                /\ Person(k) \in setup'.stopped
                => row'[k] = row[k]
  <2>1. CASE Person(k) = c
    <3>1. c \notin setup'.stopped
      BY <1>1, <1>8 DEF ResumeMix
    <3> DEFINE manual == row[k].manualOnly \/ row[k].at <= clock
               r == [row[k] EXCEPT !.method = "reconciled", !.manualOnly = manual]
    <3>2. r.status = row[k].status
      BY <1>1 DEF Row
    <3>3. row'[k] = row[k] \/ row'[k] = r
      BY <1>8 DEF ResumeMix
    <3> HIDE DEF r
    <3>4. row'[k].status = row[k].status
      BY <3>2, <3>3
    <3> QED
      BY <1>1, <2>1, <3>1, <3>4
  <2>2. CASE Person(k) # c
    BY <1>1, <1>8, <2>2 DEF ResumeMix
  <2> QED
    BY <2>1, <2>2
<1>9. ASSUME NEW c \in Contacts, RestoreContact(c) \/ ClearDoNotContact(c) \/ StartEnrollment(c)
      PROVE  row'[k] = row[k]
  BY <1>9 DEF RestoreContact, ClearDoNotContact, StartEnrollment
<1>10. CASE PauseMix \/ ArchiveMix
  <2>1. {j \in Pending : row[j].at >= clock} \subseteq Pending
    OBVIOUS
  <2>2. row'[k] = row[k]
    BY <1>3, <1>10, <2>1 DEF PauseMix, ArchiveMix
  <2> QED
    BY <1>1, <2>2
<1>11. CASE ActivateMix
  BY <1>1, <1>11 DEF ActivateMix
<1>12. ASSUME NEW r \in Rules, ChangeTimes(r) PROVE row'[k] = row[k]
  BY <1>12 DEF ChangeTimes
<1>13. ASSUME NEW w \in Wordings, ChangeWording(w) PROVE row'[k] = row[k]
  BY <1>13 DEF ChangeWording
<1> QED
  BY <1>1, <1>4, <1>5, <1>6, <1>7, <1>8, <1>9, <1>10, <1>11, <1>12, <1>13 DEF OwnerAction

\* A pass makes a row pending only of someone enrolled, and only if it does not exist
\* or its cancellation may be taken back.
LEMMA PassTakesBackOnlyWhatItMay ==
    ASSUME PrepInv, NEW p \in Passes, PassStep(p), NEW k \in Keys
    PROVE  /\ setup' = setup
           /\ row[k].status # "PENDING" /\ row'[k] # row[k] =>
                 /\ enrollment[Person(k)].active
                 /\ row[k].status = "none" \/ CanReconcile(row[k])
<1>1. setup' = setup
  BY DEF PassStep
<1>2. ASSUME ReadOnly PROVE row'[k] = row[k]
  BY <1>2 DEF ReadOnly
<1>3. ASSUME CreateRows(p), row'[k] # row[k]
      PROVE  row[k].status = "none" /\ enrollment[Person(k)].active
  BY <1>3 DEF CreateRows, Allowed
<1>4. ASSUME UpdateRows(p), row'[k] # row[k]
      PROVE  CanReconcile(row[k]) /\ enrollment[Person(k)].active
  BY <1>4 DEF UpdateRows, Allowed, Unmoved, PrepInv, Plans, Current
<1>5. ASSUME CancelStale(p), row'[k] # row[k] PROVE row[k].status = "PENDING"
  BY <1>5 DEF CancelStale, Cancel, Pending
<1>6. ASSUME Begin(p) \/ ReadSettled(p) \/ ReadSettings(p) \/ ReadRows(p) \/ ReadStale(p)
      PROVE  row'[k] = row[k]
  <2>1. CASE Begin(p)
    BY <1>2, <2>1 DEF Begin
  <2>2. CASE ReadSettled(p)
    BY <1>2, <2>2 DEF ReadSettled
  <2>3. CASE ReadSettings(p)
    BY <1>2, <2>3 DEF ReadSettings
  <2>4. CASE ReadRows(p)
    BY <1>2, <2>4 DEF ReadRows
  <2>5. CASE ReadStale(p)
    BY <1>2, <2>5 DEF ReadStale
  <2> QED
    BY <1>6, <2>1, <2>2, <2>3, <2>4, <2>5
<1> QED
  BY <1>1, <1>3, <1>4, <1>5, <1>6 DEF PassStep

LEMMA NothingIsTakenBack ==
    ASSUME PrepInv, [PrepNext]_prepVars, NEW k \in Keys
    PROVE  /\ /\ ~enrollment[Person(k)].active
              /\ row[k].status \notin {"PENDING"} \cup Finished
              => row'[k].status # "PENDING"
           /\ /\ row[k].method = "mix_stopped_for_contact"
              /\ Person(k) \in setup'.stopped
              => row'[k] = row[k]
<1>1. IInv /\ row \in [Keys -> Row] /\ Coherent(row[k])
  BY DEF PrepInv, IInv, GoodRows, GoodRow
<1>2. row[k].method = "mix_stopped_for_contact" =>
        row[k].status = "CANCELED" /\ ~CanReconcile(row[k])
  BY <1>1 DEF Coherent, CanReconcile, ReconcilableMethods, Finished, Row, Statuses
<1>3. row[k].status = "CANCELED" => row[k].status \notin {"PENDING"} \cup Finished
  BY DEF Finished
<1>4. ASSUME UNCHANGED row PROVE row'[k] = row[k]
  BY <1>4
<1>5. CASE OthersStep
  <2>1. CASE OwnerStep
    BY <1>1, <1>2, <1>3, <2>1, OwnerTakesNothingBack DEF OwnerStep
  <2>2. CASE FinishSave
    BY <1>4, <2>2 DEF FinishSave, InsertDraft
  <2>3. CASE Tick
    BY <1>4, <2>3 DEF Tick
  <2> QED
    BY <1>5, <2>1, <2>2, <2>3 DEF OthersStep
<1>6. ASSUME NEW p \in Passes, PassStep(p)
      PROVE  row[k].status # "PENDING" /\ row'[k] # row[k] =>
                 /\ enrollment[Person(k)].active
                 /\ row[k].status = "none" \/ CanReconcile(row[k])
  BY <1>6, PassTakesBackOnlyWhatItMay
<1>7. ASSUME NEW p \in Passes, Crash(p) PROVE row'[k] = row[k]
  BY <1>4, <1>7 DEF Crash, vars
<1>8. CASE UNCHANGED prepVars
  BY <1>4, <1>8 DEF prepVars
<1> QED
  BY <1>2, <1>3, <1>5, <1>6, <1>7, <1>8 DEF PrepNext

\* A run that ended stays ended for every pass, also one that read it as active: the
\* locked recheck of the enrollment, and not the read, decides.
THEOREM EndedRunsAreNotPrepared == PrepSpec => EndedRunsStayEnded
<1>1. PrepInv /\ [PrepNext]_prepVars =>
        [\A k \in Keys :
            /\ ~enrollment[Person(k)].active
            /\ row[k].status \notin {"PENDING"} \cup Finished
            => row'[k].status # "PENDING"]_prepVars
  BY NothingIsTakenBack
<1> QED
  BY <1>1, PrepInvHolds, PTL DEF PrepSpec, EndedRunsStayEnded

\* What a stop canceled is left alone until the owner resumes, also by a pass that
\* read the person before the stop.
THEOREM StopsHoldAgainstPasses == PrepSpec => StopHolds
<1>1. PrepInv /\ [PrepNext]_prepVars =>
        [\A k \in Keys :
            /\ row[k].method = "mix_stopped_for_contact"
            /\ Person(k) \in setup'.stopped
            => row'[k] = row[k]]_prepVars
  BY NothingIsTakenBack
<1> QED
  BY <1>1, PrepInvHolds, PTL DEF PrepSpec, StopHolds

\* However passes and the owner interleave, a wanted follow-up that is canceled is one
\* that the next pass may take back.
THEOREM PassesStrandNothing == PrepSpec => []NothingIsStranded
BY PassesImplementFollowUps, NoFollowUpIsStranded, PTL

-----------------------------------------------------------------------------
(* What a pass achieves when nothing disturbs it.                          *)

\* Steps of p, and steps that write no row and change no enrollment and no setting:
\* the clock, drafts, and other passes while they read.  A crash of p is not one.
Undisturbed(p) == PassStep(p) \/ UNCHANGED <<row, setup, enrollment, pass[p]>>

Ends(p) == pass[p].pc # "idle" /\ pass'[p].pc = "idle"

\* What Begin and ReadSettled read.
Enrolled ==
    {<<c, enrollment[c].rev>> :
        c \in {x \in Contacts : /\ setup.mix = "ACTIVE"
                                /\ enrollment[x].active
                                /\ x \notin setup.archived
                                /\ x \notin setup.stopped}}

SettledNow == {Occurrence(k) : k \in {x \in Keys : row[x].status \in Finished}}

\* What is wanted and missing is about to be created, what is old to be updated.
WantedIsPlanned(q) ==
    \A k \in Wanted :
       /\ row[k].status = "none" => FinishedOccurrence(k) \/ \E e \in q.creates : e.key = k
       /\ CanReconcile(row[k]) => k \in q.updates \/ row[k] = Prepared(k, row[k], q.wording)

WantedIsReady ==
    \A k \in Wanted :
       /\ row[k].status = "none" => FinishedOccurrence(k)
       /\ CanReconcile(row[k]) => row[k].status = "PENDING" /\ row[k].wording = setup.wording

\* A pass that is not disturbed knows at each step what is so, and of its own writes
\* what is left to do.
UpToDate(q) ==
    /\ q.pc \notin {"idle", "cancel"} =>
          q.wording = setup.wording /\ q.moved = {}
    /\ q.pc \in {"settled", "settings", "rows", "create", "update"} => q.people = Enrolled
    /\ q.pc \in {"settled", "settings", "rows"} => q.fresh = {}
    /\ q.pc \in {"settings", "rows"} => q.settled = SettledNow
    /\ q.pc \in {"rows", "create", "update", "stale"} => q.desired = Wanted
    /\ q.pc \in {"create", "update", "stale"} => q.fresh \subseteq Wanted /\ WantedIsPlanned(q)
    /\ q.pc \in {"update", "stale", "cancel"} => q.creates = {}
    /\ q.pc \in {"stale", "cancel"} => q.updates = {}
    /\ q.pc = "cancel" => WantedIsReady /\ q.stale = Pending \ Wanted

\* A pass's own step leaves it as the step says, but for what it notices of its writes.
LEMMA OwnStep ==
    ASSUME NEW p \in Passes, NEW q, Pass(p, q)
    PROVE  pass'[p] = Noticed(q)
BY DEF Pass

LEMMA ReadingNoticesNothing ==
    ASSUME NEW q \in PassType, row' = row
    PROVE  Noticed(q) = q
<1>1. Written = {}
  BY DEF Written
<1>2. [q EXCEPT !.fresh = q.fresh, !.moved = q.moved] = q
  BY DEF PassType
<1> QED
  BY <1>1, <1>2 DEF Noticed, PassType

LEMMA NoticedFresh ==
    ASSUME NEW q \in PassType, q.pc # "idle"
    PROVE  Noticed(q).fresh = q.fresh \cup Written
BY DEF Noticed, PassType

\* What nobody changes is read the same.
LEMMA SameReads ==
    ASSUME UNCHANGED <<setup, enrollment>>
    PROVE  /\ Enrolled' = Enrolled
           /\ Wanted' = Wanted
           /\ row' = row => SettledNow' = SettledNow /\ Pending' = Pending
BY DEF Enrolled, Wanted, SettledNow, Pending

\* A finished occurrence stays finished while its finished row does.
LEMMA StaysFinished ==
    ASSUME \A j \in Keys : row[j].status \in Finished => row'[j] = row[j],
           NEW k, FinishedOccurrence(k)
    PROVE  FinishedOccurrence(k)'
BY DEF FinishedOccurrence

\* Whoever is wanted passes the locked recheck of an undisturbed pass.
LEMMA WantedIsAllowed ==
    ASSUME NEW q, q.people = Enrolled, NEW k \in Wanted
    PROVE  Allowed(q, k)
<1>1. PICK c \in Contacts, b \in Beats :
         /\ k = <<c, b, At[<<b, setup.rule>>]>>
         /\ setup.mix = "ACTIVE" /\ enrollment[c].active
         /\ c \notin setup.stopped /\ c \notin setup.archived
  BY DEF Wanted
<1>2. Person(k) = c
  BY <1>1 DEF Person
<1> QED
  BY <1>1, <1>2 DEF Allowed, Enrolled

\* What is wanted, and what a pass desires, spelled out.
LEMMA WantedMembers ==
    ASSUME NEW k
    PROVE  k \in Wanted <=>
             \E c \in Contacts, b \in Beats :
                /\ k = <<c, b, At[<<b, setup.rule>>]>>
                /\ setup.mix = "ACTIVE" /\ enrollment[c].active
                /\ c \notin setup.stopped /\ c \notin setup.archived /\ c \notin setup.dnc
<1> DEFINE Asked == {x \in Contacts : /\ setup.mix = "ACTIVE"
                                      /\ enrollment[x].active
                                      /\ x \notin setup.stopped
                                      /\ x \notin setup.archived
                                      /\ x \notin setup.dnc}
<1>1. Wanted = {<<c, b, At[<<b, setup.rule>>]>> : c \in Asked, b \in Beats}
  BY DEF Wanted
<1>2. \A c : c \in Asked <=> /\ c \in Contacts
                             /\ setup.mix = "ACTIVE" /\ enrollment[c].active
                             /\ c \notin setup.stopped /\ c \notin setup.archived
                             /\ c \notin setup.dnc
  OBVIOUS
<1> HIDE DEF Asked
<1>3. k \in Wanted <=> \E c \in Asked, b \in Beats : k = <<c, b, At[<<b, setup.rule>>]>>
  BY <1>1
<1> QED
  BY <1>2, <1>3

LEMMA DesiredMembers ==
    ASSUME NEW free, NEW k
    PROVE  k \in {<<e[1], b, At[<<b, setup.rule>>]>> : e \in free, b \in Beats}
           <=> \E e \in free, b \in Beats : k = <<e[1], b, At[<<b, setup.rule>>]>>
OBVIOUS

LEMMA EnrolledMembers ==
    ASSUME NEW e
    PROVE  e \in Enrolled <=>
             \E c \in Contacts :
                /\ e = <<c, enrollment[c].rev>>
                /\ setup.mix = "ACTIVE" /\ enrollment[c].active
                /\ c \notin setup.stopped /\ c \notin setup.archived
BY DEF Enrolled

\* What the settings read late and the people read early ask for is what is wanted.
LEMMA DesiredIsWanted ==
    ASSUME NEW free, \A e : e \in free <=> e \in Enrolled /\ e[1] \notin setup.dnc,
           NEW desired,
           \A k : k \in desired <=>
                    \E e \in free, b \in Beats : k = <<e[1], b, At[<<b, setup.rule>>]>>
    PROVE  desired = Wanted
<1>1. ASSUME NEW k \in desired PROVE k \in Wanted
  <2>1. PICK e \in free, b \in Beats : k = <<e[1], b, At[<<b, setup.rule>>]>>
    OBVIOUS
  <2>2. PICK c \in Contacts :
           /\ e = <<c, enrollment[c].rev>>
           /\ setup.mix = "ACTIVE" /\ enrollment[c].active
           /\ c \notin setup.stopped /\ c \notin setup.archived
    BY EnrolledMembers
  <2> QED
    BY <2>1, <2>2, WantedMembers
<1>2. ASSUME NEW k \in Wanted PROVE k \in desired
  <2>1. PICK c \in Contacts, b \in Beats :
           /\ k = <<c, b, At[<<b, setup.rule>>]>>
           /\ setup.mix = "ACTIVE" /\ enrollment[c].active
           /\ c \notin setup.stopped /\ c \notin setup.archived /\ c \notin setup.dnc
    BY WantedMembers
  <2> DEFINE e == <<c, enrollment[c].rev>>
  <2>2. e \in Enrolled
    BY <2>1, EnrolledMembers
  <2>3. e[1] = c
    OBVIOUS
  <2> QED
    BY <2>1, <2>2, <2>3
<1> QED
  BY <1>1, <1>2

\* A prepared row is as preparing it again would leave it.
LEMMA PreparedAgain ==
    ASSUME NEW k \in Keys, NEW r \in Row, NEW w \in Wordings
    PROVE  /\ Prepared(k, r, w) = Prepared(k, Prepared(k, r, w), w)
           /\ Prepared(k, r, w).status = "PENDING"
           /\ Prepared(k, r, w).wording = w
<1>1. Later(Base(k), r.snoozed) \in Nat
  BY KeyParts, LaterIsNat DEF Row
<1> QED
  BY <1>1 DEF Prepared, Row

LEMMA NewRowIsPrepared ==
    ASSUME NEW k \in Keys, NEW s \in Nat, NEW w \in Wordings
    PROVE  /\ NewRow(k, s, w) = Prepared(k, NewRow(k, s, w), w)
           /\ NewRow(k, s, w).status = "PENDING"
<1> DEFINE r == NewRow(k, s, w)
<1>1. /\ r.status = "PENDING" /\ r.method = "" /\ r.wording = w
      /\ r.at = Later(Base(k), s) /\ r.snoozed = s
      /\ r = [r EXCEPT !.status = r.status, !.method = r.method, !.wording = r.wording,
                       !.at = r.at]
  BY DEF NewRow
<1> HIDE DEF r
<1>2. r = Prepared(k, r, w)
  BY <1>1 DEF Prepared
<1> QED
  BY <1>1, <1>2 DEF r

\* Once what is wanted is ready and nothing else is pending, the rows have converged:
\* nothing that is wanted is stranded.
LEMMA ReadyMeansConverged ==
    PrepInv /\ NothingIsStranded /\ WantedIsReady /\ Pending \subseteq Wanted => Converged
<1> SUFFICES ASSUME PrepInv, NothingIsStranded, WantedIsReady, Pending \subseteq Wanted
             PROVE  Converged
  OBVIOUS
<1>1. setup.rule \in Rules /\ row \in [Keys -> Row]
  BY DEF PrepInv, IInv, Surroundings, GoodRows
<1>2. ASSUME NEW k \in Wanted
      PROVE  \/ row[k].status \in {"PENDING"} \cup Finished
             \/ row[k].status = "none" /\ FinishedOccurrence(k)
  <2>1. row[k].status \in Statuses
    BY <1>1, WantedIsKey DEF Row
  <2>2. row[k].status # "CANCELED"
    BY DEF WantedIsReady, NothingIsStranded
  <2> QED
    BY <2>1, <2>2 DEF WantedIsReady, Statuses, Finished
<1>3. ASSUME NEW k \in Pending PROVE k \in Wanted /\ row[k].wording = setup.wording
  BY DEF WantedIsReady, CanReconcile, Pending
<1> QED
  BY <1>2, <1>3 DEF Converged

-----------------------------------------------------------------------------
(* The steps of an undisturbed pass, one by one.                           *)

\* What every step of a pass may rely on.
LEMMA PassIsTyped ==
    ASSUME PrepInv, NEW p \in Passes
    PROVE  /\ pass[p] \in PassType /\ GoodPlan(pass[p]) /\ pass[p].desired \subseteq Keys
           /\ row \in [Keys -> Row] /\ setup.wording \in Wordings /\ setup.rule \in Rules
BY DEF PrepInv, Plans, IInv, Surroundings, GoodRows, PassType

LEMMA BeginIsUpToDate ==
    ASSUME PrepInv, NEW p \in Passes, Begin(p), UNCHANGED <<setup, enrollment>>
    PROVE  UpToDate(pass[p])' /\ pass'[p].pc = "settled"
<1> DEFINE owned == {<<k, row[k].snoozed>> :
                        k \in {x \in Pending : row[x].snoozed # NoTime \/ x \in drafts}}
           q == [Idle(setup.wording) EXCEPT !.pc = "settled", !.people = Enrolled,
                                            !.owned = owned]
<1>1. row' = row /\ Pass(p, q)
  BY DEF Begin, ReadOnly, Enrolled
<1>2. setup.wording \in Wordings /\ enrollment \in [Contacts -> [active : BOOLEAN, rev : Nat]]
      /\ row \in [Keys -> Row]
  BY DEF PrepInv, IInv, Surroundings, GoodRows
<1>3. Enrolled \in SUBSET (Contacts \X Nat)
  BY <1>2 DEF Enrolled
<1>4. owned \in SUBSET (Keys \X Nat)
  BY <1>2 DEF Pending, Row
<1> HIDE DEF owned
<1>5. /\ q \in PassType /\ q.pc = "settled" /\ q.wording = setup.wording /\ q.moved = {}
      /\ q.fresh = {} /\ q.people = Enrolled
  BY <1>2, <1>3, <1>4 DEF Idle, PassType, PassSteps
<1> HIDE DEF q
<1>6. pass'[p] = q
  BY <1>1, <1>5, OwnStep, ReadingNoticesNothing
<1> QED
  BY <1>1, <1>5, <1>6, SameReads DEF UpToDate

LEMMA ReadSettledIsUpToDate ==
    ASSUME PrepInv, NEW p \in Passes, ReadSettled(p), UpToDate(pass[p]),
           UNCHANGED <<setup, enrollment>>
    PROVE  UpToDate(pass[p])' /\ pass'[p].pc = "settings"
<1> DEFINE q == [pass[p] EXCEPT !.pc = "settings", !.settled = SettledNow]
<1>1. row' = row /\ Pass(p, q)
  BY DEF ReadSettled, ReadOnly, SettledNow
<1>2. pass[p] \in PassType /\ SettledNow \in SUBSET (Contacts \X Beats)
  BY PassIsTyped, OccurrenceType DEF SettledNow
<1>3. /\ q \in PassType /\ q.pc = "settings" /\ q.wording = pass[p].wording
      /\ q.moved = pass[p].moved /\ q.fresh = pass[p].fresh /\ q.desired = pass[p].desired
      /\ q.people = pass[p].people /\ q.settled = SettledNow
  BY <1>2 DEF PassType, PassSteps
<1> HIDE DEF q
<1>4. pass'[p] = q
  BY <1>1, <1>3, OwnStep, ReadingNoticesNothing
<1>5. pass[p].pc = "settled"
  BY DEF ReadSettled
<1> QED
  BY <1>1, <1>3, <1>4, <1>5, SameReads DEF UpToDate

LEMMA ReadSettingsIsUpToDate ==
    ASSUME PrepInv, NEW p \in Passes, ReadSettings(p), UpToDate(pass[p]),
           UNCHANGED <<setup, enrollment>>
    PROVE  UpToDate(pass[p])' /\ pass'[p].pc = "rows"
<1> DEFINE free == {x \in pass[p].people : x[1] \notin setup.dnc}
           desired == {<<e[1], b, At[<<b, setup.rule>>]>> : e \in free, b \in Beats}
           q == [pass[p] EXCEPT !.pc = "rows", !.wording = setup.wording, !.desired = desired]
<1>1. pass[p].pc = "settings" /\ pass[p].people = Enrolled
  BY DEF ReadSettings, UpToDate
<1>2. row' = row /\ Pass(p, q)
  BY DEF ReadSettings, ReadOnly
<1>3. \A e : e \in free <=> e \in Enrolled /\ e[1] \notin setup.dnc
  BY <1>1
<1> HIDE DEF free
<1>4. ASSUME NEW k
      PROVE  k \in desired <=>
               \E e \in free, b \in Beats : k = <<e[1], b, At[<<b, setup.rule>>]>>
  BY DesiredMembers
<1> HIDE DEF desired
<1>5. desired = Wanted
  BY <1>4, <1>3, DesiredIsWanted
<1>6. pass[p] \in PassType /\ desired \in SUBSET Keys /\ setup.wording \in Wordings
  BY <1>5, PassIsTyped, WantedIsKey DEF PrepInv, IInv, Surroundings
<1>7. /\ q \in PassType /\ q.pc = "rows" /\ q.wording = setup.wording
      /\ q.moved = pass[p].moved /\ q.fresh = pass[p].fresh /\ q.desired = desired
      /\ q.people = pass[p].people /\ q.settled = pass[p].settled
  BY <1>6 DEF PassType, PassSteps
<1>8. pass[p].fresh = {}
  BY <1>1 DEF UpToDate
<1> HIDE DEF q
<1>9. pass'[p] = q
  BY <1>2, <1>7, OwnStep, ReadingNoticesNothing
<1> QED
  BY <1>1, <1>2, <1>5, <1>7, <1>8, <1>9, SameReads DEF UpToDate

LEMMA ReadRowsIsUpToDate ==
    ASSUME PrepInv, NEW p \in Passes, ReadRows(p), UpToDate(pass[p]),
           UNCHANGED <<setup, enrollment>>
    PROVE  /\ UpToDate(pass[p])' /\ pass'[p].pc \in {"create", "update", "stale"}
           /\ MissingRows(pass[p]) = {} => pass'[p].creates = {}
           /\ pass'[p].updates = ChangedRows(pass[p])
<1>1. PICK choice \in SUBSET pass[p].owned :
         /\ CarryChoice(pass[p].owned, choice)
         /\ LET q == [pass[p] EXCEPT
                        !.owned = {}, !.settled = {},
                        !.creates = {PlannedCreate(k, pass[p], choice) : k \in MissingRows(pass[p])},
                        !.updates = ChangedRows(pass[p])]
            IN  Pass(p, [q EXCEPT !.pc = AfterRead(q)])
  BY DEF ReadRows
<1> DEFINE creates == {PlannedCreate(k, pass[p], choice) : k \in MissingRows(pass[p])}
           updates == ChangedRows(pass[p])
           r == [pass[p] EXCEPT !.owned = {}, !.settled = {},
                                !.creates = creates, !.updates = updates]
           q == [r EXCEPT !.pc = AfterRead(r)]
<1>2. row' = row /\ pass[p].pc = "rows" /\ Pass(p, q)
  BY <1>1 DEF ReadRows, ReadOnly
<1>3. /\ pass[p].desired = Wanted /\ pass[p].wording = setup.wording /\ pass[p].moved = {}
      /\ pass[p].fresh = {} /\ pass[p].people = Enrolled /\ pass[p].settled = SettledNow
  BY <1>2 DEF UpToDate
<1>4. /\ pass[p] \in PassType /\ Wanted \subseteq Keys
      /\ \A e \in pass[p].owned : e[2] \in Instants
  BY PassIsTyped, WantedIsKey DEF GoodPlan
<1>5. ASSUME NEW k \in MissingRows(pass[p])
      PROVE  PlannedCreate(k, pass[p], choice) \in Create
             /\ PlannedCreate(k, pass[p], choice).key = k
  <2>1. k \in Keys
    BY <1>3, <1>4 DEF MissingRows
  <2>2. LET e == PlannedCreate(k, pass[p], choice)
        IN  /\ e \in Create /\ e.key = k /\ e.snoozed \in Instants
            /\ \A j \in e.from : Occurrence(j) = Occurrence(k)
            /\ \A i, j \in e.from : i = j
    BY <1>1, <1>4, <2>1, PlannedCreateIsGood
  <2> QED
    BY <2>2
<1>6. creates \in SUBSET Create /\ updates \in SUBSET Keys
  BY <1>3, <1>4, <1>5 DEF ChangedRows
<1>7. /\ \A k \in MissingRows(pass[p]) : \E e \in creates : e.key = k
      /\ MissingRows(pass[p]) = {} => creates = {}
      /\ updates = ChangedRows(pass[p])
  BY <1>5
<1>8. ASSUME NEW k \in Wanted
      PROVE  /\ row[k].status = "none" => FinishedOccurrence(k) \/ \E e \in creates : e.key = k
             /\ CanReconcile(row[k]) =>
                   k \in updates \/ row[k] = Prepared(k, row[k], setup.wording)
  <2>1. row[k].status = "none" /\ Occurrence(k) \notin SettledNow => k \in MissingRows(pass[p])
    BY <1>3 DEF MissingRows
  <2>2. Occurrence(k) \in SettledNow => FinishedOccurrence(k)
    BY DEF SettledNow, FinishedOccurrence
  <2>3. CanReconcile(row[k]) => k \in updates \/ row[k] = Prepared(k, row[k], setup.wording)
    BY <1>3 DEF ChangedRows
  <2> QED
    BY <1>7, <2>1, <2>2, <2>3
<1> HIDE DEF creates, updates
<1>9. /\ r \in PassType /\ r.creates = creates /\ r.updates = updates
      /\ r.wording = pass[p].wording /\ r.moved = pass[p].moved /\ r.fresh = pass[p].fresh
      /\ r.people = pass[p].people /\ r.desired = pass[p].desired
  BY <1>4, <1>6 DEF PassType
<1> HIDE DEF r
<1>10. /\ AfterRead(r) \in {"create", "update", "stale"}
       /\ AfterRead(r) \in {"update", "stale"} => creates = {}
       /\ AfterRead(r) = "stale" => updates = {}
  BY <1>9 DEF AfterRead
<1>11. /\ q \in PassType /\ q.creates = creates /\ q.updates = updates /\ q.pc = AfterRead(r)
       /\ q.wording = setup.wording /\ q.moved = {} /\ q.fresh = {}
       /\ q.people = Enrolled /\ q.desired = Wanted
  BY <1>3, <1>9, <1>10 DEF PassType, PassSteps
<1> HIDE DEF q
<1>12. pass'[p] = q
  BY <1>2, <1>11, OwnStep, ReadingNoticesNothing
<1>13. Wanted' = Wanted /\ Enrolled' = Enrolled /\ setup' = setup
  BY SameReads
<1>14. WantedIsPlanned(pass[p])'
  <2> SUFFICES ASSUME NEW k \in Wanted
               PROVE  /\ row'[k].status = "none" =>
                            FinishedOccurrence(k)' \/ \E e \in q.creates : e.key = k
                      /\ CanReconcile(row'[k]) =>
                            k \in q.updates \/ row'[k] = Prepared(k, row'[k], q.wording)
    BY <1>12, <1>13 DEF WantedIsPlanned
  <2>1. FinishedOccurrence(k) => FinishedOccurrence(k)'
    BY <1>2, StaysFinished
  <2> QED
    BY <1>2, <1>8, <1>11, <2>1
<1> QED
  BY <1>7, <1>10, <1>11, <1>12, <1>13, <1>14 DEF UpToDate

\* A created row is up to date, and creating leaves the plan of what else is wanted.
LEMMA CreateIsUpToDate ==
    ASSUME PrepInv, NEW p \in Passes, CreateRows(p), UpToDate(pass[p]),
           UNCHANGED <<setup, enrollment>>
    PROVE  /\ UpToDate(pass[p])' /\ pass'[p].pc \in {"update", "stale"}
           /\ pass'[p].creates = {} /\ pass'[p].updates = pass[p].updates
<1> DEFINE q == pass[p]
           landing == {e \in q.creates : Allowed(q, e.key)}
           Lands(k) == \E e \in landing : e.key = k
           create(k) == CHOOSE e \in landing : e.key = k
           n == [q EXCEPT !.creates = {}, !.pc = IF q.updates # {} THEN "update" ELSE "stale"]
<1>1. /\ row' = [k \in Keys |-> IF row[k].status = "none" /\ Lands(k)
                               THEN NewRow(k, create(k).snoozed, q.wording) ELSE row[k]]
      /\ Pass(p, n) /\ q.pc = "create"
  BY DEF CreateRows
<1>2. /\ q \in PassType /\ GoodPlan(q) /\ setup.wording \in Wordings /\ Wanted \subseteq Keys
      /\ row \in [Keys -> Row]
  BY PassIsTyped, WantedIsKey
<1>3. /\ q.desired = Wanted /\ q.wording = setup.wording /\ q.moved = {}
      /\ q.fresh \subseteq Wanted /\ q.people = Enrolled /\ WantedIsPlanned(q)
  BY <1>1 DEF UpToDate
<1>4. \A e \in q.creates : e.key \in Wanted /\ e.key \notin q.updates
  BY <1>2, <1>3 DEF GoodPlan
<1>5. \A e \in q.creates : Lands(e.key)
  BY <1>3, <1>4, WantedIsAllowed
<1>6. \A k : Lands(k) => k \in Wanted /\ k \notin q.updates /\ create(k) \in q.creates
  BY <1>4
<1>7. \A k : Lands(k) => create(k).snoozed \in Nat
  BY <1>2, <1>6, FollowUpsAssumption DEF GoodPlan, Instants
<1>8. /\ n \in PassType /\ n.creates = {} /\ n.updates = q.updates /\ n.wording = q.wording
      /\ n.moved = q.moved /\ n.fresh = q.fresh /\ n.people = q.people /\ n.desired = q.desired
      /\ n.pc = IF q.updates # {} THEN "update" ELSE "stale"
  BY <1>2 DEF PassType, PassSteps
<1>9. \A k : (\E e \in q.creates : e.key = k) => Lands(k)
  BY <1>5
<1> HIDE DEF q, n, Lands, create
<1>10. ASSUME NEW k \in Keys
       PROVE  \/ row'[k] = row[k] /\ (row[k].status = "none" => ~Lands(k))
              \/ /\ row[k].status = "none" /\ Lands(k)
                 /\ row'[k] = Prepared(k, row'[k], setup.wording)
                 /\ row'[k].status = "PENDING"
  <2>1. CASE row[k].status = "none" /\ Lands(k)
    BY <1>1, <1>2, <1>3, <1>7, <2>1, NewRowIsPrepared
  <2>2. CASE ~(row[k].status = "none" /\ Lands(k))
    BY <1>1, <2>2
  <2> QED
    BY <2>1, <2>2
<1>11. \A k \in Written : k \in Wanted /\ k \notin q.updates
  BY <1>6, <1>10 DEF Written
<1>12. n.pc # "idle"
  BY <1>8
<1>13. /\ pass'[p] = Noticed(n)
       /\ \A f \in {"pc", "people", "wording", "desired", "creates", "updates"} :
             pass'[p][f] = n[f]
       /\ pass'[p].moved = n.moved \cup (Written \cap n.updates)
       /\ pass'[p].fresh = n.fresh \cup Written
  BY <1>1, <1>8, <1>12, OwnStep, NoticedFields, NoticedFresh
<1>14. /\ pass'[p].pc = n.pc /\ pass'[p].people = Enrolled /\ pass'[p].wording = setup.wording
       /\ pass'[p].desired = Wanted /\ pass'[p].creates = {} /\ pass'[p].updates = q.updates
       /\ pass'[p].moved = {} /\ pass'[p].fresh \subseteq Wanted
  BY <1>3, <1>8, <1>11, <1>13
<1>15. Wanted' = Wanted /\ Enrolled' = Enrolled /\ setup' = setup
  BY SameReads
<1>16. WantedIsPlanned(pass[p])'
  <2> SUFFICES ASSUME NEW k \in Wanted
               PROVE  /\ row'[k].status = "none" => FinishedOccurrence(k)'
                      /\ CanReconcile(row'[k]) =>
                            k \in q.updates \/ row'[k] = Prepared(k, row'[k], setup.wording)
    BY <1>14, <1>15 DEF WantedIsPlanned
  <2>1. k \in Keys
    BY <1>2
  <2>2. /\ row[k].status = "none" => FinishedOccurrence(k) \/ Lands(k)
        /\ CanReconcile(row[k]) => k \in q.updates \/ row[k] = Prepared(k, row[k], setup.wording)
    BY <1>3, <1>9 DEF WantedIsPlanned
  <2>3. \A j \in Keys : row[j].status \in Finished => row'[j] = row[j]
    BY <1>10 DEF Finished
  <2>4. FinishedOccurrence(k) => FinishedOccurrence(k)'
    BY <2>3, StaysFinished
  <2> QED
    BY <1>10, <2>1, <2>2, <2>4
<1> QED
  BY <1>8, <1>14, <1>15, <1>16 DEF UpToDate, q

\* An update brings every wanted row that is old to what the settings ask for.
LEMMA UpdateIsUpToDate ==
    ASSUME PrepInv, NEW p \in Passes, UpdateRows(p), UpToDate(pass[p]),
           UNCHANGED <<setup, enrollment>>
    PROVE  UpToDate(pass[p])' /\ pass'[p].pc = "stale"
<1> DEFINE q == pass[p]
           Lands(k) == k \in q.updates /\ Allowed(q, k) /\ Unmoved(q, k)
           n == [q EXCEPT !.updates = {}, !.moved = {}, !.people = {}, !.pc = "stale"]
<1>1. /\ row' = [k \in Keys |-> IF Lands(k) THEN Prepared(k, row[k], q.wording) ELSE row[k]]
      /\ Pass(p, n) /\ q.pc = "update"
  BY DEF UpdateRows
<1>2. /\ q \in PassType /\ GoodPlan(q) /\ setup.wording \in Wordings /\ Wanted \subseteq Keys
      /\ row \in [Keys -> Row] /\ Current(q)
  BY PassIsTyped, WantedIsKey DEF PrepInv, Plans
<1>3. /\ q.desired = Wanted /\ q.wording = setup.wording /\ q.moved = {} /\ q.creates = {}
      /\ q.fresh \subseteq Wanted /\ q.people = Enrolled /\ WantedIsPlanned(q)
  BY <1>1 DEF UpToDate
<1>4. q.updates \subseteq Wanted /\ \A k \in q.updates : CanReconcile(row[k])
  BY <1>2, <1>3 DEF GoodPlan, Current
<1>5. \A k : Lands(k) <=> k \in q.updates
  BY <1>3, <1>4, WantedIsAllowed DEF Unmoved
<1>6. /\ n \in PassType /\ n.creates = q.creates /\ n.updates = {} /\ n.wording = q.wording
      /\ n.moved = {} /\ n.fresh = q.fresh /\ n.desired = q.desired /\ n.pc = "stale"
  BY <1>2 DEF PassType, PassSteps
<1> HIDE DEF q, n, Lands
<1>7. ASSUME NEW k \in Keys
      PROVE  IF k \in q.updates
             THEN /\ row'[k] = Prepared(k, row'[k], setup.wording)
                  /\ row'[k].status = "PENDING"
             ELSE row'[k] = row[k]
  BY <1>1, <1>2, <1>3, <1>5, PreparedAgain
<1>8. Written \subseteq q.updates
  BY <1>7 DEF Written
<1>9. /\ pass'[p] = Noticed(n)
      /\ \A f \in {"pc", "wording", "desired", "creates", "updates"} : pass'[p][f] = n[f]
      /\ pass'[p].moved = n.moved \cup (Written \cap n.updates)
      /\ pass'[p].fresh = n.fresh \cup Written
  BY <1>1, <1>6, OwnStep, NoticedFields, NoticedFresh
<1>10. /\ pass'[p].pc = "stale" /\ pass'[p].wording = setup.wording
       /\ pass'[p].desired = Wanted /\ pass'[p].creates = {} /\ pass'[p].updates = {}
       /\ pass'[p].moved = {} /\ pass'[p].fresh \subseteq Wanted
  BY <1>3, <1>4, <1>6, <1>8, <1>9
<1>11. Wanted' = Wanted /\ Enrolled' = Enrolled /\ setup' = setup
  BY SameReads
<1>12. WantedIsPlanned(pass[p])'
  <2> SUFFICES ASSUME NEW k \in Wanted
               PROVE  /\ row'[k].status = "none" => FinishedOccurrence(k)'
                      /\ CanReconcile(row'[k]) =>
                            row'[k] = Prepared(k, row'[k], setup.wording)
    BY <1>10, <1>11 DEF WantedIsPlanned
  <2>1. k \in Keys
    BY <1>2
  <2>2. /\ row[k].status = "none" => FinishedOccurrence(k)
        /\ CanReconcile(row[k]) => k \in q.updates \/ row[k] = Prepared(k, row[k], setup.wording)
    BY <1>3 DEF WantedIsPlanned
  <2>3. \A j \in Keys : row[j].status \in Finished => row'[j] = row[j]
    BY <1>4, <1>7 DEF Finished, CanReconcile
  <2>4. FinishedOccurrence(k) => FinishedOccurrence(k)'
    BY <2>3, StaysFinished
  <2> QED
    BY <1>7, <2>1, <2>2, <2>4
<1> QED
  BY <1>10, <1>11, <1>12 DEF UpToDate

\* What an undisturbed pass finds stale is all that is pending and not wanted; with none
\* it is done.
LEMMA ReadStaleIsUpToDate ==
    ASSUME PrepInv, NothingIsStranded, NEW p \in Passes, ReadStale(p), UpToDate(pass[p]),
           UNCHANGED <<setup, enrollment>>
    PROVE  /\ UpToDate(pass[p])' /\ pass'[p].pc \in {"idle", "cancel"}
           /\ Ends(p) => Converged'
<1> DEFINE q == pass[p]
           n == [Idle(setup.wording) EXCEPT !.pc = "cancel", !.stale = StaleRows(q)]
<1>1. /\ row' = row /\ q.pc = "stale"
      /\ Pass(p, IF StaleRows(q) = {} THEN Idle(setup.wording) ELSE n)
  BY DEF ReadStale, ReadOnly
<1>2. /\ q \in PassType /\ setup.wording \in Wordings /\ Wanted \subseteq Keys
      /\ row \in [Keys -> Row]
  BY PassIsTyped, WantedIsKey
<1>3. /\ q.desired = Wanted /\ q.wording = setup.wording /\ q.creates = {} /\ q.updates = {}
      /\ q.fresh \subseteq Wanted /\ WantedIsPlanned(q)
  BY <1>1 DEF UpToDate
<1>4. StaleRows(q) = Pending \ Wanted /\ StaleRows(q) \subseteq Keys
  BY <1>3 DEF StaleRows, Pending
<1>5. WantedIsReady
  <2> SUFFICES ASSUME NEW k \in Wanted
               PROVE  /\ row[k].status = "none" => FinishedOccurrence(k)
                      /\ CanReconcile(row[k]) =>
                            row[k].status = "PENDING" /\ row[k].wording = setup.wording
    BY DEF WantedIsReady
  <2>1. /\ row[k].status = "none" => FinishedOccurrence(k)
        /\ CanReconcile(row[k]) => row[k] = Prepared(k, row[k], setup.wording)
    BY <1>3 DEF WantedIsPlanned
  <2>2. Prepared(k, row[k], setup.wording).status = "PENDING"
        /\ Prepared(k, row[k], setup.wording).wording = setup.wording
    BY <1>2, PreparedAgain
  <2> QED
    BY <2>1, <2>2
<1>6. /\ Idle(setup.wording) \in PassType /\ Idle(setup.wording).pc = "idle"
      /\ n \in PassType /\ n.pc = "cancel" /\ n.stale = StaleRows(q)
      /\ n.creates = {} /\ n.updates = {}
  BY <1>2, <1>4 DEF Idle, PassType, PassSteps
<1> HIDE DEF q, n
<1>7. /\ Wanted' = Wanted /\ Pending' = Pending /\ setup' = setup /\ row' = row
  BY <1>1, SameReads
<1>8. CASE StaleRows(q) = {}
  <2>1. pass'[p] = Idle(setup.wording)
    BY <1>1, <1>6, <1>8, OwnStep, ReadingNoticesNothing
  <2>2. Converged
    BY <1>4, <1>5, <1>8, ReadyMeansConverged
  <2>3. Converged'
    BY <1>7, <2>2 DEF Converged, FinishedOccurrence
  <2> QED
    BY <1>6, <2>1, <2>3 DEF UpToDate
<1>9. CASE StaleRows(q) # {}
  <2>1. pass'[p] = n
    BY <1>1, <1>6, <1>9, OwnStep, ReadingNoticesNothing
  <2>2. WantedIsReady'
    BY <1>5, <1>7 DEF WantedIsReady, FinishedOccurrence
  <2> QED
    BY <1>4, <1>6, <1>7, <2>1, <2>2 DEF UpToDate, Ends
<1> QED
  BY <1>8, <1>9

LEMMA CancelStaleConverges ==
    ASSUME PrepInv, PrepInv', NothingIsStranded', NEW p \in Passes, CancelStale(p),
           UpToDate(pass[p]), UNCHANGED <<setup, enrollment>>
    PROVE  UpToDate(pass[p])' /\ pass'[p].pc = "idle" /\ Converged'
<1>1. /\ pass[p].pc = "cancel" /\ Cancel(pass[p].stale \cap Pending, "reconciled")
      /\ Pass(p, Idle(setup.wording))
  BY DEF CancelStale
<1>2. /\ setup.wording \in Wordings /\ Wanted \subseteq Keys /\ row \in [Keys -> Row]
  BY PassIsTyped, WantedIsKey
<1>3. WantedIsReady /\ pass[p].stale \cap Pending = Pending \ Wanted
  BY <1>1 DEF UpToDate
<1>4. Wanted' = Wanted /\ setup' = setup
  BY SameReads
<1>5. ASSUME NEW k \in Keys
      PROVE  /\ k \in Pending \ Wanted => row'[k].status = "CANCELED"
             /\ k \notin Pending \ Wanted => row'[k] = row[k]
  BY <1>1, <1>2, <1>3 DEF Cancel, Row
<1>6. Pending' \subseteq Wanted
  <2> SUFFICES ASSUME NEW k \in Keys, row'[k].status = "PENDING" PROVE k \in Wanted
    BY DEF Pending
  <2> QED
    BY <1>5 DEF Pending
<1>7. WantedIsReady'
  <2> SUFFICES ASSUME NEW k \in Wanted
               PROVE  /\ row'[k].status = "none" => FinishedOccurrence(k)'
                      /\ CanReconcile(row'[k]) =>
                            row'[k].status = "PENDING" /\ row'[k].wording = setup.wording
    BY <1>4 DEF WantedIsReady
  <2>1. \A j \in Keys : row[j].status \in Finished => row'[j] = row[j]
    BY <1>5 DEF Pending, Finished
  <2>2. FinishedOccurrence(k) => FinishedOccurrence(k)'
    BY <2>1, StaysFinished
  <2> QED
    BY <1>2, <1>3, <1>5, <2>2 DEF WantedIsReady
<1>8. Converged'
  <2>1. (PrepInv /\ NothingIsStranded /\ WantedIsReady /\ Pending \subseteq Wanted)'
    BY <1>4, <1>6, <1>7
  <2> QED
    BY <2>1, ReadyMeansConverged, PTL
<1>9. pass'[p].pc = "idle"
  <2>1. Idle(setup.wording).pc = "idle"
    BY DEF Idle
  <2> QED
    BY <1>1, <2>1, OwnStep DEF Noticed
<1> QED
  BY <1>8, <1>9 DEF UpToDate

LEMMA UndisturbedStep ==
    ASSUME PrepInv, PrepInv', NothingIsStranded, NothingIsStranded', NEW p \in Passes,
           UpToDate(pass[p]), [Undisturbed(p)]_prepVars
    PROVE  UpToDate(pass[p])' /\ (Ends(p) => Converged')
<1>1. CASE PassStep(p)
  <2>1. UNCHANGED <<setup, enrollment>>
    BY <1>1 DEF PassStep
  <2>2. CASE Begin(p)
    BY <2>1, <2>2, BeginIsUpToDate DEF Ends
  <2>3. CASE ReadSettled(p)
    BY <2>1, <2>3, ReadSettledIsUpToDate DEF Ends
  <2>4. CASE ReadSettings(p)
    BY <2>1, <2>4, ReadSettingsIsUpToDate DEF Ends
  <2>5. CASE ReadRows(p)
    BY <2>1, <2>5, ReadRowsIsUpToDate DEF Ends
  <2>6. CASE CreateRows(p)
    BY <2>1, <2>6, CreateIsUpToDate DEF Ends
  <2>7. CASE UpdateRows(p)
    BY <2>1, <2>7, UpdateIsUpToDate DEF Ends
  <2>8. CASE ReadStale(p)
    BY <2>1, <2>8, ReadStaleIsUpToDate
  <2>9. CASE CancelStale(p)
    BY <2>1, <2>9, CancelStaleConverges
  <2> QED
    BY <1>1, <2>2, <2>3, <2>4, <2>5, <2>6, <2>7, <2>8, <2>9 DEF PassStep, Ends
<1>2. CASE UNCHANGED <<row, setup, enrollment, pass[p]>>
  <2>1. /\ Wanted' = Wanted /\ Enrolled' = Enrolled /\ SettledNow' = SettledNow
        /\ Pending' = Pending /\ setup' = setup /\ row' = row /\ pass'[p] = pass[p]
    BY <1>2, SameReads
  <2>2. UpToDate(pass[p])'
    BY <2>1 DEF UpToDate, WantedIsPlanned, WantedIsReady, FinishedOccurrence
  <2> QED
    BY <2>1, <2>2 DEF Ends
<1>3. CASE UNCHANGED prepVars
  BY <1>2, <1>3 DEF prepVars
<1> QED
  BY <1>1, <1>2, <1>3 DEF Undisturbed

\* A pass that begins once the owner's last change is in, and that no other writer
\* disturbs, leaves exactly the follow-ups the settings ask for, whatever it found:
\* rows half prepared by a crashed pass, rows of a stale read, cancellations to take
\* back.  It is the step of EventuallyConverged that is not a matter of fairness.
THEOREM UndisturbedPassConverges ==
    ASSUME NEW p \in Passes
    PROVE  PrepSpec =>
             [](/\ pass[p].pc = "idle"
                /\ [][Undisturbed(p)]_prepVars
                => [][Ends(p) => Converged']_prepVars)
<1>1. pass[p].pc = "idle" => UpToDate(pass[p])
  BY DEF UpToDate
<1>2. /\ PrepInv /\ PrepInv' /\ NothingIsStranded /\ NothingIsStranded'
      /\ UpToDate(pass[p]) /\ [Undisturbed(p)]_prepVars
      => UpToDate(pass[p])' /\ [Ends(p) => Converged']_prepVars
  BY UndisturbedStep
<1> QED
  BY <1>1, <1>2, PrepInvHolds, PassesStrandNothing, PTL

PlansNothing(q) == q.creates = {} /\ q.updates = {}

\* Once converged, an undisturbed pass finds nothing to write: what is prepared is as
\* preparing it again would leave it, its snooze included.
LEMMA ConvergedStep ==
    ASSUME PrepInv, PrepInv', NothingIsStranded, NothingIsStranded', NEW p \in Passes,
           UpToDate(pass[p]), Converged, PlansNothing(pass[p]), [Undisturbed(p)]_prepVars
    PROVE  row' = row /\ Converged' /\ PlansNothing(pass[p])'
<1>1. /\ row \in [Keys -> Row] /\ \A k \in Keys : GoodRow(k, row[k])
      /\ Wanted \subseteq Keys
  BY PassIsTyped, WantedIsKey DEF PrepInv, IInv, GoodRows
<1>2. ASSUME row' = row, UNCHANGED <<setup, enrollment>> PROVE Converged'
  <2>1. Wanted' = Wanted /\ Pending' = Pending /\ setup' = setup
    BY <1>2, SameReads
  <2> QED
    BY <1>2, <2>1 DEF Converged, FinishedOccurrence
<1>3. GoodPlan(pass[p])'
  BY DEF PrepInv, Plans
<1>4. ASSUME pass'[p].pc \in {"idle", "settled", "settings", "rows"} PROVE PlansNothing(pass[p])'
  BY <1>3, <1>4 DEF GoodPlan, PlansNothing
<1>5. CASE PassStep(p)
  <2>1. UNCHANGED <<setup, enrollment>>
    BY <1>5 DEF PassStep
  <2>2. CASE Begin(p)
    <3>1. row' = row
      BY <2>2 DEF Begin, ReadOnly
    <3> QED
      BY <1>2, <1>4, <2>1, <2>2, <3>1, BeginIsUpToDate
  <2>3. CASE ReadSettled(p)
    <3>1. row' = row
      BY <2>3 DEF ReadSettled, ReadOnly
    <3> QED
      BY <1>2, <1>4, <2>1, <2>3, <3>1, ReadSettledIsUpToDate
  <2>4. CASE ReadSettings(p)
    <3>1. row' = row
      BY <2>4 DEF ReadSettings, ReadOnly
    <3> QED
      BY <1>2, <1>4, <2>1, <2>4, <3>1, ReadSettingsIsUpToDate
  <2>5. CASE ReadRows(p)
    <3>1. row' = row /\ pass[p].pc = "rows"
      BY <2>5 DEF ReadRows, ReadOnly
    <3>2. /\ pass[p].desired = Wanted /\ pass[p].settled = SettledNow
          /\ pass[p].wording = setup.wording
      BY <3>1 DEF UpToDate
    <3>3. MissingRows(pass[p]) = {}
      <4> SUFFICES ASSUME NEW k \in MissingRows(pass[p]) PROVE FALSE
        OBVIOUS
      <4>1. k \in Wanted /\ row[k].status = "none" /\ Occurrence(k) \notin SettledNow
        BY <3>2 DEF MissingRows
      <4>2. FinishedOccurrence(k)
        BY <4>1 DEF Converged, Finished
      <4> QED
        BY <4>1, <4>2 DEF FinishedOccurrence, SettledNow
    <3>4. ChangedRows(pass[p]) = {}
      <4> SUFFICES ASSUME NEW k \in ChangedRows(pass[p]) PROVE FALSE
        OBVIOUS
      <4>1. /\ k \in Wanted /\ CanReconcile(row[k])
            /\ row[k] # Prepared(k, row[k], setup.wording)
        BY <3>2 DEF ChangedRows
      <4>2. row[k].status = "PENDING"
        BY <4>1 DEF Converged, CanReconcile, Finished
      <4>3. row[k].wording = setup.wording
        BY <1>1, <4>1, <4>2 DEF Converged, Pending
      <4>4. /\ row[k] \in Row /\ row[k].method = ""
            /\ row[k].at = Later(Base(k), row[k].snoozed)
        <5>1. GoodRow(k, row[k])
          BY <1>1, <4>1
        <5>2. Coherent(row[k]) => row[k].method = ""
          BY <4>2 DEF Coherent, Finished
        <5> QED
          BY <4>2, <5>1, <5>2 DEF GoodRow
      <4>5. row[k] = Prepared(k, row[k], setup.wording)
        BY <4>2, <4>3, <4>4 DEF Prepared, Row
      <4> QED
        BY <4>1, <4>5
    <3>5. PlansNothing(pass[p])'
      BY <2>1, <2>5, <3>3, <3>4, ReadRowsIsUpToDate DEF PlansNothing
    <3> QED
      BY <1>2, <2>1, <3>1, <3>5
  <2>6. CASE CreateRows(p)
    <3>1. {e \in pass[p].creates : Allowed(pass[p], e.key)} = {}
      BY DEF PlansNothing
    <3>2. row' = [k \in Keys |-> row[k]]
      BY <2>6, <3>1 DEF CreateRows
    <3>3. PlansNothing(pass[p])'
      BY <2>1, <2>6, CreateIsUpToDate DEF PlansNothing
    <3> QED
      BY <1>1, <1>2, <2>1, <3>2, <3>3
  <2>7. CASE UpdateRows(p)
    <3>1. row' = [k \in Keys |-> row[k]]
      BY <2>7 DEF UpdateRows, PlansNothing
    <3>2. PlansNothing(pass[p])'
      BY <2>1, <2>7, UpdateIsUpToDate DEF UpToDate, PlansNothing
    <3> QED
      BY <1>1, <1>2, <2>1, <3>1, <3>2
  <2>8. CASE ReadStale(p)
    <3>1. row' = row
      BY <2>8 DEF ReadStale, ReadOnly
    <3>2. UpToDate(pass[p])' /\ pass'[p].pc \in {"idle", "cancel"}
      BY <2>1, <2>8, ReadStaleIsUpToDate
    <3>3. PlansNothing(pass[p])'
      BY <1>4, <3>2 DEF UpToDate, PlansNothing
    <3> QED
      BY <1>2, <2>1, <3>1, <3>3
  <2>9. CASE CancelStale(p)
    <3>1. Pending \ Wanted = {}
      BY DEF Converged
    <3>2. row' = [k \in Keys |-> row[k]]
      BY <2>9, <3>1 DEF CancelStale, Cancel, UpToDate
    <3>3. PlansNothing(pass[p])'
      BY <1>4, <2>1, <2>9, CancelStaleConverges
    <3> QED
      BY <1>1, <1>2, <2>1, <3>2, <3>3
  <2> QED
    BY <1>5, <2>2, <2>3, <2>4, <2>5, <2>6, <2>7, <2>8, <2>9 DEF PassStep
<1>6. CASE UNCHANGED <<row, setup, enrollment, pass[p]>>
  BY <1>2, <1>6 DEF PlansNothing
<1>7. CASE UNCHANGED prepVars
  BY <1>6, <1>7 DEF prepVars
<1> QED
  BY <1>5, <1>6, <1>7 DEF Undisturbed

\* Preparing again changes nothing: when the follow-ups are what the settings ask for,
\* undisturbed passes write no row, however often they run, and so leave them so.
THEOREM ConvergedIsLeftAlone ==
    ASSUME NEW p \in Passes
    PROVE  PrepSpec =>
             [](/\ Converged /\ pass[p].pc = "idle"
                /\ [][Undisturbed(p)]_prepVars
                => [][row' = row]_prepVars)
<1>1. PrepInv /\ pass[p].pc = "idle" => UpToDate(pass[p]) /\ PlansNothing(pass[p])
  BY DEF UpToDate, PlansNothing, PrepInv, Plans, GoodPlan
<1>2. /\ PrepInv /\ PrepInv' /\ NothingIsStranded /\ NothingIsStranded'
      /\ UpToDate(pass[p]) /\ Converged /\ PlansNothing(pass[p]) /\ [Undisturbed(p)]_prepVars
      => /\ UpToDate(pass[p])' /\ Converged' /\ PlansNothing(pass[p])'
         /\ [row' = row]_prepVars
  BY UndisturbedStep, ConvergedStep
<1> QED
  BY <1>1, <1>2, PrepInvHolds, PassesStrandNothing, PTL

=============================================================================
