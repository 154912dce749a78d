--------------------------- MODULE Catalog_proofs ---------------------------
(***************************************************************************)
(* What the schema guarantees about properties and units whatever the      *)
(* interleaving of the managers' requests, for any number of requests,     *)
(* ids, numbers and types: theorems of Catalog.                            *)
(***************************************************************************)
EXTENDS Catalog, TLAPS

USE CatalogAssumption

----------------------------------------------------------------------------
(* Types of requests *)

\* The request in a busy slot and its work have their types.
LEMMA WorkTyped ==
    ASSUME TypeOK, NEW s \in Slots, requests[s] # Idle
    PROVE  /\ requests[s] \in [phase : Phases, work : Works, attempts : 0..MaxRetries]
           /\ WorkOf(s) \in Works
BY DEF TypeOK, WorkOf

\* Work of each kind has the fields of that kind.
LEMMA KindTyped ==
    ASSUME NEW work \in Works
    PROVE  /\ work.kind = "ChangeProperty" => work.property \in Properties
           /\ work.kind = "AddUnit" => work.row \in UnitRow
           /\ work.kind = "ChangeUnit" =>
                 /\ work.unit \in Units
                 /\ work.row \in UnitRow
                 /\ work.columns \subseteq {"number", "type"}
           /\ work.kind = "Remove" =>
                 work.property \in Properties \cup {None} /\ work.loaded \subseteq Units
BY DEF Works

\* What a changed unit becomes is a row.
LEMMA SavedTyped ==
    ASSUME TypeOK, NEW work \in Works, work.kind = "ChangeUnit",
           work.unit \in DOMAIN units
    PROVE  /\ Saved(work) \in UnitRow
           /\ Saved(work).property = units[work.unit].property
           /\ \/ Saved(work).type = units[work.unit].type
              \/ "type" \in work.columns /\ Saved(work).type = work.row.type
<1>1. work.row \in UnitRow
  BY KindTyped
<1>2. units[work.unit] \in UnitRow
  BY DEF TypeOK
<1>3. QED
  BY <1>1, <1>2 DEF Saved, UnitRow

----------------------------------------------------------------------------
(* Types are kept *)

LEMMA BeginTyped ==
    ASSUME TypeOK, NEW s \in Slots, NEW phase \in Phases, NEW work \in Works,
           Begin(s, phase, work)
    PROVE  TypeOK'
<1>1. [phase |-> phase, work |-> work, attempts |-> 0]
          \in [phase : Phases, work : Works, attempts : 0..MaxRetries]
  OBVIOUS
<1>2. requests' \in [Slots -> {Idle} \cup
                        [phase : Phases, work : Works, attempts : 0..MaxRetries]]
  BY <1>1 DEF Begin, TypeOK
<1>3. QED
  BY <1>2 DEF TypeOK, Begin, tables

LEMMA RefuseTyped ==
    ASSUME TypeOK, NEW s \in Slots, Refuse(s)
    PROVE  TypeOK'
BY DEF TypeOK, Refuse, Finish, tables

LEMMA CheckTyped ==
    ASSUME TypeOK, NEW s \in Slots, requests[s] # Idle, NEW phase \in Phases,
           NEW condition \in BOOLEAN, Check(s, condition, phase)
    PROVE  TypeOK'
<1>1. CASE Refuse(s)
  BY <1>1, RefuseTyped
<1>2. CASE requests' = [requests EXCEPT ![s].phase = phase] /\ UNCHANGED tables
  <2>1. requests[s] \in [phase : Phases, work : Works, attempts : 0..MaxRetries]
    BY WorkTyped
  <2>2. [requests[s] EXCEPT !.phase = phase]
            \in [phase : Phases, work : Works, attempts : 0..MaxRetries]
    BY <2>1
  <2>3. QED
    BY <1>2, <2>2 DEF TypeOK, tables
<1>3. QED
  BY <1>1, <1>2 DEF Check

\* The tables keep their types when a save commits.
TablesTyped ==
    /\ properties \subseteq Properties
    /\ DOMAIN units \subseteq Units
    /\ units \in [DOMAIN units -> UnitRow]
    /\ leased \subseteq applied
    /\ applied \subseteq DOMAIN units

LEMMA SaveTyped ==
    ASSUME TypeOK, NEW s \in Slots, Save(s)
    PROVE  TablesTyped'
<1> DEFINE work == WorkOf(s)
<1>1. work \in Works /\ CanSave(work)
  BY WorkTyped DEF Save, InPhase
<1>2. CASE SaveNewProperty(work)
  BY <1>2 DEF SaveNewProperty, TypeOK, TablesTyped, FreeProperties
<1>3. CASE SaveProperty(work)
  BY <1>3 DEF SaveProperty, tables, TypeOK, TablesTyped
<1>4. CASE SaveNewUnit(work)
  <2>1. work.row \in UnitRow
    BY <1>1, <1>4, KindTyped DEF SaveNewUnit
  <2>2. QED
    BY <1>4, <2>1 DEF SaveNewUnit, TypeOK, TablesTyped, FreeUnits
<1>5. CASE SaveUnit(work)
  <2>1. CASE work.columns = {}
    BY <1>5, <2>1 DEF SaveUnit, TypeOK, TablesTyped
  <2>2. CASE work.columns # {}
    <3>1. work.unit \in DOMAIN units
      BY <1>1, <1>5, <2>2 DEF SaveUnit, CanSave
    <3>2. Saved(work) \in UnitRow
      BY <1>1, <1>5, <3>1, SavedTyped DEF SaveUnit
    <3>3. QED
      BY <1>5, <2>2, <3>1, <3>2 DEF SaveUnit, TypeOK, TablesTyped
  <2>3. QED
    BY <2>1, <2>2
<1>6. CASE SaveRemoval(work)
  <2>1. Gone(work) \cap leased = {}
    BY <1>1, <1>6 DEF SaveRemoval, CanSave, CanRemove
  <2>2. QED
    BY <1>6, <2>1 DEF SaveRemoval, TypeOK, TablesTyped
<1>7. QED
  BY <1>2, <1>3, <1>4, <1>5, <1>6 DEF Save

LEMMA CommitTyped ==
    ASSUME TypeOK, NEW s \in Slots, Commit(s) \/ CommitUnanswered(s)
    PROVE  TypeOK'
<1>1. TablesTyped'
  BY SaveTyped DEF Commit, CommitUnanswered
<1>2. requests' \in [Slots -> {Idle} \cup
                        [phase : Phases, work : Works, attempts : 0..MaxRetries]]
  <2>1. CASE Commit(s)
    BY <2>1 DEF Commit, Finish, TypeOK
  <2>2. CASE CommitUnanswered(s)
    <3>1. requests[s] \in [phase : Phases, work : Works, attempts : 0..MaxRetries]
      BY <2>2, WorkTyped DEF CommitUnanswered, Save, InPhase
    <3>2. requests[s].attempts + 1 \in 0..MaxRetries
      BY <2>2, <3>1 DEF CommitUnanswered
    <3>3. [requests[s] EXCEPT !.attempts = @ + 1]
              \in [phase : Phases, work : Works, attempts : 0..MaxRetries]
      BY <3>1, <3>2
    <3>4. QED
      BY <2>2, <3>3 DEF CommitUnanswered, TypeOK
  <2>3. QED
    BY <2>1, <2>2
<1>3. QED
  BY <1>1, <1>2 DEF TypeOK, TablesTyped

\* What a request that arrives begins with: a phase and its work, decided on the
\* tables as they are.
LEMMA ArrivalBegins ==
    ASSUME TypeOK, NEW s \in Slots, ManagerArrives(s)
    PROVE  \E phase \in Phases, work \in Works :
              /\ Begin(s, phase, work)
              /\ work.kind = "AddUnit" => work.row.type \in ActiveTypes
              /\ work.kind = "ChangeUnit" /\ "type" \in work.columns
                    => work.row.type \in ActiveTypes
<1>1. CASE CreateProperty(s)
  BY <1>1 DEF CreateProperty, AddProperty, Works, Phases
<1>2. CASE \E p \in Properties : UpdateProperty(s, p)
  BY <1>2 DEF UpdateProperty, ChangeProperty, Works, Phases
<1>3. CASE \E p \in Properties : DeleteProperty(s, p)
  <2>1. PICK p \in Properties : DeleteProperty(s, p)
    BY <1>3
  <2>2. UnitsOf(p) \subseteq Units
    BY DEF UnitsOf, TypeOK
  <2>3. Remove(p, UnitsOf(p)) \in Works
    BY <2>2 DEF Remove, Works
  <2>4. QED
    BY <2>1, <2>3 DEF DeleteProperty, Remove, Phases
<1>4. CASE \E id \in Units \cup {None}, row \in UnitRow : CreateUnit(s, id, row)
  <2>1. PICK id \in Units \cup {None}, row \in UnitRow : CreateUnit(s, id, row)
    BY <1>4
  <2>2. row.type \in ActiveTypes
    BY <2>1 DEF CreateUnit, IsSelectableFor, UnitRow
  <2>3. QED
    BY <2>1, <2>2 DEF CreateUnit, AddUnit, Works, Phases
<1>5. CASE \E u \in Units, row \in UnitRow : UpdateUnit(s, u, row)
  <2>1. PICK u \in Units, input \in UnitRow : UpdateUnit(s, u, input)
    BY <1>5
  <2> DEFINE row == [input EXCEPT !.property = units[u].property]
             work == ChangeUnit(u, units[u], row)
  <2>2. units[u] \in UnitRow
    BY <2>1 DEF UpdateUnit, TypeOK
  <2>3. row \in UnitRow /\ row.type = input.type
    BY <2>2 DEF UnitRow
  <2>4. work \in Works
    BY <2>3 DEF ChangeUnit, Works
  <2>5. "type" \in work.columns => work.row.type \in ActiveTypes
    BY <2>1, <2>3 DEF ChangeUnit, UpdateUnit, IsSelectableFor
  <2>6. work.kind = "ChangeUnit"
    BY DEF ChangeUnit
  <2>7. Begin(s, "TypeChecked", work)
    BY <2>1 DEF UpdateUnit
  <2>8. QED
    BY <2>4, <2>5, <2>6, <2>7 DEF Phases
<1>6. CASE \E u \in Units : DeleteUnit(s, u)
  BY <1>6 DEF DeleteUnit, Remove, Works, Phases
<1>7. QED
  BY <1>1, <1>2, <1>3, <1>4, <1>5, <1>6 DEF ManagerArrives

----------------------------------------------------------------------------
(* What holds of the tables and of the work that waits to be saved *)

\* An inactive type never waits to be written.
WorkSelectable(work) ==
    /\ work.kind = "AddUnit" => work.row.type \in ActiveTypes
    /\ work.kind = "ChangeUnit" /\ "type" \in work.columns => work.row.type \in ActiveTypes

PendingSelectable ==
    \A s \in Slots : requests[s] # Idle => WorkSelectable(WorkOf(s))

Inv == TypeOK /\ UnitNumbersUnique /\ UnitsHaveProperty /\ PendingSelectable

LEMMA InitInv == Init => Inv
<1> SUFFICES ASSUME Init PROVE Inv
  OBVIOUS
<1>1. TypeOK
  BY DEF CatalogAssumption, Init, TypeOK
<1>2. UnitNumbersUnique /\ UnitsHaveProperty
  BY DEF CatalogAssumption, Init, UnitNumbersUnique, UnitsHaveProperty
<1>3. PendingSelectable
  BY DEF Init, PendingSelectable
<1>4. QED
  BY <1>1, <1>2, <1>3 DEF Inv

\* The requests' own steps leave the tables alone; the work of the others stays.
LEMMA QueryKeeps ==
    ASSUME Inv, UNCHANGED tables
    PROVE  UnitNumbersUnique' /\ UnitsHaveProperty'
BY DEF Inv, tables, UnitNumbersUnique, UnitsHaveProperty, NumbersUnique

\* A commit leaves numbers unique: the index was consulted on the present rows.
LEMMA SaveKeepsNumbers ==
    ASSUME Inv, NEW s \in Slots, Save(s)
    PROVE  UnitNumbersUnique'
<1> DEFINE work == WorkOf(s)
<1>1. /\ TypeOK
      /\ NumbersUnique(units)
      /\ work \in Works
      /\ CanSave(work)
  BY WorkTyped DEF Inv, Save, InPhase, UnitNumbersUnique
<1> SUFFICES NumbersUnique(units')
  BY DEF UnitNumbersUnique
<1>2. CASE SaveNewProperty(work) \/ SaveProperty(work)
  BY <1>1, <1>2 DEF SaveNewProperty, SaveProperty, tables
<1>3. CASE SaveNewUnit(work)
  <2>1. PICK u \in FreeUnits :
            units' = [v \in DOMAIN units \cup {u} |-> IF v = u THEN work.row ELSE units[v]]
    BY <1>3 DEF SaveNewUnit
  <2>2. ~NumberTaken(work.row, {})
    BY <1>1, <1>3 DEF SaveNewUnit, CanSave, FitsIndex
  <2>3. QED
    BY <1>1, <2>1, <2>2 DEF NumberTaken, NumbersUnique
<1>4. CASE SaveUnit(work)
  <2>1. CASE work.columns = {}
    BY <1>1, <1>4, <2>1 DEF SaveUnit
  <2>2. CASE work.columns # {}
    <3>1. work.unit \in DOMAIN units /\ ~NumberTaken(Saved(work), {work.unit})
      BY <1>1, <1>4, <2>2 DEF SaveUnit, CanSave, FitsIndex
    <3>2. units' = [units EXCEPT ![work.unit] = Saved(work)]
      BY <1>4, <2>2 DEF SaveUnit
    <3>3. QED
      BY <1>1, <3>1, <3>2 DEF NumberTaken, NumbersUnique
  <2>3. QED
    BY <2>1, <2>2
<1>5. CASE SaveRemoval(work)
  BY <1>1, <1>5 DEF SaveRemoval, NumbersUnique
<1>6. QED
  BY <1>2, <1>3, <1>4, <1>5 DEF Save

\* A commit leaves every unit in a property: removing one takes its units along.
LEMMA SaveKeepsProperties ==
    ASSUME Inv, NEW s \in Slots, Save(s)
    PROVE  UnitsHaveProperty'
<1> DEFINE work == WorkOf(s)
<1>1. /\ TypeOK
      /\ UnitsHaveProperty
      /\ work \in Works
      /\ CanSave(work)
  BY WorkTyped DEF Inv, Save, InPhase
<1>2. CASE SaveNewProperty(work)
  BY <1>1, <1>2 DEF SaveNewProperty, UnitsHaveProperty
<1>3. CASE SaveProperty(work)
  BY <1>1, <1>3 DEF SaveProperty, tables, UnitsHaveProperty
<1>4. CASE SaveNewUnit(work)
  <2>1. work.row.property \in properties
    BY <1>1, <1>4 DEF SaveNewUnit, CanSave, HasProperty
  <2>2. QED
    BY <1>1, <1>4, <2>1 DEF SaveNewUnit, UnitsHaveProperty
<1>5. CASE SaveUnit(work)
  <2>1. CASE work.columns = {}
    BY <1>1, <1>5, <2>1 DEF SaveUnit, UnitsHaveProperty
  <2>2. CASE work.columns # {}
    <3>1. work.unit \in DOMAIN units
      BY <1>1, <1>5, <2>2 DEF SaveUnit, CanSave
    <3>2. Saved(work).property = units[work.unit].property
      BY <1>1, <1>5, <3>1, SavedTyped DEF SaveUnit
    <3>3. QED
      BY <1>1, <1>5, <2>2, <3>1, <3>2 DEF SaveUnit, UnitsHaveProperty
  <2>3. QED
    BY <2>1, <2>2
<1>6. CASE SaveRemoval(work)
  <2>1. \A u \in DOMAIN units : units[u].property = work.property /\ work.property # None
                                  => u \in Gone(work)
    BY DEF Gone, UnitsOf
  <2>2. \A u \in DOMAIN units : units[u].property # None
    BY DEF CatalogAssumption, Inv, TypeOK, UnitRow
  <2>3. QED
    BY <1>1, <1>6, <2>1, <2>2 DEF SaveRemoval, UnitsHaveProperty
<1>7. QED
  BY <1>2, <1>3, <1>4, <1>5, <1>6 DEF Save

----------------------------------------------------------------------------
(* The steps *)

\* A slot that goes on keeps its work.
LEMMA WorkStays ==
    ASSUME Inv, NEW s \in Slots,
           \/ requests' = [requests EXCEPT ![s] = Idle]
           \/ /\ requests[s] # Idle
              /\ \/ \E phase \in Phases : requests' = [requests EXCEPT ![s].phase = phase]
                 \/ requests' = [requests EXCEPT ![s].attempts = @ + 1]
    PROVE  PendingSelectable'
<1>1. requests \in [Slots -> {Idle} \cup
                        [phase : Phases, work : Works, attempts : 0..MaxRetries]]
  BY DEF Inv, TypeOK
<1>2. ASSUME NEW t \in Slots, requests'[t] # Idle
      PROVE  requests[t] # Idle /\ requests'[t].work = requests[t].work
  <2>1. CASE t # s
    BY <1>1, <1>2, <2>1
  <2>2. CASE t = s /\ requests[s] # Idle
    <3>1. requests[s] \in [phase : Phases, work : Works, attempts : 0..MaxRetries]
      BY <1>1, <2>2
    <3>2. QED
      BY <1>1, <1>2, <2>2, <3>1
  <2>3. CASE t = s /\ requests[s] = Idle
    BY <1>1, <1>2, <2>3
  <2>4. QED
    BY <2>1, <2>2, <2>3
<1>3. QED
  BY <1>2 DEF PendingSelectable, WorkOf, Inv

LEMMA ArrivalKeepsInv ==
    ASSUME Inv, NEW s \in Slots, ManagerArrives(s)
    PROVE  Inv'
<1>1. PICK phase \in Phases, work \in Works :
          Begin(s, phase, work) /\ WorkSelectable(work)
  BY ArrivalBegins DEF Inv, WorkSelectable
<1>2. TypeOK'
  BY <1>1, BeginTyped DEF Inv
<1>3. PendingSelectable'
  <2>1. requests' = [requests EXCEPT
                       ![s] = [phase |-> phase, work |-> work, attempts |-> 0]]
    BY <1>1 DEF Begin
  <2>2. ASSUME NEW t \in Slots, requests'[t] # Idle
        PROVE  WorkSelectable(requests'[t].work)
    <3>1. CASE t = s
      BY <1>1, <2>1, <3>1 DEF Inv, TypeOK
    <3>2. CASE t # s
      BY <2>1, <2>2, <3>2 DEF Inv, TypeOK, PendingSelectable, WorkOf
    <3>3. QED
      BY <3>1, <3>2
  <2>3. QED
    BY <2>2 DEF PendingSelectable, WorkOf
<1>4. UNCHANGED tables
  BY <1>1 DEF Begin
<1>5. QED
  BY <1>2, <1>3, <1>4, QueryKeeps DEF Inv

LEMMA RefuseKeepsInv ==
    ASSUME Inv, NEW s \in Slots, Refuse(s)
    PROVE  Inv'
<1>1. TypeOK'
  BY RefuseTyped DEF Inv
<1>2. PendingSelectable'
  BY WorkStays DEF Refuse, Finish
<1>3. QED
  BY <1>1, <1>2, QueryKeeps DEF Inv, Refuse

LEMMA CheckKeepsInv ==
    ASSUME Inv, NEW s \in Slots, requests[s] # Idle, NEW phase \in Phases,
           NEW condition \in BOOLEAN, Check(s, condition, phase)
    PROVE  Inv'
<1>1. CASE Refuse(s)
  BY <1>1, RefuseKeepsInv
<1>2. CASE requests' = [requests EXCEPT ![s].phase = phase] /\ UNCHANGED tables
  <2>1. TypeOK'
    BY CheckTyped DEF Inv
  <2>2. PendingSelectable'
    BY <1>2, WorkStays
  <2>3. QED
    BY <1>2, <2>1, <2>2, QueryKeeps DEF Inv
<1>3. QED
  BY <1>1, <1>2 DEF Check

LEMMA SaveKeepsInv ==
    ASSUME Inv, NEW s \in Slots, Commit(s) \/ CommitUnanswered(s)
    PROVE  Inv'
<1>1. TypeOK'
  BY CommitTyped DEF Inv
<1>2. UnitNumbersUnique' /\ UnitsHaveProperty'
  BY SaveKeepsNumbers, SaveKeepsProperties DEF Commit, CommitUnanswered
<1>3. PendingSelectable'
  BY WorkStays DEF Commit, Finish, CommitUnanswered, Save, InPhase
<1>4. QED
  BY <1>1, <1>2, <1>3 DEF Inv

\* Applications and leases touch neither the units nor the requests.
LEMMA UseCaseKeepsInv ==
    ASSUME Inv, NEW u \in Units, StartApplication(u) \/ IssueLease(u)
    PROVE  Inv'
BY DEF Inv, TypeOK, UnitNumbersUnique, UnitsHaveProperty, NumbersUnique,
       PendingSelectable, WorkSelectable, WorkOf, StartApplication, IssueLease

LEMMA AdvanceKeepsInv ==
    ASSUME Inv, NEW s \in Slots, Advance(s) \/ Abandon(s)
    PROVE  Inv'
<1>1. CASE EnsureUnitNumberUnique(s)
  <2> DEFINE condition == ~NumberTaken(WorkOf(s).row, Self(WorkOf(s)))
  <2>1. condition \in BOOLEAN /\ "Saving" \in Phases /\ requests[s] # Idle
    BY <1>1 DEF Phases, EnsureUnitNumberUnique, InPhase, NumberTaken
  <2>2. Check(s, condition, "Saving")
    BY <1>1 DEF EnsureUnitNumberUnique
  <2> HIDE DEF condition
  <2>3. QED
    BY <2>1, <2>2, CheckKeepsInv
<1>2. CASE EnsureNoLeases(s)
  <2>1. "NotLeased" \in Phases /\ requests[s] # Idle
    BY <1>2 DEF Phases, EnsureNoLeases, InPhase
  <2>2. Check(s, WorkOf(s).loaded \cap leased = {}, "NotLeased")
    BY <1>2 DEF EnsureNoLeases
  <2>3. QED
    BY <2>1, <2>2, CheckKeepsInv
<1>3. CASE EnsureNoApplications(s)
  <2>1. "Saving" \in Phases /\ requests[s] # Idle
    BY <1>3 DEF Phases, EnsureNoApplications, InPhase
  <2>2. Check(s, WorkOf(s).loaded \cap applied = {}, "Saving")
    BY <1>3 DEF EnsureNoApplications
  <2>3. QED
    BY <2>1, <2>2, CheckKeepsInv
<1>4. CASE Commit(s)
  BY <1>4, SaveKeepsInv
<1>5. CASE SaveFails(s) \/ Abandon(s)
  BY <1>5, RefuseKeepsInv DEF SaveFails, Abandon
<1>6. QED
  BY <1>1, <1>2, <1>3, <1>4, <1>5 DEF Advance

\* Every step keeps the invariant.
LEMMA StepKeepsInv == Inv /\ [Next]_vars => Inv'
<1> SUFFICES ASSUME Inv, [Next]_vars PROVE Inv'
  OBVIOUS
<1>1. ASSUME NEW s \in Slots,
             ManagerArrives(s) \/ Advance(s) \/ CommitUnanswered(s) \/ Abandon(s)
      PROVE  Inv'
  BY <1>1, ArrivalKeepsInv, AdvanceKeepsInv, SaveKeepsInv
<1>2. ASSUME NEW u \in Units, StartApplication(u) \/ IssueLease(u)
      PROVE  Inv'
  BY <1>2, UseCaseKeepsInv
<1>3. CASE UNCHANGED vars
  BY <1>3 DEF vars, tables, Inv, TypeOK, UnitNumbersUnique, UnitsHaveProperty,
              NumbersUnique, PendingSelectable, WorkSelectable, WorkOf
<1>4. QED
  BY <1>1, <1>2, <1>3 DEF Next

LEMMA InvHolds == Spec => []Inv
  BY InitInv, StepKeepsInv, PTL DEF Spec

----------------------------------------------------------------------------
(* Invariants *)

\* The tables hold rows of their types and the requests in progress have work of
\* their kind, for any number of requests and retries.
THEOREM TypeCorrect == Spec => []TypeOK
<1>1. Inv => TypeOK
  BY DEF Inv
<1>2. QED
  BY InvHolds, <1>1, PTL

\* No interleaving of additions, renamings and retries gives two units of one
\* property the same number (the unique index of UnitConfiguration).
THEOREM NumbersStayUnique == Spec => []UnitNumbersUnique
<1>1. Inv => UnitNumbersUnique
  BY DEF Inv
<1>2. QED
  BY InvHolds, <1>1, PTL

\* No interleaving leaves a unit without its property: an addition fails on the
\* foreign key, and a removal takes along the units it never saw
\* (PropertyConfiguration).
THEOREM UnitsStayInProperties == Spec => []UnitsHaveProperty
<1>1. Inv => UnitsHaveProperty
  BY DEF Inv
<1>2. QED
  BY InvHolds, <1>1, PTL

----------------------------------------------------------------------------
(* What a step may not do *)

\* A step changes units only by saving.
LEMMA OnlySavesChangeUnits ==
    ASSUME [Next]_vars, ~ \E s \in Slots : Save(s)
    PROVE  UNCHANGED <<properties, units>>
<1>1. CASE UNCHANGED vars
  BY <1>1 DEF vars, tables
<1>2. ASSUME NEW s \in Slots, ManagerArrives(s)
      PROVE  UNCHANGED <<properties, units>>
  BY <1>2 DEF ManagerArrives, CreateProperty, UpdateProperty, DeleteProperty,
              CreateUnit, UpdateUnit, DeleteUnit, Begin, tables
<1>3. ASSUME NEW s \in Slots, Advance(s) \/ CommitUnanswered(s) \/ Abandon(s)
      PROVE  UNCHANGED <<properties, units>>
  BY <1>3 DEF Advance, EnsureUnitNumberUnique, EnsureNoLeases, EnsureNoApplications,
              Check, Commit, SaveFails, CommitUnanswered, Abandon, Refuse, tables
<1>4. ASSUME NEW u \in Units, StartApplication(u) \/ IssueLease(u)
      PROVE  UNCHANGED <<properties, units>>
  BY <1>4 DEF StartApplication, IssueLease
<1>5. QED
  BY <1>1, <1>2, <1>3, <1>4 DEF Next

\* A save writes an inactive type nowhere, because the work that waits to be
\* saved never holds one (PendingSelectable).
LEMMA SaveFades ==
    ASSUME Inv, NEW s \in Slots, Save(s)
    PROVE  InactiveNeverAdopted
<1> DEFINE work == WorkOf(s)
<1>1. /\ TypeOK
      /\ work \in Works
      /\ CanSave(work)
      /\ WorkSelectable(work)
  BY WorkTyped DEF Inv, Save, InPhase, PendingSelectable
<1>2. CASE SaveNewProperty(work) \/ SaveProperty(work)
  BY <1>2 DEF SaveNewProperty, SaveProperty, tables, InactiveNeverAdopted
<1>3. CASE SaveNewUnit(work)
  <2>1. work.row.type \in ActiveTypes
    BY <1>1, <1>3 DEF SaveNewUnit, WorkSelectable
  <2>2. QED
    BY <1>3, <2>1 DEF SaveNewUnit, InactiveNeverAdopted
<1>4. CASE SaveUnit(work)
  <2>1. CASE work.columns = {}
    BY <1>4, <2>1 DEF SaveUnit, InactiveNeverAdopted
  <2>2. CASE work.columns # {}
    <3>1. work.unit \in DOMAIN units
      BY <1>1, <1>4, <2>2 DEF SaveUnit, CanSave
    <3>2. \/ Saved(work).type = units[work.unit].type
          \/ Saved(work).type \in ActiveTypes
      BY <1>1, <1>4, <3>1, SavedTyped DEF SaveUnit, WorkSelectable
    <3>3. QED
      BY <1>1, <1>4, <2>2, <3>1, <3>2 DEF SaveUnit, InactiveNeverAdopted
  <2>3. QED
    BY <2>1, <2>2
<1>5. CASE SaveRemoval(work)
  BY <1>5 DEF SaveRemoval, InactiveNeverAdopted
<1>6. QED
  BY <1>2, <1>3, <1>4, <1>5 DEF Save

\* An inactive type is never taken up by a unit, whatever forms are open and in
\* whatever order they are posted and saved (UnitType.IsSelectableFor).
THEOREM InactiveTypesOnlyFade == Spec => InactiveTypesFade
<1>1. Inv /\ [Next]_vars => [InactiveNeverAdopted]_vars
  <2> SUFFICES ASSUME Inv, [Next]_vars PROVE InactiveNeverAdopted
    OBVIOUS
  <2>1. CASE \E s \in Slots : Save(s)
    BY <2>1, SaveFades
  <2>2. CASE ~ \E s \in Slots : Save(s)
    BY <2>2, OnlySavesChangeUnits DEF InactiveNeverAdopted
  <2>3. QED
    BY <2>1, <2>2
<1>2. QED
  BY InvHolds, <1>1, PTL DEF Spec, InactiveTypesFade

\* A save neither removes nor moves a let unit: the leases of all the units that
\* would go are consulted as they are at that moment.
LEMMA SaveKeepsLet ==
    ASSUME Inv, NEW s \in Slots, Save(s)
    PROVE  LetUnitKept
<1> DEFINE work == WorkOf(s)
<1>1. /\ TypeOK
      /\ UnitsHaveProperty
      /\ work \in Works
      /\ CanSave(work)
      /\ leased \subseteq DOMAIN units
  BY WorkTyped DEF Inv, Save, InPhase, TypeOK
<1>2. CASE SaveNewProperty(work)
  BY <1>1, <1>2 DEF SaveNewProperty, LetUnitKept, UnitsHaveProperty
<1>3. CASE SaveProperty(work)
  BY <1>1, <1>3 DEF SaveProperty, tables, LetUnitKept, UnitsHaveProperty
<1>4. CASE SaveNewUnit(work)
  BY <1>1, <1>4 DEF SaveNewUnit, LetUnitKept, UnitsHaveProperty, FreeUnits
<1>5. CASE SaveUnit(work)
  <2>1. CASE work.columns = {}
    BY <1>1, <1>5, <2>1 DEF SaveUnit, LetUnitKept, UnitsHaveProperty
  <2>2. CASE work.columns # {}
    <3>1. work.unit \in DOMAIN units
      BY <1>1, <1>5, <2>2 DEF SaveUnit, CanSave
    <3>2. Saved(work).property = units[work.unit].property
      BY <1>1, <1>5, <3>1, SavedTyped DEF SaveUnit
    <3>3. QED
      BY <1>1, <1>5, <2>2, <3>1, <3>2 DEF SaveUnit, LetUnitKept, UnitsHaveProperty
  <2>3. QED
    BY <2>1, <2>2
<1>6. CASE SaveRemoval(work)
  <2>1. Gone(work) \cap leased = {}
    BY <1>1, <1>6 DEF SaveRemoval, CanSave, CanRemove
  <2>2. \A u \in DOMAIN units : units[u].property = work.property /\ work.property # None
                                  => u \in Gone(work)
    BY DEF Gone, UnitsOf
  <2>3. \A u \in DOMAIN units : units[u].property # None
    BY <1>1 DEF CatalogAssumption, TypeOK, UnitRow
  <2>4. QED
    BY <1>1, <1>6, <2>1, <2>2, <2>3 DEF SaveRemoval, LetUnitKept, UnitsHaveProperty
<1>7. QED
  BY <1>2, <1>3, <1>4, <1>5, <1>6 DEF Save

\* No step removes a unit that has a lease, or the property it is in, also when
\* the lease is issued between the queries of a removal and its save
\* (DeletePropertyAsync, DeleteUnitAsync and the Restrict foreign key of leases).
THEOREM LetUnitsRemain == Spec => LetUnitsStay
<1>1. Inv /\ [Next]_vars => [LetUnitKept]_vars
  <2> SUFFICES ASSUME Inv, [Next]_vars PROVE LetUnitKept
    OBVIOUS
  <2>1. CASE \E s \in Slots : Save(s)
    BY <2>1, SaveKeepsLet
  <2>2. CASE ~ \E s \in Slots : Save(s)
    BY <2>2, OnlySavesChangeUnits DEF LetUnitKept, Inv, TypeOK, UnitsHaveProperty
  <2>3. QED
    BY <2>1, <2>2
<1>2. QED
  BY InvHolds, <1>1, PTL DEF Spec, LetUnitsStay

----------------------------------------------------------------------------
(* One request at a time *)

\* What the queries of a request have found, as long as nothing has been saved
\* since: the rows it works on are there and are as it has loaded them, and no
\* unit but the one the input names has the number it is about to give.
WorkFits(work, phase) ==
    /\ work.kind \in {"AddUnit", "ChangeUnit"} => phase \in {"TypeChecked", "Saving"}
    /\ work.kind = "ChangeProperty" => work.property \in properties
    /\ work.kind = "AddUnit" =>
          /\ work.row.property \in properties
          /\ phase = "Saving" => ~NumberTaken(work.row, {work.unit})
    /\ work.kind = "ChangeUnit" =>
          /\ work.unit \in DOMAIN units
          /\ work.row.property = units[work.unit].property
          /\ "number" \notin work.columns => work.row.number = units[work.unit].number
          /\ phase = "Saving" => ~NumberTaken(work.row, {work.unit})
    /\ work.kind = "Remove" =>
          /\ work.loaded \subseteq DOMAIN units
          /\ work.property \in properties \cup {None}
          /\ work.property # None => work.loaded = UnitsOf(work.property)

RequestFits(s) ==
    requests[s] # Idle /\ requests[s].attempts = 0 =>
        WorkFits(WorkOf(s), requests[s].phase)

UnsavedFits == \A s \in Slots : RequestFits(s)

\* A request begins with what its first queries have found.
LEMMA ArrivalFits ==
    ASSUME TypeOK, NEW s \in Slots, ManagerArrives(s)
    PROVE  \E phase \in Phases, work \in Works :
              Begin(s, phase, work) /\ WorkFits(work, phase)
<1>1. CASE CreateProperty(s)
  BY <1>1 DEF CreateProperty, AddProperty, Works, Phases, WorkFits
<1>2. CASE \E p \in Properties : UpdateProperty(s, p)
  BY <1>2 DEF UpdateProperty, ChangeProperty, Works, Phases, WorkFits
<1>3. CASE \E p \in Properties : DeleteProperty(s, p)
  <2>1. PICK p \in Properties : DeleteProperty(s, p)
    BY <1>3
  <2> DEFINE work == Remove(p, UnitsOf(p))
  <2>2. UnitsOf(p) \subseteq Units /\ UnitsOf(p) \subseteq DOMAIN units
    BY DEF UnitsOf, TypeOK
  <2>3. work \in Works
    BY <2>2 DEF Remove, Works
  <2>4. WorkFits(work, "Loaded")
    BY <2>1, <2>2 DEF DeleteProperty, Remove, WorkFits
  <2>5. Begin(s, "Loaded", work)
    BY <2>1 DEF DeleteProperty
  <2> HIDE DEF work
  <2>6. QED
    BY <2>3, <2>4, <2>5 DEF Phases
<1>4. CASE \E id \in Units \cup {None}, row \in UnitRow : CreateUnit(s, id, row)
  BY <1>4 DEF CreateUnit, AddUnit, Works, Phases, WorkFits
<1>5. CASE \E u \in Units, row \in UnitRow : UpdateUnit(s, u, row)
  <2>1. PICK u \in Units, input \in UnitRow : UpdateUnit(s, u, input)
    BY <1>5
  <2> DEFINE row == [input EXCEPT !.property = units[u].property]
             work == ChangeUnit(u, units[u], row)
  <2>2. u \in DOMAIN units /\ units[u] \in UnitRow
    BY <2>1 DEF UpdateUnit, TypeOK
  <2>3. row \in UnitRow /\ row.property = units[u].property
    BY <2>2 DEF UnitRow
  <2> HIDE DEF row
  <2>4. work \in Works
    BY <2>3 DEF ChangeUnit, Works
  <2>5. WorkFits(work, "TypeChecked")
    BY <2>2, <2>3, Zenon DEF ChangeUnit, WorkFits
  <2>6. Begin(s, "TypeChecked", work)
    BY <2>1 DEF UpdateUnit, row
  <2> HIDE DEF work
  <2>7. QED
    BY <2>4, <2>5, <2>6 DEF Phases
<1>6. CASE \E u \in Units : DeleteUnit(s, u)
  <2>1. PICK u \in Units : DeleteUnit(s, u)
    BY <1>6
  <2>2. Remove(None, {u}) \in Works /\ WorkFits(Remove(None, {u}), "Loaded")
    BY <2>1 DEF DeleteUnit, Remove, Works, WorkFits
  <2>3. QED
    BY <2>1, <2>2 DEF DeleteUnit, Phases
<1>7. QED
  BY <1>1, <1>2, <1>3, <1>4, <1>5, <1>6 DEF ManagerArrives

\* What fits the tables goes on to fit them while they stay.
LEMMA FitStays ==
    ASSUME UNCHANGED <<properties, units>>,
           NEW work, NEW phase, WorkFits(work, phase)
    PROVE  WorkFits(work, phase)'
BY DEF WorkFits, NumberTaken, UnitsOf

\* A request does so too while it keeps its work and its phase.
LEMMA RequestStays ==
    ASSUME UNCHANGED <<properties, units>>, UnsavedFits, NEW t \in Slots,
           requests'[t] = Idle \/ requests'[t] = requests[t]
    PROVE  RequestFits(t)'
<1> SUFFICES ASSUME requests'[t] # Idle, requests'[t].attempts = 0
             PROVE  WorkFits(WorkOf(t), requests[t].phase)'
  BY DEF RequestFits
<1>1. requests'[t] = requests[t]
  OBVIOUS
<1>2. WorkFits(requests[t].work, requests[t].phase)
  BY <1>1 DEF UnsavedFits, RequestFits, WorkOf
<1>3. PICK work, phase : work = requests[t].work /\ phase = requests[t].phase
  OBVIOUS
<1>4. WorkFits(work, phase)'
  BY <1>2, <1>3, FitStays
<1>5. work = WorkOf(t)' /\ phase = requests'[t].phase
  BY <1>1, <1>3 DEF WorkOf
<1>6. QED
  BY <1>4, <1>5 DEF WorkFits, NumberTaken, UnitsOf

\* A save is the last of the unsaved requests: there is no other it could upset.
LEMMA UnsavedStep ==
    ASSUME Inv, OneRequestAtATime, UnsavedFits, [Next]_vars
    PROVE  UnsavedFits'
<1>0. requests \in [Slots -> {Idle} \cup
                        [phase : Phases, work : Works, attempts : 0..MaxRetries]]
  BY DEF Inv, TypeOK
<1>1. ASSUME NEW s \in Slots, ManagerArrives(s) PROVE UnsavedFits'
  <2>1. PICK phase \in Phases, work \in Works : Begin(s, phase, work) /\ WorkFits(work, phase)
    BY <1>1, ArrivalFits DEF Inv
  <2> DEFINE new == [phase |-> phase, work |-> work, attempts |-> 0]
  <2>2. requests' = [requests EXCEPT ![s] = new] /\ UNCHANGED <<properties, units>>
    BY <2>1 DEF Begin, tables
  <2>3. WorkFits(work, phase)'
    BY <2>1, <2>2, FitStays
  <2>4. RequestFits(s)'
    <3>1. requests'[s] = new
      BY <1>0, <2>2
    <3> HIDE DEF new
    <3>2. WorkOf(s)' = work /\ requests'[s].phase = phase
      BY <3>1 DEF WorkOf, new
    <3>3. QED
      BY <2>3, <3>2 DEF RequestFits, WorkFits, NumberTaken, UnitsOf
  <2>5. ASSUME NEW t \in Slots, t # s PROVE RequestFits(t)'
    BY <1>0, <2>2, <2>5, RequestStays
  <2>6. QED
    BY <2>4, <2>5 DEF UnsavedFits
<1>2. ASSUME NEW s \in Slots, Refuse(s) PROVE UnsavedFits'
  <2>1. requests' = [requests EXCEPT ![s] = Idle] /\ UNCHANGED <<properties, units>>
    BY <1>2 DEF Refuse, Finish, tables
  <2>2. QED
    BY <1>0, <2>1, RequestStays DEF UnsavedFits
<1>3. ASSUME NEW s \in Slots, NEW condition \in BOOLEAN, NEW phase \in Phases,
             requests[s] # Idle,
             Check(s, condition, phase),
             condition /\ requests[s].attempts = 0 /\ WorkFits(WorkOf(s), requests[s].phase)
                 => WorkFits(WorkOf(s), phase)
      PROVE  UnsavedFits'
  <2>1. CASE ~condition
    BY <1>2, <1>3, <2>1 DEF Check
  <2>2. CASE condition
    <3>1. requests' = [requests EXCEPT ![s].phase = phase] /\ UNCHANGED <<properties, units>>
      BY <1>3, <2>2 DEF Check, Refuse, tables
    <3>2. requests[s] \in [phase : Phases, work : Works, attempts : 0..MaxRetries]
      BY <1>3, WorkTyped DEF Inv
    <3>3. RequestFits(s)'
      <4>1. /\ WorkOf(s)' = WorkOf(s)
            /\ requests'[s].attempts = requests[s].attempts
            /\ requests'[s].phase = phase
        BY <1>0, <3>1, <3>2 DEF WorkOf
      <4>2. SUFFICES ASSUME requests[s].attempts = 0
                     PROVE  WorkFits(WorkOf(s), requests[s].phase)'
        BY <4>1 DEF RequestFits
      <4>3. WorkFits(WorkOf(s), phase)
        BY <1>3, <2>2, <4>2 DEF UnsavedFits, RequestFits
      <4>4. PICK work : work = WorkOf(s)
        OBVIOUS
      <4>5. WorkFits(work, phase)'
        BY <3>1, <4>3, <4>4, FitStays
      <4>6. QED
        BY <4>1, <4>4, <4>5 DEF WorkFits, NumberTaken, UnitsOf
    <3>4. ASSUME NEW t \in Slots, t # s PROVE RequestFits(t)'
      BY <1>0, <3>1, <3>4, RequestStays
    <3>5. QED
      BY <3>3, <3>4 DEF UnsavedFits
  <2>3. QED
    BY <2>1, <2>2
<1>4. ASSUME NEW s \in Slots, EnsureUnitNumberUnique(s)
      PROVE  UnsavedFits'
  <2> DEFINE condition == ~NumberTaken(WorkOf(s).row, Self(WorkOf(s)))
  <2>1. /\ condition \in BOOLEAN
        /\ "Saving" \in Phases
        /\ requests[s] # Idle
        /\ Check(s, condition, "Saving")
    BY <1>4 DEF Phases, EnsureUnitNumberUnique, InPhase, NumberTaken
  <2>2. condition /\ WorkFits(WorkOf(s), requests[s].phase) => WorkFits(WorkOf(s), "Saving")
    BY DEF WorkFits, Self
  <2> HIDE DEF condition
  <2>3. QED
    BY <1>3, <2>1, <2>2
<1>5. ASSUME NEW s \in Slots, EnsureNoLeases(s)
      PROVE  UnsavedFits'
  <2> DEFINE condition == WorkOf(s).loaded \cap leased = {}
  <2>1. /\ condition \in BOOLEAN
        /\ "NotLeased" \in Phases
        /\ requests[s] # Idle
        /\ Check(s, condition, "NotLeased")
    BY <1>5 DEF Phases, EnsureNoLeases, InPhase
  <2>2. WorkFits(WorkOf(s), requests[s].phase) => WorkFits(WorkOf(s), "NotLeased")
    BY <1>5 DEF EnsureNoLeases, InPhase, WorkFits
  <2> HIDE DEF condition
  <2>3. QED
    BY <1>3, <2>1, <2>2
<1>6. ASSUME NEW s \in Slots, EnsureNoApplications(s)
      PROVE  UnsavedFits'
  <2> DEFINE condition == WorkOf(s).loaded \cap applied = {}
  <2>1. /\ condition \in BOOLEAN
        /\ "Saving" \in Phases
        /\ requests[s] # Idle
        /\ Check(s, condition, "Saving")
    BY <1>6 DEF Phases, EnsureNoApplications, InPhase
  <2>2. WorkFits(WorkOf(s), requests[s].phase) => WorkFits(WorkOf(s), "Saving")
    BY <1>6 DEF EnsureNoApplications, InPhase, WorkFits
  <2> HIDE DEF condition
  <2>3. QED
    BY <1>3, <2>1, <2>2
<1>7. ASSUME NEW s \in Slots, Commit(s) \/ CommitUnanswered(s)
      PROVE  UnsavedFits'
  <2>1. requests[s] # Idle
    BY <1>7 DEF Commit, CommitUnanswered, Save, InPhase
  <2>2. ASSUME NEW t \in Slots, t # s
        PROVE  requests'[t] = Idle
    <3>1. requests[t] = Idle
      BY <2>1, <2>2 DEF OneRequestAtATime
    <3>2. QED
      BY <1>0, <1>7, <2>2, <3>1 DEF Commit, CommitUnanswered, Finish
  <2>3. requests'[s] = Idle \/ requests'[s].attempts # 0
    <3>1. requests[s] \in [phase : Phases, work : Works, attempts : 0..MaxRetries]
      BY <2>1, WorkTyped DEF Inv
    <3>2. QED
      BY <1>0, <1>7, <3>1 DEF Commit, CommitUnanswered, Finish
  <2>4. QED
    BY <2>2, <2>3 DEF UnsavedFits, RequestFits
<1>8. ASSUME NEW u \in Units, StartApplication(u) \/ IssueLease(u)
      PROVE  UnsavedFits'
  BY <1>8, RequestStays DEF UnsavedFits, StartApplication, IssueLease
<1>9. CASE UNCHANGED vars
  BY <1>9, RequestStays DEF UnsavedFits, vars, tables
<1>10. ASSUME NEW s \in Slots, Advance(s) \/ Abandon(s)
       PROVE  UnsavedFits'
  BY <1>2, <1>4, <1>5, <1>6, <1>7, <1>10 DEF Advance, SaveFails, Abandon
<1>11. QED
  BY <1>1, <1>7, <1>8, <1>9, <1>10 DEF Next

\* What the queries have found is all that the schema asks for, but for leases.
LEMMA FitSuffices ==
    ASSUME Inv, UnsavedFits
    PROVE  FirstSaveSucceeds
<1> SUFFICES ASSUME NEW s \in Slots, InPhase(s, "Saving"), requests[s].attempts = 0
             PROVE  \/ CanSave(WorkOf(s))
                    \/ WorkOf(s).kind = "Remove" /\ WorkOf(s).loaded \cap leased # {}
                    \/ NamesItsTwin(WorkOf(s))
  BY DEF FirstSaveSucceeds
<1> DEFINE work == WorkOf(s)
<1>1. work \in Works /\ WorkFits(work, "Saving")
  BY WorkTyped DEF Inv, InPhase, UnsavedFits, RequestFits
<1> HIDE DEF work
<1>2. CASE work.kind = "AddProperty"
  BY <1>2 DEF CanSave, work
<1>3. CASE work.kind = "ChangeProperty"
  BY <1>1, <1>3 DEF CanSave, WorkFits, work
<1>4. CASE work.kind = "AddUnit"
  <2>1. HasProperty(work.row) /\ ~NumberTaken(work.row, {work.unit})
    BY <1>1, <1>4 DEF WorkFits, HasProperty
  <2>2. CASE work.unit \in DOMAIN units
    BY <1>4, <2>1, <2>2 DEF NamesItsTwin, Self, work
  <2>3. CASE work.unit \notin DOMAIN units
    <3>1. FitsIndex(work.row, {})
      BY <2>1, <2>3 DEF FitsIndex, NumberTaken
    <3>2. QED
      BY <1>4, <2>1, <3>1 DEF CanSave, work
  <2>4. QED
    BY <2>2, <2>3
<1>5. CASE work.kind = "ChangeUnit"
  <2>1. /\ work.unit \in DOMAIN units
        /\ work.row.property = units[work.unit].property
        /\ "number" \notin work.columns => work.row.number = units[work.unit].number
        /\ ~NumberTaken(work.row, {work.unit})
    BY <1>1, <1>5 DEF WorkFits
  <2>2. Saved(work).property = work.row.property /\ Saved(work).number = work.row.number
    BY <2>1 DEF Saved
  <2>3. FitsIndex(Saved(work), {work.unit})
    BY <2>1, <2>2 DEF FitsIndex, NumberTaken
  <2>4. QED
    BY <1>5, <2>1, <2>3 DEF CanSave, work
<1>6. CASE work.kind = "Remove"
  <2>1. Gone(work) = work.loaded
    BY <1>1, <1>6 DEF WorkFits, Gone
  <2>2. QED
    BY <1>1, <1>6, <2>1 DEF CanSave, CanRemove, WorkFits, work
<1>7. QED
  BY <1>1, <1>2, <1>3, <1>4, <1>5, <1>6 DEF Works, work

\* As long as no two requests overlap, the first save of a request fails only if a
\* lease was issued since its queries, or if the form of a new unit named the unit
\* that has its number, whatever was saved before and however often it was sent: but
\* for these, what CatalogService asks for (the rows it finds, the leases, the
\* applications, EnsureUnitNumberUniqueAsync) is all that the schema insists on.
THEOREM GuardsSufficeAlone == Spec => GuardsSuffice
<1>1. Init => UnsavedFits
  BY DEF Init, UnsavedFits, RequestFits
<1>2. Inv /\ OneRequestAtATime /\ UnsavedFits /\ [Next]_vars => UnsavedFits'
  BY UnsavedStep
<1>3. Inv /\ UnsavedFits => FirstSaveSucceeds
  BY FitSuffices
<1>4. QED
  BY InvHolds, <1>1, <1>2, <1>3, PTL DEF Spec, GuardsSuffice

----------------------------------------------------------------------------
(* Requests end *)

\* A step of another request, or of none, leaves a request as it is; an answer that
\* is lost leaves it where it was.
LEMMA OthersLeaveIt ==
    ASSUME TypeOK, NEW s \in Slots, requests[s] # Idle, [Next]_vars, ~Advance(s)
    PROVE  requests'[s] = Idle \/ requests'[s].phase = requests[s].phase
<1>1. requests = [t \in Slots |-> requests[t]]
      /\ requests[s] \in [phase : Phases, work : Works, attempts : 0..MaxRetries]
  BY WorkTyped DEF TypeOK
<1>2. ASSUME NEW t \in Slots, ManagerArrives(t)
      PROVE  requests'[s] = requests[s]
  BY <1>1, <1>2, ArrivalFits DEF Begin
<1>3. ASSUME NEW t \in Slots, t # s, Finish(t) \/ \E phase : requests' = [requests EXCEPT ![t].phase = phase]
      PROVE  requests'[s] = requests[s]
  BY <1>1, <1>3 DEF Finish
<1>4. ASSUME NEW t \in Slots, t # s, Advance(t)
      PROVE  requests'[s] = requests[s]
  BY <1>3, <1>4 DEF Advance, EnsureUnitNumberUnique, EnsureNoLeases, EnsureNoApplications,
     Check, Commit, SaveFails, Refuse
<1>5. ASSUME NEW t \in Slots, CommitUnanswered(t)
      PROVE  requests'[s].phase = requests[s].phase
  BY <1>1, <1>5 DEF CommitUnanswered
<1>6. ASSUME NEW t \in Slots, Abandon(t)
      PROVE  requests'[s] \in {Idle, requests[s]}
  BY <1>1, <1>6 DEF Abandon, Refuse, Finish
<1>7. CASE UNCHANGED vars \/ \E u \in Units : StartApplication(u) \/ IssueLease(u)
  BY <1>7 DEF vars, StartApplication, IssueLease
<1>8. QED
  BY <1>2, <1>4, <1>5, <1>6, <1>7 DEF Next

\* A handler goes from query to query to its save, and ends with it.
LEMMA HandlerGoesOn ==
    ASSUME TypeOK, NEW s \in Slots, requests[s] # Idle, Advance(s)
    PROVE  \/ requests'[s] = Idle
           \/ requests[s].phase = "TypeChecked" /\ requests'[s].phase = "Saving"
           \/ requests[s].phase = "Loaded" /\ requests'[s].phase = "NotLeased"
           \/ requests[s].phase = "NotLeased" /\ requests'[s].phase = "Saving"
<1>1. requests = [t \in Slots |-> requests[t]]
      /\ requests[s] \in [phase : Phases, work : Works, attempts : 0..MaxRetries]
  BY WorkTyped DEF TypeOK
<1>2. Finish(s) => requests'[s] = Idle
  BY <1>1 DEF Finish
<1>3. ASSUME NEW condition, NEW phase, Check(s, condition, phase)
      PROVE  requests'[s] = Idle \/ requests'[s].phase = phase
  BY <1>1, <1>2, <1>3 DEF Check, Refuse
<1>4. QED
  BY <1>2, <1>3 DEF Advance, EnsureUnitNumberUnique, EnsureNoLeases, EnsureNoApplications,
     Commit, SaveFails, Refuse, InPhase

\* The value that a save takes from an identity column is there.
IdsFor(work) ==
    /\ work.kind = "AddProperty" => FreeProperties # {}
    /\ work.kind = "AddUnit" => FreeUnits # {}

\* The identity columns do not run out.
IdsRemain == \A s \in Slots : InPhase(s, "Saving") => IdsFor(WorkOf(s))

\* A query can be answered, and a save commits or fails: what the guards of the
\* handler's actions say of ENABLED, which has no rules in the prover.
AdvanceEnabled ==
    \A s \in Slots :
        \/ InPhase(s, "TypeChecked")
        \/ InPhase(s, "Loaded")
        \/ InPhase(s, "NotLeased")
        \/ InPhase(s, "Saving") /\ (CanSave(WorkOf(s)) => IdsFor(WorkOf(s)))
        => ENABLED <<Advance(s)>>_vars

\* Every request ends, whatever other managers and the use cases of applications do
\* to the rows it works on and however often its answers are lost, for any number of
\* requests at a time, as long as the identity columns do not run out.
THEOREM RequestsComeToAnEnd == Spec /\ []IdsRemain /\ []AdvanceEnabled => RequestsEnd
<1>1. ASSUME NEW s \in Slots
      PROVE  Spec /\ []IdsRemain /\ []AdvanceEnabled => (requests[s] # Idle ~> requests[s] = Idle)
  <2> DEFINE At(phase) == requests[s] # Idle /\ requests[s].phase = phase
             Going     == requests[s] # Idle
             Typed     == At("TypeChecked")
             Loaded    == At("Loaded")
             NotLeased == At("NotLeased")
             AtSave    == At("Saving")
             Ended     == requests[s] = Idle
  <2>1. TypeOK /\ Going => Typed \/ Loaded \/ NotLeased \/ AtSave
    BY WorkTyped DEF Phases
  <2>2. /\ TypeOK /\ Typed /\ [Next]_vars => Typed' \/ AtSave' \/ Ended'
        /\ TypeOK /\ Loaded /\ [Next]_vars => Loaded' \/ NotLeased' \/ Ended'
        /\ TypeOK /\ NotLeased /\ [Next]_vars => NotLeased' \/ AtSave' \/ Ended'
        /\ TypeOK /\ AtSave /\ [Next]_vars => AtSave' \/ Ended'
    BY OthersLeaveIt, HandlerGoesOn
  <2>3. /\ TypeOK /\ Typed /\ <<Next /\ Advance(s)>>_vars => AtSave' \/ Ended'
        /\ TypeOK /\ Loaded /\ <<Next /\ Advance(s)>>_vars => NotLeased' \/ Ended'
        /\ TypeOK /\ NotLeased /\ <<Next /\ Advance(s)>>_vars => AtSave' \/ Ended'
        /\ TypeOK /\ AtSave /\ <<Next /\ Advance(s)>>_vars => Ended'
    BY HandlerGoesOn
  <2>4. IdsRemain /\ AdvanceEnabled /\ (Typed \/ Loaded \/ NotLeased \/ AtSave)
        => ENABLED <<Advance(s)>>_vars
    BY DEF IdsRemain, AdvanceEnabled, InPhase
  <2>5. Fairness => WF_vars(Advance(s))
    <3>1. Fairness => Served(s)
      BY DEF Fairness
    <3>2. QED
      BY <3>1, PTL DEF Served
  <2> HIDE DEF Going, Typed, Loaded, NotLeased, AtSave, Ended
  <2>6. Spec /\ []IdsRemain /\ []AdvanceEnabled => (Going ~> Ended)
    BY <2>1, <2>2, <2>3, <2>4, <2>5, TypeCorrect, PTL DEF Spec
  <2>7. QED
    BY <2>6, PTL DEF Going, Ended
<1>2. QED
  BY <1>1 DEF RequestsEnd

=============================================================================
