------------------------------- MODULE Catalog -------------------------------
(***************************************************************************)
(* Properties and their units, as managers maintain them                   *)
(* (PropertyManagement.Application/Catalog/CatalogService).  Requests run  *)
(* side by side: a handler's queries and its SaveChanges are steps of      *)
(* their own, and the foreign keys and the unique index of the schema are  *)
(* all that relates a save to what the queries saw.  Lost answers and      *)
(* retries are as in ConcurrentRequests.                                   *)
(*                                                                         *)
(* A number stands for the unit numbers that are equal once trimmed, under *)
(* the collation of the database.  Names and addresses of properties are   *)
(* left out: nothing is decided by them.  Applications and leases are the  *)
(* units they are for: what the catalog asks about them.                   *)
(***************************************************************************)
EXTENDS Integers, FiniteSets

CONSTANTS
    Properties,      \* ids the properties table may hand out
    Units,           \* ids the units table may hand out
    Numbers,         \* unit numbers
    Types,           \* rows of the unit-types lookup
    ActiveTypes,     \* those with IsActive
    SeedProperties,  \* the tables as the seeder leaves them
    SeedUnits,
    Slots,           \* requests that may be in progress at the same time
    MaxRetries,      \* bound: retries of a SaveChanges (10 in the code)
    None,            \* no property, no unit, no current unit type
    Idle             \* a slot without a request

UnitRow == [property : Properties, number : Numbers, type : Types]

VARIABLES
    properties,   \* ids of the properties there are
    units,        \* unit id -> row
    applied,      \* units with an application
    leased,       \* units with a lease
    requests      \* slot -> the request in progress, or Idle

tables == <<properties, units, applied, leased>>

vars == <<tables, requests>>

UnitsOf(p) == {u \in DOMAIN units : units[u].property = p}

\* No two units of a table with one number in one property.
NumbersUnique(table) ==
    \A u, v \in DOMAIN table :
        table[u].property = table[v].property /\ table[u].number = table[v].number
            => u = v

ASSUME CatalogAssumption ==
    /\ ActiveTypes \subseteq Types
    /\ None \notin Properties \cup Units \cup Types
    /\ MaxRetries \in Nat
    /\ SeedProperties \subseteq Properties
    /\ DOMAIN SeedUnits \subseteq Units
    /\ SeedUnits \in [DOMAIN SeedUnits -> UnitRow]
    /\ NumbersUnique(SeedUnits)
    /\ \A u \in DOMAIN SeedUnits : SeedUnits[u].property \in SeedProperties

Init ==
    /\ properties = SeedProperties
    /\ units = SeedUnits
    /\ applied = {}
    /\ leased = {}
    /\ requests = [s \in Slots |-> Idle]

----------------------------------------------------------------------------
(* Requests and their work *)

\* What SaveChanges will send.
AddProperty == [kind |-> "AddProperty"]

ChangeProperty(p) == [kind |-> "ChangeProperty", property |-> p]

\* With the unit the form named, which is nothing that is saved.
AddUnit(id, row) == [kind |-> "AddUnit", unit |-> id, row |-> row]

\* Faulty variant: every column is written, changed or not.
ChangeUnitWholly(u, loaded, row) ==
    [kind |-> "ChangeUnit", unit |-> u, row |-> row, columns |-> {"number", "type"}]

\* Change tracking: only the columns that differ from the loaded row.
ChangeUnit(u, loaded, row) ==
    [kind |-> "ChangeUnit", unit |-> u, row |-> row,
     columns |-> {c \in {"number", "type"} : loaded[c] # row[c]}]

\* The units the handler has loaded, and the property they belong to, if it is
\* to go too.
Remove(p, loaded) == [kind |-> "Remove", property |-> p, loaded |-> loaded]

Begin(s, phase, work) ==
    /\ requests[s] = Idle
    /\ requests' = [requests EXCEPT
                       ![s] = [phase |-> phase, work |-> work, attempts |-> 0]]
    /\ UNCHANGED tables

InPhase(s, phase) == requests[s] # Idle /\ requests[s].phase = phase

WorkOf(s) == requests[s].work

Finish(s) == requests' = [requests EXCEPT ![s] = Idle]

Refuse(s) == Finish(s) /\ UNCHANGED tables

\* A query finds what it must, or the request is refused.
Check(s, condition, phase) ==
    \/ /\ condition
       /\ requests' = [requests EXCEPT ![s].phase = phase]
       /\ UNCHANGED tables
    \/ ~condition /\ Refuse(s)

Pending(kinds) == {s \in Slots : requests[s] # Idle /\ requests[s].work.kind \in kinds}

\* The database never hands out an identity value twice.  The model may do so
\* when no row and no request refers to it any more: nothing can tell.  What the
\* form of a new unit names may be an id that is yet to be handed out.
FreeProperties ==
    Properties \ (properties
                     \cup {WorkOf(s).property : s \in Pending({"ChangeProperty", "Remove"})}
                     \cup {WorkOf(s).row.property : s \in Pending({"AddUnit", "ChangeUnit"})})

FreeUnits ==
    Units \ (DOMAIN units
                \cup {WorkOf(s).unit : s \in Pending({"ChangeUnit"})}
                \cup UNION {WorkOf(s).loaded : s \in Pending({"Remove"})})

\* Model bound: a value for every insert under way and one to spare.
RoomToAdd(free, kind) == Cardinality(free) > Cardinality(Pending({kind}))

----------------------------------------------------------------------------
(* Queries *)

\* UnitType.IsSelectableFor
IsSelectableFor(type, current) == type \in ActiveTypes \/ type = current

CreateProperty(s) ==
    /\ RoomToAdd(FreeProperties, "AddProperty")
    /\ Begin(s, "Saving", AddProperty)

\* A post that changes something; posting what the row already holds sends nothing.
UpdateProperty(s, p) ==
    /\ p \in properties
    /\ Begin(s, "Saving", ChangeProperty(p))

DeleteProperty(s, p) ==
    /\ p \in properties
    /\ Begin(s, "Loaded", Remove(p, UnitsOf(p)))

\* The form of a new unit has the hidden Id of the other one: None in the form as
\* it is rendered, and whatever is posted there goes with the input.  The lookup
\* of types never changes, so it is read with the first query.
CreateUnit(s, id, row) ==
    /\ row.property \in properties
    /\ IsSelectableFor(row.type, None)
    /\ RoomToAdd(FreeUnits, "AddUnit")
    /\ Begin(s, "TypeChecked", AddUnit(id, row))

\* Faulty variant: the number is looked for in the posted property.
UpdateUnitAsPosted(s, u, input) ==
    /\ u \in DOMAIN units
    /\ IsSelectableFor(input.type, units[u].type)
    /\ Begin(s, "TypeChecked", ChangeUnit(u, units[u], input))

\* The posted property is replaced by the one the unit belongs to.
UpdateUnit(s, u, input) ==
    /\ u \in DOMAIN units
    /\ IsSelectableFor(input.type, units[u].type)
    /\ Begin(s, "TypeChecked",
             ChangeUnit(u, units[u], [input EXCEPT !.property = units[u].property]))

DeleteUnit(s, u) ==
    /\ u \in DOMAIN units
    /\ Begin(s, "Loaded", Remove(None, {u}))

\* EnsureUnitNumberUniqueAsync
NumberTaken(row, self) ==
    \E v \in DOMAIN units \ self :
        units[v].property = row.property /\ units[v].number = row.number

\* The number may be that of the unit the input names (u.Id != input.Id), also
\* when the input is one for a new unit.
Self(work) == {work.unit}

EnsureUnitNumberUnique(s) ==
    /\ InPhase(s, "TypeChecked")
    /\ Check(s, ~NumberTaken(WorkOf(s).row, Self(WorkOf(s))), "Saving")

\* Faulty variant: the removal waits until its units have no lease.
AwaitNoLeases(s) ==
    /\ InPhase(s, "Loaded")
    /\ WorkOf(s).loaded \cap leased = {}
    /\ Check(s, TRUE, "NotLeased")

EnsureNoLeases(s) ==
    /\ InPhase(s, "Loaded")
    /\ Check(s, WorkOf(s).loaded \cap leased = {}, "NotLeased")

EnsureNoApplications(s) ==
    /\ InPhase(s, "NotLeased")
    /\ Check(s, WorkOf(s).loaded \cap applied = {}, "Saving")

----------------------------------------------------------------------------
(* SaveChanges *)

Saved(work) ==
    [property |-> units[work.unit].property,
     number   |-> IF "number" \in work.columns THEN work.row.number
                                               ELSE units[work.unit].number,
     type     |-> IF "type" \in work.columns THEN work.row.type
                                             ELSE units[work.unit].type]

\* Faulty variant: no foreign key to the property.
HasAnyProperty(row) == TRUE

\* The foreign key to the property.
HasProperty(row) == row.property \in properties

\* Faulty variant: no unique index on (PropertyId, UnitNumber).
NotIndexed(row, self) == TRUE

\* The unique index on (PropertyId, UnitNumber).
FitsIndex(row, self) == ~NumberTaken(row, self)

\* Removing a property removes its units, also those the handler never saw.
Gone(work) ==
    work.loaded \cup IF work.property = None THEN {} ELSE UnitsOf(work.property)

\* Faulty variant: the foreign key of leases does not restrict.
CanRemoveLoaded(work) ==
    /\ work.loaded \subseteq DOMAIN units
    /\ work.property \in properties \cup {None}

\* Every loaded row is still there and no lease restricts the removal.
CanRemove(work) ==
    /\ work.loaded \subseteq DOMAIN units
    /\ work.property \in properties \cup {None}
    /\ Gone(work) \cap leased = {}

\* Saving without a changed column sends nothing and succeeds.
CanSave(work) ==
    CASE work.kind = "AddProperty"    -> TRUE
      [] work.kind = "ChangeProperty" -> work.property \in properties
      [] work.kind = "AddUnit"        -> HasProperty(work.row) /\ FitsIndex(work.row, {})
      [] work.kind = "ChangeUnit"     ->
            work.columns # {} =>
                work.unit \in DOMAIN units /\ FitsIndex(Saved(work), {work.unit})
      [] work.kind = "Remove"         -> CanRemove(work)

SaveNewProperty(work) ==
    /\ work.kind = "AddProperty"
    /\ \E p \in FreeProperties : properties' = properties \cup {p}
    /\ UNCHANGED <<units, applied, leased>>

\* The columns that are written are left out.
SaveProperty(work) ==
    /\ work.kind = "ChangeProperty"
    /\ UNCHANGED tables

SaveNewUnit(work) ==
    /\ work.kind = "AddUnit"
    /\ \E u \in FreeUnits :
          units' = [v \in DOMAIN units \cup {u} |->
                       IF v = u THEN work.row ELSE units[v]]
    /\ UNCHANGED <<properties, applied, leased>>

SaveUnit(work) ==
    /\ work.kind = "ChangeUnit"
    /\ units' = IF work.columns = {} THEN units
                ELSE [units EXCEPT ![work.unit] = Saved(work)]
    /\ UNCHANGED <<properties, applied, leased>>

\* Applications go with their unit (OnDelete Cascade).
SaveRemoval(work) ==
    /\ work.kind = "Remove"
    /\ units' = [u \in DOMAIN units \ Gone(work) |-> units[u]]
    /\ properties' = properties \ {work.property}
    /\ applied' = applied \ Gone(work)
    /\ UNCHANGED leased

Save(s) ==
    /\ InPhase(s, "Saving")
    /\ CanSave(WorkOf(s))
    /\ \/ SaveNewProperty(WorkOf(s))
       \/ SaveProperty(WorkOf(s))
       \/ SaveNewUnit(WorkOf(s))
       \/ SaveUnit(WorkOf(s))
       \/ SaveRemoval(WorkOf(s))

Commit(s) == Save(s) /\ Finish(s)

\* Committed, but the answer is lost: the same work is sent again.
CommitUnanswered(s) ==
    /\ Save(s)
    /\ requests[s].attempts < MaxRetries
    /\ WorkOf(s).kind = "AddProperty" => RoomToAdd(FreeProperties, "AddProperty")
    /\ WorkOf(s).kind = "AddUnit" => RoomToAdd(FreeUnits, "AddUnit")
    /\ requests' = [requests EXCEPT ![s].attempts = @ + 1]

\* A constraint is violated or a row has gone: nothing is saved.
SaveFails(s) ==
    /\ InPhase(s, "Saving")
    /\ ~CanSave(WorkOf(s))
    /\ Refuse(s)

Abandon(s) == requests[s] # Idle /\ Refuse(s)

----------------------------------------------------------------------------
(* What the applications' use cases do to units meanwhile *)

\* StartAsync inserts an application for an existing unit.
StartApplication(u) ==
    /\ u \in DOMAIN units \ applied
    /\ applied' = applied \cup {u}
    /\ UNCHANGED <<properties, units, leased, requests>>

\* ReviewAsync issues the lease of an application.
IssueLease(u) ==
    /\ u \in applied \ leased
    /\ leased' = leased \cup {u}
    /\ UNCHANGED <<properties, units, applied, requests>>

----------------------------------------------------------------------------
ManagerArrives(s) ==
    \/ CreateProperty(s)
    \/ \E p \in Properties : UpdateProperty(s, p) \/ DeleteProperty(s, p)
    \/ \E id \in Units \cup {None}, row \in UnitRow : CreateUnit(s, id, row)
    \/ \E u \in Units, row \in UnitRow : UpdateUnit(s, u, row)
    \/ \E u \in Units : DeleteUnit(s, u)

\* What the server does for a request it has taken.
Advance(s) ==
    \/ EnsureUnitNumberUnique(s)
    \/ EnsureNoLeases(s)
    \/ EnsureNoApplications(s)
    \/ Commit(s)
    \/ SaveFails(s)

Next ==
    \/ \E s \in Slots :
          ManagerArrives(s) \/ Advance(s) \/ CommitUnanswered(s) \/ Abandon(s)
    \/ \E u \in Units : StartApplication(u) \/ IssueLease(u)

\* A request that has been taken is worked on to its end.
Served(s) == WF_vars(Advance(s))

Fairness == \A s \in Slots : Served(s)

Spec == Init /\ [][Next]_vars /\ Fairness

----------------------------------------------------------------------------
(* Properties *)

Works ==
    [kind : {"AddProperty"}]
    \cup [kind : {"ChangeProperty"}, property : Properties]
    \cup [kind : {"AddUnit"}, unit : Units \cup {None}, row : UnitRow]
    \cup [kind : {"ChangeUnit"}, unit : Units, row : UnitRow,
          columns : SUBSET {"number", "type"}]
    \cup [kind : {"Remove"}, property : Properties \cup {None}, loaded : SUBSET Units]

Phases == {"TypeChecked", "Loaded", "NotLeased", "Saving"}

TypeOK ==
    /\ properties \subseteq Properties
    /\ DOMAIN units \subseteq Units
    /\ units \in [DOMAIN units -> UnitRow]
    /\ leased \subseteq applied
    /\ applied \subseteq DOMAIN units
    /\ requests \in [Slots -> {Idle} \cup
                        [phase : Phases, work : Works, attempts : 0..MaxRetries]]

\* Two units of one property never have the same number, although two managers
\* may each have found it free, one by a new unit and one by renaming another
\* (EnsureUnitNumberUniqueAsync and the unique index behind it).
UnitNumbersUnique == NumbersUnique(units)

\* A unit is in a property that exists, also when the property is removed while
\* the unit is being added (the foreign key of Units.PropertyId).
UnitsHaveProperty == \A u \in DOMAIN units : units[u].property \in properties

\* An inactive type stays with the units that have it and is never taken up by
\* another, nor taken up again by a unit that has been given another type since
\* the form was opened (UnitType.IsSelectableFor and change tracking).
InactiveNeverAdopted ==
    \A u \in DOMAIN units' :
        \/ units'[u].type \in ActiveTypes
        \/ u \in DOMAIN units /\ units'[u].type = units[u].type

InactiveTypesFade == [][InactiveNeverAdopted]_vars

\* A let unit is not removed, nor the property it is in, although the lease may
\* be issued after the handler has asked for leases (the Restrict foreign key).
LetUnitKept ==
    \A u \in leased :
        /\ u \in DOMAIN units'
        /\ units'[u].property = units[u].property
        /\ units'[u].property \in properties'

LetUnitsStay == [][LetUnitKept]_vars

\* Every request ends.
RequestsEnd == \A s \in Slots : requests[s] # Idle ~> requests[s] = Idle

\* No two requests are in progress together.
OneRequestAtATime ==
    \A s, t \in Slots : requests[s] # Idle /\ requests[t] # Idle => s = t

\* The form of a new unit names the only unit that may have its number.
NamesItsTwin(work) ==
    /\ work.kind = "AddUnit"
    /\ work.unit \in DOMAIN units
    /\ HasProperty(work.row)
    /\ ~NumberTaken(work.row, Self(work))

FirstSaveSucceeds ==
    \A s \in Slots :
        InPhase(s, "Saving") /\ requests[s].attempts = 0 =>
            \/ CanSave(WorkOf(s))
            \/ WorkOf(s).kind = "Remove" /\ WorkOf(s).loaded \cap leased # {}
            \/ NamesItsTwin(WorkOf(s))

\* As long as requests do not overlap, the queries ask for everything the schema
\* will insist on: a first save fails only if a lease was issued meanwhile, or if
\* a new unit's form named the unit that has the number, which the query for the
\* number leaves out (CreateUnitAsync hands it the posted Id).
GuardsSuffice == []OneRequestAtATime => []FirstSaveSucceeds

=============================================================================
