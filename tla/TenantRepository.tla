-------------------------- MODULE TenantRepository --------------------------
(***************************************************************************)
(* BaseRepository over one table whose rows belong to several tenants, used   *)
(* by request handlers that await between its calls.  A handler acts in the   *)
(* tenant of its RequestContext and passes on whatever where and values its   *)
(* request carries, a tenantId among them.                                   *)
(*                                                                         *)
(* TypeORM's save is two statements: a load by id, then an INSERT or an       *)
(* UPDATE of the columns that differ from what was loaded.  The other calls   *)
(* are one statement each.  What a handler saves it built without an id or    *)
(* has read through this repository: save's load and its UPDATE look for the  *)
(* id alone, so nothing here is promised of an id that came from elsewhere.  *)
(***************************************************************************)
EXTENDS FiniteSets

CONSTANTS
  Tenant, Id, Value,
  Handler,      \* request handlers at work, on any replica
  Absent, NotSaving

ASSUME RepositoryAssumption == Absent \notin Tenant \union Id \union Value \union {NotSaving}

VARIABLES
  rows,         \* the table
  tenant,       \* the tenant each handler acts in (Absent: it is not at work)
  entity,       \* the entity in its hand, as it was when read, or built anew
  loaded        \* what save has loaded by the entity's id (NotSaving: no save under way)

handlers == <<tenant, entity, loaded>>
vars     == <<rows, handlers>>

Row       == [tenantId : Tenant, value : Value, deletedAt : BOOLEAN]
Entity    == [id : Id \union {Absent}, tenantId : Tenant, value : Value, deletedAt : BOOLEAN]

ASSUME AbsentAssumption == Absent \notin Row \union Entity /\ NotSaving \notin Row

TypeOK ==
  /\ rows \in [Id -> Row \union {Absent}]
  /\ tenant \in [Handler -> Tenant \union {Absent}]
  /\ entity \in [Handler -> Entity \union {Absent}]
  /\ loaded \in [Handler -> Row \union {Absent, NotSaving}]

Init ==
  /\ rows = [i \in Id |-> Absent]
  /\ tenant = [h \in Handler |-> Absent]
  /\ entity = [h \in Handler |-> Absent]
  /\ loaded = [h \in Handler |-> NotSaving]

-----------------------------------------------------------------------------
(* Criteria                                                                 *)

\* A clause gives some columns and leaves the others open.
Clause == [id : Id \union {Absent}, tenantId : Tenant \union {Absent}, value : Value \union {Absent}]

Open     == [id |-> Absent, tenantId |-> Absent, value |-> Absent]
ById(i)  == [Open EXCEPT !.id = i]

\* A where is missing, one clause, or an OR of several; {} is the empty array.
OneColumn == {Open} \union {ById(i) : i \in Id}
               \union {[Open EXCEPT !.tenantId = t] : t \in Tenant}
               \union {[Open EXCEPT !.value = v] : v \in Value}
Where == {Absent} \union {{c, d} : c, d \in OneColumn} \union {{}}

\* Slip: the caller's tenantId is honoured.
Slip_SpreadFirst(t, where) ==
  LET clauses == IF where \in {Absent, {}} THEN {Open} ELSE where
  IN {IF c.tenantId = Absent THEN [c EXCEPT !.tenantId = t] ELSE c : c \in clauses}

\* Every clause, and the one of an empty OR, has the tenant forced upon it.
scopeWhereToTenant(t, where) ==
  LET clauses == IF where \in {Absent, {}} THEN {Open} ELSE where
  IN {[c EXCEPT !.tenantId = t] : c \in clauses}

Meets(i, row, clause) ==
  /\ clause.id \in {Absent, i}
  /\ clause.tenantId \in {Absent, row.tenantId}
  /\ clause.value \in {Absent, row.value}

\* The rows of db that an UPDATE with these criteria writes, deleted ones too.
Matching(db, clauses) == {i \in Id : db[i] # Absent /\ \E c \in clauses : Meets(i, db[i], c)}

\* What a SELECT returns: findOneById, findOne, findMany, findAndCount, count, exists.
Found(db, t, where, withDeleted) ==
  {i \in Matching(db, scopeWhereToTenant(t, where)) : withDeleted \/ ~db[i].deletedAt}

\* scopedQueryBuilder and the conditions its caller adds with andWhere.
scopedQueryBuilder(db, t, clause) ==
  {i \in Matching(db, {[Open EXCEPT !.tenantId = t]}) : Meets(i, db[i], clause) /\ ~db[i].deletedAt}

-----------------------------------------------------------------------------
(* The handlers' calls                                                      *)

Ready(h) == tenant[h] # Absent /\ loaded[h] = NotSaving

\* A request comes in and is given its tenant; or the handler has returned.
Enter(h) ==
  /\ tenant[h] = Absent
  /\ \E t \in Tenant : tenant' = [tenant EXCEPT ![h] = t]
  /\ UNCHANGED <<rows, entity, loaded>>

Leave(h) ==
  /\ Ready(h)
  /\ tenant' = [tenant EXCEPT ![h] = Absent]
  /\ entity' = [entity EXCEPT ![h] = Absent]
  /\ UNCHANGED <<rows, loaded>>

Hold(h, i) ==
  entity' = [entity EXCEPT ![h] =
    [id |-> i, tenantId |-> rows[i].tenantId, value |-> rows[i].value, deletedAt |-> rows[i].deletedAt]]

\* The handler reads, and goes on with one of the rows.
find(h) ==
  /\ Ready(h)
  /\ \/ \E i \in UNION {Found(rows, tenant[h], where, withDeleted) :
                          where \in Where, withDeleted \in BOOLEAN} : Hold(h, i)
     \/ \E i \in UNION {scopedQueryBuilder(rows, tenant[h], clause) : clause \in OneColumn} : Hold(h, i)
  /\ UNCHANGED <<rows, tenant, loaded>>

\* The handler builds an entity from a request body, whatever tenantId that
\* carries, or gives the one it holds another value.
Edit(h) ==
  /\ Ready(h)
  /\ \E v \in Value :
       \/ \E t \in Tenant :
            entity' = [entity EXCEPT ![h] = [id |-> Absent, tenantId |-> t, value |-> v, deletedAt |-> FALSE]]
       \/ /\ entity[h] # Absent
          /\ entity' = [entity EXCEPT ![h] = [@ EXCEPT !.value = v]]
  /\ UNCHANGED <<rows, tenant, loaded>>

\* Slip: the stamp is applied before the caller's fields.
Slip_StampFirst(h) == entity[h]

\* { ...dto.entity, tenantId: dto.tenantId }
Stamped(h) == [entity[h] EXCEPT !.tenantId = tenant[h]]

\* save begins: TypeORM stamps the entity and loads the row of its id, a deleted
\* one too.  saveMany does it for each of its entities.
saveOne(h) ==
  /\ Ready(h) /\ entity[h] # Absent
  /\ entity' = [entity EXCEPT ![h] = Stamped(h)]
  /\ loaded' = [loaded EXCEPT ![h] = IF entity[h].id = Absent THEN Absent ELSE rows[entity[h].id]]
  /\ UNCHANGED <<rows, tenant>>

\* The UPDATE sets the columns in which the entity differs from what was loaded.
Changed(row, from, to) ==
  [tenantId  |-> IF from.tenantId  = to.tenantId  THEN row.tenantId  ELSE to.tenantId,
   value     |-> IF from.value     = to.value     THEN row.value     ELSE to.value,
   deletedAt |-> IF from.deletedAt = to.deletedAt THEN row.deletedAt ELSE to.deletedAt]

\* The rest of save: an INSERT under a new id, or the UPDATE by id alone.
Saved(h) ==
  /\ loaded[h] # NotSaving
  /\ \/ \E i \in Id :
          /\ loaded[h] = Absent /\ rows[i] = Absent
          /\ rows' = [rows EXCEPT ![i] =
               [tenantId |-> entity[h].tenantId, value |-> entity[h].value, deletedAt |-> entity[h].deletedAt]]
          /\ entity' = [entity EXCEPT ![h].id = i]
     \/ /\ loaded[h] # Absent
        /\ rows' = [rows EXCEPT ![entity[h].id] = Changed(@, loaded[h], entity[h])]
        /\ UNCHANGED entity
  /\ loaded' = [loaded EXCEPT ![h] = NotSaving]
  /\ UNCHANGED tenant

\* save throws (the database is away, a constraint): nothing was written.
SaveFails(h) ==
  /\ loaded[h] # NotSaving
  /\ loaded' = [loaded EXCEPT ![h] = NotSaving]
  /\ UNCHANGED <<rows, tenant, entity>>

\* What is left of the values is only what is the service's own.
stripManagedColumns(row, values) == [row EXCEPT !.value = values.value]

\* updateOneById and updateBy.
updateBy(h) ==
  /\ Ready(h)
  /\ \E ids \in {Matching(rows, scopeWhereToTenant(tenant[h], where)) : where \in Where \ {Absent}},
        values \in Row :
       rows' = [i \in Id |-> IF i \in ids THEN stripManagedColumns(rows[i], values) ELSE rows[i]]
  /\ UNCHANGED handlers

\* Slip: the id is criterion enough.
Slip_AnyTenant(h, deleted) ==
  /\ Ready(h)
  /\ \E i \in Id : rows[i] # Absent /\ rows' = [rows EXCEPT ![i].deletedAt = deleted]
  /\ UNCHANGED handlers

\* softDeleteOneById and restoreOneById.
SetDeleted(h, deleted) ==
  /\ Ready(h)
  /\ \E ids \in {Matching(rows, scopeWhereToTenant(tenant[h], {ById(id)})) : id \in Id} :
       rows' = [i \in Id |-> IF i \in ids THEN [rows[i] EXCEPT !.deletedAt = deleted] ELSE rows[i]]
  /\ UNCHANGED handlers

softDeleteOneById(h) == SetDeleted(h, TRUE)
restoreOneById(h)    == SetDeleted(h, FALSE)

Call(h) ==
  \/ find(h) \/ saveOne(h) \/ Saved(h) \/ SaveFails(h)
  \/ updateBy(h) \/ softDeleteOneById(h) \/ restoreOneById(h)

Next == \E h \in Handler : Enter(h) \/ Leave(h) \/ Edit(h) \/ Call(h)

Spec == Init /\ [][Next]_vars

-----------------------------------------------------------------------------
(* Properties                                                               *)

\* Whatever a call changes was absent or the caller's tenant's own before, and is
\* the caller's tenant's own afterwards: no where, no values and no entity, stale
\* or from a request body, takes a row out of its tenant or reaches into another.
WritesStayHome ==
  [][\A h \in Handler : Call(h) =>
       \A i \in Id : rows'[i] # rows[i] =>
         /\ rows[i] = Absent \/ rows[i].tenantId = tenant[h]
         /\ rows'[i].tenantId = tenant[h]]_vars

\* The table a tenant sees: everybody else's rows are missing.
Own(t) == [i \in Id |-> IF rows[i] # Absent /\ rows[i].tenantId = t THEN rows[i] ELSE Absent]

\* No read, and no count of rows affected, tells whether other tenants have rows
\* at all ("the two are deliberately indistinguishable"); it tells all there is to
\* see of the caller's own, so that an OR is not cut down to one of its clauses.
OthersAreInvisible ==
  \A t \in Tenant, where \in Where :
    /\ \A withDeleted \in BOOLEAN :
         Found(rows, t, where, withDeleted) = Found(Own(t), t, where, withDeleted)
    /\ Matching(rows, scopeWhereToTenant(t, where)) =
         {i \in Id : Own(t)[i] # Absent /\
            (where \in {Absent, {}} \/ \E c \in where : Meets(i, Own(t)[i], [c EXCEPT !.tenantId = t]))}

\* What a handler holds with an id, however long ago it was read, is still a row of
\* the tenant it acts in: the entity it saves next is its own to save.
HeldIsOwn ==
  \A h \in Handler : (entity[h] # Absent /\ entity[h].id # Absent) =>
    rows[entity[h].id] # Absent /\ rows[entity[h].id].tenantId = tenant[h]
=============================================================================
