----------------------- MODULE TenantRepositoryProofs -----------------------
(***************************************************************************)
(* TenantRepository keeps tenants apart, for any number of tenants, rows,     *)
(* values and handlers.                                                      *)
(*                                                                         *)
(* A row never changes its tenant, so what a handler holds by an id stays its *)
(* own however long it waits.  save needs more: between its load and its      *)
(* UPDATE the entity is stamped and the loaded row was the handler's own, so  *)
(* the tenant is not among the columns that differ.                          *)
(***************************************************************************)
EXTENDS TenantRepository, TLAPS

\* A save under way: stamped, and loaded from a row of the handler's tenant.
SavingInv ==
  \A h \in Handler : loaded[h] # NotSaving =>
    /\ tenant[h] # Absent /\ entity[h] # Absent
    /\ entity[h].tenantId = tenant[h]
    /\ loaded[h] = Absent <=> entity[h].id = Absent
    /\ loaded[h] # Absent => loaded[h].tenantId = tenant[h]

\* A handler that is not at work holds nothing.
IdleInv == \A h \in Handler : tenant[h] = Absent => entity[h] = Absent

IInv == TypeOK /\ HeldIsOwn /\ SavingInv /\ IdleInv

-----------------------------------------------------------------------------
(* Criteria                                                                 *)

\* Whatever the where, what it matches is of the tenant it was scoped to.
LEMMA Scoped ==
  ASSUME NEW t \in Tenant, NEW where, NEW i \in Matching(rows, scopeWhereToTenant(t, where)),
         where \in {Absent, {}} \/ where \subseteq Clause
  PROVE  rows[i] # Absent /\ rows[i].tenantId = t
<1>1. PICK c \in scopeWhereToTenant(t, where) : Meets(i, rows[i], c)
  BY DEF Matching
<1>2. c.tenantId = t
  <2>1. CASE where \in {Absent, {}}
    BY <2>1 DEF scopeWhereToTenant, Open
  <2>2. CASE where \notin {Absent, {}}
    BY <2>2 DEF scopeWhereToTenant, Clause
  <2> QED BY <2>1, <2>2
<1>3. t # Absent
  BY RepositoryAssumption
<1> QED BY <1>1, <1>2, <1>3 DEF Matching, Meets

LEMMA WhereOfClauses == \A where \in Where : where \in {Absent, {}} \/ where \subseteq Clause
<1>1. OneColumn \subseteq Clause
  BY DEF OneColumn, Open, ById, Clause
<1> QED BY <1>1 DEF Where

LEMMA ByIdOfClauses == \A i \in Id : {ById(i)} \subseteq Clause
BY DEF ById, Open, Clause

-----------------------------------------------------------------------------
(* What a call does to the table                                            *)

\* A step's writes are the caller's tenant's own, and take no row from its tenant.
StaysHome(h) ==
  /\ rows' \in [Id -> Row \union {Absent}]
  /\ \A i \in Id : rows'[i] # rows[i] =>
       /\ rows[i] = Absent \/ rows[i].tenantId = tenant[h]
       /\ rows'[i] # Absent /\ rows'[i].tenantId = tenant[h]

LEMMA ReadIsOwn ==
  ASSUME IInv, NEW h \in Handler, Ready(h), NEW i \in Id,
         \/ i \in UNION {Found(rows, tenant[h], where, withDeleted) : where \in Where, withDeleted \in BOOLEAN}
         \/ i \in UNION {scopedQueryBuilder(rows, tenant[h], clause) : clause \in OneColumn}
  PROVE  rows[i] \in Row /\ rows[i].tenantId = tenant[h]
<1>1. tenant[h] \in Tenant /\ rows[i] \in Row \union {Absent}
  BY DEF IInv, TypeOK, Ready
<1>2. CASE i \in UNION {Found(rows, tenant[h], where, withDeleted) : where \in Where, withDeleted \in BOOLEAN}
  <2>1. PICK where \in Where : i \in Matching(rows, scopeWhereToTenant(tenant[h], where))
    BY <1>2 DEF Found
  <2> QED BY <2>1, <1>1, Scoped, WhereOfClauses
<1>3. CASE i \in UNION {scopedQueryBuilder(rows, tenant[h], clause) : clause \in OneColumn}
  <2>1. i \in Matching(rows, {[Open EXCEPT !.tenantId = tenant[h]]})
    BY <1>3 DEF scopedQueryBuilder
  <2>2. [Open EXCEPT !.tenantId = tenant[h]].tenantId = tenant[h]
    BY DEF Open
  <2> QED BY <2>1, <2>2, <1>1, RepositoryAssumption DEF Matching, Meets
<1> QED BY <1>2, <1>3

LEMMA UpdateStaysHome ==
  ASSUME IInv, NEW h \in Handler, updateBy(h)
  PROVE  StaysHome(h)
<1>1. tenant[h] \in Tenant
  BY DEF IInv, TypeOK, updateBy, Ready
<1>2. PICK ids \in {Matching(rows, scopeWhereToTenant(tenant[h], where)) : where \in Where \ {Absent}},
           values \in Row :
        rows' = [i \in Id |-> IF i \in ids THEN stripManagedColumns(rows[i], values) ELSE rows[i]]
  BY DEF updateBy
<1>3. \A i \in Id : i \in ids => rows[i] # Absent /\ rows[i].tenantId = tenant[h]
  BY <1>1, <1>2, Scoped, WhereOfClauses
<1>4. \A i \in Id : i \in ids =>
        /\ stripManagedColumns(rows[i], values) \in Row
        /\ stripManagedColumns(rows[i], values).tenantId = tenant[h]
  BY <1>3 DEF IInv, TypeOK, Row, stripManagedColumns
<1>5. rows \in [Id -> Row \union {Absent}] /\ Absent \notin Row
  BY AbsentAssumption DEF IInv, TypeOK
<1> QED BY <1>2, <1>3, <1>4, <1>5 DEF StaysHome

LEMMA SetDeletedStaysHome ==
  ASSUME IInv, NEW h \in Handler, NEW deleted \in BOOLEAN, SetDeleted(h, deleted)
  PROVE  StaysHome(h)
<1>1. tenant[h] \in Tenant
  BY DEF IInv, TypeOK, SetDeleted, Ready
<1>2. PICK ids \in {Matching(rows, scopeWhereToTenant(tenant[h], {ById(id)})) : id \in Id} :
        rows' = [i \in Id |-> IF i \in ids THEN [rows[i] EXCEPT !.deletedAt = deleted] ELSE rows[i]]
  BY DEF SetDeleted
<1>3. \A i \in Id : i \in ids => rows[i] # Absent /\ rows[i].tenantId = tenant[h]
  <2>1. PICK id \in Id : ids = Matching(rows, scopeWhereToTenant(tenant[h], {ById(id)}))
    OBVIOUS
  <2>2. {ById(id)} \subseteq Clause
    BY ByIdOfClauses
  <2> QED BY <1>1, <2>1, <2>2, Scoped
<1>4. \A i \in Id : i \in ids =>
        /\ [rows[i] EXCEPT !.deletedAt = deleted] \in Row
        /\ [rows[i] EXCEPT !.deletedAt = deleted].tenantId = tenant[h]
  <2>1. \A row \in Row : /\ [row EXCEPT !.deletedAt = deleted] \in Row
                         /\ [row EXCEPT !.deletedAt = deleted].tenantId = row.tenantId
    BY DEF Row
  <2>2. \A i \in Id : i \in ids => rows[i] \in Row
    BY <1>3 DEF IInv, TypeOK
  <2> QED BY <1>3, <2>1, <2>2
<1>5. rows \in [Id -> Row \union {Absent}] /\ Absent \notin Row
  BY AbsentAssumption DEF IInv, TypeOK
<1> QED BY <1>2, <1>3, <1>4, <1>5 DEF StaysHome

\* The UPDATE of save: entity and loaded row agree in their tenant.
LEMMA SavedStaysHome ==
  ASSUME IInv, NEW h \in Handler, Saved(h)
  PROVE  /\ StaysHome(h)
         /\ entity' \in [Handler -> Entity \union {Absent}]
         /\ \A g \in Handler \ {h} : entity'[g] = entity[g]
         /\ entity'[h] # Absent /\ entity'[h].tenantId = tenant[h]
         /\ entity'[h].id # Absent /\ rows'[entity'[h].id] # Absent
         /\ rows'[entity'[h].id].tenantId = tenant[h]
<1>1. /\ tenant[h] \in Tenant /\ entity[h] \in Entity /\ entity[h].tenantId = tenant[h]
      /\ loaded[h] = Absent <=> entity[h].id = Absent
      /\ loaded[h] # Absent => loaded[h].tenantId = tenant[h]
      /\ loaded[h] \in Row \union {Absent}
  BY DEF IInv, SavingInv, TypeOK, Saved
<1>2. CASE loaded[h] = Absent
  <2> DEFINE New == [tenantId |-> entity[h].tenantId, value |-> entity[h].value, deletedAt |-> entity[h].deletedAt]
  <2>1. PICK i \in Id : rows[i] = Absent /\ rows' = [rows EXCEPT ![i] = New]
                        /\ entity' = [entity EXCEPT ![h].id = i]
    BY <1>2 DEF Saved
  <2>2. New \in Row /\ New.tenantId = tenant[h] /\ New # Absent
    BY <1>1, AbsentAssumption DEF Entity, Row
  <2>3. [entity[h] EXCEPT !.id = i] \in Entity /\ [entity[h] EXCEPT !.id = i].id = i
        /\ [entity[h] EXCEPT !.id = i].tenantId = tenant[h]
    BY <1>1 DEF Entity
  <2>4. [entity[h] EXCEPT !.id = i] # Absent /\ i # Absent
    BY <2>3, AbsentAssumption, RepositoryAssumption
  <2> HIDE DEF New
  <2>5. StaysHome(h)
    BY <2>1, <2>2 DEF StaysHome, IInv, TypeOK
  <2>6. /\ entity' \in [Handler -> Entity \union {Absent}]
        /\ \A g \in Handler \ {h} : entity'[g] = entity[g]
        /\ entity'[h] = [entity[h] EXCEPT !.id = i]
    BY <2>1, <2>3 DEF IInv, TypeOK
  <2>7. rows'[i] = New
    BY <2>1 DEF IInv, TypeOK
  <2> QED BY <2>2, <2>3, <2>4, <2>5, <2>6, <2>7
<1>3. CASE loaded[h] # Absent
  <2> DEFINE i == entity[h].id
             Row1 == Changed(rows[i], loaded[h], entity[h])
  <2>1. rows' = [rows EXCEPT ![i] = Row1] /\ entity' = entity
    BY <1>3 DEF Saved
  <2>2. i \in Id /\ rows[i] \in Row /\ rows[i].tenantId = tenant[h]
    <3>1. entity[h] # Absent /\ i # Absent /\ i \in Id
      BY <1>1, <1>3, AbsentAssumption DEF Entity
    <3>2. rows[i] \in Row \union {Absent}
      BY <3>1 DEF IInv, TypeOK
    <3>3. rows[i] # Absent /\ rows[i].tenantId = tenant[h]
      BY <3>1 DEF IInv, HeldIsOwn
    <3> QED BY <3>1, <3>2, <3>3
  <2>3. Row1 \in Row /\ Row1.tenantId = tenant[h] /\ Row1 # Absent
    BY <1>1, <1>3, <2>2, AbsentAssumption DEF Changed, Row, Entity
  <2>4. i # Absent /\ entity[h] # Absent
    BY <1>1, <2>2, AbsentAssumption, RepositoryAssumption
  <2> HIDE DEF Row1
  <2>5. StaysHome(h)
    BY <2>1, <2>2, <2>3 DEF StaysHome, IInv, TypeOK
  <2>6. rows'[i] = Row1
    BY <2>1, <2>2 DEF IInv, TypeOK
  <2> QED BY <1>1, <2>1, <2>3, <2>4, <2>5, <2>6 DEF IInv, TypeOK
<1> QED BY <1>2, <1>3

-----------------------------------------------------------------------------
(* The invariant                                                            *)

LEMMA Initially == Init => IInv
BY AbsentAssumption, RepositoryAssumption DEF Init, IInv, TypeOK, HeldIsOwn, SavingInv, IdleInv

\* As long as rows stay home, whatever the other handlers hold stays their own.
LEMMA OthersKeep ==
  ASSUME IInv, NEW h \in Handler, StaysHome(h),
         NEW g \in Handler, entity'[g] = entity[g], tenant'[g] = tenant[g],
         entity[g] # Absent, entity[g].id # Absent
  PROVE  rows'[entity'[g].id] # Absent /\ rows'[entity'[g].id].tenantId = tenant'[g]
<1>1. entity[g] \in Entity /\ entity[g].id \in Id
  BY DEF IInv, TypeOK, Entity
<1>2. rows[entity[g].id] # Absent /\ rows[entity[g].id].tenantId = tenant[g]
  BY DEF IInv, HeldIsOwn
<1> QED BY <1>1, <1>2 DEF StaysHome

\* A step that leaves the handlers alone and lets rows stay home.
LEMMA WriteKeeps ==
  ASSUME IInv, NEW h \in Handler, StaysHome(h), UNCHANGED handlers
  PROVE  IInv'
<1>1. TypeOK'
  BY DEF StaysHome, IInv, TypeOK, handlers
<1>2. HeldIsOwn'
  BY OthersKeep DEF HeldIsOwn, handlers
<1>3. SavingInv' /\ IdleInv'
  BY DEF IInv, SavingInv, IdleInv, handlers
<1> QED BY <1>1, <1>2, <1>3 DEF IInv

LEMMA FindKeeps == ASSUME IInv, NEW h \in Handler, find(h) PROVE IInv'
<1>1. PICK i \in Id : Hold(h, i) /\ rows[i] \in Row /\ rows[i].tenantId = tenant[h]
  <2>1. PICK i \in Id :
          /\ Hold(h, i)
          /\ \/ i \in UNION {Found(rows, tenant[h], where, withDeleted) : where \in Where, withDeleted \in BOOLEAN}
             \/ i \in UNION {scopedQueryBuilder(rows, tenant[h], clause) : clause \in OneColumn}
    BY DEF find, Found, scopedQueryBuilder, Matching
  <2>2. Ready(h)
    BY DEF find
  <2> QED BY <2>1, <2>2, ReadIsOwn
<1> DEFINE e == [id |-> i, tenantId |-> rows[i].tenantId, value |-> rows[i].value, deletedAt |-> rows[i].deletedAt]
<1>2. e \in Entity /\ e.id = i
  BY <1>1 DEF Row, Entity
<1>3. rows[i] # Absent
  BY <1>1, AbsentAssumption
<1>4. entity' = [entity EXCEPT ![h] = e]
  BY <1>1 DEF Hold
<1> HIDE DEF e
<1>5. UNCHANGED <<rows, tenant, loaded>> /\ Ready(h)
  BY DEF find
<1>6. TypeOK'
  BY <1>2, <1>4, <1>5 DEF IInv, TypeOK
<1>7. HeldIsOwn'
  BY <1>1, <1>2, <1>3, <1>4, <1>5 DEF IInv, TypeOK, HeldIsOwn
<1>8. SavingInv' /\ IdleInv'
  BY <1>4, <1>5 DEF IInv, TypeOK, SavingInv, IdleInv, Ready
<1> QED BY <1>6, <1>7, <1>8 DEF IInv

LEMMA SaveOneKeeps == ASSUME IInv, NEW h \in Handler, saveOne(h) PROVE IInv'
<1>1. /\ tenant[h] \in Tenant /\ entity[h] \in Entity /\ entity[h] # Absent
      /\ UNCHANGED <<rows, tenant>>
      /\ entity' = [entity EXCEPT ![h] = Stamped(h)]
      /\ loaded' = [loaded EXCEPT ![h] = IF entity[h].id = Absent THEN Absent ELSE rows[entity[h].id]]
  BY DEF saveOne, Ready, IInv, TypeOK
<1>2. Stamped(h) \in Entity /\ Stamped(h).tenantId = tenant[h] /\ Stamped(h).id = entity[h].id
  BY <1>1 DEF Stamped, Entity
<1>3. Stamped(h) # Absent
  BY <1>2, AbsentAssumption
<1>4. entity[h].id # Absent =>
        /\ entity[h].id \in Id /\ rows[entity[h].id] \in Row /\ rows[entity[h].id] # Absent
        /\ rows[entity[h].id].tenantId = tenant[h]
  BY <1>1 DEF IInv, HeldIsOwn, TypeOK, Entity
<1>5. TypeOK'
  BY <1>1, <1>2, <1>4 DEF IInv, TypeOK
<1>6. HeldIsOwn'
  BY <1>1, <1>2, <1>4 DEF IInv, TypeOK, HeldIsOwn
<1>7. SavingInv'
  <2>1. /\ tenant'[h] # Absent
        /\ entity'[h] = Stamped(h)
        /\ loaded'[h] = IF entity[h].id = Absent THEN Absent ELSE rows[entity[h].id]
    BY <1>1, RepositoryAssumption DEF IInv, TypeOK
  <2>2. \A g \in Handler \ {h} :
          loaded'[g] = loaded[g] /\ entity'[g] = entity[g] /\ tenant'[g] = tenant[g]
    BY <1>1 DEF IInv, TypeOK
  <2>3. tenant'[h] = tenant[h]
    BY <1>1
  <2> QED BY <1>2, <1>3, <1>4, <2>1, <2>2, <2>3 DEF IInv, SavingInv
<1>8. IdleInv'
  BY <1>1, RepositoryAssumption DEF IInv, TypeOK, IdleInv
<1> QED BY <1>5, <1>6, <1>7, <1>8 DEF IInv

LEMMA SavedKeeps == ASSUME IInv, NEW h \in Handler, Saved(h) PROVE IInv'
<1>1. /\ StaysHome(h)
      /\ entity' \in [Handler -> Entity \union {Absent}]
      /\ \A g \in Handler \ {h} : entity'[g] = entity[g]
      /\ entity'[h] # Absent
      /\ rows'[entity'[h].id] # Absent /\ rows'[entity'[h].id].tenantId = tenant[h]
  BY SavedStaysHome
<1>2. loaded' = [loaded EXCEPT ![h] = NotSaving] /\ UNCHANGED tenant /\ tenant[h] # Absent
  BY DEF Saved, IInv, SavingInv
<1>3. TypeOK'
  BY <1>1, <1>2 DEF IInv, TypeOK, StaysHome
<1>4. HeldIsOwn'
  BY <1>1, <1>2, OthersKeep DEF HeldIsOwn
<1>5. SavingInv'
  BY <1>1, <1>2 DEF IInv, TypeOK, SavingInv
<1>6. IdleInv'
  BY <1>1, <1>2 DEF IInv, IdleInv
<1> QED BY <1>3, <1>4, <1>5, <1>6 DEF IInv

LEMMA EditKeeps == ASSUME IInv, NEW h \in Handler, Edit(h) PROVE IInv'
<1>1. PICK e \in Entity :
        /\ entity' = [entity EXCEPT ![h] = e]
        /\ e.id = Absent \/ (entity[h] # Absent /\ e.id = entity[h].id)
  <2>1. PICK v \in Value :
          \/ \E t \in Tenant :
               entity' = [entity EXCEPT ![h] = [id |-> Absent, tenantId |-> t, value |-> v, deletedAt |-> FALSE]]
          \/ entity[h] # Absent /\ entity' = [entity EXCEPT ![h] = [@ EXCEPT !.value = v]]
    BY DEF Edit
  <2>2. CASE \E t \in Tenant :
               entity' = [entity EXCEPT ![h] = [id |-> Absent, tenantId |-> t, value |-> v, deletedAt |-> FALSE]]
    <3>1. PICK t \in Tenant :
            entity' = [entity EXCEPT ![h] = [id |-> Absent, tenantId |-> t, value |-> v, deletedAt |-> FALSE]]
      BY <2>2
    <3>2. [id |-> Absent, tenantId |-> t, value |-> v, deletedAt |-> FALSE] \in Entity
      BY DEF Entity
    <3> QED BY <3>1, <3>2
  <2>3. CASE entity[h] # Absent /\ entity' = [entity EXCEPT ![h] = [@ EXCEPT !.value = v]]
    <3>1. entity[h] \in Entity
      BY <2>3 DEF IInv, TypeOK
    <3>2. [entity[h] EXCEPT !.value = v] \in Entity /\ [entity[h] EXCEPT !.value = v].id = entity[h].id
      BY <3>1 DEF Entity
    <3> QED BY <2>3, <3>2
  <2> QED BY <2>1, <2>2, <2>3
<1>2. UNCHANGED <<rows, tenant, loaded>> /\ Ready(h)
  BY DEF Edit
<1>3. TypeOK'
  BY <1>1, <1>2 DEF IInv, TypeOK
<1>4. HeldIsOwn'
  BY <1>1, <1>2 DEF IInv, TypeOK, HeldIsOwn
<1>5. SavingInv' /\ IdleInv'
  BY <1>1, <1>2 DEF IInv, TypeOK, SavingInv, IdleInv, Ready
<1> QED BY <1>3, <1>4, <1>5 DEF IInv

LEMMA EnterKeeps == ASSUME IInv, NEW h \in Handler, Enter(h) PROVE IInv'
<1>1. PICK t \in Tenant : tenant' = [tenant EXCEPT ![h] = t]
  BY DEF Enter
<1>2. entity[h] = Absent /\ loaded[h] = NotSaving /\ UNCHANGED <<rows, entity, loaded>>
  BY DEF Enter, IInv, IdleInv, SavingInv
<1>3. TypeOK'
  BY <1>1, <1>2 DEF IInv, TypeOK
<1>4. HeldIsOwn' /\ IdleInv'
  BY <1>1, <1>2 DEF IInv, TypeOK, HeldIsOwn, IdleInv
<1>5. SavingInv'
  BY <1>1, <1>2 DEF IInv, TypeOK, SavingInv
<1> QED BY <1>3, <1>4, <1>5 DEF IInv

LEMMA LeaveKeeps == ASSUME IInv, NEW h \in Handler, Leave(h) PROVE IInv'
<1>1. /\ tenant' = [tenant EXCEPT ![h] = Absent] /\ entity' = [entity EXCEPT ![h] = Absent]
      /\ loaded[h] = NotSaving /\ UNCHANGED <<rows, loaded>>
  BY DEF Leave, Ready
<1>2. TypeOK'
  BY <1>1 DEF IInv, TypeOK
<1>3. HeldIsOwn' /\ IdleInv'
  BY <1>1 DEF IInv, TypeOK, HeldIsOwn, IdleInv
<1>4. SavingInv'
  BY <1>1 DEF IInv, TypeOK, SavingInv
<1> QED BY <1>2, <1>3, <1>4 DEF IInv

LEMMA SaveFailsKeeps == ASSUME IInv, NEW h \in Handler, SaveFails(h) PROVE IInv'
<1>1. loaded' = [loaded EXCEPT ![h] = NotSaving] /\ UNCHANGED <<rows, tenant, entity>>
  BY DEF SaveFails
<1>2. TypeOK' /\ HeldIsOwn' /\ IdleInv'
  BY <1>1 DEF IInv, TypeOK, HeldIsOwn, IdleInv
<1>3. SavingInv'
  BY <1>1 DEF IInv, TypeOK, SavingInv
<1> QED BY <1>2, <1>3 DEF IInv

LEMMA Stepwise == IInv /\ [Next]_vars => IInv'
<1> SUFFICES ASSUME IInv, [Next]_vars PROVE IInv'
  OBVIOUS
<1>1. CASE UNCHANGED vars
  BY <1>1 DEF vars, handlers, IInv, TypeOK, HeldIsOwn, SavingInv, IdleInv
<1>2. CASE Next
  <2>1. PICK h \in Handler : Enter(h) \/ Leave(h) \/ Edit(h) \/ Call(h)
    BY <1>2 DEF Next
  <2>2. CASE updateBy(h)
    BY <2>2, UpdateStaysHome, WriteKeeps DEF updateBy
  <2>3. CASE softDeleteOneById(h)
    BY <2>3, SetDeletedStaysHome, WriteKeeps DEF softDeleteOneById, SetDeleted
  <2>4. CASE restoreOneById(h)
    BY <2>4, SetDeletedStaysHome, WriteKeeps DEF restoreOneById, SetDeleted
  <2> QED BY <2>1, <2>2, <2>3, <2>4, FindKeeps, SaveOneKeeps, SavedKeeps, EditKeeps,
             EnterKeeps, LeaveKeeps, SaveFailsKeeps DEF Call
<1> QED BY <1>1, <1>2

LEMMA Inductive == Spec => []IInv
<1> QED BY Initially, Stepwise, PTL DEF Spec

-----------------------------------------------------------------------------
(* What follows                                                             *)

\* Rows, entities and saves under way stay well-formed (BaseRepository).
THEOREM TypeCorrect == Spec => []TypeOK
<1>1. IInv => TypeOK
  BY DEF IInv
<1> QED BY <1>1, Inductive, PTL

\* What a handler holds by an id is its tenant's however long it waits (saveOne).
THEOREM HeldStaysOwn == Spec => []HeldIsOwn
<1>1. IInv => HeldIsOwn
  BY DEF IInv
<1> QED BY <1>1, Inductive, PTL

\* No call of BaseRepository changes a row of another tenant, or a row's tenant.
THEOREM TenantsStayApart == Spec => WritesStayHome
<1> DEFINE Apart == \A h \in Handler : Call(h) =>
       \A i \in Id : rows'[i] # rows[i] =>
         /\ rows[i] = Absent \/ rows[i].tenantId = tenant[h]
         /\ rows'[i].tenantId = tenant[h]
<1>1. IInv /\ [Next]_vars => [Apart]_vars
  <2> SUFFICES ASSUME IInv, NEW h \in Handler, Call(h), NEW i \in Id, rows'[i] # rows[i]
               PROVE  /\ rows[i] = Absent \/ rows[i].tenantId = tenant[h]
                      /\ rows'[i].tenantId = tenant[h]
    OBVIOUS
  <2>1. CASE UNCHANGED rows
    BY <2>1
  <2>2. CASE StaysHome(h)
    BY <2>2 DEF StaysHome
  <2>3. CASE updateBy(h)
    BY <2>2, <2>3, UpdateStaysHome
  <2>4. CASE softDeleteOneById(h) \/ restoreOneById(h)
    BY <2>2, <2>4, SetDeletedStaysHome DEF softDeleteOneById, restoreOneById
  <2>5. CASE Saved(h)
    BY <2>2, <2>5, SavedStaysHome
  <2>6. CASE find(h) \/ saveOne(h) \/ SaveFails(h)
    BY <2>1, <2>6 DEF find, saveOne, SaveFails
  <2> QED BY <2>3, <2>4, <2>5, <2>6 DEF Call
<1> QED BY <1>1, Inductive, PTL DEF Spec, WritesStayHome

\* Reads, counts and numbers of rows affected are what they would be were the
\* caller's rows the only ones, and miss none of them (scopeWhereToTenant).
THEOREM OnlyOwnShows == Spec => []OthersAreInvisible
<1>1. TypeOK => OthersAreInvisible
  <2> SUFFICES ASSUME TypeOK, NEW t \in Tenant, NEW where \in Where
               PROVE  /\ \A withDeleted \in BOOLEAN :
                           Found(rows, t, where, withDeleted) = Found(Own(t), t, where, withDeleted)
                      /\ Matching(rows, scopeWhereToTenant(t, where)) =
                           {i \in Id : Own(t)[i] # Absent /\
                              (where \in {Absent, {}} \/
                               \E c \in where : Meets(i, Own(t)[i], [c EXCEPT !.tenantId = t]))}
    BY DEF OthersAreInvisible
  <2> DEFINE clauses == scopeWhereToTenant(t, where)
  <2>1. where \in {Absent, {}} \/ where \subseteq Clause
    BY WhereOfClauses
  <2>2. \A i \in Id : Own(t)[i] = IF rows[i] # Absent /\ rows[i].tenantId = t THEN rows[i] ELSE Absent
    BY DEF Own
  <2>3. \A i \in Matching(rows, clauses) : rows[i] # Absent /\ rows[i].tenantId = t
    BY <2>1, Scoped
  <2>4. Matching(rows, clauses) = Matching(Own(t), clauses)
    BY <2>2, <2>3 DEF Matching
  <2>5. \A i \in Matching(rows, clauses) : rows[i] = Own(t)[i]
    BY <2>2, <2>3 DEF Matching
  <2>6. ASSUME NEW withDeleted \in BOOLEAN
        PROVE  Found(rows, t, where, withDeleted) = Found(Own(t), t, where, withDeleted)
    BY <2>4, <2>5 DEF Found
  <2>7. CASE where \in {Absent, {}}
    <3>1. clauses = {[Open EXCEPT !.tenantId = t]}
      BY <2>7 DEF scopeWhereToTenant
    <3>2. \A i \in Id : Own(t)[i] # Absent => Meets(i, Own(t)[i], [Open EXCEPT !.tenantId = t])
      BY <2>2 DEF Meets, Open
    <3>3. Matching(Own(t), clauses) = {i \in Id : Own(t)[i] # Absent}
      BY <3>1, <3>2 DEF Matching
    <3> QED BY <2>4, <2>6, <2>7, <3>3
  <2>8. CASE where \notin {Absent, {}}
    <3>1. clauses = {[c EXCEPT !.tenantId = t] : c \in where}
      BY <2>8 DEF scopeWhereToTenant
    <3>2. Matching(Own(t), clauses) =
            {i \in Id : Own(t)[i] # Absent /\ \E c \in where : Meets(i, Own(t)[i], [c EXCEPT !.tenantId = t])}
      BY <3>1 DEF Matching
    <3> QED BY <2>4, <2>6, <2>8, <3>2
  <2> QED BY <2>7, <2>8
<1> QED BY <1>1, TypeCorrect, PTL
=============================================================================
