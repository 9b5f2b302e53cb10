---------------------------- MODULE TenantScope ----------------------------
(***************************************************************************)
(* The scope a query runs in and the Prisma extension that applies it: it  *)
(* refuses the arguments of a query, or passes them on with the tenant and *)
(* the soft-delete filter put in.  Arguments are reduced to the columns    *)
(* the extension reads, a table to rows with an id, an owner and a         *)
(* deletion mark; AiTone validation is left out.                           *)
(***************************************************************************)
EXTENDS TLAPS

TENANT_SCOPED_MODELS ==
  {"MerchantSettings", "BillingSubscription", "Customer", "CustomerScore", "Product",
   "ProductVariant", "Order", "OrderLineItem", "OutboxEvent", "IdempotencyKey",
   "BackfillJob", "AiGeneration", "Message", "AiSpendBucket", "Campaign",
   "CampaignTarget", "Suppression", "MessageEvent", "MessageQuotaBucket"}
TENANT_OPTIONAL_READ_MODELS == {"WebhookLog", "AuditLog"}
SOFT_DELETE_MODELS == {"Customer", "Product", "ProductVariant"}
UNSCOPED_MODELS == {"Session"}

\* The models whose rows belong to a merchant by their column merchantId.
Owned(model) == model \in TENANT_SCOPED_MODELS \cup TENANT_OPTIONAL_READ_MODELS

----------------------------------------------------------------------------
(* Scopes *)

NoScope == [kind |-> "none"]
SystemScope == [kind |-> "system"]
TenantScopeOf(m) == [kind |-> "tenant", merchantId |-> m]

\* The scopes in which the two wrappers run their function, given the scope
\* around them; none when they reject.
WithTenantScope(outer, m) ==
  IF outer.kind = "tenant" /\ outer.merchantId # m THEN {} ELSE {TenantScopeOf(m)}
WithSystemScope(wellFormed) == IF wellFormed THEN {SystemScope} ELSE {}

\* assertScopeMatchesMerchant does not throw.
ScopeMatches(scope, m) ==
  scope.kind = "system" \/ (scope.kind = "tenant" /\ scope.merchantId = m)

----------------------------------------------------------------------------
(* Rows and arguments.  A column an argument leaves out is "undefined". *)

Undefined == "undefined"
Given(column) == column # Undefined

Inject(column, m) == IF Given(column) THEN column ELSE m
Foreign(column, m) == Given(column) /\ column # m

Columns(Ids, Merchants) == [id : Ids, merchantId : Merchants, deleted : BOOLEAN]
Wheres(Ids, Merchants) ==
  [id : Ids, merchantId : Merchants, deletedAt : {"null", "any", Undefined}]

\* The rows a where clause selects.
Matches(row, where) ==
  /\ Given(where.id) => row.id = where.id
  /\ Given(where.merchantId) => row.merchantId = where.merchantId
  /\ where.deletedAt = "null" => ~row.deleted
Selected(table, where) == {row \in table : Matches(row, where)}

----------------------------------------------------------------------------
(* Reads *)

\* enforceTenantScopeOnRead throws.
ReadRefused(scope, model, where, unique) ==
  /\ model \notin UNSCOPED_MODELS
  /\ \/ scope.kind = "none"
     \/ /\ scope.kind = "tenant"
        /\ \/ model = "Merchant" /\ where.id # scope.merchantId
           \/ Owned(model) /\ ~unique /\ Foreign(where.merchantId, scope.merchantId)

\* A findUnique keeps its arguments: its tuple is taken to hold the tenant.
ScopeRead(scope, model, where, unique) ==
  IF scope.kind = "tenant" /\ Owned(model) /\ ~unique
  THEN [where EXCEPT !.merchantId = Inject(@, scope.merchantId)] ELSE where

HideDeleted(model, where) ==
  IF model \in SOFT_DELETE_MODELS /\ ~Given(where.deletedAt)
  THEN [where EXCEPT !.deletedAt = "null"] ELSE where

\* applyReadHooks
ReadArgs(scope, model, where, unique) ==
  IF model \in UNSCOPED_MODELS THEN where
  ELSE HideDeleted(model, ScopeRead(scope, model, where, unique))

\* What a read sees of a table.
Read(table, scope, model, where, unique) ==
  IF ReadRefused(scope, model, where, unique) THEN {}
  ELSE Selected(table, ReadArgs(scope, model, where, unique))

----------------------------------------------------------------------------
(* Writes: the rows to create, and a change to the rows that "where" selects,
   which updateMany and deleteMany may leave out ("filtered"). *)

Creates(op) == op \in {"create", "createMany", "upsert"}
Selects(op) == op \in {"update", "updateMany", "upsert", "delete", "deleteMany"}
Changes(op) == op \in {"update", "updateMany", "upsert"}

Calls(Ids, Merchants) ==
  [rows : SUBSET Columns(Ids, Merchants), change : Columns(Ids, Merchants),
   where : Wheres(Ids, Merchants), filtered : BOOLEAN]

\* The merchant ids that a write of Merchant names, where the hook looks.
MerchantsNamed(op, args) ==
  IF Selects(op) /\ args.filtered /\ Given(args.where.id) THEN {args.where.id}
  ELSE IF op \in {"update", "updateMany"} THEN {args.change.id}
  ELSE IF op = "create" THEN {row.id : row \in args.rows} ELSE {}

\* enforceTenantScopeOnWrite throws.
WriteRefused(scope, model, op, args) ==
  /\ model \notin UNSCOPED_MODELS
  /\ \/ scope.kind = "none"
     \/ /\ scope.kind = "tenant"
        /\ \/ /\ model = "Merchant"
              /\ \E id \in MerchantsNamed(op, args) : Foreign(id, scope.merchantId)
           \/ /\ Owned(model)
              /\ \/ /\ Creates(op)
                    /\ \E row \in args.rows : Foreign(row.merchantId, scope.merchantId)
                 \/ Changes(op) /\ Foreign(args.change.merchantId, scope.merchantId)
                 \/ /\ Selects(op) /\ args.filtered
                    /\ Foreign(args.where.merchantId, scope.merchantId)

\* applyWriteHooks: the data of an update is injected, an upsert's update is not.
WriteArgs(scope, model, op, args) ==
  IF scope.kind # "tenant" \/ ~Owned(model) THEN args
  ELSE [args EXCEPT
    !.rows = {[row EXCEPT !.merchantId = Inject(@, scope.merchantId)] : row \in @},
    !.change.merchantId = IF op = "upsert" THEN @ ELSE Inject(@, scope.merchantId),
    !.where.merchantId = IF args.filtered THEN Inject(@, scope.merchantId) ELSE @]

Changed(row, change) ==
  [row EXCEPT !.merchantId = Inject(change.merchantId, @), !.deleted = @ \/ change.deleted]

\* What Postgres makes of the arguments.
Applied(table, op, args) ==
  LET hit == IF args.filtered THEN Selected(table, args.where) ELSE table IN
  CASE op \in {"create", "createMany"} -> table \cup args.rows
    [] op \in {"update", "updateMany"} ->
         (table \ hit) \cup {Changed(row, args.change) : row \in hit}
    [] op = "upsert" -> IF hit = {} THEN table \cup args.rows
                        ELSE (table \ hit) \cup {Changed(row, args.change) : row \in hit}
    [] op \in {"delete", "deleteMany"} -> table \ hit

\* What a write makes of a table.
Write(table, scope, model, op, args) ==
  IF WriteRefused(scope, model, op, args) THEN table
  ELSE Applied(table, op, WriteArgs(scope, model, op, args))

----------------------------------------------------------------------------
(* What the extension promises, for any sets of ids and merchants *)

\* A read in a tenant's scope, other than by findUnique, returns rows of that
\* tenant only, and deleted ones only when its where asks for deletedAt.
THEOREM ReadsStayInTenant ==
  ASSUME NEW m, m # Undefined, NEW model, Owned(model), NEW table,
         NEW Ids, NEW Merchants,
         NEW where \in Wheres(Ids, Merchants),
         NEW row \in Read(table, TenantScopeOf(m), model, where, FALSE)
  PROVE  /\ row \in table /\ row.merchantId = m
         /\ model \in SOFT_DELETE_MODELS /\ ~Given(where.deletedAt) => ~row.deleted
<1> USE DEF Calls, Columns, Wheres
<1> DEFINE scope == TenantScopeOf(m)
           scoped == ScopeRead(scope, model, where, FALSE)
           args == HideDeleted(model, scoped)
<1>1. scope.kind = "tenant" /\ scope.merchantId = m
  BY DEF TenantScopeOf
<1>2. model \notin UNSCOPED_MODELS
  BY DEF Owned, TENANT_SCOPED_MODELS, TENANT_OPTIONAL_READ_MODELS, UNSCOPED_MODELS
<1>3. ~ReadRefused(scope, model, where, FALSE) /\ row \in Selected(table, args)
  BY <1>2 DEF Read, ReadArgs
<1>4. where.merchantId = Undefined \/ where.merchantId = m
  BY <1>1, <1>2, <1>3 DEF ReadRefused, Foreign, Given
<1>5. /\ scoped = [where EXCEPT !.merchantId = m]
      /\ scoped.merchantId = m /\ scoped.deletedAt = where.deletedAt
  BY <1>1, <1>4 DEF ScopeRead, Inject, Given
<1>6. /\ args.merchantId = m
      /\ model \in SOFT_DELETE_MODELS /\ ~Given(where.deletedAt) => args.deletedAt = "null"
  BY <1>5 DEF HideDeleted
<1> QED
  BY <1>3, <1>6 DEF Selected, Matches, Given

\* What a write in a tenant's scope inserts is the tenant's.
LEMMA InsertsAreOwn ==
  ASSUME NEW m, m # Undefined, NEW model, Owned(model), NEW op, Creates(op),
         NEW Ids, NEW Merchants,
         NEW args \in Calls(Ids, Merchants),
         ~WriteRefused(TenantScopeOf(m), model, op, args),
         NEW row \in WriteArgs(TenantScopeOf(m), model, op, args).rows
  PROVE  row.merchantId = m
<1> USE DEF Calls, Columns, Wheres
<1> DEFINE scope == TenantScopeOf(m)
<1>1. scope.kind = "tenant" /\ scope.merchantId = m
  BY DEF TenantScopeOf
<1>2. model \notin UNSCOPED_MODELS
  BY DEF Owned, TENANT_SCOPED_MODELS, TENANT_OPTIONAL_READ_MODELS, UNSCOPED_MODELS
<1>3. WriteArgs(scope, model, op, args).rows
        = {[r EXCEPT !.merchantId = Inject(@, m)] : r \in args.rows}
  BY <1>1 DEF WriteArgs
<1>4. PICK r \in args.rows : row = [r EXCEPT !.merchantId = Inject(@, m)]
  BY <1>3
<1>5. ~Foreign(r.merchantId, m)
  BY <1>1, <1>2 DEF WriteRefused
<1> QED
  BY <1>4, <1>5 DEF Foreign, Inject, Given

\* What it selects, when it has a where, is the tenant's, and stays it.
LEMMA ChangesAreOwn ==
  ASSUME NEW m, m # Undefined, NEW model, Owned(model), NEW op, Selects(op),
         NEW Ids, NEW Merchants,
         NEW args \in Calls(Ids, Merchants),
         args.filtered, ~WriteRefused(TenantScopeOf(m), model, op, args),
         NEW table \in SUBSET Columns(Ids, Merchants),
         NEW row \in Selected(table, WriteArgs(TenantScopeOf(m), model, op, args).where)
  PROVE  /\ row.merchantId = m
         /\ Changes(op) =>
              Changed(row, WriteArgs(TenantScopeOf(m), model, op, args).change).merchantId = m
<1> USE DEF Calls, Columns, Wheres
<1> DEFINE scope == TenantScopeOf(m)
           new == WriteArgs(scope, model, op, args)
<1>1. scope.kind = "tenant" /\ scope.merchantId = m
  BY DEF TenantScopeOf
<1>2. model \notin UNSCOPED_MODELS
  BY DEF Owned, TENANT_SCOPED_MODELS, TENANT_OPTIONAL_READ_MODELS, UNSCOPED_MODELS
<1>3. /\ ~Foreign(args.where.merchantId, m)
      /\ Changes(op) => ~Foreign(args.change.merchantId, m)
  BY <1>1, <1>2 DEF WriteRefused
<1>4. /\ new.where.merchantId = m
      /\ new.change.merchantId \in {args.change.merchantId, Inject(args.change.merchantId, m)}
  BY <1>1, <1>3 DEF WriteArgs, Inject, Foreign, Given
<1>5. row \in table /\ row.merchantId = m
  BY <1>4 DEF Selected, Matches, Given
<1>6. Changes(op) => new.change.merchantId \in {Undefined, m}
  BY <1>3, <1>4 DEF Foreign, Inject, Given
<1>7. Changed(row, new.change).merchantId = Inject(new.change.merchantId, row.merchantId)
  BY <1>5 DEF Changed
<1> QED
  BY <1>5, <1>6, <1>7 DEF Inject, Given

\* No write in a tenant's scope inserts, changes, moves or deletes a row of
\* another merchant, or one that has none, as long as it has a where when it
\* selects rows; whatever ids, data and where clause its caller passes.
THEOREM WritesStayInTenant ==
  ASSUME NEW m, m # Undefined, NEW model, Owned(model), NEW op, Creates(op) \/ Selects(op),
         NEW Ids, NEW Merchants,
         NEW args \in Calls(Ids, Merchants),
         args.filtered,
         NEW table \in SUBSET Columns(Ids, Merchants)
  PROVE  LET after == Write(table, TenantScopeOf(m), model, op, args) IN
         {row \in after : row.merchantId # m} = {row \in table : row.merchantId # m}
<1> USE DEF Calls, Columns, Wheres
<1> DEFINE scope == TenantScopeOf(m)
           new == WriteArgs(scope, model, op, args)
           hit == Selected(table, new.where)
           changed == {Changed(row, new.change) : row \in hit}
<1>1. CASE WriteRefused(scope, model, op, args)
  BY <1>1 DEF Write
<1>2. CASE ~WriteRefused(scope, model, op, args)
  <2>1. Write(table, scope, model, op, args) = Applied(table, op, new)
    BY <1>2 DEF Write
  <2>2. new.filtered
    BY DEF WriteArgs
  <2>3. Creates(op) => \A row \in new.rows : row.merchantId = m
    BY <1>2, InsertsAreOwn
  <2>4. Selects(op) => /\ \A row \in hit : row.merchantId = m
                       /\ Changes(op) => \A row \in changed : row.merchantId = m
    BY <1>2, ChangesAreOwn
  <2>5. CASE op \in {"create", "createMany"}
    BY <2>1, <2>3, <2>5 DEF Applied, Creates
  <2>6. CASE op \in {"update", "updateMany"}
    <3>1. Applied(table, op, new) = (table \ hit) \cup changed
      BY <2>2, <2>6 DEF Applied
    <3>2. Selects(op) /\ Changes(op)
      BY <2>6 DEF Selects, Changes
    <3> QED
      BY <2>1, <2>4, <3>1, <3>2
  <2>7. CASE op = "upsert"
    <3>1. Applied(table, op, new)
            = IF hit = {} THEN table \cup new.rows ELSE (table \ hit) \cup changed
      BY <2>2, <2>7 DEF Applied
    <3>2. Creates(op) /\ Selects(op) /\ Changes(op)
      BY <2>7 DEF Creates, Selects, Changes
    <3> QED
      BY <2>1, <2>3, <2>4, <3>1, <3>2
  <2>8. CASE op \in {"delete", "deleteMany"}
    <3>1. Applied(table, op, new) = table \ hit
      BY <2>2, <2>8 DEF Applied
    <3>2. Selects(op)
      BY <2>8 DEF Selects
    <3> QED
      BY <2>1, <2>4, <3>1, <3>2
  <2> QED
    BY <2>5, <2>6, <2>7, <2>8 DEF Creates, Selects
<1> QED
  BY <1>1, <1>2
=============================================================================
