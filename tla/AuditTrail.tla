----------------------------- MODULE AuditTrail -----------------------------
(***************************************************************************)
(* Master data and its audit trail: the services of the kernel and of the  *)
(* master data insert, update and remove rows of their tables, and record  *)
(* each change with the values before and after it in audit_logs, where a  *)
(* trigger links the new row to the latest one it can see.  The trail is   *)
(* that of one tenant: it begins with the two rows of the sign-up that     *)
(* creates the tenant, and logins add rows that change no master data.     *)
(*                                                                         *)
(* A handler is one READ COMMITTED transaction: an INSERT waits for an     *)
(* uncommitted row of the same unique key, an UPDATE or a DELETE locks its *)
(* row until the end and fails when the row has gone, the plain read       *)
(* before it and the trigger's read of the trail lock nothing.  created_at *)
(* is the order of the inserts into the trail (two of the same millisecond,*)
(* which the trigger tells apart by a random id, are left out); rows       *)
(* become visible in the order of the commits.  A hash stands for the row  *)
(* it was computed from.                                                   *)
(***************************************************************************)
EXTENDS Integers, FiniteSets, FiniteSetsExt

CONSTANTS
  Sessions, \* requests that may run at the same time
  Nobody,   \* the holder of a row that no session holds, the entity of a row about none
  Entities, \* the ids that rows of the master data may get
  Kind,     \* the service each belongs to
  Key,      \* the code its request gives it, within its company
  NoRow,    \* the value of an id whose row is not there
  Fields,   \* the fields of a row that can be changed
  Values,   \* what they may hold
  Initial,  \* what they hold at first
  Requests, \* what an update may set: values of some of the fields
  MaxClock  \* bound: inserts and commits after which nothing is inserted

-----------------------------------------------------------------------------
(***************************************************************************)
(* The services: whether the schema has a unique index on the key of their *)
(* rows, and what they can do to a row after inserting it.                 *)
(***************************************************************************)
Table(unique, ops) == [unique |-> unique, ops |-> ops]
Unique == TRUE
Edit == {"edit"}
Fixed == {}

Companies == Table(~Unique, Edit)
BusinessGroups == Table(~Unique, Edit)
Branches == Table(~Unique, Edit)
Departments == Table(~Unique, Edit)
CostCentres == Table(Unique, Edit)
ProfitCentres == Table(Unique, Edit)
Warehouses == Table(~Unique, Edit)
Users == Table(Unique, Edit)
CompanyAccess == Table(Unique, {"remove"})
\* The grant that sign-up gives the owner is not recorded, and is left out.
TenantAccess == Table(~Unique, {"remove"})
Customers == Table(Unique, Edit)
Suppliers == Table(Unique, Edit)
Products == Table(Unique, Edit)
Brands == Table(~Unique, Edit)
ProductCategories == Table(~Unique, Edit)
Employees == Table(Unique, Edit)
ExchangeRates == Table(Unique, Fixed)
BankAccounts == Table(~Unique, Fixed)
Projects == Table(Unique, Fixed)
Uoms == Table(Unique, Fixed)
Salespersons == Table(~Unique, Fixed)
PaymentTerms == Table(~Unique, Fixed)
TaxCodes == Table(Unique, Fixed)
PriceLists == Table(~Unique, Fixed)

Service ==
  [company |-> Companies, businessGroup |-> BusinessGroups, branch |-> Branches,
   department |-> Departments, costCentre |-> CostCentres,
   profitCentre |-> ProfitCentres, warehouse |-> Warehouses, user |-> Users,
   companyAccess |-> CompanyAccess, tenantAccess |-> TenantAccess,
   customer |-> Customers, supplier |-> Suppliers, product |-> Products,
   brand |-> Brands, productCategory |-> ProductCategories, employee |-> Employees,
   exchangeRate |-> ExchangeRates, bankAccount |-> BankAccounts,
   project |-> Projects, uom |-> Uoms, salesperson |-> Salespersons,
   paymentTerm |-> PaymentTerms, taxCode |-> TaxCodes, priceList |-> PriceLists]

Row == [Fields -> Values]

ASSUME AuditAssumption ==
  /\ Nobody \notin Sessions \cup Entities
  /\ Kind \in [Entities -> DOMAIN Service]
  /\ NoRow \notin Row
  /\ Initial \in Values /\ MaxClock \in Nat
  /\ \A dto \in Requests : DOMAIN dto \subseteq Fields /\ \A f \in DOMAIN dto : dto[f] \in Values

VARIABLES
  value, \* the committed rows of the master data
  lock,  \* the session that holds a row, or Nobody
  trail, \* the committed audit_logs
  clock, \* inserts and commits so far
  sess   \* the transaction of each session

vars == <<value, lock, trail, clock, sess>>

NoHash == 0
NoRequest == [f \in {} |-> Initial]
Blank == [f \in Fields |-> Initial]
Steps == {"idle", "read", "signing", "written", "recorded", "login"}
\* notes: the transaction's audit rows so far that change no master data.
Idle == [step |-> "idle", op |-> "none", entity |-> Nobody, dto |-> NoRequest,
         read |-> 0, before |-> NoRow, after |-> NoRow, at |-> 0, prev |-> NoHash,
         notes |-> {}]

\* Rows of one unique index that have the same key.
Rivals(e) ==
  {d \in Entities \ {e} : Service[Kind[e]].unique /\ Kind[d] = Kind[e] /\ Key[d] = Key[e]}

-----------------------------------------------------------------------------
Init ==
  /\ value = [e \in Entities |-> NoRow]
  /\ lock = [e \in Entities |-> Nobody]
  /\ trail = {}
  /\ clock = 0
  /\ sess = [s \in Sessions |-> Idle]

Become(s, t) == sess' = [sess EXCEPT ![s] = t]

\* The entity's id has never been given out.
NewId(e) == /\ value[e] = NoRow /\ lock[e] = Nobody
            /\ \A r \in trail : r.entity # e

\* Mutant of KeyFree: the index does not see rows that are not committed.
MutantCommittedOnly(e) == \A d \in Rivals(e) : value[d] = NoRow

\* The unique index lets the row in: no committed row has its key, and none of
\* a running transaction does, whose end the insert would wait for.
KeyFree(e) == \A d \in Rivals(e) : value[d] = NoRow /\ lock[d] = Nobody

InsertRow(s, e, step) ==
  /\ sess[s] = Idle
  /\ NewId(e)
  /\ KeyFree(e)
  /\ lock' = [lock EXCEPT ![e] = s]
  /\ Become(s, [Idle EXCEPT !.step = step, !.op = "create", !.entity = e,
                            !.read = clock, !.after = Blank])
  /\ UNCHANGED <<value, trail, clock>>

\* create, grant, invite: the insert, in a tenant that is there
Insert(s, e) ==
  /\ trail # {}
  /\ InsertRow(s, e, "written")

\* signUpTenant: the tenant, which nobody else can work in yet, and its first user
SignUp(s, e) ==
  /\ Kind[e] = "user"
  /\ trail = {} /\ \A x \in Sessions : sess[x] = Idle
  /\ InsertRow(s, e, "signing")

\* update and revoke: the plain read before the write, which finds the row
ReadBefore(s, op, e, dto) ==
  /\ sess[s] = Idle
  /\ op \in Service[Kind[e]].ops
  /\ value[e] # NoRow
  /\ Become(s, [Idle EXCEPT !.step = "read", !.op = op, !.entity = e, !.dto = dto,
                            !.read = clock, !.before = value[e]])
  /\ UNCHANGED <<value, lock, trail, clock>>

\* The row as the UPDATE leaves it: it sets the fields of the request only.
Merge(t) == [f \in Fields |-> IF f \in DOMAIN t.dto THEN t.dto[f] ELSE value[t.entity][f]]

\* Mutants of MayWrite: no row lock; a row that has gone is written all the same.
MutantNoRowLock(e) == value[e] # NoRow
MutantGone(e) == lock[e] = Nobody

\* The UPDATE or DELETE has got the row's lock and still finds the row.
MayWrite(e) == lock[e] = Nobody /\ value[e] # NoRow

Write(s) ==
  LET t == sess[s] IN
  /\ t.step = "read"
  /\ MayWrite(t.entity)
  /\ lock' = [lock EXCEPT ![t.entity] = s]
  /\ Become(s, [t EXCEPT !.step = "written",
                         !.after = IF t.op = "edit" THEN Merge(t) ELSE NoRow])
  /\ UNCHANGED <<value, trail, clock>>

\* Mutants of LastRow: row-level security hides the trail from the trigger; it
\* sees what is committed only.
MutantHidden(s) == NoHash
MutantCommittedRows(s) == IF trail = {} THEN NoHash ELSE Max({r.at : r \in trail})

\* What the trigger's SELECT ... ORDER BY created_at DESC LIMIT 1 returns: the
\* statement sees the committed rows and those of its own transaction.
LastRow(s) ==
  LET seen == {r.at : r \in trail} \cup {n.at : n \in sess[s].notes}
  IN  IF seen = {} THEN NoHash ELSE Max(seen)

\* AuditService.record, and the trigger on its insert
Recorded(s, t) ==
  /\ clock < MaxClock
  /\ clock' = clock + 1
  /\ Become(s, t)
  /\ UNCHANGED <<value, lock, trail>>

Record(s) ==
  /\ sess[s].step = "written"
  /\ Recorded(s, [sess[s] EXCEPT !.step = "recorded", !.at = clock + 1, !.prev = LastRow(s)])

\* Sign-up records the tenant before the user.
RecordTenant(s) ==
  /\ sess[s].step = "signing"
  /\ Recorded(s, [sess[s] EXCEPT
       !.step = "written", !.notes = @ \cup {[at |-> clock + 1, prev |-> LastRow(s)]}])

\* login reads the user and records that it was let in.
Login(s, e) ==
  /\ sess[s] = Idle
  /\ Kind[e] = "user" /\ value[e] # NoRow
  /\ Recorded(s, [Idle EXCEPT
       !.step = "login", !.read = clock, !.notes = {[at |-> clock + 1, prev |-> LastRow(s)]}])

\* Mutant of NewValue: the request on top of the old value.
MutantFromBefore(t) ==
  IF t.op # "edit" THEN t.after
  ELSE [f \in Fields |-> IF f \in DOMAIN t.dto THEN t.dto[f] ELSE t.before[f]]

\* What the audit row shows as the new value: the row the UPDATE returned; for a
\* create it is the request, whose values the inserted row has (sign-up and invite
\* record the e-mail only).
NewValue(t) == t.after

Release(s) == [e \in Entities |-> IF lock[e] = s THEN Nobody ELSE lock[e]]

\* The rows of the transaction in audit_logs, committed at that time.
Note(n, t, time) ==
  [at |-> n.at, prev |-> n.prev, entity |-> Nobody, oldValue |-> NoRow, newValue |-> NoRow,
   read |-> t.read, committed |-> time]
Change(t, time) ==
  [at |-> t.at, prev |-> t.prev, entity |-> t.entity, oldValue |-> t.before,
   newValue |-> NewValue(t), read |-> t.read, committed |-> time]

Commit(s) ==
  LET t == sess[s] IN
  /\ t.step = "recorded"
  /\ value' = [value EXCEPT ![t.entity] = t.after]
  /\ clock' = clock + 1
  /\ trail' = trail \cup {Note(n, t, clock + 1) : n \in t.notes} \cup {Change(t, clock + 1)}
  /\ lock' = Release(s)
  /\ Become(s, Idle)

CommitLogin(s) ==
  LET t == sess[s] IN
  /\ t.step = "login"
  /\ clock' = clock + 1
  /\ trail' = trail \cup {Note(n, t, clock + 1) : n \in t.notes}
  /\ Become(s, Idle)
  /\ UNCHANGED <<value, lock>>

\* A failed statement (a key that is taken, a row that has gone) or a lost
\* connection rolls all of it back.
Abort(s) ==
  /\ sess[s] # Idle
  /\ lock' = Release(s)
  /\ Become(s, Idle)
  /\ UNCHANGED <<value, trail, clock>>

Next ==
  \E s \in Sessions :
    \/ \E e \in Entities : SignUp(s, e) \/ Insert(s, e) \/ Login(s, e)
    \/ \E e \in Entities, dto \in Requests : ReadBefore(s, "edit", e, dto)
    \/ \E e \in Entities : ReadBefore(s, "remove", e, NoRequest)
    \/ Write(s)
    \/ Record(s) \/ RecordTenant(s)
    \/ Commit(s) \/ CommitLogin(s)
    \/ Abort(s)

Spec == Init /\ [][Next]_vars

-----------------------------------------------------------------------------
(***************************************************************************)
(* Properties.                                                             *)
(***************************************************************************)
About(e) == {r \in trail : r.entity = e}

\* In the order of created_at the last create, update or revoke row about an entity
\* shows the entity as it now is, whatever updates of other fields ran at the same time; an entity
\* without audit rows has never been there.
LastEditIsCurrent ==
  \A e \in Entities :
    /\ \A r \in About(e) : (\A q \in About(e) : q.at <= r.at) => r.newValue = value[e]
    /\ About(e) = {} => value[e] = NoRow

Birth(e, birth) ==
  /\ birth.oldValue = NoRow
  /\ \A r \in About(e) \ {birth} : r.oldValue # NoRow /\ birth.committed <= r.read
  /\ \A r, q \in About(e) : r.newValue = NoRow => q.at <= r.at

\* A life begins with one creation, before the read of every other change, and ends
\* with at most one removal, after which nothing is recorded.
LivesOnce ==
  \A e \in Entities : About(e) # {} => \E r \in About(e) : Birth(e, r)

\* No two rows of a table with a unique index have the same key.
KeysAreUnique ==
  \A e \in Entities : value[e] # NoRow => \A d \in Rivals(e) : value[d] = NoRow

\* The create, update and revoke rows about an entity tell one life, although
\* neither update nor revoke looks again whether the row is still there, and of the
\* rows that want one key one is there at a time, although no handler but invite
\* looks before it inserts, and that look locks nothing.
OneLife == LivesOnce /\ KeysAreUnique

\* The change that was committed last when the clock stood at time.
Latest(e, time, q) ==
  /\ q.committed <= time
  /\ \A p \in About(e) : p.committed <= time => p.committed <= q.committed

\* The old value of a change is what its read before the lock found: the new
\* value of the last change committed by then.  It lacks the changes of
\* transactions that committed between this read and the lock, and no others.
OldValueAsOfRead ==
  \A r \in trail : r.oldValue # NoRow =>
    \E q \in About(r.entity) : q.newValue = r.oldValue /\ Latest(r.entity, r.read, q)

\* Rows of one transaction are committed at the same time, those of two never.
Together(r, q) == r.committed = q.committed

\* The row a committed audit row names as its predecessor is itself committed, and
\* was so before the row was inserted, or is of the same transaction: no link leads
\* to a rolled back row.
LinksLeadBack ==
  \A r \in trail :
    r.prev # NoHash =>
      \E q \in trail : q.at = r.prev /\ q.at < r.at /\ (q.committed < r.at \/ Together(r, q))

\* Two rows name the same predecessor only when they are of two transactions and the
\* later one was inserted while that of the earlier one was still running.
ForksAreRaces ==
  \A r, q \in trail : (r.prev = q.prev /\ r.at < q.at) =>
    ~Together(r, q) /\ q.at < r.committed

\* What the hash chain shows: links lead to committed rows, and where two rows go on
\* from the same one their transactions overlapped.
LinksAreTrue == LinksLeadBack /\ ForksAreRaces

(***************************************************************************)
(* The inductive invariant behind the proofs of AuditTrailProofs.          *)
(***************************************************************************)
AuditRow == [at : Nat, prev : Nat, entity : Entities \cup {Nobody}, oldValue : Row \cup {NoRow},
             newValue : Row \cup {NoRow}, read : Nat, committed : Nat]

Transaction ==
  [step : Steps, op : {"none", "create", "edit", "remove"}, entity : Entities \cup {Nobody},
   dto : Requests \cup {NoRequest}, read : Nat, before : Row \cup {NoRow},
   after : Row \cup {NoRow}, at : Nat, prev : Nat, notes : SUBSET [at : Nat, prev : Nat]]

TypeOK ==
  /\ value \in [Entities -> Row \cup {NoRow}]
  /\ lock \in [Entities -> Sessions \cup {Nobody}]
  /\ trail \subseteq AuditRow
  /\ clock \in Nat
  /\ sess \in [Sessions -> Transaction]

Held(e) == lock[e] # Nobody
Taken(e) == value[e] # NoRow \/ Held(e)
Writing(s) == sess[s].step \in {"signing", "written", "recorded"}
Changing(s) == Writing(s) \/ sess[s].step = "read"

\* A row is locked by the transaction that writes it.
HeldOK(e) == Held(e) => lock[e] \in Sessions /\ Writing(lock[e]) /\ sess[lock[e]].entity = e

\* A taken key has one row.
OneRow(e) == Taken(e) => \A d \in Rivals(e) : ~Taken(d)

\* What a session has read is what the trail showed then; from its write on it
\* holds the row, which keeps the value it had and gets no other audit row.
SessionOK(s) ==
  LET t == sess[s] IN
  /\ t.step = "idle" => t = Idle
  /\ t.read <= clock
  /\ Changing(s) =>
       /\ t.entity \in Entities /\ t.op # "none"
       /\ t.op = "create" => t.step # "read" /\ t.before = NoRow
       /\ t.op # "create" =>
            /\ t.before # NoRow
            /\ \E q \in About(t.entity) : q.newValue = t.before /\ Latest(t.entity, t.read, q)
  /\ Writing(s) =>
       /\ lock[t.entity] = s
       /\ IF t.op = "create" THEN About(t.entity) = {} ELSE value[t.entity] # NoRow
       /\ t.op # "remove" => t.after # NoRow
  /\ t.step = "recorded" =>
       /\ t.at <= clock /\ t.prev < t.at
       /\ \A r \in About(t.entity) : r.at < t.at
       /\ \A n \in t.notes : n.at < t.at
  /\ \A n \in t.notes : n.at <= clock /\ n.prev < n.at

\* Links of a row with the given times, of a transaction with the given own rows:
\* back to one of these or to a committed row, and past everything committed before
\* it and all of its own that is older.
LinkOK(at, prev, own) ==
  /\ prev # NoHash => prev \in own \/ \E q \in trail : q.at = prev /\ q.committed < at
  /\ \A r \in trail : r.committed < at => r.at <= prev
  /\ \A n \in own : n < at => n <= prev
  /\ \A r \in trail : r.committed # at

Own(s) == {n.at : n \in sess[s].notes}
OwnOf(r) == {q.at : q \in {p \in trail : Together(r, p)}}

LinkedSession(s) ==
  /\ \A n \in sess[s].notes : LinkOK(n.at, n.prev, Own(s))
  /\ sess[s].step = "recorded" => LinkOK(sess[s].at, sess[s].prev, Own(s))

RowOK(r) ==
  /\ r.prev < r.at /\ r.at < r.committed /\ r.committed <= clock /\ r.read < r.committed
  /\ LinkOK(r.at, r.prev, OwnOf(r))
  /\ r.entity \in Entities =>
       \A q \in About(r.entity) : q.at <= r.at => q.committed <= r.committed

AuditInv ==
  /\ TypeOK
  /\ \A s \in Sessions : SessionOK(s) /\ LinkedSession(s)
  /\ \A e \in Entities : HeldOK(e)
  /\ \A e \in Entities : OneRow(e)
  /\ \A r \in trail : RowOK(r)
  /\ LastEditIsCurrent
  /\ LivesOnce
  /\ OldValueAsOfRead
=============================================================================
