--------------------------- MODULE StorageProofs ---------------------------
(***************************************************************************)
(* What the database guarantees for every number of processes, every set   *)
(* of releases and every unit of work.                                     *)
(***************************************************************************)
EXTENDS Storage, TLAPS

InTransaction == Migrating \union Working
Failed == {"migration_failed", "unit_failed"}

\* Inside the block a process holds the lock; after an exception it may have
\* lost it; everywhere else it does not hold it.
LockInv ==
    \A c \in Processes :
        /\ pc[c] \in InTransaction => lock = c
        /\ lock = c => pc[c] \in InTransaction \union Failed

\* The schema of history h, and the first k - 1 statements of the migration of
\* release r that comes next.
SchemaUpTo(schema, h, r, k) ==
    \A name \in Names : \A j \in 1..StatementsOf[name] :
        <<name, j>> \in schema <=>
            \/ \E i \in 1..Len(h) : h[i] = name
            \/ Len(h) < Len(r) /\ name = r[Len(h) + 1] /\ j < k

\* apply_migrations between its BEGIN and its COMMIT.
MigrationInv(c) ==
    pc[c] \in Migrating =>
        /\ view[c].catalog = disk.catalog /\ view[c].stock = disk.stock
        /\ pc[c] = "history" =>
            /\ view[c].history = disk.history /\ view[c].schema = disk.schema
            /\ statement[c] = 1
        /\ pc[c] = "migrate" =>
            /\ Store!Continues(release[c], view[c].history)
            /\ Store!Continues(view[c].history, disk.history)
            /\ SchemaUpTo(view[c].schema, view[c].history, release[c], statement[c])

\* The items of w before the k-th can be created and, if all goes well, were.
CreatedSoFar(w, k, db, records) ==
    /\ \A i \in 1..(k - 1) :
        /\ w[i].quantity \in 0..MaxInteger
        /\ \E row \in Store!Row(db.catalog, w[i].id) : row.status = "active"
        /\ ~Store!Stocked(db.stock, w[i].id)
        /\ \A j \in 1..(k - 1) : i # j => w[i].id # w[j].id
    /\ \A record : record \in records <=>
        \/ record \in db.stock
        \/ \E i \in 1..(k - 1) : record \in Store!Inserted(db.catalog, w[i])

\* A unit of work between its BEGIN and its COMMIT or ROLLBACK.
UnitInv(c) ==
    pc[c] \in Working \union {"unit_failed"} /\ lock = c =>
        /\ view[c].history = disk.history /\ view[c].schema = disk.schema
        /\ view[c].catalog = disk.catalog
        /\ work[c] \in Works /\ statement[c] <= Len(work[c]) + 1
        /\ CreatedSoFar(work[c], statement[c], disk, view[c].stock)
        /\ pc[c] = "insert" =>
            /\ statement[c] <= Len(work[c])
            /\ work[c][statement[c]].quantity >= 0
            /\ Store!Row(disk.catalog, work[c][statement[c]].id) # {}
            /\ \A row \in Store!Row(disk.catalog, work[c][statement[c]].id) :
                row.status # "retired"

\* Between start-up and exit the schema is at least the release's.
ReleaseInv(c) ==
    pc[c] \in {"open", "unit_failed"} \union Working =>
        Store!Continues(disk.history, release[c])

\* The reason of a refusal is protected by the lock until it is given.
RefusalInv(c) ==
    pc[c] = "unit_failed" =>
        LET p == work[c][statement[c]].id IN
        /\ error[c] # "statement" => lock = c
        /\ error[c] = "unknown" => Store!Row(disk.catalog, p) = {}
        /\ error[c] = "retired" =>
            \E row \in Store!Row(disk.catalog, p) : row.status = "retired"
        /\ error[c] = "exists" => Store!Stocked(disk.stock \union view[c].stock, p)

ProcessInv(c) ==
    MigrationInv(c) /\ UnitInv(c) /\ ReleaseInv(c) /\ RefusalInv(c)

\* The steps of one process.
StepOf(c) ==
    \/ BeginBusy(c) \/ StatementFails(c) \/ Rollback(c)
    \/ Commit(c) \/ CommitFails(c)
    \/ Connect(c) \/ BeginMigrations(c) \/ CheckHistory(c)
    \/ MigrationStatement(c)
    \/ BeginUnit(c) \/ SelectProduct(c) \/ InsertRecord(c)
    \/ CatalogStatement(c) \/ Die(c)

DiskInv == SchemaMatchesHistory /\ reported \subseteq disk.stock

IInv == TypeOK /\ LockInv /\ DiskInv /\ \A c \in Processes : ProcessInv(c)

-----------------------------------------------------------------------------
(* Histories.                                                              *)

\* A history that continues one that continues a third continues the third.
LEMMA ContinuesTransitive ==
    ASSUME NEW S, NEW x \in Seq(S), NEW y \in Seq(S), NEW z \in Seq(S),
           Store!Continues(x, y), Store!Continues(y, z)
    PROVE  Store!Continues(x, z)
BY DEF Store!Continues

-----------------------------------------------------------------------------
(* Types.                                                                  *)

\* What a catalog statement makes of rows are rows.
LEMMA CatalogTypes ==
    ASSUME NEW rows \in SUBSET Store!CatalogRow, NEW records,
           NEW new \in Store!CatalogChanges(rows, records)
    PROVE  new \in SUBSET Store!CatalogRow
BY DEF Store!CatalogChanges, Store!CatalogRow

\* What an INSERT adds are stock rows.
LEMMA InsertedTypes ==
    ASSUME NEW rows \in SUBSET Store!CatalogRow,
           NEW item \in [id: Products, quantity: Int], item.quantity \in Nat
    PROVE  Store!Inserted(rows, item) \subseteq Store!StockRow
BY DEF Store!Inserted, Store!Row, Store!CatalogRow, Store!StockRow

\* The initial state is well typed.
LEMMA InitTypes == Init => TypeOK
BY StorageAssumption DEF Init, TypeOK, NoDatabase, Databases, Errors, Migrating, Working

\* NoDatabase is a database, and the empty unit of work a sequence.
LEMMA EmptyTypes ==
    NoDatabase \in Databases /\ <<>> \in Seq([id: Products, quantity: Int])
BY DEF NoDatabase, Databases

\* The types, in the parts the provers take one at a time.
ControlTypes ==
    /\ lock \in Processes \union {Free}
    /\ pc \in [Processes -> {"closed", "connected", "open", "migration_failed",
                             "unit_failed"} \union Migrating \union Working]
    /\ release \in [Processes -> Releases]
    /\ error \in [Processes -> Errors]

ViewTypes ==
    /\ view \in [Processes -> Databases]
    /\ statement \in [Processes -> Nat \ {0}]
    /\ work \in [Processes -> Seq([id: Products, quantity: Int])]

DiskTypes == disk \in Databases /\ reported \subseteq Store!StockRow

\* The parts together are the type invariant.
LEMMA TypeParts == TypeOK <=> ControlTypes /\ ViewTypes /\ DiskTypes
BY DEF TypeOK, ControlTypes, ViewTypes, DiskTypes

\* When a transaction is over nothing of it is left.
Reset(c) ==
    /\ view' = [view EXCEPT ![c] = NoDatabase]
    /\ work' = [work EXCEPT ![c] = <<>>]
    /\ statement' = [statement EXCEPT ![c] = 1]

\* Resetting keeps the types.
LEMMA ResetTypes ==
    ASSUME NEW c \in Processes, ViewTypes, Reset(c)
    PROVE  ViewTypes'
<1>1. view' \in [Processes -> Databases]
  BY EmptyTypes DEF ViewTypes, Reset
<1>2. work' \in [Processes -> Seq([id: Products, quantity: Int])]
  BY EmptyTypes DEF ViewTypes, Reset
<1>3. statement' \in [Processes -> Nat \ {0}]
  BY DEF ViewTypes, Reset
<1>. QED
  BY <1>1, <1>2, <1>3 DEF ViewTypes

\* An element of a sequence is of the sequence's set.
LEMMA ElementType ==
    ASSUME NEW S, NEW s \in Seq(S), NEW i \in 1..Len(s)
    PROVE  s[i] \in S
OBVIOUS

\* One field of one process's view changes.
LEMMA ViewChange ==
    ASSUME NEW c \in Processes, view \in [Processes -> Databases],
           NEW db \in Databases, view' = [view EXCEPT ![c] = db]
    PROVE  view' \in [Processes -> Databases]
OBVIOUS

\* A transaction starts from the committed database.
LEMMA BeginTypes ==
    ASSUME NEW c \in Processes, view \in [Processes -> Databases], disk \in Databases,
           BeginImmediate(c)
    PROVE  view' \in [Processes -> Databases]
BY DEF BeginImmediate

\* Every action keeps the types.
LEMMA NextTypes ==
    ASSUME TypeOK, LockInv, \A c \in Processes : ProcessInv(c), [Next]_vars
    PROVE  TypeOK'
<1>. SUFFICES ASSUME ControlTypes, ViewTypes, DiskTypes
              PROVE  ControlTypes' /\ ViewTypes' /\ DiskTypes'
  BY TypeParts DEF TypeOK, ControlTypes, ViewTypes, DiskTypes
<1>. SUFFICES ASSUME NEW c \in Processes, StepOf(c)
              PROVE  ControlTypes' /\ ViewTypes' /\ DiskTypes'
  BY DEF Next, StepOf, vars, ControlTypes, ViewTypes, DiskTypes
<1>. USE EmptyTypes DEF ControlTypes, ViewTypes, DiskTypes, Errors, Migrating, Working
<1>1. CASE BeginBusy(c)
  <2>1. ControlTypes'
    BY <1>1 DEF BeginBusy
  <2>2. ViewTypes'
    BY <1>1 DEF BeginBusy
  <2>3. DiskTypes'
    BY <1>1 DEF BeginBusy
  <2>. QED
    BY <2>1, <2>2, <2>3
<1>2. CASE StatementFails(c)
  <2>1. ControlTypes'
    BY <1>2 DEF StatementFails, Raise
  <2>2. ViewTypes'
    BY <1>2 DEF StatementFails, Raise
  <2>3. DiskTypes'
    BY <1>2 DEF StatementFails, Raise
  <2>. QED
    BY <2>1, <2>2, <2>3
<1>3. CASE Rollback(c)
  <2>1. ControlTypes'
    BY <1>3 DEF Rollback, Return
  <2>2. ViewTypes'
    BY <1>3, ResetTypes DEF Reset, Rollback, Return
  <2>3. DiskTypes'
    BY <1>3 DEF Rollback, Return
  <2>. QED
    BY <2>1, <2>2, <2>3
<1>4. CASE Commit(c)
  <2>1. ControlTypes'
    BY <1>4 DEF Commit
  <2>2. ViewTypes'
    BY <1>4, ResetTypes DEF Reset, Commit
  <2>3. DiskTypes'
    BY <1>4 DEF Commit, Databases
  <2>. QED
    BY <2>1, <2>2, <2>3
<1>5. CASE CommitFails(c)
  <2>1. ControlTypes'
    BY <1>5 DEF CommitFails, Return
  <2>2. ViewTypes'
    BY <1>5, ResetTypes DEF Reset, CommitFails, Return
  <2>3. DiskTypes'
    BY <1>5 DEF CommitFails, Return
  <2>. QED
    BY <2>1, <2>2, <2>3
<1>6. CASE Connect(c)
  <2>1. ControlTypes'
    BY <1>6 DEF Connect
  <2>2. ViewTypes'
    BY <1>6 DEF Connect
  <2>3. DiskTypes'
    BY <1>6 DEF Connect
  <2>. QED
    BY <2>1, <2>2, <2>3
<1>7. CASE BeginMigrations(c)
  <2>1. view' \in [Processes -> Databases]
    BY <1>7, BeginTypes DEF BeginMigrations
  <2>2. statement' \in [Processes -> Nat \ {0}] /\ work' = work
    BY <1>7 DEF BeginMigrations, BeginImmediate
  <2>3. ControlTypes' /\ DiskTypes'
    BY <1>7 DEF BeginMigrations, BeginImmediate
  <2>. QED
    BY <2>1, <2>2, <2>3
<1>8. CASE CheckHistory(c)
  BY <1>8 DEF CheckHistory, Raise
<1>9. CASE MigrationStatement(c)
  <2>. DEFINE name == release[c][Len(view[c].history) + 1]
  <2>1. /\ release[c] \in Seq(Names) /\ view[c].history \in Seq(Names)
        /\ Len(view[c].history) < Len(release[c])
        /\ view[c].schema \in SUBSET (Names \X (Nat \ {0}))
    BY <1>9, StorageAssumption DEF MigrationStatement, Databases
  <2>2. name \in Names
    BY <2>1
  <2>. HIDE DEF name
  <2>3. /\ Append(view[c].history, name) \in Seq(Names)
        /\ view[c].schema \union {<<name, statement[c]>>} \in SUBSET (Names \X (Nat \ {0}))
    BY <2>1, <2>2
  <2>4. \/ view' = [view EXCEPT ![c].schema = @ \union {<<name, statement[c]>>}]
        \/ view' = [view EXCEPT ![c].history = Append(@, name)]
    BY <1>9 DEF MigrationStatement, name
  <2>5. view' \in [Processes -> Databases]
    <3>1. /\ [view[c] EXCEPT !.schema = @ \union {<<name, statement[c]>>}] \in Databases
          /\ [view[c] EXCEPT !.history = Append(@, name)] \in Databases
      BY <2>3 DEF Databases
    <3>2. \/ view' = [view EXCEPT ![c] = [view[c] EXCEPT !.schema = @ \union {<<name, statement[c]>>}]]
          \/ view' = [view EXCEPT ![c] = [view[c] EXCEPT !.history = Append(@, name)]]
      BY <2>4
    <3>. QED
      BY <3>1, <3>2, ViewChange
  <2>6. statement' \in [Processes -> Nat \ {0}]
    <3>1. statement[c] + 1 \in Nat \ {0} /\ 1 \in Nat \ {0}
      OBVIOUS
    <3>2. \/ statement' = [statement EXCEPT ![c] = statement[c] + 1]
          \/ statement' = [statement EXCEPT ![c] = 1]
      BY <1>9 DEF MigrationStatement
    <3>. QED
      BY <3>1, <3>2
  <2>. QED
    BY <1>9, <2>5, <2>6 DEF MigrationStatement
<1>10. CASE BeginUnit(c)
  <2>1. work' \in [Processes -> Seq([id: Products, quantity: Int])]
    BY <1>10, StorageAssumption DEF BeginUnit
  <2>2. view' \in [Processes -> Databases]
    BY <1>10, BeginTypes DEF BeginUnit
  <2>3. statement' \in [Processes -> Nat \ {0}]
    BY <1>10 DEF BeginUnit, BeginImmediate
  <2>4. ControlTypes' /\ DiskTypes'
    BY <1>10 DEF BeginUnit, BeginImmediate
  <2>. QED
    BY <2>1, <2>2, <2>3, <2>4
<1>11. CASE SelectProduct(c)
  BY <1>11 DEF SelectProduct, Raise
<1>12. CASE InsertRecord(c)
  <2>. DEFINE item == work[c][statement[c]]
  <2>1. item \in [id: Products, quantity: Int] /\ item.quantity \in Nat
    <3>1. pc[c] = "insert" /\ lock = c
      BY <1>12 DEF InsertRecord, LockInv, InTransaction
    <3>2. statement[c] \in 1..Len(work[c]) /\ item.quantity >= 0
      BY <3>1 DEF ProcessInv, UnitInv
    <3>3. work[c] \in Seq([id: Products, quantity: Int])
      OBVIOUS
    <3>. HIDE DEF item
    <3>4. item \in [id: Products, quantity: Int]
      BY <3>2, <3>3, ElementType DEF item
    <3>. QED
      BY <3>2, <3>4
  <2>2. view[c].catalog \in SUBSET Store!CatalogRow /\ view[c].stock \in SUBSET Store!StockRow
    BY DEF Databases
  <2>. DEFINE new == view[c].stock \union Store!Inserted(view[c].catalog, item)
  <2>3. new \in SUBSET Store!StockRow
    BY <2>1, <2>2, InsertedTypes
  <2>4. view' = view \/ view' = [view EXCEPT ![c].stock = new]
    BY <1>12 DEF InsertRecord, Raise
  <2>. HIDE DEF item, new
  <2>5. view' \in [Processes -> Databases]
    <3>1. [view[c] EXCEPT !.stock = new] \in Databases
      BY <2>3 DEF Databases
    <3>2. CASE view' = [view EXCEPT ![c] = [view[c] EXCEPT !.stock = new]]
      BY <3>1, <3>2, ViewChange
    <3>. QED
      BY <2>4, <3>2
  <2>6. ControlTypes' /\ DiskTypes'
    BY <1>12 DEF InsertRecord, Raise
  <2>7. statement' \in [Processes -> Nat \ {0}] /\ work' = work
    <3>1. statement[c] + 1 \in Nat \ {0}
      OBVIOUS
    <3>2. statement' = statement \/ statement' = [statement EXCEPT ![c] = statement[c] + 1]
      BY <1>12 DEF InsertRecord, Raise
    <3>3. statement' \in [Processes -> Nat \ {0}]
      BY <3>1, <3>2
    <3>. QED
      BY <1>12, <3>3 DEF InsertRecord, Raise
  <2>. QED
    BY <2>5, <2>6, <2>7
<1>13. CASE CatalogStatement(c)
  <2>1. PICK rows \in Store!CatalogChanges(disk.catalog, disk.stock) :
          disk' = [disk EXCEPT !.catalog = rows]
    BY <1>13 DEF CatalogStatement
  <2>2. rows \in SUBSET Store!CatalogRow
    BY <2>1, CatalogTypes DEF Databases
  <2>3. disk' \in Databases
    BY <2>1, <2>2 DEF Databases
  <2>. QED
    BY <1>13, <2>3 DEF CatalogStatement
<1>14. CASE Die(c)
  <2>1. ControlTypes'
    BY <1>14 DEF Die
  <2>2. ViewTypes'
    BY <1>14, ResetTypes DEF Reset, Die
  <2>3. DiskTypes'
    BY <1>14 DEF Die
  <2>. QED
    BY <2>1, <2>2, <2>3
<1>. QED
  BY <1>1, <1>2, <1>3, <1>4, <1>5, <1>6, <1>7, <1>8, <1>9, <1>10, <1>11, <1>12,
     <1>13, <1>14 DEF StepOf

-----------------------------------------------------------------------------
(* The lock.                                                               *)

\* A step of c moves the lock only to and from c, changes the file only when no
\* other process holds the lock, and touches nothing of another process.
OnlyOf(c) ==
    /\ \A d \in Processes \ {c} :
        /\ pc'[d] = pc[d] /\ release'[d] = release[d] /\ view'[d] = view[d]
        /\ work'[d] = work[d] /\ statement'[d] = statement[d] /\ error'[d] = error[d]
    /\ lock' = lock \/ (lock \in {Free, c} /\ lock' \in {Free, c})
    /\ disk' = disk \/ lock \in {Free, c}

\* Every step is of one process only, in that sense.
LEMMA StepsAreOwn ==
    ASSUME TypeOK, LockInv, NEW c \in Processes, StepOf(c)
    PROVE  OnlyOf(c)
<1>. USE DEF OnlyOf, TypeOK, LockInv, InTransaction, Migrating, Working, StepOf
<1>1. CASE BeginBusy(c) \/ Connect(c) \/ CatalogStatement(c) \/ Die(c)
  BY <1>1 DEF BeginBusy, Connect, CatalogStatement, Die
<1>2. CASE StatementFails(c) \/ Rollback(c)
  BY <1>2 DEF StatementFails, Rollback, Raise, Return
<1>3. CASE Commit(c) \/ CommitFails(c)
  BY <1>3 DEF Commit, CommitFails, AtTheEnd, Return
<1>4. CASE BeginMigrations(c) \/ BeginUnit(c)
  BY <1>4 DEF BeginMigrations, BeginUnit, BeginImmediate
<1>5. CASE CheckHistory(c) \/ SelectProduct(c)
  BY <1>5 DEF CheckHistory, SelectProduct, Raise
<1>6. CASE MigrationStatement(c)
  BY <1>6 DEF MigrationStatement
<1>7. CASE InsertRecord(c)
  BY <1>7 DEF InsertRecord, Raise
<1>. QED
  BY <1>1, <1>2, <1>3, <1>4, <1>5, <1>6, <1>7

\* The lock stays with the process whose transaction it is.
LEMMA LockStep ==
    ASSUME TypeOK, LockInv, NEW c \in Processes, StepOf(c)
    PROVE  LockInv'
<1>. USE StorageAssumption
         DEF LockInv, TypeOK, InTransaction, Failed, Migrating, Working
<1>1. OnlyOf(c)
  BY StepsAreOwn
<1>2. ASSUME NEW d \in Processes, d # c
      PROVE  /\ pc'[d] \in InTransaction => lock' = d
             /\ lock' = d => pc'[d] \in InTransaction \union Failed
  BY <1>1, <1>2 DEF OnlyOf
<1>3. /\ pc'[c] \in InTransaction => lock' = c
      /\ lock' = c => pc'[c] \in InTransaction \union Failed
  <2>. USE DEF StepOf
  <2>1. CASE BeginBusy(c) \/ Connect(c) \/ CatalogStatement(c) \/ Die(c)
    BY <2>1 DEF BeginBusy, Connect, CatalogStatement, Die
  <2>2. CASE StatementFails(c) \/ Rollback(c)
    BY <2>2 DEF StatementFails, Rollback, Raise, Return
  <2>3. CASE Commit(c) \/ CommitFails(c)
    BY <2>3 DEF Commit, CommitFails, AtTheEnd, Return
  <2>4. CASE BeginMigrations(c) \/ BeginUnit(c)
    BY <2>4 DEF BeginMigrations, BeginUnit, BeginImmediate
  <2>5. CASE CheckHistory(c) \/ SelectProduct(c)
    BY <2>5 DEF CheckHistory, SelectProduct, Raise
  <2>6. CASE MigrationStatement(c)
    BY <2>6 DEF MigrationStatement
  <2>7. CASE InsertRecord(c)
    BY <2>7 DEF InsertRecord, Raise
  <2>. QED
    BY <2>1, <2>2, <2>3, <2>4, <2>5, <2>6, <2>7
<1>. QED
  BY <1>2, <1>3

-----------------------------------------------------------------------------
(* What one process does leaves the invariant of the others alone.         *)

\* Views and histories have the types the lemmas on histories ask for.
LEMMA HistoryTypes ==
    ASSUME TypeOK, NEW c \in Processes
    PROVE  /\ disk.history \in Seq(Names) /\ view[c].history \in Seq(Names)
           /\ release[c] \in Seq(Names) /\ work[c] \in Seq([id: Products, quantity: Int])
           /\ statement[c] \in Nat \ {0}
<1>1. disk \in Databases /\ view[c] \in Databases
  BY DEF TypeOK
<1>2. release[c] \in Releases
  BY DEF TypeOK
<1>. QED
  BY <1>1, <1>2, StorageAssumption DEF TypeOK, Databases

\* The history only grows.
LEMMA HistoryGrows ==
    ASSUME TypeOK, LockInv, NEW c \in Processes, ProcessInv(c), StepOf(c)
    PROVE  Store!Continues(disk'.history, disk.history)
<1>. USE HistoryTypes DEF StepOf
<1>1. disk' = disk => Store!Continues(disk'.history, disk.history)
  BY DEF Store!Continues
<1>2. CASE Commit(c)
  <2>1. CASE pc[c] = "migrate"
    BY <1>2, <2>1 DEF Commit, ProcessInv, MigrationInv, Migrating
  <2>2. CASE pc[c] = "unit"
    <3>1. disk'.history = disk.history
      BY <1>2, <2>2 DEF Commit, ProcessInv, UnitInv, Working, LockInv, InTransaction
    <3>. QED
      BY <3>1 DEF Store!Continues
  <2>. QED
    BY <1>2, <2>1, <2>2 DEF Commit, AtTheEnd
<1>3. CASE CatalogStatement(c)
  <2>1. disk'.history = disk.history
    BY <1>3 DEF CatalogStatement, TypeOK, Databases
  <2>. QED
    BY <2>1 DEF Store!Continues
<1>4. CASE ~Commit(c) /\ ~CatalogStatement(c)
  <2>1. disk' = disk
    BY <1>4 DEF BeginBusy, StatementFails, Rollback, CommitFails, Connect, BeginMigrations,
       CheckHistory, MigrationStatement, BeginUnit, SelectProduct, InsertRecord, Die, Raise
  <2>. QED
    BY <1>1, <2>1
<1>. QED
  BY <1>2, <1>3, <1>4

\* The invariant of every other process survives a step of c.
LEMMA OthersKeep ==
    ASSUME TypeOK, TypeOK', LockInv, NEW c \in Processes, NEW d \in Processes, d # c,
           ProcessInv(c), ProcessInv(d), StepOf(c)
    PROVE  ProcessInv(d)'
<1>1. OnlyOf(c) /\ Store!Continues(disk'.history, disk.history)
  BY StepsAreOwn, HistoryGrows
<1>2. /\ pc'[d] = pc[d] /\ release'[d] = release[d] /\ view'[d] = view[d]
      /\ work'[d] = work[d] /\ statement'[d] = statement[d] /\ error'[d] = error[d]
      /\ lock = d <=> lock' = d
      /\ disk' = disk \/ lock # d
  BY <1>1, StorageAssumption DEF OnlyOf
<1>3. ReleaseInv(d)'
  <2>1. /\ disk.history \in Seq(Names) /\ disk'.history \in Seq(Names)
        /\ release[d] \in Seq(Names)
    BY HistoryTypes DEF TypeOK, Databases
  <2>2. pc[d] \in {"open", "unit_failed"} \union Working =>
            Store!Continues(disk'.history, release[d])
    BY <1>1, <2>1, ContinuesTransitive DEF ProcessInv, ReleaseInv
  <2>. QED
    BY <1>2, <2>2 DEF ReleaseInv
<1>4. MigrationInv(d)'
  BY <1>2 DEF ProcessInv, MigrationInv, LockInv, InTransaction
<1>5. UnitInv(d)'
  BY <1>2 DEF ProcessInv, UnitInv
<1>6. RefusalInv(d)'
  BY <1>2 DEF ProcessInv, RefusalInv
<1>. QED
  BY <1>3, <1>4, <1>5, <1>6 DEF ProcessInv

-----------------------------------------------------------------------------
(* What a step does to its own process and to the file.                    *)

\* Nothing of the file changes: the invariant of the file is kept.
LEMMA DiskKept ==
    ASSUME DiskInv, disk' = disk, reported' = reported
    PROVE  DiskInv'
BY DEF DiskInv, SchemaMatchesHistory

\* A process outside any transaction that is not open owes nothing.
LEMMA OutsideOwesNothing ==
    ASSUME NEW c \in Processes, pc'[c] \in {"closed", "connected", "migration_failed"}
    PROVE  ProcessInv(c)'
BY DEF ProcessInv, MigrationInv, UnitInv, ReleaseInv, RefusalInv, Migrating, Working

\* Connecting, losing the wait for the lock and dying.
LEMMA OutsideSteps ==
    ASSUME TypeOK, DiskInv, NEW c \in Processes, Connect(c) \/ BeginBusy(c) \/ Die(c)
    PROVE  DiskInv' /\ ProcessInv(c)'
<1>1. pc'[c] \in {"closed", "connected"} /\ disk' = disk /\ reported' = reported
  BY DEF Connect, BeginBusy, Die, TypeOK
<1>. QED
  BY <1>1, OutsideOwesNothing, DiskKept

\* An exception: the refusal of a unit of work is remembered with its reason.
LEMMA RaiseKeeps ==
    ASSUME TypeOK, LockInv, DiskInv, NEW c \in Processes, ProcessInv(c),
           pc[c] \in InTransaction, NEW e \in Errors, Raise(c, e),
           lock' = lock \/ (e = "statement" /\ lock' # c),
           LET p == work[c][statement[c]].id IN
           /\ e = "unknown" => Store!Row(view[c].catalog, p) = {}
           /\ e = "retired" =>
               \E row \in Store!Row(view[c].catalog, p) : row.status = "retired"
           /\ e = "exists" => Store!Stocked(view[c].stock, p),
           pc[c] \in Migrating => e \in {"history", "statement"}
    PROVE  DiskInv' /\ ProcessInv(c)'
<1>1. DiskInv'
  BY DiskKept DEF Raise
<1>2. CASE pc[c] \in Migrating
  <2>1. pc'[c] = "migration_failed"
    BY <1>2 DEF Raise, TypeOK
  <2>. QED
    BY <1>1, <2>1, OutsideOwesNothing
<1>3. CASE pc[c] \in Working
  <2>1. /\ pc'[c] = "unit_failed" /\ error'[c] = e /\ lock = c
        /\ UNCHANGED <<disk, release, view, work, statement>>
    BY <1>3 DEF Raise, TypeOK, LockInv, InTransaction, Migrating, Working
  <2>2. MigrationInv(c)' /\ ReleaseInv(c)'
    BY <1>3, <2>1 DEF MigrationInv, ReleaseInv, ProcessInv, Migrating
  <2>3. UnitInv(c)'
    BY <1>3, <2>1 DEF UnitInv, ProcessInv
  <2>4. view[c].catalog = disk.catalog
    BY <1>3, <2>1 DEF UnitInv, ProcessInv
  <2>5. Store!Stocked(view[c].stock, work[c][statement[c]].id) =>
            Store!Stocked(disk.stock \union view[c].stock, work[c][statement[c]].id)
    BY DEF Store!Stocked, Store!Row
  <2>6. RefusalInv(c)'
    BY <2>1, <2>4, <2>5 DEF RefusalInv
  <2>. QED
    BY <1>1, <2>2, <2>3, <2>6 DEF ProcessInv
<1>. QED
  BY <1>2, <1>3 DEF InTransaction

\* An open connection owes only its release's schema.
LEMMA OpenOwesItsSchema ==
    ASSUME NEW c \in Processes, pc'[c] = "open", Store!Continues(disk'.history, release'[c])
    PROVE  ProcessInv(c)'
BY DEF ProcessInv, MigrationInv, UnitInv, ReleaseInv, RefusalInv, Migrating, Working

\* A failing statement, ROLLBACK and a failing COMMIT leave the file as it was.
LEMMA FailuresKeep ==
    ASSUME TypeOK, LockInv, DiskInv, NEW c \in Processes, ProcessInv(c),
           StatementFails(c) \/ Rollback(c) \/ CommitFails(c)
    PROVE  DiskInv' /\ ProcessInv(c)'
<1>1. CASE StatementFails(c)
  <2>1. lock' = lock \/ lock' # c
    BY <1>1, StorageAssumption DEF StatementFails
  <2>. QED
    BY <1>1, <2>1, RaiseKeeps DEF StatementFails, InTransaction, Errors
<1>2. CASE Rollback(c) \/ CommitFails(c)
  <2>1. /\ pc'[c] = "closed" \/ (pc'[c] = "open" /\ pc[c] \in Working \union {"unit_failed"})
        /\ disk' = disk /\ reported' = reported /\ release' = release
    BY <1>2 DEF Rollback, CommitFails, AtTheEnd, Return, TypeOK, Migrating, Working
  <2>. QED
    BY <2>1, OutsideOwesNothing, OpenOwesItsSchema, DiskKept DEF ProcessInv, ReleaseInv
<1>. QED
  BY <1>1, <1>2

\* COMMIT of a start-up: the schema is that of the release, all of it.
LEMMA MigrationCommits ==
    ASSUME TypeOK, LockInv, DiskInv, NEW c \in Processes, ProcessInv(c),
           Commit(c), pc[c] = "migrate"
    PROVE  DiskInv' /\ ProcessInv(c)'
<1>1. /\ disk' = view[c] /\ pc'[c] = "open" /\ release' = release
      /\ Len(view[c].history) = Len(release[c])
      /\ reported' = reported \union (view[c].stock \ disk.stock)
  BY DEF Commit, AtTheEnd, TypeOK
<1>2. /\ view[c].stock = disk.stock
      /\ Store!Continues(release[c], view[c].history)
      /\ SchemaUpTo(view[c].schema, view[c].history, release[c], statement[c])
  BY DEF ProcessInv, MigrationInv, Migrating
<1>3. Store!Continues(view[c].history, release[c])
  BY <1>1, <1>2, HistoryTypes DEF Store!Continues
<1>4. SchemaMatchesHistory'
  <2>. SUFFICES ASSUME NEW name \in Names, NEW j \in 1..StatementsOf[name]
                PROVE  <<name, j>> \in disk'.schema <=>
                        \E i \in 1..Len(disk'.history) : disk'.history[i] = name
    BY DEF SchemaMatchesHistory
  <2>1. ~(Len(view[c].history) < Len(release[c]))
    BY <1>1, HistoryTypes
  <2>2. <<name, j>> \in view[c].schema <=>
            \E i \in 1..Len(view[c].history) : view[c].history[i] = name
    BY <1>2, <2>1 DEF SchemaUpTo
  <2>. QED
    BY <1>1, <2>2
<1>. QED
  BY <1>1, <1>2, <1>3, <1>4, OpenOwesItsSchema DEF DiskInv

\* COMMIT of a unit of work: no record is lost.
LEMMA UnitCommits ==
    ASSUME TypeOK, LockInv, DiskInv, NEW c \in Processes, ProcessInv(c),
           Commit(c), pc[c] = "unit"
    PROVE  DiskInv' /\ ProcessInv(c)'
<1>1. /\ disk' = view[c] /\ pc'[c] = "open" /\ release' = release /\ lock = c
      /\ reported' = reported \union (view[c].stock \ disk.stock)
  BY DEF Commit, AtTheEnd, TypeOK, LockInv, InTransaction, Working
<1>2. /\ view[c].history = disk.history /\ view[c].schema = disk.schema
      /\ disk.stock \subseteq view[c].stock
      /\ Store!Continues(disk.history, release[c])
  BY <1>1 DEF ProcessInv, UnitInv, ReleaseInv, Working, CreatedSoFar
<1>3. SchemaMatchesHistory'
  BY <1>1, <1>2 DEF SchemaMatchesHistory, DiskInv
<1>. QED
  BY <1>1, <1>2, <1>3, OpenOwesItsSchema DEF DiskInv

\* Before the first statement of a migration only the history's are there.
LEMMA NothingYet ==
    ASSUME NEW schema, NEW h, NEW r,
           \A n \in Names : \A j \in 1..StatementsOf[n] :
            <<n, j>> \in schema <=> \E i \in 1..Len(h) : h[i] = n
    PROVE  SchemaUpTo(schema, h, r, 1)
<1>. SUFFICES ASSUME NEW n \in Names, NEW j \in 1..StatementsOf[n]
              PROVE  ~(j < 1)
  BY DEF SchemaUpTo
<1>. StatementsOf[n] \in Nat
  BY StorageAssumption
<1>. QED
  OBVIOUS

\* A statement of the pending migration adds its object.
LEMMA OneMoreStatement ==
    ASSUME NEW schema, NEW h \in Seq(Names), NEW r \in Seq(Names), NEW k \in Nat,
           Len(h) < Len(r), SchemaUpTo(schema, h, r, k)
    PROVE  SchemaUpTo(schema \union {<<r[Len(h) + 1], k>>}, h, r, k + 1)
<1>. SUFFICES ASSUME NEW n \in Names, NEW j \in 1..StatementsOf[n]
              PROVE  <<n, j>> \in schema \union {<<r[Len(h) + 1], k>>} <=>
                        \/ \E i \in 1..Len(h) : h[i] = n
                        \/ Len(h) < Len(r) /\ n = r[Len(h) + 1] /\ j < k + 1
  BY DEF SchemaUpTo
<1>1. <<n, j>> \in schema <=>
        (\E i \in 1..Len(h) : h[i] = n) \/ (n = r[Len(h) + 1] /\ j < k)
  BY DEF SchemaUpTo
<1>2. j \in Int
  OBVIOUS
<1>3. j < k + 1 <=> j < k \/ j = k
  BY <1>2
<1>. QED
  BY <1>1, <1>3

\* Once all its statements are there the migration is part of the history.
LEMMA MigrationDone ==
    ASSUME NEW schema, NEW h \in Seq(Names), NEW r \in Seq(Names), NEW k \in Nat,
           Len(h) < Len(r), SchemaUpTo(schema, h, r, k), k > StatementsOf[r[Len(h) + 1]]
    PROVE  SchemaUpTo(schema, Append(h, r[Len(h) + 1]), r, 1)
<1>. DEFINE name == r[Len(h) + 1]
            g == Append(h, name)
<1>1. Len(h) \in Nat /\ Len(r) \in Nat /\ name \in Names
  OBVIOUS
<1>2. /\ Len(g) = Len(h) + 1 /\ g[Len(h) + 1] = name
      /\ \A i \in 1..Len(h) : g[i] = h[i]
  BY <1>1
<1>3. StatementsOf[name] \in Nat /\ k > StatementsOf[name]
  BY <1>1, StorageAssumption
<1>4. ASSUME NEW n \in Names, NEW j \in 1..StatementsOf[n]
      PROVE  <<n, j>> \in schema <=> (\E i \in 1..Len(h) : h[i] = n) \/ n = name
  <2>1. <<n, j>> \in schema <=>
            (\E i \in 1..Len(h) : h[i] = n) \/ (n = name /\ j < k)
    BY DEF SchemaUpTo
  <2>2. n = name => j < k
    BY <1>3
  <2>. QED
    BY <2>1, <2>2
<1>5. ASSUME NEW n
      PROVE  (\E i \in 1..Len(g) : g[i] = n) <=>
                (\E i \in 1..Len(h) : h[i] = n) \/ n = name
  <2>. HIDE DEF g, name
  <2>. QED
    BY <1>1, <1>2
<1>. HIDE DEF g, name
<1>6. SchemaUpTo(schema, g, r, 1)
  BY <1>4, <1>5, NothingYet
<1>. QED
  BY <1>6 DEF g, name

\* BEGIN, the history check and the statements of a migration.
LEMMA MigrationsKeep ==
    ASSUME TypeOK, LockInv, DiskInv, NEW c \in Processes, ProcessInv(c),
           BeginMigrations(c) \/ CheckHistory(c) \/ MigrationStatement(c)
    PROVE  DiskInv' /\ ProcessInv(c)'
<1>. USE HistoryTypes
<1>1. DiskInv'
  BY DiskKept DEF BeginMigrations, CheckHistory, MigrationStatement, Raise
<1>2. ASSUME pc'[c] \in Migrating, MigrationInv(c)' PROVE ProcessInv(c)'
  BY <1>2 DEF ProcessInv, UnitInv, ReleaseInv, RefusalInv, Migrating, Working
<1>3. CASE BeginMigrations(c)
  BY <1>1, <1>2, <1>3 DEF BeginMigrations, BeginImmediate, TypeOK, MigrationInv, Migrating
<1>4. CASE CheckHistory(c) /\ HistoryIsKnown(c)
  <2>1. /\ pc[c] = "history" /\ pc'[c] = "migrate"
        /\ UNCHANGED <<disk, view, release, statement>>
    BY <1>4 DEF CheckHistory, TypeOK
  <2>2. /\ view[c].catalog = disk.catalog /\ view[c].stock = disk.stock
        /\ view[c].history = disk.history /\ view[c].schema = disk.schema
        /\ statement[c] = 1
    BY <2>1 DEF ProcessInv, MigrationInv, Migrating
  <2>3. Store!Continues(view[c].history, disk.history)
    BY <2>2 DEF Store!Continues
  <2>4. SchemaUpTo(view[c].schema, view[c].history, release[c], statement[c])
    <3>. SUFFICES ASSUME NEW n \in Names, NEW j \in 1..StatementsOf[n]
                  PROVE  <<n, j>> \in view[c].schema <=>
                          \E i \in 1..Len(view[c].history) : view[c].history[i] = n
      BY <2>2, NothingYet
    <3>. QED
      BY <2>2 DEF DiskInv, SchemaMatchesHistory
  <2>. QED
    BY <1>1, <1>2, <1>4, <2>1, <2>2, <2>3, <2>4 DEF MigrationInv, Migrating, HistoryIsKnown
<1>5. CASE CheckHistory(c) /\ ~HistoryIsKnown(c)
  BY <1>5, RaiseKeeps DEF CheckHistory, InTransaction, Migrating, Errors
<1>6. CASE MigrationStatement(c)
  <2>. DEFINE h == view[c].history
              name == release[c][Len(h) + 1]
  <2>1. /\ pc[c] = "migrate" /\ pc' = pc /\ disk' = disk /\ release' = release
        /\ Len(h) < Len(release[c])
    BY <1>6 DEF MigrationStatement
  <2>2. /\ view[c].catalog = disk.catalog /\ view[c].stock = disk.stock
        /\ Store!Continues(release[c], h) /\ Store!Continues(h, disk.history)
        /\ SchemaUpTo(view[c].schema, view[c].history, release[c], statement[c])
    BY <2>1 DEF ProcessInv, MigrationInv, Migrating
  <2>3. name \in Names /\ StatementsOf[name] \in Nat
    BY <2>1, StorageAssumption
  <2>4. view \in [Processes -> Databases]
    BY DEF TypeOK
  <2>5. CASE /\ statement[c] <= StatementsOf[name]
             /\ view' = [view EXCEPT ![c].schema = @ \union {<<name, statement[c]>>}]
             /\ statement' = [statement EXCEPT ![c] = @ + 1]
    <3>1. /\ view'[c].history = h /\ view'[c].catalog = view[c].catalog
          /\ view'[c].stock = view[c].stock
          /\ view'[c].schema = view[c].schema \union {<<name, statement[c]>>}
          /\ statement'[c] = statement[c] + 1
      BY <2>4, <2>5 DEF Databases, TypeOK
    <3>2. h \in Seq(Names) /\ release[c] \in Seq(Names) /\ statement[c] \in Nat
      OBVIOUS
    <3>3. SchemaUpTo(view[c].schema \union {<<name, statement[c]>>}, h, release[c],
                     statement[c] + 1)
      <4>1. SchemaUpTo(view[c].schema, h, release[c], statement[c])
        BY <2>2
      <4>. HIDE DEF h
      <4>. QED
        BY ONLY <2>1, <3>2, <4>1, OneMoreStatement
    <3>4. SchemaUpTo(view'[c].schema, view'[c].history, release[c], statement'[c])
      BY <3>1, <3>3
    <3>. QED
      BY <1>1, <1>2, <2>1, <2>2, <3>1, <3>4 DEF MigrationInv, Migrating
  <2>6. CASE /\ statement[c] > StatementsOf[name]
             /\ view' = [view EXCEPT ![c].history = Append(@, name)]
             /\ statement' = [statement EXCEPT ![c] = 1]
    <3>1. /\ view'[c].history = Append(h, name) /\ view'[c].catalog = view[c].catalog
          /\ view'[c].stock = view[c].stock /\ view'[c].schema = view[c].schema
          /\ statement'[c] = 1
      BY <2>4, <2>6 DEF Databases, TypeOK
    <3>2. /\ Len(Append(h, name)) = Len(h) + 1 /\ Append(h, name)[Len(h) + 1] = name
          /\ \A i \in 1..Len(h) : Append(h, name)[i] = h[i]
      BY <2>3
    <3>3. Store!Continues(release[c], Append(h, name))
      <4>1. Len(h) \in Nat /\ Len(release[c]) \in Nat
        OBVIOUS
      <4>2. Store!Continues(release[c], h)
        BY <2>2
      <4>. HIDE DEF h
      <4>. QED
        BY ONLY <2>1, <3>2, <4>1, <4>2 DEF Store!Continues
    <3>4. Store!Continues(Append(h, name), disk.history)
      BY <2>2, <3>2 DEF Store!Continues
    <3>5. SchemaUpTo(view'[c].schema, view'[c].history, release[c], 1)
      <4>1. h \in Seq(Names) /\ release[c] \in Seq(Names) /\ statement[c] \in Nat
        OBVIOUS
      <4>2. SchemaUpTo(view[c].schema, h, release[c], statement[c])
        BY <2>2
      <4>3. SchemaUpTo(view[c].schema, Append(h, name), release[c], 1)
        <5>. HIDE DEF h
        <5>. QED
          BY ONLY <2>1, <2>6, <4>1, <4>2, MigrationDone
      <4>. QED
        BY <3>1, <4>3
    <3>. QED
      BY <1>1, <1>2, <2>1, <2>2, <3>1, <3>3, <3>4, <3>5 DEF MigrationInv, Migrating
  <2>. QED
    BY <1>6, <2>5, <2>6 DEF MigrationStatement
<1>. QED
  BY <1>3, <1>4, <1>5, <1>6

\* A record more: it is new, and so are those created before it in the unit.
LEMMA OneMoreRecord ==
    ASSUME NEW w, NEW k \in Nat \ {0}, NEW db, NEW records,
           CreatedSoFar(w, k, db, records), w[k].quantity \in 0..MaxInteger,
           \E row \in Store!Row(db.catalog, w[k].id) : row.status = "active",
           ~Store!Stocked(records, w[k].id)
    PROVE  CreatedSoFar(w, k + 1, db, records \union Store!Inserted(db.catalog, w[k]))
<1>1. 1..(k + 1 - 1) = 1..(k - 1) \union {k}
  OBVIOUS
<1>2. ~Store!Stocked(db.stock, w[k].id)
  BY DEF CreatedSoFar, Store!Stocked, Store!Row
<1>3. ASSUME NEW i \in 1..(k - 1) PROVE w[i].id # w[k].id
  <2>1. PICK row \in Store!Row(db.catalog, w[i].id) : TRUE
    BY DEF CreatedSoFar
  <2>. DEFINE record == [id |-> w[i].id, quantity |-> w[i].quantity, unit |-> row.unit]
  <2>2. record \in Store!Inserted(db.catalog, w[i])
    BY DEF Store!Inserted
  <2>3. record \in records /\ record.id = w[i].id
    BY <2>2 DEF CreatedSoFar
  <2>. HIDE DEF record
  <2>. QED
    BY <2>3 DEF Store!Stocked, Store!Row
<1>4. ASSUME NEW record
      PROVE  record \in records \union Store!Inserted(db.catalog, w[k]) <=>
                \/ record \in db.stock
                \/ \E i \in 1..(k + 1 - 1) : record \in Store!Inserted(db.catalog, w[i])
  BY <1>1 DEF CreatedSoFar
<1>. QED
  BY <1>1, <1>2, <1>3, <1>4 DEF CreatedSoFar

\* BEGIN, the look-up and the INSERT of a unit of work, and the catalog's writes.
LEMMA UnitsKeep ==
    ASSUME TypeOK, LockInv, DiskInv, NEW c \in Processes, ProcessInv(c),
           BeginUnit(c) \/ SelectProduct(c) \/ InsertRecord(c) \/ CatalogStatement(c)
    PROVE  DiskInv' /\ ProcessInv(c)'
<1>. USE HistoryTypes
<1>1. ASSUME pc'[c] \in Working, UnitInv(c)', ReleaseInv(c)' PROVE ProcessInv(c)'
  BY <1>1 DEF ProcessInv, MigrationInv, RefusalInv, Migrating, Working
<1>2. CASE BeginUnit(c)
  <2>1. /\ pc[c] = "open" /\ pc'[c] = "unit" /\ view'[c] = disk /\ statement'[c] = 1
        /\ disk' = disk /\ reported' = reported /\ release' = release
    BY <1>2 DEF BeginUnit, BeginImmediate, TypeOK
  <2>2. work'[c] \in Works /\ Len(work'[c]) \in Nat
    BY <1>2, StorageAssumption DEF BeginUnit, TypeOK
  <2>3. CreatedSoFar(work'[c], 1, disk, disk.stock)
    BY DEF CreatedSoFar
  <2>4. UnitInv(c)'
    BY <2>1, <2>2, <2>3 DEF UnitInv
  <2>5. ReleaseInv(c)'
    BY <2>1 DEF ReleaseInv, ProcessInv
  <2>. QED
    BY <1>1, <2>1, <2>4, <2>5, DiskKept DEF Working
<1>3. CASE SelectProduct(c)
  <2>. DEFINE item == work[c][statement[c]]
              rows == Store!Row(view[c].catalog, item.id)
  <2>1. /\ pc[c] = "unit" /\ lock = c /\ lock' = lock /\ statement[c] <= Len(work[c])
        /\ disk' = disk /\ reported' = reported
    BY <1>3 DEF SelectProduct, Raise, LockInv, InTransaction, Working
  <2>2. CASE /\ item.quantity >= 0 /\ rows # {}
             /\ \A row \in rows : row.status # "retired"
             /\ pc' = [pc EXCEPT ![c] = "insert"]
             /\ UNCHANGED <<disk, release, view, work, statement>>
    <3>1. pc'[c] = "insert"
      BY <2>2 DEF TypeOK
    <3>. HIDE DEF item, rows
    <3>2. UnitInv(c)'
      BY <2>1, <2>2, <3>1 DEF UnitInv, ProcessInv, Working, item, rows
    <3>3. ReleaseInv(c)'
      BY <2>1, <2>2, <3>1 DEF ReleaseInv, ProcessInv, Working
    <3>. QED
      BY <1>1, <2>1, <3>1, <3>2, <3>3, DiskKept DEF Working
  <2>3. CASE item.quantity < 0 /\ Raise(c, "quantity")
    BY <2>1, <2>3, RaiseKeeps DEF InTransaction, Working, Migrating, Errors
  <2>4. CASE rows = {} /\ Raise(c, "unknown")
    BY <2>1, <2>4, RaiseKeeps DEF InTransaction, Working, Migrating, Errors
  <2>5. CASE (\E row \in rows : row.status = "retired") /\ Raise(c, "retired")
    BY <2>1, <2>5, RaiseKeeps DEF InTransaction, Working, Migrating, Errors
  <2>6. work[c] \in Seq([id: Products, quantity: Int])
    OBVIOUS
  <2>7. item.quantity \in Int
    <3>1. statement[c] \in 1..Len(work[c])
      BY <2>1
    <3>2. item \in [id: Products, quantity: Int]
      BY <2>6, <3>1, ElementType
    <3>. QED
      BY <3>2
  <2>. DEFINE e == IF item.quantity < 0 THEN "quantity"
                   ELSE IF rows = {} THEN "unknown"
                   ELSE IF \E row \in rows : row.status = "retired" THEN "retired"
                   ELSE "none"
  <2>8. /\ e = "none" => /\ pc' = [pc EXCEPT ![c] = "insert"]
                         /\ UNCHANGED <<disk, release, view, work, statement>>
        /\ e # "none" => Raise(c, e)
    BY <1>3 DEF SelectProduct
  <2>. HIDE DEF item, rows
  <2>9. CASE item.quantity < 0
    BY <2>3, <2>8, <2>9
  <2>10. CASE ~(item.quantity < 0) /\ rows = {}
    BY <2>4, <2>8, <2>10
  <2>11. CASE /\ ~(item.quantity < 0) /\ rows # {}
              /\ \E row \in rows : row.status = "retired"
    BY <2>5, <2>8, <2>11
  <2>12. CASE /\ ~(item.quantity < 0) /\ rows # {}
              /\ ~\E row \in rows : row.status = "retired"
    <3>1. e = "none"
      BY <2>12
    <3>. QED
      BY <2>2, <2>7, <2>8, <2>12, <3>1
  <2>. QED
    BY ONLY <2>9, <2>10, <2>11, <2>12
<1>4. CASE InsertRecord(c)
  <2>. DEFINE item == work[c][statement[c]]
              new == view[c].stock \union Store!Inserted(view[c].catalog, item)
  <2>1. /\ pc[c] = "insert" /\ lock = c /\ lock' = lock
        /\ disk' = disk /\ reported' = reported
    BY <1>4 DEF InsertRecord, Raise, LockInv, InTransaction, Working
  <2>2. /\ view[c].history = disk.history /\ view[c].schema = disk.schema
        /\ view[c].catalog = disk.catalog
        /\ work[c] \in Works /\ statement[c] <= Len(work[c]) /\ item.quantity >= 0
        /\ CreatedSoFar(work[c], statement[c], disk, view[c].stock)
        /\ Store!Row(disk.catalog, item.id) # {}
        /\ \A row \in Store!Row(disk.catalog, item.id) : row.status # "retired"
    BY <2>1 DEF UnitInv, ProcessInv, Working
  <2>quantity. item.quantity \in Int
    <3>1. work[c] \in Seq([id: Products, quantity: Int]) /\ statement[c] \in Nat \ {0}
      OBVIOUS
    <3>2. statement[c] \in 1..Len(work[c])
      BY <2>2, <3>1
    <3>3. item \in [id: Products, quantity: Int]
      BY <3>1, <3>2, ElementType
    <3>. HIDE DEF item
    <3>. QED
      BY <3>3
  <2>3. CASE /\ item.quantity <= MaxInteger /\ ~BreaksConstraint(view[c], item.id)
             /\ view' = [view EXCEPT ![c].stock = new]
             /\ statement' = [statement EXCEPT ![c] = @ + 1]
             /\ pc' = [pc EXCEPT ![c] = "unit"]
             /\ UNCHANGED <<release, work>>
    <3>1. /\ view'[c].history = view[c].history /\ view'[c].schema = view[c].schema
          /\ view'[c].catalog = view[c].catalog /\ view'[c].stock = new
          /\ statement'[c] = statement[c] + 1 /\ pc'[c] = "unit"
      BY <2>3 DEF TypeOK, Databases
    <3>2. /\ \E row \in Store!Row(disk.catalog, item.id) : row.status = "active"
          /\ ~Store!Stocked(view[c].stock, item.id)
      <4>1. PICK row \in Store!Row(disk.catalog, item.id) : TRUE
        BY <2>2
      <4>2. row.status \in {"active", "retired"}
        BY <4>1 DEF Store!Row, Store!CatalogRow, TypeOK, Databases
      <4>. QED
        BY <2>2, <2>3, <4>1, <4>2 DEF BreaksConstraint
    <3>3. item.quantity \in 0..MaxInteger
      BY <2>2, <2>3, <2>quantity, StorageAssumption
    <3>4. CreatedSoFar(work[c], statement[c] + 1, disk, new)
      BY <2>2, <3>2, <3>3, OneMoreRecord
    <3>5. statement[c] + 1 <= Len(work[c]) + 1
      BY <2>2
    <3>. HIDE DEF item, new
    <3>6. UnitInv(c)'
      BY <2>1, <2>2, <2>3, <3>1, <3>4, <3>5 DEF UnitInv
    <3>7. ReleaseInv(c)'
      BY <2>1, <2>3, <3>1 DEF ReleaseInv, ProcessInv, Working
    <3>. QED
      BY <1>1, <2>1, <3>1, <3>6, <3>7, DiskKept DEF Working
  <2>4. CASE Raise(c, "overflow")
    BY <2>1, <2>4, RaiseKeeps DEF InTransaction, Working, Migrating, Errors
  <2>5. CASE BreaksConstraint(view[c], item.id) /\ Raise(c, "exists")
    <3>1. CASE Store!Stocked(view[c].stock, item.id)
      BY <2>1, <2>5, <3>1, RaiseKeeps DEF InTransaction, Working, Migrating, Errors
    <3>2. CASE \E row \in Store!Row(view[c].catalog, item.id) : row.status = "retired"
      BY <2>2, <3>2
    <3>. QED
      BY <2>5, <3>1, <3>2 DEF BreaksConstraint
  <2>. HIDE DEF item
  <2>6. CASE item.quantity > MaxInteger
    BY <1>4, <2>4, <2>6 DEF InsertRecord, item
  <2>7. CASE ~(item.quantity > MaxInteger)
    <3>1. item.quantity <= MaxInteger
      BY <2>7, <2>quantity, StorageAssumption
    <3>. QED
      BY <1>4, <2>3, <2>5, <2>7, <3>1 DEF InsertRecord, item
  <2>. QED
    BY <2>6, <2>7
<1>5. CASE CatalogStatement(c)
  <2>1. /\ pc[c] = "open" /\ pc' = pc /\ release' = release /\ reported' = reported
        /\ disk'.history = disk.history /\ disk'.schema = disk.schema
        /\ disk'.stock = disk.stock
    BY <1>5 DEF CatalogStatement, TypeOK, Databases
  <2>2. DiskInv'
    BY <2>1 DEF DiskInv, SchemaMatchesHistory
  <2>3. Store!Continues(disk'.history, release'[c])
    BY <2>1 DEF ProcessInv, ReleaseInv
  <2>. QED
    BY <2>1, <2>2, <2>3, OpenOwesItsSchema
<1>. QED
  BY <1>2, <1>3, <1>4, <1>5

-----------------------------------------------------------------------------
(* The inductive invariant and what follows from it.                       *)

\* The file is created empty and every process starts outside of it.
LEMMA InitInv == Init => IInv
<1>. SUFFICES ASSUME Init PROVE IInv
  OBVIOUS
<1>1. DiskInv
  BY DEF Init, NoDatabase, DiskInv, SchemaMatchesHistory
<1>2. LockInv
  BY StorageAssumption DEF Init, LockInv, InTransaction, Migrating, Working
<1>3. ASSUME NEW c \in Processes PROVE ProcessInv(c)
  BY DEF Init, ProcessInv, MigrationInv, UnitInv, ReleaseInv, RefusalInv, Migrating, Working
<1>. QED
  BY <1>1, <1>2, <1>3, InitTypes DEF IInv

\* Every step keeps the invariant.
LEMMA StepInv == IInv /\ [Next]_vars => IInv'
<1>. SUFFICES ASSUME IInv, [Next]_vars PROVE IInv'
  OBVIOUS
<1>. USE DEF IInv
<1>1. TypeOK'
  BY NextTypes
<1>2. CASE UNCHANGED vars
  <2>1. LockInv'
    BY <1>2 DEF vars, LockInv
  <2>2. DiskInv'
    BY <1>2 DEF vars, DiskInv, SchemaMatchesHistory
  <2>3. ASSUME NEW c \in Processes PROVE ProcessInv(c)'
    <3>1. ProcessInv(c)
      OBVIOUS
    <3>2. MigrationInv(c)' /\ UnitInv(c)'
      BY <1>2, <3>1 DEF vars, ProcessInv, MigrationInv, UnitInv
    <3>3. ReleaseInv(c)' /\ RefusalInv(c)'
      BY <1>2, <3>1 DEF vars, ProcessInv, ReleaseInv, RefusalInv
    <3>. QED
      BY <3>2, <3>3 DEF ProcessInv
  <2>. QED
    BY <1>1, <2>1, <2>2, <2>3
<1>3. ASSUME NEW c \in Processes, StepOf(c) PROVE IInv'
  <2>1. DiskInv' /\ ProcessInv(c)'
    <3>1. Commit(c) => pc[c] = "migrate" \/ pc[c] = "unit"
      BY DEF Commit, AtTheEnd
    <3>. QED
      BY <1>3, <3>1, OutsideSteps, FailuresKeep, MigrationCommits, UnitCommits,
         MigrationsKeep, UnitsKeep DEF StepOf
  <2>2. LockInv'
    BY <1>3, LockStep
  <2>3. ASSUME NEW d \in Processes, d # c PROVE ProcessInv(d)'
    BY <1>1, <1>3, <2>3, OthersKeep
  <2>. QED
    BY <1>1, <2>1, <2>2, <2>3
<1>. QED
  BY <1>2, <1>3 DEF Next, StepOf

\* The invariant holds in every reachable state.
THEOREM StorageInductive == Spec => []IInv
BY InitInv, StepInv, PTL DEF Spec

\* The types hold for every number of processes.
THEOREM StorageTypes == Spec => []TypeOK
<1>1. IInv => TypeOK
  BY DEF IInv
<1>. QED
  BY <1>1, StorageInductive, PTL

\* No crash, failing statement or rival process leaves a half-migrated file.
THEOREM SchemaIsWhole == Spec => []SchemaMatchesHistory
<1>1. IInv => SchemaMatchesHistory
  BY DEF IInv, DiskInv
<1>. QED
  BY <1>1, StorageInductive, PTL

\* A connection that was handed out has its release's schema under it for as
\* long as it is used, whatever other releases do to the file meanwhile.
THEOREM OpenIsUsable == Spec => []OpenIsMigrated
<1>1. IInv => OpenIsMigrated
  BY DEF IInv, OpenIsMigrated, LockInv, ProcessInv, ReleaseInv, InTransaction, Failed,
     Migrating, Working
<1>. QED
  BY <1>1, StorageInductive, PTL

\* What callers are told of their records, done or refused, is true.
THEOREM TruthfulAnswers == Spec => []AnswersAreTruthful
<1>1. IInv => AnswersAreTruthful
  BY DEF IInv, AnswersAreTruthful, DiskInv, ProcessInv, RefusalInv
<1>. QED
  BY <1>1, StorageInductive, PTL

-----------------------------------------------------------------------------
(* The file implements the abstract store.                                 *)

\* Two histories that continue each other are one.
LEMMA SameHistory ==
    ASSUME NEW S, NEW x \in Seq(S), NEW y \in Seq(S), Len(x) = Len(y),
           Store!Continues(x, y)
    PROVE  x = y
BY DEF Store!Continues

\* The COMMIT of a start-up is the abstract upgrade.
LEMMA CommitMigrates ==
    ASSUME IInv, NEW c \in Processes, Commit(c), pc[c] = "migrate"
    PROVE  Store!Migrate
<1>. USE HistoryTypes DEF IInv
<1>1. disk' = view[c] /\ Len(view[c].history) = Len(release[c])
  BY DEF Commit, AtTheEnd
<1>2. /\ view[c].catalog = disk.catalog /\ view[c].stock = disk.stock
      /\ Store!Continues(release[c], view[c].history)
      /\ Store!Continues(view[c].history, disk.history)
  BY DEF ProcessInv, MigrationInv, Migrating
<1>3. release[c] = view[c].history
  BY <1>1, <1>2, SameHistory
<1>4. release[c] \in Releases
  BY DEF TypeOK
<1>. QED
  BY <1>1, <1>2, <1>3, <1>4 DEF Store!Migrate

\* The COMMIT of a unit of work creates all its records at once.
LEMMA CommitCreates ==
    ASSUME IInv, NEW c \in Processes, Commit(c), pc[c] = "unit"
    PROVE  Store!CreateRecords
<1>. DEFINE w == work[c]
<1>1. /\ disk' = view[c] /\ lock = c /\ statement[c] > Len(w)
  BY DEF Commit, AtTheEnd, IInv, LockInv, InTransaction, Working
<1>2. /\ view[c].history = disk.history /\ view[c].catalog = disk.catalog
      /\ w \in Works /\ statement[c] <= Len(w) + 1
      /\ CreatedSoFar(w, statement[c], disk, view[c].stock)
  BY <1>1 DEF IInv, ProcessInv, UnitInv, Working
<1>3. statement[c] \in Nat /\ Len(w) \in Nat
  BY HistoryTypes DEF IInv
<1>. HIDE DEF w
<1>4. 1..(statement[c] - 1) = 1..Len(w)
  BY <1>1, <1>2, <1>3
<1>5. Store!MayCreate(w, disk.catalog, disk.stock)
  BY <1>2, <1>4 DEF CreatedSoFar, Store!MayCreate
<1>6. view[c].stock = disk.stock \union Store!RecordsOf(w, disk.catalog)
  <2>1. ASSUME NEW record
        PROVE  record \in view[c].stock <=>
                  \/ record \in disk.stock
                  \/ \E i \in 1..Len(w) : record \in Store!Inserted(disk.catalog, w[i])
    BY <1>2, <1>4 DEF CreatedSoFar
  <2>2. ASSUME NEW record
        PROVE  record \in Store!RecordsOf(w, disk.catalog) <=>
                  \E i \in 1..Len(w) : record \in Store!Inserted(disk.catalog, w[i])
    BY DEF Store!RecordsOf
  <2>. QED
    BY <2>1, <2>2
<1>. QED
  BY <1>1, <1>2, <1>5, <1>6 DEF Store!CreateRecords

\* Every step is a step of the abstract store or leaves it alone.
LEMMA StoreStepOrSame == IInv /\ [Next]_vars => disk' = disk \/ Store!StoreNext
<1>. SUFFICES ASSUME IInv, [Next]_vars, disk' # disk PROVE Store!StoreNext
  OBVIOUS
<1>1. PICK c \in Processes : StepOf(c)
  BY DEF Next, StepOf, vars
<1>2. CASE Commit(c)
  BY <1>2, CommitMigrates, CommitCreates DEF Commit, AtTheEnd, Store!StoreNext
<1>3. CASE CatalogStatement(c)
  BY <1>3 DEF CatalogStatement, IInv, TypeOK, Databases, Store!StoreNext, Store!ChangeCatalog
<1>4. CASE ~Commit(c) /\ ~CatalogStatement(c)
  BY <1>1, <1>4 DEF StepOf, BeginBusy, StatementFails, Rollback, CommitFails, Connect,
     BeginMigrations, CheckHistory, MigrationStatement, BeginUnit, SelectProduct, InsertRecord,
     Die, Raise
<1>. QED
  BY <1>2, <1>3, <1>4

LEMMA StoreStep == IInv /\ [Next]_vars => [Store!StoreNext]_(Store!store)
BY StoreStepOrSame DEF Store!store

\* Upgrades and units of work happen whole or not at all.
THEOREM ImplementsStore == Spec => StoreSpec
<1>1. Init => Store!StoreInit
  BY DEF Init, NoDatabase, Store!StoreInit
<1>. QED
  BY <1>1, StoreStep, StorageInductive, PTL DEF Spec, StoreSpec, Store!StoreSpec

-----------------------------------------------------------------------------
(* The stock can be read.                                                  *)

\* A change of the catalog keeps one row per product, and the key and the unit
\* of each product with a record.
LEMMA CatalogStepReadable ==
    ASSUME NEW rows \in SUBSET Store!CatalogRow, NEW records \in SUBSET Store!StockRow,
           NEW new \in Store!CatalogChanges(rows, records),
           \A r, s \in rows : r.id = s.id => r = s,
           \A x \in records : \E r \in rows : r.id = x.id /\ r.unit = x.unit
    PROVE  /\ \A r, s \in new : r.id = s.id => r = s
           /\ \A x \in records : \E r \in new : r.id = x.id /\ r.unit = x.unit
<1>1. CASE \E p \in Products, u \in StockUnits :
            /\ Store!Row(rows, p) = {}
            /\ new = rows \union {[id |-> p, unit |-> u, status |-> "active"]}
  BY <1>1 DEF Store!Row
<1>2. CASE \E row \in rows :
            new = (rows \ {row}) \union {[row EXCEPT !.status = "retired"]}
  <2>1. PICK row \in rows :
            new = (rows \ {row}) \union {[row EXCEPT !.status = "retired"]}
    BY <1>2
  <2>. DEFINE retired == [row EXCEPT !.status = "retired"]
  <2>2. retired.id = row.id /\ retired.unit = row.unit
    BY DEF Store!CatalogRow
  <2>3. new = (rows \ {row}) \union {retired}
    BY <2>1
  <2>. HIDE DEF retired
  <2>. QED
    BY <2>2, <2>3
<1>3. CASE \E row \in rows, u \in StockUnits :
            /\ ~Store!Stocked(records, row.id)
            /\ new = (rows \ {row}) \union {[row EXCEPT !.unit = u]}
  <2>1. PICK row \in rows, u \in StockUnits :
            /\ ~Store!Stocked(records, row.id)
            /\ new = (rows \ {row}) \union {[row EXCEPT !.unit = u]}
    BY <1>3
  <2>. DEFINE changed == [row EXCEPT !.unit = u]
  <2>2. changed.id = row.id
    BY DEF Store!CatalogRow
  <2>3. \A x \in records : x.id # row.id
    BY <2>1 DEF Store!Stocked, Store!Row
  <2>4. new = (rows \ {row}) \union {changed}
    BY <2>1
  <2>. HIDE DEF changed
  <2>. QED
    BY <2>2, <2>3, <2>4
<1>4. CASE \E row \in rows : ~Store!Stocked(records, row.id) /\ new = rows \ {row}
  BY <1>4 DEF Store!Stocked, Store!Row
<1>5. \/ \E p \in Products, u \in StockUnits :
            /\ Store!Row(rows, p) = {}
            /\ new = rows \union {[id |-> p, unit |-> u, status |-> "active"]}
      \/ \E row \in rows :
            new = (rows \ {row}) \union {[row EXCEPT !.status = "retired"]}
      \/ \E row \in rows, u \in StockUnits :
            /\ ~Store!Stocked(records, row.id)
            /\ new = (rows \ {row}) \union {[row EXCEPT !.unit = u]}
      \/ \E row \in rows : ~Store!Stocked(records, row.id) /\ new = rows \ {row}
  BY DEF Store!CatalogChanges
<1>. QED
  BY <1>1, <1>2, <1>3, <1>4, <1>5

\* A unit of work adds one record of each of its products, in the unit of the
\* product.
LEMMA RecordsReadable ==
    ASSUME NEW rows, NEW records, NEW w \in Seq([id: Products, quantity: Int]),
           Store!MayCreate(w, rows, records),
           \A r, s \in rows : r.id = s.id => r = s,
           \A x, y \in records : x.id = y.id => x = y,
           \A x \in records : \E r \in rows : r.id = x.id /\ r.unit = x.unit
    PROVE  /\ \A x, y \in records \union Store!RecordsOf(w, rows) : x.id = y.id => x = y
           /\ \A x \in records \union Store!RecordsOf(w, rows) :
                \E r \in rows : r.id = x.id /\ r.unit = x.unit
<1>1. ASSUME NEW x \in Store!RecordsOf(w, rows)
      PROVE  \E i \in 1..Len(w) : \E r \in rows :
                /\ r.id = w[i].id /\ x.id = w[i].id /\ x.unit = r.unit
                /\ x = [id |-> w[i].id, quantity |-> w[i].quantity, unit |-> r.unit]
  BY DEF Store!RecordsOf, Store!Inserted, Store!Row
<1>2. ASSUME NEW x \in Store!RecordsOf(w, rows), NEW y \in records PROVE x.id # y.id
  BY <1>1 DEF Store!MayCreate, Store!Stocked, Store!Row
<1>3. ASSUME NEW x \in Store!RecordsOf(w, rows), NEW y \in Store!RecordsOf(w, rows),
             x.id = y.id
      PROVE  x = y
  <2>1. PICK i \in 1..Len(w), r \in rows :
            /\ r.id = w[i].id /\ x.id = w[i].id
            /\ x = [id |-> w[i].id, quantity |-> w[i].quantity, unit |-> r.unit]
    BY <1>1
  <2>2. PICK j \in 1..Len(w), s \in rows :
            /\ s.id = w[j].id /\ y.id = w[j].id
            /\ y = [id |-> w[j].id, quantity |-> w[j].quantity, unit |-> s.unit]
    BY <1>1
  <2>3. i = j
    BY <1>3, <2>1, <2>2 DEF Store!MayCreate
  <2>4. r = s
    BY <2>1, <2>2, <2>3
  <2>. QED
    BY <2>1, <2>2, <2>3, <2>4, Zenon
<1>4. \A x \in Store!RecordsOf(w, rows) : \E r \in rows : r.id = x.id /\ r.unit = x.unit
  BY <1>1
<1>. DEFINE more == Store!RecordsOf(w, rows)
<1>5. ASSUME NEW x \in records \union more, NEW y \in records \union more, x.id = y.id
      PROVE  x = y
  BY <1>2, <1>3, <1>5
<1>. QED
  BY <1>4, <1>5

\* Whoever upgrades, changes the catalog or creates records, in any order: each
\* product has at most one record, and its unit is still the product's.
THEOREM StockReadable == Spec => []Store!StockIsReadable
<1>1. Init => Store!StockIsReadable
  BY DEF Init, NoDatabase, Store!StockIsReadable
<1>2. ASSUME IInv, Store!StockIsReadable, [Next]_vars PROVE Store!StockIsReadable'
  <2>1. /\ disk.catalog \in SUBSET Store!CatalogRow
        /\ disk.stock \in SUBSET Store!StockRow
    BY <1>2 DEF IInv, TypeOK, Databases
  <2>2. CASE disk' = disk
    BY <1>2, <2>2 DEF Store!StockIsReadable
  <2>3. CASE Store!Migrate
    BY <1>2, <2>3 DEF Store!Migrate, Store!StockIsReadable
  <2>4. CASE Store!ChangeCatalog
    BY <1>2, <2>1, <2>4, CatalogStepReadable DEF Store!ChangeCatalog, Store!StockIsReadable
  <2>5. CASE Store!CreateRecords
    <3>1. PICK w \in Works :
            /\ Store!MayCreate(w, disk.catalog, disk.stock)
            /\ disk'.stock = disk.stock \union Store!RecordsOf(w, disk.catalog)
      BY <2>5 DEF Store!CreateRecords
    <3>2. w \in Seq([id: Products, quantity: Int]) /\ disk'.catalog = disk.catalog
      BY <2>5, StorageAssumption DEF Store!CreateRecords
    <3>3. /\ \A r, s \in disk.catalog : r.id = s.id => r = s
          /\ \A x, y \in disk.stock : x.id = y.id => x = y
          /\ \A x \in disk.stock : \E r \in disk.catalog : r.id = x.id /\ r.unit = x.unit
      BY <1>2 DEF Store!StockIsReadable
    <3>. DEFINE new == disk.stock \union Store!RecordsOf(w, disk.catalog)
    <3>4. /\ \A x, y \in new : x.id = y.id => x = y
          /\ \A x \in new : \E r \in disk.catalog : r.id = x.id /\ r.unit = x.unit
      BY <3>1, <3>2, <3>3, RecordsReadable, Zenon
    <3>. QED
      BY <3>1, <3>2, <3>3, <3>4 DEF Store!StockIsReadable
  <2>6. disk' = disk \/ Store!StoreNext
    BY <1>2, StoreStepOrSame
  <2>. QED
    BY <2>2, <2>3, <2>4, <2>5, <2>6 DEF Store!StoreNext
<1>. QED
  BY <1>1, <1>2, StorageInductive, PTL DEF Spec

=============================================================================
