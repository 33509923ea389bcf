------------------------------ MODULE Storage ------------------------------
(***************************************************************************)
(* The Raspberry Pi's SQLite file and the processes that open it: the one  *)
(* that owns it and, during an upgrade, a restart or by mistake, others,   *)
(* of the same or of another release. open_database connects and brings    *)
(* the schema up to date; create_stock_record joins the caller's           *)
(* transaction. SQLite itself is modelled by what the code relies on: one  *)
(* writer at a time (BEGIN IMMEDIATE), a transaction's statements visible  *)
(* to itself until COMMIT, a killed process's transaction gone. The        *)
(* write-ahead log is assumed to be in effect: COMMIT then waits for       *)
(* nobody, and one that fails has been rolled back.                        *)
(***************************************************************************)
EXTENDS Integers, Sequences

CONSTANTS Processes,
          Products, StockUnits, MaxInteger,
          Releases,     \* what MIGRATIONS is in each release: names, in order
          StatementsOf, \* how many statements a migration of each name has
          Works,        \* the units of work: sequences of [id, quantity]
          Free          \* no process holds the write lock

Names == DOMAIN StatementsOf

ASSUME StorageAssumption ==
    /\ Free \notin Processes
    /\ MaxInteger \in Nat
    /\ StatementsOf \in [Names -> Nat]
    /\ Releases \subseteq Seq(Names)
    /\ Works \subseteq Seq([id: Products, quantity: Int])

VARIABLES
    disk,      \* the committed database
    lock,      \* the process between BEGIN IMMEDIATE and COMMIT or ROLLBACK
    pc,        \* what each process is doing
    release,   \* the release it runs
    view,      \* the database as its transaction sees it
    work,      \* the records its unit of work is to create
    statement, \* the statement of its migration, or the item of work, it is at
    error,     \* the exception on its way out of the block
    reported   \* the records of the units of work that returned

vars == <<disk, lock, pc, release, view, work, statement, error, reported>>

Store == INSTANCE StockStore WITH
    history <- disk.history, catalog <- disk.catalog, stock <- disk.stock

NoDatabase == [history |-> <<>>, schema |-> {}, catalog |-> {}, stock |-> {}]

Migrating == {"history", "migrate"}
Working == {"unit", "insert"}
Errors == {"none", "history", "statement",
           "quantity", "unknown", "retired", "exists", "overflow"}

Init ==
    /\ disk = NoDatabase /\ lock = Free
    /\ pc = [c \in Processes |-> "closed"]
    /\ release \in [Processes -> Releases]
    /\ view = [c \in Processes |-> NoDatabase]
    /\ statement = [c \in Processes |-> 1]
    /\ work = [c \in Processes |-> <<>>]
    /\ error = [c \in Processes |-> "none"]
    /\ reported = {}

(***************************************************************************)
(* transaction                                                             *)
(***************************************************************************)

\* Mutated form: a deferred BEGIN takes no lock.
BeginDeferred(c) ==
    /\ UNCHANGED lock
    /\ view' = [view EXCEPT ![c] = disk]
    /\ statement' = [statement EXCEPT ![c] = 1]

\* BEGIN IMMEDIATE: what the block sees is what was committed. The migrations,
\* or the records, start from the first.
BeginImmediate(c) ==
    /\ lock = Free
    /\ lock' = c
    /\ view' = [view EXCEPT ![c] = disk]
    /\ statement' = [statement EXCEPT ![c] = 1]

\* BEGIN gives up after BUSY_TIMEOUT_SECONDS, outside the try: open_database
\* closes its connection, a unit of work has not begun.
BeginBusy(c) ==
    /\ lock \notin {Free, c}
    /\ pc[c] = "connected"
    /\ pc' = [pc EXCEPT ![c] = "closed"]
    /\ UNCHANGED <<disk, lock, release, view, work, statement, error, reported>>

\* An exception leaves the block: ROLLBACK comes next.
Raise(c, e) ==
    /\ pc' = [pc EXCEPT ![c] = IF @ \in Migrating THEN "migration_failed"
                                                  ELSE "unit_failed"]
    /\ error' = [error EXCEPT ![c] = e]
    /\ UNCHANGED <<disk, release, view, work, statement, reported>>

\* A statement fails (or the block is interrupted): SQLite may have rolled the
\* whole transaction back by itself.
StatementFails(c) ==
    /\ pc[c] \in Migrating \union Working
    /\ lock' \in {lock, Free}
    /\ Raise(c, "statement")

\* The call raises to its caller: open_database closes its connection first, a
\* unit of work leaves it open.
Return(c) ==
    /\ pc' = [pc EXCEPT ![c] = IF @ \in Migrating \union {"migration_failed"}
                               THEN "closed" ELSE "open"]
    /\ error' = [error EXCEPT ![c] = "none"]
    /\ view' = [view EXCEPT ![c] = NoDatabase]
    /\ work' = [work EXCEPT ![c] = <<>>]
    /\ statement' = [statement EXCEPT ![c] = 1]
    /\ UNCHANGED release

\* Mutated form: COMMIT whatever happened in the block.
CommitAnyway(c) ==
    /\ pc[c] \in {"migration_failed", "unit_failed"}
    /\ disk' = IF lock = c THEN view[c] ELSE disk
    /\ lock' = IF lock = c THEN Free ELSE lock
    /\ Return(c)
    /\ UNCHANGED reported

\* ROLLBACK and raise. With no transaction left ROLLBACK raises in its turn, and
\* the caller sees that error instead of the first.
Rollback(c) ==
    /\ pc[c] \in {"migration_failed", "unit_failed"}
    /\ lock' = IF lock = c THEN Free ELSE lock
    /\ Return(c)
    /\ UNCHANGED <<disk, reported>>

AtTheEnd(c) ==
    \/ pc[c] = "migrate" /\ Len(view[c].history) = Len(release[c])
    \/ pc[c] = "unit" /\ statement[c] > Len(work[c])

Commit(c) ==
    /\ AtTheEnd(c)
    /\ disk' = view[c]
    /\ lock' = Free
    /\ reported' = reported \union (view[c].stock \ disk.stock)
    /\ pc' = [pc EXCEPT ![c] = "open"]
    /\ view' = [view EXCEPT ![c] = NoDatabase]
    /\ work' = [work EXCEPT ![c] = <<>>]
    /\ statement' = [statement EXCEPT ![c] = 1]
    /\ UNCHANGED <<release, error>>

\* COMMIT is outside the try: nobody rolls back, SQLite has.
CommitFails(c) ==
    /\ AtTheEnd(c)
    /\ lock' = Free
    /\ Return(c)
    /\ UNCHANGED <<disk, reported>>

(***************************************************************************)
(* open_database                                                           *)
(***************************************************************************)

Connect(c) ==
    /\ pc[c] = "closed"
    /\ pc' = [pc EXCEPT ![c] = "connected"]
    /\ \E r \in Releases : release' = [release EXCEPT ![c] = r]
    /\ UNCHANGED <<disk, lock, view, work, statement, error, reported>>

BeginMigrations(c) ==
    /\ pc[c] = "connected"
    /\ BeginImmediate(c)
    /\ pc' = [pc EXCEPT ![c] = "history"]
    /\ UNCHANGED <<disk, release, work, error, reported>>

\* Mutated form: only the version numbers are compared.
VersionsAreKnown(c) == Len(view[c].history) <= Len(release[c])

\* applied = known[:len(applied)].
HistoryIsKnown(c) == Store!Continues(release[c], view[c].history)

CheckHistory(c) ==
    /\ pc[c] = "history"
    /\ UNCHANGED lock
    /\ IF HistoryIsKnown(c)
       THEN /\ pc' = [pc EXCEPT ![c] = "migrate"]
            /\ UNCHANGED <<disk, release, view, work, statement, error, reported>>
       ELSE Raise(c, "history")

\* The next statement of the next pending migration; after its last one the
\* migration is entered in the history. To create what exists fails, as any
\* statement may.
MigrationStatement(c) ==
    LET name == release[c][Len(view[c].history) + 1]
        object == <<name, statement[c]>>
    IN
    /\ pc[c] = "migrate" /\ Len(view[c].history) < Len(release[c])
    /\ \/ /\ statement[c] <= StatementsOf[name] /\ object \notin view[c].schema
          /\ view' = [view EXCEPT ![c].schema = @ \union {object}]
          /\ statement' = [statement EXCEPT ![c] = @ + 1]
       \/ /\ statement[c] > StatementsOf[name]
          /\ view' = [view EXCEPT ![c].history = Append(@, name)]
          /\ statement' = [statement EXCEPT ![c] = 1]
    /\ UNCHANGED <<disk, lock, pc, release, work, error, reported>>

(***************************************************************************)
(* Units of work on an open database                                       *)
(***************************************************************************)

BeginUnit(c) ==
    /\ pc[c] = "open"
    /\ BeginImmediate(c)
    /\ \E w \in Works : work' = [work EXCEPT ![c] = w]
    /\ pc' = [pc EXCEPT ![c] = "unit"]
    /\ UNCHANGED <<disk, release, error, reported>>

\* create_stock_record up to its INSERT: check_quantity and SELECT retired.
SelectProduct(c) ==
    LET item == work[c][statement[c]]
        rows == Store!Row(view[c].catalog, item.id)
        e == IF item.quantity < 0 THEN "quantity"
             ELSE IF rows = {} THEN "unknown"
             ELSE IF \E row \in rows : row.status = "retired" THEN "retired"
             ELSE "none"
    IN
    /\ pc[c] = "unit" /\ statement[c] <= Len(work[c])
    /\ UNCHANGED lock
    /\ IF e = "none"
       THEN /\ pc' = [pc EXCEPT ![c] = "insert"]
            /\ UNCHANGED <<disk, release, view, work, statement, error, reported>>
       ELSE Raise(c, e)

\* PRIMARY KEY, and the trigger that refuses a retired product.
BreaksConstraint(db, p) ==
    \/ Store!Stocked(db.stock, p)
    \/ \E row \in Store!Row(db.catalog, p) : row.status = "retired"

\* Mutated form: without the caller's transaction each INSERT commits by itself.
InsertAndCommit(c) ==
    LET item == work[c][statement[c]]
        record == Store!Inserted(view[c].catalog, item)
    IN
    /\ pc[c] = "insert" /\ UNCHANGED lock
    /\ IF item.quantity <= MaxInteger /\ ~BreaksConstraint(view[c], item.id)
       THEN /\ disk' = [disk EXCEPT !.stock = @ \union record]
            /\ view' = [view EXCEPT ![c].stock = @ \union record]
            /\ statement' = [statement EXCEPT ![c] = @ + 1]
            /\ pc' = [pc EXCEPT ![c] = "unit"]
            /\ UNCHANGED <<release, work, error, reported>>
       ELSE Raise(c, "statement")

\* INSERT ... SELECT. sqlite3 refuses an int that is no INTEGER of SQLite's; an
\* IntegrityError of whatever constraint is reported as an existing record.
InsertRecord(c) ==
    LET item == work[c][statement[c]]
        e == IF item.quantity > MaxInteger THEN "overflow"
             ELSE IF BreaksConstraint(view[c], item.id) THEN "exists"
             ELSE "none"
    IN
    /\ pc[c] = "insert"
    /\ UNCHANGED lock
    /\ IF e = "none"
       THEN /\ view' = [view EXCEPT ![c].stock =
                            @ \union Store!Inserted(view[c].catalog, item)]
            /\ statement' = [statement EXCEPT ![c] = @ + 1]
            /\ pc' = [pc EXCEPT ![c] = "unit"]
            /\ UNCHANGED <<disk, release, work, error, reported>>
       ELSE Raise(c, e)

\* The catalog's own writes (no code of this repository yet): one statement
\* each, by an open process, within the constraints of the schema.
CatalogStatement(c) ==
    /\ pc[c] = "open" /\ lock = Free
    /\ \E rows \in Store!CatalogChanges(disk.catalog, disk.stock) :
        disk' = [disk EXCEPT !.catalog = rows]
    /\ UNCHANGED <<lock, pc, release, view, work, statement, error, reported>>

\* A process ends, by itself or killed: what it had not committed is gone. The
\* next one in its place may run another release.
Die(c) ==
    /\ pc[c] # "closed"
    /\ lock' = IF lock = c THEN Free ELSE lock
    /\ pc' = [pc EXCEPT ![c] = "closed"]
    /\ view' = [view EXCEPT ![c] = NoDatabase]
    /\ statement' = [statement EXCEPT ![c] = 1]
    /\ work' = [work EXCEPT ![c] = <<>>]
    /\ error' = [error EXCEPT ![c] = "none"]
    /\ UNCHANGED <<disk, release, reported>>

Next ==
    \E c \in Processes :
        \/ BeginBusy(c) \/ StatementFails(c) \/ Rollback(c)
        \/ Commit(c) \/ CommitFails(c)
        \/ Connect(c) \/ BeginMigrations(c) \/ CheckHistory(c)
        \/ MigrationStatement(c)
        \/ BeginUnit(c) \/ SelectProduct(c) \/ InsertRecord(c)
        \/ CatalogStatement(c) \/ Die(c)

Spec == Init /\ [][Next]_vars

(***************************************************************************)
(* Properties                                                              *)
(***************************************************************************)

Databases == [history: Seq(Names), schema: SUBSET (Names \X (Nat \ {0})),
              catalog: SUBSET Store!CatalogRow, stock: SUBSET Store!StockRow]

\* Types, and that the lock is held by a process inside its transaction.
TypeOK ==
    /\ disk \in Databases
    /\ lock \in Processes \union {Free}
    /\ pc \in [Processes -> {"closed", "connected", "open", "migration_failed",
                             "unit_failed"} \union Migrating \union Working]
    /\ release \in [Processes -> Releases]
    /\ view \in [Processes -> Databases]
    /\ statement \in [Processes -> Nat \ {0}]
    /\ work \in [Processes -> Seq([id: Products, quantity: Int])]
    /\ error \in [Processes -> Errors]
    /\ reported \subseteq Store!StockRow

\* Crashes, failing statements and rival processes leave no half-migrated file:
\* what the history claims is in the schema, and nothing else is.
SchemaMatchesHistory ==
    \A name \in Names : \A j \in 1..StatementsOf[name] :
        <<name, j>> \in disk.schema <=>
            \E i \in 1..Len(disk.history) : disk.history[i] = name

\* A connection that open_database handed out, or that a unit of work gave
\* back, has its release's schema under it and holds no transaction open.
OpenIsMigrated ==
    \A c \in Processes : pc[c] = "open" =>
        /\ Store!Continues(disk.history, release[c])
        /\ lock # c

\* A caller may believe what it is told: a record reported as created stays,
\* and the reason given for a refusal is still the reason when it is given.
AnswersAreTruthful ==
    /\ reported \subseteq disk.stock
    /\ \A c \in Processes : pc[c] = "unit_failed" =>
        LET p == work[c][statement[c]].id IN
        /\ error[c] = "unknown" => Store!Row(disk.catalog, p) = {}
        /\ error[c] = "retired" =>
            \E row \in Store!Row(disk.catalog, p) : row.status = "retired"
        /\ error[c] = "exists" => Store!Stocked(disk.stock \union view[c].stock, p)

\* Whatever happens, the file behaves as the abstract store: schema upgrades
\* and units of work happen in one step, or not at all.
StoreSpec == Store!StoreSpec
=============================================================================
