----------------------------- MODULE StockStore -----------------------------
(***************************************************************************)
(* What the Raspberry Pi's database promises to the code that uses it,     *)
(* whoever else has the file open and whatever fails: a start-up brings    *)
(* the schema from one release to a later one in one step, a unit of work  *)
(* appears whole or not at all, and a stock record is counted in the unit  *)
(* of its product, is created once and never disappears.                   *)
(***************************************************************************)
EXTENDS Integers, Sequences

CONSTANTS Products,     \* product identifiers
          StockUnits,   \* units a product may be counted in
          Releases,     \* what MIGRATIONS is in each release of the code
          Works,        \* units of work: sequences of [id, quantity]
          MaxInteger    \* the largest INTEGER SQLite stores

VARIABLES history, catalog, stock
store == <<history, catalog, stock>>

\* known[:len(applied)] = applied: the only history apply_migrations accepts.
Continues(known, applied) ==
    /\ Len(applied) <= Len(known)
    /\ \A i \in 1..Len(applied) : applied[i] = known[i]

\* A row of catalog_products and a row of inventory_stock.
CatalogRow == [id: Products, unit: StockUnits, status: {"active", "retired"}]
StockRow == [id: Products, quantity: Nat, unit: StockUnits]

Row(rows, p) == {row \in rows : row.id = p}
Stocked(rows, p) == Row(rows, p) # {}

\* What a statement may make of the catalog: no two rows of one product, and
\* neither the key nor the unit of a row that a stock record refers to changes.
CatalogChanges(rows, records) ==
    {rows \union {[id |-> p, unit |-> u, status |-> "active"]} :
        p \in {p \in Products : Row(rows, p) = {}}, u \in StockUnits}
    \union {(rows \ {row}) \union {[row EXCEPT !.status = "retired"]} : row \in rows}
    \union {(rows \ {row}) \union {[row EXCEPT !.unit = u]} :
               row \in {row \in rows : ~Stocked(records, row.id)}, u \in StockUnits}
    \union {rows \ {row} : row \in {row \in rows : ~Stocked(records, row.id)}}

\* INSERT ... SELECT product_id, ?, stock_unit: the unit is the product's.
Inserted(rows, item) ==
    {[id |-> item.id, quantity |-> item.quantity, unit |-> row.unit] :
        row \in Row(rows, item.id)}

\* The records a whole unit of work stands for.
RecordsOf(w, rows) == UNION {Inserted(rows, w[i]) : i \in 1..Len(w)}

\* Every item is a new record of an active product, in an exact quantity.
MayCreate(w, rows, records) ==
    \A i \in 1..Len(w) :
        /\ w[i].quantity \in 0..MaxInteger
        /\ \E row \in Row(rows, w[i].id) : row.status = "active"
        /\ ~Stocked(records, w[i].id)
        /\ \A j \in 1..Len(w) : i # j => w[i].id # w[j].id

StoreInit == history = <<>> /\ catalog = {} /\ stock = {}

Migrate ==
    /\ \E r \in Releases : Continues(r, history) /\ history' = r
    /\ UNCHANGED <<catalog, stock>>

ChangeCatalog ==
    /\ catalog' \in CatalogChanges(catalog, stock)
    /\ UNCHANGED <<history, stock>>

CreateRecords ==
    /\ \E w \in Works :
        /\ MayCreate(w, catalog, stock)
        /\ stock' = stock \union RecordsOf(w, catalog)
    /\ UNCHANGED <<history, catalog>>

StoreNext == Migrate \/ ChangeCatalog \/ CreateRecords
StoreSpec == StoreInit /\ [][StoreNext]_store

\* The stock can be read: one row per product, at most one record of it, and
\* the record counts in the unit the product still has.
StockIsReadable ==
    /\ \A r, s \in catalog : r.id = s.id => r = s
    /\ \A x, y \in stock : x.id = y.id => x = y
    /\ \A x \in stock : \E r \in catalog : r.id = x.id /\ r.unit = x.unit
=============================================================================
