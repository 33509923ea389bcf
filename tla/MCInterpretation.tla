-------------------------- MODULE MCInterpretation --------------------------
(***************************************************************************)
(* TLC instance of Interpretation: two attributes, two words, one of which *)
(* has two spellings, a text of punctuation only and a blank one; catalogs *)
(* with similar products, with a repeated row and with another unit.       *)
(***************************************************************************)
EXTENDS Interpretation

MCAttributes == {"name", "brand"}
MCTexts == {"rice", "RICE", "gallo", "--", " ", "none"}
MCNormal == [t \in MCTexts |->
               CASE t \in {"rice", "RICE"} -> "rice"
                 [] t = "gallo"            -> "gallo"
                 [] OTHER                  -> "absent"]

Row(name, brand) == [a \in MCAttributes |-> IF a = "name" THEN name ELSE brand]
Entry(id, row)   == [id |-> id, row |-> row, units |-> {"unit"}]

Gallo == Entry("p1", Row("rice", "gallo"))
Own   == Entry("p2", Row("RICE", "RICE"))
Plain == Entry("p3", Row("RICE", "none"))
ByKg  == [Gallo EXCEPT !.units = {"kg"}]

MCFiles == { << >>, <<Gallo>>, <<ByKg>>, <<Plain>>, <<Own, Gallo>>, <<Gallo, Own>>,
             <<Gallo, Plain>>, <<Gallo, [Gallo EXCEPT !.id = "p4"]>>,
             <<Gallo, [Own EXCEPT !.id = "p1"]>> }

Item(operation, product, quantity, unit) ==
  [operation |-> operation, product |-> product, quantity |-> quantity, unit |-> unit]
Items ==
  { Item("add_stock", Row("rice", "gallo"), 2, "unit"),
    Item("remove_stock", Row("RICE", "none"), 2, "unit"),
    Item("remove_stock", Row("none", "gallo"), 2, "unit"),
    Item(Other, Row("rice", "gallo"), 2, "unit"),
    Item("add_stock", Other, 2, "unit"),
    Item("add_stock", Row("rice", "gallo"), Other, "unit"),
    Item("add_stock", Row("rice", "gallo"), 2, Other) }
MCOtherPayloads ==
  {NoContract} \cup
  [version: {"1", "2"},
   operations: {<< >>} \cup {<<i>> : i \in Items} \cup {<<i, i>> : i \in Items},
   extra: {{}, {"recognized_text"}, {"product_id"}}]
=============================================================================
