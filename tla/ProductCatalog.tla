--------------------------- MODULE ProductCatalog ---------------------------
(***************************************************************************)
(* The product match of ADR-0006, which the Pi                             *)
(* (src/src/pi/operation_contract/products.py) and the PC                  *)
(* (src/src/pc/audio/catalog.py) each implement over their own copy of the *)
(* catalog file, with operators of its own here; normalize_attribute is    *)
(* the same text on both sides and one function.  A text stands for a      *)
(* spelling, a word for what normalize_attribute makes of it: spellings    *)
(* that differ in accents, case or punctuation share a word, and a text    *)
(* without letters or digits has none.  A file is a sequence of entries    *)
(* with an id, a row of attributes and the units the product is counted    *)
(* in; the PC ignores ids and units.                                       *)
(***************************************************************************)
EXTENDS Sequences, Integers

CONSTANTS Attributes,  \* ATTRIBUTES: name, brand, variant, presentation
          Name,        \* the one a description cannot lack
          Texts,       \* spellings of an attribute
          NoText,      \* None
          Words,       \* normalised values
          Absent,      \* what normalisation makes of an empty value
          Normal       \* normalize_attribute

ASSUME CatalogAssumption ==
  /\ Name \in Attributes
  /\ NoText \in Texts
  /\ Absent \notin Words
  /\ Normal \in [Texts -> Words \cup {Absent}]
  /\ Normal[NoText] = Absent

Descriptions == [Attributes -> Texts]

\* The attributes a description constrains: those with a word.
Wanted(description) == {a \in Attributes : Normal[description[a]] # Absent}

Agrees(row, description) ==
  \A a \in Wanted(description) : Normal[row[a]] = Normal[description[a]]

Candidates(description, file) ==
  {i \in DOMAIN file : Agrees(file[i].row, description)}

\* The statuses of ProductResolution and ProductMatch; there is no tie-break.
Insufficient(description) == Name \notin Wanted(description)

\* A mutated form: the first candidate breaks the tie.
IdentifiesFirst(description, file, i) ==
  /\ ~Insufficient(description)
  /\ i \in Candidates(description, file)
  /\ \A j \in Candidates(description, file) : i <= j
Identifies(description, file, i) ==
  /\ ~Insufficient(description)
  /\ Candidates(description, file) = {i}
Identified(description, file) ==
  \E i \in DOMAIN file : Identifies(description, file, i)

\* match_description of the PC: how many rows have every attribute that was said.
PcMatches(description, file) ==
  {i \in DOMAIN file : \A a \in Attributes :
     Normal[description[a]] # Absent => Normal[file[i].row[a]] = Normal[description[a]]}

\* Mutated form: several rows are as good as one.
PcFindsAny(description, file) ==
  Normal[description[Name]] # Absent /\ PcMatches(description, file) # {}
PcIdentified(description, file) ==
  /\ Normal[description[Name]] # Absent
  /\ \E i \in DOMAIN file : PcMatches(description, file) = {i}

\* load_catalog_entries of the PC: a list that is not empty, every row named.
PcReads(file) ==
  /\ file # << >>
  /\ \A i \in DOMAIN file : ~Insufficient(file[i].row)

\* CatalogProduct and _check_catalog of the Pi: ids are unique, every product
\* is named, counted in some unit, and identified by its own attributes.
PiReads(file) ==
  /\ \A i, j \in DOMAIN file : file[i].id = file[j].id => i = j
  /\ \A i \in DOMAIN file :
       /\ file[i].units # {}
       /\ Identifies(file[i].row, file, i)
=============================================================================
