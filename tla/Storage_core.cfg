SPECIFICATION Spec
CONSTANTS
    Processes = {a, b}
    Products = {"p1", "p2"}
    StockUnits = {"kg", "box"}
    MaxInteger = 1
    Releases <- MCReleases
    StatementsOf <- MCStatementsOf
    Works <- MCWorks
    Free = Free
SYMMETRY ProcessSymmetry
INVARIANTS
    SchemaMatchesHistory
    OpenIsMigrated
    AnswersAreTruthful
PROPERTIES
    StoreSpec
