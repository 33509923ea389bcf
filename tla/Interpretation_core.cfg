SPECIFICATION Spec
CONSTANTS
  Attributes <- MCAttributes
  Name = "name"
  Texts <- MCTexts
  NoText = "none"
  Words = {"rice", "gallo"}
  Absent = "absent"
  Normal <- MCNormal
  Files <- MCFiles
  Blank = {" "}
  Quantities = {0, 2}
  Other = Other
  Nothing = Nothing
  OtherPayloads <- MCOtherPayloads
INVARIANTS
  AcceptedIsMeant
  RejectionHasItsCause
CHECK_DEADLOCK FALSE
