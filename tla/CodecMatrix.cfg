SPECIFICATION Spec
CONSTANTS
  MATRIX <- CheckedIn
  Sources <- DriftedTables
  OtherNegatives <- NewNegatives
INVARIANTS
  VerdictIsRight
  BlameIsJust
  DriftNoticed
CHECK_DEADLOCK FALSE
