SPECIFICATION Spec
CONSTANTS
  Files <- MCFiles
  NoteTypes = {"no_contact", "discovery"}
  DealSpecificsApplicable = FALSE
INVARIANTS
  AcceptedRubricScores
CHECK_DEADLOCK FALSE
