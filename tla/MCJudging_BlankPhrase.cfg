SPECIFICATION JudgingSpec
CONSTANTS
  Files <- AllFiles
  NoteTypes = {"no_contact", "discovery"}
  DealSpecificsApplicable = FALSE
  Width <- MCWidth
  Words <- MCWords
  MaxWords = 3
INVARIANT OutcomeBeforeSpend
\* A refused file stops the deployment.
CHECK_DEADLOCK FALSE
