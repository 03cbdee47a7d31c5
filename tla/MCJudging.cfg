SPECIFICATION JudgingSpec
CONSTANTS
  Files <- JudgingFiles
  NoteTypes = {"no_contact", "discovery"}
  DealSpecificsApplicable = FALSE
  Width <- MCWidth
  Words <- MCWords
  MaxWords = 3
INVARIANTS
  CompleteScoresFull
  OutcomeBeforeSpend
PROPERTIES
  BetterNeverScoresLower
  FillerKeepsOutcome
\* A refused file stops the deployment.
CHECK_DEADLOCK FALSE
