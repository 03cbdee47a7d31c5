SPECIFICATION Spec
CONSTANTS
  r1 = r1
  r2 = r2
  r3 = r3
  n1 = n1
  s1 = s1
  s2 = s2
  Nobody = Nobody
  Requests = {r1, r2, r3}
  Notes = {n1}
  Subjects = {s1, s2}
  NoteOf <- MCNoteOf
  SubjectOf <- MCSubjectOf
  Cap = 2
  AttemptTtl = 2
  RateHour = 1
  HourTtl = 1
  RateDay = 2
  DayTtl = 2
  Leftover = {2}
INVARIANTS
  CapsHold
  SlotTakenIffSent
  AttemptNumbersDistinct
PROPERTIES
  WindowsRunDown
SYMMETRY Symmetry
