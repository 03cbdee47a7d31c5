SPECIFICATION Spec
CONSTANTS
  r1 = r1
  r2 = r2
  r3 = r3
  n1 = n1
  s1 = s1
  s2 = s2
  Nobody = Nobody
  Requests = {r1, r2}
  Notes = {n1}
  Subjects = {s1, s2}
  NoteOf <- MCNoteOf
  SubjectOf <- MCSubjectOf
  Cap = 1
  AttemptTtl = 2
  RateHour = 2
  HourTtl = 1
  RateDay = 2
  DayTtl = 2
  Leftover = {1}
PROPERTIES
  PinnedCounterRepaired
