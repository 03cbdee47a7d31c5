SPECIFICATION Spec
CONSTANTS
  r1 = r1
  r2 = r2
  r3 = r3
  k1 = k1
  leadA = leadA
  leadB = leadB
  Nobody = Nobody
  Requests = {r1, r2, r3}
  Keys = {k1}
  Leads = {leadA, leadB}
  KeyOf <- MCKeyOf
  LeadOf <- MCLeadOf
  Deadline = 1
  Grace = 0
  Multiplier = 2
  LongTtl = 2
  MaxSchema = 1
SYMMETRY Symmetry
CHECK_DEADLOCK FALSE
INVARIANTS
  SingleFlight
  ReplayFaithful
  FailureReleases
PROPERTIES
  AnsweredJudgementKept
