SPECIFICATION Spec
CONSTANTS
  r1 = r1
  r2 = r2
  r3 = r3
  k1 = k1
  leadA = leadA
  leadB = leadB
  Nobody = Nobody
  Requests = {r1, r2}
  Keys = {k1}
  Leads = {leadA, leadB}
  KeyOf <- MCKeyOf
  LeadOf <- MCLeadOf
  Deadline = 1
  Grace = 1
  Multiplier = 3
  LongTtl = 4
  MaxSchema = 0
PROPERTIES
  ConfirmReplacesOwn
