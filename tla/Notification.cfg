SPECIFICATION Spec
CONSTANTS
  c1 = c1
  u1 = u1
  u2 = u2
  d1 = d1
  t1 = t1
  t2 = t2
  a1 = a1
  a2 = a2
  None = None
  Calls <- OneCall
  Users <- TwoUsers
  Devices <- OneDevice
  Tokens <- TwoTokens
  Addresses <- TwoAddresses
  MaxChanges = 3
INVARIANTS OptOutHonoured TokensWereLive DropsAreExcused AuditAgrees MailReachesAll
SYMMETRY Symmetry
CHECK_DEADLOCK FALSE
