SPECIFICATION InboxSpec
CONSTANTS
  n1 = n1
  n2 = n2
  n3 = n3
  u1 = u1
  u2 = u2
  Ids <- MCIds
  Recipients <- MCRecipients
  Reader = u1
  Times <- MCTimes
  Limit = 1
INVARIANTS PagingMissesNothing UnreadAreNew
SYMMETRY Symmetry
