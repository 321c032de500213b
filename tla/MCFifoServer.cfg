SPECIFICATION FairSpec
CONSTANTS
  c1 = c1
  c2 = c2
  Clients <- MCClients
  Server = server
  MaxRequests = 3
  Usages <- MCUsages
INVARIANTS TypeOK OwnAnswer StaysUp ServedInOrder
PROPERTIES InTimeIsAnswered TakenIsAnswered
CHECK_DEADLOCK FALSE
