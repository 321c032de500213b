SPECIFICATION FairSpec
CONSTANTS
  c1 = c1
  c2 = c2
  Clients <- MCClients
  Server = server
  MaxRequests = 2
  Usages <- OneTwice
PROPERTY SentIsAnswered
CHECK_DEADLOCK FALSE
