SPECIFICATION FairMailSpec
CONSTANTS
  ann = ann
  w1 = w1
  w2 = w2
  None = None
  People <- ThePeople
  Phones = {}
  Founders = {}
  Policies <- ThePolicies
  Half = 1
  Allowance = 1
  Platform = Platform
  MaxEvents = 1
  MaxInvites = 1
  Workers <- TheWorkers
  MaxAttempts = 2
  MaxTries = 2
  MaxGenerations = 2
  MaxTroubles = 2
INVARIANTS
  MailTypeOK
  OneMailPerGeneration
  SentWasAccepted
PROPERTIES
  CanceledStaysCanceled
  WaitersAreServed
CHECK_DEADLOCK FALSE
