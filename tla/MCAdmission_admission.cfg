SPECIFICATION AdmissionSpec
CONSTANTS
  mia = mia
  ann = ann
  bob = bob
  phone = phone
  People <- ThePeople
  Phones <- ThePhones
  Founders <- TheFounders
  Policies <- ThePolicies
  Half = 1
  Allowance = 1
  Platform = Platform
  MaxEvents = 6
  MaxInvites = 2
SYMMETRY Symmetry
INVARIANTS
  AdmissionTypeOK
  OneOpenInvitation
  NoInvitationToTheBlocked
PROPERTIES
  GrantsFitTheLimits
  PlaceIsKept
  StaleLinksDoNothing
CHECK_DEADLOCK FALSE
