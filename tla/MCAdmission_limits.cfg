SPECIFICATION AdmissionSpec
CONSTANTS
  mia = mia
  ann = ann
  bob = bob
  phone = phone
  People <- ThePeople
  Phones <- ThePhones
  Founders <- TheFounders
  Policies <- ThePolicies
  Half = 1
  Allowance = 1
  Platform = Platform
  MaxEvents = 3
  MaxInvites = 2
PROPERTIES
  NewGrantsFitTheLimits
CHECK_DEADLOCK FALSE
