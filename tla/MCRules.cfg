CONSTANTS
  FreeBytes=3
SPECIFICATION Spec
INVARIANTS
  AcceptedIsMineable
  WitnessCommitted
  AddressesAgree
  
  ArithmeticExact
  
CHECK_DEADLOCK FALSE
