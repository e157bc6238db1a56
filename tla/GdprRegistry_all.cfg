SPECIFICATION Spec
CONSTANTS
  profile = profile
  channel = channel
  data = data
  ghost = ghost
  Model <- Models
  Ghost <- ghost
  Column <- Columns
  Hub <- profile
  Offer <- Offers
  MaxSuspensions = 2
  Production = TRUE
INVARIANTS  ErasureIsComplete
CHECK_DEADLOCK FALSE
