SPECIFICATION ProxySpec
CONSTANTS
  Kinds <- Every
  Sizes <- TwoSizes
  ClientKinds <- Two
  MaxRequests = 2
  MaxExposures = 3
  NumExposures = 2
  MaxTries = 2
INVARIANTS  UsedWhileOpen 
PROPERTIES ResizedWhenStopped AcquisitionRestored  
