SPECIFICATION ConnectionSpec
CONSTANTS
  Runs = 2
  Addresses <- ThreeAddresses
  kCaValidityDays = 2
  kServerValidityDays = 1
  LastDay = 2
  Lags <- ADayOff
INVARIANTS
  ConnectionTypeOK
PROPERTIES
  EncryptedIsGenuine
  UndisturbedEndsConnect
