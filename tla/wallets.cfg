SPECIFICATION FairProvisioning
CONSTANTS
  Caller = {c1, c2, c3}
  MaxFaults = 1
  MaxOutlasting = 1
  MaxRecoveries = 1
INVARIANTS
  ProvisioningTypeOK
  CallsDoNotOverlap
PROPERTIES
  WalletBecomesReady
