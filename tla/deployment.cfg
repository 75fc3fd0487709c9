SPECIFICATION FairSpec
CONSTANTS
  old = old
  new1 = new1
  new2 = new2
  Replicas = {old, new1, new2}
  Release <- Releases
  Environments <- GoodAndBad
  Requests <- TwoRequests
  None = None
  MaxInterruptions = 2
  Addresses = {"a", "b", "c"}
  Burst = 2
  MaxIPs = 2
  MaxEvents = 6
  Ticking = "tick"
  Restarting = "restart"
INVARIANTS
  TypeOK
  ServesOnlyWhenReady
  LedgerIsTruthful
  RegistrationIsDurable
  RegistrationsAreLimited
  PatientIsServed
PROPERTIES
  EventuallyServes
