SPECIFICATION FairSpec
CONSTANTS
  Containers = {c1, c2}
  Nobody = Nobody
  N = 4
  Restarts = FALSE
INVARIANTS
  TypeOK
  LockDiscipline
  OneAddressPerContainer
  LeaseBacksInterface
PROPERTIES
  NoLeakedLease
  ImplementsLeaseTable
  LockReleased
