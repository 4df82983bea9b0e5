SPECIFICATION FairLeaseSpec
CONSTANTS
  Sessions = {s1, s2}
  Booters = {s1}
  Devices = {t}
  Template = t
  MaxEvents = 1
  None = None
INVARIANT
  LeasesAreKept
PROPERTIES
  BootedGoesDown
