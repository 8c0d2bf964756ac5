SPECIFICATION LiveSpec
CONSTANTS
  c1 = c1
  n1 = n1
  k1 = k1
  v1 = v1
  CRs = {c1}
  Names = {n1}
  FsName <- OneName
  Claims = {k1}
  Volumes = {v1}
  ClaimOf <- OneClaim
  VolumeOf <- OneVolume
  Ids = {i1, i2}
  MaxMeddles = 1
  Other = Other
  OtherClaim = OtherClaim
  NoClaim = NoClaim
  NoId = NoId
  NoCR = NoCR
  Absent = Absent
INVARIANTS TypeOK VolInv
PROPERTIES ClearsOnlyStale SignalsFirst Mounts
CHECK_DEADLOCK FALSE
