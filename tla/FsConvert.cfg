SPECIFICATION Spec
CONSTANTS
  Types <- MCTypes
  None = None
  MountsAs <- MCMountsAs
  Plain <- MCPlain
  Layouts <- MCLayouts
  Requests <- MCRequests
  MaxMishaps = 2
INVARIANTS
  TypeOK
  DataKept
  TypeNoted
  Converted
  MountedAgain
