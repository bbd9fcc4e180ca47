SPECIFICATION FairSpec
CONSTANTS
  None = None
  full = full
  nest = nest
  again = again
  inner = inner
  tools = tools
  outer = outer
  patch = patch
  wip = wip
  draft = draft
  broken = broken
  empty = empty
  ext = ext
  stray = stray
  back = back
  Packages = {full, nest, again, inner, tools, outer, patch, wip, draft, broken, empty, ext, stray, back}
  Kind <- MCKind
  Content <- MCContent
  Saved = {"SYSTEM", "DATA", "CACHE"}
  Needs = {full, nest, again, inner, tools, outer, wip, draft, broken, empty, ext, stray, back}
  MaxRequests = 2
  MaxMishaps = 2
INVARIANTS
  TypeOK
  SuccessMeansDone
  ErrorExplained
  PackageOwn
PROPERTY InstallationEnds
CHECK_DEADLOCK FALSE
