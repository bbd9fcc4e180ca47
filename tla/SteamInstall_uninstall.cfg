SPECIFICATION FairSpec
CONSTANTS
  NoType = NoType
  NoFile = NoFile
  Short = Short
  Layouts <- MCLayout
  Wants <- MCWant
  Plugins <- MCPlugins
  MaxRequests = 1
  MaxMishaps = 0
PROPERTY UninstallEnds
CHECK_DEADLOCK FALSE
