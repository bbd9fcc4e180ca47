SPECIFICATION FairSpec
CONSTANTS
  NoType = NoType
  NoFile = NoFile
  Short = Short
  Layouts <- MCLayouts
  Wants <- MCWant
  Plugins <- MCPlugins
  MaxRequests = 1
  MaxMishaps = 1
INVARIANTS
  TypeOK
  SystemKept
  SettingsKept
  UninstallSafe
  InstallNotSkipped
PROPERTY RequestsServed
