SPECIFICATION Spec
CONSTANTS
  Threads = {t1, t2}
  a = a
  b = b
  old = old
  new = new
  sbin = sbin
  Keys = {a, b}
  Values = {old, new}
  Settable = {new}
  NoValue = NoValue
  Garbage = Garbage
  ReadOnly <- MCReadOnly
  Files <- MCFiles
  MaxRestarts = 1
INVARIANTS
  TypeOK
  Saved
PROPERTY Atomic
