SPECIFICATION FairSpec
CONSTANT Threads = {t1, t2, t3}
INVARIANTS
  Exclusive
PROPERTIES
  WritersFirst
  Progress
