\* One pod, created again twice and edited three times each; and a key that
\* no pod has.
SPECIFICATION FairSpec
CONSTANTS
  Names = {"a/b"}
  Keys = {"a", "a/b"}
  KeyOf <- OwnKeys
  MaxUid = 3
  MaxGen = 3
INVARIANTS TypeOK StartedOnce
PROPERTIES  EndIsReported
CHECK_DEADLOCK FALSE
