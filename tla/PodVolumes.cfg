\* Two pods of one name, with volumes of every kind.
SPECIFICATION Spec
CONSTANTS
  Specs <- AllSpecs
  Objects = {"s", "c"}
  Keys = {"k1", "k2"}
  MaxPods = 2
  MaxLate = 1
INVARIANTS TypeOK ExactFiles RequiredIsMapped
CHECK_DEADLOCK FALSE
