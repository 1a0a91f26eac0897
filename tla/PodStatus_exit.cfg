\* Two containers: exit code 0 against how the script has ended.
SPECIFICATION Spec
CONSTANT N = 2
INVARIANTS CompletedMeansNoError
CHECK_DEADLOCK FALSE
