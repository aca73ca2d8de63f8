\* A read of a file, and a write that finds the file by its name alone.
SPECIFICATION TrackingSpec
CONSTANTS
  Names = {"a", "b", "x/b"}
  Files = {"a", "b"}
  Canonical <- const_Canonical
  Reached <- const_Reached
  CallIds = {i1, i2}
  Invocations <- const_Crossing
  Elsewhere = {}
  MaxCalls = 2
  MaxVersion = 1
SYMMETRY IdSymmetry
INVARIANT NothingOlderWhateverIsNamed
\* The model makes only so many calls.
CHECK_DEADLOCK FALSE
