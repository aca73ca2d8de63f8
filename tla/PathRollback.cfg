\* A file created through a linked directory, and rolled back.
SPECIFICATION PathSpec
CONSTANTS
  Sites <- MCSites
  Spellings <- MCSpellings
  Bodies = {"two"}
  Beside <- MCBeside
  Kept = 2
  MaxLookups = 3
PROPERTY CreationUndone
CHECK_DEADLOCK FALSE
