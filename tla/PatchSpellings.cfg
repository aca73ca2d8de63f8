\* One patch with two sections for one file, spelled in two ways.
SPECIFICATION Spec
CONSTANTS
  Handlers = {h1}
  Wanted = {}
  Files <- MCFiles
  Names <- MCRooted
  FileOf <- MCRootedFile
  PlanKey <- MCRootedKey
  Programs <- MCTwoSections
  Trees <- MCTrees
  Depths = {1}
  MaxCalls = 1
  MaxEvents = 0
PROPERTY EditsLand
CHECK_DEADLOCK FALSE
