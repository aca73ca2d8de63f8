\* Two calls of two handlers and a rollback, with a change from outside and a
\* reload; every patch of the collection; every edit of a small file; three
\* calls that spell paths in every way, the last of them one that looks.
SPECIFICATION ToolsSpec
CONSTANTS
  Handlers = {h1, h2}
  Wanted = {1, 2, 3, 4, 5, 6, 7, 8}
  Files <- MCFiles
  Names <- MCNames
  FileOf <- MCFileOf
  PlanKey <- MCPlanKey
  Programs <- MCPrograms
  Trees <- MCTrees
  Depths = {1, 2}
  MaxCalls = 3
  MaxEvents = 1
  Patches <- MCPatchCases
  Workspaces <- MCWorkspaces
  Modes = {"preserve", "lf", "crlf"}
  Given <- MCGiven
  Anchors <- MCAnchors
  Outsides <- MCOutsides
  Deep = {"b"}
  Masked = {"c"}
  MaxLine = 3
  Sites <- MCSites
  Spellings <- MCSpellings
  Bodies = {"two"}
  Beside <- MCBeside
  Kept = 2
  MaxLookups = 3
SYMMETRY Symmetry
INVARIANTS RollbackUndoes HistoryIsUndo PatchLands EditReadsBack OneConvention OneFileOneName
PROPERTIES RefusedUntouched EditsLand
\* The calls come to an end.
CHECK_DEADLOCK FALSE
