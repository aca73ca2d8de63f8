\* Three files with lines that look alike, each with every patch its author
\* could make of it.
SPECIFICATION PatchSpec
CONSTANTS Patches <- MCAlike
INVARIANTS NamedLineIsChosen
\* A patch that is applied or refused is done with.
CHECK_DEADLOCK FALSE
