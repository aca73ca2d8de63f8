\* What the model still sees of the files it has read; a call on a minted session
\* together with any other request, the timeout, an edit of the configuration
\* and a restart.
SPECIFICATION RememberedSpec
CONSTANTS
  Names = {"a", "b", "x/b"}
  Files = {"a", "b"}
  Canonical <- const_Canonical
  Reached <- const_Reached
  CallIds = {i1, i2, i3}
  Invocations <- const_Invocations
  Elsewhere = {"b"}
  MaxCalls = 3
  MaxVersion = 1
  Handlers = {h1, h2}
  MaxIds = 1
  MaxBoots = 1
  Foreign = {}
  Unusable = unusable
  TTL = 1
  LegacyVersions = {v2025_11, v2025_03}
  Latest = v2025_11
  Oldest = v2025_03
  Modern = v2026_07
  NoVersion = none
SYMMETRY RememberedSymmetry
VIEW RememberedView
INVARIANTS NoReadOlderThanAWrite StaleNotesPointSomewhere
PROPERTIES TeardownKept ActiveStays VersionKept
\* The model makes only so many calls.
CHECK_DEADLOCK FALSE
