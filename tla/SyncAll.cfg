SPECIFICATION FairSpec
CONSTANTS
  NUM_THREADS = 3
  NUM_ITERATIONS = 2
  Phases <- AllPhases
  Nobody = Nobody
INVARIANTS TypeOK DisplaysTotal PhaseStartsUnlocked
PROPERTIES NoLostUpdate AllDisplayed
