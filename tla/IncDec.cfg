SPECIFICATION FairSpec
CONSTANTS
  NUM_ITERATIONS = 3
  Nobody = Nobody
INVARIANTS TypeOK FinalValue DeletedUnused
PROPERTY Terminates
